---------------------------- MODULE WebhookRegistry ----------------------------
(***************************************************************************)
(* What ancla.Service promises the webhook handlers: Add appends one       *)
(* registration, GetAll returns the registrations added so far, and each   *)
(* takes effect in one step.                                               *)
(***************************************************************************)
EXTENDS Sequences

CONSTANTS
    Callers,   \* handlers that may call the service at the same time
    Manifests  \* registrations

VARIABLES
    store,  \* the registrations, oldest first
    listing \* what each caller's last GetAll returned

vars == <<store, listing>>

Init ==
    /\ store = <<>>
    /\ listing = [c \in Callers |-> <<>>]

Add(m) ==
    /\ store' = Append(store, m)
    /\ UNCHANGED listing

GetAll(c) ==
    /\ listing' = [listing EXCEPT ![c] = store]
    /\ UNCHANGED store

Next == \E c \in Callers : GetAll(c) \/ \E m \in Manifests : Add(m)

Spec == Init /\ [][Next]_vars

=============================================================================
