----------------------------- MODULE MCWebhookStore -----------------------------
(***************************************************************************)
(* Bounded instances of WebhookStore for TLC.                              *)
(***************************************************************************)
EXTENDS WebhookStore, TLC

\* Callers and manifests only compare equal or different.
Symmetry == Permutations(Callers) \cup Permutations(Manifests)

\* Once calls overlap, three Adds suffice; as long as none do, MaxAdds is the bound.
OverlappingAdds == 3
Bound == overlapped => adds <= OverlappingAdds

=============================================================================
