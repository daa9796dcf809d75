----------------------------- MODULE MCJwtAcquirer -----------------------------
(***************************************************************************)
(* Bounded instance of JwtAcquirer for TLC; no symmetry, because the run   *)
(* has a liveness property.                                                *)
(***************************************************************************)
EXTENDS JwtAcquirer

=============================================================================
