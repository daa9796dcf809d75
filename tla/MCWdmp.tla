--------------------------------- MODULE MCWdmp ---------------------------------
(***************************************************************************)
(* Bounded instances of Wdmp for TLC.                                      *)
(***************************************************************************)
EXTENDS Wdmp

=============================================================================
