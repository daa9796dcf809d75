------------------------------ MODULE MCTransactor ------------------------------
(***************************************************************************)
(* Bounded instances of Transactor for TLC.  Every module that TLC checks  *)
(* under fairness is checked without symmetry.                             *)
(***************************************************************************)
EXTENDS Transactor

=============================================================================
