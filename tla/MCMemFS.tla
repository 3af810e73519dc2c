------------------------------ MODULE MCMemFS ------------------------------
(***************************************************************************)
(* Instances of MemFS for TLC.                                             *)
(***************************************************************************)
EXTENDS MemFS, TLC

\* Names are interchangeable.
Symmetry == Permutations(Names)
=============================================================================
