------------------------------ MODULE MCServer ------------------------------
(***************************************************************************)
(* Instances of FileSystemServer for TLC.                                  *)
(***************************************************************************)
EXTENDS ServerInvariant, TLC

\* IDs are interchangeable.
Symmetry == Permutations(IDs)
=============================================================================
