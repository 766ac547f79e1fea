---------------------------- MODULE MCAutoPromote ----------------------------
(***************************************************************************)
(* Instance of AutoPromote for TLC.                                        *)
(***************************************************************************)
EXTENDS AutoPromote, TLC

\* Calls of Resolve are interchangeable.
Symmetry == Permutations(Workers)
=============================================================================
