--------------------------- MODULE MCEventPipeline ---------------------------
(***************************************************************************)
(* Instance of EventPipeline for TLC.                                      *)
(***************************************************************************)
EXTENDS EventPipeline, TLC

\* Requests, rows and targets are interchangeable.  Used by the runs that
\* check no liveness.
Symmetry ==
  Permutations(Requests) \cup Permutations(EventIds) \cup Permutations(Targets)
=============================================================================
