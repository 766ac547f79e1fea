---------------------------- MODULE MCEventConsole ----------------------------
(***************************************************************************)
(* Instance of EventConsole for TLC.                                       *)
(***************************************************************************)
EXTENDS EventConsole

CONSTANTS a, b, e1, e3, urgent

\* Two events are the first listener's, one the second's.  The first is the
\* newest: a page of two has it and either of the others.
Owners == [e \in Events |-> IF e = e3 THEN b ELSE a]
Seconds == [e \in Events |-> IF e = e1 THEN 1 ELSE 0]

\* The other event of the first listener has a tag.
FirstRows ==
  {[e \in Events |-> [tag |-> IF e \in {e1, e3} THEN NoTag ELSE urgent, run |-> 0]]}
=============================================================================
