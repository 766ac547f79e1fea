--------------------------- MODULE MCSkillConsole ---------------------------
(***************************************************************************)
(* Instance of SkillConsole for TLC.                                       *)
(***************************************************************************)
EXTENDS SkillConsole

CONSTANTS a, b

\* Two listeners, or none.
Lists == {<<>>, <<a, b>>}

\* The second listener has a skill, the first has none.
FirstRows == <<[id |-> 1, type |-> b, key |-> CHOOSE k \in ManualKeys : TRUE]>>
=============================================================================
