-------------------------- MODULE IdempotentIngest --------------------------
(***************************************************************************)
(* What the event pipeline promises for source event ids, apart from how   *)
(* requests interleave: an id is stored once, only a stored id has effects *)
(* or is acknowledged, and each forward target is reached for it by one    *)
(* delivery at most (docs/api-spec.md, section 7b, step 11).               *)
(***************************************************************************)
CONSTANTS Requests, Sources, Targets

VARIABLES
  stored,   \* source ids with an event row
  reached,  \* reached[s][t]: deliveries of s that reached target t
  acked     \* source ids some delivery of which was answered 202

ingestVars == <<stored, reached, acked>>

IngestInit ==
  /\ stored = {}
  /\ reached = [s \in Sources |-> [t \in Targets |-> {}]]
  /\ acked = {}

Store(s) ==
  /\ s \notin stored
  /\ stored' = stored \cup {s}
  /\ UNCHANGED <<reached, acked>>

Reach(s, t, r) ==
  /\ s \in stored
  /\ reached[s][t] = {}
  /\ reached' = [reached EXCEPT ![s][t] = {r}]
  /\ UNCHANGED <<stored, acked>>

Acknowledge(s) ==
  /\ s \in stored
  /\ acked' = acked \cup {s}
  /\ UNCHANGED <<stored, reached>>

IngestNext ==
  \E s \in Sources :
    \/ Store(s)
    \/ \E t \in Targets, r \in Requests : Reach(s, t, r)
    \/ Acknowledge(s)

IngestSpec == IngestInit /\ [][IngestNext]_ingestVars
=============================================================================
