--------------------------- MODULE EventPipeline ---------------------------
(***************************************************************************)
(* The event pipeline of AgentHook: Processor.ProcessWebhook,              *)
(* Processor.ReprocessEvent and the processWithPolicy they share           *)
(* (internal/service/actions.go), over the event table of the store.       *)
(*                                                                         *)
(* A request is one HTTP request handled by one goroutine, in this         *)
(* instance or another one on the same database.  Every call that it makes *)
(* on the store or on an outside service is a step of its own, so requests *)
(* interleave between any two calls; the store's operations are atomic (a  *)
(* mutex in MemoryStore, one SQL statement in MySQLStore).  All events are *)
(* those of one account: the source event ids of two accounts never meet.  *)
(*                                                                         *)
(* What is abstracted: a payload is the source event id it carries, a      *)
(* decision is the set of forward targets its action posts to, and a value *)
(* written to a row is the request that wrote it.                          *)
(***************************************************************************)
EXTENDS Naturals

CONSTANTS
  Requests,    \* HTTP requests: webhook deliveries and calls of reprocess
  EventIds,    \* ids CreateEvent draws (uuid.NewString)
  Sources,     \* source event ids a payload can carry
  NoSource,    \* the empty source event id
  Targets,     \* forward targets of the account, of type http or telegram
  HttpTargets, \* those of type http
  Nobody,      \* a column no request has written yet
  NoEvent,     \* a request that has no event row
  MaxFaults    \* bound: crashes and failed store calls of a behaviour

ASSUME PipelineAssumption ==
  /\ NoSource \notin Sources
  /\ Nobody \notin Requests
  /\ NoEvent \notin EventIds
  /\ MaxFaults \in Nat

VARIABLES
  status,    \* status column of each row, "absent" before CreateEvent
  rowSrc,    \* source_event_id column
  markedBy,  \* the request whose status and action_selected the row holds
  textBy,    \* the request whose processed_text the row holds
  tagsBy,    \* the request whose tags_json the row holds
  enabled,   \* targets whose config says enabled
  pc,        \* where each request is
  kind,      \* "deliver" for ProcessWebhook, "reprocess" for ReprocessEvent
  src,       \* sourceEventID, local to ProcessWebhook
  ev,        \* event, local to processWithPolicy
  snap,      \* enabled targets of the list processWithPolicy read
  to,        \* targets the decision posts to
  todo,      \* targets of the decision not tried yet
  answer,    \* what the caller was told
  hits,      \* hits[r][t]: posts of request r that reached target t
  faults     \* faults so far

rowVars == <<status, rowSrc, markedBy, textBy, tagsBy>>
runVars == <<snap, to, todo, hits>>
vars == <<status, rowSrc, markedBy, textBy, tagsBy, enabled, pc, kind, src,
          ev, snap, to, todo, answer, hits, faults>>

Ended == {"done", "dead"}
Busy == {"find", "transform", "create", "load", "decide", "execute",
         "mark", "fail", "text", "tags"}

\* Rows that exist, and the row that carries source id s: s is a key.
Rows == {e \in EventIds : status[e] # "absent"}
RowsOf(s) == {e \in Rows : rowSrc[e] = s}

Init ==
  /\ status = [e \in EventIds |-> "absent"]
  /\ rowSrc = [e \in EventIds |-> NoSource]
  /\ markedBy = [e \in EventIds |-> Nobody]
  /\ textBy = [e \in EventIds |-> Nobody]
  /\ tagsBy = [e \in EventIds |-> Nobody]
  /\ enabled \in SUBSET Targets
  /\ pc = [r \in Requests |-> "idle"]
  /\ kind = [r \in Requests |-> "deliver"]
  /\ src = [r \in Requests |-> NoSource]
  /\ ev = [r \in Requests |-> NoEvent]
  /\ snap = [r \in Requests |-> {}]
  /\ to = [r \in Requests |-> {}]
  /\ todo = [r \in Requests |-> {}]
  /\ answer = [r \in Requests |-> "none"]
  /\ hits = [r \in Requests |-> [t \in Targets |-> 0]]
  /\ faults = 0

Goto(r, l) == pc' = [pc EXCEPT ![r] = l]
Answer(r, a) == Goto(r, "done") /\ answer' = [answer EXCEPT ![r] = a]
Fault == faults < MaxFaults /\ faults' = faults + 1

---------------------------------------------------------------------------
(***************************************************************************)
(* ProcessWebhook: duplicate lookup, transform, insert.                    *)
(***************************************************************************)

\* A delivery arrives; extractSourceEventID reads the id its payload carries.
ProcessWebhook(r) ==
  /\ pc[r] = "idle"
  /\ \E s \in Sources \cup {NoSource} :
       /\ src' = [src EXCEPT ![r] = s]
       /\ Goto(r, IF s = NoSource THEN "transform" ELSE "find")
  /\ kind' = [kind EXCEPT ![r] = "deliver"]
  /\ UNCHANGED <<rowVars, enabled, ev, runVars, answer, faults>>

\* FindEventBySourceEventID found a row: the delivery is a duplicate.
FindDuplicate(r) ==
  /\ pc[r] = "find"
  /\ \E e \in RowsOf(src[r]) : ev' = [ev EXCEPT ![r] = e]
  /\ Answer(r, "duplicate")
  /\ UNCHANGED <<rowVars, enabled, kind, src, runVars, faults>>

\* No row, or an error of the lookup, which the code takes for no row.
FindNothing(r) ==
  /\ pc[r] = "find"
  /\ \/ RowsOf(src[r]) = {} /\ UNCHANGED faults
     \/ RowsOf(src[r]) # {} /\ Fault
  /\ Goto(r, "transform")
  /\ UNCHANGED <<rowVars, enabled, kind, src, ev, runVars, answer>>

\* The active transform, if any, rewrites the payload; an id that only the
\* canonical payload carries is adopted, and no second lookup is made.
ApplyTransform(r) ==
  /\ pc[r] = "transform"
  /\ \E s \in Sources \cup {NoSource} :
       /\ src[r] # NoSource => s = src[r]
       /\ src' = [src EXCEPT ![r] = s]
  /\ Goto(r, "create")
  /\ UNCHANGED <<rowVars, enabled, kind, ev, runVars, answer, faults>>

\* Variant: a table without the unique key.
InsertableTwice(r, e) == e \notin Rows

\* The insert and its unique key (account, source event id); rows without a
\* source id are not subject to it.
Insertable(r, e) ==
  /\ e \notin Rows
  /\ src[r] # NoSource => RowsOf(src[r]) = {}

\* Variant: a status the rest of the code does not know.
InsertRowReceived(r, e) ==
  /\ status' = [status EXCEPT ![e] = "received"]
  /\ rowSrc' = [rowSrc EXCEPT ![e] = src[r]]
  /\ UNCHANGED <<markedBy, textBy, tagsBy>>

InsertRow(r, e) ==
  /\ status' = [status EXCEPT ![e] = "processing"]
  /\ rowSrc' = [rowSrc EXCEPT ![e] = src[r]]
  /\ UNCHANGED <<markedBy, textBy, tagsBy>>

CreateEvent(r) ==
  /\ pc[r] = "create"
  /\ \E e \in EventIds :
       /\ Insertable(r, e)
       /\ InsertRow(r, e)
       /\ ev' = [ev EXCEPT ![r] = e]
  /\ Goto(r, "load")
  /\ UNCHANGED <<enabled, kind, src, runVars, answer, faults>>

\* Variant: an upsert, the second delivery takes the row over and goes on.
CreateEventUpsert(r) ==
  /\ pc[r] = "create"
  /\ src[r] # NoSource
  /\ \E e \in RowsOf(src[r]) : ev' = [ev EXCEPT ![r] = e]
  /\ Goto(r, "load")
  /\ UNCHANGED <<rowVars, enabled, kind, src, runVars, answer, faults>>

\* The key is taken: CreateEvent fails and so does the request.
CreateEventConflict(r) ==
  /\ pc[r] = "create"
  /\ src[r] # NoSource /\ RowsOf(src[r]) # {}
  /\ Answer(r, "error")
  /\ UNCHANGED <<rowVars, enabled, kind, src, ev, runVars, faults>>

\* Variant: the error of the insert is dropped like those of the updates.
CreateEventErrorDropped(r) ==
  /\ pc[r] = "create"
  /\ Fault
  /\ Goto(r, "load")
  /\ UNCHANGED <<rowVars, enabled, kind, src, ev, runVars, answer>>

\* The database fails the insert, or fails after the row is in (the
\* connection drops before the result, the request's context is cancelled).
CreateEventFails(r) ==
  /\ pc[r] = "create"
  /\ Fault
  /\ \/ UNCHANGED rowVars
     \/ \E e \in EventIds : Insertable(r, e) /\ InsertRow(r, e)
  /\ Answer(r, "error")
  /\ UNCHANGED <<enabled, kind, src, ev, runVars>>

\* ReprocessEvent of a stored row, whatever its status, or its refusal (no
\* such event, its type is gone).
ReprocessEvent(r) ==
  /\ pc[r] = "idle"
  /\ \E e \in Rows : ev' = [ev EXCEPT ![r] = e]
  /\ Goto(r, "load")
  /\ kind' = [kind EXCEPT ![r] = "reprocess"]
  /\ UNCHANGED <<rowVars, enabled, src, runVars, answer, faults>>

ReprocessRefused(r) ==
  /\ pc[r] = "idle"
  /\ Answer(r, "error")
  /\ kind' = [kind EXCEPT ![r] = "reprocess"]
  /\ UNCHANGED <<rowVars, enabled, src, ev, runVars, faults>>

---------------------------------------------------------------------------
(***************************************************************************)
(* processWithPolicy.                                                      *)
(***************************************************************************)

\* ListForwardTargets; its error is dropped and leaves an empty list.
LoadTargets(r) ==
  /\ pc[r] = "load"
  /\ \/ snap' = [snap EXCEPT ![r] = enabled] /\ UNCHANGED faults
     \/ enabled # {} /\ Fault /\ UNCHANGED snap
  /\ Goto(r, "decide")
  /\ UNCHANGED <<rowVars, enabled, kind, src, ev, to, todo, answer, hits>>

\* Decisions that survive validateAndNormalizeDecision on the targets ts:
\* nothing to send (store_mysql, no_action, manual_review), one resolved
\* target, or forward_http without a key, which goes to all of type http.
Decisions(ts) == {{}} \cup {{t} : t \in ts} \cup {ts \cap HttpTargets}

\* Skills, type action, router and LLM decide; the list read before is used.
Decide(r) ==
  /\ pc[r] = "decide"
  /\ \E d \in Decisions(snap[r]) :
       /\ to' = [to EXCEPT ![r] = d]
       /\ todo' = [todo EXCEPT ![r] = d]
  /\ Goto(r, "execute")
  /\ UNCHANGED <<rowVars, enabled, kind, src, ev, snap, answer, hits, faults>>

\* One post of the loop of forwardHTTP, or the one of another action, that
\* the target answered, with any HTTP status.
Post(r) ==
  /\ pc[r] = "execute"
  /\ \E t \in todo[r] :
       /\ todo' = [todo EXCEPT ![r] = @ \ {t}]
       /\ hits' = [hits EXCEPT ![r][t] = @ + 1]
  /\ UNCHANGED <<rowVars, enabled, pc, kind, src, ev, snap, to, answer, faults>>

\* Variant: a failed post is tried again, though it may have got through.
PostRetries(r) ==
  /\ pc[r] = "execute"
  /\ \E t \in todo[r] : hits' = [hits EXCEPT ![r][t] = @ + 1]
  /\ UNCHANGED <<rowVars, enabled, pc, kind, src, ev, snap, to, todo, answer,
                 faults>>

\* Variant: the loop goes on after a failed post and forgets the error.
PostErrorDropped(r) ==
  /\ pc[r] = "execute"
  /\ \E t \in todo[r] :
       /\ todo' = [todo EXCEPT ![r] = @ \ {t}]
       /\ \/ hits' = [hits EXCEPT ![r][t] = @ + 1]
          \/ UNCHANGED hits
  /\ UNCHANGED <<rowVars, enabled, pc, kind, src, ev, snap, to, answer, faults>>

\* A post that returns an error ends the loop: the request could not be built
\* (no url, no secret), it never reached the target, or the target worked on it past the client's timeout.
PostFails(r) ==
  /\ pc[r] = "execute"
  /\ \E t \in todo[r] :
       /\ todo' = [todo EXCEPT ![r] = @ \ {t}]
       /\ \/ hits' = [hits EXCEPT ![r][t] = @ + 1]
          \/ UNCHANGED hits
  /\ Goto(r, "fail")
  /\ UNCHANGED <<rowVars, enabled, kind, src, ev, snap, to, answer, faults>>

\* Variant: an action without targets is waited for.
ExecuteWaits(r) ==
  /\ pc[r] = "execute"
  /\ todo[r] = {} /\ to[r] # {}
  /\ Goto(r, "mark")
  /\ UNCHANGED <<rowVars, enabled, kind, src, ev, runVars, answer, faults>>

ExecuteDone(r) ==
  /\ pc[r] = "execute"
  /\ todo[r] = {}
  /\ Goto(r, "mark")
  /\ UNCHANGED <<rowVars, enabled, kind, src, ev, runVars, answer, faults>>

\* UpdateEventStatus writes status and action; an error of it is dropped.
UpdateEventStatus(r, s) ==
  \/ /\ status' = [status EXCEPT ![ev[r]] = s]
     /\ markedBy' = [markedBy EXCEPT ![ev[r]] = r]
     /\ UNCHANGED <<rowSrc, textBy, tagsBy, faults>>
  \/ Fault /\ UNCHANGED rowVars

\* Variant: the error path returns before the status is written.
FailUnmarked(r) ==
  /\ pc[r] = "fail"
  /\ Answer(r, "error")
  /\ UNCHANGED <<rowVars, enabled, kind, src, ev, runVars, faults>>

MarkFailed(r) ==
  /\ pc[r] = "fail"
  /\ UpdateEventStatus(r, "failed")
  /\ Answer(r, "error")
  /\ UNCHANGED <<enabled, kind, src, ev, runVars>>

MarkProcessed(r) ==
  /\ pc[r] = "mark"
  /\ UpdateEventStatus(r, "processed")
  /\ Goto(r, "text")
  /\ UNCHANGED <<enabled, kind, src, ev, runVars, answer>>

\* UpdateEventProcessedText: an error is logged, the request goes on.
SaveProcessedText(r) ==
  /\ pc[r] = "text"
  /\ \/ textBy' = [textBy EXCEPT ![ev[r]] = r] /\ UNCHANGED faults
     \/ Fault /\ UNCHANGED textBy
  /\ Goto(r, "tags")
  /\ UNCHANGED <<status, rowSrc, markedBy, tagsBy, enabled, kind, src, ev,
                 runVars, answer>>

\* UpdateEventTags, only when the decision has tags; an error is logged.
SaveTags(r) ==
  /\ pc[r] = "tags"
  /\ \/ tagsBy' = [tagsBy EXCEPT ![ev[r]] = r] /\ UNCHANGED faults
     \/ UNCHANGED <<tagsBy, faults>>
     \/ Fault /\ UNCHANGED tagsBy
  /\ Answer(r, "accepted")
  /\ UNCHANGED <<status, rowSrc, markedBy, textBy, enabled, kind, src, ev,
                 runVars>>

---------------------------------------------------------------------------
(***************************************************************************)
(* The surroundings: the owner edits a target, an instance dies.           *)
(***************************************************************************)

\* CreateForwardTarget and UpdateForwardTarget, seen as the enabled flag.
UpdateForwardTarget ==
  /\ \E t \in Targets :
       \/ enabled' = enabled \cup {t}
       \/ enabled' = enabled \ {t}
  /\ UNCHANGED <<rowVars, pc, kind, src, ev, runVars, answer, faults>>

\* The instance that serves r stops (deploy, Lambda limit, panic): nothing
\* is written and the caller gets no answer.
Crash(r) ==
  /\ pc[r] \in Busy
  /\ Fault
  /\ Goto(r, "dead")
  /\ UNCHANGED <<rowVars, enabled, kind, src, ev, runVars, answer>>

Handle(r) ==
  \/ FindDuplicate(r) \/ FindNothing(r) \/ ApplyTransform(r)
  \/ CreateEvent(r) \/ CreateEventConflict(r) \/ CreateEventFails(r)
  \/ LoadTargets(r) \/ Decide(r) \/ Post(r) \/ PostFails(r) \/ ExecuteDone(r)
  \/ MarkFailed(r) \/ MarkProcessed(r) \/ SaveProcessedText(r) \/ SaveTags(r)

Arrive(r) == ProcessWebhook(r) \/ ReprocessEvent(r) \/ ReprocessRefused(r)

Next ==
  \/ \E r \in Requests : Arrive(r) \/ Handle(r) \/ Crash(r)
  \/ UpdateForwardTarget

Spec == Init /\ [][Next]_vars

\* A goroutine that is not killed runs on, and each call it waits for ends
\* (the HTTP client has a 5 s timeout, contexts bound the database calls).
FairSpec == Spec /\ \A r \in Requests : WF_vars(Handle(r))
---------------------------------------------------------------------------
(***************************************************************************)
(* Properties.                                                             *)
(***************************************************************************)

\* Type invariant.
TypeOK ==
  /\ status \in [EventIds -> {"absent", "processing", "processed", "failed"}]
  /\ rowSrc \in [EventIds -> Sources \cup {NoSource}]
  /\ markedBy \in [EventIds -> Requests \cup {Nobody}]
  /\ textBy \in [EventIds -> Requests \cup {Nobody}]
  /\ tagsBy \in [EventIds -> Requests \cup {Nobody}]
  /\ enabled \in SUBSET Targets
  /\ pc \in [Requests -> {"idle"} \cup Busy \cup Ended]
  /\ kind \in [Requests -> {"deliver", "reprocess"}]
  /\ src \in [Requests -> Sources \cup {NoSource}]
  /\ ev \in [Requests -> EventIds \cup {NoEvent}]
  /\ snap \in [Requests -> SUBSET Targets]
  /\ to \in [Requests -> SUBSET Targets]
  /\ todo \in [Requests -> SUBSET Targets]
  /\ answer \in [Requests -> {"none", "accepted", "duplicate", "error"}]
  /\ hits \in [Requests -> [Targets -> Nat]]
  /\ faults \in Nat

\* A source event id has at most one row, although the lookup and the insert
\* of ProcessWebhook are two calls and deliveries race between them.
UniqueSourceEvent ==
  \A e1, e2 \in Rows :
    rowSrc[e1] = rowSrc[e2] /\ rowSrc[e1] # NoSource => e1 = e2

\* Redeliveries are harmless: whatever the interleaving and the faults, a
\* target is reached at most once for a source event id by all deliveries of
\* it together; only ReprocessEvent sends it again.
AtMostOncePerTarget ==
  \A r1, r2 \in Requests, t \in Targets :
    /\ hits[r1][t] <= 1
    /\ /\ kind[r1] = "deliver" /\ kind[r2] = "deliver"
       /\ src[r1] = src[r2] /\ src[r1] # NoSource
       /\ hits[r1][t] > 0 /\ hits[r2][t] > 0
       => r1 = r2

\* Run r worked on row e and every post of its decision was answered.
CompletedRun(r, e) ==
  /\ r \in Requests
  /\ ev[r] = e
  /\ \A t \in to[r] : hits[r][t] = 1

\* A row shows results (status "processed", text, tags) only of runs on that
\* row whose whole fan-out succeeded, with concurrent reprocess runs too.
OnlyCompletedRunsShow ==
  \A e \in EventIds :
    /\ status[e] = "processed" => CompletedRun(markedBy[e], e)
    /\ textBy[e] # Nobody => CompletedRun(textBy[e], e)
    /\ tagsBy[e] # Nobody => CompletedRun(tagsBy[e], e)

\* A 202 is kept: "accepted" names a stored event whose action was carried
\* out, "duplicate" the row stored under the id the delivery carries.
AcknowledgedIsStored ==
  \A r \in Requests :
    /\ answer[r] = "accepted" => ev[r] \in Rows /\ CompletedRun(r, ev[r])
    /\ answer[r] = "duplicate" => ev[r] \in Rows /\ rowSrc[ev[r]] = src[r]

\* docs/api-spec.md, section 7: the pipeline's last step is "Persist final
\* status", so the row of an accepted delivery is no longer "processing".
FinalStatusPersisted ==
  \A r \in Requests :
    answer[r] = "accepted" => status[ev[r]] \in {"processed", "failed"}

\* Every request that starts ends, whatever its calls return.
EveryRequestEnds ==
  \A r \in Requests : pc[r] \in Busy ~> pc[r] \in Ended

\* A row stays in "processing" for ever only if a call failed or an instance
\* died: the paths of the code itself all lead to a final status.
RowsSettle ==
  \A e \in EventIds :
    status[e] = "processing" ~> (status[e] # "processing" \/ faults > 0)

\* Refinement of IdempotentIngest.
storedIds == {rowSrc[e] : e \in Rows} \ {NoSource}
reachedBy ==
  [s \in Sources |-> [t \in Targets |->
    {r \in Requests : kind[r] = "deliver" /\ src[r] = s /\ hits[r][t] > 0}]]
ackedIds ==
  {s \in Sources : \E r \in Requests :
     /\ kind[r] = "deliver" /\ src[r] = s
     /\ answer[r] \in {"accepted", "duplicate"}}

Ingest == INSTANCE IdempotentIngest
            WITH stored <- storedIds, reached <- reachedBy, acked <- ackedIds

\* The interleaved pipeline implements idempotent ingestion.
ImplementsIngest == Ingest!IngestSpec
=============================================================================
