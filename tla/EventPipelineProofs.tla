------------------------- MODULE EventPipelineProofs -------------------------
(***************************************************************************)
(* Proofs about EventPipeline, for any number of requests, rows, source    *)
(* ids, targets and faults.                                                *)
(***************************************************************************)
EXTENDS EventPipeline, TLAPS

---------------------------------------------------------------------------
(* The inductive invariant.                                                *)

\* Before its row, a request has no event, no answer and no effect.
Fresh ==
  \A r \in Requests :
    /\ pc[r] \in {"idle", "find", "transform", "create"} => ev[r] = NoEvent
    /\ pc[r] \in {"idle", "find", "transform", "create", "load", "decide"} =>
         \A t \in Targets : hits[r][t] = 0
    /\ answer[r] # "none" => pc[r] = "done"
    /\ pc[r] \in {"find", "transform", "create"} \/ answer[r] = "duplicate" =>
         kind[r] = "deliver"

\* After it, the event is a row, and for a delivery one with its source id.
HasRow ==
  \A r \in Requests :
    /\ pc[r] \in {"load", "decide", "execute", "mark", "fail", "text", "tags"}
         => ev[r] \in EventIds
    /\ ev[r] # NoEvent => status[ev[r]] # "absent"
    /\ ev[r] # NoEvent /\ kind[r] = "deliver" => rowSrc[ev[r]] = src[r]
    /\ answer[r] \in {"accepted", "duplicate"} => ev[r] \in EventIds

\* A delivery that inserted its row, and so may execute it.
Owner(r) == kind[r] = "deliver" /\ ev[r] # NoEvent /\ answer[r] # "duplicate"

OneOwner ==
  \A r1, r2 \in Requests :
    Owner(r1) /\ Owner(r2) /\ ev[r1] = ev[r2] => r1 = r2

\* Posts are made by owners and reprocess runs, at most once per target.
Effects ==
  \A r \in Requests, t \in Targets :
    /\ hits[r][t] <= 1
    /\ pc[r] = "execute" /\ t \in todo[r] => hits[r][t] = 0
    /\ hits[r][t] > 0 /\ kind[r] = "deliver" => Owner(r)

\* How much of the decision is carried out at each point.
Progress ==
  \A r \in Requests :
    /\ pc[r] = "execute" => \A t \in to[r] \ todo[r] : hits[r][t] = 1
    /\ pc[r] \in {"mark", "text", "tags"} \/ answer[r] = "accepted" =>
         \A t \in to[r] : hits[r][t] = 1

\* Run r is past its last post, and all of them were answered.
Finished(r, e) ==
  CompletedRun(r, e) /\ pc[r] \in {"text", "tags", "done", "dead"}

Shown ==
  \A e \in EventIds :
    /\ status[e] = "processed" => Finished(markedBy[e], e)
    /\ textBy[e] # Nobody => Finished(textBy[e], e)
    /\ tagsBy[e] # Nobody => Finished(tagsBy[e], e)

IInv ==
  /\ TypeOK
  /\ Fresh
  /\ HasRow
  /\ OneOwner
  /\ UniqueSourceEvent
  /\ Effects
  /\ Progress
  /\ Shown

---------------------------------------------------------------------------
(* Every action preserves the invariant: one lemma per action, one step    *)
(* per conjunct.                                                           *)

\* The status update keeps the types of what it writes.
LEMMA UpdateEventStatusType ==
  ASSUME NEW r \in Requests, NEW s \in {"processed", "failed"},
         TypeOK, UpdateEventStatus(r, s)
  PROVE  /\ status' \in [EventIds -> {"absent", "processing", "processed", "failed"}]
         /\ markedBy' \in [EventIds -> Requests \cup {Nobody}]
         /\ faults' \in Nat
<1>1. status' \in [EventIds -> {"absent", "processing", "processed", "failed"}]
  BY DEF UpdateEventStatus, rowVars, TypeOK
<1>2. markedBy' \in [EventIds -> Requests \cup {Nobody}]
  BY DEF UpdateEventStatus, rowVars, TypeOK
<1>3. faults' \in Nat
  BY DEF UpdateEventStatus, Fault, TypeOK
<1>4. QED BY <1>1, <1>2, <1>3

\* A delivery starts fresh: it has no event and no effect yet.
LEMMA ProcessWebhookStep == ASSUME NEW r \in Requests, IInv, ProcessWebhook(r) PROVE IInv'
<1> USE PipelineAssumption DEF IInv
<1>1. TypeOK'
  BY DEF ProcessWebhook, Goto, Answer, rowVars, runVars, Busy, Ended, TypeOK
<1>2. Fresh'
  BY DEF ProcessWebhook, Goto, Answer, rowVars, runVars, Busy, Ended, TypeOK, Fresh
<1>3. HasRow'
  BY DEF ProcessWebhook, Goto, Answer, rowVars, runVars, Busy, Ended, TypeOK, Fresh, HasRow, Rows
<1>4. OneOwner'
  BY DEF ProcessWebhook, Goto, Answer, rowVars, runVars, Busy, Ended, TypeOK, Fresh, HasRow, OneOwner, Owner
<1>5. UniqueSourceEvent'
  BY DEF ProcessWebhook, Goto, Answer, rowVars, runVars, Busy, Ended, TypeOK, UniqueSourceEvent, Rows, HasRow
<1>6. Effects'
  BY DEF ProcessWebhook, Goto, Answer, rowVars, runVars, Busy, Ended, TypeOK, Fresh, Effects, Owner
<1>7. Progress'
  BY DEF ProcessWebhook, Goto, Answer, rowVars, runVars, Busy, Ended, TypeOK, Fresh, Effects, Progress
<1>8. Shown'
  BY DEF ProcessWebhook, Goto, Answer, rowVars, runVars, Busy, Ended, TypeOK, Fresh, Progress, Shown, Finished, CompletedRun
<1>9. QED BY <1>1, <1>2, <1>3, <1>4, <1>5, <1>6, <1>7, <1>8

\* A reprocess run takes an existing row and is nobody's owner.
LEMMA ReprocessEventStep == ASSUME NEW r \in Requests, IInv, ReprocessEvent(r) PROVE IInv'
<1> USE PipelineAssumption DEF IInv
<1>1. TypeOK'
  BY DEF ReprocessEvent, Goto, Answer, rowVars, runVars, Busy, Ended, Rows, TypeOK
<1>2. Fresh'
  BY DEF ReprocessEvent, Goto, Answer, rowVars, runVars, Busy, Ended, Rows, TypeOK, Fresh
<1>3. HasRow'
  BY DEF ReprocessEvent, Goto, Answer, rowVars, runVars, Busy, Ended, Rows, TypeOK, Fresh, HasRow
<1>4. OneOwner'
  BY DEF ReprocessEvent, Goto, Answer, rowVars, runVars, Busy, Ended, Rows, TypeOK, Fresh, HasRow, OneOwner, Owner
<1>5. UniqueSourceEvent'
  BY DEF ReprocessEvent, Goto, Answer, rowVars, runVars, Busy, Ended, Rows, TypeOK, UniqueSourceEvent, HasRow
<1>6. Effects'
  BY DEF ReprocessEvent, Goto, Answer, rowVars, runVars, Busy, Ended, Rows, TypeOK, Fresh, Effects, Owner
<1>7. Progress'
  BY DEF ReprocessEvent, Goto, Answer, rowVars, runVars, Busy, Ended, Rows, TypeOK, Fresh, Effects, Progress
<1>8. Shown'
  BY DEF ReprocessEvent, Goto, Answer, rowVars, runVars, Busy, Ended, Rows, TypeOK, Fresh, Progress, Shown, Finished, CompletedRun
<1>9. QED BY <1>1, <1>2, <1>3, <1>4, <1>5, <1>6, <1>7, <1>8

\* A refused reprocess call has no event and no effect.
LEMMA ReprocessRefusedStep == ASSUME NEW r \in Requests, IInv, ReprocessRefused(r) PROVE IInv'
<1> USE PipelineAssumption DEF IInv
<1>1. TypeOK'
  BY DEF ReprocessRefused, Goto, Answer, rowVars, runVars, Busy, Ended, TypeOK
<1>2. Fresh'
  BY DEF ReprocessRefused, Goto, Answer, rowVars, runVars, Busy, Ended, TypeOK, Fresh
<1>3. HasRow'
  BY DEF ReprocessRefused, Goto, Answer, rowVars, runVars, Busy, Ended, TypeOK, Fresh, HasRow, Rows
<1>4. OneOwner'
  BY DEF ReprocessRefused, Goto, Answer, rowVars, runVars, Busy, Ended, TypeOK, Fresh, HasRow, OneOwner, Owner
<1>5. UniqueSourceEvent'
  BY DEF ReprocessRefused, Goto, Answer, rowVars, runVars, Busy, Ended, TypeOK, UniqueSourceEvent, Rows, HasRow
<1>6. Effects'
  BY DEF ReprocessRefused, Goto, Answer, rowVars, runVars, Busy, Ended, TypeOK, Fresh, Effects, Owner
<1>7. Progress'
  BY DEF ReprocessRefused, Goto, Answer, rowVars, runVars, Busy, Ended, TypeOK, Fresh, Effects, Progress
<1>8. Shown'
  BY DEF ReprocessRefused, Goto, Answer, rowVars, runVars, Busy, Ended, TypeOK, Fresh, Progress, Shown, Finished, CompletedRun
<1>9. QED BY <1>1, <1>2, <1>3, <1>4, <1>5, <1>6, <1>7, <1>8

\* A duplicate names a row of its own source id, and owns nothing.
LEMMA FindDuplicateStep == ASSUME NEW r \in Requests, IInv, FindDuplicate(r) PROVE IInv'
<1> USE PipelineAssumption DEF IInv
<1>1. TypeOK'
  BY DEF FindDuplicate, Goto, Answer, rowVars, runVars, Busy, Ended, Rows, RowsOf, TypeOK
<1>2. Fresh'
  BY DEF FindDuplicate, Goto, Answer, rowVars, runVars, Busy, Ended, Rows, RowsOf, TypeOK, Fresh
<1>3. HasRow'
  BY DEF FindDuplicate, Goto, Answer, rowVars, runVars, Busy, Ended, Rows, RowsOf, TypeOK, Fresh, HasRow
<1>4. OneOwner'
  BY DEF FindDuplicate, Goto, Answer, rowVars, runVars, Busy, Ended, Rows, RowsOf, TypeOK, Fresh, HasRow, OneOwner, Owner
<1>5. UniqueSourceEvent'
  BY DEF FindDuplicate, Goto, Answer, rowVars, runVars, Busy, Ended, Rows, RowsOf, TypeOK, UniqueSourceEvent, HasRow
<1>6. Effects'
  BY DEF FindDuplicate, Goto, Answer, rowVars, runVars, Busy, Ended, Rows, RowsOf, TypeOK, Fresh, Effects, Owner
<1>7. Progress'
  BY DEF FindDuplicate, Goto, Answer, rowVars, runVars, Busy, Ended, Rows, RowsOf, TypeOK, Fresh, Effects, Progress
<1>8. Shown'
  BY DEF FindDuplicate, Goto, Answer, rowVars, runVars, Busy, Ended, Rows, RowsOf, TypeOK, Fresh, Progress, Shown, Finished, CompletedRun
<1>9. QED BY <1>1, <1>2, <1>3, <1>4, <1>5, <1>6, <1>7, <1>8

\* A lookup without result changes no row.
LEMMA FindNothingStep == ASSUME NEW r \in Requests, IInv, FindNothing(r) PROVE IInv'
<1> USE PipelineAssumption DEF IInv
<1>1. TypeOK'
  BY DEF FindNothing, Goto, Answer, rowVars, runVars, Busy, Ended, Rows, RowsOf, Fault, TypeOK
<1>2. Fresh'
  BY DEF FindNothing, Goto, Answer, rowVars, runVars, Busy, Ended, Rows, RowsOf, Fault, TypeOK, Fresh
<1>3. HasRow'
  BY DEF FindNothing, Goto, Answer, rowVars, runVars, Busy, Ended, Rows, RowsOf, Fault, TypeOK, Fresh, HasRow
<1>4. OneOwner'
  BY DEF FindNothing, Goto, Answer, rowVars, runVars, Busy, Ended, Rows, RowsOf, Fault, TypeOK, Fresh, HasRow, OneOwner, Owner
<1>5. UniqueSourceEvent'
  BY DEF FindNothing, Goto, Answer, rowVars, runVars, Busy, Ended, Rows, RowsOf, Fault, TypeOK, UniqueSourceEvent, HasRow
<1>6. Effects'
  BY DEF FindNothing, Goto, Answer, rowVars, runVars, Busy, Ended, Rows, RowsOf, Fault, TypeOK, Fresh, Effects, Owner
<1>7. Progress'
  BY DEF FindNothing, Goto, Answer, rowVars, runVars, Busy, Ended, Rows, RowsOf, Fault, TypeOK, Fresh, Effects, Progress
<1>8. Shown'
  BY DEF FindNothing, Goto, Answer, rowVars, runVars, Busy, Ended, Rows, RowsOf, Fault, TypeOK, Fresh, Progress, Shown, Finished, CompletedRun
<1>9. QED BY <1>1, <1>2, <1>3, <1>4, <1>5, <1>6, <1>7, <1>8

\* The id may still change here: the request has no row yet.
LEMMA ApplyTransformStep == ASSUME NEW r \in Requests, IInv, ApplyTransform(r) PROVE IInv'
<1> USE PipelineAssumption DEF IInv
<1>1. TypeOK'
  BY DEF ApplyTransform, Goto, Answer, rowVars, runVars, Busy, Ended, TypeOK
<1>2. Fresh'
  BY DEF ApplyTransform, Goto, Answer, rowVars, runVars, Busy, Ended, TypeOK, Fresh
<1>3. HasRow'
  BY DEF ApplyTransform, Goto, Answer, rowVars, runVars, Busy, Ended, TypeOK, Fresh, HasRow, Rows
<1>4. OneOwner'
  BY DEF ApplyTransform, Goto, Answer, rowVars, runVars, Busy, Ended, TypeOK, Fresh, HasRow, OneOwner, Owner
<1>5. UniqueSourceEvent'
  BY DEF ApplyTransform, Goto, Answer, rowVars, runVars, Busy, Ended, TypeOK, UniqueSourceEvent, Rows, HasRow
<1>6. Effects'
  BY DEF ApplyTransform, Goto, Answer, rowVars, runVars, Busy, Ended, TypeOK, Fresh, Effects, Owner
<1>7. Progress'
  BY DEF ApplyTransform, Goto, Answer, rowVars, runVars, Busy, Ended, TypeOK, Fresh, Effects, Progress
<1>8. Shown'
  BY DEF ApplyTransform, Goto, Answer, rowVars, runVars, Busy, Ended, TypeOK, Fresh, Progress, Shown, Finished, CompletedRun
<1>9. QED BY <1>1, <1>2, <1>3, <1>4, <1>5, <1>6, <1>7, <1>8

\* The insert makes the request the one owner of a new row.
LEMMA CreateEventStep == ASSUME NEW r \in Requests, IInv, CreateEvent(r) PROVE IInv'
<1> USE PipelineAssumption DEF IInv
<1>1. TypeOK'
  BY DEF CreateEvent, Goto, Answer, rowVars, runVars, Busy, Ended, Insertable, InsertRow, Rows, RowsOf, TypeOK
<1>2. Fresh'
  BY DEF CreateEvent, Goto, Answer, rowVars, runVars, Busy, Ended, Insertable, InsertRow, Rows, RowsOf, TypeOK, Fresh
<1>3. HasRow'
  BY DEF CreateEvent, Goto, Answer, rowVars, runVars, Busy, Ended, Insertable, InsertRow, Rows, RowsOf, TypeOK, Fresh, HasRow
<1>4. OneOwner'
  BY DEF CreateEvent, Goto, Answer, rowVars, runVars, Busy, Ended, Insertable, InsertRow, Rows, RowsOf, TypeOK, Fresh, HasRow, OneOwner, Owner
<1>5. UniqueSourceEvent'
  BY DEF CreateEvent, Goto, Answer, rowVars, runVars, Busy, Ended, Insertable, InsertRow, Rows, RowsOf, TypeOK, UniqueSourceEvent, HasRow
<1>6. Effects'
  BY DEF CreateEvent, Goto, Answer, rowVars, runVars, Busy, Ended, Insertable, InsertRow, Rows, RowsOf, TypeOK, Fresh, Effects, Owner
<1>7. Progress'
  BY DEF CreateEvent, Goto, Answer, rowVars, runVars, Busy, Ended, Insertable, InsertRow, Rows, RowsOf, TypeOK, Fresh, Effects, Progress
<1>8. Shown'
  BY DEF CreateEvent, Goto, Answer, rowVars, runVars, Busy, Ended, Insertable, InsertRow, Rows, RowsOf, TypeOK, Fresh, Progress, Shown, Finished, CompletedRun
<1>9. QED BY <1>1, <1>2, <1>3, <1>4, <1>5, <1>6, <1>7, <1>8

\* A conflict leaves the rows and owns nothing.
LEMMA CreateEventConflictStep == ASSUME NEW r \in Requests, IInv, CreateEventConflict(r) PROVE IInv'
<1> USE PipelineAssumption DEF IInv
<1>1. TypeOK'
  BY DEF CreateEventConflict, Goto, Answer, rowVars, runVars, Busy, Ended, Rows, RowsOf, TypeOK
<1>2. Fresh'
  BY DEF CreateEventConflict, Goto, Answer, rowVars, runVars, Busy, Ended, Rows, RowsOf, TypeOK, Fresh
<1>3. HasRow'
  BY DEF CreateEventConflict, Goto, Answer, rowVars, runVars, Busy, Ended, Rows, RowsOf, TypeOK, Fresh, HasRow
<1>4. OneOwner'
  BY DEF CreateEventConflict, Goto, Answer, rowVars, runVars, Busy, Ended, Rows, RowsOf, TypeOK, Fresh, HasRow, OneOwner, Owner
<1>5. UniqueSourceEvent'
  BY DEF CreateEventConflict, Goto, Answer, rowVars, runVars, Busy, Ended, Rows, RowsOf, TypeOK, UniqueSourceEvent, HasRow
<1>6. Effects'
  BY DEF CreateEventConflict, Goto, Answer, rowVars, runVars, Busy, Ended, Rows, RowsOf, TypeOK, Fresh, Effects, Owner
<1>7. Progress'
  BY DEF CreateEventConflict, Goto, Answer, rowVars, runVars, Busy, Ended, Rows, RowsOf, TypeOK, Fresh, Effects, Progress
<1>8. Shown'
  BY DEF CreateEventConflict, Goto, Answer, rowVars, runVars, Busy, Ended, Rows, RowsOf, TypeOK, Fresh, Progress, Shown, Finished, CompletedRun
<1>9. QED BY <1>1, <1>2, <1>3, <1>4, <1>5, <1>6, <1>7, <1>8

\* A failed insert may leave a row nobody owns.
LEMMA CreateEventFailsStep == ASSUME NEW r \in Requests, IInv, CreateEventFails(r) PROVE IInv'
<1> USE PipelineAssumption DEF IInv
<1>1. TypeOK'
  <2>1. /\ status' \in [EventIds -> {"absent", "processing", "processed", "failed"}]
        /\ rowSrc' \in [EventIds -> Sources \cup {NoSource}]
        /\ UNCHANGED <<markedBy, textBy, tagsBy>>
    BY DEF CreateEventFails, InsertRow, rowVars, TypeOK
  <2>2. faults' \in Nat
    BY DEF CreateEventFails, Fault, TypeOK
  <2>3. QED BY <2>1, <2>2
          DEF CreateEventFails, Goto, Answer, Busy, Ended, TypeOK, runVars
<1>2. Fresh'
  BY DEF CreateEventFails, Goto, Answer, rowVars, runVars, Busy, Ended, Insertable, InsertRow, Rows, RowsOf, Fault, TypeOK, Fresh
<1>3. HasRow'
  BY DEF CreateEventFails, Goto, Answer, rowVars, runVars, Busy, Ended, Insertable, InsertRow, Rows, RowsOf, Fault, TypeOK, Fresh, HasRow
<1>4. OneOwner'
  BY DEF CreateEventFails, Goto, Answer, rowVars, runVars, Busy, Ended, Insertable, InsertRow, Rows, RowsOf, Fault, TypeOK, Fresh, HasRow, OneOwner, Owner
<1>5. UniqueSourceEvent'
  <2>1. CASE UNCHANGED rowVars
    BY <2>1 DEF UniqueSourceEvent, Rows, rowVars
  <2>2. CASE \E e \in EventIds : Insertable(r, e) /\ InsertRow(r, e)
    BY <2>2 DEF Insertable, InsertRow, RowsOf, Rows, UniqueSourceEvent, TypeOK
  <2>3. QED BY <2>1, <2>2 DEF CreateEventFails
<1>6. Effects'
  BY DEF CreateEventFails, Goto, Answer, rowVars, runVars, Busy, Ended, Insertable, InsertRow, Rows, RowsOf, Fault, TypeOK, Fresh, Effects, Owner
<1>7. Progress'
  BY DEF CreateEventFails, Goto, Answer, rowVars, runVars, Busy, Ended, Insertable, InsertRow, Rows, RowsOf, Fault, TypeOK, Fresh, Effects, Progress
<1>8. Shown'
  BY DEF CreateEventFails, Goto, Answer, rowVars, runVars, Busy, Ended, Insertable, InsertRow, Rows, RowsOf, Fault, TypeOK, Fresh, Progress, Shown, Finished, CompletedRun
<1>9. QED BY <1>1, <1>2, <1>3, <1>4, <1>5, <1>6, <1>7, <1>8

\* Reading the targets changes no row.
LEMMA LoadTargetsStep == ASSUME NEW r \in Requests, IInv, LoadTargets(r) PROVE IInv'
<1> USE PipelineAssumption DEF IInv
<1>1. TypeOK'
  <2>1. snap' \in [Requests -> SUBSET Targets] /\ faults' \in Nat
    BY DEF LoadTargets, Fault, TypeOK
  <2>2. QED BY <2>1 DEF LoadTargets, Goto, Busy, Ended, TypeOK, rowVars
<1>2. Fresh'
  BY DEF LoadTargets, Goto, Answer, rowVars, runVars, Busy, Ended, Fault, TypeOK, Fresh
<1>3. HasRow'
  BY DEF LoadTargets, Goto, Answer, rowVars, runVars, Busy, Ended, Fault, TypeOK, Fresh, HasRow, Rows
<1>4. OneOwner'
  BY DEF LoadTargets, Goto, Answer, rowVars, runVars, Busy, Ended, Fault, TypeOK, Fresh, HasRow, OneOwner, Owner
<1>5. UniqueSourceEvent'
  BY DEF LoadTargets, Goto, Answer, rowVars, runVars, Busy, Ended, Fault, TypeOK, UniqueSourceEvent, Rows, HasRow
<1>6. Effects'
  BY DEF LoadTargets, Goto, Answer, rowVars, runVars, Busy, Ended, Fault, TypeOK, Fresh, Effects, Owner
<1>7. Progress'
  BY DEF LoadTargets, Goto, Answer, rowVars, runVars, Busy, Ended, Fault, TypeOK, Fresh, Effects, Progress
<1>8. Shown'
  BY DEF LoadTargets, Goto, Answer, rowVars, runVars, Busy, Ended, Fault, TypeOK, Fresh, Progress, Shown, Finished, CompletedRun
<1>9. QED BY <1>1, <1>2, <1>3, <1>4, <1>5, <1>6, <1>7, <1>8

\* The decision starts with every target of it to be tried.
LEMMA DecideStep == ASSUME NEW r \in Requests, IInv, Decide(r) PROVE IInv'
<1> USE PipelineAssumption DEF IInv
<1>1. TypeOK'
  BY DEF Decide, Goto, Answer, rowVars, runVars, Busy, Ended, Decisions, TypeOK
<1>2. Fresh'
  BY DEF Decide, Goto, Answer, rowVars, runVars, Busy, Ended, Decisions, TypeOK, Fresh
<1>3. HasRow'
  BY DEF Decide, Goto, Answer, rowVars, runVars, Busy, Ended, Decisions, TypeOK, Fresh, HasRow, Rows
<1>4. OneOwner'
  BY DEF Decide, Goto, Answer, rowVars, runVars, Busy, Ended, Decisions, TypeOK, Fresh, HasRow, OneOwner, Owner
<1>5. UniqueSourceEvent'
  BY DEF Decide, Goto, Answer, rowVars, runVars, Busy, Ended, Decisions, TypeOK, UniqueSourceEvent, Rows, HasRow
<1>6. Effects'
  BY DEF Decide, Goto, Answer, rowVars, runVars, Busy, Ended, Decisions, TypeOK, Fresh, Effects, Owner
<1>7. Progress'
  <2>1. PICK d \in Decisions(snap[r]) : /\ to' = [to EXCEPT ![r] = d]
                                       /\ todo' = [todo EXCEPT ![r] = d]
    BY DEF Decide
  <2>2. /\ pc' = [pc EXCEPT ![r] = "execute"] /\ pc[r] = "decide"
        /\ UNCHANGED <<hits, answer>>
    BY DEF Decide, Goto
  <2>3. answer[r] # "accepted"
    BY <2>2 DEF Fresh
  <2>4. QED BY <2>1, <2>2, <2>3 DEF Progress, TypeOK
<1>8. Shown'
  BY DEF Decide, Goto, Answer, rowVars, runVars, Busy, Ended, Decisions, TypeOK, Fresh, Progress, Shown, Finished, CompletedRun
<1>9. QED BY <1>1, <1>2, <1>3, <1>4, <1>5, <1>6, <1>7, <1>8

\* An answered post: the target leaves the list with exactly one hit.
LEMMA PostStep == ASSUME NEW r \in Requests, IInv, Post(r) PROVE IInv'
<1> USE PipelineAssumption DEF IInv
<1>1. TypeOK'
  <2>1. PICK t \in todo[r] :
          /\ todo' = [todo EXCEPT ![r] = @ \ {t}]
          /\ hits' = [hits EXCEPT ![r][t] = @ + 1]
    BY DEF Post
  <2>2. t \in Targets
    BY <2>1 DEF TypeOK
  <2>3. hits' \in [Requests -> [Targets -> Nat]]
    BY <2>1, <2>2 DEF TypeOK
  <2>4. todo' \in [Requests -> SUBSET Targets]
    BY <2>1 DEF TypeOK
  <2>5. QED BY <2>3, <2>4 DEF Post, Goto, Busy, Ended, TypeOK, rowVars
<1>2. Fresh'
  BY DEF Post, Goto, Answer, rowVars, runVars, Busy, Ended, TypeOK, Fresh
<1>3. HasRow'
  BY DEF Post, Goto, Answer, rowVars, runVars, Busy, Ended, TypeOK, Fresh, HasRow, Rows
<1>4. OneOwner'
  BY DEF Post, Goto, Answer, rowVars, runVars, Busy, Ended, TypeOK, Fresh, HasRow, OneOwner, Owner
<1>5. UniqueSourceEvent'
  BY DEF Post, Goto, Answer, rowVars, runVars, Busy, Ended, TypeOK, UniqueSourceEvent, Rows, HasRow
<1>6. Effects'
  <2>1. PICK t \in todo[r] :
          /\ todo' = [todo EXCEPT ![r] = @ \ {t}]
          /\ hits' = [hits EXCEPT ![r][t] = @ + 1]
    BY DEF Post
  <2>2. t \in Targets /\ pc[r] = "execute" /\ hits[r][t] = 0
    BY <2>1 DEF Post, Effects, TypeOK
  <2>3. UNCHANGED pc
    BY DEF Post, Goto
  <2>4. UNCHANGED <<kind, ev, answer>>
    BY DEF Post
  <2>5. kind[r] = "deliver" => Owner(r)
    BY <2>2 DEF Owner, Fresh, HasRow
  <2>6. \A q \in Requests, u \in Targets :
          /\ q # r \/ u # t => hits'[q][u] = hits[q][u]
          /\ hits'[r][t] \in {0, 1}
    BY <2>1, <2>2 DEF TypeOK
  <2>7. QED BY <2>1, <2>2, <2>3, <2>4, <2>5, <2>6 DEF Effects, Owner, TypeOK
<1>7. Progress'
  BY DEF Post, Goto, Answer, rowVars, runVars, Busy, Ended, TypeOK, Fresh, Effects, Progress
<1>8. Shown'
  BY DEF Post, Goto, Answer, rowVars, runVars, Busy, Ended, TypeOK, Fresh, Progress, Shown, Finished, CompletedRun
<1>9. QED BY <1>1, <1>2, <1>3, <1>4, <1>5, <1>6, <1>7, <1>8

\* A failed post ends the loop: no run past it shows results.
LEMMA PostFailsStep == ASSUME NEW r \in Requests, IInv, PostFails(r) PROVE IInv'
<1> USE PipelineAssumption DEF IInv
<1>1. TypeOK'
  <2>1. PICK t \in todo[r] :
          /\ todo' = [todo EXCEPT ![r] = @ \ {t}]
          /\ \/ hits' = [hits EXCEPT ![r][t] = @ + 1]
             \/ UNCHANGED hits
    BY DEF PostFails
  <2>2. t \in Targets
    BY <2>1 DEF TypeOK
  <2>3. hits' \in [Requests -> [Targets -> Nat]]
    BY <2>1, <2>2 DEF TypeOK
  <2>4. todo' \in [Requests -> SUBSET Targets]
    BY <2>1 DEF TypeOK
  <2>5. QED BY <2>3, <2>4 DEF PostFails, Goto, Busy, Ended, TypeOK, rowVars
<1>2. Fresh'
  BY DEF PostFails, Goto, Answer, rowVars, runVars, Busy, Ended, TypeOK, Fresh
<1>3. HasRow'
  BY DEF PostFails, Goto, Answer, rowVars, runVars, Busy, Ended, TypeOK, Fresh, HasRow, Rows
<1>4. OneOwner'
  BY DEF PostFails, Goto, Answer, rowVars, runVars, Busy, Ended, TypeOK, Fresh, HasRow, OneOwner, Owner
<1>5. UniqueSourceEvent'
  BY DEF PostFails, Goto, Answer, rowVars, runVars, Busy, Ended, TypeOK, UniqueSourceEvent, Rows, HasRow
<1>6. Effects'
  <2>1. PICK t \in todo[r] :
          /\ todo' = [todo EXCEPT ![r] = @ \ {t}]
          /\ \/ hits' = [hits EXCEPT ![r][t] = @ + 1]
             \/ UNCHANGED hits
    BY DEF PostFails
  <2>2. t \in Targets /\ pc[r] = "execute" /\ hits[r][t] = 0
    BY <2>1 DEF PostFails, Effects, TypeOK
  <2>3. pc' = [pc EXCEPT ![r] = "fail"]
    BY DEF PostFails, Goto
  <2>4. UNCHANGED <<kind, ev, answer>>
    BY DEF PostFails
  <2>5. kind[r] = "deliver" => Owner(r)
    BY <2>2 DEF Owner, Fresh, HasRow
  <2>6. \A q \in Requests, u \in Targets :
          /\ q # r \/ u # t => hits'[q][u] = hits[q][u]
          /\ hits'[r][t] \in {0, 1}
    BY <2>1, <2>2 DEF TypeOK
  <2>7. QED BY <2>1, <2>2, <2>3, <2>4, <2>5, <2>6 DEF Effects, Owner, TypeOK
<1>7. Progress'
  BY DEF PostFails, Goto, Answer, rowVars, runVars, Busy, Ended, TypeOK, Fresh, Effects, Progress
<1>8. Shown'
  BY DEF PostFails, Goto, Answer, rowVars, runVars, Busy, Ended, TypeOK, Fresh, Progress, Shown, Finished, CompletedRun
<1>9. QED BY <1>1, <1>2, <1>3, <1>4, <1>5, <1>6, <1>7, <1>8

\* The loop is over: every target of the decision has its one hit.
LEMMA ExecuteDoneStep == ASSUME NEW r \in Requests, IInv, ExecuteDone(r) PROVE IInv'
<1> USE PipelineAssumption DEF IInv
<1>1. TypeOK'
  BY DEF ExecuteDone, Goto, Answer, rowVars, runVars, Busy, Ended, TypeOK
<1>2. Fresh'
  BY DEF ExecuteDone, Goto, Answer, rowVars, runVars, Busy, Ended, TypeOK, Fresh
<1>3. HasRow'
  BY DEF ExecuteDone, Goto, Answer, rowVars, runVars, Busy, Ended, TypeOK, Fresh, HasRow, Rows
<1>4. OneOwner'
  BY DEF ExecuteDone, Goto, Answer, rowVars, runVars, Busy, Ended, TypeOK, Fresh, HasRow, OneOwner, Owner
<1>5. UniqueSourceEvent'
  BY DEF ExecuteDone, Goto, Answer, rowVars, runVars, Busy, Ended, TypeOK, UniqueSourceEvent, Rows, HasRow
<1>6. Effects'
  BY DEF ExecuteDone, Goto, Answer, rowVars, runVars, Busy, Ended, TypeOK, Fresh, Effects, Owner
<1>7. Progress'
  BY DEF ExecuteDone, Goto, Answer, rowVars, runVars, Busy, Ended, TypeOK, Fresh, Effects, Progress
<1>8. Shown'
  BY DEF ExecuteDone, Goto, Answer, rowVars, runVars, Busy, Ended, TypeOK, Fresh, Progress, Shown, Finished, CompletedRun
<1>9. QED BY <1>1, <1>2, <1>3, <1>4, <1>5, <1>6, <1>7, <1>8

\* "failed" shows no results, whoever wrote the row before.
LEMMA MarkFailedStep == ASSUME NEW r \in Requests, IInv, MarkFailed(r) PROVE IInv'
<1> USE PipelineAssumption DEF IInv
<1>1. TypeOK'
  <2>1. /\ status' \in [EventIds -> {"absent", "processing", "processed", "failed"}]
        /\ markedBy' \in [EventIds -> Requests \cup {Nobody}]
        /\ faults' \in Nat
    BY UpdateEventStatusType DEF MarkFailed
  <2>2. UNCHANGED <<rowSrc, textBy, tagsBy>>
    BY DEF MarkFailed, UpdateEventStatus, rowVars
  <2>3. QED BY <2>1, <2>2 DEF MarkFailed, Goto, Answer, Busy, Ended, TypeOK, runVars
<1>2. Fresh'
  BY DEF MarkFailed, Goto, Answer, rowVars, runVars, Busy, Ended, UpdateEventStatus, Fault, TypeOK, Fresh
<1>3. HasRow'
  BY DEF MarkFailed, Goto, Answer, rowVars, runVars, Busy, Ended, UpdateEventStatus, Fault, TypeOK, Fresh, HasRow, Rows
<1>4. OneOwner'
  <2>1. UNCHANGED <<kind, ev>> /\ answer' = [answer EXCEPT ![r] = "error"]
    BY DEF MarkFailed, Answer
  <2>2. answer[r] = "none"
    BY DEF MarkFailed, Fresh
  <2>3. QED BY <2>1, <2>2 DEF OneOwner, Owner, TypeOK
<1>5. UniqueSourceEvent'
  <2>1. rowSrc' = rowSrc /\ Rows' \subseteq Rows
    BY DEF MarkFailed, UpdateEventStatus, rowVars, Rows, HasRow, TypeOK
  <2>2. QED BY <2>1 DEF UniqueSourceEvent, Rows
<1>6. Effects'
  BY DEF MarkFailed, Goto, Answer, rowVars, runVars, Busy, Ended, UpdateEventStatus, Fault, TypeOK, Fresh, Effects, Owner
<1>7. Progress'
  BY DEF MarkFailed, Goto, Answer, rowVars, runVars, Busy, Ended, UpdateEventStatus, Fault, TypeOK, Fresh, Effects, Progress
<1>8. Shown'
  BY DEF MarkFailed, Goto, Answer, rowVars, runVars, Busy, Ended, UpdateEventStatus, Fault, TypeOK, Fresh, Progress, Shown, Finished, CompletedRun
<1>9. QED BY <1>1, <1>2, <1>3, <1>4, <1>5, <1>6, <1>7, <1>8

\* "processed" is written by a run all of whose posts were answered.
LEMMA MarkProcessedStep == ASSUME NEW r \in Requests, IInv, MarkProcessed(r) PROVE IInv'
<1> USE PipelineAssumption DEF IInv
<1>1. TypeOK'
  <2>1. /\ status' \in [EventIds -> {"absent", "processing", "processed", "failed"}]
        /\ markedBy' \in [EventIds -> Requests \cup {Nobody}]
        /\ faults' \in Nat
    BY UpdateEventStatusType DEF MarkProcessed
  <2>2. UNCHANGED <<rowSrc, textBy, tagsBy>>
    BY DEF MarkProcessed, UpdateEventStatus, rowVars
  <2>3. QED BY <2>1, <2>2 DEF MarkProcessed, Goto, Answer, Busy, Ended, TypeOK, runVars
<1>2. Fresh'
  BY DEF MarkProcessed, Goto, Answer, rowVars, runVars, Busy, Ended, UpdateEventStatus, Fault, TypeOK, Fresh
<1>3. HasRow'
  BY DEF MarkProcessed, Goto, Answer, rowVars, runVars, Busy, Ended, UpdateEventStatus, Fault, TypeOK, Fresh, HasRow, Rows
<1>4. OneOwner'
  BY DEF MarkProcessed, Goto, Answer, rowVars, runVars, Busy, Ended, UpdateEventStatus, Fault, TypeOK, Fresh, HasRow, OneOwner, Owner
<1>5. UniqueSourceEvent'
  BY DEF MarkProcessed, Goto, Answer, rowVars, runVars, Busy, Ended, UpdateEventStatus, Fault, TypeOK, UniqueSourceEvent, Rows, HasRow
<1>6. Effects'
  BY DEF MarkProcessed, Goto, Answer, rowVars, runVars, Busy, Ended, UpdateEventStatus, Fault, TypeOK, Fresh, Effects, Owner
<1>7. Progress'
  BY DEF MarkProcessed, Goto, Answer, rowVars, runVars, Busy, Ended, UpdateEventStatus, Fault, TypeOK, Fresh, Effects, Progress
<1>8. Shown'
  BY DEF MarkProcessed, Goto, Answer, rowVars, runVars, Busy, Ended, UpdateEventStatus, Fault, TypeOK, Fresh, Progress, Shown, Finished, CompletedRun
<1>9. QED BY <1>1, <1>2, <1>3, <1>4, <1>5, <1>6, <1>7, <1>8

\* The text is written by such a run too.
LEMMA SaveProcessedTextStep == ASSUME NEW r \in Requests, IInv, SaveProcessedText(r) PROVE IInv'
<1> USE PipelineAssumption DEF IInv
<1>1. TypeOK'
  BY DEF SaveProcessedText, Goto, Answer, rowVars, runVars, Busy, Ended, Fault, TypeOK
<1>2. Fresh'
  BY DEF SaveProcessedText, Goto, Answer, rowVars, runVars, Busy, Ended, Fault, TypeOK, Fresh
<1>3. HasRow'
  BY DEF SaveProcessedText, Goto, Answer, rowVars, runVars, Busy, Ended, Fault, TypeOK, Fresh, HasRow, Rows
<1>4. OneOwner'
  BY DEF SaveProcessedText, Goto, Answer, rowVars, runVars, Busy, Ended, Fault, TypeOK, Fresh, HasRow, OneOwner, Owner
<1>5. UniqueSourceEvent'
  BY DEF SaveProcessedText, Goto, Answer, rowVars, runVars, Busy, Ended, Fault, TypeOK, UniqueSourceEvent, Rows, HasRow
<1>6. Effects'
  BY DEF SaveProcessedText, Goto, Answer, rowVars, runVars, Busy, Ended, Fault, TypeOK, Fresh, Effects, Owner
<1>7. Progress'
  BY DEF SaveProcessedText, Goto, Answer, rowVars, runVars, Busy, Ended, Fault, TypeOK, Fresh, Effects, Progress
<1>8. Shown'
  BY DEF SaveProcessedText, Goto, Answer, rowVars, runVars, Busy, Ended, Fault, TypeOK, Fresh, Progress, Shown, Finished, CompletedRun
<1>9. QED BY <1>1, <1>2, <1>3, <1>4, <1>5, <1>6, <1>7, <1>8

\* And so are the tags; the request is accepted.
LEMMA SaveTagsStep == ASSUME NEW r \in Requests, IInv, SaveTags(r) PROVE IInv'
<1> USE PipelineAssumption DEF IInv
<1>1. TypeOK'
  <2>1. tagsBy' \in [EventIds -> Requests \cup {Nobody}]
    BY DEF SaveTags, TypeOK
  <2>2. faults' \in Nat
    BY DEF SaveTags, Fault, TypeOK
  <2>3. QED BY <2>1, <2>2 DEF SaveTags, Goto, Answer, Busy, Ended, TypeOK, runVars
<1>2. Fresh'
  BY DEF SaveTags, Goto, Answer, rowVars, runVars, Busy, Ended, Fault, TypeOK, Fresh
<1>3. HasRow'
  BY DEF SaveTags, Goto, Answer, rowVars, runVars, Busy, Ended, Fault, TypeOK, Fresh, HasRow, Rows
<1>4. OneOwner'
  <2>1. UNCHANGED <<kind, ev>> /\ answer' = [answer EXCEPT ![r] = "accepted"]
    BY DEF SaveTags, Answer
  <2>2. answer[r] = "none"
    BY DEF SaveTags, Fresh
  <2>3. QED BY <2>1, <2>2 DEF OneOwner, Owner, TypeOK
<1>5. UniqueSourceEvent'
  BY DEF SaveTags, Goto, Answer, rowVars, runVars, Busy, Ended, Fault, TypeOK, UniqueSourceEvent, Rows, HasRow
<1>6. Effects'
  BY DEF SaveTags, Goto, Answer, rowVars, runVars, Busy, Ended, Fault, TypeOK, Fresh, Effects, Owner
<1>7. Progress'
  BY DEF SaveTags, Goto, Answer, rowVars, runVars, Busy, Ended, Fault, TypeOK, Fresh, Effects, Progress
<1>8. Shown'
  BY DEF SaveTags, Goto, Answer, rowVars, runVars, Busy, Ended, Fault, TypeOK, Fresh, Progress, Shown, Finished, CompletedRun
<1>9. QED BY <1>1, <1>2, <1>3, <1>4, <1>5, <1>6, <1>7, <1>8

\* A crash freezes the request where it is.
LEMMA CrashStep == ASSUME NEW r \in Requests, IInv, Crash(r) PROVE IInv'
<1> USE PipelineAssumption DEF IInv
<1>1. TypeOK'
  BY DEF Crash, Goto, Answer, rowVars, runVars, Busy, Ended, Fault, TypeOK
<1>2. Fresh'
  BY DEF Crash, Goto, Answer, rowVars, runVars, Busy, Ended, Fault, TypeOK, Fresh
<1>3. HasRow'
  BY DEF Crash, Goto, Answer, rowVars, runVars, Busy, Ended, Fault, TypeOK, Fresh, HasRow, Rows
<1>4. OneOwner'
  BY DEF Crash, Goto, Answer, rowVars, runVars, Busy, Ended, Fault, TypeOK, Fresh, HasRow, OneOwner, Owner
<1>5. UniqueSourceEvent'
  BY DEF Crash, Goto, Answer, rowVars, runVars, Busy, Ended, Fault, TypeOK, UniqueSourceEvent, Rows, HasRow
<1>6. Effects'
  BY DEF Crash, Goto, Answer, rowVars, runVars, Busy, Ended, Fault, TypeOK, Fresh, Effects, Owner
<1>7. Progress'
  BY DEF Crash, Goto, Answer, rowVars, runVars, Busy, Ended, Fault, TypeOK, Fresh, Effects, Progress
<1>8. Shown'
  BY DEF Crash, Goto, Answer, rowVars, runVars, Busy, Ended, Fault, TypeOK, Fresh, Progress, Shown, Finished, CompletedRun
<1>9. QED BY <1>1, <1>2, <1>3, <1>4, <1>5, <1>6, <1>7, <1>8

\* Edits of targets do not touch requests that read them before.
LEMMA UpdateForwardTargetStep == ASSUME IInv, UpdateForwardTarget PROVE IInv'
<1> USE DEF IInv
<1>1. TypeOK'
  BY DEF UpdateForwardTarget, TypeOK, rowVars, runVars
<1>2. UNCHANGED <<rowVars, pc, kind, src, ev, runVars, answer>>
  BY DEF UpdateForwardTarget
<1>3. Fresh' /\ HasRow' /\ OneOwner' /\ UniqueSourceEvent'
  BY <1>2 DEF Fresh, HasRow, OneOwner, Owner, UniqueSourceEvent, Rows, rowVars, runVars
<1>4. Effects' /\ Progress' /\ Shown'
  BY <1>2 DEF Effects, Owner, Progress, Shown, Finished, CompletedRun, rowVars, runVars
<1>5. QED BY <1>1, <1>3, <1>4

\* The initial states satisfy the invariant.
LEMMA InitIInv == Init => IInv
<1> SUFFICES ASSUME Init PROVE IInv
  OBVIOUS
<1>1. TypeOK
  BY PipelineAssumption DEF Init, TypeOK
<1>2. Fresh /\ HasRow /\ OneOwner /\ UniqueSourceEvent
  BY DEF Init, Fresh, HasRow, OneOwner, Owner, UniqueSourceEvent, Rows
<1>3. Effects /\ Progress /\ Shown
  BY DEF Init, Effects, Owner, Progress, Shown
<1>4. QED BY <1>1, <1>2, <1>3 DEF IInv

\* Every step preserves it.
LEMMA NextIInv == IInv /\ [Next]_vars => IInv'
<1> SUFFICES ASSUME IInv, [Next]_vars PROVE IInv'
  OBVIOUS
<1>1. CASE UNCHANGED vars
  BY <1>1 DEF vars, IInv, TypeOK, Fresh, HasRow, OneOwner, Owner, UniqueSourceEvent, Rows,
     Effects, Progress, Shown, Finished, CompletedRun
<1>2. CASE UpdateForwardTarget
  BY <1>2, UpdateForwardTargetStep
<1>3. ASSUME NEW r \in Requests, Arrive(r) PROVE IInv'
  BY <1>3, ProcessWebhookStep, ReprocessEventStep, ReprocessRefusedStep DEF Arrive
<1>4. ASSUME NEW r \in Requests, Handle(r) PROVE IInv'
  BY <1>4, FindDuplicateStep, FindNothingStep, ApplyTransformStep,
     CreateEventStep, CreateEventConflictStep, CreateEventFailsStep,
     LoadTargetsStep, DecideStep, PostStep, PostFailsStep, ExecuteDoneStep,
     MarkFailedStep, MarkProcessedStep, SaveProcessedTextStep, SaveTagsStep
  DEF Handle
<1>5. ASSUME NEW r \in Requests, Crash(r) PROVE IInv'
  BY <1>5, CrashStep
<1>6. QED BY <1>1, <1>2, <1>3, <1>4, <1>5 DEF Next

\* So it holds in every reachable state.
LEMMA InvariantIInv == Spec => []IInv
BY InitIInv, NextIInv, PTL DEF Spec

---------------------------------------------------------------------------
(* The properties.                                                         *)

\* Every variable keeps its type.
THEOREM TypeCorrect == Spec => []TypeOK
<1>1. IInv => TypeOK
  BY DEF IInv
<1>2. QED BY <1>1, InvariantIInv, PTL

\* One row per source event id, however deliveries race.
THEOREM UniqueSource == Spec => []UniqueSourceEvent
<1>1. IInv => UniqueSourceEvent
  BY DEF IInv
<1>2. QED BY <1>1, InvariantIInv, PTL

\* All deliveries of a source event id together reach a target once at most.
THEOREM AtMostOnce == Spec => []AtMostOncePerTarget
<1>1. ASSUME IInv PROVE AtMostOncePerTarget
  <2> SUFFICES ASSUME NEW r1 \in Requests, NEW r2 \in Requests, NEW t \in Targets,
                      kind[r1] = "deliver", kind[r2] = "deliver",
                      src[r1] = src[r2], src[r1] # NoSource,
                      hits[r1][t] > 0, hits[r2][t] > 0
               PROVE  r1 = r2
    BY <1>1 DEF IInv, Effects, AtMostOncePerTarget
  <2>1. Owner(r1) /\ Owner(r2)
    BY <1>1 DEF IInv, Effects
  <2>2. /\ rowSrc[ev[r1]] = rowSrc[ev[r2]] /\ rowSrc[ev[r1]] # NoSource
        /\ ev[r1] \in Rows /\ ev[r2] \in Rows
    BY <1>1, <2>1 DEF IInv, TypeOK, HasRow, Owner, Rows
  <2>3. ev[r1] = ev[r2]
    BY <1>1, <2>2 DEF IInv, UniqueSourceEvent
  <2>4. QED BY <1>1, <2>1, <2>3 DEF IInv, OneOwner
<1>2. QED BY <1>1, InvariantIInv, PTL

\* A row shows the results of completed runs only.
THEOREM CompletedRunsShow == Spec => []OnlyCompletedRunsShow
<1>1. IInv => OnlyCompletedRunsShow
  BY DEF IInv, Shown, Finished, OnlyCompletedRunsShow
<1>2. QED BY <1>1, InvariantIInv, PTL

\* A delivery that was answered 202 is stored, and its action carried out or
\* the earlier row of its id named.
THEOREM Acknowledged == Spec => []AcknowledgedIsStored
<1>1. ASSUME IInv PROVE AcknowledgedIsStored
  <2> SUFFICES ASSUME NEW r \in Requests
               PROVE  /\ answer[r] = "accepted" =>
                           ev[r] \in Rows /\ CompletedRun(r, ev[r])
                      /\ answer[r] = "duplicate" =>
                           ev[r] \in Rows /\ rowSrc[ev[r]] = src[r]
    BY DEF AcknowledgedIsStored
  <2>1. answer[r] \in {"accepted", "duplicate"} => ev[r] \in Rows
    BY <1>1, PipelineAssumption DEF IInv, HasRow, Rows, TypeOK
  <2>2. answer[r] = "accepted" => CompletedRun(r, ev[r])
    BY <1>1 DEF IInv, Progress, CompletedRun
  <2>3. answer[r] = "duplicate" => rowSrc[ev[r]] = src[r]
    BY <1>1, <2>1, PipelineAssumption DEF IInv, Fresh, HasRow, Rows
  <2>4. QED BY <2>1, <2>2, <2>3
<1>2. QED BY <1>1, InvariantIInv, PTL

---------------------------------------------------------------------------
(* Refinement: the pipeline implements IdempotentIngest.                   *)

Acked(r) == answer[r] \in {"accepted", "duplicate"}

\* Steps that neither insert a row, post to a target nor answer 202.
LEMMA SilentStep ==
  ASSUME Rows' = Rows, UNCHANGED <<rowSrc, hits>>,
         \A r \in Requests :
           \/ UNCHANGED <<kind[r], src[r]>> /\ Acked(r)' = Acked(r)
           \/ (\A t \in Targets : hits[r][t] = 0) /\ ~Acked(r) /\ ~Acked(r)'
  PROVE  UNCHANGED Ingest!ingestVars
<1>1. UNCHANGED storedIds
  BY DEF storedIds
<1>2. UNCHANGED reachedBy
  BY DEF reachedBy
<1>3. UNCHANGED ackedIds
  BY DEF ackedIds, Acked
<1>4. QED BY <1>1, <1>2, <1>3 DEF Ingest!ingestVars

\* A change of status, failed or not, leaves the set of rows as it is.
LEMMA StatusKeepsRows ==
  ASSUME IInv, NEW r \in Requests, pc[r] \in {"mark", "fail"},
         NEW s \in {"processed", "failed"}, UpdateEventStatus(r, s)
  PROVE  Rows' = Rows /\ UNCHANGED rowSrc
<1>1. ev[r] \in EventIds /\ status[ev[r]] # "absent"
  BY PipelineAssumption DEF IInv, HasRow
<1>2. QED BY <1>1 DEF UpdateEventStatus, rowVars, Rows, IInv, TypeOK

\* The insert of a row stores its source id, or nothing when it has none.
LEMMA InsertStep ==
  ASSUME IInv, NEW r \in Requests, NEW e \in EventIds,
         Insertable(r, e), InsertRow(r, e),
         UNCHANGED <<kind, src, hits>>,
         \A q \in Requests : Acked(q)' = Acked(q)
  PROVE  (\E s \in Sources : Ingest!Store(s)) \/ UNCHANGED Ingest!ingestVars
<1>1. UNCHANGED <<reachedBy, ackedIds>>
  BY DEF reachedBy, ackedIds, Acked
<1>2. Rows' = Rows \cup {e}
  BY DEF InsertRow, Insertable, Rows, IInv, TypeOK
<1>3. storedIds' = (storedIds \cup {src[r]}) \ {NoSource}
  BY <1>2 DEF InsertRow, Insertable, storedIds, Rows, IInv, TypeOK
<1>4. src[r] \in Sources \cup {NoSource}
  BY DEF IInv, TypeOK
<1>5. CASE src[r] = NoSource
  <2>1. storedIds' = storedIds
    BY <1>3, <1>5 DEF storedIds
  <2>2. QED BY <1>1, <2>1 DEF Ingest!ingestVars
<1>6. CASE src[r] # NoSource
  <2>1. storedIds' = storedIds \cup {src[r]}
    BY <1>3, <1>6 DEF storedIds
  <2>2. src[r] \notin storedIds
    BY <1>6 DEF Insertable, RowsOf, storedIds
  <2>3. QED BY <1>1, <1>4, <1>6, <2>1, <2>2 DEF Ingest!Store
<1>7. QED BY <1>5, <1>6

\* A post of a delivery reaches a target no other delivery has reached for
\* the id; the posts of reprocess runs and of rows without an id do not count.
LEMMA ReachStep ==
  ASSUME IInv, NEW r \in Requests, NEW t \in Targets,
         pc[r] = "execute", t \in todo[r],
         hits' = [hits EXCEPT ![r][t] = @ + 1],
         UNCHANGED <<status, rowSrc, kind, src, answer>>
  PROVE  \/ \E s \in Sources : Ingest!Reach(s, t, r)
         \/ UNCHANGED Ingest!ingestVars
<1>1. UNCHANGED <<storedIds, ackedIds>>
  BY DEF storedIds, ackedIds, Rows
<1>2. hits[r][t] = 0 /\ hits'[r][t] = 1
  BY DEF IInv, TypeOK, Effects
<1>3. \A q \in Requests, u \in Targets : q # r \/ u # t => hits'[q][u] = hits[q][u]
  BY DEF IInv, TypeOK
<1>4. CASE kind[r] = "deliver" /\ src[r] # NoSource
  <2>1. src[r] \in Sources
    BY <1>4 DEF IInv, TypeOK
  <2>2. Owner(r) /\ ev[r] \in Rows /\ rowSrc[ev[r]] = src[r]
    <3>1. ev[r] \in EventIds /\ answer[r] = "none"
      BY DEF IInv, TypeOK, HasRow, Fresh
    <3>2. ev[r] # NoEvent
      BY <3>1, PipelineAssumption
    <3>3. QED BY <1>4, <3>1, <3>2 DEF Owner, IInv, HasRow, Rows
  <2>3. src[r] \in storedIds
    BY <1>4, <2>2 DEF storedIds
  <2>4. ASSUME NEW q \in Requests, kind[q] = "deliver", src[q] = src[r],
               hits[q][t] > 0
        PROVE  FALSE
    <3>1. Owner(q)
      BY <2>4 DEF IInv, Effects
    <3>2. ev[q] \in Rows /\ rowSrc[ev[q]] = src[r]
      BY <2>4, <3>1 DEF Owner, IInv, TypeOK, HasRow, Rows
    <3>3. ev[q] = ev[r]
      BY <1>4, <2>2, <3>2 DEF IInv, UniqueSourceEvent
    <3>4. q = r
      BY <2>2, <3>1, <3>3 DEF IInv, OneOwner
    <3>5. QED BY <1>2, <2>4, <3>4
  <2>5. reachedBy[src[r]][t] = {}
    BY <2>1, <2>4 DEF reachedBy
  <2>6. reachedBy' = [reachedBy EXCEPT ![src[r]][t] = {r}]
    <3> DEFINE new == [reachedBy EXCEPT ![src[r]][t] = {r}]
    <3>1. ASSUME NEW s \in Sources, NEW u \in Targets
          PROVE  reachedBy'[s][u] = new[s][u]
      <4>1. reachedBy'[s][u] = {q \in Requests : kind[q] = "deliver" /\ src[q] = s /\ hits'[q][u] > 0}
        BY <3>1 DEF reachedBy
      <4>2. reachedBy[s][u] = {q \in Requests : kind[q] = "deliver" /\ src[q] = s /\ hits[q][u] > 0}
        BY <3>1 DEF reachedBy
      <4>3. CASE s = src[r] /\ u = t
        <5>1. new[s][u] = {r}
          BY <2>1, <4>3 DEF reachedBy
        <5>2. \A q \in Requests : kind[q] = "deliver" /\ src[q] = s /\ hits'[q][u] > 0 <=> q = r
          BY <1>2, <1>3, <1>4, <2>4, <4>3
        <5>3. QED BY <4>1, <5>1, <5>2
      <4>4. CASE s # src[r] \/ u # t
        <5>1. new[s][u] = reachedBy[s][u]
          BY <2>1, <3>1, <4>4 DEF reachedBy
        <5>2. \A q \in Requests : src[q] = s => hits'[q][u] = hits[q][u]
          BY <1>3, <3>1, <4>4
        <5>3. QED BY <4>1, <4>2, <5>1, <5>2
      <4>5. QED BY <4>3, <4>4
    <3>2. reachedBy' = [s \in Sources |-> [u \in Targets |-> reachedBy'[s][u]]]
      BY DEF reachedBy
    <3>3. new = [s \in Sources |-> [u \in Targets |-> new[s][u]]]
      BY <2>1 DEF reachedBy
    <3>4. [s \in Sources |-> [u \in Targets |-> reachedBy'[s][u]]]
          = [s \in Sources |-> [u \in Targets |-> new[s][u]]]
      <4> HIDE DEF new
      <4> QED BY <3>1
    <3>5. QED BY <3>2, <3>3, <3>4
  <2>7. Ingest!Reach(src[r], t, r)
    BY <1>1, <2>3, <2>5, <2>6 DEF Ingest!Reach
  <2>8. QED BY <2>1, <2>7
<1>5. CASE kind[r] # "deliver" \/ src[r] = NoSource
  <2>1. ASSUME NEW s \in Sources, NEW u \in Targets, NEW q \in Requests
        PROVE  kind[q] = "deliver" /\ src[q] = s =>
                 hits'[q][u] = hits[q][u]
    BY <1>3, <1>5, PipelineAssumption
  <2>2. reachedBy' = reachedBy
    BY <2>1 DEF reachedBy
  <2>3. QED BY <1>1, <2>2 DEF Ingest!ingestVars
<1>6. QED BY <1>4, <1>5

\* An answer 202 acknowledges an id that is stored.
LEMMA AcknowledgeStep ==
  ASSUME IInv, IInv', NEW r \in Requests, pc[r] \in {"find", "tags"},
         UNCHANGED <<status, rowSrc, kind, src, hits>>,
         answer' \in [Requests -> {"none", "accepted", "duplicate", "error"}],
         Acked(r)',
         \A q \in Requests : q # r => answer'[q] = answer[q]
  PROVE  (\E s \in Sources : Ingest!Acknowledge(s)) \/ UNCHANGED Ingest!ingestVars
<1>1. UNCHANGED <<storedIds, reachedBy>>
  BY DEF storedIds, reachedBy, Rows
<1>2. ~Acked(r)
  BY DEF Acked, IInv, Fresh
<1>3. CASE kind[r] = "deliver" /\ src[r] # NoSource
  <2>1. src[r] \in Sources
    BY <1>3 DEF IInv, TypeOK
  <2>2. ev'[r] \in EventIds
    BY DEF Acked, IInv, HasRow
  <2>3. ev'[r] \in Rows /\ rowSrc[ev'[r]] = src[r]
    BY <1>3, <2>2, PipelineAssumption DEF IInv, HasRow, Rows
  <2>4. src[r] \in storedIds
    BY <1>3, <2>3 DEF storedIds
  <2>5. ackedIds' = ackedIds \cup {src[r]}
    BY <1>2, <1>3, <2>1 DEF ackedIds, Acked
  <2>6. QED BY <1>1, <2>1, <2>4, <2>5 DEF Ingest!Acknowledge
<1>4. CASE kind[r] # "deliver" \/ src[r] = NoSource
  <2>1. ackedIds' = ackedIds
    BY <1>2, <1>4, PipelineAssumption DEF ackedIds, Acked
  <2>2. QED BY <1>1, <2>1 DEF Ingest!ingestVars
<1>5. QED BY <1>3, <1>4

\* Every step of the pipeline is a step of IdempotentIngest or a stutter.
LEMMA NextRefines ==
  ASSUME IInv, IInv', [Next]_vars
  PROVE  [Ingest!IngestNext]_(Ingest!ingestVars)
<1> USE DEF Goto, rowVars, runVars
<1> DEFINE Step == [Ingest!IngestNext]_(Ingest!ingestVars)
<1>1. CASE UNCHANGED vars \/ UpdateForwardTarget
  <2>1. UNCHANGED <<status, rowSrc, kind, src, answer, hits>>
    BY <1>1 DEF vars, UpdateForwardTarget
  <2>2. QED BY <2>1, SilentStep DEF Acked, Rows
<1>2. ASSUME NEW r \in Requests, Arrive(r) PROVE Step
  <2>1. pc[r] = "idle" /\ UNCHANGED <<status, rowSrc, hits>>
    BY <1>2 DEF Arrive, ProcessWebhook, ReprocessEvent, ReprocessRefused
  <2>2. \A t \in Targets : hits[r][t] = 0
    BY <2>1 DEF IInv, Fresh
  <2>3. ~Acked(r) /\ ~Acked(r)'
    BY <1>2, <2>1 DEF Acked, IInv, TypeOK, Fresh, Arrive, ProcessWebhook,
       ReprocessEvent, ReprocessRefused, Answer
  <2>4. \A q \in Requests : q # r =>
          UNCHANGED <<kind[q], src[q]>> /\ Acked(q)' = Acked(q)
    BY <1>2 DEF Acked, IInv, TypeOK, Arrive, ProcessWebhook, ReprocessEvent,
       ReprocessRefused, Answer
  <2>5. QED BY <2>1, <2>2, <2>3, <2>4, SilentStep DEF Rows
<1>3. ASSUME NEW r \in Requests, FindNothing(r) \/ LoadTargets(r) \/ Decide(r)
               \/ ExecuteDone(r) \/ SaveProcessedText(r) \/ Crash(r)
      PROVE  Step
  <2>1. UNCHANGED <<status, rowSrc, kind, src, answer, hits>>
    BY <1>3 DEF FindNothing, LoadTargets, Decide, ExecuteDone,
       SaveProcessedText, Crash
  <2>2. QED BY <2>1, SilentStep DEF Acked, Rows
<1>4. ASSUME NEW r \in Requests, MarkFailed(r) \/ MarkProcessed(r) PROVE Step
  <2>1. Rows' = Rows /\ UNCHANGED <<rowSrc, kind, src, hits>>
    BY <1>4, StatusKeepsRows DEF MarkFailed, MarkProcessed
  <2>2. \A q \in Requests : Acked(q)' = Acked(q)
    BY <1>4 DEF MarkFailed, MarkProcessed, Answer, Acked, IInv, TypeOK, Fresh
  <2>3. QED BY <2>1, <2>2, SilentStep
<1>5. ASSUME NEW r \in Requests, ApplyTransform(r) \/ CreateEventConflict(r)
      PROVE  Step
  <2>1. pc[r] \in {"transform", "create"} /\ UNCHANGED <<status, rowSrc, kind, hits>>
    BY <1>5 DEF ApplyTransform, CreateEventConflict
  <2>2. (\A t \in Targets : hits[r][t] = 0) /\ ~Acked(r) /\ ~Acked(r)'
    BY <1>5, <2>1 DEF ApplyTransform, CreateEventConflict, Answer, Acked, IInv,
       TypeOK, Fresh
  <2>3. \A q \in Requests : q # r =>
          UNCHANGED <<kind[q], src[q]>> /\ Acked(q)' = Acked(q)
    BY <1>5, <2>1 DEF ApplyTransform, CreateEventConflict, Answer, Acked, IInv, TypeOK
  <2>4. QED BY <2>1, <2>2, <2>3, SilentStep DEF Rows
<1>6. ASSUME NEW r \in Requests, CreateEvent(r) \/ CreateEventFails(r) PROVE Step
  <2>1. UNCHANGED <<kind, src, hits>>
    BY <1>6 DEF CreateEvent, CreateEventFails
  <2>2. \A q \in Requests : Acked(q)' = Acked(q)
    BY <1>6 DEF CreateEvent, CreateEventFails, Answer, Acked, IInv, TypeOK, Fresh
  <2>3. CASE \E e \in EventIds : Insertable(r, e) /\ InsertRow(r, e)
    BY <2>1, <2>2, <2>3, InsertStep DEF Ingest!IngestNext
  <2>4. CASE UNCHANGED <<status, rowSrc>>
    BY <2>1, <2>2, <2>4, SilentStep DEF Rows
  <2>5. QED BY <1>6, <2>3, <2>4 DEF CreateEvent, CreateEventFails
<1>7. ASSUME NEW r \in Requests, Post(r) \/ PostFails(r) PROVE Step
  <2>1. UNCHANGED <<status, rowSrc, kind, src, answer>>
    BY <1>7 DEF Post, PostFails
  <2>2. CASE UNCHANGED hits
    BY <2>1, <2>2, SilentStep DEF Acked, Rows
  <2>3. CASE ~UNCHANGED hits
    <3>1. pc[r] = "execute"
      BY <1>7 DEF Post, PostFails
    <3>2. PICK t \in todo[r] : hits' = [hits EXCEPT ![r][t] = @ + 1]
      BY <1>7, <2>3 DEF Post, PostFails
    <3>3. t \in Targets
      BY DEF IInv, TypeOK
    <3>4. QED BY <2>1, <3>1, <3>2, <3>3, ReachStep DEF Ingest!IngestNext
  <2>4. QED BY <2>2, <2>3
<1>8. ASSUME NEW r \in Requests, FindDuplicate(r) \/ SaveTags(r) PROVE Step
  <2>1. pc[r] \in {"find", "tags"} /\ UNCHANGED <<status, rowSrc, kind, src, hits>>
    BY <1>8 DEF FindDuplicate, SaveTags
  <2>2. Acked(r)' /\ \A q \in Requests : q # r => answer'[q] = answer[q]
    BY <1>8 DEF FindDuplicate, SaveTags, Answer, Acked, IInv, TypeOK
  <2>3. answer' \in [Requests -> {"none", "accepted", "duplicate", "error"}]
    BY DEF IInv, TypeOK
  <2>4. QED BY <2>1, <2>2, <2>3, AcknowledgeStep DEF Ingest!IngestNext
<1>9. QED
  BY <1>1, <1>2, <1>3, <1>4, <1>5, <1>6, <1>7, <1>8 DEF Next, Handle

\* Nothing is stored, reached or acknowledged at first.
LEMMA InitRefines == Init => Ingest!IngestInit
<1> SUFFICES ASSUME Init PROVE Ingest!IngestInit
  OBVIOUS
<1>1. storedIds = {}
  BY DEF Init, storedIds, Rows
<1>2. reachedBy = [s \in Sources |-> [t \in Targets |-> {}]]
  BY DEF Init, reachedBy
<1>3. ackedIds = {}
  BY DEF Init, ackedIds
<1>4. QED BY <1>1, <1>2, <1>3 DEF Ingest!IngestInit

\* The pipeline, with its races, faults and reprocess runs, implements the
\* abstract specification of idempotent ingestion.
THEOREM Refinement == Spec => ImplementsIngest
<1>1. IInv /\ IInv' /\ [Next]_vars => [Ingest!IngestNext]_(Ingest!ingestVars)
  BY NextRefines
<1>2. QED
  BY <1>1, InitRefines, InvariantIInv, PTL
  DEF Spec, ImplementsIngest, Ingest!IngestSpec
=============================================================================
