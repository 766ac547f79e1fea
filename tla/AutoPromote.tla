---------------------------- MODULE AutoPromote ----------------------------
(***************************************************************************)
(* Discovery and promotion of a webhook type: TypeResolver.Resolve and the *)
(* two observers of AutoPromoter (internal/service/resolver.go and         *)
(* autopromote.go) over the signatures, transforms and promotion row of    *)
(* one type of one account.  The promoter reads the row, works on a copy   *)
(* through several calls of the store, and writes the copy back: calls of  *)
(* the classify endpoint interleave between any two of these calls.        *)
(*                                                                         *)
(* A signature is whether the owner made it and whether it is enabled, in  *)
(* the order of creation; a transform is its status.  All transforms of    *)
(* the resolver have version 1, so the latest of a status is any of them.  *)
(***************************************************************************)
EXTENDS Integers, Sequences

CONSTANTS
  Workers,            \* concurrent calls of Resolve
  ValidatedToShadow,  \* cutoffs of the configuration
  ShadowToActive,
  MinSuccessPct,      \* MinSuccessRate in percent
  MaxCalls,           \* bound: calls of the API in a behaviour
  MaxFaults           \* bound: failed store calls and crashes

ASSUME PromoteAssumption ==
  /\ ValidatedToShadow \in Int /\ ShadowToActive \in Int
  /\ MinSuccessPct \in Nat
  /\ MaxCalls \in Nat /\ MaxFaults \in Nat

VARIABLES
  sigs,       \* signatures of the type, oldest first
  trs,        \* status of each transform of the type
  row,        \* the AutoPromoteState of the type
  pc,         \* where each call is
  high,       \* the candidate has at least MinConfidence
  st,         \* the copy of the row the observers work on
  pick,       \* signature or transform the last lookup returned, 0 for none
  confident,  \* history: candidates with at least MinConfidence
  measured,   \* history: hits counted while the row said shadow
  calls, faults

tables == <<sigs, trs, row>>
history == <<confident, measured>>
vars == <<sigs, trs, row, pc, high, st, pick, confident, measured, calls, faults>>

\* maxInt(cutoff, 1).
AtLeastOne(n) == IF n > 1 THEN n ELSE 1

\* A row with status s and zero counters; no row at all has status "none".
NewRow(s) == [status |-> s, validated |-> 0, total |-> 0, success |-> 0]

Init ==
  /\ sigs = <<>> /\ trs = <<>> /\ row = NewRow("none")
  /\ pc = [w \in Workers |-> "idle"]
  /\ high = [w \in Workers |-> FALSE]
  /\ st = [w \in Workers |-> NewRow("none")]
  /\ pick = [w \in Workers |-> 0]
  /\ confident = 0 /\ measured = 0
  /\ calls = 0 /\ faults = 0

Goto(w, l) == pc' = [pc EXCEPT ![w] = l]
Call == calls < MaxCalls /\ calls' = calls + 1
Fault == faults < MaxFaults /\ faults' = faults + 1

---------------------------------------------------------------------------
(* Resolve.                                                                *)

\* bestDeterministicMatch: the payload fits an enabled signature.
Match(w) ==
  /\ pc[w] = "idle" /\ Call
  /\ \E i \in DOMAIN sigs : sigs[i].on
  /\ Goto(w, "measure")
  /\ UNCHANGED <<tables, high, st, pick, history, faults>>

\* It fits none and the classifiers name the type.  (Any other answer of
\* them changes nothing.)
Discover(w) ==
  /\ pc[w] = "idle" /\ Call
  /\ \E h \in BOOLEAN : high' = [high EXCEPT ![w] = h]
  /\ Goto(w, "signature")
  /\ UNCHANGED <<tables, st, pick, history, faults>>

\* persistLLMCandidate: a disabled signature, and a pending transform if the
\* classifier proposed one; errors of both are dropped.
SaveSignature(w) ==
  /\ pc[w] = "signature"
  /\ \/ sigs' = Append(sigs, [own |-> FALSE, on |-> FALSE]) /\ UNCHANGED faults
     \/ Fault /\ UNCHANGED sigs
  /\ Goto(w, "transform")
  /\ UNCHANGED <<trs, row, high, st, pick, history, calls>>

SaveTransform(w) ==
  /\ pc[w] = "transform"
  /\ \/ trs' = Append(trs, "pending")
     \/ UNCHANGED trs
  /\ Goto(w, "observe")
  /\ UNCHANGED <<sigs, row, high, st, pick, history, calls, faults>>

---------------------------------------------------------------------------
(* The observers.                                                          *)

\* The row as loadState returns it: an error of the lookup, like no row,
\* yields a fresh one.
Loaded(failed) == IF failed \/ row.status = "none" THEN NewRow("validated") ELSE row

\* Variant: every candidate counts.
CountedAnyway(w, r) == [r EXCEPT !.validated = @ + 1]

Counted(w, r) == IF high[w] THEN [r EXCEPT !.validated = @ + 1] ELSE r

\* The validation cutoff is met.
Validated(r) ==
  r.status = "validated" /\ r.validated >= AtLeastOne(ValidatedToShadow)

\* ObserveCandidate, up to the decision what becomes of the row.
ObserveCandidate(w) ==
  /\ pc[w] = "observe"
  /\ \E failed \in BOOLEAN :
       /\ IF failed THEN Fault ELSE UNCHANGED faults
       /\ LET r == Counted(w, Loaded(failed)) IN
          IF Validated(r)
          THEN st' = [st EXCEPT ![w] = NewRow("shadow")] /\ Goto(w, "find_sig")
          ELSE st' = [st EXCEPT ![w] = r] /\ Goto(w, "save")
  /\ confident' = confident + (IF high[w] THEN 1 ELSE 0)
  /\ UNCHANGED <<tables, high, pick, measured, calls>>

\* A measured hit is a sample and a success.
Hit(r) ==
  [status |-> r.status, validated |-> r.validated,
   total |-> r.total + 1, success |-> r.success + 1]

\* Variant: the cutoff is off by one.
SampledEarly(r) == r.total + 1 >= AtLeastOne(ShadowToActive)

Sampled(r) == r.total >= AtLeastOne(ShadowToActive)
Successful(r) == r.success * 100 >= MinSuccessPct * r.total

\* ObserveDeterministicHit, up to the same decision.  A row that is missing,
\* unreadable or not in shadow is left alone.
ObserveDeterministicHit(w) ==
  /\ pc[w] = "measure"
  /\ \/ /\ row.status = "shadow"
        /\ LET r == Hit(row) IN
           IF ~Sampled(r)
           THEN st' = [st EXCEPT ![w] = r] /\ Goto(w, "save")
           ELSE IF Successful(r)
           THEN st' = [st EXCEPT ![w] = [r EXCEPT !.status = "active"]]
                /\ Goto(w, "find_tr")
           ELSE st' = [st EXCEPT ![w] = NewRow("validated")] /\ Goto(w, "find_sig")
        /\ measured' = measured + 1
        /\ UNCHANGED faults
     \/ /\ \/ row.status # "shadow" /\ UNCHANGED faults
           \/ Fault
        /\ Goto(w, "idle")
        /\ UNCHANGED <<st, measured>>
  /\ UNCHANGED <<tables, high, pick, confident, calls>>

\* What the new status asks for: promotion to shadow and rollback take the
\* signature first, activation the transform.
AfterSig(s) == IF s = "active" THEN "save" ELSE "find_tr"
AfterTr(s) == IF s = "active" THEN "find_sig" ELSE "save"
Wanted(s) == IF s = "shadow" THEN "pending" ELSE "shadow"
Becomes(s) == IF s = "validated" THEN "pending" ELSE s

\* GetLatestCandidateSignature: the newest that is not the owner's.
Candidates == {i \in DOMAIN sigs : ~sigs[i].own}
\* Variant: the newest, whoever made it.
NewestOfAll == {i \in DOMAIN sigs : \A j \in DOMAIN sigs : j <= i}

Newest == {i \in Candidates : \A j \in Candidates : j <= i}

FindSignature(w) ==
  /\ pc[w] = "find_sig"
  /\ \/ \E i \in Newest : pick' = [pick EXCEPT ![w] = i]
        /\ Goto(w, "set_sig") /\ UNCHANGED faults
     \/ /\ \/ Newest = {} /\ UNCHANGED faults
           \/ Newest # {} /\ Fault
        /\ Goto(w, AfterSig(st[w].status)) /\ UNCHANGED pick
  /\ UNCHANGED <<tables, high, st, history, calls>>

\* SetTypeSignatureEnabled; its error is dropped.
SetSignature(w) ==
  /\ pc[w] = "set_sig"
  /\ \/ sigs' = [sigs EXCEPT ![pick[w]].on = (st[w].status # "validated")]
        /\ UNCHANGED faults
     \/ Fault /\ UNCHANGED sigs
  /\ Goto(w, AfterSig(st[w].status))
  /\ pick' = [pick EXCEPT ![w] = 0]
  /\ UNCHANGED <<trs, row, high, st, history, calls>>

\* Variant: the result is used without a look at the error.
FindTransformUnchecked(w, from, at, otherwise) ==
  /\ pc[w] = at
  /\ pick' = [pick EXCEPT ![w] =
       IF \E i \in DOMAIN trs : trs[i] = from
       THEN CHOOSE i \in DOMAIN trs : trs[i] = from ELSE 0]
  /\ Goto(w, "set_tr")
  /\ UNCHANGED <<tables, high, st, history, calls, faults>>

\* GetLatestTransformByStatus; activation falls back on a pending one.
FindTransform(w, from, at, otherwise) ==
  LET found == {i \in DOMAIN trs : trs[i] = from} IN
  /\ pc[w] = at
  /\ \/ \E i \in found : pick' = [pick EXCEPT ![w] = i]
        /\ Goto(w, "set_tr") /\ UNCHANGED faults
     \/ /\ \/ found = {} /\ UNCHANGED faults
           \/ found # {} /\ Fault
        /\ Goto(w, otherwise) /\ UNCHANGED pick
  /\ UNCHANGED <<tables, high, st, history, calls>>

LatestTransform(w) ==
  LET s == st[w].status IN
  FindTransform(w, Wanted(s), "find_tr",
                IF s = "active" THEN "find_pending" ELSE AfterTr(s))

PendingTransform(w) ==
  FindTransform(w, "pending", "find_pending", AfterTr("active"))

\* SetTransformStatus; its error is dropped.
SetTransform(w) ==
  /\ pc[w] = "set_tr"
  /\ \/ trs' = [trs EXCEPT ![pick[w]] = Becomes(st[w].status)] /\ UNCHANGED faults
     \/ Fault /\ UNCHANGED trs
  /\ Goto(w, AfterTr(st[w].status))
  /\ pick' = [pick EXCEPT ![w] = 0]
  /\ UNCHANGED <<sigs, row, high, st, history, calls>>

\* UpsertAutoPromoteState overwrites the row with the copy, whatever it has
\* become meanwhile; Resolve drops an error.
UpsertAutoPromoteState(w) ==
  /\ pc[w] = "save"
  /\ \/ row' = st[w] /\ UNCHANGED faults
     \/ Fault /\ UNCHANGED row
  /\ Goto(w, "idle")
  /\ st' = [st EXCEPT ![w] = NewRow("none")]
  /\ high' = [high EXCEPT ![w] = FALSE]
  /\ UNCHANGED <<sigs, trs, pick, history, calls>>

---------------------------------------------------------------------------
(* The surroundings.                                                       *)

\* The instance of a call stops.
Crash(w) ==
  /\ pc[w] # "idle" /\ Fault
  /\ Goto(w, "idle")
  /\ st' = [st EXCEPT ![w] = NewRow("none")]
  /\ high' = [high EXCEPT ![w] = FALSE]
  /\ pick' = [pick EXCEPT ![w] = 0]
  /\ UNCHANGED <<tables, history, calls>>

\* The owner's CreateSignature and CreateTransform, with any status.
CreateSignature ==
  /\ Call
  /\ \E on \in BOOLEAN : sigs' = Append(sigs, [own |-> TRUE, on |-> on])
  /\ UNCHANGED <<trs, row, pc, high, st, pick, history, faults>>

CreateTransform ==
  /\ Call
  /\ \E s \in {"pending", "shadow", "active"} : trs' = Append(trs, s)
  /\ UNCHANGED <<sigs, row, pc, high, st, pick, history, faults>>

Next ==
  \/ \E w \in Workers :
       \/ Match(w) \/ Discover(w) \/ SaveSignature(w) \/ SaveTransform(w)
       \/ ObserveCandidate(w) \/ ObserveDeterministicHit(w)
       \/ FindSignature(w) \/ SetSignature(w)
       \/ LatestTransform(w) \/ PendingTransform(w) \/ SetTransform(w)
       \/ UpsertAutoPromoteState(w) \/ Crash(w)
  \/ CreateSignature \/ CreateTransform

Spec == Init /\ [][Next]_vars

---------------------------------------------------------------------------
(***************************************************************************)
(* Properties.                                                             *)
(***************************************************************************)

Row == [status : {"none", "validated", "shadow", "active"},
        validated : Nat, total : Nat, success : Nat]
Steps == {"idle", "measure", "signature", "transform", "observe", "find_sig",
          "set_sig", "find_tr", "find_pending", "set_tr", "save"}

\* Type invariant; a call that is about to update a row has one to update.
TypeOK ==
  /\ sigs \in Seq([own : BOOLEAN, on : BOOLEAN])
  /\ trs \in Seq({"pending", "shadow", "active"})
  /\ row \in Row
  /\ pc \in [Workers -> Steps]
  /\ high \in [Workers -> BOOLEAN]
  /\ st \in [Workers -> Row]
  /\ pick \in [Workers -> Nat]
  /\ \A w \in Workers :
       /\ pc[w] = "set_sig" => pick[w] \in Candidates
       /\ pc[w] = "set_tr" => pick[w] \in DOMAIN trs
  /\ confident \in Nat /\ measured \in Nat
  /\ calls \in Nat /\ faults \in Nat

\* Promotion is earned, however the observers overwrite each other's row:
\* it takes ValidatedToShadow confident candidates before the row says
\* shadow or a signature of the classifiers matches payloads, and
\* ShadowToActive measured hits more before the row says active.
PromotionEarned ==
  /\ \/ row.status \in {"shadow", "active"}
     \/ \E i \in Candidates : sigs[i].on
     => confident >= AtLeastOne(ValidatedToShadow)
  /\ row.status = "active" => measured >= AtLeastOne(ShadowToActive)

\* No step makes a stored transform rewrite payloads before that, or at all
\* if the success rate asked for is above 100 percent.
ActivationEarned ==
  [][\A i \in DOMAIN trs :
       trs[i] # "active" /\ trs'[i] = "active" =>
         /\ confident >= AtLeastOne(ValidatedToShadow)
         /\ measured >= AtLeastOne(ShadowToActive)
         /\ MinSuccessPct <= 100]_vars

\* A promoted type can be hit: unless a call failed or rollback is possible,
\* a row that says shadow or active has a signature that matches; without
\* one no hit would ever be measured and the row would stay as it is.
PromotedIsMatched ==
  row.status \in {"shadow", "active"} /\ faults = 0 /\ MinSuccessPct <= 100 =>
    \E i \in Candidates : sigs[i].on
=============================================================================
