------------------------- MODULE AutoPromoteProofs -------------------------
(***************************************************************************)
(* Proofs about AutoPromote, for any number of concurrent calls, any       *)
(* cutoffs and any number of failures.                                     *)
(***************************************************************************)
EXTENDS AutoPromote, SequenceTheorems, WellFoundedInduction, TLAPS

Sig == [own : BOOLEAN, on : BOOLEAN]
ConfidentEnough == confident >= AtLeastOne(ValidatedToShadow)
MeasuredEnough == measured >= AtLeastOne(ShadowToActive)

\* What a row or a copy of it claims has been observed.  The counters of a
\* copy lag behind the history when others wrote meanwhile; they never lead.
Earned(r) ==
  /\ r.validated <= confident /\ r.total <= measured /\ r.success = r.total
  /\ r.status \in {"shadow", "active"} => ConfidentEnough
  /\ r.status = "active" => MeasuredEnough /\ MinSuccessPct <= 100

\* A call past its decision holds a row to write.
Decided ==
  \A w \in Workers :
    pc[w] \in {"find_sig", "set_sig", "find_tr", "find_pending", "set_tr", "save"}
      => st[w].status # "none"

\* PromotionEarned holds of the copies too, which become the row later.
IInv ==
  /\ TypeOK /\ Decided
  /\ Earned(row) /\ \A w \in Workers : Earned(st[w])
  /\ \A w \in Workers : pc[w] = "find_pending" => st[w].status = "active"
  /\ (\E i \in Candidates : sigs[i].on) => ConfidentEnough

---------------------------------------------------------------------------
(* Lemmas on data.                                                         *)

\* A cutoff is a positive number.
LEMMA CutoffType == ASSUME NEW n \in Int PROVE AtLeastOne(n) \in Nat \ {0}
BY DEF AtLeastOne

\* If all of n samples count as successes, no rate up to 100 is missed and
\* none above is met.
LEMMA RateOfAll ==
  ASSUME NEW n \in Nat \ {0}, NEW p \in Nat, n * 100 >= p * n
  PROVE  p <= 100
<1> SUFFICES ASSUME p >= 101 PROVE FALSE
  OBVIOUS
<1>1. PICK d \in Nat : p = 101 + d
  <2>1. p - 101 \in Nat /\ p = 101 + (p - 101) OBVIOUS
  <2>2. QED BY <2>1
<1>2. p * n = 101 * n + d * n BY <1>1
<1>3. d * n \in Nat OBVIOUS
<1>4. QED BY <1>2, <1>3

\* Adding an element keeps the others and their positions.
LEMMA Added ==
  ASSUME NEW T, NEW s \in Seq(T), NEW x \in T
  PROVE  /\ Append(s, x) \in Seq(T)
         /\ DOMAIN Append(s, x) = DOMAIN s \cup {Len(s) + 1}
         /\ Append(s, x)[Len(s) + 1] = x
         /\ \A i \in DOMAIN s : Append(s, x)[i] = s[i]
BY AppendProperties

\* Replacing an element keeps the others.
LEMMA Replaced ==
  ASSUME NEW T, NEW s \in Seq(T), NEW i \in DOMAIN s, NEW x \in T
  PROVE  /\ [s EXCEPT ![i] = x] \in Seq(T)
         /\ DOMAIN [s EXCEPT ![i] = x] = DOMAIN s
         /\ [s EXCEPT ![i] = x][i] = x
         /\ \A j \in DOMAIN s : j # i => [s EXCEPT ![i] = x][j] = s[j]
BY ExceptSeq

\* A row of zero counters has earned whatever its status claims.
LEMMA NewRowFacts ==
  ASSUME TypeOK, NEW s \in {"none", "validated", "shadow", "active"}
  PROVE  /\ NewRow(s) \in Row /\ NewRow(s).status = s
         /\ s \in {"none", "validated"} \/ (s = "shadow" /\ ConfidentEnough)
              => Earned(NewRow(s))
BY DEF NewRow, Row, Earned, TypeOK

---------------------------------------------------------------------------
(* The invariant holds initially and is preserved.                         *)

\* Nothing has been observed and nothing is promoted.
LEMMA InitIInv == Init => IInv
<1> SUFFICES ASSUME Init PROVE IInv
  OBVIOUS
<1>1. TypeOK
  BY DEF Init, TypeOK, NewRow, Row, Steps, Candidates
<1>2. QED
  BY <1>1, NewRowFacts DEF Init, IInv, Decided, Candidates

\* What was earned stays earned: the history only grows.
LEMMA EarnedGrows ==
  ASSUME TypeOK, confident' \in Nat, measured' \in Nat,
         confident' >= confident, measured' >= measured,
         NEW r \in Row, Earned(r)
  PROVE  /\ r.validated <= confident' /\ r.total <= measured' /\ r.success = r.total
         /\ r.status \in {"shadow", "active"} => ConfidentEnough'
         /\ r.status = "active" => MeasuredEnough' /\ MinSuccessPct <= 100
<1>1. /\ AtLeastOne(ValidatedToShadow) \in Nat /\ AtLeastOne(ShadowToActive) \in Nat
      /\ confident \in Nat /\ measured \in Nat
      /\ r.validated \in Nat /\ r.total \in Nat
  BY CutoffType, PromoteAssumption DEF TypeOK, Row
<1>2. (ConfidentEnough => ConfidentEnough') /\ (MeasuredEnough => MeasuredEnough')
  BY <1>1 DEF ConfidentEnough, MeasuredEnough
<1>3. QED BY <1>1, <1>2 DEF Earned

\* Steps that move one call on and touch neither row, copies nor history.
LEMMA ControlStep ==
  ASSUME IInv, TypeOK', NEW w \in Workers, NEW l \in Steps,
         pc' = [pc EXCEPT ![w] = l],
         UNCHANGED <<row, st, history>>,
         l \in {"find_sig", "set_sig", "find_tr", "find_pending", "set_tr", "save"}
           => st[w].status # "none",
         l = "find_pending" => st[w].status = "active",
         (\E i \in Candidates' : sigs'[i].on) => ConfidentEnough
  PROVE  IInv'
<1>1. Decided' BY DEF IInv, TypeOK, Decided
<1>2. Earned(row)' /\ \A v \in Workers : Earned(st[v])'
  BY DEF IInv, Earned, ConfidentEnough, MeasuredEnough, history
<1>3. \A v \in Workers : pc'[v] = "find_pending" => st'[v].status = "active"
  BY DEF IInv, TypeOK
<1>4. QED BY <1>1, <1>2, <1>3 DEF IInv, ConfidentEnough, history

\* Resolve decides: a hit to measure or a candidate to store.
LEMMA ResolveStep ==
  ASSUME IInv, NEW w \in Workers, Match(w) \/ Discover(w)
  PROVE  IInv'
<1>1. CASE Match(w)
  <2>1. TypeOK'
    BY <1>1 DEF IInv, TypeOK, Match, Goto, Call, tables, history, Steps, Candidates
  <2>2. QED
    BY <1>1, <2>1, ControlStep
       DEF Match, Goto, Steps, tables, history, IInv, Candidates, ConfidentEnough
<1>2. CASE Discover(w)
  <2>1. high' \in [Workers -> BOOLEAN]
    BY <1>2 DEF IInv, TypeOK, Discover
  <2>2. TypeOK'
    BY <1>2, <2>1 DEF IInv, TypeOK, Discover, Goto, Call, tables, history, Steps, Candidates
  <2>3. QED
    BY <1>2, <2>2, ControlStep
       DEF Discover, Goto, Steps, tables, history, IInv, Candidates, ConfidentEnough
<1>3. QED BY <1>1, <1>2

\* A new signature of the classifiers is disabled.
LEMMA SaveSignatureStep ==
  ASSUME IInv, NEW w \in Workers, SaveSignature(w)
  PROVE  IInv'
<1> DEFINE new == [own |-> FALSE, on |-> FALSE]
<1>1. new \in Sig /\ sigs \in Seq(Sig) BY DEF IInv, TypeOK, Sig
<1>2. /\ sigs' \in Seq(Sig) /\ DOMAIN sigs \subseteq DOMAIN sigs'
      /\ \A i \in DOMAIN sigs : sigs'[i] = sigs[i]
      /\ \A i \in DOMAIN sigs' \ DOMAIN sigs : sigs'[i] = new
  <2>1. CASE sigs' = Append(sigs, new) BY <2>1, <1>1, Added
  <2>2. CASE sigs' = sigs BY <2>2, <1>1
  <2>3. QED BY <2>1, <2>2 DEF SaveSignature
<1>3. TypeOK'
  BY <1>2 DEF IInv, TypeOK, SaveSignature, Goto, Fault, history, Steps, Candidates, Sig
<1>4. (\E i \in Candidates' : sigs'[i].on) => ConfidentEnough
  BY <1>2 DEF IInv, Candidates
<1>5. QED
  BY <1>3, <1>4, ControlStep DEF SaveSignature, Goto, Steps, history

\* A new transform is pending.
LEMMA SaveTransformStep ==
  ASSUME IInv, NEW w \in Workers, SaveTransform(w)
  PROVE  IInv'
<1> DEFINE Status == {"pending", "shadow", "active"}
<1>1. trs' \in Seq(Status) /\ DOMAIN trs \subseteq DOMAIN trs'
  <2>1. trs \in Seq(Status) BY DEF IInv, TypeOK
  <2>2. CASE trs' = Append(trs, "pending") BY <2>1, <2>2, Added
  <2>3. CASE trs' = trs BY <2>1, <2>3
  <2>4. QED BY <2>2, <2>3 DEF SaveTransform
<1>2. TypeOK'
  BY <1>1 DEF IInv, TypeOK, SaveTransform, Goto, history, Steps, Candidates
<1>3. QED
  BY <1>2, ControlStep
     DEF SaveTransform, Goto, Steps, history, IInv, Candidates, ConfidentEnough

\* A call works out the row it will write; the copy has earned its status.
LEMMA DecisionStep ==
  ASSUME IInv, TypeOK', NEW w \in Workers, NEW l \in Steps, NEW r \in Row,
         pc' = [pc EXCEPT ![w] = l], st' = [st EXCEPT ![w] = r],
         UNCHANGED tables,
         confident' >= confident, measured' >= measured,
         r.status # "none", l # "find_pending",
         r.validated <= confident' /\ r.total <= measured' /\ r.success = r.total,
         r.status \in {"shadow", "active"} => ConfidentEnough',
         r.status = "active" => MeasuredEnough' /\ MinSuccessPct <= 100
  PROVE  IInv'
<1>1. Decided' BY DEF IInv, TypeOK, Decided
<1>2. confident' \in Nat /\ measured' \in Nat BY DEF TypeOK
<1>3. Earned(row)'
  <2>1. row \in Row BY DEF IInv, TypeOK
  <2>2. QED BY <1>2, <2>1, EarnedGrows DEF IInv, Earned, tables
<1>4. ASSUME NEW v \in Workers PROVE Earned(st[v])'
  <2>1. st[v] \in Row /\ Earned(st[v]) BY DEF IInv, TypeOK
  <2>2. CASE v = w BY <2>2 DEF Earned, IInv, TypeOK
  <2>3. CASE v # w
    <3>1. st'[v] = st[v] BY <2>3 DEF IInv, TypeOK
    <3>2. QED BY <1>2, <2>1, <3>1, EarnedGrows DEF Earned, IInv
  <2>4. QED BY <2>2, <2>3
<1>5. \A v \in Workers : pc'[v] = "find_pending" => st'[v].status = "active"
  BY DEF IInv, TypeOK
<1>6. ConfidentEnough => ConfidentEnough'
  <2>1. AtLeastOne(ValidatedToShadow) \in Nat /\ confident \in Nat
    BY CutoffType, PromoteAssumption DEF IInv, TypeOK
  <2>2. QED BY <1>2, <2>1 DEF ConfidentEnough
<1>7. (\E i \in Candidates' : sigs'[i].on) => ConfidentEnough'
  BY <1>6 DEF IInv, Candidates, tables
<1>8. QED BY <1>1, <1>3, <1>4, <1>5, <1>7 DEF IInv

\* A confident candidate adds one to the count, and the cutoff is met by
\* candidates that were all observed.
LEMMA ObserveCandidateStep ==
  ASSUME IInv, NEW w \in Workers, ObserveCandidate(w)
  PROVE  IInv'
<1> DEFINE one == IF high[w] THEN 1 ELSE 0
<1>1. PICK failed \in BOOLEAN :
        LET r == Counted(w, Loaded(failed)) IN
        IF Validated(r)
        THEN st' = [st EXCEPT ![w] = NewRow("shadow")] /\ Goto(w, "find_sig")
        ELSE st' = [st EXCEPT ![w] = r] /\ Goto(w, "save")
  BY DEF ObserveCandidate
<1> DEFINE base == Loaded(failed)
           r == Counted(w, base)
<1>2. /\ confident \in Nat /\ measured \in Nat /\ high[w] \in BOOLEAN
      /\ row \in Row /\ Earned(row)
  BY DEF IInv, TypeOK
<1>3. confident' = confident + one /\ measured' = measured /\ UNCHANGED tables
  BY DEF ObserveCandidate, tables
<1>4. /\ base \in Row /\ base.status # "none" /\ base.validated <= confident
      /\ base.total <= measured /\ base.success = base.total
      /\ base.status \in {"shadow", "active"} => ConfidentEnough
      /\ base.status = "active" => MeasuredEnough /\ MinSuccessPct <= 100
  BY <1>2 DEF Loaded, NewRow, Row, Earned
<1>5. /\ r \in Row /\ r.status = base.status /\ r.validated = base.validated + one
      /\ r.total = base.total /\ r.success = base.success
  BY <1>2, <1>4 DEF Counted, Row
<1>6. confident' \in Nat /\ r.validated <= confident' /\ confident' >= confident
  BY <1>2, <1>3, <1>4, <1>5 DEF Row
<1>7. ConfidentEnough => ConfidentEnough'
  BY <1>2, <1>6, CutoffType, PromoteAssumption DEF ConfidentEnough
<1>8. Validated(r) => ConfidentEnough'
  <2>1. r.validated \in Nat BY <1>5 DEF Row
  <2>2. QED
    BY <1>6, <2>1, CutoffType, PromoteAssumption DEF Validated, ConfidentEnough
<1>9. NewRow("shadow") \in Row BY DEF NewRow, Row
<1>10. /\ st' \in [Workers -> Row] /\ pc' \in [Workers -> Steps]
       /\ \A v \in Workers : pc'[v] \in {"set_sig", "set_tr"} => pc'[v] = pc[v]
  BY <1>1, <1>5, <1>9 DEF IInv, TypeOK, Goto, Steps
<1>11. faults' \in Nat BY DEF ObserveCandidate, IInv, TypeOK, Fault
<1>12. TypeOK'
  BY <1>3, <1>6, <1>10, <1>11
     DEF IInv, TypeOK, ObserveCandidate, tables, Candidates
<1>13. IF Validated(r)
       THEN st' = [st EXCEPT ![w] = NewRow("shadow")] /\ pc' = [pc EXCEPT ![w] = "find_sig"]
       ELSE st' = [st EXCEPT ![w] = r] /\ pc' = [pc EXCEPT ![w] = "save"]
  BY <1>1 DEF Goto
<1> HIDE DEF r, base, one
<1>14. CASE Validated(r)
  <2> DEFINE n == NewRow("shadow")
  <2>1. /\ n.status = "shadow" /\ n.validated <= confident' /\ n.total <= measured'
        /\ n.success = n.total
    BY <1>2, <1>3, <1>6 DEF NewRow
  <2>2. "find_sig" \in Steps /\ measured' >= measured
    BY <1>2, <1>3 DEF Steps
  <2> HIDE DEF n
  <2>3. n \in Row /\ st' = [st EXCEPT ![w] = n] /\ pc' = [pc EXCEPT ![w] = "find_sig"]
    BY <1>9, <1>13, <1>14 DEF n
  <2>4. QED
    BY <1>3, <1>6, <1>8, <1>12, <1>14, <2>1, <2>2, <2>3, DecisionStep
<1>15. CASE ~Validated(r)
  <2>1. MeasuredEnough' = MeasuredEnough /\ measured' >= measured /\ "save" \in Steps
    BY <1>2, <1>3 DEF MeasuredEnough, Steps
  <2>2. st' = [st EXCEPT ![w] = r] /\ pc' = [pc EXCEPT ![w] = "save"]
    BY <1>13, <1>15
  <2>3. r.total <= measured' /\ r.success = r.total
    BY <1>3, <1>4, <1>5
  <2>4. /\ r.status \in {"shadow", "active"} => ConfidentEnough'
        /\ r.status = "active" => MeasuredEnough' /\ MinSuccessPct <= 100
    BY <1>4, <1>5, <1>7, <2>1
  <2>5. r \in Row /\ r.status # "none"
    BY <1>4, <1>5
  <2>6. QED
    BY <1>3, <1>6, <1>12, <2>1, <2>2, <2>3, <2>4, <2>5, DecisionStep
<1>16. QED BY <1>14, <1>15
\* A hit adds one to both counters of a row in shadow.
LEMMA ObserveDeterministicHitStep ==
  ASSUME IInv, NEW w \in Workers, ObserveDeterministicHit(w)
  PROVE  IInv'
<1>1. CASE row.status # "shadow" \/ (UNCHANGED measured /\ Goto(w, "idle") /\ UNCHANGED st)
  <2>1. Goto(w, "idle") /\ UNCHANGED <<st, measured>> /\ faults' \in Nat
    BY <1>1 DEF ObserveDeterministicHit, Fault, IInv, TypeOK
  <2>2. TypeOK'
    BY <2>1 DEF ObserveDeterministicHit, IInv, TypeOK, Goto, tables, Steps, Candidates
  <2>3. QED
    BY <2>1, <2>2, ControlStep
       DEF ObserveDeterministicHit, Goto, Steps, tables, history, IInv, Candidates,
           ConfidentEnough
<1> DEFINE r == Hit(row)
           a == [r EXCEPT !.status = "active"]
           v == NewRow("validated")
<1>2. CASE /\ row.status = "shadow"
           /\ IF ~Sampled(r)
              THEN st' = [st EXCEPT ![w] = r] /\ Goto(w, "save")
              ELSE IF Successful(r)
              THEN st' = [st EXCEPT ![w] = a] /\ Goto(w, "find_tr")
              ELSE st' = [st EXCEPT ![w] = v] /\ Goto(w, "find_sig")
           /\ measured' = measured + 1
           /\ UNCHANGED faults
  <2>1. /\ confident \in Nat /\ measured \in Nat /\ row \in Row /\ Earned(row)
        /\ ConfidentEnough
    BY <1>2 DEF IInv, TypeOK, Earned
  <2>2. confident' = confident /\ UNCHANGED tables /\ ConfidentEnough'
    BY <2>1 DEF ObserveDeterministicHit, ConfidentEnough
  <2>3. /\ r \in Row /\ r.status = "shadow" /\ r.validated = row.validated
        /\ r.total = row.total + 1 /\ r.success = r.total
        /\ a \in Row /\ a.status = "active" /\ a.validated = row.validated
        /\ a.total = r.total /\ a.success = r.total
        /\ v \in Row /\ v.status = "validated" /\ v.validated = 0
        /\ v.total = 0 /\ v.success = 0
    <3>1. row.validated \in Nat /\ row.total \in Nat /\ row.success = row.total
      BY <2>1 DEF Row, Earned
    <3>2. r = [status |-> "shadow", validated |-> row.validated,
               total |-> row.total + 1, success |-> row.total + 1]
      BY <1>2, <3>1 DEF Hit
    <3>3. a = [status |-> "active", validated |-> row.validated,
               total |-> row.total + 1, success |-> row.total + 1]
      BY <3>2
    <3>4. r \in Row /\ a \in Row BY <3>1, <3>2, <3>3 DEF Row
    <3>5. v \in Row /\ v.status = "validated" /\ v.validated = 0 /\ v.total = 0
          /\ v.success = 0
      BY DEF NewRow, Row
    <3> HIDE DEF r, a, v
    <3>6. QED BY <3>1, <3>2, <3>3, <3>4, <3>5
  <2>4. /\ row.validated \in Nat /\ row.total \in Nat /\ row.validated <= confident
        /\ row.total <= measured
    BY <2>1 DEF Row, Earned
  <2>5. AtLeastOne(ShadowToActive) \in Nat \ {0}
    BY CutoffType, PromoteAssumption
  <2>6. Sampled(r) /\ Successful(r) => MeasuredEnough' /\ MinSuccessPct <= 100
    <3> SUFFICES ASSUME Sampled(r), Successful(r)
                 PROVE  MeasuredEnough' /\ MinSuccessPct <= 100
      OBVIOUS
    <3> HIDE DEF r, a, v
    <3>1. r.total >= AtLeastOne(ShadowToActive) /\ r.success * 100 >= MinSuccessPct * r.total
      BY DEF Sampled, Successful
    <3>2. r.total \in Nat \ {0} /\ r.total <= measured'
      BY <1>2, <2>1, <2>3, <2>4
    <3>3. MinSuccessPct <= 100
      BY <2>3, <3>1, <3>2, RateOfAll, PromoteAssumption
    <3>4. measured' >= AtLeastOne(ShadowToActive)
      BY <1>2, <2>1, <2>5, <3>1, <3>2
    <3>5. QED BY <3>3, <3>4 DEF MeasuredEnough
  <2>7. /\ st' \in [Workers -> Row] /\ pc' \in [Workers -> Steps]
        /\ \A u \in Workers : pc'[u] \in {"set_sig", "set_tr"} => pc'[u] = pc[u]
    BY <1>2, <2>3 DEF IInv, TypeOK, Goto, Steps
  <2>8. TypeOK'
    BY <1>2, <2>1, <2>2, <2>7
       DEF IInv, TypeOK, ObserveDeterministicHit, tables, Candidates
  <2>9. /\ {"save", "find_tr", "find_sig"} \subseteq Steps
        /\ measured' >= measured /\ confident' >= confident
    BY <1>2, <2>1, <2>2 DEF Steps
  <2>10. \/ /\ st' = [st EXCEPT ![w] = r] /\ pc' = [pc EXCEPT ![w] = "save"]
         \/ /\ Sampled(r) /\ Successful(r)
            /\ st' = [st EXCEPT ![w] = a] /\ pc' = [pc EXCEPT ![w] = "find_tr"]
         \/ /\ st' = [st EXCEPT ![w] = v] /\ pc' = [pc EXCEPT ![w] = "find_sig"]
    BY <1>2 DEF Goto
  <2>11. /\ r.validated <= confident' /\ r.total <= measured'
         /\ v.validated <= confident' /\ v.total <= measured'
    BY <1>2, <2>1, <2>2, <2>3, <2>4
  <2> HIDE DEF r, a, v
  <2>12. CASE st' = [st EXCEPT ![w] = r] /\ pc' = [pc EXCEPT ![w] = "save"]
    BY <2>2, <2>3, <2>8, <2>9, <2>11, <2>12, DecisionStep
  <2>13. CASE /\ Sampled(r) /\ Successful(r)
              /\ st' = [st EXCEPT ![w] = a] /\ pc' = [pc EXCEPT ![w] = "find_tr"]
    BY <2>2, <2>3, <2>6, <2>8, <2>9, <2>11, <2>13, DecisionStep
  <2>14. CASE st' = [st EXCEPT ![w] = v] /\ pc' = [pc EXCEPT ![w] = "find_sig"]
    BY <2>2, <2>3, <2>8, <2>9, <2>11, <2>14, DecisionStep
  <2>15. QED BY <2>10, <2>12, <2>13, <2>14
<1>3. QED BY <1>1, <1>2 DEF ObserveDeterministicHit

\* A lookup of the signature to switch.
LEMMA FindSignatureStep ==
  ASSUME IInv, NEW w \in Workers, FindSignature(w)
  PROVE  IInv'
<1>1. st[w].status # "none" /\ st[w] \in Row
  BY DEF FindSignature, IInv, TypeOK, Decided
<1> DEFINE l == IF pc'[w] = "set_sig" THEN "set_sig" ELSE AfterSig(st[w].status)
<1>2. /\ pc' = [pc EXCEPT ![w] = l] /\ l \in Steps
      /\ l \in {"set_sig", "save", "find_tr"}
      /\ l = "set_sig" => \E i \in Candidates : pick' = [pick EXCEPT ![w] = i]
      /\ l # "set_sig" => pick' = pick
  BY DEF FindSignature, Goto, IInv, TypeOK, AfterSig, Steps, Newest
<1>3. Candidates \subseteq Nat
  BY DEF Candidates, IInv, TypeOK
<1>4. faults' \in Nat
  BY DEF FindSignature, Fault, IInv, TypeOK
<1>5. UNCHANGED <<sigs, trs, row, high, st, confident, measured, calls>>
  BY DEF FindSignature, tables, history
<1> HIDE DEF l
<1>6. pick' \in [Workers -> Nat] /\ \A v \in Workers : v # w => pick'[v] = pick[v]
  BY <1>2, <1>3 DEF IInv, TypeOK
<1>7. pc'[w] = "set_sig" => pick'[w] \in Candidates
  BY <1>2 DEF IInv, TypeOK
<1>8. TypeOK'
  BY <1>2, <1>4, <1>5, <1>6, <1>7 DEF IInv, TypeOK, Candidates
<1>9. QED
  BY <1>1, <1>2, <1>5, <1>8, ControlStep DEF IInv, Candidates, ConfidentEnough, history

\* A signature is enabled for a copy in shadow or active, which has earned it.
LEMMA SetSignatureStep ==
  ASSUME IInv, NEW w \in Workers, SetSignature(w)
  PROVE  IInv'
<1>1. /\ st[w].status # "none" /\ st[w] \in Row /\ Earned(st[w])
      /\ pick[w] \in Candidates /\ sigs \in Seq(Sig)
  BY DEF SetSignature, IInv, TypeOK, Decided, Sig
<1> DEFINE on == st[w].status # "validated"
           new == [sigs[pick[w]] EXCEPT !.on = on]
<1>2. on \in BOOLEAN /\ (on => ConfidentEnough)
  BY <1>1 DEF Row, Earned
<1>3. pick[w] \in DOMAIN sigs /\ ~sigs[pick[w]].own /\ sigs[pick[w]] \in Sig
  BY <1>1, ElementOfSeq DEF Candidates
<1>4. new \in Sig /\ new.own = sigs[pick[w]].own /\ new.on = on
  BY <1>2, <1>3 DEF Sig
<1>5. sigs' = [sigs EXCEPT ![pick[w]] = new] \/ sigs' = sigs
  BY DEF SetSignature
<1> HIDE DEF on, new
<1>6. /\ sigs' \in Seq(Sig) /\ DOMAIN sigs' = DOMAIN sigs
      /\ \A i \in DOMAIN sigs :
           sigs'[i] = sigs[i] \/ (sigs'[i] = new /\ i = pick[w])
  BY <1>1, <1>3, <1>4, <1>5, Replaced
<1>7. Candidates' = Candidates
  BY <1>3, <1>4, <1>6 DEF Candidates
<1>8. (\E i \in Candidates' : sigs'[i].on) => ConfidentEnough
  BY <1>2, <1>4, <1>6, <1>7 DEF IInv, Candidates
<1> DEFINE l == AfterSig(st[w].status)
<1>9. l \in {"save", "find_tr"} /\ l \in Steps /\ pc' = [pc EXCEPT ![w] = l]
  BY DEF AfterSig, SetSignature, Goto, Steps
<1>10. faults' \in Nat /\ UNCHANGED <<trs, row, high, st, confident, measured, calls>>
  BY DEF SetSignature, Fault, IInv, TypeOK, history
<1>11. pick' = [pick EXCEPT ![w] = 0]
  BY DEF SetSignature
<1> HIDE DEF l
<1>12. TypeOK'
  BY <1>6, <1>7, <1>9, <1>10, <1>11 DEF IInv, TypeOK, Sig
<1>13. QED
  BY <1>1, <1>8, <1>9, <1>10, <1>12, ControlStep DEF history

\* A lookup of the transform to move.
LEMMA FindTransformStep ==
  ASSUME IInv, NEW w \in Workers, NEW from, NEW at, NEW otherwise \in Steps,
         FindTransform(w, from, at, otherwise),
         at \in {"find_tr", "find_pending"},
         otherwise \in {"find_pending", "find_sig", "save"},
         otherwise = "find_pending" => st[w].status = "active"
  PROVE  IInv'
<1>1. st[w].status # "none"
  BY DEF FindTransform, IInv, Decided
<1> DEFINE l == IF pc'[w] = "set_tr" THEN "set_tr" ELSE otherwise
<1>2. /\ pc' = [pc EXCEPT ![w] = l] /\ l \in Steps
      /\ l \in {"set_tr", "find_pending", "find_sig", "save"}
      /\ l = "find_pending" => st[w].status = "active"
      /\ l = "set_tr" => \E i \in DOMAIN trs : pick' = [pick EXCEPT ![w] = i]
      /\ l # "set_tr" => pick' = pick
  BY DEF FindTransform, Goto, IInv, TypeOK, Steps
<1>3. DOMAIN trs \subseteq Nat
  BY DEF IInv, TypeOK
<1>4. faults' \in Nat
  BY DEF FindTransform, Fault, IInv, TypeOK
<1>5. UNCHANGED <<sigs, trs, row, high, st, confident, measured, calls>>
  BY DEF FindTransform, tables, history
<1> HIDE DEF l
<1>6. pick' \in [Workers -> Nat] /\ \A v \in Workers : v # w => pick'[v] = pick[v]
  BY <1>2, <1>3 DEF IInv, TypeOK
<1>7. pc'[w] = "set_tr" => pick'[w] \in DOMAIN trs
  BY <1>2 DEF IInv, TypeOK
<1>8. TypeOK'
  BY <1>2, <1>4, <1>5, <1>6, <1>7 DEF IInv, TypeOK, Candidates
<1>9. QED
  BY <1>1, <1>2, <1>5, <1>8, ControlStep DEF IInv, Candidates, ConfidentEnough, history

\* The two lookups of the promoter.
LEMMA LookupStep ==
  ASSUME IInv, NEW w \in Workers, LatestTransform(w) \/ PendingTransform(w)
  PROVE  IInv'
<1>1. CASE LatestTransform(w)
  <2> DEFINE o == IF st[w].status = "active" THEN "find_pending" ELSE AfterTr(st[w].status)
  <2>1. /\ o \in {"find_pending", "find_sig", "save"} /\ o \in Steps
        /\ o = "find_pending" => st[w].status = "active"
    BY DEF AfterTr, Steps
  <2>2. FindTransform(w, Wanted(st[w].status), "find_tr", o)
    BY <1>1 DEF LatestTransform
  <2> HIDE DEF o
  <2>3. QED BY <2>1, <2>2, FindTransformStep
<1>2. CASE PendingTransform(w)
  <2>1. AfterTr("active") = "find_sig" /\ "find_sig" \in Steps
    BY DEF AfterTr, Steps
  <2>2. FindTransform(w, "pending", "find_pending", "find_sig")
    BY <1>2, <2>1 DEF PendingTransform
  <2>3. QED BY <2>1, <2>2, FindTransformStep
<1>3. QED BY <1>1, <1>2
\* A transform changes its status; the other tables stay.
LEMMA SetTransformStep ==
  ASSUME IInv, NEW w \in Workers, SetTransform(w)
  PROVE  IInv'
<1> DEFINE Status == {"pending", "shadow", "active"}
           s == Becomes(st[w].status)
<1>1. /\ st[w].status # "none" /\ st[w] \in Row
      /\ pick[w] \in DOMAIN trs /\ trs \in Seq(Status)
  BY DEF SetTransform, IInv, TypeOK, Decided
<1>2. s \in Status
  BY <1>1 DEF Becomes, Row
<1>3. trs' = [trs EXCEPT ![pick[w]] = s] \/ trs' = trs
  BY DEF SetTransform
<1> HIDE DEF s
<1>4. trs' \in Seq(Status) /\ DOMAIN trs' = DOMAIN trs
  BY <1>1, <1>2, <1>3, Replaced
<1> DEFINE l == AfterTr(st[w].status)
<1>5. l \in {"save", "find_sig"} /\ l \in Steps /\ pc' = [pc EXCEPT ![w] = l]
  BY DEF AfterTr, SetTransform, Goto, Steps
<1>6. /\ faults' \in Nat /\ pick' = [pick EXCEPT ![w] = 0]
      /\ UNCHANGED <<sigs, row, high, st, confident, measured, calls>>
  BY DEF SetTransform, Fault, IInv, TypeOK, history
<1> HIDE DEF l
<1>7. TypeOK'
  BY <1>4, <1>5, <1>6 DEF IInv, TypeOK, Candidates
<1>8. QED
  BY <1>1, <1>5, <1>6, <1>7, ControlStep DEF IInv, Candidates, ConfidentEnough, history

\* A call ends, with or without its copy in the table: the row is the old
\* one or a copy, and both have earned what they say.
LEMMA EndStep ==
  ASSUME IInv, TypeOK', NEW w \in Workers,
         pc' = [pc EXCEPT ![w] = "idle"],
         st' = [st EXCEPT ![w] = NewRow("none")],
         row' \in {row, st[w]},
         UNCHANGED <<sigs, history>>
  PROVE  IInv'
<1>1. Decided' /\ \A v \in Workers : pc'[v] = "find_pending" => st'[v].status = "active"
  BY DEF IInv, TypeOK, Decided
<1>2. NewRow("none").status = "none" /\ Earned(NewRow("none"))
  BY NewRowFacts DEF IInv
<1>3. \A r : Earned(r) => /\ r.validated <= confident' /\ r.total <= measured'
                          /\ r.success = r.total
                          /\ r.status \in {"shadow", "active"} => ConfidentEnough'
                          /\ r.status = "active" => MeasuredEnough' /\ MinSuccessPct <= 100
  BY DEF Earned, ConfidentEnough, MeasuredEnough, history
<1>4. Earned(row)'
  <2>1. Earned(row) /\ Earned(st[w]) BY DEF IInv
  <2>2. QED BY <1>3, <2>1 DEF Earned
<1>5. ASSUME NEW v \in Workers PROVE Earned(st[v])'
  <2>1. Earned(st'[v])
    BY <1>2 DEF IInv, TypeOK
  <2>2. QED BY <1>3, <2>1 DEF Earned
<1>6. (\E i \in Candidates' : sigs'[i].on) => ConfidentEnough'
  BY DEF IInv, Candidates, ConfidentEnough, history
<1>7. QED BY <1>1, <1>4, <1>5, <1>6 DEF IInv

\* The upsert and the death of the instance end a call.
LEMMA UpsertStep ==
  ASSUME IInv, NEW w \in Workers, UpsertAutoPromoteState(w) \/ Crash(w)
  PROVE  IInv'
<1>1. /\ pc' = [pc EXCEPT ![w] = "idle"] /\ st' = [st EXCEPT ![w] = NewRow("none")]
      /\ high' = [high EXCEPT ![w] = FALSE]
      /\ row' \in {row, st[w]} /\ faults' \in Nat
      /\ pick' \in [Workers -> Nat]
      /\ \A v \in Workers : v # w => pick'[v] = pick[v]
      /\ UNCHANGED <<sigs, trs, confident, measured, calls>>
  BY DEF UpsertAutoPromoteState, Crash, Goto, Fault, IInv, TypeOK, tables, history
<1>2. NewRow("none") \in Row
  BY DEF NewRow, Row
<1>3. TypeOK'
  BY <1>1, <1>2 DEF IInv, TypeOK, Steps, Candidates
<1>4. QED BY <1>1, <1>3, EndStep DEF history

\* The owner adds rows that are no candidates.
LEMMA OwnerStep ==
  ASSUME IInv, CreateSignature \/ CreateTransform
  PROVE  IInv'
<1>1. CASE CreateSignature
  <2>1. PICK on \in BOOLEAN : sigs' = Append(sigs, [own |-> TRUE, on |-> on])
    BY <1>1 DEF CreateSignature
  <2> DEFINE new == [own |-> TRUE, on |-> on]
  <2>2. new \in Sig /\ new.own /\ sigs \in Seq(Sig) BY DEF IInv, TypeOK, Sig
  <2> HIDE DEF new
  <2>3. /\ sigs' \in Seq(Sig) /\ DOMAIN sigs' = DOMAIN sigs \cup {Len(sigs) + 1}
        /\ sigs'[Len(sigs) + 1] = new /\ \A i \in DOMAIN sigs : sigs'[i] = sigs[i]
    BY <2>1, <2>2, Added DEF new
  <2>4. Candidates' = Candidates /\ \A i \in Candidates : sigs'[i] = sigs[i]
    <3>1. Len(sigs) + 1 \notin DOMAIN sigs BY <2>2, LenProperties
    <3>2. QED BY <2>2, <2>3, <3>1 DEF Candidates
  <2>5. TypeOK'
    BY <1>1, <2>3, <2>4 DEF IInv, TypeOK, CreateSignature, Call, history, Sig
  <2>6. QED
    BY <1>1, <2>4, <2>5
       DEF IInv, Decided, Earned, ConfidentEnough, MeasuredEnough, CreateSignature, history
<1>2. CASE CreateTransform
  <2> DEFINE Status == {"pending", "shadow", "active"}
  <2>1. PICK s \in Status : trs' = Append(trs, s)
    BY <1>2 DEF CreateTransform
  <2>2. trs \in Seq(Status) BY DEF IInv, TypeOK
  <2>3. trs' \in Seq(Status) /\ DOMAIN trs \subseteq DOMAIN trs'
    BY <2>1, <2>2, Added
  <2>4. TypeOK'
    BY <1>2, <2>3 DEF IInv, TypeOK, CreateTransform, Call, history, Candidates
  <2>5. QED
    BY <1>2, <2>4
       DEF IInv, Decided, Earned, ConfidentEnough, MeasuredEnough, CreateTransform,
           history, Candidates
<1>3. QED BY <1>1, <1>2

\* Every step preserves the invariant.
LEMMA NextIInv == IInv /\ [Next]_vars => IInv'
<1> SUFFICES ASSUME IInv, [Next]_vars PROVE IInv'
  OBVIOUS
<1>1. CASE UNCHANGED vars
  BY <1>1 DEF vars, IInv, TypeOK, Decided, Earned, ConfidentEnough, MeasuredEnough,
     Candidates
<1>2. ASSUME NEW w \in Workers, Match(w) \/ Discover(w) PROVE IInv'
  BY <1>2, ResolveStep
<1>3. ASSUME NEW w \in Workers, SaveSignature(w) PROVE IInv'
  BY <1>3, SaveSignatureStep
<1>4. ASSUME NEW w \in Workers, SaveTransform(w) PROVE IInv'
  BY <1>4, SaveTransformStep
<1>5. ASSUME NEW w \in Workers, ObserveCandidate(w) PROVE IInv'
  BY <1>5, ObserveCandidateStep
<1>6. ASSUME NEW w \in Workers, ObserveDeterministicHit(w) PROVE IInv'
  BY <1>6, ObserveDeterministicHitStep
<1>7. ASSUME NEW w \in Workers, FindSignature(w) PROVE IInv'
  BY <1>7, FindSignatureStep
<1>8. ASSUME NEW w \in Workers, SetSignature(w) PROVE IInv'
  BY <1>8, SetSignatureStep
<1>9. ASSUME NEW w \in Workers, LatestTransform(w) \/ PendingTransform(w) PROVE IInv'
  BY <1>9, LookupStep
<1>10. ASSUME NEW w \in Workers, SetTransform(w) PROVE IInv'
  BY <1>10, SetTransformStep
<1>11. ASSUME NEW w \in Workers, UpsertAutoPromoteState(w) \/ Crash(w) PROVE IInv'
  BY <1>11, UpsertStep
<1>12. CASE CreateSignature \/ CreateTransform
  BY <1>12, OwnerStep
<1>13. QED
  BY <1>1, <1>2, <1>3, <1>4, <1>5, <1>6, <1>7, <1>8, <1>9, <1>10, <1>11, <1>12 DEF Next

---------------------------------------------------------------------------
(***************************************************************************)
(* A promoted type is matched.  A call that will promote the row makes     *)
(* sure of a candidate first, and no call demotes one: as every sample is  *)
(* a success, a success rate up to 100 percent is always met.              *)
(***************************************************************************)
Matched == \E i \in Candidates : sigs[i].on
Smooth == faults = 0 /\ MinSuccessPct <= 100
Promoted(r) == r.status \in {"shadow", "active"}

\* Where a call looks for a signature or is about to enable it.
Switching == {"find_sig", "set_sig"}

MatchInv ==
  Smooth =>
    /\ Promoted(row) => Matched
    /\ \A w \in Workers :
         /\ pc[w] \in Switching => Promoted(st[w])
         /\ pc[w] \in {"transform", "observe"} \cup Switching => Candidates # {}
         /\ Promoted(st[w]) /\ pc[w] \notin Switching => Matched

\* A bounded set of numbers has a last one.
LEMMA NatMax ==
  ASSUME NEW n \in Nat, NEW T \in SUBSET (0..n), T # {}
  PROVE  \E i \in T : \A j \in T : j <= i
<1> DEFINE U == {n - i : i \in T}
<1>1. U \subseteq Nat /\ U # {}
  <2>1. \A i \in T : n - i \in Nat OBVIOUS
  <2>2. QED BY <2>1
<1> HIDE DEF U
<1>2. PICK u \in U : \A v \in U : ~ (<<v, u>> \in OpToRel(<, Nat))
  BY <1>1, NatLessThanWellFounded, WFMin
<1>3. \A v \in U : u <= v
  <2>1. \A v \in U : ~ (v < u) BY <1>1, <1>2 DEF OpToRel
  <2>2. QED BY <1>1, <2>1
<1>4. PICK i \in T : u = n - i
  BY DEF U
<1>5. ASSUME NEW j \in T PROVE j <= i
  <2>1. n - j \in U BY DEF U
  <2>2. u <= n - j BY <1>3, <2>1
  <2>3. QED BY <1>4, <2>2
<1>6. QED BY <1>5

\* There is a newest candidate when there is one at all.
LEMMA NewestExists ==
  ASSUME TypeOK, Candidates # {}
  PROVE  Newest # {}
<1>1. sigs \in Seq(Sig) BY DEF TypeOK, Sig
<1>2. Len(sigs) \in Nat /\ Candidates \subseteq 0..Len(sigs)
  BY <1>1, LenProperties DEF Candidates
<1>3. PICK i \in Candidates : \A j \in Candidates : j <= i
  BY <1>2, NatMax
<1>4. QED BY <1>3 DEF Newest

\* A copy in shadow has met the rate.
LEMMA RateMet ==
  ASSUME NEW n \in Nat, NEW p \in Nat, p <= 100
  PROVE  n * 100 >= p * n
<1>1. PICK d \in Nat : 100 = p + d
  <2>1. 100 - p \in Nat /\ 100 = p + (100 - p) OBVIOUS
  <2>2. QED BY <2>1
<1>2. n * 100 = p * n + d * n BY <1>1
<1>3. d * n \in Nat OBVIOUS
<1>4. p * n \in Nat OBVIOUS
<1>5. QED BY <1>2, <1>3, <1>4

\* A step without a failure follows states without one.
LEMMA StaysSmooth ==
  ASSUME IInv, IInv', Smooth', [Next]_vars
  PROVE  Smooth /\ faults' = faults
<1>1. faults \in Nat /\ faults' = 0
  BY DEF IInv, TypeOK, Smooth
<1>2. faults' = faults \/ faults' = faults + 1
  BY DEF Next, vars, Match, Discover, SaveSignature, SaveTransform, ObserveCandidate,
     ObserveDeterministicHit, FindSignature, SetSignature, LatestTransform,
     PendingTransform, FindTransform, SetTransform, UpsertAutoPromoteState, Crash,
     CreateSignature, CreateTransform, Call, Fault, tables, history
<1>3. QED
  BY <1>1, <1>2 DEF Smooth

\* One call moves to l with the copy r; the candidates do not get fewer.
LEMMA MatchStep ==
  ASSUME IInv, MatchInv, Smooth, NEW w \in Workers, NEW l, NEW r,
         pc' = [pc EXCEPT ![w] = l], st' = [st EXCEPT ![w] = r],
         Candidates # {} => Candidates' # {},
         Matched => Matched',
         Promoted(row') => Matched',
         l \in Switching => Promoted(r),
         l \in {"transform", "observe"} \cup Switching => Candidates' # {},
         Promoted(r) /\ l \notin Switching => Matched'
  PROVE  MatchInv'
<1>1. ASSUME NEW v \in Workers
      PROVE  /\ pc'[v] \in Switching => Promoted(st'[v])
             /\ pc'[v] \in {"transform", "observe"} \cup Switching => Candidates' # {}
             /\ Promoted(st'[v]) /\ pc'[v] \notin Switching => Matched'
  <2>1. CASE v = w
    <3>1. pc'[v] = l /\ st'[v] = r BY <2>1 DEF IInv, TypeOK
    <3>2. QED BY <3>1
  <2>2. CASE v # w
    <3>1. pc'[v] = pc[v] /\ st'[v] = st[v] BY <2>2 DEF IInv, TypeOK
    <3>2. QED BY <3>1 DEF MatchInv
  <2>3. QED BY <2>1, <2>2
<1>2. QED BY <1>1 DEF MatchInv, Promoted, Switching

\* The same when neither signatures nor row nor copies change.
LEMMA MatchMove ==
  ASSUME IInv, MatchInv, Smooth, NEW w \in Workers, NEW l,
         pc' = [pc EXCEPT ![w] = l],
         UNCHANGED <<sigs, row, st>>,
         l \in Switching => Promoted(st[w]),
         l \in {"transform", "observe"} \cup Switching => Candidates # {},
         Promoted(st[w]) /\ l \notin Switching => Matched
  PROVE  MatchInv'
<1>1. st' = [st EXCEPT ![w] = st[w]]
  BY DEF IInv, TypeOK
<1>2. Candidates' = Candidates /\ (Matched' <=> Matched)
  BY DEF Candidates, Matched
<1>3. Promoted(row') => Matched'
  BY <1>2 DEF MatchInv, Promoted
<1>4. QED BY <1>1, <1>2, <1>3, MatchStep

\* Signatures that are added leave the candidates as they are.
LEMMA SigAdded ==
  ASSUME IInv, NEW new \in Sig, sigs' = Append(sigs, new)
  PROVE  /\ Candidates \subseteq Candidates'
         /\ Matched => Matched'
         /\ ~new.own => Candidates' # {}
<1>1. sigs \in Seq(Sig) BY DEF IInv, TypeOK, Sig
<1>2. /\ DOMAIN sigs' = DOMAIN sigs \cup {Len(sigs) + 1}
      /\ sigs'[Len(sigs) + 1] = new
      /\ \A i \in DOMAIN sigs : sigs'[i] = sigs[i]
  BY <1>1, Added
<1>3. QED BY <1>2 DEF Candidates, Matched

\* Every step of a call preserves it.
LEMMA ResolveMatch ==
  ASSUME IInv, MatchInv, Smooth, Smooth', NEW w \in Workers,
         faults' = faults,
         Match(w) \/ Discover(w) \/ SaveSignature(w) \/ SaveTransform(w)
  PROVE  MatchInv'
<1>1. CASE Match(w) \/ Discover(w)
  <2>1. PICK l \in {"measure", "signature"} : pc' = [pc EXCEPT ![w] = l]
    BY <1>1 DEF Match, Discover, Goto
  <2>2. UNCHANGED <<sigs, row, st>> /\ pc[w] = "idle"
    BY <1>1 DEF Match, Discover, tables
  <2>3. Promoted(st[w]) => Matched
    BY <2>2 DEF MatchInv, Switching
  <2>4. l \notin {"transform", "observe"} \cup Switching
    BY <2>1 DEF Switching
  <2>5. QED BY <2>1, <2>2, <2>3, <2>4, MatchMove
<1>2. CASE SaveSignature(w)
  <2> DEFINE new == [own |-> FALSE, on |-> FALSE]
  <2>1. faults \in Nat /\ ~Fault
    BY <1>2 DEF IInv, TypeOK, Fault
  <2>2. /\ new \in Sig /\ ~new.own
        /\ sigs' = Append(sigs, new)
        /\ UNCHANGED <<row, st>>
        /\ pc' = [pc EXCEPT ![w] = "transform"]
        /\ pc[w] = "signature"
    BY <1>2, <2>1 DEF SaveSignature, Goto, Sig
  <2> HIDE DEF new
  <2>3. Candidates \subseteq Candidates' /\ (Matched => Matched') /\ Candidates' # {}
    BY <2>2, SigAdded
  <2>4. Promoted(row') => Matched'
    BY <2>2, <2>3 DEF MatchInv
  <2>5. Promoted(st[w]) => Matched'
    BY <2>2, <2>3 DEF MatchInv, Switching
  <2>6. st' = [st EXCEPT ![w] = st[w]]
    BY <2>2 DEF IInv, TypeOK
  <2>7. "transform" \notin Switching
    BY DEF Switching
  <2>8. QED BY <2>2, <2>3, <2>4, <2>5, <2>6, <2>7, MatchStep
<1>3. CASE SaveTransform(w)
  <2>1. /\ UNCHANGED <<sigs, row, st>> /\ pc[w] = "transform"
        /\ pc' = [pc EXCEPT ![w] = "observe"]
    BY <1>3 DEF SaveTransform, Goto
  <2>2. Candidates # {} /\ (Promoted(st[w]) => Matched) /\ "observe" \notin Switching
    BY <2>1 DEF MatchInv, Switching
  <2>3. QED BY <2>1, <2>2, MatchMove
<1>4. QED BY <1>1, <1>2, <1>3

\* The candidate is there; what the copy claims beyond the row waits for it
\* to be enabled.
LEMMA ObserveCandidateMatch ==
  ASSUME IInv, MatchInv, Smooth, NEW w \in Workers, faults' = faults,
         ObserveCandidate(w)
  PROVE  MatchInv'
<1>1. faults \in Nat /\ ~Fault
  BY DEF IInv, TypeOK, Fault
<1> DEFINE r == Counted(w, Loaded(FALSE))
<1>2. IF Validated(r)
      THEN st' = [st EXCEPT ![w] = NewRow("shadow")] /\ Goto(w, "find_sig")
      ELSE st' = [st EXCEPT ![w] = r] /\ Goto(w, "save")
  BY <1>1 DEF ObserveCandidate
<1>3. pc[w] = "observe" /\ UNCHANGED <<sigs, row>>
  BY DEF ObserveCandidate, tables
<1>4. Candidates' = Candidates /\ (Matched' <=> Matched) /\ Candidates # {}
  BY <1>3 DEF Candidates, Matched, MatchInv
<1>5. Promoted(row') => Matched'
  BY <1>3, <1>4 DEF MatchInv
<1>6. Promoted(r) => Matched'
  <2>1. row \in Row BY DEF IInv, TypeOK
  <2>2. r.status = row.status \/ r.status = "validated"
    BY <2>1 DEF Counted, Loaded, NewRow, Row
  <2>3. QED BY <1>3, <1>5, <2>2 DEF Promoted
<1> HIDE DEF r
<1>7. CASE Validated(r)
  <2>1. Promoted(NewRow("shadow")) /\ "find_sig" \in Switching
    BY DEF Promoted, NewRow, Switching
  <2>2. st' = [st EXCEPT ![w] = NewRow("shadow")] /\ pc' = [pc EXCEPT ![w] = "find_sig"]
    BY <1>2, <1>7 DEF Goto
  <2>3. QED BY <1>4, <1>5, <2>1, <2>2, MatchStep
<1>8. CASE ~Validated(r)
  <2>1. "save" \notin {"transform", "observe"} \cup Switching
    BY DEF Switching
  <2>2. st' = [st EXCEPT ![w] = r] /\ pc' = [pc EXCEPT ![w] = "save"]
    BY <1>2, <1>8 DEF Goto
  <2>3. QED BY <1>4, <1>5, <1>6, <2>1, <2>2, MatchStep
<1>9. QED BY <1>7, <1>8

\* A hit needs a matching signature and meets the rate.
LEMMA ObserveDeterministicHitMatch ==
  ASSUME IInv, MatchInv, Smooth, NEW w \in Workers, faults' = faults,
         ObserveDeterministicHit(w)
  PROVE  MatchInv'
<1>1. /\ faults \in Nat /\ ~Fault /\ row \in Row /\ Earned(row)
  BY DEF IInv, TypeOK, Fault
<1>2. pc[w] = "measure" /\ UNCHANGED <<sigs, row>>
  BY DEF ObserveDeterministicHit, tables
<1>3. Candidates' = Candidates /\ (Matched' <=> Matched)
  BY <1>2 DEF Candidates, Matched
<1>4. Promoted(row') => Matched'
  BY <1>2, <1>3 DEF MatchInv
<1>5. "save" \notin {"transform", "observe"} \cup Switching
      /\ "find_tr" \notin {"transform", "observe"} \cup Switching
      /\ "idle" \notin {"transform", "observe"} \cup Switching
  BY DEF Switching
<1>6. CASE row.status # "shadow"
  <2>1. UNCHANGED st /\ pc' = [pc EXCEPT ![w] = "idle"]
    BY <1>6, <1>1 DEF ObserveDeterministicHit, Goto
  <2>2. Promoted(st[w]) => Matched
    BY <1>2 DEF MatchInv, Switching
  <2>3. QED BY <1>2, <1>5, <2>1, <2>2, MatchMove
<1>7. CASE row.status = "shadow"
  <2> DEFINE r == Hit(row)
             a == [r EXCEPT !.status = "active"]
  <2>1. Matched'
    BY <1>2, <1>4, <1>7 DEF Promoted
  <2>2. Successful(r)
    <3>1. row.total + 1 \in Nat /\ row.success = row.total
      BY <1>1 DEF Row, Earned
    <3>2. r.total = row.total + 1 /\ r.success = row.total + 1
      BY <3>1 DEF Hit
    <3>3. MinSuccessPct \in Nat /\ MinSuccessPct <= 100
      BY PromoteAssumption DEF Smooth
    <3>4. (row.total + 1) * 100 >= MinSuccessPct * (row.total + 1)
      BY <3>1, <3>3, RateMet
    <3>5. QED BY <3>2, <3>4 DEF Successful
  <2>3. \/ st' = [st EXCEPT ![w] = r] /\ Goto(w, "save")
        \/ st' = [st EXCEPT ![w] = a] /\ Goto(w, "find_tr")
    BY <1>1, <1>7, <2>2 DEF ObserveDeterministicHit
  <2> HIDE DEF r, a
  <2>4. CASE st' = [st EXCEPT ![w] = r] /\ Goto(w, "save")
    <3>1. pc' = [pc EXCEPT ![w] = "save"] BY <2>4 DEF Goto
    <3>2. QED BY <1>3, <1>4, <1>5, <2>1, <2>4, <3>1, MatchStep
  <2>5. CASE st' = [st EXCEPT ![w] = a] /\ Goto(w, "find_tr")
    <3>1. pc' = [pc EXCEPT ![w] = "find_tr"] BY <2>5 DEF Goto
    <3>2. QED BY <1>3, <1>4, <1>5, <2>1, <2>5, <3>1, MatchStep
  <2>6. QED BY <2>3, <2>4, <2>5
<1>8. QED BY <1>6, <1>7

\* The lookup finds the candidate.
LEMMA FindSignatureMatch ==
  ASSUME IInv, MatchInv, Smooth, NEW w \in Workers, faults' = faults,
         FindSignature(w)
  PROVE  MatchInv'
<1>1. faults \in Nat /\ ~Fault
  BY DEF IInv, TypeOK, Fault
<1>2. pc[w] = "find_sig" /\ UNCHANGED <<sigs, row, st>>
  BY DEF FindSignature, tables
<1>3. Candidates # {} /\ Promoted(st[w])
  BY <1>2 DEF MatchInv, Switching
<1>4. Newest # {}
  BY <1>3, NewestExists DEF IInv
<1>5. pc' = [pc EXCEPT ![w] = "set_sig"]
  BY <1>1, <1>4 DEF FindSignature, Goto
<1>6. "set_sig" \in Switching
  BY DEF Switching
<1>7. QED BY <1>2, <1>3, <1>5, <1>6, MatchMove

\* It is enabled: no copy on the way asks for a rollback.
LEMMA SetSignatureMatch ==
  ASSUME IInv, MatchInv, Smooth, NEW w \in Workers, faults' = faults,
         SetSignature(w)
  PROVE  MatchInv'
<1>1. faults \in Nat /\ ~Fault
  BY DEF IInv, TypeOK, Fault
<1>2. pc[w] = "set_sig" /\ UNCHANGED <<row, st>> /\ sigs \in Seq(Sig)
  BY DEF SetSignature, IInv, TypeOK, Sig
<1>3. Promoted(st[w])
  BY <1>2 DEF MatchInv, Switching
<1>4. pick[w] \in Candidates /\ pick[w] \in DOMAIN sigs /\ ~sigs[pick[w]].own
  BY <1>2 DEF IInv, TypeOK, Candidates
<1> DEFINE new == [sigs[pick[w]] EXCEPT !.on = TRUE]
<1>5. sigs' = [sigs EXCEPT ![pick[w]] = new]
  <2>1. (st[w].status # "validated") = TRUE BY <1>3 DEF Promoted
  <2>2. QED BY <1>1, <2>1 DEF SetSignature
<1>6. new \in Sig /\ new.on /\ ~new.own
  <2>1. sigs[pick[w]] \in Sig BY <1>2, <1>4, ElementOfSeq
  <2>2. QED BY <1>4, <2>1 DEF Sig
<1> HIDE DEF new
<1>7. DOMAIN sigs' = DOMAIN sigs /\ sigs'[pick[w]] = new
  BY <1>2, <1>4, <1>5, <1>6, Replaced
<1>8. Matched' /\ Candidates' # {}
  BY <1>4, <1>6, <1>7 DEF Matched, Candidates
<1> DEFINE l == AfterSig(st[w].status)
<1>9. pc' = [pc EXCEPT ![w] = l] /\ l \notin {"transform", "observe"} \cup Switching
  BY DEF SetSignature, Goto, AfterSig, Switching
<1> HIDE DEF l
<1>10. st' = [st EXCEPT ![w] = st[w]]
  BY <1>2 DEF IInv, TypeOK
<1>11. QED BY <1>8, <1>9, <1>10, MatchStep

\* Transforms matter to no signature; activation looks for one again.
LEMMA TransformMatch ==
  ASSUME IInv, MatchInv, Smooth, NEW w \in Workers,
         LatestTransform(w) \/ PendingTransform(w) \/ SetTransform(w)
  PROVE  MatchInv'
<1>1. /\ UNCHANGED <<sigs, row, st>>
      /\ pc[w] \in {"find_tr", "find_pending", "set_tr"}
  BY DEF LatestTransform, PendingTransform, FindTransform, SetTransform, tables
<1>2. Promoted(st[w]) => Matched
  BY <1>1 DEF MatchInv, Switching
<1>3. pc[w] = "find_pending" => st[w].status = "active"
  BY DEF IInv
<1>4. PICK l \in {"find_pending", "find_sig", "set_tr", "save"} :
        /\ pc' = [pc EXCEPT ![w] = l]
        /\ l = "find_sig" => st[w].status = "active"
  <2>1. CASE LatestTransform(w)
    BY <2>1 DEF LatestTransform, FindTransform, Goto, AfterTr
  <2>2. CASE PendingTransform(w)
    BY <1>3, <2>2 DEF PendingTransform, FindTransform, Goto, AfterTr
  <2>3. CASE SetTransform(w)
    BY <2>3 DEF SetTransform, Goto, AfterTr
  <2>4. QED BY <2>1, <2>2, <2>3
<1>5. l \in {"transform", "observe"} \cup Switching =>
        l \in Switching /\ Promoted(st[w]) /\ Matched
  BY <1>2, <1>4 DEF Switching, Promoted
<1>6. Matched => Candidates # {}
  BY DEF Matched
<1>7. QED BY <1>1, <1>2, <1>4, <1>5, <1>6, MatchMove

\* The copy that becomes the row has seen to its signature.
LEMMA UpsertMatch ==
  ASSUME IInv, MatchInv, Smooth, NEW w \in Workers, faults' = faults,
         UpsertAutoPromoteState(w) \/ Crash(w)
  PROVE  MatchInv'
<1>1. faults \in Nat /\ ~Fault
  BY DEF IInv, TypeOK, Fault
<1>2. /\ pc[w] = "save" /\ row' = st[w] /\ UNCHANGED sigs
      /\ pc' = [pc EXCEPT ![w] = "idle"] /\ st' = [st EXCEPT ![w] = NewRow("none")]
  BY <1>1 DEF UpsertAutoPromoteState, Crash, Goto
<1>3. Candidates' = Candidates /\ (Matched' <=> Matched)
  BY <1>2 DEF Candidates, Matched
<1>4. Promoted(row') => Matched'
  BY <1>2, <1>3 DEF MatchInv, Switching
<1>5. ~Promoted(NewRow("none")) /\ "idle" \notin {"transform", "observe"} \cup Switching
  BY DEF Promoted, NewRow, Switching
<1>6. QED BY <1>2, <1>3, <1>4, <1>5, MatchStep

\* What the owner adds takes no candidate away.
LEMMA OwnerMatch ==
  ASSUME IInv, MatchInv, Smooth, CreateSignature \/ CreateTransform
  PROVE  MatchInv'
<1>1. UNCHANGED <<row, pc, st>>
  BY DEF CreateSignature, CreateTransform
<1>2. (Candidates # {} => Candidates' # {}) /\ (Matched => Matched')
  <2>1. CASE CreateSignature
    <3>1. PICK on \in BOOLEAN : sigs' = Append(sigs, [own |-> TRUE, on |-> on])
      BY <2>1 DEF CreateSignature
    <3>2. [own |-> TRUE, on |-> on] \in Sig
      BY DEF Sig
    <3>3. QED BY <3>1, <3>2, SigAdded
  <2>2. CASE CreateTransform
    BY <2>2 DEF CreateTransform, Candidates, Matched
  <2>3. QED BY <2>1, <2>2
<1>3. QED BY <1>1, <1>2 DEF MatchInv, Promoted, Switching

LEMMA NextMatch == IInv /\ IInv' /\ MatchInv /\ [Next]_vars => MatchInv'
<1> SUFFICES ASSUME IInv, IInv', MatchInv, [Next]_vars, Smooth' PROVE MatchInv'
  BY DEF MatchInv
<1>1. Smooth /\ faults' = faults
  BY StaysSmooth
<1>2. CASE UNCHANGED vars
  BY <1>2 DEF vars, MatchInv, Smooth, Matched, Candidates, Promoted, Switching
<1>3. ASSUME NEW w \in Workers,
             Match(w) \/ Discover(w) \/ SaveSignature(w) \/ SaveTransform(w)
      PROVE  MatchInv'
  BY <1>1, <1>3, ResolveMatch
<1>4. ASSUME NEW w \in Workers, ObserveCandidate(w) PROVE MatchInv'
  BY <1>1, <1>4, ObserveCandidateMatch
<1>5. ASSUME NEW w \in Workers, ObserveDeterministicHit(w) PROVE MatchInv'
  BY <1>1, <1>5, ObserveDeterministicHitMatch
<1>6. ASSUME NEW w \in Workers, FindSignature(w) PROVE MatchInv'
  BY <1>1, <1>6, FindSignatureMatch
<1>7. ASSUME NEW w \in Workers, SetSignature(w) PROVE MatchInv'
  BY <1>1, <1>7, SetSignatureMatch
<1>8. ASSUME NEW w \in Workers,
             LatestTransform(w) \/ PendingTransform(w) \/ SetTransform(w)
      PROVE  MatchInv'
  BY <1>1, <1>8, TransformMatch
<1>9. ASSUME NEW w \in Workers, UpsertAutoPromoteState(w) \/ Crash(w) PROVE MatchInv'
  BY <1>1, <1>9, UpsertMatch
<1>10. CASE CreateSignature \/ CreateTransform
  BY <1>1, <1>10, OwnerMatch
<1>11. QED
  BY <1>2, <1>3, <1>4, <1>5, <1>6, <1>7, <1>8, <1>9, <1>10 DEF Next

---------------------------------------------------------------------------
(* Theorems.                                                               *)

\* The invariant holds in every reachable state.
LEMMA Invariance == Spec => []IInv
BY InitIInv, NextIInv, PTL DEF Spec

\* Type correctness: no call updates a row that does not exist.
THEOREM TypeCorrect == Spec => []TypeOK
<1>1. IInv => TypeOK BY DEF IInv
<1>2. QED BY <1>1, Invariance, PTL

\* However the observers overwrite each other's row, the promotion of a type
\* has been earned by observations.
THEOREM Promotion == Spec => []PromotionEarned
<1>1. IInv => PromotionEarned
  BY DEF IInv, PromotionEarned, Earned, ConfidentEnough, MeasuredEnough
<1>2. QED BY <1>1, Invariance, PTL

\* And so has every activation of a transform by the promoter.
THEOREM Activation == Spec => ActivationEarned
<1> DEFINE Act == \A i \in DOMAIN trs :
              trs[i] # "active" /\ trs'[i] = "active" =>
                ConfidentEnough /\ MeasuredEnough /\ MinSuccessPct <= 100
<1>1. ASSUME IInv, [Next]_vars PROVE [Act]_vars
  <2>1. ASSUME NEW w \in Workers, SetTransform(w) PROVE Act
    <3> SUFFICES ASSUME NEW i \in DOMAIN trs, trs[i] # "active", trs'[i] = "active"
                 PROVE  ConfidentEnough /\ MeasuredEnough /\ MinSuccessPct <= 100
      OBVIOUS
    <3>1. Becomes(st[w].status) = "active"
      BY <1>1, <2>1 DEF SetTransform, IInv, TypeOK
    <3>2. st[w].status = "active" /\ Earned(st[w])
      BY <1>1, <3>1 DEF Becomes, IInv
    <3>3. QED BY <3>2 DEF Earned
  <2>2. CASE /\ \A w \in Workers : ~SetTransform(w)
             /\ ~UNCHANGED trs
    <3>1. PICK s : trs' = Append(trs, s) /\ s \in {"pending", "shadow", "active"}
      BY <1>1, <2>2 DEF Next, vars, Match, Discover, SaveSignature, SaveTransform,
         ObserveCandidate, ObserveDeterministicHit, FindSignature, SetSignature,
         LatestTransform, PendingTransform, FindTransform, UpsertAutoPromoteState,
         Crash, CreateSignature, CreateTransform, tables
    <3>2. trs \in Seq({"pending", "shadow", "active"}) BY <1>1 DEF IInv, TypeOK
    <3>3. \A i \in DOMAIN trs : trs'[i] = trs[i] BY <3>1, <3>2, Added
    <3>4. QED BY <3>3
  <2>3. CASE UNCHANGED trs
    BY <2>3
  <2>4. QED BY <2>1, <2>2, <2>3
<1>2. QED
  <2>1. IInv /\ [Next]_vars => [Act]_vars BY <1>1
  <2>2. Spec => [][Act]_vars BY <2>1, Invariance, PTL DEF Spec
  <2>3. Act <=> \A i \in DOMAIN trs :
                  trs[i] # "active" /\ trs'[i] = "active" =>
                    /\ confident >= AtLeastOne(ValidatedToShadow)
                    /\ measured >= AtLeastOne(ShadowToActive)
                    /\ MinSuccessPct <= 100
    BY DEF ConfidentEnough, MeasuredEnough
  <2>4. QED BY <2>2, <2>3, PTL DEF ActivationEarned

\* A promoted type has a signature that matches, as long as no call fails and
\* the success rate asked for can be met.
THEOREM PromotedIsMatchedHolds == Spec => []PromotedIsMatched
<1>1. Init => MatchInv
  BY DEF Init, MatchInv, NewRow, Promoted, Switching
<1>2. IInv /\ IInv' /\ MatchInv /\ [Next]_vars => MatchInv'
  BY NextMatch
<1>3. MatchInv => PromotedIsMatched
  BY DEF MatchInv, PromotedIsMatched, Smooth, Promoted, Matched
<1>4. QED
  BY <1>1, <1>2, <1>3, Invariance, PTL DEF Spec
=============================================================================
