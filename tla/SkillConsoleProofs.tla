-------------------------- MODULE SkillConsoleProofs --------------------------
(***************************************************************************)
(* Proofs about SkillConsole, for any listeners, skills and packs and any  *)
(* number of clicks and failed calls.                                      *)
(***************************************************************************)
EXTENDS SkillConsole, FiniteSetTheorems, SequenceTheorems, WellFoundedInduction, TLAPS

(***************************************************************************)
(* Type correctness.  A copy of a row that is shown or on its way has the  *)
(* id of a row of the table: the tab updates no other.                     *)
(***************************************************************************)
Row(n) == [id : 1..n, type : Types, key : Keys]
Prefetches(n) ==
  [sel : Types, opts : Seq(Types), got : [Types -> Seq(Row(n)) \cup {Unread}]]
Creates(n) == [n : Nat, type : Types, key : ManualKeys, got : Row(n) \cup {NoSkill}]
Saves(n) == [n : Nat, type : Types, id : 1..n, key : ManualKeys, list : Seq(Row(n)),
             got : Row(n) \cup {NoSkill}]
Stages == {"general", "generalFailed", "specific", "refused", "existing", "posting",
           "listing", "refreshing"}
Setups(n) == [op : {"preset", "pack"}, n : Nat, type : Types, stage : Stages,
              got : Seq(Row(n)) \cup {Unread}]
Posts == [n : Nat, type : Types, key : PackKeys \cup ManualKeys, done : BOOLEAN]

RowsType == rows \in Seq(Row(Len(rows))) /\ \A i \in DOMAIN rows : rows[i].id = i
ListsType(n) == byType \in [Types -> Seq(Row(n))]
CallsType(n) ==
  /\ prefetches \subseteq Prefetches(n)
  /\ creates \subseteq Creates(n)
  /\ saving # NoCall => saving \in Saves(n)
  /\ setup # NoCall => setup \in Setups(n)
  /\ puts \subseteq Saves(n) /\ left \subseteq Setups(n)
ScreenType ==
  /\ listeners \in Seq(Types) /\ selected \in Types \cup {NoType} /\ counts \in [Types -> Nat]
  /\ unique \in BOOLEAN /\ open \in BOOLEAN /\ cleared \subseteq Types
RestType ==
  /\ clicks \in Nat /\ leaves \in Nat /\ faults \in Nat /\ mounting \in Nat
  /\ overlapped \subseteq Types /\ clean \in BOOLEAN
TypeInv ==
  /\ RowsType /\ ListsType(Len(rows)) /\ CallsType(Len(rows))
  /\ ScreenType /\ posts \subseteq Posts /\ RestType

LEMMA RowGrows ==
  ASSUME NEW n \in Nat, NEW m \in Nat, n <= m
  PROVE  Row(n) \subseteq Row(m) /\ Seq(Row(n)) \subseteq Seq(Row(m))
<1>1. Row(n) \subseteq Row(m)
  BY DEF Row
<1>2. QED
  BY <1>1, SeqMonotonic

LEMMA TypedGrows ==
  ASSUME NEW n \in Nat, NEW m \in Nat, n <= m
  PROVE  (ListsType(n) => ListsType(m)) /\ (CallsType(n) => CallsType(m))
<1>1. Row(n) \subseteq Row(m) /\ Seq(Row(n)) \subseteq Seq(Row(m)) /\ 1..n \subseteq 1..m
  BY RowGrows
<1>2. Prefetches(n) \subseteq Prefetches(m) /\ Creates(n) \subseteq Creates(m)
  BY <1>1 DEF Prefetches, Creates
<1>3. Saves(n) \subseteq Saves(m) /\ Setups(n) \subseteq Setups(m)
  BY <1>1 DEF Saves, Setups
<1>4. QED
  BY <1>1, <1>2, <1>3 DEF ListsType, CallsType

\* What the server answers: each row of the type once.
RowsOf(t) == {s \in Range(rows) : s.type = t}

LEMMA ListingFacts ==
  ASSUME RowsType, NEW t
  PROVE  /\ IsFiniteSet(RowsOf(t)) /\ Range(Listing(t)) = RowsOf(t)
         /\ Len(Listing(t)) = Cardinality(RowsOf(t)) /\ Listing(t) \in Seq(Row(Len(rows)))
<1> DEFINE S == RowsOf(t)
           n == Cardinality(S)
<1>1. IsFiniteSet(Range(rows))
  <2>1. Len(rows) \in Nat /\ DOMAIN rows = 1..Len(rows)
    BY DEF RowsType
  <2>2. rows \in Surjection(1..Len(rows), Range(rows))
    BY <2>1 DEF Surjection, Range, RowsType
  <2>3. QED
    BY <2>1, <2>2, FS_NatSurjection DEF ExistsSurjection
<1>2. IsFiniteSet(S)
  BY <1>1, FS_Subset DEF RowsOf
<1>3. n \in Nat /\ ExistsBijection(1..n, S)
  BY <1>2, FS_CardinalityType
<1>4. \E f \in [1..n -> S] : IsInjective(f)
  <2>1. PICK f \in Bijection(1..n, S) : TRUE
    BY <1>3 DEF ExistsBijection
  <2>2. QED
    BY <2>1 DEF Bijection, Injection, IsInjective
<1>5. Listing(t) \in [1..n -> S] /\ IsInjective(Listing(t))
  BY <1>4 DEF Listing, SetToSeq, RowsOf
<1>6. Range(Listing(t)) = S
  <2>1. Listing(t) \in Injection(1..n, S)
    BY <1>5 DEF IsInjective, Injection
  <2>2. IsFiniteSet(1..n) /\ Cardinality(1..n) = n
    BY <1>3, FS_Interval
  <2>3. Listing(t) \in Surjection(1..n, S)
    BY <1>2, <2>1, <2>2, FS_Injection
  <2>4. QED
    BY <2>3 DEF Surjection, Range
<1>7. S \subseteq Row(Len(rows))
  BY DEF RowsOf, Range, RowsType
<1>8. Listing(t) \in Seq(Row(Len(rows))) /\ Len(Listing(t)) = n
  BY <1>3, <1>5, <1>7
<1>9. QED
  BY <1>2, <1>6, <1>8

LEMMA TypeInvIsTypeOK == TypeInv => TypeOK
<1> SUFFICES ASSUME TypeInv PROVE TypeOK
  OBVIOUS
<1> DEFINE n == Len(rows)
<1>1. n \in Nat
  BY DEF TypeInv, RowsType
<1>2. Row(n) \subseteq Skill
  BY <1>1 DEF Row, Skill
<1>3. Seq(Row(n)) \subseteq Seq(Skill)
  BY <1>2, SeqMonotonic
<1>4. rows \in Seq(Skill) /\ byType \in [Types -> Seq(Skill)]
  BY <1>3 DEF TypeInv, RowsType, ListsType
<1>5. prefetches \subseteq [sel : Types, opts : Seq(Types),
                           got : [Types -> Seq(Skill) \cup {Unread}]]
  BY <1>3 DEF TypeInv, CallsType, Prefetches
<1>6. creates \subseteq [n : Nat, type : Types, key : Keys, got : Skill \cup {NoSkill}]
  BY <1>2 DEF TypeInv, CallsType, Creates, Keys
<1>7. saving \in Save \cup {NoCall} /\ puts \subseteq Save
  <2>1. Saves(n) \subseteq Save
    BY <1>1, <1>2, <1>3 DEF Saves, Save, Keys
  <2>2. QED
    BY <2>1 DEF TypeInv, CallsType
<1>8. setup \in Setup \cup {NoCall} /\ left \subseteq Setup
  <2>1. Setups(n) \subseteq Setup
    BY <1>3 DEF Setups, Setup, Stages
  <2>2. QED
    BY <2>1 DEF TypeInv, CallsType
<1>9. QED
  BY <1>4, <1>5, <1>6, <1>7, <1>8 DEF TypeInv, ScreenType, RestType, Posts, TypeOK

LEMMA InitTypeInv == Init => TypeInv
<1> SUFFICES ASSUME Init PROVE TypeInv
  OBVIOUS
<1>1. RowsType
  <2>1. rows \in Seq([id : Nat, type : Types, key : ManualKeys])
        /\ \A i \in DOMAIN rows : rows[i].id = i
    BY SkillAssumption DEF Init
  <2> DEFINE R == [id : Nat, type : Types, key : ManualKeys]
  <2>2. Len(rows) \in Nat /\ DOMAIN rows = 1..Len(rows) /\ rows \in [1..Len(rows) -> R]
    BY <2>1, LenProperties
  <2>3. ASSUME NEW i \in 1..Len(rows) PROVE rows[i] \in Row(Len(rows))
    <3>1. rows[i] \in R /\ rows[i].id = i
      BY <2>1, <2>2
    <3>2. QED
      BY <3>1 DEF Row, Keys
  <2>4. rows \in Seq(Row(Len(rows)))
    BY <2>2, <2>3
  <2>5. QED
    BY <2>1, <2>4 DEF RowsType
<1>2. ListsType(Len(rows)) /\ CallsType(Len(rows))
  BY DEF Init, ListsType, CallsType, NoSkills
<1>3. QED
  BY <1>1, <1>2, SkillAssumption DEF Init, TypeInv, ScreenType, RestType, Zeros

\* A new row: the ids of the rows stay their positions.
LEMMA AppendRow ==
  ASSUME RowsType, NEW t \in Types, NEW k \in Keys
  PROVE  LET new == NewRow(t, k)
             rs == Append(rows, new)
         IN  /\ Len(rs) = Len(rows) + 1 /\ Len(rows) \in Nat /\ new \in Row(Len(rs))
             /\ rs \in Seq(Row(Len(rs))) /\ \A i \in DOMAIN rs : rs[i].id = i
             /\ \A i \in DOMAIN rows : rs[i] = rows[i]
             /\ rs[Len(rs)] = new /\ DOMAIN rs = DOMAIN rows \cup {Len(rs)}
<1> DEFINE n == Len(rows)
           new == NewRow(t, k)
           rs == Append(rows, new)
<1>1. n \in Nat /\ rows \in Seq(Row(n)) /\ DOMAIN rows = 1..n
  BY DEF RowsType
<1>2. new \in Row(n + 1) /\ new.id = n + 1
  BY <1>1 DEF NewRow, Row
<1>3. rows \in Seq(Row(n + 1))
  BY <1>1, RowGrows
<1>4. rs \in Seq(Row(n + 1)) /\ Len(rs) = n + 1 /\ DOMAIN rs = 1..(n + 1)
      /\ rs[n + 1] = new /\ \A i \in 1..n : rs[i] = rows[i]
  BY <1>1, <1>2, <1>3
<1>5. \A i \in DOMAIN rs : rs[i].id = i
  BY <1>1, <1>2, <1>4 DEF RowsType
<1>6. QED
  BY <1>1, <1>2, <1>4, <1>5

\* A run of the effect that fetches the skills of every listener.
LEMMA PrefetchType ==
  ASSUME NEW sel \in Types, NEW opts \in Seq(Types), NEW others, Prefetch(sel, opts, others),
         NEW n \in Nat
  PROVE  prefetches' \subseteq Prefetches(n) /\ clean' \in BOOLEAN
BY DEF Prefetch, Prefetches, Uncancelled

LEMMA SetListenersFacts ==
  ASSUME NEW ls \in ListenerLists, SetListeners(ls), ls # <<>>
  PROVE  /\ ls \in Seq(Types) /\ selected' \in Types /\ selected' \in Range(ls)
         /\ listeners' = ls /\ Prefetch(selected', ls, prefetches)
<1>1. ls \in Seq(Types) /\ ls # <<>>
  BY SkillAssumption
<1>2. 1 \in DOMAIN ls /\ Range(ls) \subseteq Types
  BY <1>1 DEF Range
<1>3. selected' \in Range(ls)
  BY <1>2 DEF SetListeners, Range
<1>4. listeners' = ls /\ Prefetch(selected', ls, prefetches)
  BY DEF SetListeners
<1>5. QED
  BY <1>1, <1>2, <1>3, <1>4

LEMMA SetListenersTypes ==
  ASSUME TypeInv, NEW ls \in ListenerLists, SetListeners(ls), NEW n \in Nat
  PROVE  /\ listeners' \in Seq(Types) /\ selected' \in Types \cup {NoType}
         /\ counts' \in [Types -> Nat] /\ cleared' \subseteq Types
         /\ prefetches' \subseteq Prefetches(n) /\ clean' \in BOOLEAN
<1>1. ls \in Seq(Types)
  BY SkillAssumption
<1>2. CASE ls = <<>>
  <2>1. /\ listeners' = ls /\ selected' = NoType /\ prefetches' = {} /\ clean' = FALSE
        /\ cleared' \subseteq Types
    BY <1>2 DEF SetListeners, Uncancelled
  <2>2. counts' = [t \in Types |-> 0]
    BY <1>2 DEF SetListeners, Zeros
  <2>3. QED
    BY <1>1, <2>1, <2>2
<1>3. CASE ls # <<>>
  <2>1. selected' \in Types /\ listeners' = ls /\ Prefetch(selected', ls, prefetches)
    BY <1>3, SetListenersFacts
  <2>2. counts' = counts /\ cleared' = cleared
    BY <1>3 DEF SetListeners
  <2>3. QED
    BY <1>1, <2>1, <2>2, PrefetchType DEF TypeInv, ScreenType
<1>4. QED
  BY <1>2, <1>3

\* What of the calls and the screen most steps leave alone.
LEMMA FaultTypes == ASSUME TypeInv, Fault PROVE faults' \in Nat /\ clean' = FALSE
BY DEF TypeInv, RestType, Fault
LEMMA ClickTypes == ASSUME TypeInv, Click PROVE clicks' \in Nat
BY DEF TypeInv, RestType, Click
LEMMA WriteTypes == ASSUME StartWrite PROVE clean' \in BOOLEAN
BY DEF StartWrite

\* There is a first among the options that have skills.
LEMMA NatMin ==
  ASSUME NEW T \in SUBSET Nat, T # {}
  PROVE  \E i \in T : \A j \in T : i <= j
<1>1. PICK i \in T : \A j \in T : ~ (<<j, i>> \in OpToRel(<, Nat))
  BY NatLessThanWellFounded, WFMin
<1>2. \A j \in T : ~ (j < i)
  BY <1>1 DEF OpToRel
<1>3. QED
  BY <1>2

LEMMA FirstStockedFacts ==
  ASSUME NEW n \in Nat, NEW p \in Prefetches(n), Stocked(p) # {}
  PROVE  /\ FirstStocked(p) \in Types /\ FirstStocked(p) \in Range(p.opts)
         /\ Len(p.got[FirstStocked(p)]) > 0
<1>1. p.opts \in Seq(Types)
  BY DEF Prefetches
<1>2. Stocked(p) \subseteq Nat /\ Stocked(p) \subseteq DOMAIN p.opts
  BY <1>1 DEF Stocked
<1> DEFINE m == CHOOSE i \in Stocked(p) : \A j \in Stocked(p) : i <= j
<1>3. m \in Stocked(p)
  BY <1>2, NatMin
<1>4. m \in DOMAIN p.opts /\ Len(p.got[p.opts[m]]) > 0
  BY <1>3 DEF Stocked
<1>5. FirstStocked(p) = p.opts[m]
  BY DEF FirstStocked
<1> HIDE DEF m
<1>6. QED
  BY <1>1, <1>4, <1>5 DEF Range

LEMMA WithSavedType ==
  ASSUME NEW n \in Nat, saving \in Saves(n), saving.got \in Row(n)
  PROVE  /\ WithSaved(saving) \in Seq(Row(n)) /\ Len(WithSaved(saving)) \in Nat
         /\ Len(WithSaved(saving)) = Len(saving.list)
<1>1. saving.list \in Seq(Row(n))
  BY DEF Saves
<1>2. WithSaved(saving) \in [1..Len(saving.list) -> Row(n)] /\ Len(saving.list) \in Nat
  BY <1>1 DEF WithSaved
<1>3. QED
  BY <1>2

LEMMA PackPostsType ==
  ASSUME NEW n, NEW s \in Setups(n) PROVE PackPosts(s) \subseteq Posts
<1>1. \A k \in Missing(s.got) : k \in PackKeys
  BY DEF Missing
<1>2. \A k \in PackKeys : [n |-> s.n, type |-> s.type, key |-> k, done |-> FALSE] \in Posts
  BY DEF Setups, Posts
<1>3. QED
  BY <1>1, <1>2 DEF PackPosts

LEMMA NextTypeInv == ASSUME TypeInv, [Next]_vars PROVE TypeInv'
<1>n. PICK n \in Nat : n = Len(rows)
  BY DEF TypeInv, RowsType
<1>0. /\ RowsType /\ ListsType(n) /\ CallsType(n) /\ ScreenType
      /\ posts \subseteq Posts /\ RestType
  BY <1>n DEF TypeInv, RowsType
<1>a. ASSUME rows' = rows, ListsType(n)', CallsType(n)', ScreenType', posts' \subseteq Posts,
             RestType'
      PROVE  TypeInv'
  BY <1>0, <1>n, <1>a DEF TypeInv, RowsType, ListsType, CallsType
<1>b. ASSUME NEW t \in Types, NEW k \in Keys, rows' = Append(rows, NewRow(t, k)),
             ListsType(n + 1)', CallsType(n + 1)', ScreenType', posts' \subseteq Posts, RestType'
      PROVE  TypeInv'
  <2>1. Len(rows') = n + 1 /\ RowsType'
    BY <1>0, <1>n, <1>b, AppendRow DEF RowsType
  <2>2. QED
    BY <1>b, <2>1 DEF TypeInv, ListsType, CallsType
<1>c. ListsType(n + 1) /\ CallsType(n + 1) /\ n + 1 \in Nat
  BY <1>0, TypedGrows
<1>1. CASE ListenersAnswer
  <2>1. PICK ls \in ListenerLists :
          IF open THEN SetListeners(ls)
          ELSE /\ listeners' = ls
               /\ UNCHANGED <<selected, counts, cleared, prefetches, clean>>
    BY <1>1 DEF ListenersAnswer
  <2>2. /\ listeners' \in Seq(Types) /\ selected' \in Types \cup {NoType}
        /\ counts' \in [Types -> Nat] /\ cleared' \subseteq Types
        /\ prefetches' \subseteq Prefetches(n) /\ clean' \in BOOLEAN
    <3>1. CASE open
      BY <1>n, <2>1, <3>1, SetListenersTypes
    <3>2. CASE ~ open
      BY <1>0, <2>1, <3>2, SkillAssumption DEF ScreenType, CallsType, RestType
    <3>3. QED
      BY <3>1, <3>2
  <2>3. mounting' \in Nat
    BY <1>0, <1>1 DEF ListenersAnswer, RestType
  <2>4. QED
    BY <1>0, <1>1, <1>a, <2>2, <2>3 DEF ListenersAnswer, ListsType, CallsType, ScreenType, RestType
<1>2. CASE ListenersFail
  <2>1. mounting' \in Nat
    BY <1>0, <1>2 DEF ListenersFail, RestType
  <2>2. QED
   BY <2>1, <1>0, <1>2, <1>a, FaultTypes DEF ListenersFail, screen, ListsType, CallsType, ScreenType, RestType
<1>3. ASSUME NEW t \in Types, PickType(t) PROVE TypeInv'
  <2>1. prefetches' \subseteq Prefetches(n) /\ clean' \in BOOLEAN
    BY <1>0, <1>3, PrefetchType DEF PickType, ScreenType
  <2>2. QED
    BY <1>0, <1>3, <1>a, <2>1, ClickTypes DEF PickType, ListsType, CallsType, ScreenType, RestType
<1>4. ASSUME NEW k \in ManualKeys, CreateSkill(k) PROVE TypeInv'
  <2>1. creates' \subseteq Creates(n)
    BY <1>0, <1>4 DEF CreateSkill, CreateForm, CallsType, ScreenType, RestType, Creates
  <2>2. QED
    BY <1>0, <1>4, <1>a, <2>1, ClickTypes, WriteTypes
       DEF CreateSkill, screen, ListsType, CallsType, ScreenType, RestType
<1>5. ASSUME NEW k \in ManualKeys, NEW card \in Cards, SaveSkill(card, k) PROVE TypeInv'
  <2>1. PICK t \in Range(listeners) : \E i \in DOMAIN byType[t] :
          card = [type |-> t, id |-> byType[t][i].id]
    BY DEF Cards
  <2>2. t \in Types
    BY <1>0, <2>1 DEF ScreenType, Range
  <2>3. byType[t] \in Seq(Row(n))
    BY <1>0, <2>2 DEF ListsType
  <2>4. card.type = t /\ card.id \in 1..n
    <3>1. PICK i \in DOMAIN byType[t] : card = [type |-> t, id |-> byType[t][i].id]
      BY <2>1
    <3>2. byType[t][i] \in Row(n)
      BY <2>3, <3>1
    <3>3. QED
      BY <3>1, <3>2 DEF Row
  <2>5. saving' \in Saves(n)
    BY <1>0, <1>5, <2>2, <2>3, <2>4 DEF SaveSkill, Saves, RestType
  <2>6. QED
    BY <1>0, <1>5, <1>a, <2>5, ClickTypes, WriteTypes
       DEF SaveSkill, screen, ListsType, CallsType, ScreenType, RestType
<1>6. CASE ApplyPreset \/ ApplySkillPack
  <2>1. PICK op \in {"preset", "pack"}, stage \in Stages : StartSetup(op, stage)
    BY <1>6 DEF ApplyPreset, ApplySkillPack, Stages
  <2>2. setup' \in Setups(n)
    <3>1. selected \in Types
      BY <1>0, <2>1 DEF StartSetup, PresetEnabled, ScreenType, Range
    <3>2. QED
      BY <1>0, <2>1, <3>1 DEF StartSetup, RestType, Setups
  <2>3. overlapped' \subseteq Types
    BY <1>0, <1>6, <2>1
       DEF ApplyPreset, ApplySkillPack, StartSetup, PresetEnabled, ScreenType, RestType, Range
  <2>4. QED
    BY <1>0, <2>1, <1>a, <2>2, <2>3, ClickTypes, WriteTypes
       DEF StartSetup, screen, ListsType, CallsType, ScreenType, RestType
<1>7. CASE UpdateWebhookSkill
  <2>0. saving \in Saves(n)
    BY <1>0, <1>7 DEF UpdateWebhookSkill, CallsType
  <2>1. saving \in Saves(n) /\ saving.id \in 1..n /\ saving.key \in Keys
    BY <1>0, <1>7 DEF UpdateWebhookSkill, CallsType, Saves, Keys
  <2>2. rows \in [1..n -> Row(n)]
    BY <1>n, <1>0 DEF RowsType
  <2>3. rows' = [rows EXCEPT ![saving.id].key = saving.key]
    BY <1>7 DEF UpdateWebhookSkill
  <2>4. rows' \in [1..n -> Row(n)] /\ \A i \in 1..n : rows'[i].id = rows[i].id
    BY <2>1, <2>2, <2>3 DEF Row
  <2>5. Len(rows') = n /\ rows' \in Seq(Row(n)) /\ DOMAIN rows' = 1..n
    BY <1>n, <1>0, <2>4
  <2>6. RowsType'
    BY <1>0, <2>2, <2>4, <2>5 DEF RowsType
  <2>7. saving' \in Saves(n)
    BY <1>7, <2>1, <2>4 DEF UpdateWebhookSkill, Saves
  <2>8. QED
    BY <1>0, <1>7, <2>5, <2>6, <2>7
       DEF UpdateWebhookSkill, screen, TypeInv, ListsType, CallsType, ScreenType, RestType
<1>8. CASE AnswerSave
  <2>1. saving \in Saves(n) /\ saving.got \in Row(n)
    BY <1>0, <1>8 DEF AnswerSave, CallsType, Saves
  <2>2. WithSaved(saving) \in Seq(Row(n)) /\ Len(WithSaved(saving)) \in Nat
    BY <2>1, WithSavedType
  <2>3. ListsType(n)'
    BY <1>0, <1>8, <2>2 DEF AnswerSave, ListsType
  <2>4. counts' \in [Types -> Nat] /\ cleared' \subseteq Types
    BY <1>0, <1>8, <2>2 DEF AnswerSave, ScreenType
  <2>5. QED
    BY <1>0, <1>8, <1>a, <2>3, <2>4 DEF AnswerSave, CallsType, ScreenType, RestType
<1>9. CASE SaveFails
  <2>1. faults' \in Nat /\ clean' \in BOOLEAN
    BY <1>0, <1>9, FaultTypes DEF SaveFails, RestType
  <2>2. QED
    BY <1>0, <1>9, <1>a, <2>1 DEF SaveFails, screen, ListsType, CallsType, ScreenType, RestType
<1>10. CASE InsertPresetSkill
  <2>1. setup \in Setups(n) /\ setup # NoCall
    BY <1>0, <1>10 DEF InsertPresetSkill, At, CallsType
  <2>2. setup' \in Setups(n + 1)
    <3>1. setup \in Setups(n + 1)
      BY <1>c, <2>1 DEF CallsType
    <3>2. PICK stage \in DOMAIN Inserted : Goto(Inserted[stage])
      BY <1>10 DEF InsertPresetSkill
    <3>3. Inserted[stage] \in Stages
      BY DEF Inserted, Stages
    <3>4. QED
      BY <3>1, <3>2, <3>3 DEF Goto, Setups
  <2>3. ListsType(n + 1)' /\ CallsType(n + 1)' /\ ScreenType' /\ posts' \subseteq Posts /\ RestType'
    BY <1>0, <1>10, <1>c, <2>2
       DEF InsertPresetSkill, screen, ListsType, CallsType, ScreenType, RestType
  <2>4. setup.type \in Types /\ PresetKey \in Keys
    BY <2>1 DEF Setups, Keys
  <2>5. QED
    BY <1>10, <1>b, <2>3, <2>4 DEF InsertPresetSkill
<1>11. CASE PresetInsertFails
  <2>1. setup' \in Setups(n)
    <3>1. setup \in Setups(n)
      BY <1>0, <1>11 DEF PresetInsertFails, At, CallsType
    <3>2. PICK stage \in DOMAIN Refused : Goto(Refused[stage])
      BY <1>11 DEF PresetInsertFails
    <3>3. Refused[stage] \in Stages
      BY DEF Refused, Stages
    <3>4. QED
      BY <3>1, <3>2, <3>3 DEF Goto, Setups
  <2>2. QED
    BY <1>0, <1>11, <1>a, <2>1, FaultTypes
       DEF PresetInsertFails, screen, ListsType, CallsType, ScreenType, RestType
<1>12. CASE ServeListing
  <2>1. Listing(setup.type) \in Seq(Row(n))
    BY <1>n, <1>0, ListingFacts
  <2>2. setup' \in Setups(n)
    BY <1>0, <1>12, <2>1 DEF ServeListing, At, CallsType, Setups
  <2>3. QED
    BY <1>0, <1>12, <1>a, <2>2 DEF ServeListing, screen, ListsType, CallsType, ScreenType, RestType
<1>13. CASE PackStarts
  <2>1. setup \in Setups(n) /\ setup # NoCall
    BY <1>0, <1>13 DEF PackStarts, At, CallsType
  <2>2. setup' = NoCall \/ setup' \in Setups(n)
    BY <1>13, <2>1 DEF PackStarts, Goto, Setups, Stages
  <2>3. PackPosts(setup) \subseteq Posts
    BY <2>1, PackPostsType
  <2>4. posts' \subseteq Posts
    BY <1>0, <1>13, <2>3 DEF PackStarts
  <2>5. QED
    BY <1>0, <1>13, <1>a, <2>2, <2>4
       DEF PackStarts, screen, ListsType, CallsType, ScreenType, RestType
<1>14. CASE PackPosted
  <2>1. setup' \in Setups(n)
    BY <1>0, <1>14 DEF PackPosted, At, Goto, CallsType, Setups, Stages
  <2>2. QED
    BY <1>0, <1>14, <1>a, <2>1 DEF PackPosted, screen, ListsType, CallsType, ScreenType, RestType
<1>15. CASE AnswerListing
  <2>1. setup \in Setups(n) /\ setup # NoCall /\ setup.got \in Seq(Row(n))
        /\ Len(setup.got) \in Nat
    BY <1>0, <1>15 DEF AnswerListing, At, CallsType, Setups
  <2>2. setup' = NoCall \/ setup' \in Setups(n)
    BY <1>15, <2>1 DEF AnswerListing, Goto, Setups, Stages
  <2>3. ListsType(n)' /\ counts' \in [Types -> Nat] /\ cleared' \subseteq Types
    BY <1>0, <1>15, <2>1 DEF AnswerListing, ListsType, ScreenType
  <2>4. QED
    BY <1>0, <1>15, <1>a, <2>2, <2>3 DEF AnswerListing, CallsType, ScreenType, RestType
<1>16. CASE AnswerRefresh
  <2>1. PICK ls \in ListenerLists : SetListeners(ls)
    BY <1>16 DEF AnswerRefresh
  <2>2. /\ listeners' \in Seq(Types) /\ selected' \in Types \cup {NoType}
        /\ counts' \in [Types -> Nat] /\ cleared' \subseteq Types
        /\ prefetches' \subseteq Prefetches(n) /\ clean' \in BOOLEAN
    BY <1>n, <2>1, SetListenersTypes
  <2>3. QED
    BY <1>0, <1>16, <1>a, <2>2 DEF AnswerRefresh, ListsType, CallsType, ScreenType, RestType
<1>17. CASE SetupFails
  <2>1. faults' \in Nat /\ clean' \in BOOLEAN
    BY <1>0, <1>17, FaultTypes DEF SetupFails, RestType
  <2>2. QED
    BY <1>0, <1>17, <1>a, <2>1 DEF SetupFails, screen, ListsType, CallsType, ScreenType, RestType
<1>18. ASSUME NEW p \in prefetches, PrefetchStep(p) PROVE TypeInv'
  <2>0. p \in Prefetches(n)
    BY <1>0 DEF CallsType
  <2>1. ASSUME NEW t \in Types, ServePrefetch(p, t) PROVE TypeInv'
    <3>1. Listing(t) \in Seq(Row(n))
      BY <1>n, <1>0, ListingFacts
    <3>2. [p EXCEPT !.got[t] = Listing(t)] \in Prefetches(n)
      BY <2>0, <3>1 DEF Prefetches
    <3>3. prefetches' \subseteq Prefetches(n)
      BY <1>0, <2>1, <3>2 DEF ServePrefetch, CallsType
    <3>4. QED
      BY <1>0, <2>1, <1>a, <3>3 DEF ServePrefetch, screen, ListsType, CallsType, ScreenType, RestType
  <2>2. CASE AnswerPrefetch(p)
    <3>1. \A t \in Types : t \in Range(p.opts) => p.got[t] \in Seq(Row(n))
      BY <2>0, <2>2 DEF AnswerPrefetch, Fetched, Prefetches
    <3>2. byType' = [t \in Types |-> IF t \in Range(p.opts) THEN p.got[t] ELSE <<>>]
      BY <2>2 DEF AnswerPrefetch
    <3>3. \A t \in Types : byType'[t] \in Seq(Row(n)) /\ Len(byType'[t]) \in Nat
      BY <3>1, <3>2
    <3>4. counts' = [t \in Types |-> Len(byType'[t])] /\ cleared' = {}
      BY <2>2 DEF AnswerPrefetch
    <3>5. ListsType(n)' /\ counts' \in [Types -> Nat] /\ cleared' \subseteq Types
      BY <3>2, <3>3, <3>4 DEF ListsType
    <3>6. selected' \in Types \cup {NoType} /\ prefetches' \subseteq Prefetches(n) /\ clean' \in BOOLEAN
      <4>1. CASE Leaves(p)
        <5>1. selected' = FirstStocked(p) /\ Prefetch(selected', listeners, prefetches \ {p})
          BY <2>2, <4>1 DEF AnswerPrefetch
        <5>2. selected' \in Types
          BY <2>0, <4>1, <5>1, FirstStockedFacts DEF Leaves
        <5>3. QED
          BY <1>0, <5>1, <5>2, PrefetchType DEF ScreenType
      <4>2. CASE ~ Leaves(p)
        BY <1>0, <2>2, <4>2 DEF AnswerPrefetch, ScreenType, CallsType, RestType
      <4>3. QED
        BY <4>1, <4>2
    <3>7. QED
      BY <1>0, <1>a, <2>2, <3>5, <3>6 DEF AnswerPrefetch, CallsType, ScreenType, RestType
  <2>3. CASE FailPrefetch(p)
    BY <1>0, <2>3, <1>a, FaultTypes DEF FailPrefetch, screen, ListsType, CallsType, ScreenType, RestType
  <2>4. QED
    BY <1>18, <2>1, <2>2, <2>3 DEF PrefetchStep
<1>19. ASSUME NEW c \in creates, CreateStep(c) PROVE TypeInv'
  <2>0. c \in Creates(n) /\ c.type \in Types /\ c.key \in Keys
    BY <1>0 DEF CallsType, Creates, Keys
  <2>1. CASE CreateWebhookSkill(c)
    <3>1. NewRow(c.type, c.key) \in Row(n + 1)
      BY <1>n, <1>0, <2>0, AppendRow
    <3>2. PICK new : /\ new = [c EXCEPT !.got = NewRow(c.type, c.key)]
                     /\ creates' = (creates \ {c}) \cup {new}
      BY <2>1 DEF CreateWebhookSkill
    <3>3. new \in Creates(n + 1)
      BY <1>c, <3>1, <3>2 DEF CallsType, Creates
    <3>4. ListsType(n + 1)' /\ CallsType(n + 1)' /\ ScreenType' /\ posts' \subseteq Posts /\ RestType'
      BY <1>0, <2>1, <1>c, <3>2, <3>3
         DEF CreateWebhookSkill, screen, ListsType, CallsType, ScreenType, RestType
    <3>5. QED
      BY <2>0, <2>1, <1>b, <3>4 DEF CreateWebhookSkill
  <2>2. CASE AnswerCreate(c)
    <3>1. c.got \in Row(n)
      BY <2>0, <2>2 DEF AnswerCreate, Creates
    <3>2. <<c.got>> \o byType[c.type] \in Seq(Row(n))
      BY <1>0, <2>0, <3>1 DEF ListsType
    <3>3. ListsType(n)' /\ counts' \in [Types -> Nat]
      BY <1>0, <2>0, <2>2, <3>2 DEF AnswerCreate, ListsType, ScreenType
    <3>4. QED
      BY <1>0, <2>2, <1>a, <3>3 DEF AnswerCreate, CallsType, ScreenType, RestType
  <2>3. CASE CreateFails(c)
    <3>1. faults' \in Nat /\ clean' \in BOOLEAN
      BY <1>0, <2>3, FaultTypes DEF CreateFails, RestType
    <3>2. QED
      BY <1>0, <2>3, <1>a, <3>1 DEF CreateFails, screen, ListsType, CallsType, ScreenType, RestType
  <2>4. QED
    BY <1>19, <2>1, <2>2, <2>3 DEF CreateStep
<1>20. ASSUME NEW p \in posts, PostStep(p) PROVE TypeInv'
  <2>0. p \in Posts /\ p.type \in Types /\ p.key \in Keys
    BY <1>0 DEF Posts, Keys
  <2>1. CASE ServePost(p)
    <3>1. posts' \subseteq Posts
      BY <1>0, <2>0, <2>1 DEF ServePost, Posts
    <3>2. ListsType(n + 1)' /\ CallsType(n + 1)' /\ ScreenType' /\ RestType'
      BY <1>0, <2>1, <1>c DEF ServePost, screen, ListsType, CallsType, ScreenType, RestType
    <3>3. QED
      BY <2>0, <2>1, <1>b, <3>1, <3>2 DEF ServePost
  <2>2. CASE PostFails(p)
    <3>1. faults' \in Nat /\ clean' \in BOOLEAN
      BY <1>0, <2>2, FaultTypes DEF PostFails, RestType
    <3>2. posts' \subseteq Posts /\ (setup' = setup \/ setup' = NoCall)
      BY <1>0, <2>2 DEF PostFails, Rejected
    <3>3. QED
      BY <1>0, <2>2, <1>a, <3>1, <3>2 DEF PostFails, screen, ListsType, CallsType, ScreenType, RestType
  <2>3. QED
    BY <1>20, <2>1, <2>2 DEF PostStep
<1>21. CASE Leave
  <2>1. Unserved \subseteq Posts
    <3>1. \A c \in creates : [n |-> c.n, type |-> c.type, key |-> c.key, done |-> FALSE] \in Posts
      BY <1>0 DEF CallsType, Creates, Posts
    <3>2. QED
      BY <1>0, <3>1 DEF Unserved
  <2>2. puts' \subseteq Saves(n) /\ left' \subseteq Setups(n)
    BY <1>0, <1>21 DEF Leave, CallsType
  <2>3. ListsType(n)' /\ ScreenType' /\ CallsType(n)'
    <3>1. byType' = [t \in Types |-> <<>>] /\ counts' = [t \in Types |-> 0]
      BY <1>21 DEF Leave, NoSkills, Zeros
    <3>2. <<>> \in Seq(Row(n))
      OBVIOUS
    <3>3. ListsType(n)'
      BY <3>1, <3>2 DEF ListsType
    <3>4. ScreenType'
      <4>1. counts' \in [Types -> Nat]
        BY <3>1
      <4>2. /\ listeners' = listeners /\ selected' = NoType /\ unique' = unique
            /\ open' = FALSE /\ cleared' = {}
        BY <1>21 DEF Leave
      <4>3. QED
        BY <1>0, <4>1, <4>2 DEF ScreenType
    <3>5. CallsType(n)'
      BY <1>21, <2>2 DEF Leave, CallsType
    <3>6. QED
      BY <3>3, <3>4, <3>5
  <2>4. RestType'
    <3>1. mounting' = mounting + 1 \/ mounting' = mounting + 2
      BY <1>21 DEF Leave
    <3>2. mounting' \in Nat /\ leaves' \in Nat
      BY <1>0, <1>21, <3>1 DEF Leave, RestType
    <3>3. QED
      BY <1>0, <1>21, <3>2 DEF Leave, RestType
  <2>5. QED
    BY <1>21, <1>a, <2>1, <2>3, <2>4 DEF Leave
<1>22. CASE Return
  <2>1. /\ selected' \in Types \cup {NoType} /\ prefetches' \subseteq Prefetches(n)
        /\ clean' \in BOOLEAN
    <3>1. CASE listeners = <<>>
      BY <1>0, <1>22, <3>1 DEF Return, ScreenType, CallsType, RestType
    <3>2. CASE listeners # <<>>
      <4>1. listeners[1] \in Types
        BY <1>0, <3>2 DEF ScreenType
      <4>2. QED
        BY <1>0, <1>22, <3>2, <4>1, PrefetchType DEF Return, ScreenType
    <3>3. QED
      BY <3>1, <3>2
  <2>2. QED
    BY <1>0, <1>22, <1>a, <2>1 DEF Return, ListsType, CallsType, ScreenType, RestType
<1>23. ASSUME NEW s \in puts, ServePut(s) PROVE TypeInv'
  <2>1. faults' \in Nat /\ clean' \in BOOLEAN
    BY <1>0, <1>23, FaultTypes DEF ServePut, RestType
  <2>2. puts' \subseteq puts /\ ListsType(n)' /\ CallsType(n)' /\ ScreenType' /\ RestType'
    BY <1>0, <1>23, <2>1 DEF ServePut, screen, ListsType, CallsType, ScreenType, RestType
  <2>3. CASE rows' = rows
    BY <1>0, <1>23, <1>a, <2>2, <2>3 DEF ServePut
  <2>4. CASE rows' = [rows EXCEPT ![s.id].key = s.key]
    <3>1. s.id \in 1..n /\ s.key \in Keys
      BY <1>0 DEF CallsType, Saves, Keys
    <3>2. rows \in [1..n -> Row(n)]
      BY <1>n, <1>0 DEF RowsType
    <3>3. rows' \in [1..n -> Row(n)] /\ \A i \in 1..n : rows'[i].id = rows[i].id
      BY <2>4, <3>1, <3>2 DEF Row
    <3>4. Len(rows') = n /\ rows' \in Seq(Row(n)) /\ DOMAIN rows' = 1..n
      BY <1>n, <1>0, <3>3
    <3>5. RowsType'
      BY <1>0, <3>2, <3>3, <3>4 DEF RowsType
    <3>6. posts' = posts
      BY <1>23 DEF ServePut
    <3>7. QED
      BY <1>0, <2>2, <3>4, <3>5, <3>6 DEF TypeInv, ListsType, CallsType
  <2>5. QED
    BY <1>23, <2>3, <2>4 DEF ServePut
<1>24. ASSUME NEW s \in left, LeftStep(s) PROVE TypeInv'
  <2>0. s \in Setups(n) /\ s.type \in Types
    BY <1>0 DEF CallsType, Setups
  <2>1. CASE LeftInsert(s)
    <3>1. left' \subseteq Setups(n)
      <4>1. \A stage \in DOMAIN Inserted : Inserted[stage] \in Stages
        BY DEF Inserted, Stages
      <4>2. \A stage \in Stages : [s EXCEPT !.stage = stage, !.got = Unread] \in Setups(n)
        BY <2>0 DEF Setups
      <4>3. QED
        BY <1>0, <2>1, <4>1, <4>2 DEF LeftInsert, On, Off, CallsType
    <3>2. CallsType(n)
      BY <1>0
    <3>3. Setups(n) \subseteq Setups(n + 1)
      <4>1. n + 1 \in Nat /\ n <= n + 1
        OBVIOUS
      <4>2. Seq(Row(n)) \subseteq Seq(Row(n + 1))
        BY <4>1, RowGrows
      <4>3. QED
        BY <4>2 DEF Setups
    <3>4. left' \subseteq Setups(n + 1)
      BY <3>1, <3>3
    <3>5. ListsType(n + 1)' /\ CallsType(n + 1)' /\ ScreenType' /\ posts' \subseteq Posts /\ RestType'
      BY <1>0, <2>1, <1>c, <3>4
         DEF LeftInsert, screen, ListsType, CallsType, ScreenType, RestType
    <3>6. PresetKey \in Keys
      BY DEF Keys
    <3>7. QED
      BY <1>b, <2>0, <2>1, <3>5, <3>6 DEF LeftInsert
  <2>2. CASE ~ LeftInsert(s)
    <3>1. left' \subseteq Setups(n)
      <4>1. Listing(s.type) \in Seq(Row(n))
        BY <1>n, <1>0, ListingFacts
      <4>2. [s EXCEPT !.got = Listing(s.type)] \in Setups(n)
            /\ [s EXCEPT !.stage = "generalFailed", !.got = Unread] \in Setups(n)
        BY <2>0, <4>1 DEF Setups, Stages
      <4>3. QED
        BY <1>0, <1>24, <2>2, <4>2
           DEF LeftStep, LeftInsertFails, LeftRefreshes, LeftServeListing, LeftPackStarts,
               LeftFails, On, Off, CallsType
    <3>2. posts' \subseteq Posts
      <4>1. PackPosts(s) \subseteq Posts
        BY <2>0, PackPostsType
      <4>2. QED
        BY <1>0, <1>24, <2>2, <4>1
           DEF LeftStep, LeftInsertFails, LeftRefreshes, LeftServeListing, LeftPackStarts, LeftFails
    <3>3. faults' \in Nat /\ clean' \in BOOLEAN /\ mounting' \in Nat
      <4>1. \/ UNCHANGED <<faults, clean>> /\ (mounting' = mounting \/ mounting' = mounting + 1)
            \/ Fault /\ mounting' = mounting
        BY <1>24, <2>2
           DEF LeftStep, LeftInsertFails, LeftRefreshes, LeftServeListing, LeftPackStarts, LeftFails
      <4>2. QED
        <5>1. faults \in Nat /\ clean \in BOOLEAN /\ mounting \in Nat /\ mounting + 1 \in Nat
          BY <1>0 DEF RestType
        <5>2. CASE Fault /\ mounting' = mounting
          BY <5>1, <5>2, FaultTypes
        <5>3. CASE UNCHANGED <<faults, clean>> /\ (mounting' = mounting \/ mounting' = mounting + 1)
          BY <5>1, <5>3
        <5>4. QED
          BY <4>1, <5>2, <5>3
    <3>4. UNCHANGED <<rows, unique, screen, prefetches, creates, saving, setup, puts, clicks,
                      leaves, overlapped>>
      BY <1>24, <2>2
         DEF LeftStep, LeftInsertFails, LeftRefreshes, LeftServeListing, LeftPackStarts, LeftFails
    <3>5. QED
      BY <1>0, <1>a, <3>1, <3>2, <3>3, <3>4 DEF screen, ListsType, CallsType, ScreenType, RestType
  <2>3. QED
    BY <2>1, <2>2
<1>25. CASE UNCHANGED vars
  BY <1>0, <1>25, <1>a DEF vars, screen, calls, ListsType, CallsType, ScreenType, RestType
<1>26. QED
  BY <1>1, <1>2, <1>3, <1>4, <1>5, <1>6, <1>7, <1>8, <1>9, <1>10, <1>11, <1>12, <1>13, <1>14,
     <1>15, <1>16, <1>17, <1>18, <1>19, <1>20, <1>21, <1>22, <1>23, <1>24, <1>25
     DEF Next, User, SaveStep, SetupStep

LEMMA TypeInvHolds == Spec => []TypeInv
BY InitTypeInv, NextTypeInv, PTL DEF Spec

\* Every state has the declared types.
THEOREM TypeCorrect == Spec => []TypeOK
BY TypeInvHolds, TypeInvIsTypeOK, PTL

---------------------------------------------------------------------------
(* CountsMatchLists: the steps that change a list or a number change both, *)
(* or note the types whose number an empty list of listeners has cleared.  *)

LEMMA ListSteps ==
  ASSUME Next
  PROVE  \/ UNCHANGED <<byType, counts, cleared>>
         \/ AnswerSave \/ AnswerListing \/ Leave
         \/ (\E ls \in ListenerLists : SetListeners(ls) /\ UNCHANGED byType)
         \/ (\E p \in prefetches : AnswerPrefetch(p))
         \/ (\E c \in creates : AnswerCreate(c))
<1>1. ListenersAnswer => \/ UNCHANGED <<byType, counts, cleared>>
                         \/ \E ls \in ListenerLists : SetListeners(ls) /\ UNCHANGED byType
  BY DEF ListenersAnswer
<1>2. AnswerRefresh => \E ls \in ListenerLists : SetListeners(ls) /\ UNCHANGED byType
  BY DEF AnswerRefresh
<1>3. User \/ SaveStep => UNCHANGED <<byType, counts, cleared>> \/ Leave \/ AnswerSave
  BY DEF User, SaveStep, PickType, CreateSkill, SaveSkill, ApplyPreset, ApplySkillPack, StartSetup,
         Return, UpdateWebhookSkill, SaveFails, screen
<1>4. SetupStep => UNCHANGED <<byType, counts, cleared>> \/ AnswerListing \/ AnswerRefresh
  BY DEF SetupStep, InsertPresetSkill, PresetInsertFails, ServeListing, PackStarts, PackPosted,
         SetupFails, screen
<1>5. \A p : PrefetchStep(p) => UNCHANGED <<byType, counts, cleared>> \/ AnswerPrefetch(p)
  BY DEF PrefetchStep, ServePrefetch, FailPrefetch, screen
<1>6. \A c : CreateStep(c) => UNCHANGED <<byType, counts, cleared>> \/ AnswerCreate(c)
  BY DEF CreateStep, CreateWebhookSkill, CreateFails, screen
<1>7. \A p : PostStep(p) \/ ServePut(p) => UNCHANGED <<byType, counts, cleared>>
  BY DEF PostStep, ServePost, PostFails, ServePut, screen
<1>8. \A s : LeftStep(s) => UNCHANGED <<byType, counts, cleared>>
  BY DEF LeftStep, LeftInsert, LeftInsertFails, LeftRefreshes, LeftServeListing, LeftPackStarts,
         LeftFails, screen
<1>9. ListenersFail => UNCHANGED <<byType, counts, cleared>>
  BY DEF ListenersFail, screen
<1>10. QED
  BY <1>1, <1>2, <1>3, <1>4, <1>5, <1>6, <1>7, <1>8, <1>9 DEF Next

LEMMA NextCounts ==
  ASSUME TypeInv, CountsMatchLists, [Next]_vars
  PROVE  CountsMatchLists'
<1>n. PICK n \in Nat : n = Len(rows) /\ ListsType(n) /\ CallsType(n) /\ ScreenType
  BY DEF TypeInv, RowsType
<1>1. CASE AnswerSave
  <2>1. saving \in Saves(n) /\ saving.type \in Types
    BY <1>n, <1>1 DEF AnswerSave, CallsType, Saves
  <2>2. QED
    BY <1>n, <1>1, <2>1 DEF AnswerSave, ListsType, ScreenType, CountsMatchLists
<1>2. CASE AnswerListing
  BY <1>n, <1>2 DEF AnswerListing, At, CallsType, Setups, ListsType, ScreenType, CountsMatchLists
<1>3. ASSUME NEW p \in prefetches, AnswerPrefetch(p) PROVE CountsMatchLists'
  BY <1>3 DEF AnswerPrefetch, CountsMatchLists
<1>4. ASSUME NEW c \in creates, AnswerCreate(c) PROVE CountsMatchLists'
  <2>1. c.type \in Types /\ c.got \in Row(n)
    BY <1>n, <1>4 DEF AnswerCreate, CallsType, Creates
  <2>2. byType[c.type] \in Seq(Row(n)) /\ <<c.got>> \in Seq(Row(n))
    BY <1>n, <2>1 DEF ListsType
  <2>3. Len(<<c.got>> \o byType[c.type]) = Len(byType[c.type]) + 1
    BY <2>2
  <2>4. QED
    BY <1>n, <1>4, <2>1, <2>3 DEF AnswerCreate, ListsType, ScreenType, CountsMatchLists
<1>5. CASE Leave
  <2>1. byType' = [t \in Types |-> <<>>] /\ counts' = [t \in Types |-> 0]
    BY <1>5 DEF Leave, NoSkills, Zeros
  <2>2. QED
    BY <2>1 DEF CountsMatchLists
<1>6. ASSUME NEW ls \in ListenerLists, SetListeners(ls), UNCHANGED byType PROVE CountsMatchLists'
  <2>1. CASE ls = <<>>
    <3>1. counts' = [t \in Types |-> 0] /\ cleared' = {t \in Types : byType[t] # <<>>}
      BY <1>6, <2>1 DEF SetListeners, Zeros
    <3>2. QED
      BY <1>6, <3>1 DEF CountsMatchLists
  <2>2. CASE ls # <<>>
    BY <1>6, <2>2 DEF SetListeners, CountsMatchLists
  <2>3. QED
    BY <2>1, <2>2
<1>7. CASE UNCHANGED <<byType, counts, cleared>>
  BY <1>7 DEF CountsMatchLists
<1>8. QED
  BY <1>1, <1>2, <1>3, <1>4, <1>5, <1>6, <1>7, ListSteps DEF vars, screen

\* The number beside a listener is that of its cards, but for types whose
\* number was cleared with the listeners and whose skills were not read since.
THEOREM CountsMatch == Spec => []CountsMatchLists
<1>1. Init => CountsMatchLists
  BY DEF Init, CountsMatchLists, NoSkills, Zeros
<1>2. QED
  BY <1>1, NextCounts, TypeInvHolds, PTL DEF Spec

---------------------------------------------------------------------------
(***************************************************************************)
(* OnlyEmptyFirstIsLeft: a run that is heeded was made for the listeners   *)
(* and the selection of the screen, and a closed tab has none.             *)
(***************************************************************************)
Closed == selected = NoType /\ prefetches = {} /\ setup = NoCall /\ ~ clean
LiveInv ==
  /\ ~ open => Closed
  /\ open /\ listeners # <<>> => selected \in Range(listeners)
  /\ listeners = <<>> => selected = NoType
  /\ \A p \in prefetches : p.sel = selected /\ p.opts = listeners /\ listeners # <<>>

\* The steps of the server and the writes: the selection and its runs stay.
Steady ==
  /\ UNCHANGED <<listeners, open, selected, prefetches>>
  /\ clean' => clean
  /\ setup' = setup \/ setup # NoCall \/ selected \in Range(listeners)

LEMMA LiveSteps ==
  ASSUME Next
  PROVE  \/ Steady \/ ListenersAnswer \/ AnswerRefresh \/ Leave \/ Return
         \/ (\E t \in Types : PickType(t))
         \/ (\E p \in prefetches : \/ AnswerPrefetch(p) \/ FailPrefetch(p)
                                    \/ \E t \in Types : ServePrefetch(p, t))
<1>1. ListenersFail => Steady
  BY DEF ListenersFail, Fault, screen, Steady
<1>2. (\E k \in ManualKeys : CreateSkill(k) \/ \E card \in Cards : SaveSkill(card, k)) => Steady
  BY DEF CreateSkill, SaveSkill, StartWrite, screen, Steady
<1>3. ApplyPreset \/ ApplySkillPack => Steady
  BY DEF ApplyPreset, ApplySkillPack, StartSetup, PresetEnabled, StartWrite, screen, Steady
<1>4. SaveStep => Steady
  BY DEF SaveStep, UpdateWebhookSkill, AnswerSave, SaveFails, Fault, screen, Steady
<1>5. SetupStep => Steady \/ AnswerRefresh
  <2>1. InsertPresetSkill \/ PresetInsertFails => Steady
    BY DEF InsertPresetSkill, PresetInsertFails, At, Fault, screen, Steady
  <2>2. ServeListing \/ PackStarts \/ PackPosted => Steady
    BY DEF ServeListing, PackStarts, PackPosted, At, Fault, screen, Steady
  <2>3. AnswerListing \/ SetupFails => Steady
    BY DEF AnswerListing, SetupFails, At, Fault, screen, Steady
  <2>4. QED
    BY <2>1, <2>2, <2>3 DEF SetupStep
<1>6. \A c : CreateStep(c) => Steady
  BY DEF CreateStep, CreateWebhookSkill, AnswerCreate, CreateFails, Fault, screen, Steady
<1>7. \A p : PostStep(p) => Steady
  <2>1. \A p : ServePost(p) => Steady
    BY DEF ServePost, screen, Steady
  <2>2. ASSUME NEW p, PostFails(p) PROVE Steady
    <3>1. UNCHANGED <<listeners, open, selected, prefetches>>
      BY <2>2 DEF PostFails, screen
    <3>2. clean' => clean
      BY <2>2 DEF PostFails, Fault
    <3>3. \A others : Rejected(p, others) => setup' = setup \/ setup # NoCall
      BY DEF Rejected, Awaited
    <3>4. setup' = setup \/ setup # NoCall
      BY <2>2, <3>3 DEF PostFails
    <3>5. QED
      BY <3>1, <3>2, <3>4 DEF Steady
  <2>3. QED
    BY <2>1, <2>2 DEF PostStep
<1>8. \A s : ServePut(s) => Steady
  BY DEF ServePut, Fault, screen, Steady
<1>9. \A s : LeftStep(s) => Steady
  BY DEF LeftStep, LeftInsert, LeftInsertFails, LeftRefreshes, LeftServeListing, LeftPackStarts,
         LeftFails, Fault, screen, Steady
<1>10. QED
  BY <1>1, <1>2, <1>3, <1>4, <1>5, <1>6, <1>7, <1>8, <1>9 DEF Next, User, PrefetchStep

\* A new run of the effect is the only one.
LEMMA PrefetchLive ==
  ASSUME NEW sel, NEW opts, NEW others, Prefetch(sel, opts, others)
  PROVE  \A p \in prefetches' : p.sel = sel /\ p.opts = opts
BY DEF Prefetch, Uncancelled

\* New listeners in an open tab.
LEMMA ListenersLive ==
  ASSUME TypeInv, NEW ls \in ListenerLists, SetListeners(ls), open'
  PROVE  LiveInv'
<1>1. CASE ls = <<>>
  BY <1>1 DEF SetListeners, Uncancelled, LiveInv
<1>2. CASE ls # <<>>
  <2>1. listeners' = ls /\ selected' \in Range(ls) /\ Prefetch(selected', ls, prefetches)
    BY <1>2, SetListenersFacts
  <2>2. QED
    BY <1>2, <2>1, PrefetchLive DEF LiveInv
<1>3. QED
  BY <1>1, <1>2

LEMMA NextLive == ASSUME TypeInv, LiveInv, [Next]_vars PROVE LiveInv'
<1>n. PICK n \in Nat : n = Len(rows) /\ CallsType(n) /\ ScreenType
  BY DEF TypeInv, RowsType
<1>0. NoType \notin Range(listeners) /\ Range(listeners) \subseteq Types
  BY <1>n, SkillAssumption DEF ScreenType, Range
<1>1. CASE ListenersAnswer
  <2>1. PICK ls \in ListenerLists :
          IF open THEN SetListeners(ls)
          ELSE /\ listeners' = ls
               /\ UNCHANGED <<selected, counts, cleared, prefetches, clean>>
    BY <1>1 DEF ListenersAnswer
  <2>2. open' = open /\ setup' = setup
    BY <1>1 DEF ListenersAnswer
  <2>3. CASE open
    BY <2>1, <2>2, <2>3, ListenersLive
  <2>4. CASE ~ open
    <3>1. UNCHANGED <<selected, prefetches, clean>> /\ Closed
      BY <2>1, <2>4 DEF LiveInv
    <3>2. QED
      BY <2>2, <2>4, <3>1 DEF LiveInv, Closed
  <2>5. QED
    BY <2>3, <2>4
<1>2. CASE AnswerRefresh
  <2>1. open /\ open' = open
    BY <1>2 DEF AnswerRefresh, At, LiveInv, Closed
  <2>2. QED
    BY <1>2, <2>1, ListenersLive DEF AnswerRefresh
<1>3. CASE Leave
  BY <1>3 DEF Leave, LiveInv, Closed
<1>4. CASE Return
  <2>1. CASE listeners = <<>>
    BY <1>4, <2>1 DEF Return, LiveInv, Closed
  <2>2. CASE listeners # <<>>
    <3>1. selected' = listeners[1] /\ Prefetch(selected', listeners, {}) /\ listeners' = listeners
          /\ open'
      BY <1>4, <2>2 DEF Return
    <3>2. selected' \in Range(listeners)
      BY <1>n, <2>2, <3>1 DEF ScreenType, Range
    <3>3. QED
      BY <2>2, <3>1, <3>2, PrefetchLive DEF LiveInv
  <2>3. QED
    BY <2>1, <2>2
<1>5. ASSUME NEW t \in Types, PickType(t) PROVE LiveInv'
  <2>1. listeners' = listeners /\ listeners # <<>> /\ selected' \in Range(listeners)
        /\ Prefetch(selected', listeners, prefetches) /\ open'
    BY <1>n, <1>5 DEF PickType, Range, ScreenType
  <2>2. QED
    BY <2>1, PrefetchLive DEF LiveInv
<1>6. ASSUME NEW p \in prefetches, AnswerPrefetch(p) PROVE LiveInv'
  <2>0. /\ p \in Prefetches(n) /\ listeners' = listeners /\ open' = open /\ open
        /\ p.opts = listeners /\ listeners # <<>>
    BY <1>n, <1>6 DEF CallsType, AnswerPrefetch, LiveInv, Closed
  <2>1. CASE Leaves(p)
    <3>1. selected' = FirstStocked(p) /\ Prefetch(selected', listeners, prefetches \ {p})
      BY <1>6, <2>1 DEF AnswerPrefetch
    <3>2. selected' \in Range(listeners) /\ listeners # <<>>
      BY <2>0, <2>1, <3>1, FirstStockedFacts DEF Leaves
    <3>3. QED
      BY <2>0, <3>1, <3>2, PrefetchLive DEF LiveInv
  <2>2. CASE ~ Leaves(p)
    BY <1>6, <2>0, <2>2 DEF AnswerPrefetch, LiveInv
  <2>3. QED
    BY <2>1, <2>2
<1>7. ASSUME NEW p \in prefetches, FailPrefetch(p) PROVE LiveInv'
  BY <1>7 DEF FailPrefetch, screen, LiveInv, Closed
<1>8. ASSUME NEW p \in prefetches, NEW t \in Types, ServePrefetch(p, t) PROVE LiveInv'
  <2>1. PICK q : q = [p EXCEPT !.got[t] = Listing(t)]
    OBVIOUS
  <2>2. q.sel = p.sel /\ q.opts = p.opts
    BY <1>n, <2>1 DEF CallsType, Prefetches
  <2>3. UNCHANGED <<listeners, open, selected>> /\ prefetches' = (prefetches \ {p}) \cup {q} /\ open
    BY <1>8, <2>1 DEF ServePrefetch, screen, LiveInv, Closed
  <2>4. QED
    BY <2>2, <2>3 DEF LiveInv
<1>9. CASE Steady
  BY <1>0, <1>9 DEF Steady, LiveInv, Closed
<1>10. CASE UNCHANGED vars
  BY <1>10 DEF vars, screen, calls, LiveInv, Closed
<1>11. QED
  BY <1>1, <1>2, <1>3, <1>4, <1>5, <1>6, <1>7, <1>8, <1>9, <1>10, LiveSteps

\* What moves the selection: a click, new listeners, coming back, or the
\* answer that finds the first listener without skills.
LEMMA StepLeaves ==
  ASSUME TypeInv, LiveInv, Next, selected' # selected, clicks' = clicks, listeners' = listeners,
         open, open'
  PROVE  /\ listeners # <<>> /\ selected = listeners[1]
         /\ byType'[selected] = <<>> /\ byType'[selected'] # <<>>
<1>n. PICK n \in Nat : n = Len(rows) /\ CallsType(n) /\ ScreenType
  BY DEF TypeInv, RowsType
<1>1. ASSUME NEW ls \in ListenerLists, SetListeners(ls) PROVE FALSE
  <2>1. listeners = ls
    BY <1>1 DEF SetListeners
  <2>2. QED
    BY <1>1, <2>1 DEF SetListeners, LiveInv
<1>2. ASSUME NEW t \in Types, PickType(t) PROVE FALSE
  BY <1>2 DEF PickType, Click, TypeInv, RestType
<1>3. ASSUME NEW p \in prefetches, AnswerPrefetch(p)
      PROVE  /\ listeners # <<>> /\ selected = listeners[1]
             /\ byType'[selected] = <<>> /\ byType'[selected'] # <<>>
  <2>1. Leaves(p) /\ selected' = FirstStocked(p) /\ p \in Prefetches(n)
    BY <1>n, <1>3 DEF AnswerPrefetch, CallsType
  <2>2. byType' = [t \in Types |-> IF t \in Range(p.opts) THEN p.got[t] ELSE <<>>]
    BY <1>3 DEF AnswerPrefetch
  <2>3. selected = p.sel /\ listeners = p.opts /\ listeners # <<>>
    BY <2>1 DEF LiveInv
  <2>4. selected = listeners[1] /\ p.got[selected] = <<>> /\ selected \in Types
    BY <2>1, <2>3 DEF Leaves, Prefetches
  <2>5. FirstStocked(p) \in Types /\ FirstStocked(p) \in Range(p.opts)
        /\ Len(p.got[FirstStocked(p)]) > 0
    BY <2>1, FirstStockedFacts DEF Leaves
  <2>6. byType'[selected] = <<>>
    BY <2>2, <2>4
  <2>7. byType'[selected'] = p.got[FirstStocked(p)]
    BY <2>1, <2>2, <2>5
  <2>8. byType'[selected'] # <<>>
    BY <2>5, <2>7
  <2>9. QED
    BY <2>3, <2>4, <2>6, <2>8
<1>4. ListenersAnswer \/ AnswerRefresh => \E ls \in ListenerLists : SetListeners(ls)
  BY DEF ListenersAnswer, AnswerRefresh
<1>5. ~ Leave /\ ~ Return
  BY DEF Leave, Return
<1>6. QED
  BY <1>1, <1>2, <1>3, <1>4, <1>5, LiveSteps DEF FailPrefetch, ServePrefetch, screen, Steady

\* The tab itself leaves only a first listener without skills.
THEOREM OnlyEmptyFirst == Spec => OnlyEmptyFirstIsLeft
<1>1. Init => LiveInv
  BY DEF Init, LiveInv
<1>2. TypeInv /\ LiveInv /\ [Next]_vars =>
        [selected' # selected /\ clicks' = clicks /\ listeners' = listeners /\ open /\ open'
           => /\ listeners # <<>> /\ selected = listeners[1]
              /\ byType'[selected] = <<>> /\ byType'[selected'] # <<>>]_vars
  BY StepLeaves DEF vars
<1>3. QED
  BY <1>1, <1>2, NextLive, TypeInvHolds, PTL DEF Spec, OnlyEmptyFirstIsLeft

---------------------------------------------------------------------------
(***************************************************************************)
(* PackInstalledOnce: of the applications to a type no other was started   *)
(* beside there is one at a time, and its POSTs are for keys that have no  *)
(* row and no other POST.                                                  *)
(***************************************************************************)
HasRow(t, k) == \E i \in DOMAIN rows : rows[i].type = t /\ rows[i].key = k
Once(t) ==
  \A i, j \in DOMAIN rows :
    rows[i].type = t /\ rows[j].type = t /\ rows[i].key = rows[j].key
      /\ rows[i].key \in PackKeys => i = j

Staged(s) ==
  s.stage \in IF s.op = "pack" THEN {"existing", "posting", "listing"}
              ELSE {"general", "generalFailed", "specific", "refused", "listing", "refreshing"}
RunInv ==
  /\ setup # NoCall => setup.n < clicks /\ Staged(setup)
  /\ \A s \in left : s.n < clicks /\ Staged(s) /\ (setup # NoCall => s.n # setup.n)

Kinds == {<<"preset", "general">>, <<"pack", "existing">>}

Packs == {s \in left \cup {setup} : s # NoCall /\ s.op = "pack"}
Only(s) ==
  \A p \in posts : p.type = s.type /\ p.key \in PackKeys => s.stage = "posting" /\ p.n = s.n
Listed(s) ==
  s.stage = "existing" /\ s.got # Unread => \A k \in Missing(s.got) : ~ HasRow(s.type, k)
New(p) ==
  /\ ~ HasRow(p.type, p.key)
  /\ \A q \in posts : ~ q.done /\ q.type = p.type /\ q.key = p.key => q = p
Single(t) ==
  /\ Once(t)
  /\ \A s, r \in Packs : s.type = t /\ r.type = t => s = r
  /\ \A s \in Packs : s.type = t => Only(s) /\ Listed(s)
  /\ \A p \in posts : p.type = t /\ p.key \in PackKeys /\ ~ p.done => New(p)
PackInv == \A t \in Types \ overlapped : Single(t)

LEMMA SetupsAreSetup ==
  ASSUME TypeInv
  PROVE  Setups(Len(rows)) \subseteq Setup /\ NoCall \notin Setups(Len(rows))
<1>1. Len(rows) \in Nat /\ Row(Len(rows)) \subseteq Skill
  BY DEF TypeInv, RowsType, Row, Skill
<1>2. Seq(Row(Len(rows))) \subseteq Seq(Skill)
  BY <1>1, SeqMonotonic
<1>3. QED
  BY <1>2, SkillAssumption DEF Setups, Setup, Stages

LEMMA PackTypes ==
  ASSUME TypeInv
  PROVE  /\ clicks \in Nat
         /\ setup # NoCall => setup \in Setups(Len(rows)) /\ setup.n \in Nat /\ setup.type \in Types
         /\ \A s \in left : s \in Setups(Len(rows)) /\ s.n \in Nat /\ s.type \in Types /\ s # NoCall
         /\ \A p \in posts : p \in Posts /\ p.n \in Nat /\ p.type \in Types
BY SetupsAreSetup DEF TypeInv, RestType, CallsType, Setups, Posts

\* What the steps do to the runs: one begins, is left, goes on or ends.
SetupGoes ==
  \/ setup' = NoCall
  \/ setup' = setup
  \/ setup # NoCall /\ \E stage \in Stages : Goto(stage)
                         /\ (Staged(setup) => Staged([setup EXCEPT !.stage = stage]))
  \/ setup # NoCall /\ setup' = [setup EXCEPT !.got = Listing(setup.type)]
LeftGoes(s) ==
  \/ Off(s)
  \/ \E stage \in Stages : On(s, stage) /\ (Staged(s) => Staged([s EXCEPT !.stage = stage]))
  \/ left' = (left \ {s}) \cup {[s EXCEPT !.got = Listing(s.type)]}

LEMMA RunSteps ==
  ASSUME TypeInv, Next
  PROVE  \/ UNCHANGED <<setup, left>> /\ (clicks' = clicks \/ Click)
         \/ ApplyPreset \/ ApplySkillPack \/ Leave
         \/ SetupGoes /\ UNCHANGED <<left, clicks>>
         \/ \E s \in left : LeftGoes(s) /\ UNCHANGED <<setup, clicks>>
<1>1. ListenersAnswer \/ ListenersFail => UNCHANGED <<setup, left, clicks>>
  BY DEF ListenersAnswer, ListenersFail
<1>2. User => \/ UNCHANGED <<setup, left>> /\ (clicks' = clicks \/ Click)
              \/ ApplyPreset \/ ApplySkillPack \/ Leave
  BY DEF User, PickType, CreateSkill, SaveSkill, Return
<1>3. SaveStep => UNCHANGED <<setup, left, clicks>>
  BY DEF SaveStep, UpdateWebhookSkill, AnswerSave, SaveFails
<1>4. SetupStep => SetupGoes /\ UNCHANGED <<left, clicks>>
  <2>0. setup # NoCall => setup \in Setups(Len(rows))
    BY PackTypes
  <2>a. ASSUME NEW stage \in Stages, setup # NoCall
        PROVE  /\ [setup EXCEPT !.stage = stage].stage = stage
               /\ [setup EXCEPT !.stage = stage].op = setup.op
    BY <2>0, <2>a DEF Setups
  <2>1. CASE InsertPresetSkill
    <3>1. PICK stage \in DOMAIN Inserted : At(stage) /\ Goto(Inserted[stage])
      BY <2>1 DEF InsertPresetSkill
    <3>2. /\ stage \in {"general", "generalFailed", "specific"}
          /\ Inserted[stage] \in {"specific", "refused", "listing"}
      BY DEF Inserted
    <3>3. Inserted[stage] \in Stages /\ setup # NoCall /\ setup.stage = stage
      BY <3>1, <3>2 DEF Stages, At
    <3>4. PICK next \in Stages : next = Inserted[stage]
      BY <3>3
    <3>5. Staged(setup) => Staged([setup EXCEPT !.stage = next])
      BY <2>a, <3>2, <3>3, <3>4 DEF Staged
    <3>6. QED
      BY <2>1, <3>1, <3>3, <3>4, <3>5 DEF InsertPresetSkill, SetupGoes
  <2>2. CASE PresetInsertFails
    <3>1. PICK stage \in DOMAIN Refused : At(stage) /\ Goto(Refused[stage])
      BY <2>2 DEF PresetInsertFails
    <3>2. /\ stage \in {"general", "specific"}
          /\ Refused[stage] \in {"generalFailed", "refused"}
      BY DEF Refused
    <3>3. Refused[stage] \in Stages /\ setup # NoCall /\ setup.stage = stage
      BY <3>1, <3>2 DEF Stages, At
    <3>4. PICK next \in Stages : next = Refused[stage]
      BY <3>3
    <3>5. Staged(setup) => Staged([setup EXCEPT !.stage = next])
      BY <2>a, <3>2, <3>3, <3>4 DEF Staged
    <3>6. QED
      BY <2>2, <3>1, <3>3, <3>4, <3>5 DEF PresetInsertFails, SetupGoes
  <2>3. CASE ServeListing
    BY <2>3 DEF ServeListing, At, SetupGoes
  <2>4. CASE PackStarts
    <3>1. setup # NoCall /\ setup.stage = "existing" /\ "posting" \in Stages
      BY <2>4 DEF PackStarts, At, Stages
    <3>2. Staged(setup) => Staged([setup EXCEPT !.stage = "posting"])
      BY <2>a, <3>1 DEF Staged
    <3>3. QED
      BY <2>4, <3>1, <3>2 DEF PackStarts, SetupGoes
  <2>5. CASE PackPosted
    <3>1. setup # NoCall /\ setup.stage = "posting" /\ "listing" \in Stages
      BY <2>5 DEF PackPosted, At, Stages
    <3>2. Staged(setup) => Staged([setup EXCEPT !.stage = "listing"])
      BY <2>a, <3>1 DEF Staged
    <3>3. QED
      BY <2>5, <3>1, <3>2 DEF PackPosted, SetupGoes
  <2>6. CASE AnswerListing
    <3>1. setup # NoCall /\ setup.stage = "listing" /\ "refreshing" \in Stages
      BY <2>6 DEF AnswerListing, At, Stages
    <3>2. setup.op = "preset" => (Staged(setup) => Staged([setup EXCEPT !.stage = "refreshing"]))
      BY <2>a, <3>1 DEF Staged
    <3>3. QED
      BY <2>6, <3>1, <3>2 DEF AnswerListing, SetupGoes
  <2>7. CASE AnswerRefresh \/ SetupFails
    BY <2>7 DEF AnswerRefresh, SetupFails, SetupGoes
  <2>8. QED
    BY <2>1, <2>2, <2>3, <2>4, <2>5, <2>6, <2>7 DEF SetupStep
<1>5. \A p : PrefetchStep(p) => UNCHANGED <<setup, left, clicks>>
  BY DEF PrefetchStep, ServePrefetch, AnswerPrefetch, FailPrefetch
<1>6. \A c : CreateStep(c) => UNCHANGED <<setup, left, clicks>>
  BY DEF CreateStep, CreateWebhookSkill, AnswerCreate, CreateFails
<1>7. \A p : PostStep(p) => SetupGoes /\ UNCHANGED <<left, clicks>>
  BY DEF PostStep, ServePost, PostFails, Rejected, SetupGoes
<1>8. \A s : ServePut(s) => UNCHANGED <<setup, left, clicks>>
  BY DEF ServePut
<1>9. ASSUME NEW s \in left, LeftStep(s) PROVE LeftGoes(s) /\ UNCHANGED <<setup, clicks>>
  <2>0. s \in Setups(Len(rows))
    BY PackTypes
  <2>a. ASSUME NEW stage \in Stages
        PROVE  [s EXCEPT !.stage = stage].stage = stage /\ [s EXCEPT !.stage = stage].op = s.op
    BY <2>0 DEF Setups
  <2>1. CASE LeftInsert(s)
    <3>1. CASE s.stage = "generalFailed"
      BY <2>1, <3>1 DEF LeftInsert, LeftGoes
    <3>2. CASE s.stage # "generalFailed"
      <4>1. On(s, Inserted[s.stage]) /\ s.stage \in DOMAIN Inserted
        BY <2>1, <3>2 DEF LeftInsert
      <4>2. s.stage \in {"general", "specific"} /\ Inserted[s.stage] \in {"specific", "listing"}
        BY <3>2, <4>1 DEF Inserted
      <4>3. PICK next \in Stages : next = Inserted[s.stage]
        BY <4>2 DEF Stages
      <4>4. Staged(s) => Staged([s EXCEPT !.stage = next])
        BY <2>a, <4>2, <4>3 DEF Staged
      <4>5. QED
        BY <2>1, <4>1, <4>3, <4>4 DEF LeftInsert, LeftGoes
    <3>3. QED
      BY <3>1, <3>2
  <2>2. CASE LeftInsertFails(s)
    <3>1. "generalFailed" \in Stages /\ s.stage = "general"
      BY <2>2 DEF LeftInsertFails, Stages
    <3>2. Staged(s) => Staged([s EXCEPT !.stage = "generalFailed"])
      BY <2>a, <3>1 DEF Staged
    <3>3. QED
      BY <2>2, <3>1, <3>2 DEF LeftInsertFails, LeftGoes
  <2>3. CASE LeftRefreshes(s) \/ LeftServeListing(s) \/ LeftPackStarts(s) \/ LeftFails(s)
    BY <2>3 DEF LeftRefreshes, LeftServeListing, LeftPackStarts, LeftFails, LeftGoes
  <2>4. QED
    BY <1>9, <2>1, <2>2, <2>3 DEF LeftStep
<1>10. QED
  BY <1>1, <1>2, <1>3, <1>4, <1>5, <1>6, <1>7, <1>8, <1>9 DEF Next

LEMMA NextRun == ASSUME TypeInv, RunInv, [Next]_vars PROVE RunInv'
<1>0. clicks \in Nat
  BY PackTypes
<1>1. CASE UNCHANGED <<setup, left>> /\ (clicks' = clicks \/ Click)
  BY <1>0, <1>1, PackTypes DEF RunInv, Staged, Click
<1>2. CASE ApplyPreset \/ ApplySkillPack
  <2>1. PICK op, stage : StartSetup(op, stage) /\ <<op, stage>> \in Kinds
    BY <1>2 DEF ApplyPreset, ApplySkillPack, Kinds
  <2>2. setup = NoCall /\ left' = left /\ clicks' = clicks + 1
    BY <2>1 DEF StartSetup, PresetEnabled, Click
  <2>3. setup' = [op |-> op, n |-> clicks, type |-> selected, stage |-> stage, got |-> Unread]
    BY <2>1 DEF StartSetup
  <2>4. setup'.n = clicks /\ setup'.op = op /\ setup'.stage = stage
    BY <2>3
  <2>5. QED
    BY <1>0, <2>1, <2>2, <2>4, PackTypes DEF RunInv, Staged, Kinds
<1>3. CASE Leave
  BY <1>3 DEF Leave, RunInv, Staged
<1>4. CASE SetupGoes /\ UNCHANGED <<left, clicks>>
  <2>1. setup' = NoCall \/ (setup # NoCall /\ setup'.n = setup.n /\ (Staged(setup) => Staged(setup)'))
    <3>1. ASSUME NEW stage \in Stages, Goto(stage), setup # NoCall,
                 Staged(setup) => Staged([setup EXCEPT !.stage = stage])
          PROVE  setup'.n = setup.n /\ (Staged(setup) => Staged(setup)')
      <4>1. /\ setup'.n = setup.n /\ setup'.op = setup.op /\ setup'.stage = stage
            /\ [setup EXCEPT !.stage = stage].stage = stage
            /\ [setup EXCEPT !.stage = stage].op = setup.op
        BY <3>1, PackTypes DEF Goto, Setups
      <4>2. QED
        BY <3>1, <4>1 DEF Staged
    <3>2. ASSUME setup # NoCall, setup' = [setup EXCEPT !.got = Listing(setup.type)]
          PROVE  setup'.n = setup.n /\ (Staged(setup) => Staged(setup)')
      <4>1. setup'.n = setup.n /\ setup'.op = setup.op /\ setup'.stage = setup.stage
        BY <3>2, PackTypes DEF Setups
      <4>2. QED
        BY <4>1 DEF Staged
    <3>3. QED
      BY <1>4, <3>1, <3>2 DEF SetupGoes, Staged
  <2>2. QED
    BY <1>4, <2>1 DEF RunInv, Staged
<1>5. ASSUME NEW s \in left, LeftGoes(s), UNCHANGED <<setup, clicks>> PROVE RunInv'
  <2>1. s \in Setups(Len(rows)) /\ s.n < clicks /\ Staged(s) /\ (setup # NoCall => s.n # setup.n)
    BY PackTypes DEF RunInv
  <2>2. \A r \in left' : r \in left \/ (r.n = s.n /\ Staged(r))
    <3>1. CASE Off(s)
      BY <3>1 DEF Off
    <3>2. ASSUME NEW stage \in Stages, On(s, stage), Staged([s EXCEPT !.stage = stage])
          PROVE  \A r \in left' : r \in left \/ (r.n = s.n /\ Staged(r))
      <4>1. PICK q : q = [s EXCEPT !.stage = stage, !.got = Unread]
        OBVIOUS
      <4>2. q.n = s.n /\ q.op = s.op /\ q.stage = stage
        BY <2>1, <4>1 DEF Setups
      <4>3. [s EXCEPT !.stage = stage].stage = stage /\ [s EXCEPT !.stage = stage].op = s.op
        BY <2>1 DEF Setups
      <4>4. left' = (left \ {s}) \cup {q}
        BY <3>2, <4>1 DEF On
      <4>5. QED
        BY <3>2, <4>2, <4>3, <4>4 DEF Staged
    <3>3. CASE left' = (left \ {s}) \cup {[s EXCEPT !.got = Listing(s.type)]}
      <4>1. PICK q : q = [s EXCEPT !.got = Listing(s.type)]
        OBVIOUS
      <4>2. q.n = s.n /\ q.op = s.op /\ q.stage = s.stage
        BY <2>1, <4>1 DEF Setups
      <4>3. QED
        BY <2>1, <3>3, <4>1, <4>2 DEF Staged
    <3>4. QED
      BY <1>5, <2>1, <3>1, <3>2, <3>3 DEF LeftGoes
  <2>3. QED
    BY <1>5, <2>1, <2>2 DEF RunInv, Staged
<1>6. CASE UNCHANGED vars
  BY <1>1, <1>6 DEF vars, calls
<1>7. QED
  BY <1>1, <1>2, <1>3, <1>4, <1>5, <1>6, RunSteps

\* A step that makes no row of a pack.
NoNewRow ==
  /\ \A t \in Types : \A k \in PackKeys : HasRow(t, k)' => HasRow(t, k)
  /\ \A t \in Types : Once(t) => Once(t)'

LEMMA RowsSame == rows' = rows => NoNewRow
BY DEF NoNewRow, HasRow, Once

LEMMA AppendFacts ==
  ASSUME TypeInv, NEW t \in Types, NEW k \in Keys, rows' = Append(rows, NewRow(t, k))
  PROVE  /\ \A u, l : HasRow(u, l)' <=> HasRow(u, l) \/ (u = t /\ l = k)
         /\ \A u : Once(u) /\ (u = t /\ k \in PackKeys => ~ HasRow(t, k)) => Once(u)'
         /\ k \notin PackKeys => NoNewRow
<1> DEFINE n == Len(rows)
<1>1. /\ n \in Nat /\ rows'[n + 1] = NewRow(t, k) /\ DOMAIN rows' = DOMAIN rows \cup {n + 1}
      /\ \A i \in DOMAIN rows : rows'[i] = rows[i]
  BY AppendRow DEF TypeInv
<1>2. NewRow(t, k).type = t /\ NewRow(t, k).key = k
  BY DEF NewRow
<1> HIDE DEF n
<1>3. \A u, l : HasRow(u, l)' <=> HasRow(u, l) \/ (u = t /\ l = k)
  BY <1>1, <1>2 DEF HasRow
<1>4. \A u : Once(u) /\ (u = t /\ k \in PackKeys => ~ HasRow(t, k)) => Once(u)'
  BY <1>1, <1>2 DEF HasRow, Once
<1>5. QED
  BY <1>3, <1>4 DEF NoNewRow

LEMMA UpdateFacts ==
  ASSUME TypeInv, NEW s \in Saves(Len(rows)), rows' = [rows EXCEPT ![s.id].key = s.key]
  PROVE  NoNewRow
<1>1. s.key \notin PackKeys
  BY SkillAssumption DEF Saves
<1>2. \A i \in DOMAIN rows : rows[i] \in Row(Len(rows))
  BY DEF TypeInv, RowsType
<1>3. /\ DOMAIN rows' = DOMAIN rows
      /\ \A i \in DOMAIN rows : \/ rows'[i] = rows[i]
                                \/ rows'[i].type = rows[i].type /\ rows'[i].key \notin PackKeys
  BY <1>1, <1>2 DEF Row
<1>4. \A t : \A k \in PackKeys : HasRow(t, k)' => HasRow(t, k)
  BY <1>3 DEF HasRow
<1>5. ASSUME NEW t, Once(t) PROVE Once(t)'
  <2>1. ASSUME NEW i \in DOMAIN rows', NEW j \in DOMAIN rows',
               rows'[i].type = t, rows'[j].type = t, rows'[i].key = rows'[j].key,
               rows'[i].key \in PackKeys
        PROVE  i = j
    <3>1. i \in DOMAIN rows /\ j \in DOMAIN rows /\ rows'[i] = rows[i] /\ rows'[j] = rows[j]
      BY <1>3, <2>1
    <3>2. QED
      BY <1>5, <2>1, <3>1 DEF Once
  <2>2. QED
    BY <2>1 DEF Once
<1>6. QED
  BY <1>4, <1>5 DEF NoNewRow

\* The POSTs of packs are among those there were.
NoNewPost == \A p \in posts' : p.key \in PackKeys => p \in posts

\* A step that begins no application and makes no row or POST of a pack.
LEMMA PackKept ==
  ASSUME TypeInv, PackInv, NoNewRow, NoNewPost, overlapped \subseteq overlapped',
         Packs' \subseteq Packs
  PROVE  PackInv'
<1> SUFFICES ASSUME NEW t \in Types, t \notin overlapped' PROVE Single(t)'
  BY DEF PackInv
<1>1. Single(t)
  BY DEF PackInv
<1>2. Once(t)'
  BY <1>1 DEF Single, NoNewRow
<1>3. ASSUME NEW s \in Packs', s.type = t PROVE Only(s)' /\ Listed(s)'
  <2>1. Only(s) /\ Listed(s)
    BY <1>1, <1>3 DEF Single
  <2>2. Only(s)'
    BY <2>1 DEF Only, NoNewPost
  <2>3. Listed(s)'
    BY <1>3, <2>1 DEF Listed, Missing, NoNewRow
  <2>4. QED
    BY <2>2, <2>3
<1>4. ASSUME NEW p \in posts', p.type = t, p.key \in PackKeys, ~ p.done PROVE New(p)'
  <2>1. p \in posts /\ New(p)
    BY <1>1, <1>4 DEF Single, NoNewPost
  <2>2. QED
    BY <1>4, <2>1 DEF New, NoNewPost, NoNewRow
<1>5. QED
  BY <1>1, <1>2, <1>3, <1>4 DEF Single

\* One application goes on.
LEMMA PackMoves ==
  ASSUME TypeInv, PackInv, NoNewRow, NoNewPost, overlapped \subseteq overlapped',
         NEW s \in Packs, NEW r, Packs' \subseteq (Packs \ {s}) \cup {r}, r.type = s.type,
         s.type \notin overlapped => Only(r)' /\ Listed(r)'
  PROVE  PackInv'
<1> SUFFICES ASSUME NEW t \in Types, t \notin overlapped' PROVE Single(t)'
  BY DEF PackInv
<1>1. Single(t)
  BY DEF PackInv
<1>2. Once(t)'
  BY <1>1 DEF Single, NoNewRow
<1>3. ASSUME NEW q \in Packs', q.type = t PROVE Only(q)' /\ Listed(q)'
  <2>1. CASE q = r
    BY <1>3, <2>1
  <2>2. CASE q # r
    <3>1. q \in Packs /\ Only(q) /\ Listed(q)
      BY <1>1, <1>3, <2>2 DEF Single
    <3>2. Only(q)'
      BY <3>1 DEF Only, NoNewPost
    <3>3. Listed(q)'
      BY <1>3, <3>1 DEF Listed, Missing, NoNewRow
    <3>4. QED
      BY <3>2, <3>3
  <2>3. QED
    BY <2>1, <2>2
<1>4. ASSUME NEW p \in posts', p.type = t, p.key \in PackKeys, ~ p.done PROVE New(p)'
  <2>1. p \in posts /\ New(p)
    BY <1>1, <1>4 DEF Single, NoNewPost
  <2>2. QED
    BY <1>4, <2>1 DEF New, NoNewPost, NoNewRow
<1>5. \A q1, q2 \in Packs' : q1.type = t /\ q2.type = t => q1 = q2
  BY <1>1 DEF Single
<1>6. QED
  BY <1>2, <1>3, <1>4, <1>5 DEF Single

\* An application sends its POSTs: no other of the type is there.
LEMMA PackSends ==
  ASSUME TypeInv, PackInv, rows' = rows, overlapped' = overlapped,
         NEW s \in Packs, s.stage = "existing", s.got # Unread, posts' = posts \cup PackPosts(s),
         NEW r, Packs' \subseteq (Packs \ {s}) \cup {r},
         r.type = s.type, r.n = s.n, r.stage = "posting"
  PROVE  PackInv'
<1> SUFFICES ASSUME NEW t \in Types, t \notin overlapped' PROVE Single(t)'
  BY DEF PackInv
<1>1. Single(t) /\ Once(t)'
  BY DEF PackInv, Single, Once
<1>2. \A u, k : HasRow(u, k)' <=> HasRow(u, k)
  BY DEF HasRow
<1>3. \A p \in posts' : p \in posts \/ \E k \in Missing(s.got) :
             p = [n |-> s.n, type |-> s.type, key |-> k, done |-> FALSE]
  BY DEF PackPosts
<1>4. ASSUME NEW p \in posts', p \notin posts
      PROVE  p.type = s.type /\ p.n = s.n /\ p.key \in Missing(s.got)
  <2>1. PICK k \in Missing(s.got) : p = [n |-> s.n, type |-> s.type, key |-> k, done |-> FALSE]
    BY <1>3, <1>4
  <2>2. p.type = s.type /\ p.n = s.n /\ p.key = k
    BY <2>1
  <2>3. QED
    BY <2>2
<1>5. ASSUME s.type # t PROVE Single(t)'
  <2>1. \A q \in Packs' : q.type = t => q \in Packs /\ Only(q)' /\ Listed(q)'
    <3>1. ASSUME NEW q \in Packs', q.type = t PROVE q \in Packs /\ Only(q)' /\ Listed(q)'
      <4>1. q \in Packs /\ Only(q) /\ Listed(q)
        BY <1>1, <1>5, <3>1 DEF Single
      <4>2. QED
        BY <1>2, <1>4, <1>5, <3>1, <4>1 DEF Only, Listed
    <3>2. QED
      BY <3>1
  <2>2. \A p \in posts' : p.type = t => p \in posts
    BY <1>4, <1>5
  <2>3. \A p \in posts' : p.type = t /\ p.key \in PackKeys /\ ~ p.done => New(p)'
    <3>1. ASSUME NEW p \in posts', p.type = t, p.key \in PackKeys, ~ p.done PROVE New(p)'
      <4>1. p \in posts /\ New(p)
        BY <1>1, <2>2, <3>1 DEF Single
      <4>2. QED
        BY <1>2, <2>2, <3>1, <4>1 DEF New
    <3>2. QED
      BY <3>1
  <2>4. \A q1, q2 \in Packs' : q1.type = t /\ q2.type = t => q1 = q2
    BY <1>1, <2>1 DEF Single
  <2>5. QED
    BY <1>1, <2>1, <2>3, <2>4 DEF Single
<1>6. ASSUME s.type = t PROVE Single(t)'
  <2>1. Only(s) /\ Listed(s)
    BY <1>1, <1>6 DEF Single
  <2>2. \A p \in posts : ~ (p.type = t /\ p.key \in PackKeys)
    BY <1>6, <2>1 DEF Only
  <2>3. \A q \in Packs' : q.type = t => q = r
    BY <1>1, <1>6 DEF Single
  <2>4. Only(r)' /\ Listed(r)'
    <3>1. Only(r)'
      BY <1>4, <1>6, <2>2 DEF Only
    <3>2. QED
      BY <3>1 DEF Listed
  <2>5. ASSUME NEW p \in posts', p.type = t, p.key \in PackKeys, ~ p.done PROVE New(p)'
    <3>1. PICK k \in Missing(s.got) :
             p = [n |-> s.n, type |-> s.type, key |-> k, done |-> FALSE]
      BY <1>3, <2>2, <2>5
    <3>2. ~ HasRow(s.type, k) /\ p.key = k /\ p.type = s.type
      BY <2>1, <3>1 DEF Listed
    <3>3. ASSUME NEW q \in posts', q.type = p.type, q.key = p.key PROVE q = p
      <4>1. q \notin posts
        BY <1>6, <2>2, <2>5, <3>2, <3>3
      <4>2. PICK l \in Missing(s.got) :
               q = [n |-> s.n, type |-> s.type, key |-> l, done |-> FALSE]
        BY <1>3, <4>1
      <4>3. QED
        BY <3>1, <3>2, <3>3, <4>2
    <3>4. QED
      BY <1>2, <3>2, <3>3 DEF New
  <2>6. QED
    BY <1>1, <2>3, <2>4, <2>5 DEF Single
<1>7. QED
  BY <1>5, <1>6

LEMMA ListedFresh ==
  ASSUME RowsType, NEW t, NEW k \in Missing(Listing(t)) PROVE ~ HasRow(t, k)
<1>1. Range(Listing(t)) = RowsOf(t)
  BY ListingFacts
<1>2. \A s \in Range(Listing(t)) : s.key # k
  BY DEF Missing, Range
<1>3. QED
  BY <1>1, <1>2 DEF RowsOf, HasRow, Range

LEMMA PackSteps ==
  ASSUME Next
  PROVE  \/ UNCHANGED <<rows, setup, left, posts, overlapped>>
         \/ ApplyPreset \/ ApplySkillPack \/ Leave \/ UpdateWebhookSkill \/ SetupStep
         \/ (\E c \in creates : CreateWebhookSkill(c))
         \/ (\E p \in posts : PostStep(p))
         \/ (\E s \in puts : ServePut(s))
         \/ (\E s \in left : LeftStep(s))
<1>1. ListenersAnswer \/ ListenersFail => UNCHANGED <<rows, setup, left, posts, overlapped>>
  BY DEF ListenersAnswer, ListenersFail
<1>2. User => UNCHANGED <<rows, setup, left, posts, overlapped>>
              \/ ApplyPreset \/ ApplySkillPack \/ Leave
  BY DEF User, PickType, CreateSkill, SaveSkill, Return
<1>3. SaveStep => UNCHANGED <<rows, setup, left, posts, overlapped>> \/ UpdateWebhookSkill
  BY DEF SaveStep, AnswerSave, SaveFails
<1>4. \A p : PrefetchStep(p) => UNCHANGED <<rows, setup, left, posts, overlapped>>
  BY DEF PrefetchStep, ServePrefetch, AnswerPrefetch, FailPrefetch
<1>5. \A c : CreateStep(c) =>
        UNCHANGED <<rows, setup, left, posts, overlapped>> \/ CreateWebhookSkill(c)
  BY DEF CreateStep, AnswerCreate, CreateFails
<1>6. QED
  BY <1>1, <1>2, <1>3, <1>4, <1>5 DEF Next

\* The steps of the run under way.
LEMMA SetupPack == ASSUME TypeInv, RunInv, PackInv, SetupStep PROVE PackInv'
<1>n. PICK n : n = Len(rows)
  OBVIOUS
<1>0. /\ \A s \in left : s # NoCall
      /\ setup # NoCall => setup \in Setups(n) /\ Staged(setup)
  BY <1>n, PackTypes DEF RunInv
<1>g. ASSUME NEW stage \in Stages, setup # NoCall, Goto(stage)
      PROVE  /\ setup'.n = setup.n /\ setup'.op = setup.op /\ setup'.type = setup.type
             /\ setup'.stage = stage
  BY <1>0, <1>g DEF Goto, Setups
<1>k. ASSUME left' = left, setup' = NoCall \/ setup' = setup PROVE Packs' \subseteq Packs
  BY <1>k DEF Packs
<1>p. ASSUME left' = left, setup'.op = "preset" PROVE Packs' \subseteq Packs
  BY <1>p DEF Packs
<1>s. posts' \subseteq posts => NoNewPost
  BY DEF NoNewPost
<1>1. CASE InsertPresetSkill
  <2>1. PICK stage \in DOMAIN Inserted : At(stage) /\ Goto(Inserted[stage])
    BY <1>1 DEF InsertPresetSkill
  <2>2. /\ stage \in {"general", "generalFailed", "specific"}
        /\ Inserted[stage] \in Stages
    BY DEF Inserted, Stages
  <2>3. setup # NoCall /\ setup.stage = stage
    BY <2>1 DEF At
  <2>4. setup.op = "preset"
    BY <1>0, <2>2, <2>3 DEF Staged, Setups
  <2>5. setup'.op = "preset"
    BY <1>g, <2>1, <2>2, <2>3, <2>4
  <2>6. setup.type \in Types /\ PresetKey \in Keys /\ PresetKey \notin PackKeys
    BY <2>3, SkillAssumption, PackTypes DEF Keys
  <2>7. rows' = Append(rows, NewRow(setup.type, PresetKey)) /\ UNCHANGED <<posts, overlapped, left>>
    BY <1>1 DEF InsertPresetSkill
  <2>8. NoNewRow
    BY <2>6, <2>7, AppendFacts
  <2>9. QED
    BY <1>p, <1>s, <2>5, <2>7, <2>8, PackKept
<1>2. CASE PresetInsertFails
  <2>1. PICK stage \in DOMAIN Refused : At(stage) /\ Goto(Refused[stage])
    BY <1>2 DEF PresetInsertFails
  <2>2. stage \in {"general", "specific"} /\ Refused[stage] \in Stages
    BY DEF Refused, Stages
  <2>3. setup # NoCall /\ setup.stage = stage
    BY <2>1 DEF At
  <2>4. setup.op = "preset"
    BY <1>0, <2>2, <2>3 DEF Staged, Setups
  <2>5. setup'.op = "preset"
    BY <1>g, <2>1, <2>2, <2>3, <2>4
  <2>6. rows' = rows /\ UNCHANGED <<posts, overlapped, left>>
    BY <1>2 DEF PresetInsertFails
  <2>7. QED
    BY <1>p, <1>s, <2>5, <2>6, RowsSame, PackKept
<1>3. CASE ServeListing
  <2>1. /\ setup # NoCall /\ setup.stage \in {"existing", "listing"}
        /\ setup' = [setup EXCEPT !.got = Listing(setup.type)]
        /\ UNCHANGED <<rows, posts, overlapped, left>>
    BY <1>3 DEF ServeListing, At
  <2>2. PICK s : s = setup
    OBVIOUS
  <2>3. PICK r : r = [s EXCEPT !.got = Listing(s.type)]
    OBVIOUS
  <2>4. /\ r.op = s.op /\ r.type = s.type /\ r.n = s.n /\ r.stage = s.stage
        /\ r.got = Listing(s.type)
    BY <1>0, <2>1, <2>2, <2>3 DEF Setups
  <2>5. setup' = r /\ setup = s
    BY <2>1, <2>2, <2>3
  <2>6. CASE s.op # "pack"
    <3>1. Packs' \subseteq Packs
      BY <2>1, <2>4, <2>5, <2>6 DEF Packs
    <3>2. QED
      BY <1>s, <2>1, <3>1, RowsSame, PackKept
  <2>7. CASE s.op = "pack"
    <3>1. s \in Packs
      BY <2>1, <2>5, <2>7 DEF Packs
    <3>2. Packs' \subseteq (Packs \ {s}) \cup {r}
      <4>1. s \notin left
        BY <2>1, <2>5 DEF RunInv
      <4>2. QED
        BY <2>1, <2>5, <4>1 DEF Packs
    <3>3. s.type \notin overlapped => Only(r)' /\ Listed(r)'
      <4>1. ASSUME s.type \notin overlapped PROVE Only(r)'
        <5>1. s.type \in Types /\ Only(s)
          BY <2>1, <2>5, <3>1, <4>1, PackTypes DEF PackInv, Single
        <5>2. QED
          BY <2>1, <2>4, <5>1 DEF Only
      <4>2. Listed(r)'
        <5>1. \A k \in Missing(Listing(s.type)) : ~ HasRow(s.type, k)
          BY ListedFresh DEF TypeInv
        <5>2. \A k \in Missing(Listing(s.type)) : ~ HasRow(s.type, k)'
          BY <2>1, <5>1 DEF HasRow
        <5>3. QED
          BY <2>4, <5>2 DEF Listed
      <4>3. QED
        BY <4>1, <4>2
    <3>4. QED
      BY <1>s, <2>1, <2>4, <3>1, <3>2, <3>3, RowsSame, PackMoves
  <2>8. QED
    BY <2>6, <2>7
<1>4. CASE PackStarts
  <2>1. /\ setup # NoCall /\ setup.stage = "existing" /\ setup.got # Unread
        /\ UNCHANGED <<rows, overlapped, left>> /\ posts' = posts \cup PackPosts(setup)
        /\ IF Missing(setup.got) = {} THEN setup' = NoCall ELSE Goto("posting")
    BY <1>4 DEF PackStarts, At
  <2>2. setup.op = "pack" /\ setup \notin left
    BY <1>0, <2>1 DEF Staged, Setups, RunInv
  <2>3. PICK s : s = setup
    OBVIOUS
  <2>4. PICK r : r = [s EXCEPT !.stage = "posting", !.got = Unread]
    OBVIOUS
  <2>5. r.type = s.type /\ r.n = s.n /\ r.stage = "posting"
    BY <1>0, <2>1, <2>3, <2>4 DEF Setups
  <2>6. setup' = NoCall \/ setup' = r
    BY <2>1, <2>3, <2>4 DEF Goto
  <2>7. s \in Packs /\ Packs' \subseteq (Packs \ {s}) \cup {r}
    BY <2>1, <2>2, <2>3, <2>6 DEF Packs
  <2>8. posts' = posts \cup PackPosts(s)
    BY <2>1, <2>3
  <2>9. QED
    BY <2>1, <2>3, <2>5, <2>7, <2>8, PackSends
<1>5. CASE PackPosted
  <2>1. /\ setup # NoCall /\ setup.stage = "posting" /\ Goto("listing")
        /\ UNCHANGED <<rows, overlapped, left>> /\ posts' = {p \in posts : ~ Awaited(p)}
    BY <1>5 DEF PackPosted, At
  <2>2. setup.op = "pack" /\ setup \notin left
    BY <1>0, <2>1 DEF Staged, Setups, RunInv
  <2>3. PICK s : s = setup
    OBVIOUS
  <2>4. PICK r : r = [s EXCEPT !.stage = "listing", !.got = Unread]
    OBVIOUS
  <2>5. r.type = s.type /\ r.n = s.n /\ r.stage = "listing"
    BY <1>0, <2>1, <2>3, <2>4 DEF Setups
  <2>6. setup' = r
    BY <2>1, <2>3, <2>4 DEF Goto
  <2>7. s \in Packs /\ Packs' \subseteq (Packs \ {s}) \cup {r}
    BY <2>1, <2>2, <2>3, <2>6 DEF Packs
  <2>8. ASSUME s.type \notin overlapped PROVE Only(r)' /\ Listed(r)'
    <3>1. s.type \in Types
      BY <2>1, <2>3, PackTypes
    <3>2. Only(s)
      BY <2>7, <2>8, <3>1 DEF PackInv, Single
    <3>3. \A p \in posts' : p.n # s.n
      BY <2>1, <2>3 DEF Awaited
    <3>4. QED
      BY <2>1, <2>5, <3>2, <3>3 DEF Only, Listed
  <2>9. QED
    BY <1>s, <2>1, <2>5, <2>7, <2>8, RowsSame, PackMoves
<1>6. CASE AnswerListing
  <2>1. /\ setup # NoCall /\ UNCHANGED <<rows, posts, overlapped, left>>
        /\ IF setup.op = "preset" THEN Goto("refreshing") ELSE setup' = NoCall
    BY <1>6 DEF AnswerListing, At
  <2>2. "refreshing" \in Stages
    BY DEF Stages
  <2>3. Packs' \subseteq Packs
    BY <1>g, <1>k, <1>p, <2>1, <2>2
  <2>4. QED
    BY <1>s, <2>1, <2>3, RowsSame, PackKept
<1>7. CASE AnswerRefresh \/ SetupFails
  BY <1>k, <1>s, <1>7, RowsSame, PackKept DEF AnswerRefresh, SetupFails
<1>8. QED
  BY <1>1, <1>2, <1>3, <1>4, <1>5, <1>6, <1>7 DEF SetupStep

\* The steps of a run whose tab was left.
LEMMA LeftPack == ASSUME TypeInv, RunInv, PackInv, NEW s \in left, LeftStep(s) PROVE PackInv'
<1>0. s \in Setups(Len(rows)) /\ s # NoCall /\ Staged(s) /\ s.type \in Types
  BY PackTypes DEF RunInv
<1>1. s # setup
  BY <1>0 DEF RunInv
<1>s. posts' = posts => NoNewPost
  BY DEF NoNewPost
<1>k. ASSUME setup' = setup, Off(s) PROVE Packs' \subseteq Packs
  BY <1>k DEF Packs, Off
<1>p. ASSUME setup' = setup, s.op # "pack", NEW stage, On(s, stage) PROVE Packs' \subseteq Packs
  <2>1. PICK r : r = [s EXCEPT !.stage = stage, !.got = Unread]
    OBVIOUS
  <2>2. r.op = s.op
    BY <1>0, <2>1 DEF Setups
  <2>3. QED
    BY <1>p, <2>1, <2>2 DEF Packs, On
<1>2. CASE LeftInsert(s)
  <2>1. s.stage \in {"general", "generalFailed", "specific"}
    BY <1>2 DEF LeftInsert, Inserted
  <2>2. s.op # "pack"
    BY <1>0, <2>1 DEF Staged
  <2>3. Packs' \subseteq Packs
    BY <1>2, <1>k, <1>p, <2>2 DEF LeftInsert
  <2>4. rows' = Append(rows, NewRow(s.type, PresetKey)) /\ UNCHANGED <<posts, overlapped>>
    BY <1>2 DEF LeftInsert
  <2>5. PresetKey \in Keys /\ PresetKey \notin PackKeys
    BY SkillAssumption DEF Keys
  <2>6. NoNewRow
    BY <1>0, <2>4, <2>5, AppendFacts
  <2>7. QED
    BY <1>s, <2>3, <2>4, <2>6, PackKept
<1>3. CASE LeftInsertFails(s)
  <2>1. s.op # "pack" /\ On(s, "generalFailed") /\ UNCHANGED <<rows, posts, setup, overlapped>>
    BY <1>0, <1>3 DEF LeftInsertFails, Staged
  <2>2. QED
    BY <1>p, <1>s, <2>1, RowsSame, PackKept
<1>4. CASE LeftRefreshes(s) \/ LeftFails(s)
  BY <1>4, <1>k, <1>s, RowsSame, PackKept DEF LeftRefreshes, LeftFails
<1>5. CASE LeftServeListing(s)
  <2>1. /\ left' = (left \ {s}) \cup {[s EXCEPT !.got = Listing(s.type)]} /\ s.stage = "existing"
        /\ UNCHANGED <<rows, posts, setup, overlapped>>
    BY <1>5 DEF LeftServeListing
  <2>2. PICK r : r = [s EXCEPT !.got = Listing(s.type)]
    OBVIOUS
  <2>3. r.op = s.op /\ r.type = s.type /\ r.stage = s.stage /\ r.n = s.n /\ r.got = Listing(s.type)
    BY <1>0, <2>2 DEF Setups
  <2>4. s.op = "pack"
    BY <1>0, <2>1 DEF Staged, Setups
  <2>5. s \in Packs /\ Packs' \subseteq (Packs \ {s}) \cup {r}
    BY <1>0, <1>1, <2>1, <2>2, <2>4 DEF Packs
  <2>6. ASSUME s.type \notin overlapped PROVE Only(r)'
    <3>1. Only(s)
      BY <1>0, <2>5, <2>6 DEF PackInv, Single
    <3>2. QED
      BY <2>1, <2>3, <3>1 DEF Only
  <2>7. Listed(r)'
    <3>1. \A k \in Missing(Listing(s.type)) : ~ HasRow(s.type, k)
      BY ListedFresh DEF TypeInv
    <3>2. \A k \in Missing(Listing(s.type)) : ~ HasRow(s.type, k)'
      BY <2>1, <3>1 DEF HasRow
    <3>3. QED
      BY <2>3, <3>2 DEF Listed
  <2>8. QED
    BY <1>s, <2>1, <2>3, <2>5, <2>6, <2>7, RowsSame, PackMoves
<1>6. CASE LeftPackStarts(s)
  <2>1. /\ s.stage = "existing" /\ s.got # Unread /\ Off(s)
        /\ UNCHANGED <<rows, setup, overlapped>> /\ posts' = posts \cup PackPosts(s)
    BY <1>6 DEF LeftPackStarts
  <2>2. s.op = "pack"
    BY <1>0, <2>1 DEF Staged, Setups
  <2>3. PICK r : r = [s EXCEPT !.stage = "posting"]
    OBVIOUS
  <2>4. r.type = s.type /\ r.n = s.n /\ r.stage = "posting"
    BY <1>0, <2>3 DEF Setups
  <2>5. s \in Packs /\ Packs' \subseteq (Packs \ {s}) \cup {r}
    BY <1>0, <1>1, <2>1, <2>2 DEF Packs, Off
  <2>6. QED
    BY <2>1, <2>4, <2>5, PackSends
<1>7. QED
  BY <1>2, <1>3, <1>4, <1>5, <1>6 DEF LeftStep

\* A POST is served or fails.
LEMMA PostPack == ASSUME TypeInv, RunInv, PackInv, NEW p \in posts, PostStep(p) PROVE PackInv'
<1>0. p \in Posts /\ p.type \in Types /\ p.key \in Keys
  BY PackTypes DEF Posts, Keys
<1>1. CASE PostFails(p)
  <2>1. rows' = rows /\ left' = left /\ overlapped' = overlapped
    BY <1>1 DEF PostFails
  <2>2. \A others : Rejected(p, others) => posts' \subseteq others /\ setup' \in {NoCall, setup}
    BY DEF Rejected
  <2>3. posts' \subseteq posts /\ setup' \in {NoCall, setup}
    BY <1>1, <2>2 DEF PostFails
  <2>4. Packs' \subseteq Packs /\ NoNewPost
    BY <2>1, <2>3 DEF Packs, NoNewPost
  <2>5. QED
    BY <2>1, <2>4, RowsSame, PackKept
<1>2. CASE ServePost(p)
  <2>1. /\ ~ p.done /\ rows' = Append(rows, NewRow(p.type, p.key))
        /\ UNCHANGED <<setup, left, overlapped>>
        /\ posts' = (posts \ {p}) \cup
                      (IF Awaited(p) THEN {[p EXCEPT !.done = TRUE]} ELSE {})
    BY <1>2 DEF ServePost
  <2>2. PICK q : q = [p EXCEPT !.done = TRUE]
    OBVIOUS
  <2>3. q.type = p.type /\ q.key = p.key /\ q.n = p.n /\ q.done
    BY <1>0, <2>2 DEF Posts
  <2>4. \A x \in posts' : (x \in posts /\ x # p) \/ x = q
    BY <2>1, <2>2
  <2>5. /\ \A u, l : HasRow(u, l)' <=> HasRow(u, l) \/ (u = p.type /\ l = p.key)
        /\ \A u : Once(u) /\ (u = p.type /\ p.key \in PackKeys => ~ HasRow(p.type, p.key)) => Once(u)'
        /\ p.key \notin PackKeys => NoNewRow
    BY <1>0, <2>1, AppendFacts
  <2>6. Packs' = Packs
    BY <2>1 DEF Packs
  <2>7. CASE p.key \notin PackKeys
    <3>1. NoNewPost
      BY <2>3, <2>4, <2>7 DEF NoNewPost
    <3>2. QED
      BY <2>1, <2>5, <2>6, <2>7, <3>1, PackKept
  <2>8. CASE p.key \in PackKeys
    <3> SUFFICES ASSUME NEW t \in Types, t \notin overlapped' PROVE Single(t)'
      BY DEF PackInv
    <3>1. Single(t)
      BY <2>1 DEF PackInv
    <3>2. p.type = t => New(p)
      BY <2>1, <2>8, <3>1 DEF Single
    <3>3. Once(t)'
      BY <2>5, <3>1, <3>2 DEF Single, New
    <3>4. ASSUME NEW s \in Packs', s.type = t PROVE Only(s)' /\ Listed(s)'
      <4>1. Only(s) /\ Listed(s)
        BY <2>6, <3>1, <3>4 DEF Single
      <4>2. Only(s)'
        BY <2>3, <2>4, <4>1 DEF Only
      <4>3. CASE p.type = t
        <5>1. s.stage = "posting"
          BY <2>8, <3>4, <4>1, <4>3 DEF Only
        <5>2. QED
          BY <4>2, <5>1 DEF Listed
      <4>4. CASE p.type # t
        <5>1. Listed(s)'
          BY <2>5, <3>4, <4>1, <4>4 DEF Listed
        <5>2. QED
          BY <4>2, <5>1
      <4>5. QED
        BY <4>3, <4>4
    <3>5. ASSUME NEW x \in posts', x.type = t, x.key \in PackKeys, ~ x.done PROVE New(x)'
      <4>1. x \in posts /\ x # p
        BY <2>3, <2>4, <3>5
      <4>2. New(x)
        BY <3>1, <3>5, <4>1 DEF Single
      <4>3. ~ (x.type = p.type /\ x.key = p.key)
        BY <2>1, <4>1, <4>2 DEF New
      <4>4. ~ HasRow(x.type, x.key)'
        BY <2>5, <4>2, <4>3 DEF New
      <4>5. \A y \in posts' : ~ y.done => y \in posts
        BY <2>3, <2>4
      <4>6. QED
        BY <4>2, <4>4, <4>5 DEF New
    <3>6. QED
      BY <2>6, <3>1, <3>3, <3>4, <3>5 DEF Single
  <2>9. QED
    BY <2>7, <2>8
<1>3. QED
  BY <1>1, <1>2 DEF PostStep

LEMMA NextPack == ASSUME TypeInv, RunInv, PackInv, [Next]_vars PROVE PackInv'
<1>s. posts' = posts => NoNewPost
  BY DEF NoNewPost
<1>k. UNCHANGED <<setup, left>> => Packs' \subseteq Packs
  BY DEF Packs
<1>1. CASE UNCHANGED <<rows, setup, left, posts, overlapped>>
  BY <1>1, <1>k, <1>s, RowsSame, PackKept
<1>2. CASE ApplyPreset
  <2>1. /\ setup' = [op |-> "preset", n |-> clicks, type |-> selected, stage |-> "general",
                     got |-> Unread]
        /\ UNCHANGED <<rows, posts, left, overlapped>>
    BY <1>2 DEF ApplyPreset, StartSetup
  <2>2. setup'.op = "preset"
    BY <2>1
  <2>3. Packs' \subseteq Packs
    BY <2>1, <2>2 DEF Packs
  <2>4. QED
    BY <1>s, <2>1, <2>3, RowsSame, PackKept
<1>3. CASE ApplySkillPack
  <2>1. PICK r : r = [op |-> "pack", n |-> clicks, type |-> selected, stage |-> "existing",
                      got |-> Unread]
    OBVIOUS
  <2>2. setup = NoCall /\ setup' = r /\ UNCHANGED <<rows, posts, left>>
    BY <1>3, <2>1 DEF ApplySkillPack, StartSetup, PresetEnabled
  <2>3. r.op = "pack" /\ r.type = selected /\ r.stage = "existing" /\ r.got = Unread
    BY <2>1
  <2>4. overlapped' = overlapped \cup {t \in {selected} : Strays(t)}
    BY <1>3 DEF ApplySkillPack
  <2>5. Packs' \subseteq Packs \cup {r}
    BY <2>2 DEF Packs
  <2> SUFFICES ASSUME NEW t \in Types, t \notin overlapped' PROVE Single(t)'
    BY DEF PackInv
  <2>6. Single(t) /\ \A u, k : HasRow(u, k)' <=> HasRow(u, k)
    BY <2>2, <2>4 DEF PackInv, HasRow
  <2>7. CASE t # selected
    <3>1. \A s \in Packs' : s.type = t => s \in Packs
      BY <2>3, <2>5, <2>7
    <3>2. \A s : Only(s) /\ Listed(s) => Only(s)' /\ Listed(s)'
      BY <2>2, <2>6 DEF Only, Listed
    <3>3. \A p \in posts : New(p) => New(p)'
      BY <2>2, <2>6 DEF New
    <3>4. Once(t)'
      BY <2>2, <2>6 DEF Single, Once
    <3>5. QED
      BY <2>2, <2>6, <3>1, <3>2, <3>3, <3>4 DEF Single
  <2>8. CASE t = selected
    <3>1. ~ Strays(t)
      BY <2>4, <2>8
    <3>2. \A p \in posts : ~ (p.type = t /\ p.key \in PackKeys)
      BY <2>2, <3>1 DEF Strays, Awaited
    <3>3. \A s \in Packs' : s.type = t => s = r
      BY <2>2, <3>1 DEF Strays, Packs
    <3>4. Only(r)' /\ Listed(r)'
      BY <2>2, <2>3, <2>8, <3>2 DEF Only, Listed
    <3>5. Once(t)'
      BY <2>2, <2>6 DEF Single, Once
    <3>6. QED
      BY <2>2, <3>2, <3>3, <3>4, <3>5 DEF Single
  <2>9. QED
    BY <2>7, <2>8
<1>4. CASE Leave
  <2>1. UNCHANGED <<rows, overlapped>> /\ setup' = NoCall /\ posts' = Unserved
        /\ left' = left \cup {s \in {setup} : s # NoCall /\ GoesOn(s)}
    BY <1>4 DEF Leave
  <2>2. Packs' \subseteq Packs
    BY <2>1 DEF Packs
  <2>3. NoNewPost
    <3>1. ASSUME NEW p \in posts', p \notin posts PROVE p.key \notin PackKeys
      <4>1. PICK c \in creates : p = [n |-> c.n, type |-> c.type, key |-> c.key, done |-> FALSE]
        BY <2>1, <3>1 DEF Unserved
      <4>2. p.key = c.key /\ c.key \in ManualKeys
        BY <4>1 DEF TypeInv, CallsType, Creates
      <4>3. QED
        BY <4>2, SkillAssumption
    <3>2. QED
      BY <3>1 DEF NoNewPost
  <2>4. QED
    BY <2>1, <2>2, <2>3, RowsSame, PackKept
<1>5. CASE UpdateWebhookSkill
  <2>1. saving \in Saves(Len(rows)) /\ rows' = [rows EXCEPT ![saving.id].key = saving.key]
        /\ UNCHANGED <<posts, setup, left, overlapped>>
    BY <1>5 DEF UpdateWebhookSkill, TypeInv, CallsType
  <2>2. PICK s : s = saving
    OBVIOUS
  <2>3. NoNewRow
    BY <2>1, <2>2, UpdateFacts
  <2>4. QED
    BY <1>k, <1>s, <2>1, <2>3, PackKept
<1>6. ASSUME NEW c \in creates, CreateWebhookSkill(c) PROVE PackInv'
  <2>1. c.type \in Types /\ c.key \in Keys /\ c.key \notin PackKeys
    BY SkillAssumption DEF TypeInv, CallsType, Creates, Keys
  <2>2. rows' = Append(rows, NewRow(c.type, c.key)) /\ UNCHANGED <<setup, left, posts, overlapped>>
    BY <1>6 DEF CreateWebhookSkill
  <2>3. NoNewRow
    BY <2>1, <2>2, AppendFacts
  <2>4. QED
    BY <1>k, <1>s, <2>2, <2>3, PackKept
<1>7. ASSUME NEW s \in puts, ServePut(s) PROVE PackInv'
  <2>1. s \in Saves(Len(rows)) /\ UNCHANGED <<posts, setup, left, overlapped>>
        /\ (rows' = rows \/ rows' = [rows EXCEPT ![s.id].key = s.key])
    BY <1>7 DEF ServePut, TypeInv, CallsType
  <2>2. NoNewRow
    BY <2>1, UpdateFacts, RowsSame
  <2>3. QED
    BY <1>k, <1>s, <2>1, <2>2, PackKept
<1>8. CASE UNCHANGED vars
  BY <1>1, <1>8 DEF vars, calls
<1>9. QED
  BY <1>1, <1>2, <1>3, <1>4, <1>5, <1>6, <1>7, <1>8, PackSteps, SetupPack, LeftPack, PostPack

LEMMA InitPack == Init => RunInv /\ PackInv
<1> SUFFICES ASSUME Init PROVE RunInv /\ PackInv
  OBVIOUS
<1>1. \A i \in DOMAIN rows : rows[i].key \notin PackKeys
  <2> DEFINE R == [id : Nat, type : Types, key : ManualKeys]
  <2>1. rows \in Seq(R)
    BY SkillAssumption DEF Init
  <2>2. DOMAIN rows = 1..Len(rows) /\ rows \in [1..Len(rows) -> R]
    BY <2>1, LenProperties
  <2>3. QED
    BY <2>2, SkillAssumption
<1>2. posts = {} /\ Packs = {} /\ setup = NoCall /\ left = {}
  BY DEF Init, Packs
<1>3. QED
  BY <1>1, <1>2 DEF RunInv, PackInv, Single, Once

LEMMA PackHolds == TypeInv /\ PackInv => PackInstalledOnce
<1> SUFFICES ASSUME TypeInv, PackInv, NEW i \in DOMAIN rows, NEW j \in DOMAIN rows,
             rows[i].type = rows[j].type, rows[i].key = rows[j].key,
             rows[i].key \in PackKeys, rows[i].type \notin overlapped
      PROVE  i = j
  BY DEF PackInstalledOnce
<1>1. rows[i] \in Row(Len(rows))
  BY DEF TypeInv, RowsType
<1>2. rows[i].type \in Types
  BY <1>1 DEF Row
<1>3. QED
  BY <1>2 DEF PackInv, Single, Once

\* No listener gets a skill of a pack twice, though calls fail and the tab is
\* left, unless a pack was applied beside calls of an earlier application.
THEOREM PackInstalledOnceHolds == Spec => []PackInstalledOnce
BY InitPack, NextRun, NextPack, PackHolds, TypeInvHolds, PTL DEF Spec

---------------------------------------------------------------------------
(***************************************************************************)
(* SettledScreen: while the calls are clean there is one write at most and *)
(* none beside a prefetch; only the list it is about may differ from the   *)
(* server's, and its answer makes up for that.                             *)
(***************************************************************************)
\* A list shows the rows of S once each, or all but a new one.
Mirrored(list, S) == Range(list) = S /\ Len(list) = Cardinality(S)
Short(list, S, s) ==
  Range(list) = S \ {s} /\ s \in S /\ Len(list) + 1 = Cardinality(S)

ListedNew ==
  At("existing") /\ setup.got # Unread =>
    \A k \in Missing(setup.got) : ~ HasRow(setup.type, k)
SetupWrites == setup # NoCall /\ setup.stage # "refreshing"
OneWrite ==
  /\ puts = {} /\ left = {}
  /\ \A c, d \in creates : c = d
  /\ creates # {} => saving = NoCall /\ ~ SetupWrites /\ posts = {}
  /\ saving # NoCall => ~ SetupWrites /\ posts = {}
  /\ \A p \in posts :
       At("posting") /\ Awaited(p) /\ p.type = setup.type /\ (~ p.done => New(p))
  /\ Prefetching => ~ Writing
  /\ ~ At("generalFailed") /\ ~ At("refused")
  /\ ListedNew
PrefetchFresh ==
  \A p \in prefetches : \A t \in Types :
    p.got[t] # Unread => Mirrored(p.got[t], RowsOf(t))
AnswersFresh ==
  /\ saving # NoCall =>
       /\ rows[saving.id].type = saving.type
       /\ saving.got = NoSkill => Mirrored(saving.list, RowsOf(saving.type))
       /\ saving.got # NoSkill => Mirrored(WithSaved(saving), RowsOf(saving.type))
  /\ At("listing") /\ setup.got # Unread => Mirrored(setup.got, RowsOf(setup.type))
Pending(t) ==
  \/ \E c \in creates : c.type = t /\ c.got # NoSkill
  \/ saving # NoCall /\ saving.type = t /\ saving.got # NoSkill
  \/ setup # NoCall /\ setup.type = t /\ setup.stage \notin {"existing", "refreshing"}
ScreenFresh ==
  ~ Prefetching =>
    \A t \in Range(listeners) :
      /\ ~ Pending(t) => Mirrored(byType[t], RowsOf(t))
      /\ \A c \in creates : c.type = t /\ c.got # NoSkill => Short(byType[t], RowsOf(t), c.got)
CleanInv == clean => OneWrite /\ PrefetchFresh /\ AnswersFresh /\ ScreenFresh

LEMMA MirrorsRows ==
  ASSUME RowsType, NEW list, NEW t
  PROVE  Mirrors(list, t) <=> Mirrored(list, RowsOf(t))
BY ListingFacts DEF Mirrors, Mirrored

LEMMA ConsMirrored ==
  ASSUME NEW R, NEW list \in Seq(R), NEW s \in R, NEW S, Short(list, S, s)
  PROVE  Mirrored(<<s>> \o list, S)
<1>1. <<s>> \in Seq(R) /\ Len(<<s>>) = 1 /\ Len(list) \in Nat
  OBVIOUS
<1> DEFINE l == <<s>> \o list
<1>2. Len(l) = 1 + Len(list) /\ l \in Seq(R) /\ DOMAIN l = 1..(1 + Len(list))
      /\ l[1] = s /\ \A i \in 2..(1 + Len(list)) : l[i] = list[i - 1]
  BY <1>1
<1>3. Range(l) = {s} \cup Range(list)
  <2>1. DOMAIN list = 1..Len(list)
    OBVIOUS
  <2>2. \A i \in DOMAIN l : l[i] \in {s} \cup Range(list)
    <3>1. ASSUME NEW i \in DOMAIN l PROVE l[i] \in {s} \cup Range(list)
      <4>1. i = 1 \/ (i \in 2..(1 + Len(list)) /\ i - 1 \in DOMAIN list)
        BY <1>1, <1>2, <2>1
      <4>2. QED
        BY <1>2, <4>1 DEF Range
    <3>2. QED
      BY <3>1
  <2>3. ASSUME NEW i \in DOMAIN list PROVE list[i] \in Range(l)
    <3>1. i + 1 \in DOMAIN l /\ i + 1 \in 2..(1 + Len(list)) /\ (i + 1) - 1 = i
      BY <1>1, <1>2, <2>1
    <3>2. l[i + 1] = list[i]
      BY <1>2, <3>1
    <3>3. QED
      BY <3>1, <3>2 DEF Range
  <2>4. s \in Range(l)
    <3>1. 1 \in DOMAIN l
      BY <1>1, <1>2
    <3>2. QED
      BY <1>2, <3>1 DEF Range
  <2> HIDE DEF l
  <2>5. QED
    BY <2>2, <2>3, <2>4 DEF Range
<1> HIDE DEF l
<1>4. Range(l) = S
  BY <1>3 DEF Short
<1>5. Len(l) = Cardinality(S)
  BY <1>1, <1>2 DEF Short
<1>6. QED
  BY <1>4, <1>5 DEF Mirrored, l

LEMMA AppendShort ==
  ASSUME NEW S, IsFiniteSet(S), NEW new, new \notin S, NEW list, Mirrored(list, S)
  PROVE  Short(list, S \cup {new}, new)
<1>1. Cardinality(S \cup {new}) = Cardinality(S) + 1 /\ Cardinality(S) \in Nat
  BY FS_AddElement, FS_CardinalityType
<1>2. QED
  BY <1>1 DEF Short, Mirrored

\* What WithSaved makes of a list.
Replaced(list, id, new) == [i \in DOMAIN list |-> IF list[i].id = id THEN new ELSE list[i]]

LEMMA SavedMirrored ==
  ASSUME NEW R, NEW list \in Seq(R), NEW S, IsFiniteSet(S), Mirrored(list, S),
         NEW old \in S, NEW new, new \notin S \ {old}, NEW id,
         \A x \in S : x.id = id <=> x = old
  PROVE  Mirrored(Replaced(list, id, new), (S \ {old}) \cup {new})
<1> DEFINE l == [i \in DOMAIN list |-> IF list[i].id = id THEN new ELSE list[i]]
<1>1. Len(list) \in Nat /\ DOMAIN list = 1..Len(list)
  OBVIOUS
<1>2. Len(l) = Len(list) /\ DOMAIN l = DOMAIN list
  BY <1>1
<1>3. Cardinality((S \ {old}) \cup {new}) = Cardinality(S)
  <2>1. IsFiniteSet(S \ {old}) /\ Cardinality(S \ {old}) = Cardinality(S) - 1
        /\ Cardinality(S) \in Nat
    BY FS_RemoveElement, FS_CardinalityType
  <2>2. Cardinality((S \ {old}) \cup {new}) = Cardinality(S \ {old}) + 1
    BY <2>1, FS_AddElement
  <2>3. QED
    BY <2>1, <2>2
<1>4. \A i \in DOMAIN list : list[i] \in S /\ l[i] = IF list[i] = old THEN new ELSE list[i]
  BY DEF Mirrored, Range
<1>5. Range(l) = (S \ {old}) \cup {new}
  <2>1. \A x \in S : \E i \in DOMAIN list : list[i] = x
    BY DEF Mirrored, Range
  <2> HIDE DEF l
  <2>2. \A i \in DOMAIN l : l[i] \in (S \ {old}) \cup {new}
    BY <1>2, <1>4
  <2>3. \A x \in (S \ {old}) \cup {new} : \E i \in DOMAIN l : l[i] = x
    BY <1>2, <1>4, <2>1
  <2>4. QED
    BY <2>2, <2>3 DEF Range
<1>6. QED
  BY <1>2, <1>3, <1>5 DEF Mirrored, Replaced

LEMMA RowsKept ==
  ASSUME rows' = rows
  PROVE  \A t : RowsOf(t)' = RowsOf(t)
BY DEF RowsOf

LEMMA RowsAppended ==
  ASSUME TypeInv, NEW u \in Types, NEW k \in Keys, rows' = Append(rows, NewRow(u, k))
  PROVE  /\ \A t : t # u => RowsOf(t)' = RowsOf(t)
         /\ RowsOf(u)' = RowsOf(u) \cup {NewRow(u, k)}
         /\ NewRow(u, k) \notin RowsOf(u)
<1> DEFINE n == Len(rows)
<1>1. /\ n \in Nat /\ rows'[n + 1] = NewRow(u, k) /\ DOMAIN rows' = DOMAIN rows \cup {n + 1}
      /\ \A i \in DOMAIN rows : rows'[i] = rows[i]
  BY AppendRow DEF TypeInv
<1>2. NewRow(u, k).type = u /\ NewRow(u, k).id = n + 1
  BY DEF NewRow
<1>3. DOMAIN rows = 1..n /\ \A i \in DOMAIN rows : rows[i].id = i
  BY DEF TypeInv, RowsType
<1> HIDE DEF n
<1>4. Range(rows') = Range(rows) \cup {NewRow(u, k)}
  BY <1>1 DEF Range
<1>5. NewRow(u, k) \notin Range(rows)
  BY <1>1, <1>2, <1>3 DEF Range
<1>6. QED
  BY <1>2, <1>4, <1>5 DEF RowsOf

LEMMA RowsUpdated ==
  ASSUME TypeInv, UpdateWebhookSkill, rows[saving.id].type = saving.type
  PROVE  LET old == rows[saving.id]
             new == rows'[saving.id]
         IN  /\ \A t : t # saving.type => RowsOf(t)' = RowsOf(t)
             /\ RowsOf(saving.type)' = (RowsOf(saving.type) \ {old}) \cup {new}
             /\ old \in RowsOf(saving.type) /\ new \notin RowsOf(saving.type) \ {old}
             /\ new \in Row(Len(rows)) /\ new.type = saving.type
             /\ \A x \in RowsOf(saving.type) : x.id = saving.id <=> x = old
<1>1. PICK n \in Nat : n = Len(rows)
  BY DEF TypeInv, RowsType
<1>2. /\ saving \in Saves(n) /\ saving.id \in 1..n /\ saving.key \in Keys
      /\ rows \in [1..n -> Row(n)] /\ DOMAIN rows = 1..n /\ \A i \in 1..n : rows[i].id = i
  BY <1>1 DEF UpdateWebhookSkill, TypeInv, RowsType, CallsType, Saves, Keys
<1>3. /\ DOMAIN rows' = 1..n /\ \A i \in 1..n : i # saving.id => rows'[i] = rows[i]
      /\ rows'[saving.id] = [rows[saving.id] EXCEPT !.key = saving.key]
  BY <1>2 DEF UpdateWebhookSkill
<1>4. /\ rows'[saving.id] \in Row(n) /\ rows'[saving.id].id = saving.id
      /\ rows'[saving.id].type = saving.type
  BY <1>2, <1>3 DEF Row
<1>5. Range(rows') = (Range(rows) \ {rows[saving.id]}) \cup {rows'[saving.id]}
  <2>1. \A i \in 1..n : i # saving.id => rows[i] # rows[saving.id]
    BY <1>2
  <2>2. QED
    BY <1>2, <1>3, <2>1 DEF Range
<1>6. \A x \in Range(rows) : x.id = saving.id <=> x = rows[saving.id]
  BY <1>2 DEF Range
<1>7. rows[saving.id] \in Range(rows) /\ saving.id \in DOMAIN rows
  BY <1>2 DEF Range
<1>8. rows'[saving.id] \notin Range(rows) \ {rows[saving.id]}
  BY <1>4, <1>6
<1> DEFINE old == rows[saving.id]
           new == rows'[saving.id]
<1>9. old.type = saving.type /\ new.type = saving.type /\ new \in Row(Len(rows))
  BY <1>1, <1>4
<1> HIDE DEF old, new
<1>10. Range(rows') = (Range(rows) \ {old}) \cup {new} /\ old \in Range(rows)
       /\ new \notin Range(rows) \ {old} /\ \A x \in Range(rows) : x.id = saving.id <=> x = old
  BY <1>5, <1>6, <1>7, <1>8 DEF old, new
<1>11. \A t : t # saving.type => RowsOf(t)' = RowsOf(t)
  BY <1>9, <1>10 DEF RowsOf
<1>12. RowsOf(saving.type)' = (RowsOf(saving.type) \ {old}) \cup {new}
  <2> DEFINE u == saving.type
  <2>1. {s \in Range(rows') : s.type = u} = ({s \in Range(rows) : s.type = u} \ {old}) \cup {new}
    BY <1>9, <1>10
  <2>2. saving'.type = saving.type
    BY <1>2 DEF UpdateWebhookSkill, Saves
  <2>3. QED
    BY <2>1, <2>2 DEF RowsOf
<1>13. /\ old \in RowsOf(saving.type) /\ new \notin RowsOf(saving.type) \ {old}
       /\ \A x \in RowsOf(saving.type) : x.id = saving.id <=> x = old
  BY <1>9, <1>10 DEF RowsOf
<1>14. QED
  BY <1>9, <1>11, <1>12, <1>13 DEF old, new

\* A prefetch begins: everything is to be fetched, and no write is under way.
LEMMA PrefetchClean ==
  ASSUME TypeInv, NEW sel, NEW opts, NEW others, Prefetch(sel, opts, others),
         UNCHANGED <<rows, creates, posts, saving, puts, left>>,
         setup' = setup \/ (setup' = NoCall /\ ~ SetupWrites)
  PROVE  CleanInv'
<1> SUFFICES ASSUME clean' PROVE (OneWrite /\ PrefetchFresh /\ AnswersFresh /\ ScreenFresh)'
  BY DEF CleanInv
<1>1. /\ creates = {} /\ posts = {} /\ saving = NoCall /\ ~ SetupWrites
      /\ puts = {} /\ left = {}
  BY DEF Prefetch, Writing, SetupWrites
<1> DEFINE new == [sel |-> sel, opts |-> opts, got |-> [t \in Types |-> Unread]]
<1>2. \A t \in Types : new.got[t] = Unread
  OBVIOUS
<1>3. prefetches' = {new}
  BY DEF Prefetch, Uncancelled
<1> HIDE DEF new
<1>4. PrefetchFresh'
  BY <1>2, <1>3 DEF PrefetchFresh
<1>5. ScreenFresh'
  BY <1>3 DEF ScreenFresh, Prefetching
<1>6. ~ SetupWrites' /\ ~ Writing'
  BY <1>1 DEF SetupWrites, Writing
<1>7. OneWrite'
  BY <1>1, <1>6 DEF OneWrite, At, ListedNew, SetupWrites
<1>8. AnswersFresh'
  BY <1>1, <1>6 DEF AnswersFresh, At, SetupWrites
<1>9. QED
  BY <1>4, <1>5, <1>7, <1>8

\* A write begins: no call is in flight but the refresh after a preset.
LEMMA WriteBegins ==
  ASSUME CleanInv, StartWrite, clean'
  PROVE  /\ clean /\ OneWrite /\ AnswersFresh /\ ~ Prefetching
         /\ creates = {} /\ posts = {} /\ saving = NoCall /\ ~ SetupWrites
         /\ puts = {} /\ left = {}
         /\ \A t \in Range(listeners) : Mirrored(byType[t], RowsOf(t))
<1>1. /\ clean /\ creates = {} /\ posts = {} /\ saving = NoCall /\ ~ SetupWrites
      /\ puts = {} /\ left = {} /\ ~ Prefetching
  BY DEF StartWrite, Writing, SetupWrites
<1>2. \A t : ~ Pending(t)
  BY <1>1 DEF Pending, SetupWrites
<1>3. QED
  BY <1>1, <1>2 DEF CleanInv, ScreenFresh

\* While a write is under way no prefetch is.
LEMMA WritesAlone ==
  ASSUME clean, CleanInv, Writing
  PROVE  /\ ~ Prefetching /\ OneWrite /\ AnswersFresh
         /\ \A t \in Range(listeners) :
              /\ ~ Pending(t) => Mirrored(byType[t], RowsOf(t))
              /\ \A c \in creates : c.type = t /\ c.got # NoSkill => Short(byType[t], RowsOf(t), c.got)
BY DEF CleanInv, OneWrite, ScreenFresh

LEMMA CleanSteps ==
  ASSUME Next, clean'
  PROVE  \/ ListenersAnswer \/ Return \/ (\E t \in Types : PickType(t)) \/ AnswerRefresh
         \/ (\E k \in ManualKeys : CreateSkill(k) \/ \E card \in Cards : SaveSkill(card, k))
         \/ ApplyPreset \/ ApplySkillPack
         \/ UpdateWebhookSkill \/ AnswerSave
         \/ (SaveFails /\ saving.got = NoSkill /\ clean)
         \/ InsertPresetSkill \/ ServeListing \/ PackStarts \/ PackPosted \/ AnswerListing
         \/ (At("refused") /\ clean)
         \/ (\E p \in prefetches : AnswerPrefetch(p) \/ \E t \in Types : ServePrefetch(p, t))
         \/ (\E c \in creates : \/ CreateWebhookSkill(c) \/ AnswerCreate(c)
                                \/ (CreateFails(c) /\ c.got = NoSkill /\ clean))
         \/ (\E p \in posts : ServePost(p) \/ (~ p.done /\ ~ Takes(p.type, p.key, 0) /\ clean))
         \/ (\E s \in puts : ServePut(s) /\ clean) \/ (\E s \in left : LeftStep(s) /\ clean)
<1>1. ~ Fault
  BY DEF Fault
<1>2. ~ ListenersFail /\ ~ PresetInsertFails /\ \A p : ~ FailPrefetch(p)
  BY <1>1 DEF ListenersFail, PresetInsertFails, FailPrefetch
<1>3. SaveFails => saving.got = NoSkill /\ clean
  BY <1>1 DEF SaveFails
<1>4. \A c : CreateFails(c) => c.got = NoSkill /\ clean
  BY <1>1 DEF CreateFails
<1>5. \A p : PostFails(p) => ~ p.done /\ ~ Takes(p.type, p.key, 0) /\ clean
  BY <1>1 DEF PostFails
<1>6. SetupFails => At("refused") /\ clean
  BY <1>1 DEF SetupFails
<1>7. /\ ~ Leave
      /\ \A s : ServePut(s) => clean
      /\ \A s : LeftStep(s) => clean
  BY <1>1 DEF Leave, ServePut, LeftStep, LeftInsert, LeftInsertFails, LeftRefreshes,
              LeftServeListing, LeftPackStarts, LeftFails
<1>8. QED
  BY <1>2, <1>3, <1>4, <1>5, <1>6, <1>7
     DEF Next, User, SaveStep, SetupStep, PrefetchStep, CreateStep, PostStep

\* Without a write there is no answer to come.
LEMMA IdleFresh ==
  ASSUME ~ Writing'
  PROVE  OneWrite' /\ AnswersFresh' /\ \A t : ~ Pending(t)'
<1>1. /\ creates' = {} /\ posts' = {} /\ saving' = NoCall /\ ~ SetupWrites'
      /\ puts' = {} /\ left' = {}
  BY DEF Writing, SetupWrites
<1>2. QED
  BY <1>1 DEF OneWrite, AnswersFresh, Pending, At, ListedNew, SetupWrites, Writing

\* A write is over, and the screen is the server's.
LEMMA WritesDone ==
  ASSUME UNCHANGED <<rows, listeners, prefetches>>, ~ Prefetching, ~ Writing',
         \A t \in Range(listeners) : Mirrored(byType'[t], RowsOf(t))
  PROVE  (OneWrite /\ PrefetchFresh /\ AnswersFresh /\ ScreenFresh)'
<1>1. ScreenFresh'
  <2>1. \A t : RowsOf(t)' = RowsOf(t) /\ ~ Pending(t)'
    BY RowsKept, IdleFresh
  <2>2. creates' = {}
    BY DEF Writing
  <2>3. QED
    BY <2>1, <2>2 DEF ScreenFresh
<1>2. PrefetchFresh'
  BY DEF PrefetchFresh, Prefetching
<1>3. QED
  BY <1>1, <1>2, IdleFresh

\* While a preset or a pack writes, only its list may differ from the server's.
LEMMA SetupAlone ==
  ASSUME TypeInv, clean, CleanInv, SetupWrites
  PROVE  /\ ~ Prefetching /\ OneWrite /\ AnswersFresh /\ creates = {} /\ saving = NoCall
         /\ setup \in Setups(Len(rows)) /\ setup # NoCall /\ setup \in Setup
         /\ puts = {} /\ left = {}
         /\ setup.stage # "posting" => posts = {}
         /\ setup.stage \notin {"generalFailed", "refused"}
         /\ \A t \in Range(listeners) :
              t # setup.type \/ setup.stage = "existing" => Mirrored(byType[t], RowsOf(t))
<1>1. Writing /\ setup # NoCall
  BY DEF SetupWrites, Writing
<1>2. /\ ~ Prefetching /\ OneWrite /\ AnswersFresh
      /\ \A t \in Range(listeners) : ~ Pending(t) => Mirrored(byType[t], RowsOf(t))
  BY <1>1, WritesAlone
<1>3. creates = {} /\ saving = NoCall /\ (setup.stage # "posting" => posts = {})
      /\ puts = {} /\ left = {}
      /\ setup.stage \notin {"generalFailed", "refused"}
  BY <1>1, <1>2 DEF OneWrite, At
<1>4. setup \in Setups(Len(rows)) /\ setup \in Setup
  BY <1>1, SetupsAreSetup DEF TypeInv, CallsType
<1>5. \A t : t # setup.type \/ setup.stage = "existing" => ~ Pending(t)
  BY <1>3 DEF Pending
<1>6. QED
  BY <1>1, <1>2, <1>3, <1>4, <1>5

LEMMA SetupGoesOn ==
  ASSUME TypeInv, clean, CleanInv, SetupWrites,
         UNCHANGED <<listeners, byType, prefetches, creates, saving, puts, left>>,
         setup' \in Setup, setup'.type = setup.type,
         setup'.stage \in {"specific", "posting", "listing"},
         \A t : t # setup.type => RowsOf(t)' = RowsOf(t),
         \A t : setup'.stage = "listing" /\ setup'.got # Unread /\ t = setup.type
                  => Mirrored(setup'.got, RowsOf(t)'),
         \A p \in posts' :
           At("posting")' /\ Awaited(p)' /\ p.type = setup.type /\ (~ p.done => New(p)')
  PROVE  (OneWrite /\ PrefetchFresh /\ AnswersFresh /\ ScreenFresh)'
<1>1. /\ ~ Prefetching /\ creates = {} /\ saving = NoCall /\ puts = {} /\ left = {}
      /\ \A t \in Range(listeners) : t # setup.type => Mirrored(byType[t], RowsOf(t))
  BY SetupAlone
<1>2. setup' # NoCall
  BY SkillAssumption
<1>3. PrefetchFresh' /\ ~ Prefetching'
  BY <1>1 DEF PrefetchFresh, Prefetching
<1>4. OneWrite'
  <2>1. ~ At("generalFailed")' /\ ~ At("refused")' /\ ~ At("existing")'
    BY DEF At
  <2>2. creates' = {} /\ saving' = NoCall /\ puts' = {} /\ left' = {}
    BY <1>1
  <2>3. ListedNew'
    BY <2>1 DEF ListedNew
  <2>4. QED
    BY <1>3, <2>1, <2>2, <2>3 DEF OneWrite
<1>5. AnswersFresh'
  <2>1. (At("listing") /\ setup.got # Unread)' => Mirrored(setup'.got, RowsOf(setup.type)')
    <3>1. PICK t : t = setup.type
      OBVIOUS
    <3>2. RowsOf(setup.type)' = RowsOf(t)'
      BY <3>1 DEF RowsOf
    <3>3. QED
      BY <3>1, <3>2 DEF At
  <2>2. saving' = NoCall
    BY <1>1
  <2>3. QED
    BY <2>1, <2>2 DEF AnswersFresh, Mirrored
<1>6. ScreenFresh'
  <2>1. ASSUME NEW t \in Range(listeners), ~ Pending(t)' PROVE Mirrored(byType[t], RowsOf(t)')
    <3>1. t # setup.type
      BY <1>2, <2>1 DEF Pending
    <3>2. QED
      BY <1>1, <3>1
  <2>2. creates' = {}
    BY <1>1
  <2>3. QED
    BY <2>1, <2>2 DEF ScreenFresh, Mirrored
<1>7. QED
  BY <1>3, <1>4, <1>5, <1>6

LEMMA NextClean ==
  ASSUME TypeInv, TypeInv', LiveInv, CleanInv, [Next]_vars
  PROVE  CleanInv'
<1> SUFFICES ASSUME clean' PROVE (OneWrite /\ PrefetchFresh /\ AnswersFresh /\ ScreenFresh)'
  BY DEF CleanInv
<1> DEFINE Goal == (OneWrite /\ PrefetchFresh /\ AnswersFresh /\ ScreenFresh)'
<1>n. PICK n \in Nat : n = Len(rows) /\ RowsType /\ ListsType(n) /\ CallsType(n) /\ ScreenType
  BY DEF TypeInv, RowsType
<1>r. rows' = rows => \A t : RowsOf(t)' = RowsOf(t)
  BY RowsKept
<1>1. CASE ListenersAnswer \/ AnswerRefresh
  <2>1. open
    BY <1>1 DEF ListenersAnswer, AnswerRefresh, At, LiveInv, Closed
  <2>2. PICK ls \in ListenerLists : SetListeners(ls)
    BY <1>1, <2>1 DEF ListenersAnswer, AnswerRefresh
  <2>3. Prefetch(selected', ls, prefetches)
    BY <2>2 DEF SetListeners
  <2>4. setup' = setup \/ (setup' = NoCall /\ ~ SetupWrites)
    BY <1>1 DEF ListenersAnswer, AnswerRefresh, At, SetupWrites
  <2>5. QED
    BY <1>1, <2>3, <2>4, PrefetchClean DEF ListenersAnswer, AnswerRefresh, CleanInv
<1>2. ASSUME NEW t \in Types, PickType(t) PROVE Goal
  BY <1>2, PrefetchClean DEF PickType, CleanInv
<1>3. CASE Return
  <2>1. ~ clean
    BY <1>3 DEF Return, LiveInv, Closed
  <2>2. Prefetch(selected', listeners, {})
    BY <1>3, <2>1 DEF Return
  <2>3. QED
    BY <1>3, <2>2, PrefetchClean DEF Return, CleanInv
<1>4. ASSUME NEW k \in ManualKeys, CreateSkill(k) PROVE Goal
  <2>1. /\ clean /\ OneWrite /\ AnswersFresh /\ ~ Prefetching
        /\ creates = {} /\ posts = {} /\ saving = NoCall /\ ~ SetupWrites
        /\ puts = {} /\ left = {}
        /\ \A t \in Range(listeners) : Mirrored(byType[t], RowsOf(t))
    BY <1>4, WriteBegins DEF CreateSkill
  <2>2. UNCHANGED <<rows, listeners, byType, prefetches, saving, setup, posts, puts, left>>
    BY <1>4 DEF CreateSkill, screen
  <2>3. PICK c : creates' = {c} /\ c.got = NoSkill
    <3>1. PICK c : c = [n |-> clicks, type |-> selected, key |-> k, got |-> NoSkill]
      OBVIOUS
    <3>2. QED
      BY <1>4, <2>1, <3>1 DEF CreateSkill
  <2>4. ~ Prefetching' /\ ~ SetupWrites' /\ \A t : ~ Pending(t)'
    BY <2>1, <2>2, <2>3 DEF Prefetching, SetupWrites, Pending
  <2>5. OneWrite'
    BY <2>1, <2>2, <2>3, <2>4 DEF OneWrite, At, ListedNew, SetupWrites
  <2>6. AnswersFresh'
    BY <2>1, <2>2, <2>4 DEF AnswersFresh, At, SetupWrites
  <2>7. QED
    BY <1>r, <2>1, <2>2, <2>3, <2>4, <2>5, <2>6 DEF PrefetchFresh, ScreenFresh, Prefetching
<1>5. ASSUME NEW k \in ManualKeys, NEW card \in Cards, SaveSkill(card, k) PROVE Goal
  <2>1. /\ clean /\ OneWrite /\ AnswersFresh /\ ~ Prefetching
        /\ creates = {} /\ posts = {} /\ saving = NoCall /\ ~ SetupWrites
        /\ puts = {} /\ left = {}
        /\ \A t \in Range(listeners) : Mirrored(byType[t], RowsOf(t))
    BY <1>5, WriteBegins DEF SaveSkill
  <2>2. UNCHANGED <<rows, listeners, byType, prefetches, creates, setup, posts, puts, left>>
    BY <1>5 DEF SaveSkill, screen
  <2>3. PICK t \in Range(listeners) : \E i \in DOMAIN byType[t] :
          card = [type |-> t, id |-> byType[t][i].id]
    BY DEF Cards
  <2>4. PICK i \in DOMAIN byType[t] : card = [type |-> t, id |-> byType[t][i].id]
    BY <2>3
  <2>5. byType[t][i] \in RowsOf(t)
    BY <2>1, <2>4 DEF Mirrored, Range
  <2>6. rows[card.id].type = t /\ card.type = t
    <3>1. PICK j \in DOMAIN rows : rows[j] = byType[t][i] /\ rows[j].type = t
      BY <2>5 DEF RowsOf, Range
    <3>2. j = card.id
      BY <1>n, <2>4, <3>1 DEF RowsType
    <3>3. QED
      BY <2>4, <3>1, <3>2
  <2>7. saving' = [n |-> clicks, type |-> t, id |-> card.id, key |-> k, list |-> byType[t], got |-> NoSkill]
    BY <1>5, <2>6 DEF SaveSkill
  <2>8. /\ saving'.type = t /\ saving'.id = card.id /\ saving'.list = byType[t]
        /\ saving'.got = NoSkill
    BY <2>7
  <2>9. ~ Prefetching' /\ ~ SetupWrites' /\ \A u : ~ Pending(u)'
    BY <2>1, <2>2, <2>8 DEF Prefetching, SetupWrites, Pending
  <2>10. OneWrite'
    BY <2>1, <2>2, <2>9 DEF OneWrite, At, ListedNew, SetupWrites
  <2>11. AnswersFresh'
    BY <1>r, <2>1, <2>2, <2>6, <2>8, <2>9 DEF AnswersFresh, At, SetupWrites
  <2>12. QED
    BY <1>r, <2>1, <2>2, <2>9, <2>10, <2>11 DEF PrefetchFresh, ScreenFresh, Prefetching
<1>6. CASE ApplyPreset \/ ApplySkillPack
  <2>1. PICK op \in {"preset", "pack"}, stage \in {"general", "existing"} : StartSetup(op, stage)
    BY <1>6 DEF ApplyPreset, ApplySkillPack
  <2>2. /\ clean /\ OneWrite /\ AnswersFresh /\ ~ Prefetching
        /\ creates = {} /\ posts = {} /\ saving = NoCall /\ ~ SetupWrites
        /\ puts = {} /\ left = {}
        /\ \A t \in Range(listeners) : Mirrored(byType[t], RowsOf(t))
    BY <2>1, WriteBegins DEF StartSetup
  <2>3. /\ UNCHANGED <<rows, listeners, byType, prefetches, creates, saving, posts, puts, left>>
        /\ setup'.stage = stage /\ setup'.got = Unread
    BY <2>1 DEF StartSetup, screen
  <2>4. ~ Prefetching'
    BY <2>2, <2>3 DEF Prefetching
  <2>5. OneWrite'
    BY <2>2, <2>3, <2>4 DEF OneWrite, At, ListedNew
  <2>6. AnswersFresh'
    BY <2>2, <2>3 DEF AnswersFresh, At
  <2>7. QED
    BY <1>r, <2>2, <2>3, <2>4, <2>5, <2>6 DEF PrefetchFresh, ScreenFresh, Prefetching
<1>7. CASE UpdateWebhookSkill
  <2>1. /\ clean /\ saving # NoCall /\ saving.got = NoSkill /\ Writing
        /\ UNCHANGED <<listeners, byType, prefetches, creates, setup, posts, puts, left>>
        /\ saving' = [saving EXCEPT !.got = rows'[saving.id]]
    BY <1>7 DEF UpdateWebhookSkill, screen, Writing
  <2>2. saving \in Saves(n) /\ saving.list \in Seq(Row(n))
    BY <1>n, <2>1 DEF CallsType, Saves
  <2>3. /\ ~ Prefetching /\ OneWrite /\ AnswersFresh
        /\ \A t \in Range(listeners) : ~ Pending(t) => Mirrored(byType[t], RowsOf(t))
    BY <2>1, WritesAlone
  <2>4. creates = {} /\ posts = {} /\ ~ SetupWrites /\ puts = {} /\ left = {}
    BY <2>1, <2>3 DEF OneWrite
  <2> DEFINE u == saving.type
             old == rows[saving.id]
             new == rows'[saving.id]
  <2>5. rows[saving.id].type = saving.type /\ Mirrored(saving.list, RowsOf(u))
    BY <2>1, <2>3 DEF AnswersFresh
  <2>6. saving'.type = u /\ saving'.id = saving.id /\ saving'.list = saving.list /\ saving'.got = new
    BY <2>1, <2>2 DEF Saves
  <2>7. /\ \A t : t # u => RowsOf(t)' = RowsOf(t)
        /\ RowsOf(saving.type)' = (RowsOf(u) \ {old}) \cup {new}
        /\ old \in RowsOf(u) /\ new \notin RowsOf(u) \ {old} /\ new \in Row(n) /\ new.type = u
        /\ \A x \in RowsOf(u) : x.id = saving.id <=> x = old
    BY <1>n, <1>7, <2>5, RowsUpdated
  <2>8. IsFiniteSet(RowsOf(u))
    BY <1>n, ListingFacts
  <2>9. WithSaved(saving)' = [i \in DOMAIN saving.list |->
           IF saving.list[i].id = saving.id THEN new ELSE saving.list[i]]
    BY <2>6 DEF WithSaved
  <2>10. Mirrored(WithSaved(saving)', (RowsOf(u) \ {old}) \cup {new})
    <3>1. PICK S, list, o, w, id : /\ S = RowsOf(u) /\ list = saving.list /\ o = old
                                   /\ w = new /\ id = saving.id
      OBVIOUS
    <3>2. /\ list \in Seq(Row(n)) /\ IsFiniteSet(S) /\ Mirrored(list, S) /\ o \in S
          /\ w \notin S \ {o} /\ \A x \in S : x.id = id <=> x = o
      BY <2>2, <2>5, <2>7, <2>8, <3>1
    <3>3. Mirrored(Replaced(list, id, w), (S \ {o}) \cup {w})
      BY <3>2, SavedMirrored
    <3>4. QED
      BY <2>9, <3>1, <3>3 DEF Replaced
  <2>11. new # NoSkill
    <3>1. Row(n) \subseteq Skill
      BY DEF Row, Skill
    <3>2. QED
      BY <2>7, <3>1, SkillAssumption
  <2>12. AnswersFresh'
    <3>1. Mirrored(WithSaved(saving), RowsOf(saving.type))'
      BY <2>7, <2>10 DEF Mirrored
    <3>2. (rows[saving.id].type = saving.type)'
      BY <2>6, <2>7
    <3>3. ~ At("listing")'
      BY <2>1, <2>4 DEF At, SetupWrites
    <3>4. QED
      BY <2>6, <2>11, <3>1, <3>2, <3>3 DEF AnswersFresh
  <2>13. OneWrite'
    BY <2>1, <2>3, <2>4 DEF OneWrite, At, ListedNew, SetupWrites, Prefetching
  <2>14. saving' # NoCall
    <3>1. n \in Nat /\ Row(n) \subseteq Skill
      BY DEF Row, Skill
    <3>2. Seq(Row(n)) \subseteq Seq(Skill)
      BY <3>1, SeqMonotonic
    <3>3. saving \in Save
      BY <2>2, <3>1, <3>2 DEF Saves, Save, Keys
    <3>4. saving' \in Save
      BY <2>1, <2>7, <3>1, <3>3 DEF Save
    <3>5. QED
      BY <3>4, SkillAssumption
  <2>15. ScreenFresh'
    <3>1. ASSUME NEW t \in Range(listeners), ~ Pending(t)' PROVE Mirrored(byType[t], RowsOf(t)')
      <4>1. t # u
        BY <2>1, <2>6, <2>11, <3>1, <2>14 DEF Pending
      <4>2. ~ Pending(t)
        BY <2>1, <2>4 DEF Pending, SetupWrites
      <4>3. QED
        BY <2>3, <2>7, <4>1, <4>2
    <3>2. QED
      BY <2>1, <2>4, <3>1 DEF ScreenFresh
  <2>16. PrefetchFresh'
    BY <2>1, <2>3 DEF PrefetchFresh, Prefetching
  <2>17. QED
    BY <2>12, <2>13, <2>15, <2>16
<1>8. CASE AnswerSave
  <2>1. /\ clean /\ saving # NoCall /\ saving.got # NoSkill /\ Writing /\ saving' = NoCall
        /\ UNCHANGED <<rows, listeners, prefetches, creates, setup, posts, puts, left>>
        /\ byType' = [byType EXCEPT ![saving.type] = WithSaved(saving)]
    BY <1>8 DEF AnswerSave, Writing
  <2>2. /\ ~ Prefetching /\ OneWrite /\ AnswersFresh
        /\ \A t \in Range(listeners) : ~ Pending(t) => Mirrored(byType[t], RowsOf(t))
    BY <2>1, WritesAlone
  <2>3. creates = {} /\ posts = {} /\ ~ SetupWrites /\ puts = {} /\ left = {}
    BY <2>1, <2>2 DEF OneWrite
  <2>4. Mirrored(WithSaved(saving), RowsOf(saving.type))
    BY <2>1, <2>2 DEF AnswersFresh
  <2>5. \A t : t # saving.type => ~ Pending(t)
    BY <2>3 DEF Pending, SetupWrites
  <2>6. Range(listeners) \subseteq Types /\ DOMAIN byType = Types
    BY <1>n DEF ScreenType, ListsType, Range
  <2>7. \A t \in Range(listeners) : Mirrored(byType'[t], RowsOf(t))
    BY <2>1, <2>2, <2>4, <2>5, <2>6
  <2>8. ~ Writing'
    BY <2>1, <2>3 DEF Writing, SetupWrites
  <2>9. QED
    BY <2>1, <2>2, <2>7, <2>8, WritesDone
<1>9. CASE SaveFails /\ saving.got = NoSkill /\ clean
  <2>1. /\ saving # NoCall /\ Writing /\ saving' = NoCall
        /\ UNCHANGED <<rows, listeners, byType, prefetches, creates, setup, posts, puts, left>>
    BY <1>9 DEF SaveFails, screen, Writing
  <2>2. /\ ~ Prefetching /\ OneWrite
        /\ \A t \in Range(listeners) : ~ Pending(t) => Mirrored(byType[t], RowsOf(t))
    BY <1>9, <2>1, WritesAlone
  <2>3. creates = {} /\ posts = {} /\ ~ SetupWrites /\ puts = {} /\ left = {}
    BY <2>1, <2>2 DEF OneWrite
  <2>4. (\A t : ~ Pending(t)) /\ ~ Writing'
    BY <1>9, <2>1, <2>3 DEF Pending, SetupWrites, Writing
  <2>5. QED
    BY <2>1, <2>2, <2>4, WritesDone
<1>10. ASSUME NEW c \in creates, CreateWebhookSkill(c) PROVE Goal
  <2>1. PICK new, d : new = NewRow(c.type, c.key) /\ d = [c EXCEPT !.got = new]
    OBVIOUS
  <2>2. /\ clean /\ Writing /\ c.got = NoSkill
        /\ UNCHANGED <<listeners, byType, prefetches, saving, setup, posts, puts, left>>
        /\ rows' = Append(rows, NewRow(c.type, c.key))
        /\ creates' = (creates \ {c}) \cup {d}
    BY <1>10, <2>1 DEF CreateWebhookSkill, screen, Writing
  <2>3. /\ ~ Prefetching /\ OneWrite
        /\ \A t \in Range(listeners) : ~ Pending(t) => Mirrored(byType[t], RowsOf(t))
    BY <2>2, WritesAlone
  <2>4. saving = NoCall /\ ~ SetupWrites /\ posts = {} /\ creates = {c} /\ puts = {} /\ left = {}
    BY <2>3 DEF OneWrite
  <2>5. c \in Creates(n) /\ c.type \in Types /\ c.key \in Keys
    BY <1>n DEF CallsType, Creates, Keys
  <2>6. creates' = {d} /\ d.type = c.type /\ d.got = new
    BY <2>1, <2>2, <2>4, <2>5 DEF Creates
  <2>7. new # NoSkill
    <3>1. new \in Skill
      BY <1>n, <2>1, <2>5 DEF NewRow, Skill
    <3>2. QED
      BY <3>1, SkillAssumption
  <2>8. /\ \A t : t # c.type => RowsOf(t)' = RowsOf(t)
        /\ RowsOf(c.type)' = RowsOf(c.type) \cup {new} /\ new \notin RowsOf(c.type)
    <3>1. PICK u \in Types : u = c.type
      BY <2>5
    <3>2. rows' = Append(rows, NewRow(u, c.key))
      BY <2>2, <3>1
    <3>3. PICK k \in Keys : k = c.key
      BY <2>5
    <3>4. /\ \A t : t # u => RowsOf(t)' = RowsOf(t)
          /\ RowsOf(u)' = RowsOf(u) \cup {NewRow(u, k)} /\ NewRow(u, k) \notin RowsOf(u)
      BY <3>2, <3>3, RowsAppended
    <3>5. QED
      BY <2>1, <3>1, <3>3, <3>4
  <2>9. IsFiniteSet(RowsOf(c.type))
    BY <1>n, ListingFacts
  <2>10. \A t : ~ Pending(t)
    BY <2>2, <2>4 DEF Pending, SetupWrites
  <2>11. ScreenFresh'
    <3>1. ASSUME NEW t \in Range(listeners), ~ Pending(t)' PROVE Mirrored(byType[t], RowsOf(t)')
      <4>1. t # c.type
        BY <2>6, <2>7, <3>1 DEF Pending
      <4>2. QED
        BY <2>3, <2>8, <2>10, <4>1
    <3>2. ASSUME NEW t \in Range(listeners), d.type = t PROVE Short(byType[t], RowsOf(t)', d.got)
      <4>1. t = c.type
        BY <2>6, <3>2
      <4>2. Mirrored(byType[t], RowsOf(t)) /\ IsFiniteSet(RowsOf(t)) /\ new \notin RowsOf(t)
        BY <2>3, <2>8, <2>9, <2>10, <4>1
      <4>3. Short(byType[t], RowsOf(t) \cup {new}, new)
        BY <4>2, AppendShort
      <4>4. QED
        BY <2>6, <2>8, <4>1, <4>3
    <3>3. QED
      BY <2>2, <2>6, <3>1, <3>2 DEF ScreenFresh, Mirrored, Short
  <2>12. OneWrite' /\ AnswersFresh'
    BY <2>2, <2>3, <2>4, <2>6
       DEF OneWrite, AnswersFresh, At, ListedNew, SetupWrites, Prefetching
  <2>13. PrefetchFresh'
    BY <2>2, <2>3 DEF PrefetchFresh, Prefetching
  <2>14. QED
    BY <2>11, <2>12, <2>13
<1>11. ASSUME NEW c \in creates, AnswerCreate(c) PROVE Goal
  <2>1. /\ clean /\ Writing /\ c.got # NoSkill
        /\ UNCHANGED <<rows, listeners, prefetches, saving, setup, posts, puts, left>>
        /\ creates' = creates \ {c}
        /\ byType' = [byType EXCEPT ![c.type] = <<c.got>> \o @]
    BY <1>11 DEF AnswerCreate, Writing
  <2>2. /\ ~ Prefetching /\ OneWrite
        /\ \A t \in Range(listeners) :
             /\ ~ Pending(t) => Mirrored(byType[t], RowsOf(t))
             /\ c.type = t => Short(byType[t], RowsOf(t), c.got)
    BY <2>1, WritesAlone
  <2>3. saving = NoCall /\ ~ SetupWrites /\ posts = {} /\ creates = {c} /\ puts = {} /\ left = {}
    BY <2>2 DEF OneWrite
  <2>4. c.type \in Types /\ c.got \in Row(n) /\ byType[c.type] \in Seq(Row(n))
    BY <1>n, <2>1 DEF CallsType, Creates, ListsType
  <2>5. Range(listeners) \subseteq Types /\ DOMAIN byType = Types
    BY <1>n DEF ScreenType, ListsType, Range
  <2>6. ASSUME NEW t \in Range(listeners) PROVE Mirrored(byType'[t], RowsOf(t))
    <3>1. CASE t = c.type
      <4>1. Short(byType[c.type], RowsOf(c.type), c.got)
        BY <2>2, <3>1
      <4>2. Mirrored(<<c.got>> \o byType[c.type], RowsOf(c.type))
        BY <2>4, <4>1, ConsMirrored
      <4>3. QED
        BY <2>1, <2>4, <2>5, <3>1, <4>2
    <3>2. CASE t # c.type
      <4>1. ~ Pending(t)
        BY <2>3, <3>2 DEF Pending, SetupWrites
      <4>2. QED
        BY <2>1, <2>2, <2>5, <3>2, <4>1
    <3>3. QED
      BY <3>1, <3>2
  <2>7. ~ Writing'
    BY <2>1, <2>3 DEF Writing, SetupWrites
  <2>8. QED
    BY <2>1, <2>2, <2>6, <2>7, WritesDone
<1>12. ASSUME NEW c \in creates, CreateFails(c), c.got = NoSkill, clean PROVE Goal
  <2>1. /\ Writing /\ creates' = creates \ {c}
        /\ UNCHANGED <<rows, listeners, byType, prefetches, saving, setup, posts, puts, left>>
    BY <1>12 DEF CreateFails, screen, Writing
  <2>2. /\ ~ Prefetching /\ OneWrite
        /\ \A t \in Range(listeners) : ~ Pending(t) => Mirrored(byType[t], RowsOf(t))
    BY <1>12, <2>1, WritesAlone
  <2>3. saving = NoCall /\ ~ SetupWrites /\ posts = {} /\ creates = {c} /\ puts = {} /\ left = {}
    BY <2>2 DEF OneWrite
  <2>4. (\A t : ~ Pending(t)) /\ ~ Writing'
    BY <1>12, <2>1, <2>3 DEF Pending, SetupWrites, Writing
  <2>5. QED
    BY <2>1, <2>2, <2>4, WritesDone
<1>13. CASE InsertPresetSkill
  <2>0. PICK stage \in DOMAIN Inserted : At(stage) /\ Goto(Inserted[stage])
    BY <1>13 DEF InsertPresetSkill
  <2>a. setup # NoCall /\ setup.stage = stage /\ stage \in {"general", "specific", "generalFailed"}
    BY <2>0 DEF At, Inserted
  <2>1. /\ clean /\ SetupWrites
        /\ UNCHANGED <<listeners, byType, prefetches, creates, saving, posts, puts, left>>
        /\ rows' = Append(rows, NewRow(setup.type, PresetKey))
    BY <1>13, <2>a DEF InsertPresetSkill, SetupWrites, screen
  <2>2. setup \in Setups(n) /\ setup \in Setup /\ posts = {} /\ setup.stage # "generalFailed"
    BY <1>n, <2>1, <2>a, SetupAlone
  <2>b. PICK next : next = Inserted[stage] /\ next \in {"specific", "listing"}
    BY <2>2, <2>a DEF Inserted
  <2>3. /\ setup' \in Setup /\ setup'.type = setup.type /\ setup'.got = Unread
        /\ setup'.stage \in {"specific", "listing"}
    BY <2>0, <2>2, <2>b DEF Goto, Setup
  <2>4. PICK u \in Types : u = setup.type
    BY <2>2 DEF Setup
  <2>5. PresetKey \in Keys /\ rows' = Append(rows, NewRow(u, PresetKey))
    BY <2>1, <2>4 DEF Keys
  <2>6. \A t : t # setup.type => RowsOf(t)' = RowsOf(t)
    BY <2>4, <2>5, RowsAppended
  <2>7. QED
    BY <2>1, <2>2, <2>3, <2>6, SetupGoesOn
<1>14. CASE ServeListing
  <2>1. /\ clean /\ SetupWrites /\ setup.stage \in {"existing", "listing"}
        /\ UNCHANGED <<rows, listeners, byType, prefetches, creates, saving, posts, puts, left>>
        /\ setup' = [setup EXCEPT !.got = Listing(setup.type)]
    BY <1>14 DEF ServeListing, At, SetupWrites, screen
  <2>2. /\ ~ Prefetching /\ OneWrite /\ creates = {} /\ saving = NoCall /\ posts = {} /\ puts = {} /\ left = {}
        /\ setup \in Setups(n) /\ setup # NoCall
        /\ \A t \in Range(listeners) :
             t # setup.type \/ setup.stage = "existing" => Mirrored(byType[t], RowsOf(t))
    BY <1>n, <2>1, SetupAlone
  <2>3. Mirrored(Listing(setup.type), RowsOf(setup.type)) /\ Listing(setup.type) \in Seq(Row(n))
    BY <1>n, ListingFacts DEF Mirrored
  <2>4. setup' \in Setups(n) /\ setup'.type = setup.type /\ setup'.stage = setup.stage
        /\ setup'.got = Listing(setup.type)
    BY <2>1, <2>2, <2>3 DEF Setups
  <2>5. setup' \in Setup /\ setup' # NoCall
    BY <1>n, <2>4, SetupsAreSetup, SkillAssumption
  <2>6. CASE setup.stage = "listing"
    BY <1>r, <2>1, <2>2, <2>3, <2>4, <2>5, <2>6, SetupGoesOn
  <2>7. CASE setup.stage = "existing"
    <3>1. ListedNew'
      <4>1. ASSUME NEW k \in Missing(Listing(setup.type)) PROVE ~ HasRow(setup.type, k)
        <5>1. \A s \in Range(Listing(setup.type)) : s.key # k
          BY <4>1 DEF Missing, Range
        <5>2. QED
          BY <2>3, <5>1 DEF Mirrored, RowsOf, HasRow, Range
      <4>2. QED
        BY <2>1, <2>4, <4>1 DEF ListedNew, Missing, HasRow
    <3>2. ~ Prefetching'
      BY <2>1, <2>2 DEF Prefetching
    <3>3. OneWrite'
      <4>1. ~ At("generalFailed")' /\ ~ At("refused")'
        BY <2>4, <2>7 DEF At
      <4>2. QED
        BY <2>1, <2>2, <3>1, <3>2, <4>1 DEF OneWrite
    <3>4. AnswersFresh'
      BY <2>1, <2>2, <2>4, <2>7 DEF AnswersFresh, At
    <3>5. ScreenFresh'
      BY <1>r, <2>1, <2>2, <2>7 DEF ScreenFresh, Mirrored
    <3>6. PrefetchFresh'
      BY <2>1, <2>2 DEF PrefetchFresh, Prefetching
    <3>7. QED
      BY <3>3, <3>4, <3>5, <3>6
  <2>8. QED
    BY <2>1, <2>6, <2>7
<1>15. CASE PackStarts
  <2>1. /\ clean /\ SetupWrites /\ At("existing") /\ setup.stage = "existing" /\ setup.got # Unread
        /\ UNCHANGED <<rows, listeners, byType, prefetches, creates, saving, puts, left>>
    BY <1>15 DEF PackStarts, At, SetupWrites, screen
  <2>2. /\ ~ Prefetching /\ OneWrite /\ creates = {} /\ saving = NoCall /\ posts = {} /\ puts = {} /\ left = {}
        /\ setup \in Setups(n) /\ setup \in Setup
        /\ \A t \in Range(listeners) : Mirrored(byType[t], RowsOf(t))
    BY <1>n, <2>1, SetupAlone
  <2>3. CASE Missing(setup.got) = {}
    <3>1. ~ Writing'
      <4>1. PackPosts(setup) = {}
        BY <2>3 DEF PackPosts
      <4>2. setup' = NoCall /\ posts' = {} /\ UNCHANGED <<creates, saving, puts, left>>
        BY <1>15, <2>2, <2>3, <4>1 DEF PackStarts
      <4>3. QED
        BY <2>2, <4>2 DEF Writing
    <3>2. QED
      BY <2>1, <2>2, <3>1, WritesDone
  <2>4. CASE Missing(setup.got) # {}
    <3>1. /\ setup' \in Setup /\ setup'.type = setup.type /\ setup'.n = setup.n
          /\ setup'.stage = "posting" /\ setup'.got = Unread
      BY <1>15, <2>2, <2>4 DEF PackStarts, Goto, Setup
    <3>2. setup' # NoCall
      BY <3>1, SkillAssumption
    <3>3. \A p \in posts' : \E k \in Missing(setup.got) :
            p = [n |-> setup.n, type |-> setup.type, key |-> k, done |-> FALSE]
      BY <1>15, <2>2, <2>4 DEF PackStarts, PackPosts
    <3>4. \A k \in Missing(setup.got) : ~ HasRow(setup.type, k)
      BY <2>1, <2>2 DEF OneWrite, ListedNew
    <3>5. \A p \in posts' : At("posting")' /\ Awaited(p)' /\ p.type = setup.type
      BY <3>1, <3>2, <3>3 DEF At, Awaited
    <3>6. ASSUME NEW p \in posts' PROVE New(p)'
      <4>1. ~ HasRow(p.type, p.key)
        BY <3>3, <3>4
      <4>2. ASSUME NEW q \in posts', q.key = p.key PROVE q = p
        <5>1. PICK k : p = [n |-> setup.n, type |-> setup.type, key |-> k, done |-> FALSE]
          BY <3>3
        <5>2. PICK l : q = [n |-> setup.n, type |-> setup.type, key |-> l, done |-> FALSE]
          BY <3>3
        <5>3. QED
          BY <4>2, <5>1, <5>2
      <4>3. QED
        BY <2>1, <4>1, <4>2 DEF New, HasRow
    <3>7. QED
      BY <1>r, <2>1, <3>1, <3>5, <3>6, SetupGoesOn
  <2>5. QED
    BY <2>3, <2>4
<1>16. CASE PackPosted
  <2>1. /\ clean /\ SetupWrites /\ setup.stage = "posting"
        /\ UNCHANGED <<rows, listeners, byType, prefetches, creates, saving, puts, left>>
        /\ posts' = {p \in posts : ~ Awaited(p)}
    BY <1>16 DEF PackPosted, At, SetupWrites, screen
  <2>2. OneWrite /\ setup \in Setup
    BY <2>1, SetupAlone
  <2>3. posts' = {}
    BY <2>1, <2>2 DEF OneWrite
  <2>4. /\ setup' \in Setup /\ setup'.type = setup.type /\ setup'.got = Unread
        /\ setup'.stage = "listing"
    BY <1>16, <2>2 DEF PackPosted, Goto, Setup
  <2>5. QED
    BY <1>r, <2>1, <2>3, <2>4, SetupGoesOn
<1>17. CASE AnswerListing
  <2>1. /\ clean /\ SetupWrites /\ setup.stage = "listing" /\ setup.got # Unread /\ At("listing")
        /\ UNCHANGED <<rows, listeners, prefetches, creates, saving, posts, puts, left>>
        /\ byType' = [byType EXCEPT ![setup.type] = setup.got]
    BY <1>17 DEF AnswerListing, At, SetupWrites
  <2>2. /\ ~ Prefetching /\ AnswersFresh /\ creates = {} /\ saving = NoCall /\ posts = {} /\ puts = {} /\ left = {}
        /\ setup \in Setup
        /\ \A t \in Range(listeners) : t # setup.type => Mirrored(byType[t], RowsOf(t))
    BY <2>1, SetupAlone
  <2>3. Mirrored(setup.got, RowsOf(setup.type))
    BY <2>1, <2>2 DEF AnswersFresh
  <2>4. Range(listeners) \subseteq Types /\ DOMAIN byType = Types
    BY <1>n DEF ScreenType, ListsType, Range
  <2>5. \A t \in Range(listeners) : Mirrored(byType'[t], RowsOf(t))
    BY <2>1, <2>2, <2>3, <2>4
  <2>6. setup' = NoCall \/ setup'.stage = "refreshing"
    BY <1>17, <2>2 DEF AnswerListing, Goto, Setup
  <2>7. ~ Writing'
    BY <2>1, <2>2, <2>6 DEF Writing
  <2>8. QED
    BY <2>1, <2>2, <2>5, <2>7, WritesDone
<1>18. ASSUME At("refused"), clean PROVE FALSE
  <2>1. SetupWrites /\ setup.stage = "refused"
    BY <1>18 DEF SetupWrites, At
  <2>2. QED
    BY <1>18, <2>1, SetupAlone
<1>19. ASSUME NEW p \in posts, ServePost(p) \/ (~ p.done /\ ~ Takes(p.type, p.key, 0) /\ clean)
       PROVE  Goal
  <2>0. clean /\ Writing /\ ~ p.done
    BY <1>19 DEF ServePost, Writing
  <2>1. OneWrite /\ At("posting") /\ Awaited(p) /\ New(p) /\ p.type = setup.type /\ SetupWrites
    BY <2>0, WritesAlone DEF OneWrite, At, SetupWrites
  <2>2. ServePost(p)
    BY <1>19, <2>1 DEF Takes, New, HasRow
  <2>3. /\ UNCHANGED <<listeners, byType, prefetches, creates, saving, setup, puts, left>>
        /\ rows' = Append(rows, NewRow(p.type, p.key))
        /\ posts' = (posts \ {p}) \cup {[p EXCEPT !.done = TRUE]}
    BY <2>1, <2>2 DEF ServePost, screen
  <2>4. /\ p \in Posts /\ p.type \in Types /\ p.key \in Keys
        /\ p.type = setup.type /\ setup.stage = "posting" /\ setup \in Setup
    BY <2>0, <2>1, SetupAlone, PackTypes DEF Keys, Posts, At
  <2>5. PICK u \in Types, k \in Keys : u = p.type /\ k = p.key
    BY <2>4
  <2>6. rows' = Append(rows, NewRow(u, k))
    BY <2>3, <2>5
  <2>7. \A t : t # setup.type => RowsOf(t)' = RowsOf(t)
    BY <2>4, <2>5, <2>6, RowsAppended
  <2>8. \A t, l : HasRow(t, l)' <=> HasRow(t, l) \/ (t = u /\ l = k)
    BY <2>6, AppendFacts
  <2>9. \A q \in posts' : \/ q \in posts /\ q # p
                          \/ q.done /\ q.n = p.n /\ q.type = p.type
    BY <2>3, <2>4 DEF Posts
  <2>10. \A q \in posts' : At("posting")' /\ Awaited(q)' /\ q.type = setup.type
    BY <2>1, <2>3, <2>9 DEF OneWrite, At, Awaited
  <2>11. ASSUME NEW q \in posts', ~ q.done PROVE New(q)'
    <3>1. q \in posts /\ q # p /\ New(q)
      BY <2>1, <2>9, <2>11 DEF OneWrite
    <3>2. ~ (q.type = p.type /\ q.key = p.key)
      BY <2>0, <3>1 DEF New
    <3>3. QED
      BY <2>5, <2>8, <2>9, <3>1, <3>2 DEF New
  <2>12. QED
    BY <2>0, <2>1, <2>3, <2>4, <2>7, <2>10, <2>11, SetupGoesOn
<1>20. ASSUME NEW p \in prefetches, AnswerPrefetch(p) PROVE Goal
  <2>1. UNCHANGED <<rows, listeners, creates, saving, setup, posts, puts, left>>
    BY <1>20 DEF AnswerPrefetch
  <2>2. CASE Leaves(p)
    <3>1. Prefetch(selected', listeners, prefetches \ {p})
      BY <1>20, <2>2 DEF AnswerPrefetch
    <3>2. QED
      BY <2>1, <3>1, PrefetchClean DEF CleanInv
  <2>3. CASE ~ Leaves(p)
    <3>1. /\ clean /\ prefetches' = prefetches \ {p} /\ Fetched(p)
          /\ byType' = [t \in Types |-> IF t \in Range(p.opts) THEN p.got[t] ELSE <<>>]
      BY <1>20, <2>3 DEF AnswerPrefetch
    <3>2. p.opts = listeners
      BY <2>3 DEF LiveInv
    <3>3. ~ Writing /\ PrefetchFresh
      BY <2>3, <3>1 DEF CleanInv, OneWrite, Prefetching
    <3>4. ~ Writing'
      BY <2>1, <3>3 DEF Writing
    <3>5. OneWrite' /\ AnswersFresh' /\ creates' = {}
      BY <3>4, IdleFresh DEF Writing
    <3>6. PrefetchFresh'
      BY <1>r, <2>1, <3>1, <3>3 DEF PrefetchFresh, Mirrored
    <3>7. Range(listeners) \subseteq Types
      BY <1>n DEF ScreenType, Range
    <3>8. \A t \in Range(listeners) : Mirrored(byType'[t], RowsOf(t))
      BY <2>3, <3>1, <3>2, <3>3, <3>7 DEF Fetched, PrefetchFresh
    <3>9. ScreenFresh'
      BY <1>r, <2>1, <3>5, <3>8 DEF ScreenFresh, Mirrored
    <3>10. QED
      BY <3>5, <3>6, <3>9
  <2>4. QED
    BY <2>2, <2>3
<1>21. ASSUME NEW p \in prefetches, NEW t \in Types, ServePrefetch(p, t) PROVE Goal
  <2>1. PICK q : q = [p EXCEPT !.got[t] = Listing(t)]
    OBVIOUS
  <2>2. /\ clean /\ UNCHANGED <<rows, listeners, byType, creates, saving, setup, posts, puts, left>>
        /\ prefetches' = (prefetches \ {p}) \cup {q}
    BY <1>21, <2>1 DEF ServePrefetch, screen
  <2>3. /\ q.got[t] = Listing(t)
        /\ \A u \in Types : u # t => q.got[u] = p.got[u]
    BY <1>n, <2>1, <2>2 DEF CallsType, Prefetches
  <2>4. Mirrored(Listing(t), RowsOf(t))
    BY <1>n, ListingFacts DEF Mirrored
  <2>5. ~ Writing /\ PrefetchFresh
    BY <2>2 DEF CleanInv, OneWrite, Prefetching
  <2>6. ~ Writing'
    BY <2>2, <2>5 DEF Writing
  <2>7. OneWrite' /\ AnswersFresh'
    BY <2>6, IdleFresh
  <2>8. \A u \in Types : q.got[u] # Unread => Mirrored(q.got[u], RowsOf(u))
    BY <2>2, <2>3, <2>4, <2>5 DEF PrefetchFresh
  <2>9. PrefetchFresh'
    BY <1>r, <2>2, <2>5, <2>8 DEF PrefetchFresh, Mirrored
  <2>10. ScreenFresh'
    BY <2>2, <2>3 DEF ScreenFresh, Prefetching
  <2>11. QED
    BY <2>7, <2>9, <2>10
<1>s. ASSUME clean, puts # {} \/ left # {} PROVE FALSE
  BY <1>s DEF CleanInv, OneWrite
<1>22. CASE UNCHANGED vars
  <2>1. clean /\ OneWrite /\ PrefetchFresh /\ AnswersFresh /\ ScreenFresh
    BY <1>22 DEF CleanInv, vars
  <2>2. OneWrite' /\ PrefetchFresh'
    BY <1>22, <2>1
       DEF vars, screen, calls, OneWrite, SetupWrites, At, Awaited, New, HasRow, ListedNew, Missing,
           Prefetching, Writing, PrefetchFresh, Mirrored, RowsOf
  <2>3. AnswersFresh' /\ ScreenFresh'
    BY <1>22, <2>1
       DEF vars, screen, calls, AnswersFresh, ScreenFresh, WithSaved, At, Mirrored, RowsOf, Prefetching,
           Pending, Short
  <2>4. QED
    BY <2>2, <2>3
<1>23. CASE Next
  BY <1>1, <1>2, <1>3, <1>4, <1>5, <1>6, <1>7, <1>8, <1>9, <1>10, <1>11, <1>12, <1>13, <1>14,
     <1>15, <1>16, <1>17, <1>18, <1>19, <1>20, <1>21, <1>23, <1>s, CleanSteps
<1>24. QED
  BY <1>22, <1>23

\* Once the calls have settled cleanly, the cards are the server's skills.
THEOREM SettledScreenHolds == Spec => []SettledScreen
<1>1. Init => LiveInv
  BY DEF Init, LiveInv
<1>3. Init => CleanInv
  BY DEF Init, CleanInv, OneWrite, PrefetchFresh, AnswersFresh, ScreenFresh, Prefetching, At,
         ListedNew, Writing, SetupWrites, Range
<1>4. TypeInv /\ CleanInv => SettledScreen
  <2> SUFFICES ASSUME TypeInv, CleanInv, clean, ~ Writing, ~ Prefetching,
                      NEW t \in Range(listeners)
               PROVE  Mirrors(byType[t], t)
    BY DEF SettledScreen
  <2>1. ~ Pending(t)
    BY DEF Pending, Writing
  <2>2. Mirrored(byType[t], RowsOf(t))
    BY <2>1 DEF CleanInv, ScreenFresh
  <2>3. QED
    BY <2>2, MirrorsRows DEF TypeInv
<1>5. QED
  BY <1>1, <1>3, <1>4, NextLive, NextClean, TypeInvHolds, PTL DEF Spec

=============================================================================
