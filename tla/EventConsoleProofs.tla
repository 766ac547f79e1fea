-------------------------- MODULE EventConsoleProofs --------------------------
(***************************************************************************)
(* Proofs about EventConsole, for any events, listeners and tags and any   *)
(* number of clicks and failed calls.                                      *)
(***************************************************************************)
EXTENDS EventConsole, TLAPS

\* A fetch of the Storyboard, a fetch of messages, a bulk re-run.
FetchType(f) ==
  /\ f \in [n : Nat, tag : Tags \cup {NoTag}, owner : Events \cup {NoEvent}, got : {f.got}]
  /\ f.got = Unread \/ IsList(f.got)
LoadType(m) ==
  /\ m \in [n : Nat, type : Types, got : {m.got}]
  /\ m.got = Unread \/ IsList(m.got)
BulkType(b) ==
  /\ b \in [n : Nat, type : Types, events : SUBSET Events, ran : [Events -> Nat],
            stage : {"running", "listing"}, got : {b.got}]
  /\ b.got = Unread \/ IsList(b.got)
Reruns == [n : Nat, event : Events, tag : Tags \cup {NoTag}, got : Copy \cup {Unread}]
Posts == [n : Nat, event : Events, done : BOOLEAN]
PastType ==
  /\ lastFetch \in [Lists -> Nat] /\ shownBy \in [Lists -> Nat]
  /\ alone \in [Lists -> BOOLEAN] /\ moved \in [Lists -> BOOLEAN]
BoardType ==
  /\ activeTag \in Tags \cup {NoTag} /\ IsList(events)
  /\ fetching \in BOOLEAN /\ marks \subseteq Events
  /\ \A f \in fetches : FetchType(f)
  /\ reruns \subseteq Reruns
PanelType ==
  /\ IsList(messages) /\ loading \in BOOLEAN
  /\ chosen \subseteq Events /\ announced \subseteq Events
  /\ selected \in Types
  /\ \A m \in loads : LoadType(m)
  /\ bulk # NoCall => BulkType(bulk)

\* TypeOK by its parts.
Types_OK ==
  /\ row \in [Events -> Copy] /\ tab \in Lists
  /\ BoardType /\ PanelType /\ PastType
  /\ posts \subseteq Posts
  /\ clicks \in Nat /\ faults \in Nat

LEMMA TypeParts == TypeOK <=> Types_OK
BY DEF TypeOK, Types_OK, BoardType, PanelType, PastType, FetchType, LoadType, BulkType,
       Reruns, Posts

---------------------------------------------------------------------------
(* Lemmas on lists.                                                        *)

\* What the server answers is a list of copies.
LEMMA CopiesFacts ==
  ASSUME row \in [Events -> Copy], NEW S \in SUBSET Events
  PROVE  IsList(Copies(S)) /\ DOMAIN Copies(S) = S /\ \A e \in S : Copies(S)[e] = row[e]
BY EventAssumption DEF Copies, IsList

\* The pages of rows r under a tag, a list that is the copy of one, and what
\* the panel keeps of one.
PagesOf(r, tag) ==
  {S \in SUBSET {e \in Events : tag = NoTag \/ r[e].tag = tag} :
     /\ Cardinality(S) <= Limit
     /\ S # {e \in Events : tag = NoTag \/ r[e].tag = tag} => Cardinality(S) = Limit
     /\ \A e \in S, f \in {e \in Events : tag = NoTag \/ r[e].tag = tag} \ S :
          Created[f] <= Created[e]}
IsPage(r, tag, l) == \E S \in PagesOf(r, tag) : l = [e \in S |-> r[e]]
ListsPage(r, t, l) == \E S \in PagesOf(r, NoTag) : l = OfType([e \in S |-> r[e]], t)

LEMMA PageFacts ==
  ASSUME NEW t
  PROVE  Pages(t) = PagesOf(row, t) /\ \A S \in Pages(t) : S \subseteq Events
BY DEF Pages, Matching, PagesOf

\* What is filtered of a list is one.
LEMMA RestrictFacts ==
  ASSUME NEW l, IsList(l), NEW S
  PROVE  IsList(Restrict(l, DOMAIN l \cap S))
BY EventAssumption DEF IsList, Restrict

LEMMA OfTypeFacts ==
  ASSUME NEW l, IsList(l), NEW t
  PROVE  IsList(OfType(l, t))
<1>1. {e \in DOMAIN l : TypeOf[e] = t} = DOMAIN l \cap {e \in DOMAIN l : TypeOf[e] = t}
  OBVIOUS
<1>2. QED BY <1>1, RestrictFacts DEF OfType

LEMMA NoCopiesFacts == ASSUME row \in [Events -> Copy] PROVE IsList(NoCopies)
BY EventAssumption DEF NoCopies, IsList, Restrict

---------------------------------------------------------------------------
(* Type correctness.                                                       *)

LEMMA InitTypeOK == Init => TypeOK
<1> SUFFICES ASSUME Init PROVE Types_OK
  BY TypeParts
<1>1. row \in [Events -> Copy]
  BY EventAssumption DEF Init, Copy
<1>2. BoardType
  BY <1>1, NoCopiesFacts DEF Init, BoardType, FetchType
<1>3. PanelType
  BY <1>1, NoCopiesFacts, EventAssumption DEF Init, PanelType, LoadType
<1>4. PastType
  BY DEF Init, PastType
<1>5. QED
  BY <1>1, <1>2, <1>3, <1>4 DEF Init, Types_OK

\* What the histories hold after a fetch and after a fault.
LEMMA RefetchFacts ==
  ASSUME Types_OK, NEW l \in Lists, NEW n \in Nat, Refetch(l, n), shownBy' = shownBy
  PROVE  PastType'
<1>1. lastFetch' \in [Lists -> Nat] /\ shownBy' \in [Lists -> Nat]
  BY DEF Refetch, Types_OK, PastType
<1>2. PICK b \in BOOLEAN : alone' = [alone EXCEPT ![l] = b]
  <2>1. (~ Rerunning) \in BOOLEAN
    OBVIOUS
  <2>2. QED
    BY <2>1 DEF Refetch
<1>3. alone' \in [Lists -> BOOLEAN]
  BY <1>2 DEF Types_OK, PastType
<1>4. moved' \in [Lists -> BOOLEAN]
  BY DEF Refetch, Types_OK, PastType
<1>5. QED
  BY <1>1, <1>3, <1>4 DEF PastType

LEMMA FaultFacts ==
  ASSUME Types_OK, Fault, lastFetch' = lastFetch, moved' = moved, shownBy' = shownBy
  PROVE  PastType' /\ faults' \in Nat
BY DEF Types_OK, PastType, Fault

LEMMA SendFetchType ==
  ASSUME Types_OK, NEW n \in Nat, NEW t \in Tags \cup {NoTag},
         NEW owner \in Events \cup {NoEvent}, SendFetch(n, t, owner)
  PROVE  fetching' \in BOOLEAN /\ \A f \in fetches' : FetchType(f)
BY DEF SendFetch, Types_OK, BoardType, FetchType

LEMMA SendLoadType ==
  ASSUME Types_OK, NEW n \in Nat, NEW t \in Types, SendLoad(n, t)
  PROVE  loading' \in BOOLEAN /\ \A m \in loads' : LoadType(m)
BY DEF SendLoad, Types_OK, PanelType, LoadType

LEMMA RerunType ==
  ASSUME Types_OK, NEW e \in Events, Rerun(e)
  PROVE  row' \in [Events -> Copy] /\ moved' \in [Lists -> BOOLEAN]
<1>1. moved' \in [Lists -> BOOLEAN]
  BY DEF Rerun
<1>2. PICK tag \in Tags \cup {NoTag} : row' = [row EXCEPT ![e] = [tag |-> tag, run |-> row[e].run + 1]]
  BY DEF Rerun, Types_OK
<1>3. row[e].run + 1 \in Nat
  BY DEF Types_OK, Copy
<1>4. QED
  BY <1>1, <1>2, <1>3 DEF Types_OK, Copy

LEMMA NextType == ASSUME TypeOK, [Next]_vars PROVE TypeOK'
<1> SUFFICES Types_OK'
  BY DEF TypeOK, Types_OK, BoardType, PanelType, PastType, FetchType, LoadType, BulkType,
         Reruns, Posts
<1>0. Types_OK
  BY TypeParts
<1>a. IsList(NoCopies)
  BY <1>0, NoCopiesFacts DEF Types_OK
<1>1. ASSUME NEW t \in Lists, OpenTab(t) PROVE Types_OK'
  <2>1. clicks \in Nat /\ activeTag \in Tags \cup {NoTag} /\ clicks' \in Nat
    BY <1>0, <1>1 DEF OpenTab, Click, Types_OK, BoardType
  <2>2. CASE t = Board
    <3>1. BoardType'
      BY <1>0, <1>1, <2>1, <2>2, SendFetchType DEF OpenTab, Types_OK, BoardType
    <3>2. PanelType'
      BY <1>0, <1>a, <1>1, <2>2, EventAssumption DEF OpenTab, Types_OK, PanelType
    <3>3. PastType'
      BY <1>0, <1>1, <2>1, <2>2, RefetchFacts DEF OpenTab, SendFetch
    <3>4. QED
      BY <1>0, <1>1, <2>1, <3>1, <3>2, <3>3 DEF OpenTab, Types_OK
  <2>3. CASE t # Board
    <3>1. BoardType'
      BY <1>0, <1>1, <2>3 DEF OpenTab, Types_OK, BoardType
    <3>2. PanelType'
      BY <1>0, <1>a, <1>1, <2>1, <2>3, SendLoadType, EventAssumption
         DEF OpenTab, Types_OK, PanelType
    <3>3. PastType'
      BY <1>0, <1>1, <2>1, <2>3, RefetchFacts DEF OpenTab, SendLoad, Lists
    <3>4. QED
      BY <1>0, <1>1, <2>1, <3>1, <3>2, <3>3 DEF OpenTab, Types_OK
  <2>4. QED
    BY <2>2, <2>3
<1>2. ASSUME NEW tag \in Tags \cup {NoTag}, HandleTagClick(tag) PROVE Types_OK'
  <2>1. clicks \in Nat /\ clicks' \in Nat /\ SendFetch(clicks, tag, NoEvent)
    BY <1>0, <1>2 DEF HandleTagClick, Refilter, Click, Types_OK
  <2>2. PastType'
    BY <1>0, <1>2, <2>1, RefetchFacts DEF HandleTagClick, Refilter, SendFetch, Lists
  <2>3. BoardType'
    BY <1>0, <1>2, <2>1, SendFetchType DEF HandleTagClick, Refilter, Types_OK, BoardType
  <2>4. PanelType'
    BY <1>0, <1>2 DEF HandleTagClick, Refilter, panel, Types_OK, PanelType
  <2>5. QED
    BY <1>0, <1>2, <2>1, <2>2, <2>3, <2>4 DEF HandleTagClick, Refilter, Types_OK
<1>3. CASE RefreshAll
  <2>1. clicks \in Nat /\ clicks' \in Nat /\ SendFetch(clicks, activeTag, NoEvent)
        /\ activeTag \in Tags \cup {NoTag}
    BY <1>0, <1>3 DEF RefreshAll, Click, Types_OK, BoardType
  <2>2. PastType'
    BY <1>0, <1>3, <2>1, RefetchFacts DEF RefreshAll, SendFetch, Lists
  <2>3. BoardType'
    BY <1>0, <1>3, <2>1, SendFetchType DEF RefreshAll, Types_OK, BoardType
  <2>4. PanelType'
    BY <1>0, <1>3 DEF RefreshAll, panel, Types_OK, PanelType
  <2>5. QED
    BY <1>0, <1>3, <2>1, <2>2, <2>3, <2>4 DEF RefreshAll, Types_OK
<1>4. ASSUME NEW e \in Events, ReclassifyEvent(e) PROVE Types_OK'
  <2>1. PastType'
    <3>1. \A l \in Lists : (alone[l] /\ ~ Rerunning /\ fetches = {} /\ loads = {}) \in BOOLEAN
      OBVIOUS
    <3>2. alone' \in [Lists -> BOOLEAN]
      BY <1>4, <3>1 DEF ReclassifyEvent
    <3>3. QED
      BY <1>0, <1>4, <3>2 DEF ReclassifyEvent, Types_OK, PastType
  <2>2. reruns' \subseteq Reruns
    BY <1>0, <1>4 DEF ReclassifyEvent, Types_OK, BoardType, Reruns
  <2>3. BoardType'
    BY <1>0, <1>4, <2>2 DEF ReclassifyEvent, Types_OK, BoardType
  <2>4. PanelType'
    BY <1>0, <1>4 DEF ReclassifyEvent, panel, Types_OK, PanelType
  <2>5. QED
    BY <1>0, <1>4, <2>1, <2>3, <2>4 DEF ReclassifyEvent, Click, Types_OK
<1>5. ASSUME NEW e \in Events, ToggleEventSelection(e) PROVE Types_OK'
  BY <1>0, <1>5 DEF ToggleEventSelection, Click, board, past, Types_OK, BoardType,
     PanelType, PastType
<1>6. ASSUME NEW t \in Types, PickType(t) PROVE Types_OK'
  <2>1. clicks \in Nat /\ clicks' \in Nat /\ SendLoad(clicks, t)
    BY <1>0, <1>6 DEF PickType, Click, Types_OK
  <2>2. PastType'
    BY <1>0, <1>6, <2>1, RefetchFacts DEF PickType, SendLoad, Lists
  <2>3. BoardType'
    BY <1>0, <1>6 DEF PickType, board, Types_OK, BoardType
  <2>4. PanelType'
    BY <1>0, <1>6, <2>1, SendLoadType DEF PickType, Types_OK, PanelType
  <2>5. QED
    BY <1>0, <1>6, <2>1, <2>2, <2>3, <2>4 DEF PickType, Types_OK
<1>7. CASE ToggleAllVisibleEvents
  BY <1>0, <1>7 DEF ToggleAllVisibleEvents, Visible, IsList, Click, board, past, Types_OK,
     BoardType, PanelType, PastType
<1>8. CASE RerunSelectedEvents
  <2>1. PastType'
    <3>1. \A l \in Lists : (alone[l] /\ l = Board /\ ~ Rerunning /\ fetches = {}) \in BOOLEAN
      OBVIOUS
    <3>2. alone' \in [Lists -> BOOLEAN]
      BY <1>8, <3>1 DEF RerunSelectedEvents
    <3>3. QED
      BY <1>0, <1>8, <3>2 DEF RerunSelectedEvents, Types_OK, PastType
  <2>2. \A e \in Events : row[e].run \in Nat
    BY <1>0 DEF Types_OK, Copy
  <2>3. BulkType(bulk')
    BY <1>0, <1>8, <2>2 DEF RerunSelectedEvents, Types_OK, PanelType, BulkType
  <2>4. posts' \subseteq Posts
    <3>1. \A e \in chosen \cap Visible : [n |-> clicks, event |-> e, done |-> FALSE] \in Posts
      BY <1>0 DEF Types_OK, PanelType, Posts
    <3>2. QED
      BY <1>0, <1>8, <3>1 DEF RerunSelectedEvents, Types_OK
  <2>5. BoardType' /\ PanelType'
    BY <1>0, <1>8, <2>3 DEF RerunSelectedEvents, board, Types_OK, BoardType, PanelType, BulkType
  <2>6. QED
    BY <1>0, <1>8, <2>1, <2>4, <2>5 DEF RerunSelectedEvents, Click, Types_OK
<1>9. ASSUME NEW f \in fetches, FetchStep(f) PROVE Types_OK'
  <2>0. FetchType(f)
    BY <1>0 DEF Types_OK, BoardType
  <2>1. CASE ServeFetch(f)
    <3>1. \A S \in Pages(f.tag) : IsList(Copies(S))
      BY <1>0, PageFacts, CopiesFacts DEF Types_OK
    <3>2. PICK c : IsList(c) /\ fetches' = (fetches \ {f}) \cup {[f EXCEPT !.got = c]}
      BY <2>1, <3>1 DEF ServeFetch
    <3>3. FetchType([f EXCEPT !.got = c])
      BY <2>0, <3>2 DEF FetchType
    <3>4. \A g \in fetches' : FetchType(g)
      BY <1>0, <3>2, <3>3 DEF Types_OK, BoardType
    <3>5. QED
      BY <1>0, <2>1, <3>4 DEF ServeFetch, panel, past, Types_OK, BoardType, PanelType, PastType
  <2>2. CASE AnswerFetch(f)
    <3>1. shownBy' \in [Lists -> Nat]
      BY <1>0, <2>0, <2>2 DEF AnswerFetch, FetchType, Types_OK, PastType
    <3>2. QED
      BY <1>0, <2>0, <2>2, <3>1 DEF AnswerFetch, FetchType, panel, Types_OK, BoardType, PanelType,
         PastType
  <2>3. CASE AnswerFetchBare(f) \/ FailFetch(f)
    <3>1. PastType' /\ faults' \in Nat
      BY <1>0, <2>3, FaultFacts DEF AnswerFetchBare, FailFetch
    <3>2. QED
      BY <1>0, <1>a, <2>3, <3>1 DEF AnswerFetchBare, FailFetch, panel, Types_OK, BoardType, PanelType
  <2>4. QED
    BY <1>9, <2>1, <2>2, <2>3 DEF FetchStep
<1>10. ASSUME NEW r \in reruns, RerunStep(r) PROVE Types_OK'
  <2>0. r \in Reruns
    BY <1>0 DEF Types_OK, BoardType
  <2>1. CASE ServeRerun(r)
    <3>1. row' \in [Events -> Copy] /\ moved' \in [Lists -> BOOLEAN]
      BY <1>0, <2>0, <2>1, RerunType DEF ServeRerun, Reruns
    <3>2. PICK c \in Copy : reruns' = (reruns \ {r}) \cup {[r EXCEPT !.got = c]}
      BY <2>0, <2>1, <3>1 DEF ServeRerun, Reruns
    <3>3. reruns' \subseteq Reruns
      BY <1>0, <2>0, <3>2 DEF Types_OK, BoardType, Reruns
    <3>4. QED
      BY <1>0, <2>1, <3>1, <3>3 DEF ServeRerun, panel, Types_OK, BoardType, PanelType, PastType
  <2>2. CASE AnswerRerun(r)
    <3>1. IsList(Patched(r))
      BY <1>0, <2>0, <2>2, EventAssumption DEF AnswerRerun, Patched, IsList, Reruns, Types_OK, BoardType
    <3>2. QED
      BY <1>0, <2>2, <3>1 DEF AnswerRerun, panel, past, Types_OK, BoardType, PanelType, PastType
  <2>3. CASE AnswerRerunBare(r)
    <3>1. PastType'
      BY <1>0, <2>0, <2>3, RefetchFacts DEF AnswerRerunBare, SendFetch, Reruns, Lists
    <3>2. fetching' \in BOOLEAN /\ \A f \in fetches' : FetchType(f)
      BY <1>0, <2>0, <2>3, SendFetchType DEF AnswerRerunBare, Reruns
    <3>3. QED
      BY <1>0, <2>3, <3>1, <3>2 DEF AnswerRerunBare, panel, Types_OK, BoardType, PanelType
  <2>4. CASE RerunFails(r)
    <3>1. PastType' /\ faults' \in Nat
      BY <1>0, <2>4, FaultFacts DEF RerunFails
    <3>2. QED
      BY <1>0, <2>4, <3>1 DEF RerunFails, panel, Types_OK, BoardType, PanelType
  <2>5. QED
    BY <1>10, <2>1, <2>2, <2>3, <2>4 DEF RerunStep
<1>11. ASSUME NEW m \in loads, LoadStep(m) PROVE Types_OK'
  <2>0. LoadType(m)
    BY <1>0 DEF Types_OK, PanelType
  <2>1. CASE ServeLoad(m)
    <3>1. \A S \in Pages(NoTag) : IsList(Copies(S))
      BY <1>0, PageFacts, CopiesFacts DEF Types_OK
    <3>2. PICK c : IsList(c) /\ loads' = (loads \ {m}) \cup {[m EXCEPT !.got = c]}
      BY <2>1, <3>1 DEF ServeLoad
    <3>3. LoadType([m EXCEPT !.got = c])
      BY <2>0, <3>2 DEF LoadType
    <3>4. \A g \in loads' : LoadType(g)
      BY <1>0, <3>2, <3>3 DEF Types_OK, PanelType
    <3>5. QED
      BY <1>0, <2>1, <3>4 DEF ServeLoad, board, past, Types_OK, BoardType, PanelType, PastType
  <2>2. CASE AnswerLoad(m)
    <3>1. shownBy' \in [Lists -> Nat]
      BY <1>0, <2>0, <2>2 DEF AnswerLoad, LoadType, Types_OK, PastType
    <3>2. IsList(messages')
      BY <2>0, <2>2, OfTypeFacts DEF AnswerLoad, LoadType, Filtered
    <3>3. QED
      BY <1>0, <2>2, <3>1, <3>2 DEF AnswerLoad, board, Types_OK, BoardType, PanelType, PastType
  <2>3. CASE FailLoad(m)
    <3>1. PastType' /\ faults' \in Nat
      BY <1>0, <2>3, FaultFacts DEF FailLoad
    <3>2. QED
      BY <1>0, <2>3, <3>1 DEF FailLoad, board, Types_OK, BoardType, PanelType
  <2>4. QED
    BY <1>11, <2>1, <2>2, <2>3 DEF LoadStep
<1>12. ASSUME NEW p \in posts, PostStep(p) PROVE Types_OK'
  <2>0. p \in Posts
    BY <1>0 DEF Types_OK
  <2>1. CASE ServePost(p)
    <3>1. row' \in [Events -> Copy] /\ moved' \in [Lists -> BOOLEAN]
      BY <1>0, <2>0, <2>1, RerunType DEF ServePost, Posts
    <3>2. posts' \subseteq Posts
      BY <1>0, <2>0, <2>1 DEF ServePost, Types_OK, Posts
    <3>3. QED
      BY <1>0, <2>1, <3>1, <3>2 DEF ServePost, board, panel, Types_OK, BoardType, PanelType, PastType
  <2>2. CASE PostFails(p)
    <3>1. PastType' /\ faults' \in Nat
      BY <1>0, <2>2, FaultFacts DEF PostFails
    <3>2. posts' \subseteq Posts /\ (bulk' = NoCall \/ bulk' = bulk)
      BY <1>0, <2>2 DEF PostFails, Types_OK
    <3>3. QED
      BY <1>0, <2>2, <3>1, <3>2 DEF PostFails, board, Types_OK, BoardType, PanelType, BulkType
  <2>3. QED
    BY <1>12, <2>1, <2>2 DEF PostStep
<1>13. CASE BulkRefetches
  <2>1. BulkType(bulk)
    BY <1>0, <1>13 DEF BulkRefetches, Types_OK, PanelType
  <2>2. BulkType(bulk')
    BY <1>13, <2>1 DEF BulkRefetches, BulkType
  <2>3. PastType'
    <3>1. CASE lastFetch[Panel] < bulk.n
      <4>1. (reruns = {} /\ posts' = {}) \in BOOLEAN
        OBVIOUS
      <4>2. alone' \in [Lists -> BOOLEAN]
        BY <1>0, <1>13, <3>1, <4>1 DEF BulkRefetches, Types_OK, PastType
      <4>3. lastFetch' \in [Lists -> Nat] /\ moved' \in [Lists -> BOOLEAN]
        BY <1>0, <1>13, <2>1, <3>1 DEF BulkRefetches, BulkType, Types_OK, PastType
      <4>4. QED
        BY <1>0, <1>13, <4>2, <4>3 DEF BulkRefetches, Types_OK, PastType
    <3>2. CASE ~ (lastFetch[Panel] < bulk.n)
      BY <1>0, <1>13, <3>2 DEF BulkRefetches, Types_OK, PastType
    <3>3. QED
      BY <3>1, <3>2
  <2>4. posts' \subseteq Posts
    BY <1>0, <1>13 DEF BulkRefetches, Types_OK
  <2>5. BoardType' /\ PanelType'
    BY <1>0, <1>13, <2>2 DEF BulkRefetches, board, Types_OK, BoardType, PanelType, BulkType
  <2>6. QED
    BY <1>0, <1>13, <2>3, <2>4, <2>5 DEF BulkRefetches, Types_OK
<1>14. CASE ServeBulk
  <2>1. (\A S \in Pages(NoTag) : IsList(Copies(S))) /\ BulkType(bulk)
    BY <1>0, <1>14, PageFacts, CopiesFacts DEF ServeBulk, Types_OK, PanelType
  <2>2. PICK c : IsList(c) /\ bulk' = [bulk EXCEPT !.got = c]
    BY <1>14, <2>1 DEF ServeBulk
  <2>3. BulkType(bulk')
    BY <2>1, <2>2 DEF BulkType
  <2>4. QED
    BY <1>0, <1>14, <2>3 DEF ServeBulk, board, past, Types_OK, BoardType, PanelType, PastType, BulkType
<1>15. CASE AnswerBulk
  <2>1. BulkType(bulk)
    BY <1>0, <1>15 DEF AnswerBulk, Types_OK, PanelType
  <2>2. IsList(messages')
    BY <1>15, <2>1, OfTypeFacts DEF AnswerBulk, BulkType, Filtered
  <2>3. shownBy' \in [Lists -> Nat] /\ announced' \subseteq Events
    BY <1>0, <1>15, <2>1 DEF AnswerBulk, BulkType, Types_OK, PastType
  <2>4. QED
    BY <1>0, <1>15, <2>2, <2>3 DEF AnswerBulk, board, Types_OK, BoardType, PanelType, PastType
<1>16. CASE FailBulk
  <2>1. PastType' /\ faults' \in Nat
    BY <1>0, <1>16, FaultFacts DEF FailBulk
  <2>2. QED
    BY <1>0, <1>16, <2>1 DEF FailBulk, board, Types_OK, BoardType, PanelType
<1>17. CASE UNCHANGED vars
  BY <1>0, <1>17 DEF vars, board, panel, past, Types_OK, BoardType, PanelType, PastType
<1>18. QED
  BY <1>1, <1>2, <1>3, <1>4, <1>5, <1>6, <1>7, <1>8, <1>9, <1>10, <1>11, <1>12, <1>13, <1>14,
     <1>15, <1>16, <1>17 DEF Next, User, AnyFetch, AnyRerun, AnyLoad, AnyPost, BulkStep

\* Every state has the declared types.
THEOREM TypeCorrect == Spec => []TypeOK
BY InitTypeOK, NextType, PTL DEF Spec

---------------------------------------------------------------------------
(***************************************************************************)
(* AnnouncedReran: an event of a bulk re-run has been run again since the  *)
(* click, or its re-run is still out.                                      *)
(***************************************************************************)
Out(e) == \E p \in posts : p.n = bulk.n /\ p.event = e /\ ~ p.done
RerunInv ==
  bulk # NoCall =>
    /\ bulk.got # Unread => bulk.stage = "listing"
    /\ \A e \in Events : row[e].run >= bulk.ran[e]
    /\ \A e \in bulk.events :
         row[e].run > bulk.ran[e] \/ (bulk.stage = "running" /\ Out(e))

LEMMA RunsGrow ==
  ASSUME TypeOK, NEW e \in Events, Rerun(e)
  PROVE  /\ row[e].run \in Nat /\ row'[e].run = row[e].run + 1
         /\ \A x \in Events : x # e => row'[x] = row[x]
BY DEF Rerun, TypeOK, Copy

LEMMA BulkTypes ==
  ASSUME TypeOK, bulk # NoCall
  PROVE  /\ BulkType(bulk) /\ bulk.events \subseteq Events
         /\ \A e \in Events : bulk.ran[e] \in Nat /\ row[e].run \in Nat
BY DEF TypeOK, BulkType, Copy

LEMMA InitRerun == Init => RerunInv
BY DEF Init, RerunInv

\* A step that leaves the bulk, its re-runs and the rows, or ends the bulk.
LEMMA RerunKept ==
  ASSUME RerunInv, bulk' = NoCall \/ (bulk' = bulk /\ posts' = posts /\ row' = row)
  PROVE  RerunInv'
BY DEF RerunInv, Out

LEMMA NextRerun == ASSUME TypeOK, RerunInv, [Next]_vars PROVE RerunInv'
<1>1. ASSUME NEW t \in Lists, OpenTab(t) PROVE RerunInv'
  BY <1>1, RerunKept DEF OpenTab
<1>2. ASSUME NEW tag \in Tags \cup {NoTag}, HandleTagClick(tag) PROVE RerunInv'
  BY <1>2, RerunKept DEF HandleTagClick, Refilter, panel
<1>3. CASE RefreshAll
  BY <1>3, RerunKept DEF RefreshAll, panel
<1>4. ASSUME NEW e \in Events, ReclassifyEvent(e) PROVE RerunInv'
  BY <1>4, RerunKept DEF ReclassifyEvent, panel
<1>5. ASSUME NEW e \in Events, ToggleEventSelection(e) PROVE RerunInv'
  BY <1>5, RerunKept DEF ToggleEventSelection
<1>6. ASSUME NEW t \in Types, PickType(t) PROVE RerunInv'
  BY <1>6, RerunKept DEF PickType
<1>7. CASE ToggleAllVisibleEvents
  BY <1>7, RerunKept DEF ToggleAllVisibleEvents
<1>8. CASE RerunSelectedEvents
  <2>1. /\ bulk'.got = Unread /\ bulk'.n = clicks /\ bulk'.stage = "running"
        /\ bulk'.events = chosen \cap Visible
        /\ bulk'.ran = [e \in Events |-> row[e].run] /\ row' = row
    BY <1>8 DEF RerunSelectedEvents
  <2>2. \A e \in chosen \cap Visible : [n |-> clicks, event |-> e, done |-> FALSE] \in posts'
    BY <1>8 DEF RerunSelectedEvents
  <2>3. \A e \in chosen \cap Visible : Out(e)'
    BY <2>1, <2>2 DEF Out
  <2>4. \A e \in Events : row[e].run >= bulk'.ran[e]
    BY <2>1 DEF TypeOK, Copy
  <2>5. QED
    BY <2>1, <2>3, <2>4 DEF RerunInv
<1>9. ASSUME NEW f \in fetches, FetchStep(f) PROVE RerunInv'
  BY <1>9, RerunKept DEF FetchStep, ServeFetch, AnswerFetch, AnswerFetchBare, FailFetch, panel
<1>10. ASSUME NEW r \in reruns, RerunStep(r) PROVE RerunInv'
  <2>1. CASE ServeRerun(r)
    <3>1. r.event \in Events /\ bulk' = bulk /\ posts' = posts
      BY <2>1 DEF ServeRerun, panel, TypeOK
    <3>2. /\ row[r.event].run \in Nat /\ row'[r.event].run = row[r.event].run + 1
          /\ \A x \in Events : x # r.event => row'[x] = row[x]
      BY <2>1, <3>1, RunsGrow DEF ServeRerun
    <3>3. CASE bulk # NoCall
      <4>1. \A e \in Events : Out(e)' <=> Out(e)
        BY <3>1 DEF Out
      <4>2. QED
        BY <3>1, <3>2, <3>3, <4>1, BulkTypes DEF RerunInv
    <3>4. QED
      BY <3>1, <3>3 DEF RerunInv
  <2>2. CASE AnswerRerun(r) \/ AnswerRerunBare(r) \/ RerunFails(r)
    BY <2>2, RerunKept DEF AnswerRerun, AnswerRerunBare, RerunFails, panel
  <2>3. QED
    BY <1>10, <2>1, <2>2 DEF RerunStep
<1>11. ASSUME NEW m \in loads, LoadStep(m) PROVE RerunInv'
  BY <1>11, RerunKept DEF LoadStep, ServeLoad, AnswerLoad, FailLoad
<1>12. ASSUME NEW p \in posts, PostStep(p) PROVE RerunInv'
  <2>1. CASE ServePost(p)
    <3>1. p.event \in Events /\ bulk' = bulk
      BY <2>1 DEF ServePost, panel, TypeOK
    <3>2. /\ row[p.event].run \in Nat /\ row'[p.event].run = row[p.event].run + 1
          /\ \A x \in Events : x # p.event => row'[x] = row[x]
      BY <2>1, <3>1, RunsGrow DEF ServePost
    <3>3. \A q \in posts : q # p => q \in posts'
      BY <2>1 DEF ServePost
    <3>4. \A e \in Events : e # p.event /\ Out(e) => Out(e)'
      BY <3>1, <3>3 DEF Out
    <3>5. CASE bulk # NoCall
      BY <3>1, <3>2, <3>4, <3>5, BulkTypes DEF RerunInv
    <3>6. QED
      BY <3>1, <3>5 DEF RerunInv
  <2>2. CASE PostFails(p)
    <3>1. CASE Awaited(p)
      BY <2>2, <3>1, RerunKept DEF PostFails
    <3>2. CASE ~ Awaited(p)
      <4>1. bulk' = bulk /\ row' = row /\ posts' = posts \ {p}
        BY <2>2, <3>2 DEF PostFails
      <4>2. ASSUME bulk # NoCall PROVE \A e \in Events : Out(e) => Out(e)'
        BY <3>2, <4>1, <4>2 DEF Out, Awaited
      <4>3. QED
        BY <4>1, <4>2, BulkTypes DEF RerunInv
    <3>3. QED
      BY <3>1, <3>2
  <2>3. QED
    BY <1>12, <2>1, <2>2 DEF PostStep
<1>13. CASE BulkRefetches
  <2>1. BulkType(bulk) /\ bulk # NoCall /\ row' = row
    BY <1>13, BulkTypes DEF BulkRefetches
  <2>2. /\ bulk'.stage = "listing" /\ bulk'.got = bulk.got /\ bulk'.events = bulk.events
        /\ bulk'.ran = bulk.ran
    BY <1>13, <2>1 DEF BulkRefetches, BulkType
  <2>3. \A e \in bulk.events : ~ Out(e)
    BY <1>13, <2>1 DEF BulkRefetches, Awaited, Out
  <2>4. QED
    BY <2>1, <2>2, <2>3 DEF RerunInv
<1>14. CASE ServeBulk
  <2>1. BulkType(bulk) /\ bulk # NoCall /\ row' = row /\ posts' = posts
    BY <1>14, BulkTypes DEF ServeBulk
  <2>2. /\ bulk'.stage = "listing" /\ bulk'.events = bulk.events
        /\ bulk'.ran = bulk.ran /\ bulk.stage = "listing"
    BY <1>14, <2>1 DEF ServeBulk, BulkType
  <2>3. QED
    BY <2>1, <2>2 DEF RerunInv
<1>15. CASE AnswerBulk
  BY <1>15, RerunKept DEF AnswerBulk
<1>16. CASE FailBulk
  BY <1>16, RerunKept DEF FailBulk
<1>17. CASE UNCHANGED vars
  BY <1>17, RerunKept DEF vars, panel
<1>18. QED
  BY <1>1, <1>2, <1>3, <1>4, <1>5, <1>6, <1>7, <1>8, <1>9, <1>10, <1>11, <1>12, <1>13, <1>14,
     <1>15, <1>16, <1>17 DEF Next, User, AnyFetch, AnyRerun, AnyLoad, AnyPost, BulkStep

\* What a bulk re-run announces has been run again since the click.
LEMMA StepAnnounces ==
  ASSUME TypeOK, RerunInv, Next, announced' # announced, bulk # NoCall
  PROVE  \A e \in announced' : row[e].run > bulk.ran[e]
<1>1. CASE AnswerBulk
  BY <1>1 DEF AnswerBulk, RerunInv
<1>2. CASE ~ AnswerBulk
  <2>1. announced' = announced \/ announced' = {}
    BY <1>2 DEF Next, User, AnyFetch, AnyRerun, AnyLoad, AnyPost, BulkStep, FetchStep, RerunStep,
       LoadStep, PostStep, OpenTab, HandleTagClick, Refilter, RefreshAll, ReclassifyEvent,
       ToggleEventSelection, PickType, ToggleAllVisibleEvents, RerunSelectedEvents, ServeFetch,
       AnswerFetch, AnswerFetchBare, FailFetch, ServeRerun, AnswerRerun, AnswerRerunBare,
       RerunFails, ServeLoad, AnswerLoad, FailLoad, ServePost, PostFails, BulkRefetches,
       ServeBulk, FailBulk, panel
  <2>2. QED
    BY <2>1
<1>3. QED
  BY <1>1, <1>2

\* "Reclassified n messages" is said of messages that were run again.
THEOREM AnnouncedReranHolds == Spec => AnnouncedReran
<1>1. Init => RerunInv
  BY InitRerun
<1>2. TypeOK /\ RerunInv /\ [Next]_vars => RerunInv'
  BY NextRerun
<1>3. TypeOK /\ RerunInv /\ [Next]_vars =>
        [announced' # announced /\ bulk # NoCall
           => \A e \in announced' : row[e].run > bulk.ran[e]]_vars
  BY StepAnnounces DEF vars, panel
<1>4. QED
  BY <1>1, <1>2, <1>3, TypeCorrect, PTL DEF Spec, AnnouncedReran

---------------------------------------------------------------------------
(***************************************************************************)
(* SettledMessages: of the calls that may fill the list last, the one with *)
(* the number of the last fetch is of the selected type and brings a page  *)
(* of the rows, and no other number is as high.                            *)
(***************************************************************************)
PanelNums ==
  /\ shownBy[Panel] <= lastFetch[Panel] /\ lastFetch[Panel] < clicks
  /\ \A m \in loads : m.n <= lastFetch[Panel]
  /\ bulk # NoCall =>
       /\ bulk.n < clicks
       /\ bulk.stage = "listing" => bulk.n <= lastFetch[Panel]
       /\ bulk.got # Unread => bulk.stage = "listing"
LastLoad ==
  \A m \in loads : m.n = lastFetch[Panel] =>
    /\ m.type = selected
    /\ m.got # Unread /\ ~ moved[Panel] => IsPage(row, NoTag, m.got)
LastBulk ==
  bulk # NoCall =>
    /\ bulk.n >= lastFetch[Panel] => bulk.type = selected
    /\ bulk.n = lastFetch[Panel] /\ bulk.got # Unread /\ ~ moved[Panel]
       => IsPage(row, NoTag, bulk.got)
ShownMessages ==
  shownBy[Panel] = lastFetch[Panel] /\ alone[Panel] /\ ~ moved[Panel] =>
    ListsPage(row, selected, messages) \/ \E m \in loads : m.n = lastFetch[Panel]
PanelInv ==
  /\ PanelNums
  /\ tab = Board => loads = {} /\ bulk = NoCall
  /\ tab = Panel => LastLoad /\ LastBulk /\ ShownMessages

LEMMA PanelTypes ==
  ASSUME TypeOK
  PROVE  /\ clicks \in Nat /\ lastFetch[Panel] \in Nat /\ shownBy[Panel] \in Nat
         /\ lastFetch[Board] \in Nat /\ shownBy[Board] \in Nat
         /\ \A m \in loads : LoadType(m) /\ m.n \in Nat
         /\ bulk # NoCall => BulkType(bulk) /\ bulk.n \in Nat
         /\ \A f \in fetches : FetchType(f) /\ f.n \in Nat
         /\ \A r \in reruns : r \in Reruns /\ r.n \in Nat /\ r.event \in Events
         /\ \A p \in posts : p.event \in Events
BY DEF TypeOK, LoadType, BulkType, FetchType, Reruns, Lists

LEMMA InitPanel == Init => PanelInv
<1> SUFFICES ASSUME Init PROVE PanelInv
  OBVIOUS
<1>1. lastFetch[Panel] = 0 /\ shownBy[Panel] = 0 /\ clicks = 1 /\ bulk = NoCall
  BY DEF Init, Lists
<1>2. CASE tab = Panel
  <2>1. loads = {[n |-> 0, type |-> FirstType, got |-> Unread]} /\ selected = FirstType
    BY <1>2 DEF Init, Board, Panel
  <2>2. PanelNums /\ LastLoad /\ LastBulk /\ ShownMessages
    BY <1>1, <2>1 DEF PanelNums, LastLoad, LastBulk, ShownMessages
  <2>3. QED
    BY <1>1, <1>2, <2>2 DEF PanelInv, Panel, Board
<1>3. CASE tab = Board
  BY <1>1, <1>3 DEF Init, PanelInv, PanelNums, Board, Panel
<1>4. QED
  BY <1>2, <1>3 DEF Init, Lists

\* A step that does not touch the list and its calls.
LEMMA PanelKept ==
  ASSUME TypeOK, PanelInv, tab' = tab, selected' = selected, messages' = messages,
         loads' = loads, bulk' = bulk, row' = row, clicks' \in Nat, clicks' >= clicks,
         lastFetch'[Panel] = lastFetch[Panel], shownBy'[Panel] = shownBy[Panel],
         moved'[Panel] = moved[Panel], alone'[Panel] => alone[Panel]
  PROVE  PanelInv'
<1>1. PanelNums'
  BY PanelTypes DEF PanelInv, PanelNums
<1>2. LastLoad /\ LastBulk => (LastLoad /\ LastBulk)'
  BY DEF LastLoad, LastBulk
<1>3. ShownMessages => ShownMessages'
  BY DEF ShownMessages
<1>4. QED
  BY <1>1, <1>2, <1>3 DEF PanelInv

\* A served re-run moves the rows.
LEMMA PanelMoved ==
  ASSUME TypeOK, PanelInv, tab' = tab, selected' = selected, loads' = loads, bulk' = bulk,
         clicks' = clicks, lastFetch' = lastFetch, shownBy' = shownBy, moved'[Panel]
  PROVE  PanelInv'
BY DEF PanelInv, PanelNums, LastLoad, LastBulk, ShownMessages

\* A load of the messages of the selected listener is sent with a new number.
LEMMA PanelSends ==
  ASSUME TypeOK, PanelNums, NEW t \in Types, SendLoad(clicks, t), tab' = Panel, selected' = t,
         clicks' = clicks + 1, shownBy' = shownBy, bulk' = bulk \/ bulk' = NoCall
  PROVE  PanelInv'
<1>1. lastFetch'[Panel] = clicks
  BY DEF SendLoad, Refetch, TypeOK, Lists
<1>2. \A m \in loads' : m \in loads \/ (m.n = clicks /\ m.type = t /\ m.got = Unread)
  BY DEF SendLoad
<1>3. \E m \in loads' : m.n = clicks
  <2>1. [n |-> clicks, type |-> t, got |-> Unread] \in loads'
    BY DEF SendLoad
  <2>2. QED
    BY <2>1
<1>4. \A m \in loads : m.n < clicks
  BY PanelTypes DEF PanelNums
<1>5. PanelNums'
  BY <1>1, <1>2, <1>4, PanelTypes DEF PanelNums
<1>6. LastLoad'
  BY <1>1, <1>2, <1>4, PanelTypes DEF LastLoad
<1>7. LastBulk'
  BY <1>1, PanelTypes DEF LastBulk, PanelNums
<1>8. ShownMessages'
  BY <1>1, <1>3 DEF ShownMessages
<1>9. QED
  BY <1>5, <1>6, <1>7, <1>8 DEF PanelInv, Panel, Board

LEMMA NextPanel == ASSUME TypeOK, TypeOK', PanelInv, [Next]_vars PROVE PanelInv'
<1>0. clicks \in Nat /\ Panel # Board /\ Panel \in Lists
  BY PanelTypes DEF Panel, Board, Lists
<1>1. ASSUME NEW t \in Lists, OpenTab(t) PROVE PanelInv'
  <2>1. clicks' = clicks + 1 /\ bulk' = NoCall /\ shownBy' = shownBy
    BY <1>1 DEF OpenTab, Click
  <2>2. CASE t = Board
    <3>1. loads' = {} /\ tab' = Board /\ lastFetch'[Panel] = lastFetch[Panel]
      BY <1>1, <2>2 DEF OpenTab, SendFetch, Refetch, TypeOK, Lists, Board, Panel
    <3>2. QED
      BY <1>0, <2>1, <3>1, PanelTypes DEF PanelInv, PanelNums
  <2>3. CASE t = Panel
    BY <1>0, <1>1, <2>1, <2>3, PanelSends, EventAssumption DEF OpenTab, PanelInv
  <2>4. QED
    BY <2>2, <2>3 DEF Lists
<1>2. ASSUME NEW tag \in Tags \cup {NoTag}, HandleTagClick(tag) PROVE PanelInv'
  <2>1. /\ lastFetch'[Panel] = lastFetch[Panel] /\ moved'[Panel] = moved[Panel]
        /\ alone'[Panel] = alone[Panel] /\ clicks' = clicks + 1
    BY <1>2 DEF HandleTagClick, Refilter, SendFetch, Refetch, Click, TypeOK, Lists, Board, Panel
  <2>2. QED
    BY <1>0, <1>2, <2>1, PanelKept DEF HandleTagClick, Refilter, panel
<1>3. CASE RefreshAll
  <2>1. /\ lastFetch'[Panel] = lastFetch[Panel] /\ moved'[Panel] = moved[Panel]
        /\ alone'[Panel] = alone[Panel] /\ clicks' = clicks + 1
    BY <1>3 DEF RefreshAll, SendFetch, Refetch, Click, TypeOK, Lists, Board, Panel
  <2>2. QED
    BY <1>0, <1>3, <2>1, PanelKept DEF RefreshAll, panel
<1>4. ASSUME NEW e \in Events, ReclassifyEvent(e) PROVE PanelInv'
  <2>1. (alone'[Panel] => alone[Panel]) /\ clicks' = clicks + 1
    BY <1>4 DEF ReclassifyEvent, Click, Lists
  <2>2. QED
    BY <1>0, <1>4, <2>1, PanelKept DEF ReclassifyEvent, panel
<1>5. ASSUME NEW e \in Events, ToggleEventSelection(e) PROVE PanelInv'
  BY <1>0, <1>5, PanelKept DEF ToggleEventSelection, Click, past
<1>6. ASSUME NEW t \in Types, PickType(t) PROVE PanelInv'
  BY <1>6, PanelSends DEF PickType, Click, PanelInv
<1>7. CASE ToggleAllVisibleEvents
  BY <1>0, <1>7, PanelKept DEF ToggleAllVisibleEvents, Click, past
<1>8. CASE RerunSelectedEvents
  <2>1. /\ tab = Panel /\ tab' = tab /\ selected' = selected /\ loads' = loads /\ row' = row
        /\ lastFetch' = lastFetch /\ shownBy' = shownBy /\ moved' = moved
        /\ clicks' = clicks + 1 /\ ~ alone'[Panel]
        /\ bulk'.n = clicks /\ bulk'.type = selected /\ bulk'.stage = "running"
        /\ bulk'.got = Unread
    BY <1>0, <1>8 DEF RerunSelectedEvents, Click
  <2>2. PanelNums'
    BY <2>1, PanelTypes DEF PanelInv, PanelNums
  <2>3. LastLoad' /\ LastBulk' /\ ShownMessages'
    BY <2>1, PanelTypes DEF PanelInv, LastLoad, LastBulk, ShownMessages
  <2>4. QED
    BY <1>0, <2>1, <2>2, <2>3 DEF PanelInv
<1>9. ASSUME NEW f \in fetches, FetchStep(f) PROVE PanelInv'
  <2>1. CASE ServeFetch(f)
    BY <1>0, <2>1, PanelKept DEF ServeFetch, panel, past
  <2>2. CASE AnswerFetch(f)
    <3>1. shownBy'[Panel] = shownBy[Panel]
      BY <2>2 DEF AnswerFetch, TypeOK, Lists, Board, Panel
    <3>2. QED
      BY <1>0, <2>2, <3>1, PanelKept DEF AnswerFetch, panel
  <2>3. CASE AnswerFetchBare(f) \/ FailFetch(f)
    <3>1. ~ alone'[Panel]
      BY <1>0, <2>3 DEF AnswerFetchBare, FailFetch, Fault
    <3>2. QED
      BY <1>0, <2>3, <3>1, PanelKept DEF AnswerFetchBare, FailFetch, panel
  <2>4. QED
    BY <1>9, <2>1, <2>2, <2>3 DEF FetchStep
<1>10. ASSUME NEW r \in reruns, RerunStep(r) PROVE PanelInv'
  <2>1. CASE ServeRerun(r)
    <3>1. moved'[Panel]
      BY <1>0, <2>1 DEF ServeRerun, Rerun
    <3>2. QED
      BY <2>1, <3>1, PanelMoved DEF ServeRerun, panel
  <2>2. CASE AnswerRerun(r)
    BY <1>0, <2>2, PanelKept DEF AnswerRerun, panel, past
  <2>3. CASE AnswerRerunBare(r)
    <3>1. /\ lastFetch'[Panel] = lastFetch[Panel] /\ moved'[Panel] = moved[Panel]
          /\ alone'[Panel] = alone[Panel]
      BY <2>3 DEF AnswerRerunBare, SendFetch, Refetch, TypeOK, Lists, Board, Panel
    <3>2. QED
      BY <1>0, <2>3, <3>1, PanelKept DEF AnswerRerunBare, panel
  <2>4. CASE RerunFails(r)
    <3>1. ~ alone'[Panel]
      BY <1>0, <2>4 DEF RerunFails, Fault
    <3>2. QED
      BY <1>0, <2>4, <3>1, PanelKept DEF RerunFails, panel
  <2>5. QED
    BY <1>10, <2>1, <2>2, <2>3, <2>4 DEF RerunStep
<1>11. ASSUME NEW m \in loads, LoadStep(m) PROVE PanelInv'
  <2>0. tab = Panel /\ LoadType(m) /\ m.n \in Nat
    BY PanelTypes DEF PanelInv, TypeOK, Lists
  <2>1. CASE ServeLoad(m)
    <3>0. PICK S \in Pages(NoTag) : loads' = (loads \ {m}) \cup {[m EXCEPT !.got = Copies(S)]}
      BY <2>1 DEF ServeLoad
    <3>1. PICK new : new = [m EXCEPT !.got = Copies(S)] /\ loads' = (loads \ {m}) \cup {new}
      BY <3>0
    <3>2. new.n = m.n /\ new.type = m.type /\ IsPage(row, NoTag, new.got)
      BY <2>0, <3>1, PageFacts DEF LoadType, Copies, IsPage
    <3>3. UNCHANGED <<row, tab, selected, messages, bulk, clicks, past>>
      BY <2>1 DEF ServeLoad
    <3>4. PanelNums'
      BY <3>1, <3>2, <3>3 DEF PanelInv, PanelNums, past
    <3>5. LastLoad'
      BY <1>0, <2>0, <3>1, <3>2, <3>3 DEF PanelInv, LastLoad, past
    <3>6. LastBulk'
      BY <1>0, <2>0, <3>3 DEF PanelInv, LastBulk, past
    <3>7. (\E x \in loads : x.n = lastFetch[Panel]) => \E x \in loads' : x.n = lastFetch[Panel]
      BY <3>1, <3>2
    <3>8. ShownMessages'
      BY <1>0, <2>0, <3>3, <3>7 DEF PanelInv, ShownMessages, past
    <3>9. QED
      BY <1>0, <2>0, <3>3, <3>4, <3>5, <3>6, <3>8 DEF PanelInv
  <2>2. CASE AnswerLoad(m)
    <3>1. /\ UNCHANGED <<row, tab, selected, bulk, clicks, lastFetch, alone, moved>>
          /\ loads' = loads \ {m} /\ messages' = OfType(m.got, m.type)
          /\ shownBy'[Panel] = m.n /\ m.got # Unread
      BY <1>0, <2>2 DEF AnswerLoad, TypeOK, Filtered
    <3>2. PanelNums'
      BY <2>0, <3>1 DEF PanelInv, PanelNums
    <3>3. LastLoad' /\ LastBulk'
      BY <1>0, <2>0, <3>1 DEF PanelInv, LastLoad, LastBulk
    <3>4. ShownMessages'
      <4>1. CASE m.n = lastFetch[Panel] /\ ~ moved[Panel]
        <5>1. IsPage(row, NoTag, m.got) /\ m.type = selected
          BY <1>0, <2>0, <3>1, <4>1 DEF PanelInv, LastLoad
        <5>2. ListsPage(row, selected, messages')
          BY <3>1, <5>1 DEF IsPage, ListsPage
        <5>3. QED
          BY <3>1, <5>2 DEF ShownMessages
      <4>2. CASE m.n # lastFetch[Panel] \/ moved[Panel]
        BY <3>1, <4>2 DEF ShownMessages
      <4>3. QED
        BY <4>1, <4>2
    <3>5. QED
      BY <1>0, <2>0, <3>1, <3>2, <3>3, <3>4 DEF PanelInv
  <2>3. CASE FailLoad(m)
    <3>1. /\ UNCHANGED <<row, tab, selected, bulk, clicks, lastFetch, shownBy, moved>>
          /\ loads' = loads \ {m} /\ ~ alone'[Panel]
      BY <1>0, <2>3 DEF FailLoad, Fault
    <3>2. QED
      BY <1>0, <2>0, <3>1 DEF PanelInv, PanelNums, LastLoad, LastBulk, ShownMessages
  <2>4. QED
    BY <1>11, <2>1, <2>2, <2>3 DEF LoadStep
<1>12. ASSUME NEW p \in posts, PostStep(p) PROVE PanelInv'
  <2>1. CASE ServePost(p)
    <3>1. moved'[Panel]
      BY <1>0, <2>1 DEF ServePost, Rerun
    <3>2. QED
      BY <2>1, <3>1, PanelMoved DEF ServePost, panel
  <2>2. CASE PostFails(p)
    <3>1. /\ UNCHANGED <<row, tab, selected, messages, loads, clicks, lastFetch, shownBy, moved>>
          /\ bulk' = bulk \/ bulk' = NoCall
          /\ ~ alone'[Panel]
      BY <1>0, <2>2 DEF PostFails, Fault
    <3>2. QED
      BY <1>0, <3>1 DEF PanelInv, PanelNums, LastLoad, LastBulk, ShownMessages
  <2>3. QED
    BY <1>12, <2>1, <2>2 DEF PostStep
<1>13. CASE BulkRefetches
  <2>1. /\ UNCHANGED <<row, tab, selected, messages, loads, clicks, shownBy>>
        /\ BulkType(bulk) /\ bulk.n \in Nat /\ bulk # NoCall /\ bulk.stage = "running"
    BY <1>13, PanelTypes DEF BulkRefetches
  <2>2. /\ bulk'.stage = "listing" /\ bulk'.n = bulk.n /\ bulk'.type = bulk.type
        /\ bulk'.got = bulk.got /\ bulk.got = Unread
    BY <1>13, <2>1 DEF BulkRefetches, BulkType, PanelInv, PanelNums
  <2>3. tab = Panel /\ tab' = Panel
    BY <2>1 DEF PanelInv, TypeOK, Lists
  <2>4. CASE lastFetch[Panel] < bulk.n
    <3>1. lastFetch'[Panel] = bulk.n
      BY <1>0, <1>13, <2>4 DEF BulkRefetches, TypeOK
    <3>2. PanelNums'
      BY <2>1, <2>2, <2>4, <3>1, PanelTypes DEF PanelInv, PanelNums
    <3>3. LastLoad'
      BY <2>1, <2>4, <3>1, PanelTypes DEF PanelInv, PanelNums, LastLoad
    <3>4. LastBulk'
      BY <2>1, <2>2, <2>3, <2>4, <3>1, PanelTypes DEF PanelInv, LastBulk
    <3>5. ShownMessages'
      BY <2>1, <2>4, <3>1, PanelTypes DEF PanelInv, PanelNums, ShownMessages
    <3>6. QED
      BY <1>0, <2>3, <3>2, <3>3, <3>4, <3>5 DEF PanelInv
  <2>5. CASE ~ (lastFetch[Panel] < bulk.n)
    <3>1. UNCHANGED <<lastFetch, alone, moved>>
      BY <1>13, <2>5 DEF BulkRefetches
    <3>2. PanelNums'
      BY <2>1, <2>2, <2>5, <3>1, PanelTypes DEF PanelInv, PanelNums
    <3>3. LastLoad' /\ LastBulk'
      BY <2>1, <2>2, <2>3, <3>1 DEF PanelInv, LastLoad, LastBulk
    <3>4. ShownMessages'
      BY <2>1, <2>3, <3>1 DEF PanelInv, ShownMessages
    <3>5. QED
      BY <1>0, <2>3, <3>2, <3>3, <3>4 DEF PanelInv
  <2>6. QED
    BY <2>4, <2>5
<1>14. CASE ServeBulk
  <2>1. /\ UNCHANGED <<row, tab, selected, messages, loads, clicks, past>>
        /\ BulkType(bulk) /\ bulk # NoCall /\ bulk.stage = "listing"
        /\ \E S \in Pages(NoTag) : bulk' = [bulk EXCEPT !.got = Copies(S)]
    BY <1>14, PanelTypes DEF ServeBulk
  <2>2. /\ bulk'.stage = "listing" /\ bulk'.n = bulk.n /\ bulk'.type = bulk.type
        /\ IsPage(row, NoTag, bulk'.got)
    BY <2>1, PageFacts DEF BulkType, Copies, IsPage
  <2>3. tab = Panel
    BY <2>1 DEF PanelInv, TypeOK, Lists
  <2>4. PanelNums' /\ LastBulk' /\ LastLoad'
    BY <2>1, <2>2, <2>3 DEF PanelInv, PanelNums, LastBulk, LastLoad, past
  <2>5. ShownMessages'
    BY <2>1, <2>3 DEF PanelInv, ShownMessages, past
  <2>6. QED
    BY <1>0, <2>1, <2>3, <2>4, <2>5 DEF PanelInv
<1>15. CASE AnswerBulk
  <2>1. /\ UNCHANGED <<row, tab, selected, loads, clicks, lastFetch, alone, moved>>
        /\ BulkType(bulk) /\ bulk # NoCall /\ bulk' = NoCall /\ bulk.n \in Nat
        /\ bulk.got # Unread
        /\ messages' = OfType(bulk.got, bulk.type) /\ shownBy'[Panel] = bulk.n
    BY <1>0, <1>15, PanelTypes DEF AnswerBulk, TypeOK, Filtered
  <2>2. tab = Panel /\ bulk.n <= lastFetch[Panel]
    BY <2>1 DEF PanelInv, PanelNums, TypeOK, Lists
  <2>3. PanelNums' /\ LastLoad' /\ LastBulk'
    BY <2>1, <2>2 DEF PanelInv, PanelNums, LastLoad, LastBulk
  <2>4. ShownMessages'
    <3>1. CASE bulk.n = lastFetch[Panel] /\ ~ moved[Panel]
      <4>1. IsPage(row, NoTag, bulk.got) /\ bulk.type = selected
        BY <1>0, <2>1, <2>2, <3>1 DEF PanelInv, LastBulk
      <4>2. ListsPage(row, selected, messages')
        BY <2>1, <4>1 DEF IsPage, ListsPage
      <4>3. QED
        BY <2>1, <4>2 DEF ShownMessages
    <3>2. CASE bulk.n # lastFetch[Panel] \/ moved[Panel]
      BY <2>1, <3>2 DEF ShownMessages
    <3>3. QED
      BY <3>1, <3>2
  <2>5. QED
    BY <1>0, <2>1, <2>2, <2>3, <2>4 DEF PanelInv
<1>16. CASE FailBulk
  <2>1. /\ UNCHANGED <<row, tab, selected, messages, loads, clicks, lastFetch, shownBy, moved>>
        /\ bulk' = NoCall /\ ~ alone'[Panel]
    BY <1>0, <1>16 DEF FailBulk, Fault
  <2>2. QED
    BY <1>0, <2>1 DEF PanelInv, PanelNums, LastLoad, LastBulk, ShownMessages
<1>17. CASE UNCHANGED vars
  BY <1>0, <1>17, PanelKept DEF vars, panel, past
<1>18. QED
  BY <1>1, <1>2, <1>3, <1>4, <1>5, <1>6, <1>7, <1>8, <1>9, <1>10, <1>11, <1>12, <1>13, <1>14,
     <1>15, <1>16, <1>17 DEF Next, User, AnyFetch, AnyRerun, AnyLoad, AnyPost, BulkStep

\* The settled list of messages is a page of the server's, cut down to the
\* selected listener.
THEOREM SettledMessagesHolds == Spec => []SettledMessages
<1>1. Init => PanelInv
  BY InitPanel
<1>2. TypeOK /\ TypeOK' /\ PanelInv /\ [Next]_vars => PanelInv'
  BY NextPanel
<1>3. TypeOK /\ PanelInv => SettledMessages
  BY PageFacts DEF PanelInv, ShownMessages, SettledMessages, Rerunning, ListsPage, Copies
<1>4. QED
  BY <1>1, <1>2, <1>3, TypeCorrect, PTL DEF Spec

---------------------------------------------------------------------------
(***************************************************************************)
(* SettledStoryboard: while no calls overlap there is one re-run at most,  *)
(* none beside a fetch, and the cards are the rows but for its event.      *)
(***************************************************************************)
BoardNums ==
  /\ shownBy[Board] < clicks /\ lastFetch[Board] < clicks
  /\ \A f \in fetches : f.n < clicks
  /\ \A r \in reruns : r.n < clicks
Alone ==
  /\ posts = {}
  /\ fetches = {} \/ reruns = {}
  /\ \A r, s \in reruns : r = s
  /\ \A r \in reruns : r.got # Unread => r.got = row[r.event]
LastFetched ==
  \A f \in fetches : f.n = lastFetch[Board] =>
    /\ f.tag = activeTag
    /\ f.got # Unread => IsPage(row, activeTag, f.got)
CardsKept ==
  /\ \A e \in DOMAIN events :
       events[e] = row[e] \/ \E r \in reruns : r.event = e /\ r.got # Unread
  /\ moved[Board] \/ DOMAIN events \in PagesOf(row, activeTag)
ShownCards ==
  shownBy[Board] = lastFetch[Board] =>
    CardsKept \/ \E f \in fetches : f.n = lastFetch[Board]
BoardInv ==
  /\ BoardNums
  /\ tab = Board /\ alone[Board] => Alone /\ LastFetched /\ ShownCards

LEMMA InitBoard == Init => BoardInv
<1> SUFFICES ASSUME Init PROVE BoardInv
  OBVIOUS
<1>1. lastFetch[Board] = 0 /\ shownBy[Board] = 0 /\ clicks = 1 /\ reruns = {} /\ posts = {}
  BY DEF Init, Lists
<1>2. CASE tab = Board
  <2>1. fetches = {[n |-> 0, tag |-> NoTag, owner |-> NoEvent, got |-> Unread]}
        /\ activeTag = NoTag
    BY <1>2 DEF Init, Board, Panel
  <2>2. QED
    BY <1>1, <2>1 DEF BoardInv, BoardNums, Alone, LastFetched, ShownCards
<1>3. CASE tab = Panel
  <2>1. fetches = {}
    BY <1>3 DEF Init, Board, Panel
  <2>2. QED
    BY <1>1, <1>3, <2>1 DEF BoardInv, BoardNums, Board, Panel
<1>4. QED
  BY <1>2, <1>3 DEF Init, Lists

\* A step that does not touch the cards and their calls.
LEMMA BoardKept ==
  ASSUME TypeOK, BoardInv, tab' = tab,
         UNCHANGED <<row, activeTag, events, fetches, reruns>>, posts' \subseteq posts,
         clicks' \in Nat, clicks' >= clicks,
         lastFetch'[Board] = lastFetch[Board], shownBy'[Board] = shownBy[Board],
         moved'[Board] = moved[Board], alone'[Board] => alone[Board]
  PROVE  BoardInv'
<1>1. BoardNums'
  BY PanelTypes DEF BoardInv, BoardNums
<1>2. Alone => Alone'
  BY DEF Alone
<1>4. LastFetched => LastFetched'
  BY DEF LastFetched
<1>5. ShownCards => ShownCards'
  BY DEF ShownCards, CardsKept
<1>6. QED
  BY <1>1, <1>2, <1>4, <1>5 DEF BoardInv

\* A step elsewhere, or one by which the calls are not alone.
LEMMA BoardAway ==
  ASSUME TypeOK, BoardInv, tab' = Panel \/ ~ alone'[Board],
         \A f \in fetches' : \E g \in fetches : f.n = g.n,
         \A r \in reruns' : \E q \in reruns : r.n = q.n,
         clicks' \in Nat, clicks' >= clicks,
         lastFetch'[Board] = lastFetch[Board], shownBy'[Board] = shownBy[Board]
  PROVE  BoardInv'
<1>1. BoardNums'
  BY PanelTypes DEF BoardInv, BoardNums
<1>2. QED
  BY <1>1 DEF BoardInv, Board, Panel

\* A fetch with the filter of the Storyboard is sent with a new number.
LEMMA BoardSends ==
  ASSUME TypeOK, BoardInv, NEW owner, SendFetch(clicks, activeTag', owner),
         UNCHANGED <<reruns, shownBy>>, posts' \subseteq posts, clicks' = clicks + 1
  PROVE  BoardInv'
<1>1. lastFetch'[Board] = clicks /\ alone'[Board] = ~ Rerunning
  BY DEF SendFetch, Refetch, TypeOK, Lists
<1>2. \A f \in fetches' : f \in fetches \/ (f.n = clicks /\ f.tag = activeTag' /\ f.got = Unread)
  BY DEF SendFetch
<1>3. \E f \in fetches' : f.n = clicks
  <2>1. [n |-> clicks, tag |-> activeTag', owner |-> owner, got |-> Unread] \in fetches'
    BY DEF SendFetch
  <2>2. QED
    BY <2>1
<1>4. BoardNums'
  BY <1>1, <1>2, PanelTypes DEF BoardInv, BoardNums
<1>5. LastFetched'
  BY <1>1, <1>2, PanelTypes DEF BoardInv, BoardNums, LastFetched
<1>6. ShownCards'
  BY <1>1, <1>3, PanelTypes DEF BoardInv, BoardNums, ShownCards
<1>7. alone'[Board] => Alone'
  BY <1>1 DEF Rerunning, Alone
<1>8. QED
  BY <1>4, <1>5, <1>6, <1>7 DEF BoardInv

LEMMA NextBoard == ASSUME TypeOK, TypeOK', PanelInv, BoardInv, [Next]_vars PROVE BoardInv'
<1>0. clicks \in Nat /\ Panel # Board /\ Board \in Lists /\ tab \in Lists
  BY PanelTypes DEF Panel, Board, Lists, TypeOK
<1>1. ASSUME NEW t \in Lists, OpenTab(t) PROVE BoardInv'
  <2>1. CASE t = Board
    <3>1. SendFetch(clicks, activeTag', NoEvent) /\ posts' \subseteq posts
      BY <1>1, <2>1 DEF OpenTab
    <3>2. QED
      BY <1>1, <3>1, BoardSends DEF OpenTab, Click
  <2>2. CASE t = Panel
    <3>1. lastFetch'[Board] = lastFetch[Board]
      BY <1>0, <1>1, <2>2 DEF OpenTab, SendLoad, Refetch, TypeOK
    <3>2. QED
      BY <1>0, <1>1, <2>2, <3>1, BoardAway DEF OpenTab, Click
  <2>3. QED
    BY <2>1, <2>2 DEF Lists
<1>2. ASSUME NEW tag \in Tags \cup {NoTag}, HandleTagClick(tag) PROVE BoardInv'
  <2>1. SendFetch(clicks, activeTag', NoEvent) /\ clicks' = clicks + 1
    BY <1>2 DEF HandleTagClick, Refilter, Click
  <2>2. QED
    BY <1>2, <2>1, BoardSends DEF HandleTagClick, Refilter
<1>3. CASE RefreshAll
  <2>1. SendFetch(clicks, activeTag', NoEvent) /\ clicks' = clicks + 1
    BY <1>3 DEF RefreshAll, Click
  <2>2. QED
    BY <1>3, <2>1, BoardSends DEF RefreshAll
<1>4. ASSUME NEW e \in Events, ReclassifyEvent(e) PROVE BoardInv'
  <2>1. /\ UNCHANGED <<row, tab, activeTag, events, fetches, posts, lastFetch, shownBy, moved>>
        /\ clicks' = clicks + 1
        /\ alone'[Board] => alone[Board] /\ ~ Rerunning /\ fetches = {}
    BY <1>0, <1>4 DEF ReclassifyEvent, Click
  <2>2. PICK new : /\ new.n = clicks /\ new.got = Unread
                   /\ reruns' = reruns \cup {new}
    BY <1>4 DEF ReclassifyEvent
  <2>3. BoardNums'
    BY <2>1, <2>2, PanelTypes DEF BoardInv, BoardNums
  <2>4. ASSUME tab = Board, alone'[Board] PROVE Alone' /\ LastFetched' /\ ShownCards'
    <3>1. fetches = {} /\ reruns = {} /\ posts = {} /\ reruns' = {new}
      BY <2>1, <2>2, <2>4 DEF Rerunning
    <3>3. shownBy[Board] = lastFetch[Board] => CardsKept'
      BY <2>1, <2>4, <3>1 DEF BoardInv, ShownCards, CardsKept
    <3>4. QED
      BY <2>1, <2>2, <3>1, <3>3 DEF Alone, LastFetched, ShownCards
  <2>5. QED
    BY <2>1, <2>3, <2>4 DEF BoardInv
<1>5. ASSUME NEW e \in Events, ToggleEventSelection(e) PROVE BoardInv'
  BY <1>0, <1>5, BoardKept DEF ToggleEventSelection, Click, board, past
<1>6. ASSUME NEW t \in Types, PickType(t) PROVE BoardInv'
  <2>1. lastFetch'[Board] = lastFetch[Board]
    BY <1>0, <1>6 DEF PickType, SendLoad, Refetch, TypeOK
  <2>2. QED
    BY <1>0, <1>6, <2>1, BoardAway DEF PickType, Click, board
<1>7. CASE ToggleAllVisibleEvents
  BY <1>0, <1>7, BoardKept DEF ToggleAllVisibleEvents, Click, board, past
<1>8. CASE RerunSelectedEvents
  BY <1>0, <1>8, BoardAway DEF RerunSelectedEvents, Click, board
<1>9. ASSUME NEW f \in fetches, FetchStep(f) PROVE BoardInv'
  <2>0. FetchType(f)
    BY PanelTypes
  <2>1. CASE ServeFetch(f)
    <3>0. PICK S \in Pages(f.tag) : fetches' = (fetches \ {f}) \cup {[f EXCEPT !.got = Copies(S)]}
      BY <2>1 DEF ServeFetch
    <3>1. PICK new : new = [f EXCEPT !.got = Copies(S)] /\ fetches' = (fetches \ {f}) \cup {new}
      BY <3>0
    <3>2. new.n = f.n /\ new.tag = f.tag /\ IsPage(row, f.tag, new.got)
      BY <2>0, <3>1, PageFacts DEF FetchType, Copies, IsPage
    <3>3. UNCHANGED <<row, tab, activeTag, events, reruns, posts, clicks, past>>
      BY <2>1 DEF ServeFetch
    <3>4. BoardNums'
      BY <3>1, <3>2, <3>3 DEF BoardInv, BoardNums, past
    <3>6. Alone => Alone'
      BY <3>1, <3>3 DEF Alone
    <3>7. LastFetched => LastFetched'
      BY <3>1, <3>2, <3>3 DEF LastFetched, past
    <3>8. (\E x \in fetches : x.n = lastFetch[Board]) => \E x \in fetches' : x.n = lastFetch[Board]
      BY <3>1, <3>2
    <3>9. ShownCards => ShownCards'
      BY <3>3, <3>8 DEF ShownCards, CardsKept, past
    <3>10. QED
      BY <3>3, <3>4, <3>6, <3>7, <3>9 DEF BoardInv, past
  <2>2. CASE AnswerFetch(f)
    <3>1. /\ UNCHANGED <<row, tab, activeTag, reruns, posts, clicks, lastFetch, alone, moved>>
          /\ fetches' = fetches \ {f} /\ events' = f.got /\ f.got # Unread
          /\ shownBy'[Board] = f.n
      BY <1>0, <2>2 DEF AnswerFetch, TypeOK
    <3>2. BoardNums'
      BY <3>1 DEF BoardInv, BoardNums
    <3>4. (Alone => Alone') /\ (LastFetched => LastFetched')
      BY <3>1 DEF Alone, LastFetched
    <3>5. ASSUME Alone, LastFetched PROVE ShownCards'
      <4>1. CASE f.n = lastFetch[Board]
        <5>1. PICK S \in PagesOf(row, activeTag) : events' = [e \in S |-> row[e]]
          BY <3>1, <3>5, <4>1 DEF LastFetched, IsPage
        <5>2. CardsKept'
          BY <3>1, <5>1 DEF CardsKept
        <5>3. QED
          BY <5>2 DEF ShownCards
      <4>2. CASE f.n # lastFetch[Board]
        BY <3>1, <4>2 DEF ShownCards
      <4>3. QED
        BY <4>1, <4>2
    <3>6. QED
      BY <3>1, <3>2, <3>4, <3>5 DEF BoardInv
  <2>3. CASE AnswerFetchBare(f) \/ FailFetch(f)
    <3>1. ~ alone'[Board]
      BY <1>0, <2>3 DEF AnswerFetchBare, FailFetch, Fault
    <3>2. QED
      BY <1>0, <2>3, <3>1, BoardAway DEF AnswerFetchBare, FailFetch
  <2>4. QED
    BY <1>9, <2>1, <2>2, <2>3 DEF FetchStep
<1>10. ASSUME NEW r \in reruns, RerunStep(r) PROVE BoardInv'
  <2>0. r \in Reruns /\ r.event \in Events /\ r.n \in Nat
    BY PanelTypes
  <2>1. CASE ServeRerun(r)
    <3>1. PICK new : /\ new = [r EXCEPT !.got = row'[r.event]]
                     /\ reruns' = (reruns \ {r}) \cup {new}
      BY <2>1 DEF ServeRerun
    <3>2. new.n = r.n /\ new.event = r.event /\ new.got = row'[r.event]
      BY <2>0, <3>1 DEF Reruns
    <3>3. /\ UNCHANGED <<tab, activeTag, events, fetches, posts, clicks, lastFetch, shownBy, alone>>
          /\ moved'[Board]
      BY <1>0, <2>1 DEF ServeRerun, Rerun
    <3>4. \A x \in Events : x # r.event => row'[x] = row[x]
      BY <2>0, <2>1, RunsGrow DEF ServeRerun
    <3>5. BoardNums'
      BY <3>1, <3>2, <3>3 DEF BoardInv, BoardNums
    <3>6. ASSUME tab = Board, alone[Board] PROVE Alone' /\ LastFetched' /\ ShownCards'
      <4>1. posts = {} /\ fetches = {} /\ reruns = {r}
        BY <3>6 DEF BoardInv, Alone
      <4>2. reruns' = {new}
        BY <3>1, <4>1
      <4>3. row'[r.event] # Unread
        BY <2>0, EventAssumption DEF TypeOK
      <4>4. Alone' /\ LastFetched'
        BY <3>2, <3>3, <4>1, <4>2 DEF Alone, LastFetched
      <4>5. ASSUME shownBy[Board] = lastFetch[Board] PROVE CardsKept'
        <5>1. \A e \in DOMAIN events : e # r.event => events[e] = row[e]
          BY <3>6, <4>1, <4>5 DEF BoardInv, ShownCards, CardsKept
        <5>2. \A e \in DOMAIN events : e # r.event => events[e] = row'[e]
          BY <3>4, <5>1 DEF TypeOK, IsList
        <5>3. QED
          BY <3>2, <3>3, <4>2, <4>3, <5>2 DEF CardsKept
      <4>6. QED
        BY <3>3, <4>4, <4>5 DEF ShownCards
    <3>7. QED
      BY <3>3, <3>5, <3>6 DEF BoardInv
  <2>2. CASE AnswerRerun(r)
    <3>1. /\ UNCHANGED <<row, tab, activeTag, fetches, posts, clicks, past>>
          /\ reruns' = reruns \ {r} /\ events' = Patched(r) /\ r.got # Unread
      BY <2>2 DEF AnswerRerun
    <3>2. BoardNums'
      BY <3>1 DEF BoardInv, BoardNums, past
    <3>3. ASSUME tab = Board, alone[Board] PROVE Alone' /\ LastFetched' /\ ShownCards'
      <4>1. posts = {} /\ fetches = {} /\ reruns = {r} /\ r.got = row[r.event] /\ reruns' = {}
        BY <3>1, <3>3 DEF BoardInv, Alone
      <4>2. DOMAIN events' = DOMAIN events
        BY <3>1 DEF Patched
      <4>3. ASSUME shownBy[Board] = lastFetch[Board] PROVE CardsKept'
        <5>1. CardsKept
          BY <3>3, <4>1, <4>3 DEF BoardInv, ShownCards
        <5>2. \A e \in DOMAIN events : events'[e] = row[e]
          BY <3>1, <4>1, <5>1 DEF Patched, CardsKept
        <5>3. QED
          BY <3>1, <4>1, <4>2, <5>1, <5>2 DEF CardsKept, past
      <4>4. QED
        BY <3>1, <4>1, <4>3 DEF Alone, LastFetched, ShownCards, past
    <3>4. QED
      BY <3>1, <3>2, <3>3 DEF BoardInv, past
  <2>3. CASE AnswerRerunBare(r)
    <3>1. lastFetch'[Board] = r.n /\ ~ alone'[Board]
      BY <1>0, <2>3 DEF AnswerRerunBare, SendFetch, Refetch, Rerunning, TypeOK
    <3>2. \A f \in fetches' : f \in fetches \/ f.n = r.n
      BY <2>3 DEF AnswerRerunBare, SendFetch
    <3>3. BoardNums'
      BY <2>3, <3>1, <3>2 DEF BoardInv, BoardNums, AnswerRerunBare
    <3>4. QED
      BY <3>1, <3>3 DEF BoardInv
  <2>4. CASE RerunFails(r)
    <3>1. ~ alone'[Board]
      BY <1>0, <2>4 DEF RerunFails, Fault
    <3>2. QED
      BY <1>0, <2>4, <3>1, BoardAway DEF RerunFails
  <2>5. QED
    BY <1>10, <2>1, <2>2, <2>3, <2>4 DEF RerunStep
<1>11. ASSUME NEW m \in loads, LoadStep(m) PROVE BoardInv'
  <2>0. tab = Panel
    BY <1>0 DEF PanelInv, Lists
  <2>1. /\ shownBy'[Board] = shownBy[Board] /\ UNCHANGED <<tab, board, clicks, lastFetch>>
    BY <1>0, <1>11 DEF LoadStep, ServeLoad, AnswerLoad, FailLoad, TypeOK, past
  <2>2. QED
    BY <1>0, <2>0, <2>1, BoardAway DEF board
<1>12. ASSUME NEW p \in posts, PostStep(p) PROVE BoardInv'
  <2>1. CASE ServePost(p)
    <3>1. ~ (tab = Board /\ alone[Board])
      BY DEF BoardInv, Alone
    <3>2. UNCHANGED <<tab, fetches, reruns, clicks, lastFetch, shownBy, alone>>
      BY <2>1 DEF ServePost, board
    <3>3. QED
      BY <1>0, <3>1, <3>2, BoardAway DEF Lists
  <2>2. CASE PostFails(p)
    <3>1. ~ alone'[Board]
      BY <1>0, <2>2 DEF PostFails, Fault
    <3>2. QED
      BY <1>0, <2>2, <3>1, BoardAway DEF PostFails, board
  <2>3. QED
    BY <1>12, <2>1, <2>2 DEF PostStep
<1>13. CASE BulkRefetches
  <2>1. tab = Panel /\ tab' = Panel
    BY <1>0, <1>13 DEF BulkRefetches, PanelInv, Lists
  <2>2. lastFetch'[Board] = lastFetch[Board]
    BY <1>0, <1>13 DEF BulkRefetches, TypeOK
  <2>3. QED
    BY <1>0, <1>13, <2>1, <2>2, BoardAway DEF BulkRefetches, board
<1>14. CASE ServeBulk
  BY <1>0, <1>14, BoardKept DEF ServeBulk, board, past
<1>15. CASE AnswerBulk
  <2>1. shownBy'[Board] = shownBy[Board]
    BY <1>0, <1>15 DEF AnswerBulk, TypeOK
  <2>2. QED
    BY <1>0, <1>15, <2>1, BoardKept DEF AnswerBulk, board
<1>16. CASE FailBulk
  <2>1. ~ alone'[Board]
    BY <1>0, <1>16 DEF FailBulk, Fault
  <2>2. QED
    BY <1>0, <1>16, <2>1, BoardAway DEF FailBulk, board
<1>17. CASE UNCHANGED vars
  BY <1>0, <1>17, BoardKept DEF vars, board, past
<1>18. QED
  BY <1>1, <1>2, <1>3, <1>4, <1>5, <1>6, <1>7, <1>8, <1>9, <1>10, <1>11, <1>12, <1>13, <1>14,
     <1>15, <1>16, <1>17 DEF Next, User, AnyFetch, AnyRerun, AnyLoad, AnyPost, BulkStep

\* The settled cards of the Storyboard are the server's rows, a page of them.
THEOREM SettledStoryboardHolds == Spec => []SettledStoryboard
<1>1. Init => PanelInv /\ BoardInv
  BY InitPanel, InitBoard
<1>2. TypeOK /\ TypeOK' /\ PanelInv /\ BoardInv /\ [Next]_vars => PanelInv' /\ BoardInv'
  BY NextPanel, NextBoard
<1>3. BoardInv => SettledStoryboard
  BY PageFacts DEF BoardInv, ShownCards, CardsKept, SettledStoryboard, Rerunning
<1>4. QED
  BY <1>1, <1>2, <1>3, TypeCorrect, PTL DEF Spec
=============================================================================
