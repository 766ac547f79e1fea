----------------------------- MODULE EventConsole -----------------------------
(***************************************************************************)
(* Stored events as one browser shows them: the Storyboard of App with its *)
(* cards (web/src/App.jsx, components/StoryboardCard.jsx) and the Existing *)
(* Messages panel of SkillsTab, over the event rows of the server.         *)
(*                                                                         *)
(* A handler runs to completion between two awaits: one action.  A call is *)
(* sent, served by the server, and answered, and answers overtake each     *)
(* other.  What a call captured when it was sent (the tag, the type) it    *)
(* keeps.  The state of App outlives a change of tab, that of SkillsTab is *)
(* gone with it, and the answers it waited for are then dropped.           *)
(*                                                                         *)
(* What is abstracted: an event is the tag it carries and the number of    *)
(* its run; a re-run, whose steps are those of EventPipeline, is one step  *)
(* that may change the tag.  No new events arrive.  A list of events is    *)
(* one page, its events in whatever order.                                 *)
(***************************************************************************)
EXTENDS Naturals, FiniteSets, Functions

CONSTANTS
  Events,    \* event rows of the account
  Types,     \* type keys of its listeners
  TypeOf,    \* type_key of each event
  Stock,     \* what webhook_events may be when the page is opened
  Created,   \* created_at of each event, in whole seconds
  Limit,     \* events of a page: 50
  FirstType, \* listenerOptions[0], selected when SkillsTab opens
  Tags,      \* tags an event may carry
  NoTag,     \* no tag on an event, no tag in the filter
  NoEvent, Unread, NoCall, \* nothing there yet
  MaxClicks, \* bound: clicks
  MaxFaults  \* bound: calls that fail, and answers without an event

Copy == [tag : Tags \cup {NoTag}, run : Nat]

ASSUME EventAssumption ==
  /\ TypeOf \in [Events -> Types] /\ Created \in [Events -> Nat] /\ Limit \in Nat
  /\ FirstType \in Types
  /\ NoTag \notin Tags /\ NoEvent \notin Events
  /\ Unread \notin Copy /\ \A S \in SUBSET Events : Unread \notin [S -> Copy]
  /\ Stock \subseteq [Events -> [tag : Tags \cup {NoTag}, run : {0}]]
  /\ MaxClicks \in Nat /\ MaxFaults \in Nat

VARIABLES
  row,       \* webhook_events: the tag and the run of each event
  tab,       \* activeTab
  activeTag, \* the tag filter
  events,    \* the cards of the Storyboard: a copy of the row of some events
  fetching,  \* whether "Syncing..." is shown
  marks,     \* reclassifyingEventIDs
  fetches,   \* calls of fetchEvents in flight
  reruns,    \* calls of reclassifyEvent that wait for their re-run
  selected,  \* selectedTypeKey
  messages,  \* recentEvents: the copies that SkillsTab lists
  loading,   \* loadingRecentEvents
  chosen,    \* selectedEventIDs
  loads,     \* fetches of messages in flight
  bulk,      \* rerunSelectedEvents, while rerunBusy is set
  posts,     \* re-runs it sent, also those of a bulk that gave up
  announced, \* events of the last "Reclassified n messages."
  clicks,    \* clicks so far, the opening of the page included; numbers the calls
  faults,    \* faults so far
  lastFetch, \* history: number of the last fetchEvents and of the last load
  shownBy,   \* history: number of the call that filled each list last
  alone,     \* history: since the last fetch of either list was sent no call
             \* failed and no re-run overlapped another call on the list
  moved      \* history: a re-run was served since the last fetch was sent

board == <<activeTag, events, fetching, marks, fetches, reruns>>
panel == <<selected, messages, loading, chosen, loads, bulk, announced>>
past == <<lastFetch, shownBy, alone, moved>>
vars == <<row, tab, board, panel, posts, clicks, faults, past>>

IsList(l) == l # Unread /\ DOMAIN l \subseteq Events /\ l \in [DOMAIN l -> Copy]
Board == "storyboard"
Panel == "skills"
Lists == {Board, Panel}

\* GET /api/events and /api/events/by-tag answer the newest events, those of
\* one second in no order: which of these a full page has is not determined.
Matching(tag) == {e \in Events : tag = NoTag \/ row[e].tag = tag}
Pages(tag) ==
  {S \in SUBSET Matching(tag) :
     /\ Cardinality(S) <= Limit
     /\ S # Matching(tag) => Cardinality(S) = Limit
     /\ \A e \in S, f \in Matching(tag) \ S : Created[f] <= Created[e]}
Copies(S) == [e \in S |-> row[e]]
OfType(list, t) == Restrict(list, {e \in DOMAIN list : TypeOf[e] = t})

Rerunning == reruns # {} \/ posts # {}
Click == clicks < MaxClicks /\ clicks' = clicks + 1
Fault == faults < MaxFaults /\ faults' = faults + 1
           /\ alone' = [l \in Lists |-> FALSE]

\* A list is fetched: from here on it can be the server's again.
Refetch(l, n) ==
  /\ lastFetch' = [lastFetch EXCEPT ![l] = n]
  /\ alone' = [alone EXCEPT ![l] = ~ Rerunning]
  /\ moved' = [moved EXCEPT ![l] = FALSE]

\* fetchEvents is sent; a fetch for reclassifyEvent has its event as owner.
SendFetch(n, tag, owner) ==
  /\ fetching' = TRUE
  /\ fetches' = fetches \cup {[n |-> n, tag |-> tag, owner |-> owner, got |-> Unread]}
  /\ Refetch(Board, n)

\* SkillsTab asks for the events when its type is set.
SendLoad(n, t) ==
  /\ loading' = TRUE
  /\ loads' = loads \cup {[n |-> n, type |-> t, got |-> Unread]}
  /\ Refetch(Panel, n)

NoCopies == Restrict(row, {})

Init ==
  /\ row \in Stock
  /\ tab \in Lists
  /\ activeTag = NoTag /\ events = NoCopies /\ marks = {} /\ reruns = {}
  /\ fetching = (tab = Board)
  /\ fetches = IF tab = Panel THEN {}
               ELSE {[n |-> 0, tag |-> NoTag, owner |-> NoEvent, got |-> Unread]}
  /\ selected = FirstType /\ messages = NoCopies /\ loading = (tab = Panel)
  /\ loads = IF tab = Board THEN {}
             ELSE {[n |-> 0, type |-> FirstType, got |-> Unread]}
  /\ chosen = {} /\ bulk = NoCall /\ announced = {}
  /\ posts = {} /\ clicks = 1 /\ faults = 0
  /\ lastFetch = [l \in Lists |-> 0]
  /\ shownBy = [l \in Lists |-> 0]
  /\ alone = [l \in Lists |-> TRUE]
  /\ moved = [l \in Lists |-> FALSE]

---------------------------------------------------------------------------
(***************************************************************************)
(* The Storyboard.                                                         *)
(***************************************************************************)

\* setActiveTab: the Storyboard is fetched on entry; SkillsTab starts with
\* its first type and nothing listed, and is unmounted on leaving.
OpenTab(t) ==
  /\ t # tab
  /\ Click
  /\ tab' = t
  /\ selected' = FirstType /\ messages' = NoCopies
  /\ chosen' = {} /\ bulk' = NoCall /\ announced' = {}
  /\ posts' = {p \in posts : ~ p.done}
  /\ IF t = Board
     THEN /\ SendFetch(clicks, activeTag, NoEvent)
          /\ loading' = FALSE /\ loads' = {}
     ELSE /\ SendLoad(clicks, FirstType)
          /\ UNCHANGED <<fetching, fetches>>
  /\ UNCHANGED <<row, activeTag, events, marks, reruns, faults, shownBy>>

\* A tag of a card is toggled, or Clear is clicked; the effect on activeTag
\* fetches the events of the new filter.
Filters == {NoTag} \cup {events[e].tag : e \in DOMAIN events}
Refilter(tag, send) ==
  /\ tab = Board
  /\ Click
  /\ activeTag' = tag
  /\ IF send THEN SendFetch(clicks, tag, NoEvent)
     ELSE UNCHANGED <<fetching, fetches, lastFetch, alone, moved>>
  /\ UNCHANGED <<row, tab, events, marks, reruns, panel, posts, faults, shownBy>>

HandleTagClickUnfetched(tag) == tag \in Filters \ {activeTag} /\ Refilter(tag, FALSE)
HandleTagClick(tag) == tag \in Filters \ {activeTag} /\ Refilter(tag, TRUE)

RefreshAll ==
  /\ tab = Board
  /\ Click
  /\ SendFetch(clicks, activeTag, NoEvent)
  /\ UNCHANGED <<row, tab, activeTag, events, marks, reruns, panel, posts,
                 faults, shownBy>>

ServeFetch(f) ==
  /\ f.got = Unread
  /\ \E S \in Pages(f.tag) :
       fetches' = (fetches \ {f}) \cup {[f EXCEPT !.got = Copies(S)]}
  /\ UNCHANGED <<row, tab, activeTag, events, fetching, marks, reruns, panel,
                 posts, clicks, faults, past>>

\* The answer of any fetch replaces the cards, and its finally clears
\* "Syncing..." and the mark of the event it was made for.
AnswerFetch(f) ==
  /\ f.got # Unread
  /\ events' = f.got
  /\ fetching' = FALSE
  /\ marks' = marks \ {f.owner}
  /\ fetches' = fetches \ {f}
  /\ shownBy' = [shownBy EXCEPT ![Board] = f.n]
  /\ UNCHANGED <<row, tab, activeTag, reruns, panel, posts, clicks, faults,
                 lastFetch, alone, moved>>

\* An answer that is no list shows no events.
AnswerFetchNull(f) ==
  /\ Fault
  /\ events' = Unread
  /\ fetching' = FALSE
  /\ marks' = marks \ {f.owner}
  /\ fetches' = fetches \ {f}
  /\ UNCHANGED <<row, tab, activeTag, reruns, panel, posts, clicks, lastFetch,
                 shownBy, moved>>
AnswerFetchBare(f) ==
  /\ Fault
  /\ events' = NoCopies
  /\ fetching' = FALSE
  /\ marks' = marks \ {f.owner}
  /\ fetches' = fetches \ {f}
  /\ UNCHANGED <<row, tab, activeTag, reruns, panel, posts, clicks, lastFetch,
                 shownBy, moved>>

FailFetchSyncing(f) ==
  /\ Fault
  /\ marks' = marks \ {f.owner}
  /\ fetches' = fetches \ {f}
  /\ UNCHANGED <<row, tab, activeTag, events, fetching, reruns, panel, posts,
                 clicks, lastFetch, shownBy, moved>>
FailFetch(f) ==
  /\ Fault
  /\ fetching' = FALSE
  /\ marks' = marks \ {f.owner}
  /\ fetches' = fetches \ {f}
  /\ UNCHANGED <<row, tab, activeTag, events, reruns, panel, posts, clicks,
                 lastFetch, shownBy, moved>>

\* The RECLASSIFY button of a card, disabled while the event is marked.
CanReclassify(e) == tab = Board /\ e \in DOMAIN events /\ e \notin marks

ReclassifyEvent(e) ==
  /\ CanReclassify(e)
  /\ Click
  /\ marks' = marks \cup {e}
  /\ reruns' = reruns \cup {[n |-> clicks, event |-> e, tag |-> activeTag,
                             got |-> Unread]}
  /\ alone' = [l \in Lists |-> alone[l] /\ ~ Rerunning /\ fetches = {} /\ loads = {}]
  /\ UNCHANGED <<row, tab, activeTag, events, fetching, fetches, panel, posts,
                 faults, lastFetch, shownBy, moved>>

\* POST /api/events/{eventID}/re-run: the row takes the results of the run.
Rerun(e) ==
  /\ \E tag \in Tags \cup {NoTag} :
       row' = [row EXCEPT ![e] = [tag |-> tag, run |-> @.run + 1]]
  /\ moved' = [l \in Lists |-> TRUE]

ServeRerun(r) ==
  /\ r.got = Unread
  /\ Rerun(r.event)
  /\ reruns' = (reruns \ {r}) \cup {[r EXCEPT !.got = row'[r.event]]}
  /\ UNCHANGED <<tab, activeTag, events, fetching, marks, fetches, panel,
                 posts, clicks, faults, lastFetch, shownBy, alone>>

\* The event of the answer replaces its card, if that is still listed.
Patched(r) ==
  [e \in DOMAIN events |-> IF e = r.event THEN r.got ELSE events[e]]

AnswerRerun(r) ==
  /\ r.got # Unread
  /\ events' = Patched(r)
  /\ marks' = marks \ {r.event}
  /\ reruns' = reruns \ {r}
  /\ UNCHANGED <<row, tab, activeTag, fetching, fetches, panel, posts, clicks,
                 faults, past>>

\* An answer without an event (no JSON): the list is fetched again, with the
\* filter of the moment of the click; the event stays marked until then.
AnswerRerunBare(r) ==
  /\ r.got # Unread
  /\ faults < MaxFaults /\ faults' = faults + 1
  /\ reruns' = reruns \ {r}
  /\ SendFetch(r.n, r.tag, r.event)
  /\ UNCHANGED <<row, tab, activeTag, events, marks, panel, posts, clicks, shownBy>>

RerunFails(r) ==
  /\ Fault
  /\ marks' = marks \ {r.event}
  /\ reruns' = reruns \ {r}
  /\ UNCHANGED <<row, tab, activeTag, events, fetching, fetches, panel, posts,
                 clicks, lastFetch, shownBy, moved>>

---------------------------------------------------------------------------
(***************************************************************************)
(* Existing Messages of SkillsTab.                                         *)
(***************************************************************************)
PickType(t) ==
  /\ tab = Panel /\ t # selected
  /\ Click
  /\ selected' = t
  /\ SendLoad(clicks, t)
  /\ UNCHANGED <<row, tab, board, messages, chosen, bulk, announced, posts,
                 faults, shownBy>>

ServeLoad(m) ==
  /\ m.got = Unread
  /\ \E S \in Pages(NoTag) :
       loads' = (loads \ {m}) \cup {[m EXCEPT !.got = Copies(S)]}
  /\ UNCHANGED <<row, tab, board, selected, messages, loading, chosen, bulk,
                 announced, posts, clicks, faults, past>>

\* Each answer is filtered by the type it was asked for, and none is
\* cancelled by a later selection.
FilteredNot(list, t) == list
Filtered(list, t) == OfType(list, t)

AnswerLoad(m) ==
  /\ m.got # Unread
  /\ messages' = Filtered(m.got, m.type)
  /\ loading' = FALSE
  /\ loads' = loads \ {m}
  /\ shownBy' = [shownBy EXCEPT ![Panel] = m.n]
  /\ UNCHANGED <<row, tab, board, selected, chosen, bulk, announced, posts,
                 clicks, faults, lastFetch, alone, moved>>

FailLoad(m) ==
  /\ Fault
  /\ loading' = FALSE
  /\ loads' = loads \ {m}
  /\ UNCHANGED <<row, tab, board, selected, messages, chosen, bulk, announced,
                 posts, clicks, lastFetch, shownBy, moved>>

\* The checkbox of a message, and the one that takes or leaves them all.
Visible == DOMAIN messages
ToggleEventSelection(e) ==
  /\ tab = Panel /\ e \in Visible
  /\ Click
  /\ chosen' = IF e \in chosen THEN chosen \ {e} ELSE chosen \cup {e}
  /\ UNCHANGED <<row, tab, board, selected, messages, loading, loads, bulk,
                 announced, posts, faults, past>>

ToggleAllVisibleEvents ==
  /\ tab = Panel /\ Visible # {}
  /\ Click
  /\ chosen' = IF Visible \subseteq chosen THEN chosen \ Visible
               ELSE chosen \cup Visible
  /\ UNCHANGED <<row, tab, board, selected, messages, loading, loads, bulk,
                 announced, posts, faults, past>>

\* Reclassify Selected: a re-run of each checked message of the list.
RerunSelectedEvents ==
  /\ tab = Panel
  /\ bulk = NoCall /\ chosen \cap Visible # {}
  /\ Click
  /\ bulk' = [n |-> clicks, type |-> selected, events |-> chosen \cap Visible,
              ran |-> [e \in Events |-> row[e].run], stage |-> "running",
              got |-> Unread]
  /\ posts' = posts \cup
       {[n |-> clicks, event |-> e, done |-> FALSE] : e \in chosen \cap Visible}
  /\ announced' = {}
  /\ alone' = [l \in Lists |-> alone[l] /\ l = Board
                                /\ ~ Rerunning /\ fetches = {}]
  /\ UNCHANGED <<row, tab, board, selected, messages, loading, chosen, loads,
                 faults, lastFetch, shownBy, moved>>

Awaited(p) == bulk # NoCall /\ bulk.n = p.n

ServePost(p) ==
  /\ ~ p.done
  /\ Rerun(p.event)
  /\ posts' = (posts \ {p}) \cup
                (IF Awaited(p) THEN {[p EXCEPT !.done = TRUE]} ELSE {})
  /\ UNCHANGED <<tab, board, panel, clicks, faults, lastFetch, shownBy, alone>>

PostFailsSettled(p) ==
  /\ Fault
  /\ posts' = posts \ {p}
  /\ UNCHANGED <<row, tab, board, panel, clicks, lastFetch, shownBy, moved>>

\* Promise.all gives up at the first re-run that fails; the others go on.
PostFails(p) ==
  /\ Fault
  /\ IF Awaited(p)
     THEN /\ bulk' = NoCall
          /\ posts' = {q \in posts \ {p} : ~ (Awaited(q) /\ q.done)}
     ELSE posts' = posts \ {p} /\ bulk' = bulk
  /\ UNCHANGED <<row, tab, board, selected, messages, loading, chosen, loads,
                 announced, clicks, lastFetch, shownBy, moved>>

\* All are answered: the events are fetched again.
BulkRefetches ==
  /\ bulk # NoCall /\ bulk.stage = "running"
  /\ \A p \in posts : Awaited(p) => p.done
  /\ bulk' = [bulk EXCEPT !.stage = "listing"]
  /\ posts' = {p \in posts : ~ Awaited(p)}
  /\ IF lastFetch[Panel] < bulk.n
     THEN /\ lastFetch' = [lastFetch EXCEPT ![Panel] = bulk.n]
          /\ alone' = [alone EXCEPT ![Panel] = reruns = {} /\ posts' = {}]
          /\ moved' = [moved EXCEPT ![Panel] = FALSE]
     ELSE UNCHANGED <<lastFetch, alone, moved>>
  /\ UNCHANGED <<row, tab, board, selected, messages, loading, chosen, loads,
                 announced, clicks, faults, shownBy>>

ServeBulk ==
  /\ bulk # NoCall /\ bulk.stage = "listing" /\ bulk.got = Unread
  /\ \E S \in Pages(NoTag) : bulk' = [bulk EXCEPT !.got = Copies(S)]
  /\ UNCHANGED <<row, tab, board, selected, messages, loading, chosen, loads,
                 announced, posts, clicks, faults, past>>

AnswerBulk ==
  /\ bulk # NoCall /\ bulk.got # Unread
  /\ messages' = Filtered(bulk.got, bulk.type)
  /\ chosen' = {}
  /\ announced' = bulk.events
  /\ bulk' = NoCall
  /\ shownBy' = [shownBy EXCEPT ![Panel] = bulk.n]
  /\ UNCHANGED <<row, tab, board, selected, loading, loads, posts, clicks,
                 faults, lastFetch, alone, moved>>

FailBulk ==
  /\ bulk # NoCall /\ bulk.stage = "listing"
  /\ Fault
  /\ bulk' = NoCall
  /\ UNCHANGED <<row, tab, board, selected, messages, loading, chosen, loads,
                 announced, posts, clicks, lastFetch, shownBy, moved>>

---------------------------------------------------------------------------
User ==
  \/ \E t \in Lists : OpenTab(t)
  \/ \E tag \in Tags \cup {NoTag} : HandleTagClick(tag)
  \/ RefreshAll
  \/ \E e \in Events : ReclassifyEvent(e) \/ ToggleEventSelection(e)
  \/ \E t \in Types : PickType(t)
  \/ ToggleAllVisibleEvents \/ RerunSelectedEvents

FetchStep(f) ==
  ServeFetch(f) \/ AnswerFetch(f) \/ AnswerFetchBare(f) \/ FailFetch(f)
RerunStep(r) ==
  ServeRerun(r) \/ AnswerRerun(r) \/ AnswerRerunBare(r) \/ RerunFails(r)
LoadStep(m) == ServeLoad(m) \/ AnswerLoad(m) \/ FailLoad(m)
PostStep(p) == ServePost(p) \/ PostFails(p)
BulkStep == BulkRefetches \/ ServeBulk \/ AnswerBulk \/ FailBulk

AnyFetch == \E f \in fetches : FetchStep(f)
AnyRerun == \E r \in reruns : RerunStep(r)
AnyPost == \E p \in posts : PostStep(p)
AnyLoad == \E m \in loads : LoadStep(m)

Next == User \/ AnyFetch \/ AnyRerun \/ AnyLoad \/ AnyPost \/ BulkStep

Spec == Init /\ [][Next]_vars

\* A request the browser has sent is answered or fails; the user owes nothing.
FairSpec ==
  /\ Spec
  /\ WF_vars(AnyFetch) /\ WF_vars(AnyRerun) /\ WF_vars(AnyPost)
  /\ WF_vars(BulkStep)
---------------------------------------------------------------------------
(***************************************************************************)
(* Properties.                                                             *)
(***************************************************************************)

\* Type invariant.
TypeOK ==
  /\ row \in [Events -> Copy]
  /\ tab \in Lists
  /\ activeTag \in Tags \cup {NoTag}
  /\ IsList(events) /\ IsList(messages)
  /\ fetching \in BOOLEAN /\ loading \in BOOLEAN
  /\ marks \subseteq Events /\ chosen \subseteq Events /\ announced \subseteq Events
  /\ \A f \in fetches :
       /\ f \in [n : Nat, tag : Tags \cup {NoTag}, owner : Events \cup {NoEvent}, got : {f.got}]
       /\ f.got = Unread \/ IsList(f.got)
  /\ reruns \subseteq [n : Nat, event : Events, tag : Tags \cup {NoTag},
                       got : Copy \cup {Unread}]
  /\ selected \in Types
  /\ \A m \in loads : /\ m \in [n : Nat, type : Types, got : {m.got}]
                      /\ m.got = Unread \/ IsList(m.got)
  /\ bulk # NoCall =>
       /\ bulk \in [n : Nat, type : Types, events : SUBSET Events, ran : [Events -> Nat],
                   stage : {"running", "listing"}, got : {bulk.got}]
       /\ bulk.got = Unread \/ IsList(bulk.got)
  /\ posts \subseteq [n : Nat, event : Events, done : BOOLEAN]
  /\ clicks \in Nat /\ faults \in Nat
  /\ lastFetch \in [Lists -> Nat] /\ shownBy \in [Lists -> Nat]
  /\ alone \in [Lists -> BOOLEAN] /\ moved \in [Lists -> BOOLEAN]

\* Once the calls on the Storyboard have settled, its cards are the server's
\* rows, and without a re-run since the fetch a page of those of the filter,
\* provided the last fetch was answered last and no re-run overlapped another
\* call.
SettledStoryboard ==
  /\ tab = Board /\ fetches = {} /\ ~ Rerunning
  /\ shownBy[Board] = lastFetch[Board] /\ alone[Board]
  => /\ \A e \in DOMAIN events : events[e] = row[e]
     /\ moved[Board] \/ DOMAIN events \in Pages(activeTag)

\* The same for the messages of the selected listener, which a bulk re-run
\* lists anew: they are the rows of its type in a page of the whole account,
\* not the newest events of that type.
SettledMessages ==
  /\ tab = Panel /\ loads = {} /\ bulk = NoCall /\ ~ Rerunning
  /\ shownBy[Panel] = lastFetch[Panel] /\ alone[Panel] /\ ~ moved[Panel]
  => \E S \in Pages(NoTag) : messages = OfType(Copies(S), selected)

\* "Reclassified n messages" is said only when each of the n has been run
\* again since the click, on the server, whatever failed meanwhile.
AnnouncedReran ==
  [][announced' # announced /\ bulk # NoCall
     => \A e \in announced' : row[e].run > bulk.ran[e]]_vars

\* "Syncing...", RECLASSIFYING and "Reclassifying..." do not stay for ever.
SpinnersStop ==
  /\ fetching ~> ~ fetching
  /\ \A e \in Events : e \in marks ~> e \notin marks
  /\ bulk # NoCall ~> bulk = NoCall
=============================================================================
