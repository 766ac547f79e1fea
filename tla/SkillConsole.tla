----------------------------- MODULE SkillConsole -----------------------------
(***************************************************************************)
(* SkillsTab of the web client (web/src/App.jsx): the listeners and their  *)
(* skills as one browser shows them, the calls it has in flight, and the   *)
(* skill table of the server behind them.                                  *)
(*                                                                         *)
(* The code between two awaits runs to completion, so each such segment is *)
(* one action.  A call is sent when its handler runs, served when the      *)
(* server carries it out, and answered when the code after the await runs; *)
(* answers come back in any order.  A call keeps the values its closure    *)
(* captured: the selection, the options, the list it was made from.        *)
(* Leaving the tab unmounts it with its calls in flight: the server still  *)
(* carries them out, what is left of their code still sends calls, but     *)
(* nothing they answer is shown, and the tab comes back with none of the   *)
(* state it had, the busy flags included.                                  *)
(*                                                                         *)
(* What is abstracted: a skill is its key, which stands for all the fields *)
(* a form edits; the order of the rows in a list; the texts of the notices *)
(* and the two dry-run forms.  The `skills` state of the tab is never      *)
(* rendered and is left out, with the fetch that fills it.                 *)
(***************************************************************************)
EXTENDS Integers, SequencesExt

CONSTANTS
  Types,         \* type keys of the account's listeners
  Stock,         \* webhook_skills when the tab is opened
  ListenerLists, \* sequences of types GET /v1/listeners may answer
  ManualKeys,    \* skill keys a user types
  PackKeys,      \* skill keys of the pack
  PresetKey,     \* the two generated keys of the preset, unique on the server
  NoType, NoSkill, Unread, NoCall, \* nothing there yet
  MaxClicks,     \* bound: clicks that send a call or move the selection
  MaxLeaves,     \* bound: how often the tab is left
  MaxFaults      \* bound: calls that fail

Keys == ManualKeys \cup PackKeys \cup {PresetKey}
Skill == [id : Nat, type : Types, key : Keys]
Save == [n : Nat, type : Types, id : Nat, key : Keys, list : Seq(Skill),
         got : Skill \cup {NoSkill}]
Setup == [op : {"preset", "pack"}, n : Nat, type : Types,
          stage : {"general", "generalFailed", "specific", "refused",
                   "existing", "posting", "listing", "refreshing"},
          got : Seq(Skill) \cup {Unread}]

ASSUME SkillAssumption ==
  /\ NoType \notin Types /\ NoSkill \notin Skill /\ NoCall \notin Save \cup Setup
  /\ PackKeys \cap ManualKeys = {}
  /\ PresetKey \notin PackKeys \cup ManualKeys
  /\ MaxClicks \in Nat /\ MaxLeaves \in Nat /\ MaxFaults \in Nat
  /\ Stock \in Seq([id : Nat, type : Types, key : ManualKeys])
  /\ \A i \in DOMAIN Stock : Stock[i].id = i
  /\ ListenerLists \subseteq Seq(Types)

VARIABLES
  rows,       \* webhook_skills on the server; a row's id is its position
  unique,     \* the store refuses a second row of a key: MySQL does
  listeners,  \* listeners of App: the listenerOptions of the tab
  mounting,   \* how many fetchListeners of App are in flight that no setup awaits
  open,       \* the tab is mounted
  selected,   \* selectedTypeKey
  byType,     \* allSkillsByType
  counts,     \* skillCounts
  prefetches, \* effect runs that fetch every type's skills and are not cancelled
  creates,    \* POSTs of createSkill in flight
  saving,     \* the PUT of saveSkill, while savingSkill is set
  setup,      \* applyPreset or applySkillPack, while presetBusy is set
  posts,      \* POSTs of skill packs in flight, also of runs that gave up, and
              \* the unserved POSTs of createSkill of a tab that was left
  puts,       \* unserved PUTs of saveSkill of a tab that was left
  left,       \* runs of applyPreset and applySkillPack of a tab that was left
  clicks,     \* clicks so far; numbers the calls
  leaves,     \* how often the tab was left
  faults,     \* failed calls so far
  cleared,    \* history: types with skills whose count an empty list of
              \* listeners set to 0, until an answer counts them anew
  overlapped, \* history: types on which a pack was applied while calls of an
              \* earlier application were still in flight
  clean       \* history: since the last prefetch began no call failed and no
              \* write overlapped it or another write

screen == <<listeners, open, selected, byType, counts, cleared>>
calls == <<mounting, prefetches, creates, saving, setup, posts, puts, left>>
vars == <<rows, unique, screen, calls, clicks, leaves, faults, overlapped, clean>>

\* GET /api/policy/skills: every row of a type, disabled ones included, once
\* each in some order.
Listing(t) == SetToSeq({s \in Range(rows) : s.type = t})

\* Whether the store takes key k for type t: a row other than id has it not.
Takes(t, k, id) ==
  ~ unique \/ \A i \in DOMAIN rows :
                    rows[i].type = t /\ rows[i].key = k => i = id
NewRow(t, k) == [id |-> Len(rows) + 1, type |-> t, key |-> k]

Writing == \/ creates # {} \/ posts # {} \/ puts # {} \/ left # {}
           \/ saving # NoCall
           \/ setup # NoCall /\ setup.stage # "refreshing"
Prefetching == prefetches # {}

Click == clicks < MaxClicks /\ clicks' = clicks + 1
Fault == faults < MaxFaults /\ faults' = faults + 1 /\ clean' = FALSE
StartWrite == clean' = (clean /\ ~ Writing /\ ~ Prefetching)

NoSkills == [t \in Types |-> <<>>]
Zeros == [t \in Types |-> 0]

Init ==
  /\ rows = Stock
  /\ unique \in BOOLEAN
  /\ listeners = <<>> /\ open = TRUE
  /\ mounting = 1
  /\ selected = NoType
  /\ byType = NoSkills /\ counts = Zeros
  /\ prefetches = {} /\ creates = {} /\ posts = {}
  /\ saving = NoCall /\ setup = NoCall
  /\ puts = {} /\ left = {}
  /\ clicks = 0 /\ leaves = 0 /\ faults = 0
  /\ cleared = {} /\ overlapped = {} /\ clean = TRUE

---------------------------------------------------------------------------
(***************************************************************************)
(* Selection and prefetch: the effects on [listenerOptions,                *)
(* selectedTypeKey].                                                       *)
(***************************************************************************)

\* The effect's cleanup cancels the runs before it: their answers change
\* nothing, so they are dropped at once.
UncancelledAll(runs) == runs
Uncancelled(runs) == {}

\* Every listener's skills are fetched anew.
Prefetch(sel, opts, others) ==
  /\ prefetches' = Uncancelled(others)
       \cup {[sel |-> sel, opts |-> opts, got |-> [t \in Types |-> Unread]]}
  /\ clean' = ~ Writing

SetListenersKept(ls) ==
  /\ listeners' = ls
  /\ selected' = selected
  /\ Prefetch(selected', ls, prefetches)
  /\ UNCHANGED <<counts, cleared>>

\* setListeners in App makes new options; a selection that is not among them
\* falls back on the first.  Without any the counts are dropped, and the lists
\* of skills are kept for when the listeners are back.
SetListeners(ls) ==
  /\ listeners' = ls
  /\ IF ls = <<>>
     THEN /\ selected' = NoType /\ counts' = Zeros
          /\ cleared' = {t \in Types : byType[t] # <<>>}
          /\ prefetches' = Uncancelled(prefetches) /\ clean' = FALSE
     ELSE /\ selected' = IF selected \in Range(ls) THEN selected ELSE ls[1]
          /\ Prefetch(selected', ls, prefetches)
          /\ UNCHANGED <<counts, cleared>>

ListenersAnswer ==
  /\ mounting > 0
  /\ mounting' = mounting - 1
  /\ \E ls \in ListenerLists :
       IF open THEN SetListeners(ls)
       ELSE /\ listeners' = ls
            /\ UNCHANGED <<selected, counts, cleared, prefetches, clean>>
  /\ UNCHANGED <<rows, unique, open, byType, creates, saving, setup, posts, puts,
                 left, clicks, leaves, faults, overlapped>>

\* App logs the error and keeps the listeners it had.
ListenersFail ==
  /\ mounting > 0
  /\ mounting' = mounting - 1
  /\ Fault
  /\ UNCHANGED <<rows, unique, screen, prefetches, creates, saving, setup, posts,
                 puts, left, clicks, leaves, overlapped>>

\* Skill Target: the user picks another listener.
PickType(t) ==
  /\ open /\ t \in Range(listeners) \ {selected}
  /\ Click
  /\ selected' = t
  /\ Prefetch(t, listeners, prefetches)
  /\ UNCHANGED <<rows, unique, listeners, open, byType, counts, cleared, mounting,
                 creates, saving, setup, posts, puts, left, leaves, faults, overlapped>>

ServePrefetch(p, t) ==
  /\ t \in Range(p.opts) /\ p.got[t] = Unread
  /\ prefetches' = (prefetches \ {p}) \cup {[p EXCEPT !.got[t] = Listing(t)]}
  /\ UNCHANGED <<rows, unique, screen, mounting, creates, saving, setup, posts,
                 puts, left, clicks, leaves, faults, overlapped, clean>>

\* Promise.all fulfils once every list is there.
Fetched(p) == \A t \in Range(p.opts) : p.got[t] # Unread

\* The options with skills; the tab leaves a first listener that has none for
\* the first of them.
Stocked(p) == {i \in DOMAIN p.opts : Len(p.got[p.opts[i]]) > 0}
FirstStocked(p) ==
  p.opts[CHOOSE i \in Stocked(p) : \A j \in Stocked(p) : i <= j]
Leaves(p) == p.sel = p.opts[1] /\ p.got[p.sel] = <<>> /\ Stocked(p) # {}

AnswerPrefetch(p) ==
  /\ Fetched(p)
  /\ byType' = [t \in Types |-> IF t \in Range(p.opts) THEN p.got[t] ELSE <<>>]
  /\ counts' = [t \in Types |-> Len(byType'[t])]
  /\ cleared' = {}
  /\ IF Leaves(p)
     THEN /\ selected' = FirstStocked(p)
          /\ Prefetch(selected', listeners, prefetches \ {p})
     ELSE /\ prefetches' = prefetches \ {p}
          /\ UNCHANGED <<selected, clean>>
  /\ UNCHANGED <<rows, unique, listeners, open, mounting, creates, saving, setup,
                 posts, puts, left, clicks, leaves, faults, overlapped>>

\* One list that cannot be had rejects them all; the screen stays as it was.
FailPrefetch(p) ==
  /\ Fault
  /\ prefetches' = prefetches \ {p}
  /\ UNCHANGED <<rows, unique, screen, mounting, creates, saving, setup, posts,
                 puts, left, clicks, leaves, overlapped>>

---------------------------------------------------------------------------
(***************************************************************************)
(* Create Skill.                                                           *)
(***************************************************************************)

\* The form is there with the first listener, and its button is never
\* disabled: several creations may be in flight.
CreateForm == listeners # <<>> /\ selected # NoType

CreateSkill(k) ==
  /\ CreateForm
  /\ Click
  /\ creates' = creates \cup
       {[n |-> clicks, type |-> selected, key |-> k, got |-> NoSkill]}
  /\ StartWrite
  /\ UNCHANGED <<rows, unique, screen, mounting, prefetches, saving, setup, posts,
                 puts, left, leaves, faults, overlapped>>

CreateWebhookSkill(c) ==
  /\ c.got = NoSkill
  /\ Takes(c.type, c.key, 0)
  /\ rows' = Append(rows, NewRow(c.type, c.key))
  /\ creates' = (creates \ {c}) \cup {[c EXCEPT !.got = NewRow(c.type, c.key)]}
  /\ UNCHANGED <<unique, screen, mounting, prefetches, saving, setup, posts, puts,
                 left, clicks, leaves, faults, overlapped, clean>>

AnswerCreateUncounted(c) ==
  /\ c.got # NoSkill
  /\ byType' = [byType EXCEPT ![c.type] = <<c.got>> \o @]
  /\ creates' = creates \ {c}
  /\ UNCHANGED <<rows, unique, listeners, open, selected, counts, cleared, mounting,
                 prefetches, saving, setup, posts, puts, left, clicks, leaves,
                 faults, overlapped, clean>>

\* The new row is put before the list and counted.
AnswerCreate(c) ==
  /\ c.got # NoSkill
  /\ byType' = [byType EXCEPT ![c.type] = <<c.got>> \o @]
  /\ counts' = [counts EXCEPT ![c.type] = @ + 1]
  /\ creates' = creates \ {c}
  /\ UNCHANGED <<rows, unique, listeners, open, selected, cleared, mounting,
                 prefetches, saving, setup, posts, puts, left, clicks, leaves,
                 faults, overlapped, clean>>

\* An error is shown as a notice: the store refused the key, or the call
\* failed before or after it was served.
CreateFails(c) ==
  /\ \/ c.got = NoSkill /\ ~ Takes(c.type, c.key, 0) /\ UNCHANGED <<faults, clean>>
     \/ Fault
  /\ creates' = creates \ {c}
  /\ UNCHANGED <<rows, unique, screen, mounting, prefetches, saving, setup, posts,
                 puts, left, clicks, leaves, overlapped>>

---------------------------------------------------------------------------
(***************************************************************************)
(* Editing a skill on its card.                                            *)
(***************************************************************************)

\* The cards the tab renders, each with its Edit Skill button; the form that
\* the button opens is that card's until it is saved or left.
Cards == UNION {{[type |-> t, id |-> byType[t][i].id] : i \in DOMAIN byType[t]} :
                 t \in Range(listeners)}

\* The Save button of the form, disabled while a save is in flight.
SaveEnabled == saving = NoCall

SaveSkill(card, k) ==
  /\ SaveEnabled
  /\ Click
  /\ saving' = [n |-> clicks, type |-> card.type, id |-> card.id, key |-> k,
                list |-> byType[card.type], got |-> NoSkill]
  /\ StartWrite
  /\ UNCHANGED <<rows, unique, screen, mounting, prefetches, creates, setup, posts,
                 puts, left, leaves, faults, overlapped>>

UpdateWebhookSkill ==
  /\ saving # NoCall
  /\ saving.got = NoSkill
  /\ Takes(saving.type, saving.key, saving.id)
  /\ rows' = [rows EXCEPT ![saving.id].key = saving.key]
  /\ saving' = [saving EXCEPT !.got = rows'[saving.id]]
  /\ UNCHANGED <<unique, screen, mounting, prefetches, creates, setup, posts, puts,
                 left, clicks, leaves, faults, overlapped, clean>>

WithSavedByKey(s) ==
  [i \in DOMAIN s.list |->
     IF s.list[i].key = s.got.key THEN s.got ELSE s.list[i]]

\* The list of the moment of the click, with the saved row in its place.
WithSaved(s) ==
  [i \in DOMAIN s.list |-> IF s.list[i].id = s.id THEN s.got ELSE s.list[i]]

AnswerSave ==
  /\ saving # NoCall
  /\ saving.got # NoSkill
  /\ byType' = [byType EXCEPT ![saving.type] = WithSaved(saving)]
  /\ counts' = [counts EXCEPT ![saving.type] = Len(WithSaved(saving))]
  /\ cleared' = cleared \ {saving.type}
  /\ saving' = NoCall
  /\ UNCHANGED <<rows, unique, listeners, open, selected, mounting, prefetches,
                 creates, setup, posts, puts, left, clicks, leaves, faults,
                 overlapped, clean>>

SaveFails ==
  /\ saving # NoCall
  /\ \/ /\ saving.got = NoSkill
        /\ ~ Takes(saving.type, saving.key, saving.id)
        /\ UNCHANGED <<faults, clean>>
     \/ Fault
  /\ saving' = NoCall
  /\ UNCHANGED <<rows, unique, screen, mounting, prefetches, creates, setup, posts,
                 puts, left, clicks, leaves, overlapped>>

---------------------------------------------------------------------------
(***************************************************************************)
(* Bootstrap Provider Skills: the preset and the skill packs share         *)
(* presetBusy, which disables their buttons.                               *)
(***************************************************************************)
PresetEnabledAlways == selected \in Range(listeners)
PresetEnabled == setup = NoCall /\ selected \in Range(listeners)

\* A run that gave up or was left leaves its other POSTs to themselves.
Awaited(p) == setup # NoCall /\ setup.n = p.n

\* Calls of an application of a pack to t that no presetBusy stands for.
Strays(t) ==
  \/ \E p \in posts : ~ Awaited(p) /\ p.type = t /\ p.key \in PackKeys
  \/ \E s \in left : s.type = t /\ s.op = "pack"

StartSetup(op, stage) ==
  /\ PresetEnabled
  /\ Click
  /\ setup' = [op |-> op, n |-> clicks, type |-> selected, stage |-> stage,
               got |-> Unread]
  /\ StartWrite
  /\ UNCHANGED <<rows, unique, screen, mounting, prefetches, creates, saving, posts,
                 puts, left, leaves, faults>>

ApplyPreset == StartSetup("preset", "general") /\ UNCHANGED overlapped
ApplySkillPack ==
  /\ StartSetup("pack", "existing")
  /\ overlapped' = overlapped \cup {t \in {selected} : Strays(t)}

At(stage) == setup # NoCall /\ setup.stage = stage
Goto(stage) == setup' = [setup EXCEPT !.stage = stage, !.got = Unread]

\* ApplyWebhookProcessingPreset inserts two skills, the second whether or not
\* the first went in, and answers an error if either did not.
Inserted == [general |-> "specific", generalFailed |-> "refused", specific |-> "listing"]
Refused == [general |-> "generalFailed", specific |-> "refused"]

InsertPresetSkill ==
  /\ \E stage \in DOMAIN Inserted : At(stage) /\ Goto(Inserted[stage])
  /\ rows' = Append(rows, NewRow(setup.type, PresetKey))
  /\ UNCHANGED <<unique, screen, mounting, prefetches, creates, saving, posts, puts,
                 left, clicks, leaves, faults, overlapped, clean>>

PresetInsertFails ==
  /\ \E stage \in DOMAIN Refused : At(stage) /\ Goto(Refused[stage])
  /\ Fault
  /\ UNCHANGED <<rows, unique, screen, mounting, prefetches, creates, saving, posts,
                 puts, left, clicks, leaves, overlapped>>

\* fetchSkillsForType, before the POSTs of a pack and after preset and pack.
ServeListing ==
  /\ At("existing") \/ At("listing")
  /\ setup.got = Unread
  /\ setup' = [setup EXCEPT !.got = Listing(setup.type)]
  /\ UNCHANGED <<rows, unique, screen, mounting, prefetches, creates, saving, posts,
                 puts, left, clicks, leaves, faults, overlapped, clean>>

\* The skills of the pack the listener does not have, each by a POST of its
\* own; none missing ends the call with "already installed".
Missing(list) == PackKeys \ {list[i].key : i \in DOMAIN list}
PackPosts(s) ==
  {[n |-> s.n, type |-> s.type, key |-> k, done |-> FALSE] : k \in Missing(s.got)}

PackStarts ==
  /\ At("existing") /\ setup.got # Unread
  /\ IF Missing(setup.got) = {} THEN setup' = NoCall ELSE Goto("posting")
  /\ posts' = posts \cup PackPosts(setup)
  /\ UNCHANGED <<rows, unique, screen, mounting, prefetches, creates, saving, puts,
                 left, clicks, leaves, faults, overlapped, clean>>

ServePost(p) ==
  /\ ~ p.done /\ Takes(p.type, p.key, 0)
  /\ rows' = Append(rows, NewRow(p.type, p.key))
  /\ posts' = (posts \ {p}) \cup
                (IF Awaited(p) THEN {[p EXCEPT !.done = TRUE]} ELSE {})
  /\ UNCHANGED <<unique, screen, mounting, prefetches, creates, saving, setup, puts,
                 left, clicks, leaves, faults, overlapped, clean>>

\* Promise.all rejects with the first POST that fails, presetBusy is cleared.
\* One whose answer is lost may still be served.
Rejected(p, others) ==
  IF Awaited(p)
  THEN setup' = NoCall /\ posts' = {q \in others : ~ (Awaited(q) /\ q.done)}
  ELSE posts' = others /\ UNCHANGED setup

PostFails(p) ==
  /\ \/ /\ ~ p.done /\ ~ Takes(p.type, p.key, 0)
        /\ Rejected(p, posts \ {p})
        /\ UNCHANGED <<faults, clean>>
     \/ /\ Fault
        /\ \/ Rejected(p, posts \ {p})
           \/ Awaited(p) /\ Rejected(p, posts)
  /\ UNCHANGED <<rows, unique, screen, mounting, prefetches, creates, saving, puts,
                 left, clicks, leaves, overlapped>>

PackPosted ==
  /\ At("posting")
  /\ \A p \in posts : Awaited(p) => p.done
  /\ Goto("listing")
  /\ posts' = {p \in posts : ~ Awaited(p)}
  /\ UNCHANGED <<rows, unique, screen, mounting, prefetches, creates, saving, puts,
                 left, clicks, leaves, faults, overlapped, clean>>

\* The list is shown under the type the call was started for; the preset then
\* waits for onRefreshListeners.
AnswerListing ==
  /\ At("listing") /\ setup.got # Unread
  /\ byType' = [byType EXCEPT ![setup.type] = setup.got]
  /\ counts' = [counts EXCEPT ![setup.type] = Len(setup.got)]
  /\ cleared' = cleared \ {setup.type}
  /\ IF setup.op = "preset" THEN Goto("refreshing") ELSE setup' = NoCall
  /\ UNCHANGED <<rows, unique, listeners, open, selected, mounting, prefetches,
                 creates, saving, posts, puts, left, clicks, leaves, faults,
                 overlapped, clean>>

AnswerRefresh ==
  /\ At("refreshing")
  /\ \E ls \in ListenerLists : SetListeners(ls)
  /\ setup' = NoCall
  /\ UNCHANGED <<rows, unique, open, byType, mounting, creates, saving, posts, puts,
                 left, clicks, leaves, faults, overlapped>>

\* The answer is an error, or the call fails on the way: finally clears
\* presetBusy.
SetupFails ==
  /\ setup # NoCall /\ setup.stage # "posting"
  /\ \/ At("refused") /\ UNCHANGED <<faults, clean>>
     \/ Fault
  /\ setup' = NoCall
  /\ UNCHANGED <<rows, unique, screen, mounting, prefetches, creates, saving, posts,
                 puts, left, clicks, leaves, overlapped>>

---------------------------------------------------------------------------
(***************************************************************************)
(* Leaving the tab and coming back.  App sends a fetchListeners each time. *)
(***************************************************************************)

\* The calls that go on: what the server has not carried out yet, and runs of
\* a setup that have a call to send.
Unserved ==
  {p \in posts : ~ p.done} \cup
  {[n |-> c.n, type |-> c.type, key |-> c.key, done |-> FALSE] :
     c \in {c \in creates : c.got = NoSkill}}
GoesOn(s) ==
  \/ s.stage \in {"general", "generalFailed", "specific", "existing"}
  \/ s.stage = "listing" /\ s.op = "preset"

Leave ==
  /\ open /\ open' = FALSE
  /\ leaves < MaxLeaves /\ leaves' = leaves + 1
  /\ mounting' = mounting + (IF At("refreshing") THEN 2 ELSE 1)
  /\ selected' = NoType /\ byType' = NoSkills /\ counts' = Zeros
  /\ cleared' = {} /\ clean' = FALSE
  /\ prefetches' = {} /\ creates' = {} /\ saving' = NoCall /\ setup' = NoCall
  /\ posts' = Unserved
  /\ puts' = puts \cup {s \in {saving} : s # NoCall /\ s.got = NoSkill}
  /\ left' = left \cup {s \in {setup} : s # NoCall /\ GoesOn(s)}
  /\ UNCHANGED <<rows, unique, listeners, clicks, faults, overlapped>>

Return ==
  /\ ~ open /\ open' = TRUE
  /\ mounting' = mounting + 1
  /\ IF listeners = <<>> THEN UNCHANGED <<selected, prefetches, clean>>
     ELSE selected' = listeners[1] /\ Prefetch(selected', listeners, {})
  /\ UNCHANGED <<rows, unique, listeners, byType, counts, cleared, creates, saving,
                 setup, posts, puts, left, clicks, leaves, faults, overlapped>>

\* A PUT of a tab that was left; nobody hears of its answer.
ServePut(s) ==
  /\ \/ /\ Takes(s.type, s.key, s.id)
        /\ rows' = [rows EXCEPT ![s.id].key = s.key]
        /\ UNCHANGED <<faults, clean>>
     \/ ~ Takes(s.type, s.key, s.id) /\ UNCHANGED <<rows, faults, clean>>
     \/ Fault /\ UNCHANGED rows
  /\ puts' = puts \ {s}
  /\ UNCHANGED <<unique, screen, mounting, prefetches, creates, saving, setup, posts,
                 left, clicks, leaves, overlapped>>

\* A setup of a tab that was left goes on through the same stages.
On(s, stage) ==
  left' = (left \ {s}) \cup {[s EXCEPT !.stage = stage, !.got = Unread]}
Off(s) == left' = left \ {s}

LeftInsert(s) ==
  /\ s.stage \in DOMAIN Inserted
  /\ IF s.stage = "generalFailed" THEN Off(s) ELSE On(s, Inserted[s.stage])
  /\ rows' = Append(rows, NewRow(s.type, PresetKey))
  /\ UNCHANGED <<unique, screen, mounting, prefetches, creates, saving, setup, posts,
                 puts, clicks, leaves, faults, overlapped, clean>>

LeftInsertFails(s) ==
  /\ s.stage = "general" /\ On(s, "generalFailed")
  /\ Fault
  /\ UNCHANGED <<rows, unique, screen, mounting, prefetches, creates, saving, setup,
                 posts, puts, clicks, leaves, overlapped>>

LeftRefreshes(s) ==
  /\ s.stage = "listing" /\ Off(s)
  /\ mounting' = mounting + 1
  /\ UNCHANGED <<rows, unique, screen, prefetches, creates, saving, setup, posts,
                 puts, clicks, leaves, faults, overlapped, clean>>

LeftServeListing(s) ==
  /\ s.stage = "existing" /\ s.got = Unread
  /\ left' = (left \ {s}) \cup {[s EXCEPT !.got = Listing(s.type)]}
  /\ UNCHANGED <<rows, unique, screen, mounting, prefetches, creates, saving, setup,
                 posts, puts, clicks, leaves, faults, overlapped, clean>>

LeftPackStarts(s) ==
  /\ s.stage = "existing" /\ s.got # Unread /\ Off(s)
  /\ posts' = posts \cup PackPosts(s)
  /\ UNCHANGED <<rows, unique, screen, mounting, prefetches, creates, saving, setup,
                 puts, clicks, leaves, faults, overlapped, clean>>

LeftFails(s) ==
  /\ Fault /\ Off(s)
  /\ UNCHANGED <<rows, unique, screen, mounting, prefetches, creates, saving, setup,
                 posts, puts, clicks, leaves, overlapped>>

---------------------------------------------------------------------------
User ==
  \/ \E t \in Types : PickType(t)
  \/ \E k \in ManualKeys : CreateSkill(k) \/ \E card \in Cards : SaveSkill(card, k)
  \/ ApplyPreset \/ ApplySkillPack \/ Leave \/ Return

PrefetchStep(p) ==
  \/ \E t \in Types : ServePrefetch(p, t)
  \/ AnswerPrefetch(p) \/ FailPrefetch(p)
CreateStep(c) == CreateWebhookSkill(c) \/ AnswerCreate(c) \/ CreateFails(c)
SaveStep == UpdateWebhookSkill \/ AnswerSave \/ SaveFails
SetupStep ==
  \/ InsertPresetSkill \/ PresetInsertFails \/ ServeListing \/ PackStarts
  \/ PackPosted \/ AnswerListing \/ AnswerRefresh \/ SetupFails
PostStep(p) == ServePost(p) \/ PostFails(p)
LeftStep(s) ==
  \/ LeftInsert(s) \/ LeftInsertFails(s) \/ LeftRefreshes(s)
  \/ LeftServeListing(s) \/ LeftPackStarts(s) \/ LeftFails(s)

Next ==
  \/ ListenersAnswer \/ ListenersFail \/ User \/ SaveStep \/ SetupStep
  \/ \E p \in prefetches : PrefetchStep(p)
  \/ \E c \in creates : CreateStep(c)
  \/ \E p \in posts : PostStep(p)
  \/ \E s \in puts : ServePut(s)
  \/ \E s \in left : LeftStep(s)

Spec == Init /\ [][Next]_vars
---------------------------------------------------------------------------
(***************************************************************************)
(* Properties.                                                             *)
(***************************************************************************)

\* Type invariant.
TypeOK ==
  /\ rows \in Seq(Skill)
  /\ listeners \in Seq(Types)
  /\ unique \in BOOLEAN /\ open \in BOOLEAN
  /\ mounting \in Nat
  /\ selected \in Types \cup {NoType}
  /\ byType \in [Types -> Seq(Skill)]
  /\ counts \in [Types -> Nat]
  /\ prefetches \subseteq
       [sel : Types, opts : Seq(Types), got : [Types -> Seq(Skill) \cup {Unread}]]
  /\ creates \subseteq
       [n : Nat, type : Types, key : Keys, got : Skill \cup {NoSkill}]
  /\ saving \in Save \cup {NoCall} /\ puts \subseteq Save
  /\ setup \in Setup \cup {NoCall} /\ left \subseteq Setup
  /\ posts \subseteq
       [n : Nat, type : Types, key : PackKeys \cup ManualKeys, done : BOOLEAN]
  /\ clicks \in Nat /\ leaves \in Nat /\ faults \in Nat
  /\ cleared \subseteq Types /\ overlapped \subseteq Types /\ clean \in BOOLEAN

\* The number beside a listener is the length of the list on its card, though
\* six handlers keep the two by calls that overtake each other; only an empty
\* list of listeners parts them, until the type's skills are read again.
CountsMatchLists == \A t \in Types \ cleared : counts[t] = Len(byType[t])

\* Each row is one card, and every skill of the listener has one.
Mirrors(list, t) ==
  /\ Range(list) = Range(Listing(t))
  /\ Len(list) = Len(Listing(t))

\* Once the calls have settled the cards are the server's skills, provided no
\* call failed and no write, one of a tab left earlier included, overlapped
\* another call the tab still heeds: prefetches of earlier selections may
\* answer at any time.
SettledScreen ==
  clean /\ ~ Writing /\ ~ Prefetching =>
    \A t \in Range(listeners) : Mirrors(byType[t], t)

\* The tab itself moves the selection only off a first listener without
\* skills, on to one that has some: a late prefetch never undoes a pick.
OnlyEmptyFirstIsLeft ==
  [][selected' # selected /\ clicks' = clicks /\ listeners' = listeners
       /\ open /\ open'
     => /\ listeners # <<>> /\ selected = listeners[1]
        /\ byType'[selected] = <<>> /\ byType'[selected'] # <<>>]_vars

\* A pack is installed once: a second application finds what the first one
\* created, also when that one was cut short or the tab was left meanwhile.
\* Only one that starts while POSTs or the lookup of an earlier one are still
\* on their way, which a failed call or leaving the tab makes possible, may
\* find less than there will be.
PackInstalledOnce ==
  \A i, j \in DOMAIN rows :
    /\ rows[i].type = rows[j].type /\ rows[i].key = rows[j].key
    /\ rows[i].key \in PackKeys /\ rows[i].type \notin overlapped
    => i = j
=============================================================================
