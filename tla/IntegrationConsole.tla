-------------------------- MODULE IntegrationConsole --------------------------
(***************************************************************************)
(* The registries of the web client (web/src/App.jsx): forward targets     *)
(* (IntegrationsTab), integration secrets (IntegrationSecretsTab) and LLM  *)
(* providers (BYOKSettings), each one form, one list and the calls behind  *)
(* them, and the three tables of the server.  The tabs are built alike, so *)
(* an action serves the kinds that have its button; where the handlers of  *)
(* the kinds differ the action says so.                                    *)
(*                                                                         *)
(* A handler runs to completion between two awaits: one action.  A call is *)
(* sent, served and answered; answers overtake each other.  Leaving a tab  *)
(* drops its state and the answers it waits for, not the calls.            *)
(*                                                                         *)
(* What is abstracted: a row is its key and one value, for all the other   *)
(* fields; a typed value is told from every other one by the click that    *)
(* typed it and the row it was typed for.  Notices and expanded cards are  *)
(* left out, and the secrets that IntegrationsTab offers as references.    *)
(***************************************************************************)
EXTENDS Naturals, Functions

CONSTANTS
  Keys,      \* target_key, secret_key, provider
  StockKey,  \* the stored rows when the page opens: id -> key
  None,      \* no row: the form creates
  NoKey, Blank, Unread, NoCall, \* nothing there yet
  FirstClick, \* number of the first click, above the stored ids
  MaxClicks, \* bound: number of the last click
  MaxFaults  \* bound: calls that fail

Kinds == {"target", "secret", "provider"}

\* A typed value: its click and the row it was typed for.
Typed == [n : Nat, for : Nat \cup {None}]
Val == {Blank} \cup Typed
Saves == [n : Nat, id : Nat \cup {None}, key : Keys, val : Val,
          stage : {"sent", "served", "listing"}]
Removes == [n : Nat, id : Nat, edited : Nat \cup {None}, done : BOOLEAN]

ASSUME IntegrationAssumption ==
  /\ NoKey \notin Keys /\ None \notin Nat \cup Keys
  /\ Blank \notin Typed /\ NoCall \notin Saves
  /\ StockKey \in [1..(FirstClick - 1) -> Keys]
  /\ \A i, j \in DOMAIN StockKey : StockKey[i] = StockKey[j] => i = j
  /\ FirstClick \in Nat \ {0} /\ MaxClicks \in Nat /\ MaxFaults \in Nat

VARIABLES
  rows,     \* forward_targets, integration_secrets, byok_provider_configs
  tab,      \* the registry on the screen
  list,     \* targets, secrets, providers
  form,     \* editingTargetID or editingSecretID, and the form
  fetches,  \* refreshes in flight
  save,     \* persistTarget, persistSecret or save, while the saving flag is set
  removes,  \* deleteTarget or deleteSecret in flight
  ghosts,   \* unserved calls of a tab that was left
  clicks,   \* number of the next click; numbers the calls and the new rows
  faults,   \* faults so far
  late,     \* history: the row being edited was already deleted, or being so
  lost      \* history: values whose saving failed after it may have been served

screen == <<tab, list, form>>
calls == <<fetches, save, removes, ghosts>>
past == <<late, lost>>
vars == <<rows, screen, calls, clicks, faults, past>>

EmptyForm == [id |-> None, key |-> NoKey, val |-> Blank]
NoRows == [i \in {} |-> EmptyForm]

Click == clicks < MaxClicks /\ clicks' = clicks + 1
Fault == faults < MaxFaults /\ faults' = faults + 1

Writing == \/ save # NoCall /\ save.stage # "listing"
           \/ removes # {}
           \/ \E g \in ghosts : g.kind = tab

\* fetchTargets, fetchSecrets or fetchProviders, by itself or awaited by a
\* save or a deletion.
SendFetch(n, owner) ==
  fetches' = fetches \cup {[n |-> n, owner |-> owner, got |-> Unread]}

Init ==
  /\ rows = [k \in Kinds |->
       IF k = "provider" THEN NoRows
       ELSE [i \in DOMAIN StockKey |-> [key |-> StockKey[i], val |-> [n |-> 0, for |-> i]]]]
  /\ tab \in Kinds
  /\ list = NoRows /\ form = EmptyForm
  /\ fetches = {[n |-> 0, owner |-> "tab", got |-> Unread]}
  /\ save = NoCall /\ removes = {} /\ ghosts = {}
  /\ clicks = FirstClick /\ faults = 0
  /\ late = FALSE /\ lost = {}

---------------------------------------------------------------------------
(***************************************************************************)
(* The tables.                                                             *)
(***************************************************************************)
KeyTaken(k, c) == \E i \in DOMAIN rows[k] : rows[k][i].key = c.key /\ i # c.id

\* An unknown id is answered 404, a second secret of a key is refused by the
\* store, a provider without a key by the handler.
Refuses(k, c) ==
  \/ c.id # None /\ c.id \notin DOMAIN rows[k]
  \/ k = "secret" /\ KeyTaken(k, c)
  \/ k = "provider" /\ c.val = Blank

\* Create and update; a provider is inserted or overwritten under its name.
RowOf(k, c) == IF k = "provider" THEN c.key ELSE IF c.id = None THEN c.n ELSE c.id

\* A blank value keeps the stored secret.
Stored(k, c) ==
  [key |-> c.key,
   val |-> IF k = "secret" /\ c.id # None /\ c.val = Blank
           THEN rows[k][c.id].val ELSE c.val]

Put(k, c) ==
  rows' = [rows EXCEPT ![k] = [i \in DOMAIN @ \cup {RowOf(k, c)} |->
             IF i = RowOf(k, c) THEN Stored(k, c) ELSE @[i]]]
Drop(k, id) == rows' = [rows EXCEPT ![k] = Restrict(@, DOMAIN @ \ {id})]

---------------------------------------------------------------------------
(***************************************************************************)
(* The tab, its list and its form.                                         *)
(***************************************************************************)
Unserved ==
  {[kind |-> tab, op |-> "save", c |-> s] :
      s \in {s \in {save} : s # NoCall /\ s.stage = "sent"}}
  \cup {[kind |-> tab, op |-> "remove", c |-> r] : r \in {r \in removes : ~ r.done}}

OpenTab(k) ==
  /\ k # tab
  /\ Click
  /\ tab' = k
  /\ list' = NoRows /\ form' = EmptyForm
  /\ save' = NoCall /\ removes' = {}
  /\ ghosts' = ghosts \cup Unserved
  /\ fetches' = {[n |-> clicks, owner |-> "tab", got |-> Unread]}
  /\ late' = FALSE
  /\ UNCHANGED <<rows, faults, lost>>

\* A call nobody waits for is served, or fails.
ServeGhost(g) ==
  /\ \/ UNCHANGED rows
     \/ g.op = "save" /\ ~ Refuses(g.kind, g.c) /\ Put(g.kind, g.c)
     \/ g.op = "remove" /\ Drop(g.kind, g.c.id)
  /\ ghosts' = ghosts \ {g}
  /\ UNCHANGED <<screen, fetches, save, removes, clicks, faults, past>>

\* The refresh buttons; BYOKSettings has none.
Refresh ==
  /\ tab # "provider"
  /\ Click
  /\ SendFetch(clicks, "tab")
  /\ UNCHANGED <<rows, tab, list, form, save, removes, ghosts, faults, late,
                 lost>>

\* A field is typed into: the key, the value, or both.
Type(key, touch) ==
  /\ key # form.key \/ touch
  /\ Click
  /\ form' = [form EXCEPT !.key = key,
                          !.val = IF touch THEN [n |-> clicks, for |-> form.id] ELSE @]
  /\ UNCHANGED <<rows, tab, list, calls, faults, past>>

BeginEditKept(id) ==
  /\ id \in DOMAIN list /\ tab # "provider"
  /\ Click
  /\ form' = [form EXCEPT !.id = id, !.key = list[id].key]
  /\ late' = (id \notin DOMAIN rows[tab])
  /\ UNCHANGED <<rows, tab, list, calls, faults, lost>>

\* Edit Integration copies the record of the list into the form, Rotate
\* leaves the value blank.
BeginEdit(id) ==
  /\ id \in DOMAIN list /\ tab # "provider"
  /\ Click
  /\ form' = [id |-> id, key |-> list[id].key,
              val |-> IF tab = "target" THEN list[id].val ELSE Blank]
  /\ late' = \/ id \notin DOMAIN rows[tab]
             \/ \E r \in removes : r.id = id
             \/ \E g \in ghosts : g.kind = tab /\ g.op = "remove" /\ g.c.id = id
  /\ UNCHANGED <<rows, tab, list, calls, faults, lost>>

\* Reset and Cancel, shown while a row is edited.
CancelEdit ==
  /\ form.id # None
  /\ Click
  /\ form' = EmptyForm
  /\ UNCHANGED <<rows, tab, list, calls, faults, past>>

\* A template fills the form of a new target.
ApplyIntegrationPreset(key) ==
  /\ tab = "target"
  /\ Click
  /\ form' = [id |-> None, key |-> key, val |-> [n |-> clicks, for |-> None]]
  /\ UNCHANGED <<rows, tab, list, calls, faults, past>>

---------------------------------------------------------------------------
(***************************************************************************)
(* Saving: persistTarget, persistSecret, save.                             *)
(***************************************************************************)
Filled ==
  CASE tab = "target" -> form.key # NoKey
    [] tab = "secret" -> form.key # NoKey /\ (form.id = None => form.val # Blank)
    [] tab = "provider" -> form.key # NoKey

\* Only the Save button is disabled while a save is under way.
SaveEnabledAlways == Filled
SaveEnabledUnfilled == save = NoCall
SaveEnabled == save = NoCall /\ Filled

Persist ==
  /\ SaveEnabled
  /\ Click
  /\ save' = [n |-> clicks, id |-> form.id, key |-> form.key, val |-> form.val,
              stage |-> "sent"]
  /\ UNCHANGED <<rows, screen, fetches, removes, ghosts, faults, late, lost>>

ServeSave ==
  /\ save # NoCall /\ save.stage = "sent"
  /\ ~ Refuses(tab, save)
  /\ Put(tab, save)
  /\ save' = [save EXCEPT !.stage = "served"]
  /\ UNCHANGED <<screen, fetches, removes, ghosts, clicks, faults, past>>

\* The list is fetched before the save is over; BYOKSettings clears its form
\* first, the others last.
AnswerSave ==
  /\ save # NoCall /\ save.stage = "served"
  /\ save' = [save EXCEPT !.stage = "listing"]
  /\ form' = IF tab = "provider" THEN [form EXCEPT !.val = Blank] ELSE form
  /\ SendFetch(save.n, "save")
  /\ UNCHANGED <<rows, tab, list, removes, ghosts, clicks, faults, late, lost>>

\* The error is shown, the form is kept.
SaveFails ==
  /\ save # NoCall /\ save.stage # "listing"
  /\ \/ save.stage = "sent" /\ Refuses(tab, save) /\ UNCHANGED faults
     \/ Fault
  /\ save' = NoCall
  /\ lost' = IF save.stage = "served" THEN lost \cup {save.val} ELSE lost
  /\ UNCHANGED <<rows, screen, fetches, removes, ghosts, clicks, late>>

---------------------------------------------------------------------------
(***************************************************************************)
(* Deleting: deleteTarget, deleteSecret.                                   *)
(***************************************************************************)
\* The click is confirmed; the call keeps the row edited at that moment.
Remove(id) ==
  /\ id \in DOMAIN list /\ tab # "provider"
  /\ Click
  /\ removes' = removes \cup
       {[n |-> clicks, id |-> id, edited |-> form.id, done |-> FALSE]}
  /\ UNCHANGED <<rows, screen, fetches, save, ghosts, faults, late, lost>>

ServeRemove(r) ==
  /\ ~ r.done
  /\ Drop(tab, r.id)
  /\ removes' = (removes \ {r}) \cup {[r EXCEPT !.done = TRUE]}
  /\ UNCHANGED <<screen, fetches, save, ghosts, clicks, faults, past>>

AnswerRemoveKept(r) ==
  /\ r.done
  /\ removes' = removes \ {r}
  /\ form' = form
  /\ SendFetch(r.n, "remove")
  /\ UNCHANGED <<rows, tab, list, save, ghosts, clicks, faults, late, lost>>

\* The form is cleared if the row was edited when the button was clicked,
\* whatever it shows now.
AnswerRemove(r) ==
  /\ r.done
  /\ removes' = removes \ {r}
  /\ form' = IF r.edited = r.id THEN EmptyForm ELSE form
  /\ SendFetch(r.n, "remove")
  /\ UNCHANGED <<rows, tab, list, save, ghosts, clicks, faults, late, lost>>

\* MemoryStore refuses to delete what is not there.
RemoveFails(r) ==
  /\ \/ ~ r.done /\ r.id \notin DOMAIN rows[tab] /\ UNCHANGED faults
     \/ Fault
  /\ removes' = removes \ {r}
  /\ late' = (late \/ r.id = form.id)
  /\ UNCHANGED <<rows, screen, fetches, save, ghosts, clicks, lost>>

---------------------------------------------------------------------------
(***************************************************************************)
(* Refreshing: a fetch swallows its own error, so what awaits it goes on.  *)
(***************************************************************************)
ServeFetch(f) ==
  /\ f.got = Unread
  /\ fetches' = (fetches \ {f}) \cup {[f EXCEPT !.got = rows[tab]]}
  /\ UNCHANGED <<rows, screen, save, removes, ghosts, clicks, faults, past>>

\* The save that waited is over: the form is emptied, whatever it holds now.
Continue(f) ==
  IF f.owner = "save"
  THEN save' = NoCall /\ form' = IF tab = "provider" THEN form ELSE EmptyForm
  ELSE UNCHANGED <<save, form>>

AnswerFetch(f) ==
  /\ f.got # Unread
  /\ list' = f.got
  /\ fetches' = fetches \ {f}
  /\ Continue(f)
  /\ UNCHANGED <<rows, tab, removes, ghosts, clicks, faults, late, lost>>

FailFetch(f) ==
  /\ Fault
  /\ fetches' = fetches \ {f}
  /\ Continue(f)
  /\ UNCHANGED <<rows, tab, list, removes, ghosts, clicks, late, lost>>

---------------------------------------------------------------------------
User ==
  \/ \E k \in Kinds : OpenTab(k)
  \/ Refresh \/ CancelEdit \/ Persist
  \/ \E key \in Keys : ApplyIntegrationPreset(key)
  \/ \E key \in Keys, touch \in BOOLEAN : Type(key, touch)
  \/ \E id \in DOMAIN list : BeginEdit(id) \/ Remove(id)

SaveStep == ServeSave \/ AnswerSave \/ SaveFails
FetchStep == \E f \in fetches : ServeFetch(f) \/ AnswerFetch(f) \/ FailFetch(f)
RemoveStep == \E r \in removes : ServeRemove(r) \/ AnswerRemove(r) \/ RemoveFails(r)
GhostStep == \E g \in ghosts : ServeGhost(g)

Next == User \/ SaveStep \/ FetchStep \/ RemoveStep \/ GhostStep

Spec == Init /\ [][Next]_vars

---------------------------------------------------------------------------
(***************************************************************************)
(* Properties.                                                             *)
(***************************************************************************)
IsTable(t, k) ==
  /\ DOMAIN t \subseteq IF k = "provider" THEN Keys ELSE Nat
  /\ t \in [DOMAIN t -> [key : Keys, val : Val]]

IsFetch(f, k) ==
  /\ f \in [n : Nat, owner : {"tab", "save", "remove"}, got : {f.got}]
  /\ f.got = Unread \/ IsTable(f.got, k)

\* Type invariant.
TypeOK ==
  /\ rows \in [Kinds -> {rows[k] : k \in Kinds}]
  /\ \A k \in Kinds : IsTable(rows[k], k)
  /\ tab \in Kinds
  /\ IsTable(list, tab)
  /\ form \in [id : Nat \cup {None}, key : Keys \cup {NoKey}, val : Val]
  /\ \A f \in fetches : IsFetch(f, tab)
  /\ save \in Saves \cup {NoCall}
  /\ removes \subseteq Removes
  /\ ghosts \subseteq [kind : Kinds, op : {"save"}, c : Saves]
               \cup [kind : Kinds, op : {"remove"}, c : Removes]
  /\ clicks \in Nat /\ faults \in Nat
  /\ late \in BOOLEAN /\ lost \subseteq Val

\* What a user typed reaches the row it was typed for and no other one: a
\* secret is rotated, a target edited, under the id its form was opened for,
\* though one form serves all rows and saves and deletions empty it late;
\* and saving a rotation without a value leaves the stored secret.
OwnValue ==
  \A k \in {"target", "secret"} : \A i \in DOMAIN rows[k] :
    LET v == rows[k][i].val IN
      IF v = Blank THEN k = "target"
      ELSE v.for = i \/ (v.for = None /\ v.n < i)

\* A form submitted once makes one row.  It makes another only when the answer
\* of its saving was lost and the user repeats it, and never a second secret
\* under the same key: the store refuses that.
CreatedOnce ==
  \A k \in {"target", "secret"} : \A i, j \in DOMAIN rows[k] :
    rows[k][i].val = rows[k][j].val /\ rows[k][i].val # Blank =>
      \/ i = j
      \/ /\ rows[k][i].val \in lost
         /\ k = "secret" => rows[k][i].key # rows[k][j].key

\* No form stays open on a row its own deletion has removed, unless editing
\* began when that deletion was under way or the row was already gone.
EditedExists ==
  form.id # None /\ ~ Writing /\ ~ late => form.id \in DOMAIN rows[tab]
=============================================================================
