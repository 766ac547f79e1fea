----------------------- MODULE IntegrationConsoleProofs -----------------------
(***************************************************************************)
(* Proofs about IntegrationConsole, for any keys, stored rows and number of *)
(* clicks and failed calls.                                                *)
(***************************************************************************)
EXTENDS IntegrationConsole, TLAPS

Lasting == {"target", "secret"}

(***************************************************************************)
(* OwnValue: what a list, a form and a save hold was typed for their row.  *)
(***************************************************************************)
\* A value typed for row i, or for the row that was made later, as i.
Fits(v, i) == v # Blank => v.for = i \/ (v.for = None /\ v.n < i)
FitTable(t) == \A i \in DOMAIN t : Fits(t[i].val, i)
FitSave(k, c) ==
  /\ c.id = None => (c.val # Blank => c.val.for = None /\ c.val.n < c.n)
  /\ c.id # None => Fits(c.val, c.id)
  /\ k = "secret" /\ c.id = None => c.val # Blank

\* The form of a new row holds what was typed for none.
FitForm ==
  /\ form.id = None /\ form.val # Blank => form.val.for = None /\ form.val.n < clicks
  /\ form.id # None => Fits(form.val, form.id)

OwnInv ==
  /\ OwnValue
  /\ tab \in Lasting =>
       /\ FitTable(list) /\ FitForm
       /\ \A f \in fetches : f.got # Unread => FitTable(f.got)
       /\ save # NoCall => FitSave(tab, save)
  /\ \A g \in ghosts : g.op = "save" /\ g.kind \in Lasting => FitSave(g.kind, g.c)

(***************************************************************************)
(* EditedExists: a row that is edited and gone has been removed by a call  *)
(* that will clear the form.                                               *)
(***************************************************************************)
EditedInv ==
  /\ form.id # None => tab # "provider"
  /\ form.id # None /\ ~ late =>
       /\ \A r \in removes : r.id = form.id => r.edited = form.id
       /\ \A g \in ghosts : ~ (g.kind = tab /\ g.op = "remove" /\ g.c.id = form.id)
       /\ form.id \in DOMAIN rows[tab] \/ \E r \in removes : r.done /\ r.id = form.id

(***************************************************************************)
(* CreatedOnce: a value is held for one row only, and what may still make  *)
(* a row is held for none.                                                 *)
(***************************************************************************)
\* Value v is in row i of kind k, in a copy of it or on its way there.
Holds(k, v, i) ==
  \/ i \in DOMAIN rows[k] /\ rows[k][i].val = v
  \/ \E g \in ghosts : g.kind = k /\ g.op = "save" /\ g.c.id = i /\ g.c.val = v
  \/ /\ k = tab
     /\ \/ i \in DOMAIN list /\ list[i].val = v
        \/ \E f \in fetches : f.got # Unread /\ i \in DOMAIN f.got /\ f.got[i].val = v
        \/ form.id = i /\ form.val = v
        \/ save # NoCall /\ save.id = i /\ save.val = v

\* A ghost, or the save of the tab, may make a row of value v.
GhostMakes(g, k, v) == g.kind = k /\ g.op = "save" /\ g.c.id = None /\ g.c.val = v
SaveMakes(k, v) ==
  k = tab /\ save # NoCall /\ save.stage = "sent" /\ save.id = None /\ save.val = v
Drafted(k, v) == k = tab /\ form.id = None /\ form.val = v

\* The save has made that row and is not over.
SaveMade(v) == save # NoCall /\ save.stage # "sent" /\ save.id = None /\ save.val = v

OneRow(k, v) ==
  /\ \A i, j \in Nat : Holds(k, v, i) /\ Holds(k, v, j) => i = j
  /\ SaveMakes(k, v) => \A i \in Nat : ~ Holds(k, v, i)
  /\ \A g \in ghosts : GhostMakes(g, k, v) =>
       /\ \A i \in Nat : ~ Holds(k, v, i)
       /\ ~ SaveMakes(k, v) /\ ~ Drafted(k, v)
       /\ \A h \in ghosts : GhostMakes(h, k, v) => h = g
  /\ Drafted(k, v) /\ (\E i \in Nat : Holds(k, v, i)) => SaveMade(v)

\* A value of a later click is nowhere yet.
Known(k, v) ==
  \/ \E i \in Nat : Holds(k, v, i)
  \/ SaveMakes(k, v) \/ Drafted(k, v)
  \/ \E g \in ghosts : GhostMakes(g, k, v)
Fresh == \A k \in Lasting : \A v \in Typed : Known(k, v) => v.n < clicks

\* The store has a secret once under each key.
KeysDiffer ==
  \A i, j \in DOMAIN rows["secret"] :
    rows["secret"][i].key = rows["secret"][j].key => i = j

OnceInv ==
  /\ \A k \in Lasting : \A v \in Typed \ lost : OneRow(k, v)
  /\ Fresh
  /\ KeysDiffer

---------------------------------------------------------------------------
(* Lemmas on the tables.                                                   *)

\* What a served save does to the tables.
LEMMA PutFacts ==
  ASSUME TypeOK, NEW k \in Kinds, NEW c \in Saves, ~ Refuses(k, c), Put(k, c)
  PROVE  /\ rows' \in [Kinds -> {rows'[x] : x \in Kinds}]
         /\ \A x \in Kinds : IsTable(rows'[x], x)
         /\ \A x \in Kinds \ {k} : rows'[x] = rows[x]
         /\ DOMAIN rows'[k] = DOMAIN rows[k] \cup {RowOf(k, c)}
         /\ \A i \in DOMAIN rows'[k] :
              rows'[k][i] = IF i = RowOf(k, c) THEN Stored(k, c) ELSE rows[k][i]
<1> DEFINE t == [i \in DOMAIN rows[k] \cup {RowOf(k, c)} |->
                   IF i = RowOf(k, c) THEN Stored(k, c) ELSE rows[k][i]]
<1>1. rows' = [rows EXCEPT ![k] = t]
  BY DEF Put
<1>2. rows' \in [Kinds -> {rows'[x] : x \in Kinds}] /\ rows'[k] = t
      /\ \A x \in Kinds \ {k} : rows'[x] = rows[x]
  BY <1>1 DEF TypeOK
<1>3. Stored(k, c) \in [key : Keys, val : Val]
  BY DEF TypeOK, Refuses, Stored, Saves, Kinds, IsTable
<1>4. RowOf(k, c) \in IF k = "provider" THEN Keys ELSE Nat
  BY DEF RowOf, Saves
<1>5. IsTable(t, k)
  BY <1>3, <1>4 DEF TypeOK, IsTable
<1>6. QED BY <1>2, <1>5 DEF TypeOK

\* What a served deletion does to them.
LEMMA DropFacts ==
  ASSUME TypeOK, NEW k \in Kinds, NEW id, Drop(k, id)
  PROVE  /\ rows' \in [Kinds -> {rows'[x] : x \in Kinds}]
         /\ \A x \in Kinds : IsTable(rows'[x], x)
         /\ \A x \in Kinds \ {k} : rows'[x] = rows[x]
         /\ DOMAIN rows'[k] = DOMAIN rows[k] \ {id}
         /\ \A i \in DOMAIN rows'[k] : rows'[k][i] = rows[k][i]
<1> DEFINE t == [i \in DOMAIN rows[k] \ {id} |-> rows[k][i]]
<1>1. rows' = [rows EXCEPT ![k] = t]
  BY DEF Drop, Restrict
<1>2. rows' \in [Kinds -> {rows'[x] : x \in Kinds}] /\ rows'[k] = t
      /\ \A x \in Kinds \ {k} : rows'[x] = rows[x]
  BY <1>1 DEF TypeOK
<1>3. IsTable(t, k)
  BY DEF TypeOK, IsTable
<1>4. QED BY <1>2, <1>3 DEF TypeOK

\* A refresh that is sent, and one that is answered.
LEMMA FetchFacts ==
  ASSUME NEW n \in Nat, NEW owner \in {"tab", "save", "remove"}, NEW k
  PROVE  /\ IsFetch([n |-> n, owner |-> owner, got |-> Unread], k)
         /\ \A f, t : IsFetch(f, k) /\ IsTable(t, k) =>
              /\ IsFetch([f EXCEPT !.got = t], k)
              /\ [f EXCEPT !.got = t].got = t
              /\ [f EXCEPT !.got = t].owner = f.owner
BY DEF IsFetch

---------------------------------------------------------------------------
(* Type correctness.                                                       *)

LEMMA InitTypeOK == Init => TypeOK
<1> SUFFICES ASSUME Init PROVE TypeOK
  OBVIOUS
<1>1. \A k \in Kinds : IsTable(rows[k], k)
  BY IntegrationAssumption DEF Init, Kinds, IsTable, NoRows, EmptyForm, Val, Typed
<1>2. IsTable(list, tab) /\ form \in [id : Nat \cup {None}, key : Keys \cup {NoKey}, val : Val]
  BY DEF Init, IsTable, NoRows, EmptyForm, Val
<1>3. \A f \in fetches : IsFetch(f, tab)
  BY DEF Init, IsFetch
<1>4. rows \in [Kinds -> {rows[k] : k \in Kinds}]
  BY DEF Init
<1>5. QED
  BY <1>1, <1>2, <1>3, <1>4, IntegrationAssumption DEF Init, TypeOK, Kinds

LEMMA UserTypeOK == ASSUME TypeOK, User PROVE TypeOK'
<1>1. ASSUME NEW k \in Kinds, OpenTab(k) PROVE TypeOK'
  <2>1. IsTable(list, tab)'
    BY <1>1 DEF OpenTab, IsTable, NoRows
  <2>2. ghosts' \subseteq [kind : Kinds, op : {"save"}, c : Saves]
                   \cup [kind : Kinds, op : {"remove"}, c : Removes]
    BY <1>1 DEF IsFetch, OpenTab, Unserved, TypeOK
  <2>3. (\A f \in fetches : IsFetch(f, tab))'
    BY <1>1 DEF OpenTab, TypeOK, IsFetch
  <2>4. form' \in [id : Nat \cup {None}, key : Keys \cup {NoKey}, val : Val]
    BY <1>1 DEF OpenTab, EmptyForm, Val
  <2>5. QED
    <3>1. tab' = k /\ list' = NoRows /\ save' = NoCall /\ removes' = {} /\ late' = FALSE
          /\ clicks' = clicks + 1 /\ UNCHANGED <<rows, faults, lost>>
      BY <1>1 DEF OpenTab, Click
    <3>2. late' \in BOOLEAN BY <3>1
    <3>3. clicks' \in Nat /\ faults' \in Nat BY <3>1 DEF TypeOK
    <3>4. lost' \subseteq Val BY <3>1 DEF TypeOK
    <3>5. rows' \in [Kinds -> {rows'[x] : x \in Kinds}] BY <3>1 DEF TypeOK
    <3>6. \A x \in Kinds : IsTable(rows'[x], x) BY <3>1 DEF TypeOK
    <3>9. QED BY <2>1, <2>2, <2>3, <2>4, <3>1, <3>2, <3>3, <3>4, <3>5, <3>6 DEF TypeOK
<1>2. CASE Refresh
  BY <1>2 DEF Refresh, SendFetch, Click, TypeOK, IsFetch
<1>3. CASE CancelEdit
  BY <1>3 DEF IsFetch, CancelEdit, Click, TypeOK, EmptyForm, Val, calls, past
<1>4. CASE Persist
  <2>1. form.key \in Keys
    BY <1>4 DEF Persist, SaveEnabled, Filled, TypeOK, Kinds
  <2>2. save' \in Saves
    BY <1>4, <2>1 DEF Persist, TypeOK, Saves
  <2>3. QED
    BY <1>4, <2>2 DEF IsFetch, Persist, Click, TypeOK, screen
<1>5. ASSUME NEW key \in Keys, ApplyIntegrationPreset(key) PROVE TypeOK'
  BY <1>5 DEF IsFetch, ApplyIntegrationPreset, Click, TypeOK, Val, Typed, calls, past
<1>6. ASSUME NEW key \in Keys, NEW touch \in BOOLEAN, Type(key, touch) PROVE TypeOK'
  <2>1. [n |-> clicks, for |-> form.id] \in Val
    BY DEF TypeOK, Val, Typed
  <2>2. form' \in [id : Nat \cup {None}, key : Keys \cup {NoKey}, val : Val]
    BY <1>6, <2>1 DEF Type, TypeOK
  <2>3. QED
    BY <1>6, <2>2 DEF IsFetch, Type, Click, TypeOK, calls, past
<1>7. ASSUME NEW id \in DOMAIN list, BeginEdit(id) PROVE TypeOK'
  BY <1>7 DEF IsFetch, BeginEdit, Click, TypeOK, IsTable, Val, calls, past
<1>8. ASSUME NEW id \in DOMAIN list, Remove(id) PROVE TypeOK'
  <2>1. id \in Nat
    BY <1>8 DEF Remove, TypeOK, IsTable
  <2>2. removes' \subseteq Removes
    <3>1. [n |-> clicks, id |-> id, edited |-> form.id, done |-> FALSE] \in Removes
      BY <2>1 DEF TypeOK, Removes
    <3>2. QED BY <1>8, <3>1 DEF Remove, TypeOK
  <2>3. QED
    BY <1>8, <2>2 DEF IsFetch, Remove, Click, TypeOK, screen
<1>9. QED
  BY <1>1, <1>2, <1>3, <1>4, <1>5, <1>6, <1>7, <1>8 DEF User

LEMMA SaveTypeOK == ASSUME TypeOK, SaveStep PROVE TypeOK'
<1>1. CASE ServeSave
  BY <1>1, PutFacts DEF IsFetch, ServeSave, TypeOK, Saves, screen, past
<1>2. CASE AnswerSave
  BY <1>2 DEF IsFetch, AnswerSave, SendFetch, TypeOK, Saves, Val
<1>3. CASE SaveFails
  BY <1>3 DEF IsFetch, SaveFails, Fault, TypeOK, Saves, screen
<1>4. QED BY <1>1, <1>2, <1>3 DEF SaveStep

LEMMA FetchTypeOK == ASSUME TypeOK, FetchStep PROVE TypeOK'
<1>1. ASSUME NEW f \in fetches, ServeFetch(f) PROVE TypeOK'
  BY <1>1 DEF IsFetch, ServeFetch, TypeOK, screen, past
<1>2. ASSUME NEW f \in fetches, AnswerFetch(f) PROVE TypeOK'
  BY <1>2 DEF AnswerFetch, Continue, TypeOK, IsFetch, EmptyForm, Val
<1>3. ASSUME NEW f \in fetches, FailFetch(f) PROVE TypeOK'
  BY <1>3 DEF IsFetch, FailFetch, Fault, Continue, TypeOK, EmptyForm, Val
<1>4. QED BY <1>1, <1>2, <1>3 DEF FetchStep

LEMMA RemoveTypeOK == ASSUME TypeOK, RemoveStep PROVE TypeOK'
<1>1. ASSUME NEW r \in removes, ServeRemove(r) PROVE TypeOK'
  BY <1>1, DropFacts DEF IsFetch, ServeRemove, TypeOK, Removes, screen, past
<1>2. ASSUME NEW r \in removes, AnswerRemove(r) PROVE TypeOK'
  BY <1>2 DEF IsFetch, AnswerRemove, SendFetch, TypeOK, Removes, EmptyForm, Val
<1>3. ASSUME NEW r \in removes, RemoveFails(r) PROVE TypeOK'
  BY <1>3 DEF IsFetch, RemoveFails, Fault, TypeOK, Removes, screen
<1>4. QED BY <1>1, <1>2, <1>3 DEF RemoveStep

LEMMA GhostTypeOK == ASSUME TypeOK, NEW g \in ghosts, ServeGhost(g) PROVE TypeOK'
<1>1. CASE UNCHANGED rows
  BY <1>1 DEF IsFetch, ServeGhost, TypeOK, screen, past
<1>2. CASE g.op = "save" /\ ~ Refuses(g.kind, g.c) /\ Put(g.kind, g.c)
  <2>1. g.kind \in Kinds /\ g.c \in Saves
    BY <1>2 DEF IsFetch, TypeOK
  <2>2. QED BY <1>2, <2>1, PutFacts DEF IsFetch, ServeGhost, TypeOK, screen, past
<1>3. CASE g.op = "remove" /\ Drop(g.kind, g.c.id)
  <2>1. g.kind \in Kinds
    BY DEF IsFetch, TypeOK
  <2>2. QED BY <1>3, <2>1, DropFacts DEF IsFetch, ServeGhost, TypeOK, screen, past
<1>4. QED BY <1>1, <1>2, <1>3 DEF ServeGhost

\* The type invariant holds whatever is clicked, served, answered or lost, in
\* the three tabs of the registries.
THEOREM TypeCorrect == Spec => []TypeOK
<1>1. TypeOK /\ [Next]_vars => TypeOK'
  <2> SUFFICES ASSUME TypeOK, [Next]_vars PROVE TypeOK'
    OBVIOUS
  <2>1. CASE UNCHANGED vars
    BY <2>1 DEF IsFetch, TypeOK, vars, screen, calls, past
  <2>2. QED
    BY <2>1, UserTypeOK, SaveTypeOK, FetchTypeOK, RemoveTypeOK, GhostTypeOK
       DEF Next, GhostStep
<1>2. QED BY <1>1, InitTypeOK, PTL DEF Spec

---------------------------------------------------------------------------
(* OwnValue.                                                               *)

\* A row that is served to a save holds a value that fits it.
LEMMA PutFits ==
  ASSUME TypeOK, OwnValue, NEW k \in Kinds, NEW c \in Saves,
         ~ Refuses(k, c), Put(k, c), k \in Lasting => FitSave(k, c)
  PROVE  OwnValue'
<1> SUFFICES ASSUME NEW x \in Lasting, NEW i \in DOMAIN rows'[x], NEW v,
                    v = rows'[x][i].val
             PROVE  IF v = Blank THEN x = "target"
                    ELSE v.for = i \/ (v.for = None /\ v.n < i)
  BY DEF OwnValue, Lasting
<1>1. x \in Kinds
  BY DEF Lasting, Kinds
<1>2. CASE x # k \/ i # RowOf(k, c)
  BY <1>1, <1>2, PutFacts DEF OwnValue, Lasting
<1>3. CASE x = k /\ i = RowOf(k, c)
  <2>1. v = Stored(k, c).val /\ FitSave(k, c) /\ k # "provider"
    BY <1>3, PutFacts DEF Lasting
  <2>2. i = IF c.id = None THEN c.n ELSE c.id
    BY <1>3, <2>1 DEF RowOf
  <2>3. CASE k = "secret" /\ c.id # None /\ c.val = Blank
    BY <1>3, <2>1, <2>2, <2>3 DEF Stored, Refuses, OwnValue
  <2>4. CASE ~ (k = "secret" /\ c.id # None /\ c.val = Blank)
    BY <1>3, <2>1, <2>2, <2>4 DEF Stored, FitSave, Fits, Lasting
  <2>5. QED BY <2>3, <2>4
<1>4. QED BY <1>2, <1>3

\* Deleting leaves the other rows as they are.
LEMMA DropFits ==
  ASSUME TypeOK, OwnValue, NEW k \in Kinds, NEW id, Drop(k, id)
  PROVE  OwnValue'
BY DropFacts DEF OwnValue, Kinds

\* A table of the server fits, so do the copies that are read of it.
LEMMA RowsFit == ASSUME OwnValue, tab \in Lasting PROVE FitTable(rows[tab])
BY DEF OwnValue, FitTable, Fits, Lasting

\* A form that is left alone still fits at the next click.
LEMMA FormStays ==
  ASSUME TypeOK, form' = form, clicks' = clicks \/ clicks' = clicks + 1
  PROVE  FitForm => FitForm'
BY DEF TypeOK, FitForm, Val, Typed

LEMMA InitOwn == Init => OwnInv
BY IntegrationAssumption
   DEF Init, OwnInv, OwnValue, Lasting, Kinds, FitTable, FitForm, FitSave, Fits, NoRows,
       EmptyForm, Typed

LEMMA UserOwn == ASSUME TypeOK, OwnInv, User PROVE OwnInv'
<1>1. ASSUME NEW k \in Kinds, OpenTab(k) PROVE OwnInv'
  <2>1. FitTable(list)' /\ FitForm'
    BY <1>1 DEF OpenTab, FitTable, FitForm, NoRows, EmptyForm
  <2>2. \A g \in ghosts' : g.op = "save" /\ g.kind \in Lasting => FitSave(g.kind, g.c)
    BY <1>1 DEF OpenTab, Unserved, OwnInv
  <2>3. QED
    BY <1>1, <2>1, <2>2 DEF OpenTab, OwnInv, OwnValue
<1>2. CASE Refresh
  BY <1>2, FormStays DEF Refresh, SendFetch, Click, OwnInv, OwnValue
<1>3. CASE CancelEdit
  BY <1>3 DEF CancelEdit, Click, OwnInv, OwnValue, FitForm, TypeOK, EmptyForm, calls, past
<1>4. CASE Persist
  <2>1. tab \in Lasting => FitSave(tab, save')
    BY <1>4 DEF Persist, SaveEnabled, Filled, OwnInv, FitForm, FitSave, Lasting
  <2>2. FitForm => FitForm'
    BY <1>4, FormStays DEF Persist, Click, screen
  <2>3. QED
    BY <1>4, <2>1, <2>2 DEF Persist, screen, OwnInv, OwnValue
<1>5. ASSUME NEW key \in Keys, ApplyIntegrationPreset(key) PROVE OwnInv'
  BY <1>5 DEF ApplyIntegrationPreset, Click, OwnInv, OwnValue, FitForm, TypeOK, calls, past
<1>6. ASSUME NEW key \in Keys, NEW touch \in BOOLEAN, Type(key, touch) PROVE OwnInv'
  <2>1. FitForm => FitForm'
    BY <1>6 DEF Type, Click, FitForm, Fits, TypeOK, Val, Typed
  <2>2. QED
    BY <1>6, <2>1 DEF Type, OwnInv, OwnValue, calls, past
<1>7. ASSUME NEW id \in DOMAIN list, BeginEdit(id) PROVE OwnInv'
  <2>1. id \in Nat
    BY <1>7 DEF BeginEdit, TypeOK, IsTable
  <2>2. FitTable(list) => FitForm'
    BY <1>7, <2>1, IntegrationAssumption DEF BeginEdit, FitForm, FitTable, Fits
  <2>3. QED
    BY <1>7, <2>2 DEF BeginEdit, OwnInv, OwnValue, calls, past
<1>8. ASSUME NEW id \in DOMAIN list, Remove(id) PROVE OwnInv'
  BY <1>8, FormStays DEF Remove, Click, OwnInv, OwnValue, screen
<1>9. QED
  BY <1>1, <1>2, <1>3, <1>4, <1>5, <1>6, <1>7, <1>8 DEF User

LEMMA SaveOwn == ASSUME TypeOK, OwnInv, SaveStep PROVE OwnInv'
<1>1. CASE ServeSave
  <2>1. save \in Saves /\ tab \in Kinds
    BY <1>1 DEF ServeSave, TypeOK
  <2>2. OwnValue'
    BY <1>1, <2>1, PutFits DEF ServeSave, OwnInv
  <2>3. FitSave(tab, save) => FitSave(tab, save')
    BY <1>1, <2>1 DEF ServeSave, FitSave, Saves
  <2>4. QED
    BY <1>1, <2>2, <2>3 DEF ServeSave, OwnInv, FitForm, screen, past
<1>2. CASE AnswerSave
  <2>1. save \in Saves
    BY <1>2 DEF AnswerSave, TypeOK
  <2>2. FitSave(tab, save) => FitSave(tab, save')
    BY <1>2, <2>1 DEF AnswerSave, FitSave, Saves
  <2>3. tab \in Lasting => form' = form
    BY <1>2 DEF AnswerSave, Lasting
  <2>4. QED
    BY <1>2, <2>2, <2>3, FormStays DEF AnswerSave, SendFetch, OwnInv, OwnValue
<1>3. CASE SaveFails
  BY <1>3, FormStays DEF SaveFails, OwnInv, OwnValue, screen
<1>4. QED BY <1>1, <1>2, <1>3 DEF SaveStep

LEMMA FetchOwn == ASSUME TypeOK, OwnInv, FetchStep PROVE OwnInv'
<1>1. ASSUME NEW f \in fetches, ServeFetch(f) PROVE OwnInv'
  <2>1. [f EXCEPT !.got = rows[tab]].got = rows[tab]
    BY DEF TypeOK, IsFetch
  <2>2. QED
    BY <1>1, <2>1, RowsFit, FormStays DEF ServeFetch, OwnInv, OwnValue, screen, past
<1>2. ASSUME NEW f \in fetches, AnswerFetch(f) PROVE OwnInv'
  <2>1. FitForm => FitForm'
    BY <1>2, FormStays DEF AnswerFetch, Continue, FitForm, EmptyForm
  <2>2. save' = save \/ save' = NoCall
    BY <1>2 DEF AnswerFetch, Continue
  <2>3. QED
    BY <1>2, <2>1, <2>2 DEF AnswerFetch, OwnInv, OwnValue
<1>3. ASSUME NEW f \in fetches, FailFetch(f) PROVE OwnInv'
  <2>1. FitForm => FitForm'
    BY <1>3, FormStays DEF FailFetch, Continue, FitForm, EmptyForm
  <2>2. save' = save \/ save' = NoCall
    BY <1>3 DEF FailFetch, Continue
  <2>3. QED
    BY <1>3, <2>1, <2>2 DEF FailFetch, OwnInv, OwnValue
<1>4. QED BY <1>1, <1>2, <1>3 DEF FetchStep

LEMMA RemoveOwn == ASSUME TypeOK, OwnInv, RemoveStep PROVE OwnInv'
<1>1. ASSUME NEW r \in removes, ServeRemove(r) PROVE OwnInv'
  <2>1. OwnValue'
    BY <1>1, DropFits DEF ServeRemove, OwnInv, TypeOK
  <2>2. QED
    BY <1>1, <2>1, FormStays DEF ServeRemove, OwnInv, screen, past
<1>2. ASSUME NEW r \in removes, AnswerRemove(r) PROVE OwnInv'
  <2>1. FitForm => FitForm'
    BY <1>2, FormStays DEF AnswerRemove, FitForm, EmptyForm
  <2>2. QED
    BY <1>2, <2>1 DEF AnswerRemove, SendFetch, OwnInv, OwnValue
<1>3. ASSUME NEW r \in removes, RemoveFails(r) PROVE OwnInv'
  BY <1>3, FormStays DEF RemoveFails, OwnInv, OwnValue, screen
<1>4. QED BY <1>1, <1>2, <1>3 DEF RemoveStep

LEMMA GhostOwn == ASSUME TypeOK, OwnInv, NEW g \in ghosts, ServeGhost(g) PROVE OwnInv'
<1>1. OwnValue'
  <2>1. CASE UNCHANGED rows
    BY <2>1 DEF OwnInv, OwnValue
  <2>2. CASE g.op = "save" /\ ~ Refuses(g.kind, g.c) /\ Put(g.kind, g.c)
    <3>1. g.kind \in Kinds /\ g.c \in Saves
      BY <2>2 DEF TypeOK
    <3>2. QED BY <2>2, <3>1, PutFits DEF OwnInv
  <2>3. CASE g.op = "remove" /\ Drop(g.kind, g.c.id)
    <3>1. g.kind \in Kinds
      BY DEF TypeOK
    <3>2. QED BY <2>3, <3>1, DropFits DEF OwnInv
  <2>4. QED BY <2>1, <2>2, <2>3 DEF ServeGhost
<1>2. QED
  BY <1>1, FormStays DEF ServeGhost, OwnInv, screen, past

\* What a user typed reaches the row it was typed for and no other one, in
\* every order of edits, saves, deletions and answers.
THEOREM OwnValueHolds == Spec => []OwnValue
<1>1. TypeOK /\ OwnInv /\ [Next]_vars => OwnInv'
  <2> SUFFICES ASSUME TypeOK, OwnInv, [Next]_vars PROVE OwnInv'
    OBVIOUS
  <2>1. CASE UNCHANGED vars
    BY <2>1, FormStays DEF OwnInv, OwnValue, vars, screen, calls, past
  <2>2. QED
    BY <2>1, UserOwn, SaveOwn, FetchOwn, RemoveOwn, GhostOwn DEF Next, GhostStep
<1>2. OwnInv => OwnValue
  BY DEF OwnInv
<1>3. QED BY <1>1, <1>2, InitOwn, TypeCorrect, PTL DEF Spec

---------------------------------------------------------------------------
(* EditedExists.                                                           *)

LEMMA InitEdited == Init => EditedInv
BY DEF Init, EditedInv, EmptyForm

LEMMA UserEdited == ASSUME TypeOK, EditedInv, User PROVE EditedInv'
<1>1. ASSUME NEW k \in Kinds, OpenTab(k) PROVE EditedInv'
  BY <1>1 DEF OpenTab, EditedInv, EmptyForm
<1>2. CASE Refresh
  BY <1>2 DEF Refresh, EditedInv
<1>3. CASE CancelEdit
  BY <1>3 DEF CancelEdit, EditedInv, EmptyForm, calls, past
<1>4. CASE Persist
  BY <1>4 DEF Persist, EditedInv, screen
<1>5. ASSUME NEW key \in Keys, ApplyIntegrationPreset(key) PROVE EditedInv'
  BY <1>5 DEF ApplyIntegrationPreset, EditedInv, calls, past
<1>6. ASSUME NEW key \in Keys, NEW touch \in BOOLEAN, Type(key, touch) PROVE EditedInv'
  <2>1. form'.id = form.id
    BY <1>6 DEF Type, TypeOK
  <2>2. QED
    BY <1>6, <2>1 DEF Type, EditedInv, calls, past
<1>7. ASSUME NEW id \in DOMAIN list, BeginEdit(id) PROVE EditedInv'
  BY <1>7 DEF BeginEdit, EditedInv, calls
<1>8. ASSUME NEW id \in DOMAIN list, Remove(id) PROVE EditedInv'
  BY <1>8 DEF Remove, EditedInv, screen
<1>9. QED
  BY <1>1, <1>2, <1>3, <1>4, <1>5, <1>6, <1>7, <1>8 DEF User

LEMMA SaveEdited == ASSUME TypeOK, EditedInv, SaveStep PROVE EditedInv'
<1>1. CASE ServeSave
  <2>1. save \in Saves /\ tab \in Kinds
    BY <1>1 DEF ServeSave, TypeOK
  <2>2. DOMAIN rows[tab] \subseteq DOMAIN rows'[tab]
    BY <1>1, <2>1, PutFacts DEF ServeSave
  <2>3. QED
    BY <1>1, <2>2 DEF ServeSave, EditedInv, screen, past
<1>2. CASE AnswerSave
  <2>1. form'.id = form.id
    BY <1>2 DEF AnswerSave, TypeOK
  <2>2. QED
    BY <1>2, <2>1 DEF AnswerSave, EditedInv
<1>3. CASE SaveFails
  BY <1>3 DEF SaveFails, EditedInv, screen
<1>4. QED BY <1>1, <1>2, <1>3 DEF SaveStep

LEMMA FetchEdited == ASSUME TypeOK, EditedInv, FetchStep PROVE EditedInv'
<1>1. ASSUME NEW f \in fetches, ServeFetch(f) PROVE EditedInv'
  BY <1>1 DEF ServeFetch, EditedInv, screen, past
<1>2. ASSUME NEW f \in fetches, AnswerFetch(f) PROVE EditedInv'
  BY <1>2 DEF AnswerFetch, Continue, EditedInv, EmptyForm
<1>3. ASSUME NEW f \in fetches, FailFetch(f) PROVE EditedInv'
  BY <1>3 DEF FailFetch, Continue, EditedInv, EmptyForm
<1>4. QED BY <1>1, <1>2, <1>3 DEF FetchStep

LEMMA RemoveEdited == ASSUME TypeOK, EditedInv, RemoveStep PROVE EditedInv'
<1>1. ASSUME NEW r \in removes, ServeRemove(r) PROVE EditedInv'
  <2> DEFINE s == [r EXCEPT !.done = TRUE]
  <2>1. s.id = r.id /\ s.edited = r.edited /\ s.done
    BY DEF TypeOK, Removes
  <2>2. DOMAIN rows'[tab] = DOMAIN rows[tab] \ {r.id}
    BY <1>1, DropFacts DEF ServeRemove, TypeOK
  <2>3. removes' = (removes \ {r}) \cup {s}
    BY <1>1 DEF ServeRemove
  <2>4. UNCHANGED <<tab, form, ghosts, late>>
    BY <1>1 DEF ServeRemove, screen, past
  <2>5. ~ r.done
    BY <1>1 DEF ServeRemove
  <2> HIDE DEF s
  <2>6. QED
    BY <2>1, <2>2, <2>3, <2>4, <2>5 DEF EditedInv
<1>2. ASSUME NEW r \in removes, AnswerRemove(r) PROVE EditedInv'
  BY <1>2 DEF AnswerRemove, EditedInv, EmptyForm
<1>3. ASSUME NEW r \in removes, RemoveFails(r) PROVE EditedInv'
  BY <1>3 DEF RemoveFails, EditedInv, screen
<1>4. QED BY <1>1, <1>2, <1>3 DEF RemoveStep

LEMMA GhostEdited == ASSUME TypeOK, EditedInv, NEW g \in ghosts, ServeGhost(g) PROVE EditedInv'
<1>1. ASSUME form.id # None, ~ late, form.id \in DOMAIN rows[tab]
      PROVE  form.id \in DOMAIN rows'[tab]
  <2>1. CASE UNCHANGED rows
    BY <1>1, <2>1
  <2>2. CASE g.op = "save" /\ ~ Refuses(g.kind, g.c) /\ Put(g.kind, g.c)
    <3>1. g.kind \in Kinds /\ g.c \in Saves
      BY <2>2 DEF TypeOK
    <3>2. QED BY <1>1, <2>2, <3>1, PutFacts DEF TypeOK
  <2>3. CASE g.op = "remove" /\ Drop(g.kind, g.c.id)
    <3>1. g.kind \in Kinds /\ ~ (g.kind = tab /\ g.c.id = form.id)
      BY <1>1, <2>3 DEF TypeOK, EditedInv
    <3>2. QED BY <1>1, <2>3, <3>1, DropFacts DEF TypeOK
  <2>4. QED BY <2>1, <2>2, <2>3 DEF ServeGhost
<1>2. QED
  BY <1>1 DEF ServeGhost, EditedInv, screen, past

\* No form stays open on a row that its own deletion has removed.
THEOREM EditedExistsHolds == Spec => []EditedExists
<1>1. TypeOK /\ EditedInv /\ [Next]_vars => EditedInv'
  <2> SUFFICES ASSUME TypeOK, EditedInv, [Next]_vars PROVE EditedInv'
    OBVIOUS
  <2>1. CASE UNCHANGED vars
    BY <2>1 DEF EditedInv, vars, screen, calls, past
  <2>2. QED
    BY <2>1, UserEdited, SaveEdited, FetchEdited, RemoveEdited, GhostEdited DEF Next, GhostStep
<1>2. EditedInv => EditedExists
  BY DEF EditedInv, EditedExists, Writing
<1>3. QED BY <1>1, <1>2, InitEdited, TypeCorrect, PTL DEF Spec

---------------------------------------------------------------------------
(* CreatedOnce.                                                            *)

\* The rows after a save was served: those of before, and the one saved.
LEMMA PutHolds ==
  ASSUME TypeOK, NEW x \in Kinds, NEW c \in Saves, ~ Refuses(x, c), Put(x, c),
         NEW k \in Lasting, NEW i \in DOMAIN rows'[k]
  PROVE  \/ i \in DOMAIN rows[k] /\ rows'[k][i].val = rows[k][i].val
         \/ k = x /\ rows'[k][i].val = c.val /\ (c.id = i \/ (c.id = None /\ c.n = i))
<1>1. k \in Kinds /\ k # "provider"
  BY DEF Lasting, Kinds
<1>2. CASE k = x /\ i = RowOf(x, c)
  <2>1. rows'[k][i] = Stored(x, c) /\ i = IF c.id = None THEN c.n ELSE c.id
    BY <1>1, <1>2, PutFacts DEF RowOf
  <2>2. CASE x = "secret" /\ c.id # None /\ c.val = Blank
    BY <1>2, <2>1, <2>2 DEF Stored, Refuses
  <2>3. CASE ~ (x = "secret" /\ c.id # None /\ c.val = Blank)
    BY <1>2, <2>1, <2>3 DEF Stored
  <2>4. QED BY <2>2, <2>3
<1>3. CASE ~ (k = x /\ i = RowOf(x, c))
  BY <1>1, <1>3, PutFacts
<1>4. QED BY <1>2, <1>3

LEMMA PutKeys ==
  ASSUME TypeOK, KeysDiffer, NEW x \in Kinds, NEW c \in Saves, ~ Refuses(x, c), Put(x, c)
  PROVE  KeysDiffer'
<1>1. "secret" \in Kinds
  BY DEF Kinds
<1>2. CASE x # "secret"
  BY <1>1, <1>2, PutFacts DEF KeysDiffer
<1>3. CASE x = "secret"
  <2>1. \A i \in DOMAIN rows["secret"] : rows["secret"][i].key = c.key => i = RowOf(x, c)
    <3>1. \A i \in DOMAIN rows["secret"] : i \in Nat
      BY <1>1 DEF TypeOK, IsTable
    <3>2. QED
      BY <1>3, <3>1, IntegrationAssumption DEF Refuses, KeyTaken, RowOf
  <2>2. Stored(x, c).key = c.key
    BY DEF Stored
  <2>3. QED
    BY <1>3, <2>1, <2>2, PutFacts DEF KeysDiffer
<1>4. QED BY <1>2, <1>3

LEMMA DropKeys ==
  ASSUME TypeOK, KeysDiffer, NEW x \in Kinds, NEW id, Drop(x, id)
  PROVE  KeysDiffer'
BY DropFacts DEF KeysDiffer, Kinds

\* A step after which no value is anywhere it was not before.
LEMMA Quieter ==
  ASSUME OnceInv, KeysDiffer', clicks \in Nat, clicks' \in {clicks, clicks + 1},
         lost \subseteq lost', ghosts' \subseteq ghosts,
         \A k \in Lasting : \A v \in Typed :
           /\ \A i \in Nat : Holds(k, v, i)' => Holds(k, v, i)
           /\ SaveMakes(k, v)' => SaveMakes(k, v)
           /\ Drafted(k, v)' => Drafted(k, v)
           /\ Drafted(k, v)' /\ SaveMade(v) /\ v \notin lost' => SaveMade(v)'
  PROVE  OnceInv'
<1>1. ASSUME NEW k \in Lasting, NEW v \in Typed \ lost' PROVE OneRow(k, v)'
  <2>1. OneRow(k, v)
    BY DEF OnceInv
  <2>2. QED BY <2>1 DEF OneRow
<1>2. Fresh'
  <2> SUFFICES ASSUME NEW k \in Lasting, NEW v \in Typed, Known(k, v)' PROVE v.n < clicks'
    BY DEF Fresh
  <2>1. v.n < clicks
    BY DEF Known, OnceInv, Fresh
  <2>2. QED BY <2>1 DEF Typed
<1>3. QED BY <1>1, <1>2 DEF OnceInv

\* A value is typed into the form.
LEMMA NewValue ==
  ASSUME TypeOK, OnceInv, UNCHANGED <<rows, tab, list, fetches, save, ghosts, lost>>,
         clicks' = clicks + 1, form'.id \in Nat \cup {None},
         NEW new, new = [n |-> clicks, for |-> form'.id], form'.val = new
  PROVE  OnceInv'
<1>1. new \in Typed /\ new.n = clicks
  BY DEF TypeOK, Typed
<1>2. ASSUME NEW k \in Lasting, NEW v \in Typed, v # new
      PROVE  /\ \A i \in Nat : Holds(k, v, i)' => Holds(k, v, i)
             /\ SaveMakes(k, v)' => SaveMakes(k, v)
             /\ ~ Drafted(k, v)'
  BY <1>2 DEF Holds, SaveMakes, Drafted
<1>3. ASSUME NEW k \in Lasting
      PROVE  /\ ~ Known(k, new)
             /\ \A i \in Nat : Holds(k, new, i)' => form'.id = i
             /\ ~ SaveMakes(k, new)'
             /\ \A g \in ghosts : ~ GhostMakes(g, k, new)
  <2>1. ~ Known(k, new)
    BY <1>1 DEF OnceInv, Fresh, TypeOK
  <2>2. QED BY <2>1 DEF Known, Holds, SaveMakes
<1>4. ASSUME NEW k \in Lasting, NEW v \in Typed \ lost' PROVE OneRow(k, v)'
  <2>1. CASE v = new
    BY <1>3, <2>1, IntegrationAssumption DEF OneRow, Drafted
  <2>2. CASE v # new
    <3>1. OneRow(k, v)
      BY DEF OnceInv
    <3>2. QED BY <1>2, <2>2, <3>1 DEF OneRow
  <2>3. QED BY <2>1, <2>2
<1>5. Fresh'
  <2> SUFFICES ASSUME NEW k \in Lasting, NEW v \in Typed, Known(k, v)' PROVE v.n < clicks'
    BY DEF Fresh
  <2>1. CASE v = new
    BY <1>1, <2>1 DEF TypeOK
  <2>2. CASE v # new
    <3>1. v.n < clicks
      BY <1>2, <2>2 DEF Known, OnceInv, Fresh
    <3>2. QED BY <3>1 DEF Typed, TypeOK
  <2>3. QED BY <2>1, <2>2
<1>6. QED BY <1>4, <1>5 DEF OnceInv, KeysDiffer

\* Opening another tab leaves what the save may still make to a ghost.
LEMMA OpenTabOnce ==
  ASSUME TypeOK, OnceInv, NEW x \in Kinds, OpenTab(x)
  PROVE  OnceInv'
<1>1. /\ form'.id = None /\ form'.val = Blank /\ list' = NoRows /\ save' = NoCall
      /\ \A f \in fetches' : f.got = Unread
      /\ UNCHANGED <<rows, lost>> /\ clicks' = clicks + 1 /\ x # tab /\ tab' = x
  BY DEF OpenTab, EmptyForm, Click
<1>2. \A g \in ghosts' : g.op = "save" =>
        g \in ghosts \/ (g.kind = tab /\ g.c = save /\ save # NoCall /\ save.stage = "sent")
  BY DEF OpenTab, Unserved
<1>3. ASSUME NEW k \in Lasting, NEW v \in Typed
      PROVE  /\ \A i \in Nat : Holds(k, v, i)' => Holds(k, v, i)
             /\ ~ SaveMakes(k, v)' /\ ~ Drafted(k, v)'
             /\ \A g \in ghosts' : GhostMakes(g, k, v) =>
                  g \in ghosts
                  \/ (SaveMakes(k, v) /\ g.kind = tab /\ g.op = "save" /\ g.c = save)
  <2>1. ~ SaveMakes(k, v)' /\ ~ Drafted(k, v)'
    BY <1>1, IntegrationAssumption DEF SaveMakes, Drafted
  <2>2. \A i \in Nat : Holds(k, v, i)' => Holds(k, v, i)
    BY <1>1, <1>2, IntegrationAssumption DEF Holds, NoRows
  <2>3. QED BY <1>2, <2>1, <2>2 DEF GhostMakes, SaveMakes
<1>4. \A g, h \in ghosts' : g.op = h.op /\ g.kind = h.kind /\ g.c = h.c => g = h
  <2>1. ghosts' \subseteq [kind : Kinds, op : {"save"}, c : Saves]
                  \cup [kind : Kinds, op : {"remove"}, c : Removes]
    BY DEF OpenTab, Unserved, TypeOK
  <2>2. QED BY <2>1
<1>5. ASSUME NEW k \in Lasting, NEW v \in Typed \ lost' PROVE OneRow(k, v)'
  <2>1. OneRow(k, v)
    BY <1>1 DEF OnceInv
  <2>2. ASSUME NEW g \in ghosts', GhostMakes(g, k, v)
        PROVE  \A i \in Nat : ~ Holds(k, v, i)
    BY <1>3, <2>1, <2>2 DEF OneRow
  <2>3. ASSUME NEW g \in ghosts', GhostMakes(g, k, v), NEW h \in ghosts', GhostMakes(h, k, v)
        PROVE  h = g
    BY <1>3, <1>4, <2>1, <2>3 DEF OneRow, GhostMakes
  <2>4. QED BY <1>3, <2>1, <2>2, <2>3 DEF OneRow
<1>6. Fresh'
  <2> SUFFICES ASSUME NEW k \in Lasting, NEW v \in Typed, Known(k, v)' PROVE v.n < clicks'
    BY DEF Fresh
  <2>1. v.n < clicks
    BY <1>3 DEF Known, OnceInv, Fresh
  <2>2. QED BY <1>1, <2>1 DEF Typed, TypeOK
<1>7. QED BY <1>1, <1>5, <1>6 DEF OnceInv, KeysDiffer

\* What was drafted is on its way.
LEMMA PersistOnce == ASSUME TypeOK, OnceInv, Persist PROVE OnceInv'
<1>1. /\ save = NoCall /\ save'.id = form.id /\ save'.val = form.val /\ save'.stage = "sent"
      /\ UNCHANGED <<rows, tab, list, form, fetches, ghosts, lost>> /\ clicks' = clicks + 1
  BY DEF Persist, SaveEnabled, Click, screen
<1>2. ASSUME NEW k \in Lasting, NEW v \in Typed
      PROVE  /\ \A i \in Nat : Holds(k, v, i)' => Holds(k, v, i)
             /\ ~ SaveMakes(k, v) /\ ~ SaveMade(v)
             /\ SaveMakes(k, v)' => Drafted(k, v)
             /\ Drafted(k, v)' <=> Drafted(k, v)
  BY <1>1 DEF Holds, SaveMakes, Drafted, SaveMade
<1>3. ASSUME NEW k \in Lasting, NEW v \in Typed \ lost' PROVE OneRow(k, v)'
  <2>1. OneRow(k, v)
    BY <1>1 DEF OnceInv
  <2>2. QED BY <1>1, <1>2, <2>1 DEF OneRow
<1>4. Fresh'
  <2> SUFFICES ASSUME NEW k \in Lasting, NEW v \in Typed, Known(k, v)' PROVE v.n < clicks'
    BY DEF Fresh
  <2>1. v.n < clicks
    BY <1>1, <1>2 DEF Known, OnceInv, Fresh
  <2>2. QED BY <1>1, <2>1 DEF Typed, TypeOK
<1>5. QED BY <1>1, <1>3, <1>4 DEF OnceInv, KeysDiffer

LEMMA UserOnce == ASSUME TypeOK, OnceInv, User PROVE OnceInv'
<1>1. ASSUME NEW k \in Kinds, OpenTab(k) PROVE OnceInv'
  BY <1>1, OpenTabOnce
<1>2. CASE Refresh
  BY <1>2, Quieter
     DEF Refresh, SendFetch, Click, TypeOK, OnceInv, KeysDiffer, Holds, SaveMakes, Drafted,
         SaveMade
<1>3. CASE CancelEdit
  BY <1>3, Quieter, IntegrationAssumption
     DEF CancelEdit, Click, TypeOK, OnceInv, KeysDiffer, Holds, SaveMakes, Drafted, SaveMade,
         EmptyForm, calls, past
<1>4. CASE Persist
  BY <1>4, PersistOnce
<1>5. ASSUME NEW key \in Keys, ApplyIntegrationPreset(key) PROVE OnceInv'
  <2>1. PICK new : new = [n |-> clicks, for |-> None]
    OBVIOUS
  <2>2. form'.id = None /\ form'.val = new /\ clicks' = clicks + 1
        /\ UNCHANGED <<rows, tab, list, fetches, save, ghosts, lost>>
    BY <1>5, <2>1 DEF ApplyIntegrationPreset, Click, calls, past
  <2>3. QED BY <2>1, <2>2, NewValue
<1>6. ASSUME NEW key \in Keys, NEW touch \in BOOLEAN, Type(key, touch) PROVE OnceInv'
  <2>1. form'.id = form.id /\ form.id \in Nat \cup {None} /\ clicks' = clicks + 1
        /\ UNCHANGED <<rows, tab, list, fetches, save, ghosts, lost>>
    BY <1>6 DEF Type, Click, calls, past, TypeOK
  <2>2. CASE touch
    <3>1. PICK new : new = [n |-> clicks, for |-> form.id]
      OBVIOUS
    <3>2. form'.val = new
      BY <1>6, <2>2, <3>1 DEF Type, TypeOK
    <3>3. QED BY <2>1, <3>1, <3>2, NewValue
  <2>3. CASE ~ touch
    <3>1. form'.val = form.val
      BY <1>6, <2>3 DEF Type, TypeOK
    <3>2. QED
      BY <2>1, <3>1, Quieter
         DEF TypeOK, OnceInv, KeysDiffer, Holds, SaveMakes, Drafted, SaveMade
  <2>4. QED BY <2>2, <2>3
<1>7. ASSUME NEW id \in DOMAIN list, BeginEdit(id) PROVE OnceInv'
  <2>1. /\ form'.id = id /\ form'.val \in {list[id].val, Blank} /\ clicks' = clicks + 1
        /\ UNCHANGED <<rows, tab, list, fetches, save, ghosts, lost>>
    BY <1>7 DEF BeginEdit, Click, calls
  <2>2. id \in Nat
    BY <1>7 DEF BeginEdit, TypeOK, IsTable
  <2>3. QED
    BY <2>1, <2>2, Quieter, IntegrationAssumption
       DEF TypeOK, OnceInv, KeysDiffer, Holds, SaveMakes, Drafted, SaveMade
<1>8. ASSUME NEW id \in DOMAIN list, Remove(id) PROVE OnceInv'
  BY <1>8, Quieter
     DEF Remove, Click, TypeOK, OnceInv, KeysDiffer, Holds, SaveMakes, Drafted, SaveMade, screen
<1>9. QED
  BY <1>1, <1>2, <1>3, <1>4, <1>5, <1>6, <1>7, <1>8 DEF User

LEMMA SaveOnce == ASSUME TypeOK, OnceInv, SaveStep PROVE OnceInv'
<1>1. CASE ServeSave
  <2>1. /\ save \in Saves /\ tab \in Kinds /\ ~ Refuses(tab, save) /\ Put(tab, save)
        /\ save # NoCall /\ save.stage = "sent"
        /\ UNCHANGED <<tab, list, form, fetches, ghosts, lost, clicks>>
    BY <1>1 DEF ServeSave, TypeOK, screen, past
  <2>2. save'.id = save.id /\ save'.val = save.val /\ save'.stage = "served" /\ save' # NoCall
    <3>1. save' = [save EXCEPT !.stage = "served"] /\ save' \in Saves
      BY <1>1, <2>1 DEF ServeSave, Saves
    <3>2. QED BY <2>1, <3>1, IntegrationAssumption DEF Saves
  <2>3. ASSUME NEW k \in Lasting, NEW v \in Typed
        PROVE  /\ ~ SaveMakes(k, v)' /\ (Drafted(k, v)' <=> Drafted(k, v))
               /\ \A i \in Nat : Holds(k, v, i)' =>
                    Holds(k, v, i) \/ (SaveMakes(k, v) /\ i = save.n)
    <3>1. ~ SaveMakes(k, v)' /\ (Drafted(k, v)' <=> Drafted(k, v))
      BY <2>1, <2>2 DEF SaveMakes, Drafted
    <3>2. ASSUME NEW i \in Nat, i \in DOMAIN rows'[k], rows'[k][i].val = v
          PROVE  Holds(k, v, i) \/ (SaveMakes(k, v) /\ i = save.n)
      BY <2>1, <3>2, PutHolds DEF Holds, SaveMakes
    <3>3. QED
      BY <2>1, <2>2, <3>1, <3>2 DEF Holds
  <2>4. ASSUME NEW k \in Lasting, NEW v \in Typed \ lost' PROVE OneRow(k, v)'
    <3>1. OneRow(k, v)
      BY <2>1 DEF OnceInv
    <3>2. ~ SaveMade(v) /\ (SaveMakes(k, v) => SaveMade(v)')
      BY <2>1, <2>2 DEF SaveMakes, SaveMade
    <3>3. QED BY <2>1, <2>3, <3>1, <3>2 DEF OneRow
  <2>5. Fresh'
    BY <2>1, <2>3 DEF OnceInv, Fresh, Known
  <2>6. KeysDiffer'
    BY <2>1, PutKeys DEF OnceInv
  <2>7. QED BY <2>4, <2>5, <2>6 DEF OnceInv
<1>2. CASE AnswerSave
  <2>1. /\ save \in Saves /\ save # NoCall /\ save.stage = "served"
        /\ save' = [save EXCEPT !.stage = "listing"]
        /\ UNCHANGED <<rows, tab, list, ghosts, lost, clicks>>
    BY <1>2 DEF AnswerSave, TypeOK
  <2>2. save'.id = save.id /\ save'.val = save.val /\ save'.stage = "listing" /\ save' # NoCall
    <3>1. save' \in Saves
      BY <2>1 DEF Saves
    <3>2. QED BY <2>1, <3>1, IntegrationAssumption DEF Saves
  <2>3. tab \in Lasting => form' = form
    BY <1>2 DEF AnswerSave, Lasting
  <2>4. \A f \in fetches' : f \in fetches \/ f.got = Unread
    BY <1>2 DEF AnswerSave, SendFetch
  <2>5. QED
    BY <2>1, <2>2, <2>3, <2>4, Quieter
       DEF TypeOK, OnceInv, KeysDiffer, Holds, SaveMakes, Drafted, SaveMade
<1>3. CASE SaveFails
  <2>1. /\ save' = NoCall /\ UNCHANGED <<rows, tab, list, form, fetches, ghosts, clicks>>
        /\ lost \subseteq lost' /\ save.stage # "listing"
        /\ save.stage = "served" => save.val \in lost'
        /\ save \in Saves
    BY <1>3 DEF SaveFails, screen, TypeOK
  <2>2. \A v \in Typed : SaveMade(v) => v \in lost'
    BY <2>1 DEF SaveMade, Saves
  <2>3. QED
    BY <2>1, <2>2, Quieter DEF TypeOK, OnceInv, KeysDiffer, Holds, SaveMakes, Drafted
<1>4. QED BY <1>1, <1>2, <1>3 DEF SaveStep

\* A refresh that is over empties the form if the save waited for it.
LEMMA FetchOver ==
  ASSUME TypeOK, OnceInv, NEW f \in fetches, Continue(f), fetches' = fetches \ {f},
         list' = list \/ (f.got # Unread /\ list' = f.got),
         UNCHANGED <<rows, tab, ghosts, lost, clicks>>
  PROVE  OnceInv'
<1>1. CASE UNCHANGED <<save, form>>
  BY <1>1, Quieter DEF TypeOK, OnceInv, KeysDiffer, Holds, SaveMakes, Drafted, SaveMade
<1>2. CASE save' = NoCall /\ (tab \in Lasting => form' = EmptyForm)
  BY <1>2, Quieter, IntegrationAssumption
     DEF TypeOK, OnceInv, KeysDiffer, Holds, SaveMakes, Drafted, EmptyForm
<1>3. QED BY <1>1, <1>2 DEF Continue, Lasting

LEMMA FetchOnce == ASSUME TypeOK, OnceInv, FetchStep PROVE OnceInv'
<1>1. ASSUME NEW f \in fetches, ServeFetch(f) PROVE OnceInv'
  <2>1. \A g \in fetches' : g \in fetches \/ g.got = rows[tab]
    BY <1>1 DEF ServeFetch, TypeOK, IsFetch
  <2>2. UNCHANGED <<rows, tab, list, form, save, ghosts, lost, clicks>>
    BY <1>1 DEF ServeFetch, screen, past
  <2>3. QED
    BY <2>1, <2>2, Quieter
       DEF TypeOK, OnceInv, KeysDiffer, Holds, SaveMakes, Drafted, SaveMade
<1>2. ASSUME NEW f \in fetches, AnswerFetch(f) PROVE OnceInv'
  BY <1>2, FetchOver DEF AnswerFetch
<1>3. ASSUME NEW f \in fetches, FailFetch(f) PROVE OnceInv'
  BY <1>3, FetchOver DEF FailFetch
<1>4. QED BY <1>1, <1>2, <1>3 DEF FetchStep

\* A row that goes takes its value with it.
LEMMA DropOnce ==
  ASSUME TypeOK, OnceInv, NEW x \in Kinds, NEW id, Drop(x, id), ghosts' \subseteq ghosts,
         UNCHANGED <<tab, list, form, fetches, save, lost, clicks>>
  PROVE  OnceInv'
<1>1. KeysDiffer'
  BY DropKeys DEF OnceInv
<1>2. \A k \in Lasting : \A i \in DOMAIN rows'[k] :
        i \in DOMAIN rows[k] /\ rows'[k][i] = rows[k][i]
  BY DropFacts DEF Lasting, Kinds
<1>3. QED
  BY <1>1, <1>2, Quieter DEF TypeOK, Holds, SaveMakes, Drafted, SaveMade

LEMMA RemoveOnce == ASSUME TypeOK, OnceInv, RemoveStep PROVE OnceInv'
<1>1. ASSUME NEW r \in removes, ServeRemove(r) PROVE OnceInv'
  BY <1>1, DropOnce DEF ServeRemove, screen, past, TypeOK
<1>2. ASSUME NEW r \in removes, AnswerRemove(r) PROVE OnceInv'
  <2>1. form' = EmptyForm \/ form' = form
    BY <1>2 DEF AnswerRemove
  <2>2. \A f \in fetches' : f \in fetches \/ f.got = Unread
    BY <1>2 DEF AnswerRemove, SendFetch
  <2>3. UNCHANGED <<rows, tab, list, save, ghosts, lost, clicks>>
    BY <1>2 DEF AnswerRemove
  <2>4. QED
    BY <2>1, <2>2, <2>3, Quieter, IntegrationAssumption
       DEF TypeOK, OnceInv, KeysDiffer, Holds, SaveMakes, Drafted, SaveMade, EmptyForm
<1>3. ASSUME NEW r \in removes, RemoveFails(r) PROVE OnceInv'
  BY <1>3, Quieter
     DEF RemoveFails, screen, TypeOK, OnceInv, KeysDiffer, Holds, SaveMakes, Drafted, SaveMade
<1>4. QED BY <1>1, <1>2, <1>3 DEF RemoveStep

LEMMA GhostOnce == ASSUME TypeOK, OnceInv, NEW g \in ghosts, ServeGhost(g) PROVE OnceInv'
<1>1. /\ ghosts' = ghosts \ {g}
      /\ UNCHANGED <<tab, list, form, fetches, save, lost, clicks>>
  BY DEF ServeGhost, screen, past
<1>2. CASE UNCHANGED rows
  BY <1>1, <1>2, Quieter DEF TypeOK, OnceInv, KeysDiffer, Holds, SaveMakes, Drafted, SaveMade
<1>3. CASE g.op = "save" /\ ~ Refuses(g.kind, g.c) /\ Put(g.kind, g.c)
  <2>1. g.kind \in Kinds /\ g.c \in Saves
    BY <1>3 DEF TypeOK
  <2>2. ASSUME NEW k \in Lasting, NEW v \in Typed
        PROVE  /\ SaveMakes(k, v)' <=> SaveMakes(k, v)
               /\ Drafted(k, v)' <=> Drafted(k, v)
               /\ SaveMade(v)' <=> SaveMade(v)
               /\ \A i \in Nat : Holds(k, v, i)' =>
                    Holds(k, v, i) \/ (GhostMakes(g, k, v) /\ i = g.c.n)
    <3>1. (SaveMakes(k, v)' <=> SaveMakes(k, v)) /\ (Drafted(k, v)' <=> Drafted(k, v))
          /\ (SaveMade(v)' <=> SaveMade(v))
      BY <1>1 DEF SaveMakes, Drafted, SaveMade
    <3>2. ASSUME NEW i \in Nat, i \in DOMAIN rows'[k], rows'[k][i].val = v
          PROVE  Holds(k, v, i) \/ (GhostMakes(g, k, v) /\ i = g.c.n)
      BY <1>3, <2>1, <3>2, PutHolds DEF Holds, GhostMakes
    <3>3. QED
      BY <1>1, <3>1, <3>2 DEF Holds
  <2>3. ASSUME NEW k \in Lasting, NEW v \in Typed \ lost' PROVE OneRow(k, v)'
    <3>1. OneRow(k, v)
      BY <1>1 DEF OnceInv
    <3>2. QED BY <1>1, <2>2, <3>1 DEF OneRow
  <2>4. Fresh'
    BY <1>1, <2>2 DEF OnceInv, Fresh, Known
  <2>5. KeysDiffer'
    BY <1>3, <2>1, PutKeys DEF OnceInv
  <2>6. QED BY <2>3, <2>4, <2>5 DEF OnceInv
<1>4. CASE g.op = "remove" /\ Drop(g.kind, g.c.id)
  <2>1. g.kind \in Kinds
    BY DEF TypeOK
  <2>2. QED BY <1>1, <1>4, <2>1, DropOnce
<1>5. QED BY <1>2, <1>3, <1>4 DEF ServeGhost

\* The stored rows hold a value each, and nothing is typed.
LEMMA InitOnce == Init => OnceInv
<1> SUFFICES ASSUME Init PROVE OnceInv
  OBVIOUS
<1>1. ASSUME NEW k \in Lasting, NEW v \in Typed
      PROVE  /\ \A i \in Nat : Holds(k, v, i) => v.for = i /\ v.n = 0
             /\ ~ SaveMakes(k, v) /\ ~ Drafted(k, v) /\ ghosts = {}
  BY IntegrationAssumption
     DEF Init, Lasting, Kinds, Holds, SaveMakes, Drafted, NoRows, EmptyForm
<1>2. \A k \in Lasting : \A v \in Typed \ lost : OneRow(k, v)
  BY <1>1 DEF OneRow
<1>3. Fresh
  BY <1>1, IntegrationAssumption DEF Fresh, Known, Init
<1>4. KeysDiffer
  BY IntegrationAssumption DEF Init, Kinds, KeysDiffer
<1>5. QED BY <1>2, <1>3, <1>4 DEF OnceInv

\* A form that is submitted once makes one row, and a secret is never stored
\* twice under a key, whichever tabs are left and whatever answers are late.
THEOREM CreatedOnceHolds == Spec => []CreatedOnce
<1>1. TypeOK /\ OnceInv /\ [Next]_vars => OnceInv'
  <2> SUFFICES ASSUME TypeOK, OnceInv, [Next]_vars PROVE OnceInv'
    OBVIOUS
  <2>1. CASE UNCHANGED vars
    BY <2>1, Quieter
       DEF vars, screen, calls, past, TypeOK, OnceInv, KeysDiffer, Holds, SaveMakes, Drafted,
           SaveMade
  <2>2. QED
    BY <2>1, UserOnce, SaveOnce, FetchOnce, RemoveOnce, GhostOnce DEF Next, GhostStep
<1>2. TypeOK /\ OnceInv => CreatedOnce
  <2> SUFFICES ASSUME TypeOK, OnceInv, NEW k \in Lasting,
                      NEW i \in DOMAIN rows[k], NEW j \in DOMAIN rows[k],
                      rows[k][i].val = rows[k][j].val, rows[k][i].val # Blank, i # j
               PROVE  /\ rows[k][i].val \in lost
                      /\ k = "secret" => rows[k][i].key # rows[k][j].key
    BY DEF CreatedOnce, Lasting
  <2>1. i \in Nat /\ j \in Nat /\ rows[k][i].val \in Typed
    BY DEF TypeOK, IsTable, Lasting, Kinds, Val
  <2>2. PICK v \in Typed : v = rows[k][i].val
    BY <2>1
  <2>3. Holds(k, v, i) /\ Holds(k, v, j)
    BY <2>2 DEF Holds
  <2>4. v \in lost
    BY <2>1, <2>2, <2>3 DEF OnceInv, OneRow
  <2>5. QED BY <2>2, <2>4 DEF OnceInv, KeysDiffer
<1>3. QED BY <1>1, <1>2, InitOnce, TypeCorrect, PTL DEF Spec
=============================================================================
