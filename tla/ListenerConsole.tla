--------------------------- MODULE ListenerConsole ---------------------------
(***************************************************************************)
(* UrlsTab of the web client (web/src/App.jsx): listeners, the secrets and *)
(* URLs under them, the identity registry and the public alias, as one     *)
(* browser shows and changes them, with the handlers of the server that    *)
(* make one request of several calls to the store.                         *)
(*                                                                         *)
(* A handler of the tab runs to completion between two awaits, a handler   *)
(* of the server between two calls to the store: one action each.  A read  *)
(* answers its table as it was at some moment after it was sent, so it     *)
(* keeps what it may have seen; answers overtake each other.               *)
(*                                                                         *)
(* Leaving the tab unmounts it with its calls in flight: the server still  *)
(* carries the writes out, and a refresh of the listeners still reaches    *)
(* App, which keeps them, but the other refreshes after a write are shown  *)
(* by nobody.  The tab comes back with none of the state it had, the busy  *)
(* flags included, and reads everything anew.                              *)
(*                                                                         *)
(* What is abstracted: a listener is its key (provider and listener_id), a *)
(* secret the click that made it, an address the pair of a secret and an   *)
(* alias.  Addresses are new (WebhookIdentity has those that come back).   *)
(* The events fetched along with the listeners are EventConsole's.  The    *)
(* store is MySQLStore.                                                    *)
(***************************************************************************)
EXTENDS Naturals, FiniteSets

CONSTANTS
  Keys,      \* listeners: provider and listener_id
  StockKey,  \* the listener there is when the tab is loaded, type 0, secret 0
  NoIdent,   \* no identity is being changed
  MaxClicks, \* bound: clicks, those that leave the tab and faults together
  MaxOpen,   \* bound: writes and refreshes in flight when a button is clicked
  MaxLeaves, \* bound: how often the tab is left
  MaxFaults, \* bound: calls that fail or are refused
  MaxSecond, \* bound: created_at of a type, in whole seconds of some clock
  MaxUuid    \* bound: the order of the ids of types of one second

\* Addresses, their status, and the URL of a secret under an alias.
Idents == (0..MaxClicks) \X (0..MaxClicks)
Status == {"active", "blocked", "deleted_tombstoned"}
Url == [secret : 0..MaxClicks, alias : 0..MaxClicks]
\* A row of webhook_types.
TypeRow == [id : 0..MaxClicks, key : Keys, at : 0..MaxSecond, uuid : 0..MaxUuid]

ASSUME ListenerAssumption ==
  /\ StockKey \in Keys
  /\ Keys \cap {"listeners", "identities"} = {}
  /\ {MaxClicks, MaxOpen, MaxLeaves, MaxFaults, MaxSecond, MaxUuid} \subseteq Nat

VARIABLES
  db,         \* the server's tables: alias, types, secrets, idents
  listeners,  \* the listeners prop: type rows
  secretMap,  \* secrets this browser made, with the alias of their URL
  history,    \* secretsHistory
  identities, \* webhookIdentities
  busy,       \* identityBusyID
  open,       \* the tab is mounted
  first,      \* number of the first click since it was last left
  calls,      \* writes in flight, up to the last thing their handler awaits
  reads,      \* refreshes in flight
  clicks,     \* clicks so far; numbers the calls and the rows they make
  leaves,     \* how often the tab was left
  faults,     \* faults so far
  upToDate,   \* history: for each list, the read sent last was answered last,
              \* and was not one of a tab that was left
  wanted,     \* history: the status last clicked for each identity
  alone,      \* history: no identity was changed while another one was, or while
              \* a change of a tab that was left was in flight
  exempt,     \* history: secrets made while their listener changed, or not revoked
              \* because a call failed
  doubled     \* history: listeners that had two types at once

tab == <<open, first, leaves>>
screen == <<listeners, secretMap, history, identities, busy, tab>>
past == <<upToDate, wanted, alone, exempt, doubled>>
vars == <<db, screen, calls, reads, clicks, faults, past>>

Lists == {"listeners", "identities"} \cup Keys

\* The secrets of a type that ListSecrets returns.
ActiveOf(d, t) == {s \in DOMAIN d.secrets : d.secrets[s].type = t /\ d.secrets[s].active}
TypesOf(d, k) == {t \in d.types : t.key = k}
\* findListenerType takes the newest type of a key, by created_at, then by id.
\* Ids are random: uuid is the place of a type's id among those of its second.
Newer(t, u) == t.at > u.at \/ (t.at = u.at /\ t.uuid >= u.uuid)
NewestType(d, k) == CHOOSE t \in TypesOf(d, k) : \A u \in TypesOf(d, k) : Newer(t, u)
\* DeleteListener takes the first by created_at: any of those of one second.
OldestTypes(d, k) == {t \in TypesOf(d, k) : \A u \in TypesOf(d, k) : t.at <= u.at}

\* What a read of list l shows of the tables d: fetchListeners,
\* fetchWebhookIdentities, or fetchSecrets of one listener, which the server
\* may not find.
Found(d, k) == TypesOf(d, k) # {}
ListedSecrets(d, k) ==
  {[secret |-> s, alias |-> d.alias] : s \in ActiveOf(d, NewestType(d, k).id)}
Shown(d, l) ==
  [types |-> IF l = "listeners" THEN d.types ELSE {},
   idents |-> IF l = "identities" THEN d.idents ELSE [i \in {} |-> "active"],
   found |-> l \in Keys /\ Found(d, l),
   urls |-> IF l \in Keys /\ Found(d, l) THEN ListedSecrets(d, l) ELSE {}]

Write(d) ==
  /\ db' = d
  /\ reads' = {[f EXCEPT !.seen = @ \cup {Shown(d, f.list)}] : f \in reads}
\* The bounds: a click that leaves the tab makes no call.
Spare == clicks + leaves + faults < MaxClicks
Quiet == Cardinality(calls) + Cardinality(reads) <= MaxOpen
Click == Spare /\ Quiet /\ clicks' = clicks + 1
Fault == Spare /\ faults < MaxFaults /\ faults' = faults + 1

Init ==
  /\ db = [alias |-> 0, types |-> {[id |-> 0, key |-> StockKey, at |-> 0, uuid |-> MaxUuid]},
           secrets |-> [s \in {0} |-> [type |-> 0, active |-> TRUE]],
           idents |-> [i \in {<<0, 0>>} |-> "active"]]
  /\ listeners = db.types
  /\ secretMap = [k \in Keys |-> {}]
  /\ history = [k \in Keys |-> IF k = StockKey THEN ListedSecrets(db, k) ELSE {}]
  /\ identities = db.idents
  /\ busy = NoIdent
  /\ open = TRUE /\ first = 1
  /\ calls = {} /\ reads = {}
  /\ clicks = 1 /\ leaves = 0 /\ faults = 0
  /\ upToDate = [l \in Lists |-> TRUE]
  /\ wanted = [i \in {} |-> "active"] /\ alone = TRUE
  /\ exempt = {} /\ doubled = {}

---------------------------------------------------------------------------
(***************************************************************************)
(* Refreshing.                                                             *)
(***************************************************************************)

\* Besides the reads in R, call n reads the lists in L for its owner: the
\* handler of a write, an effect, a button, or a write of a tab that was left.
SendAfter(R, n, owner, L) ==
  reads' = {[f EXCEPT !.newest = @ /\ f.list \notin L] : f \in R} \cup
    {[n |-> n, list |-> l, owner |-> owner, seen |-> {Shown(db, l)}, newest |-> TRUE] : l \in L}
Send(n, owner, L) == SendAfter(reads, n, owner, L)
\* The screen is out of date when an older read was the last to be answered.
Answered(f) ==
  upToDate' = [upToDate EXCEPT ![f.list] =
                 f.newest \/ \E g \in reads : g.list = f.list /\ g.newest]

\* The write of number n goes on to the given stage, or is over.
Goes(n, stage) ==
  calls' = {IF c.n = n THEN [c EXCEPT !.stage = stage] ELSE c : c \in calls}
Over(n) == calls' = {c \in calls : c.n # n}
Call(n) == CHOOSE c \in calls : c.n = n

\* App has new listeners, which run the effect of an open tab: it reads the
\* identities and the secrets of each listener.
TabReads(types) == {"identities"} \cup {t.key : t \in types}
AnswerListeners(f) ==
  /\ f.list = "listeners"
  /\ \E shown \in f.seen :
       /\ listeners' = shown.types
       /\ SendAfter(reads \ {f}, f.n, "effect", IF open THEN TabReads(shown.types) ELSE {})
  /\ Goes(f.n, "refreshed")
  /\ Answered(f)
  /\ UNCHANGED <<db, secretMap, history, identities, busy, tab,
                 clicks, faults, wanted, alone, exempt, doubled>>

\* fetchWebhookIdentities by itself, or at the end of a write, whose flag is
\* cleared then; a change of status clears whatever flag there is.
EndsWith(f) ==
  IF f.owner = "write"
  THEN /\ Over(f.n)
       /\ busy' = IF Call(f.n).op = "status" THEN NoIdent ELSE busy
  ELSE UNCHANGED <<calls, busy>>

AnswerIdentities(f) ==
  /\ f.list = "identities"
  /\ \E shown \in f.seen : identities' = shown.idents
  /\ reads' = reads \ {f}
  /\ EndsWith(f)
  /\ Answered(f)
  /\ UNCHANGED <<db, listeners, secretMap, history, tab, clicks,
                 faults, wanted, alone, exempt, doubled>>

\* createSecret fetches the identities after the secrets.
SecretsRead(f) ==
  IF f.owner = "write"
  THEN Goes(f.n, "listing") /\ SendAfter(reads \ {f}, f.n, "write", {"identities"})
  ELSE calls' = calls /\ reads' = reads \ {f}

AnswerSecrets(f) ==
  /\ f.list \in Keys
  /\ \E shown \in f.seen :
       history' = IF shown.found THEN [history EXCEPT ![f.list] = shown.urls] ELSE history
  /\ SecretsRead(f)
  /\ Answered(f)
  /\ UNCHANGED <<db, listeners, secretMap, identities, busy, tab,
                 clicks, faults, wanted, alone, exempt, doubled>>

\* The three fetches keep their errors to themselves; what waits for them
\* goes on.
FailRead(f) ==
  /\ Fault
  /\ CASE f.list = "listeners" ->
            Goes(f.n, "refreshed") /\ reads' = reads \ {f} /\ busy' = busy
       [] f.list = "identities" -> EndsWith(f) /\ reads' = reads \ {f}
       [] OTHER -> SecretsRead(f) /\ busy' = busy
  /\ UNCHANGED <<db, listeners, secretMap, history, identities, tab,
                 clicks, past>>

\* onRefresh has settled, the events included.
Refreshed(c) ==
  /\ c.stage = "refreshed"
  /\ IF c.op = "alias"
     THEN Over(c.n) /\ UNCHANGED reads
     ELSE Goes(c.n, "listing") /\ Send(c.n, "write", {"identities"})
  /\ UNCHANGED <<db, screen, clicks, faults, past>>

RefreshButton(l) ==
  /\ open /\ l \in {"listeners", "identities"}
  /\ Click
  /\ Send(clicks, "button", {l})
  /\ UNCHANGED <<db, screen, calls, faults, past>>

---------------------------------------------------------------------------
(***************************************************************************)
(* Leaving the tab and coming back.  App reads the listeners on either.    *)
(***************************************************************************)
Unanswered == {"sent", "typed", "revoking", "served"}
Left(c) == c.n < first

\* What was read for the tab alone is dropped, and so are the writes that
\* only wait for it.
Leave ==
  /\ open /\ Spare /\ Quiet /\ leaves < MaxLeaves
  /\ open' = FALSE /\ first' = clicks /\ leaves' = leaves + 1
  /\ secretMap' = [k \in Keys |-> {}] /\ history' = secretMap'
  /\ identities' = [i \in {} |-> "active"] /\ busy' = NoIdent
  /\ calls' = {c \in calls : c.stage \in Unanswered}
  /\ SendAfter({[f EXCEPT !.owner = "left"] : f \in {g \in reads : g.list = "listeners"}},
               0, "effect", {"listeners"})
  /\ UNCHANGED <<db, listeners, clicks, faults, past>>

Return ==
  /\ ~ open /\ open' = TRUE
  /\ Send(0, "effect", {"listeners"} \cup TabReads(listeners))
  /\ upToDate' = [l \in Lists |-> l # "listeners" \/ upToDate[l]]
  /\ UNCHANGED <<db, listeners, secretMap, history, identities, busy, first, leaves,
                 calls, clicks, faults, wanted, alone, exempt, doubled>>

---------------------------------------------------------------------------
(***************************************************************************)
(* Writing: the clicks.                                                    *)
(***************************************************************************)
Start(c) ==
  /\ calls' = calls \cup {c}
  /\ UNCHANGED <<db, reads, faults, upToDate>>

\* A change of one listener, overlapping those that are not answered yet.
Change(c) ==
  /\ Click
  /\ Start(c)
  /\ LET others == {x \in calls : x.op \in {"create", "mint", "delete"}
                                  /\ x.key = c.key /\ x.stage \in Unanswered}
     IN exempt' = exempt \cup {x.n : x \in IF others = {} THEN {} ELSE others \cup {c}}
  /\ UNCHANGED <<screen, wanted, alone, doubled>>

\* CREATE LISTENER is disabled while the tab, as it is open now, creates one;
\* the key may be one that is there already.
CreateListener(k) ==
  /\ open /\ \A c \in calls : c.op = "create" => Left(c)
  /\ Change([op |-> "create", n |-> clicks, key |-> k, type |-> clicks, alias |-> 0,
             stage |-> "sent"])

\* Create Secret is never disabled.
CreateSecret(k) ==
  /\ open /\ Found([types |-> listeners], k)
  /\ Change([op |-> "mint", n |-> clicks, key |-> k, type |-> 0, alias |-> 0,
             stage |-> "sent"])

DeleteListener(k) ==
  /\ open /\ Found([types |-> listeners], k)
  /\ Change([op |-> "delete", n |-> clicks, key |-> k, type |-> 0, secrets |-> {},
             stage |-> "sent"])

UpdatePublicAlias ==
  /\ open /\ \A c \in calls : c.op = "alias" => Left(c)
  /\ Click
  /\ Start([op |-> "alias", n |-> clicks, stage |-> "sent"])
  /\ UNCHANGED <<screen, wanted, alone, exempt, doubled>>

\* Block and Restore: the button of the one row that is marked is disabled.  A
\* tab that comes back has no mark, whatever is still in flight.
StatusEnabledAlways(i, to) ==
  /\ i \in DOMAIN identities
  /\ \/ identities[i] = "active" /\ to = "blocked"
     \/ identities[i] = "blocked" /\ to = "active"
StatusEnabled(i, to) ==
  /\ i \in DOMAIN identities /\ i # busy
  /\ \/ identities[i] = "active" /\ to = "blocked"
     \/ identities[i] = "blocked" /\ to = "active"

ChangeIdentityStatus(i, to) ==
  /\ StatusEnabled(i, to)
  /\ Click
  /\ Start([op |-> "status", n |-> clicks, ident |-> i, to |-> to, stage |-> "sent"])
  /\ busy' = i
  /\ wanted' = [j \in DOMAIN wanted \cup {i} |-> IF j = i THEN to ELSE wanted[j]]
  /\ alone' = (alone /\ \A c \in calls : c.op = "status" => c.ident = i /\ ~ Left(c))
  /\ UNCHANGED <<listeners, secretMap, history, identities, tab, exempt, doubled>>

---------------------------------------------------------------------------
(***************************************************************************)
(* Writing: the handlers of the server, one call to the store a step.      *)
(***************************************************************************)
Moves(c, to) == calls' = (calls \ {c}) \cup {to}
Served(c, stage) ==
  /\ Moves(c, [c EXCEPT !.stage = stage])
  /\ UNCHANGED <<screen, clicks, faults, past>>

\* CreateListener makes a type, whatever types the key has already, then a
\* secret under it.  The alias of the URL it answers is that of the account
\* as the request found it.
CreateWebhookType(c) ==
  /\ c.op = "create" /\ c.stage = "sent"
  /\ \E at \in 0..MaxSecond, uuid \in 0..MaxUuid :
       /\ \A t \in db.types : t.at # at \/ t.uuid # uuid
       /\ Write([db EXCEPT !.types = @ \cup {[id |-> c.n, key |-> c.key, at |-> at, uuid |-> uuid]}])
  /\ Moves(c, [c EXCEPT !.stage = "typed", !.alias = db.alias])
  /\ doubled' = IF Found(db, c.key) THEN doubled \cup {c.key} ELSE doubled
  /\ UNCHANGED <<screen, clicks, faults, upToDate, wanted, alone, exempt>>

\* CreateListenerSecret finds the type, or none.
FindListenerType(c) ==
  /\ c.op = "mint" /\ c.stage = "sent"
  /\ Found(db, c.key)
  /\ Moves(c, [c EXCEPT !.stage = "typed", !.type = NewestType(db, c.key).id,
                         !.alias = db.alias])
  /\ UNCHANGED <<db, screen, reads, clicks, faults, past>>

\* The secret and the identity of its address, in one transaction.
WithSecret(c) ==
  [s \in DOMAIN db.secrets \cup {c.n} |->
     IF s = c.n THEN [type |-> c.type, active |-> TRUE] ELSE db.secrets[s]]
WithIdent(c) ==
  [i \in DOMAIN db.idents \cup {<<c.n, db.alias>>} |->
     IF i = <<c.n, db.alias>> THEN "active" ELSE db.idents[i]]

StoreSecretBare(c) ==
  /\ c.stage = "typed"
  /\ Write([db EXCEPT !.idents = WithIdent(c)])
  /\ Served(c, "served")
StoreSecret(c) ==
  /\ c.stage = "typed"
  /\ Write([db EXCEPT !.secrets = WithSecret(c), !.idents = WithIdent(c)])
  /\ Served(c, "served")

\* DeleteListener reads the type and its secrets, revokes those one by one,
\* and removes the type.  Secrets that cannot be read are taken for none.
ReadListener(c) ==
  /\ c.op = "delete" /\ c.stage = "sent"
  /\ Found(db, c.key)
  /\ \E t \in OldestTypes(db, c.key) :
       \/ /\ Moves(c, [c EXCEPT !.stage = "revoking", !.type = t.id, !.secrets = ActiveOf(db, t.id)])
          /\ UNCHANGED <<faults, exempt>>
       \/ /\ Fault /\ Moves(c, [c EXCEPT !.stage = "revoking", !.type = t.id])
          /\ exempt' = exempt \cup ActiveOf(db, t.id)
  /\ UNCHANGED <<db, screen, reads, clicks, upToDate, wanted, alone, doubled>>

\* The secrets of S are revoked and their identities tombstoned.
Revoked(d, S) ==
  [d EXCEPT
     !.secrets = [s \in DOMAIN @ |-> IF s \in S THEN [@[s] EXCEPT !.active = FALSE] ELSE @[s]],
     !.idents = [i \in DOMAIN @ |-> IF i[1] \in S THEN "deleted_tombstoned" ELSE @[i]]]

DeleteSecretSkipped(c, s) ==
  /\ c.op = "delete" /\ c.stage = "revoking" /\ s \in c.secrets
  /\ Moves(c, [c EXCEPT !.secrets = {}])
  /\ UNCHANGED <<db, faults, screen, reads, clicks, past>>

\* An error of DeleteSecret is dropped.
DeleteSecret(c, s) ==
  /\ c.op = "delete" /\ c.stage = "revoking" /\ s \in c.secrets
  /\ \/ Write(Revoked(db, {s})) /\ UNCHANGED <<faults, exempt>>
     \/ Fault /\ exempt' = exempt \cup {s} /\ UNCHANGED <<db, reads>>
  /\ Moves(c, [c EXCEPT !.secrets = @ \ {s}])
  /\ UNCHANGED <<screen, clicks, upToDate, wanted, alone, doubled>>

\* MySQLStore removes the row only, and refuses nothing.
DeleteWebhookType(c) ==
  /\ c.op = "delete" /\ c.stage = "revoking" /\ c.secrets = {}
  /\ Write([db EXCEPT !.types = {t \in @ : t.id # c.type}])
  /\ Served(c, "served")

\* The active identities of the old alias become tombstones, active ones of
\* the new alias take their place.
UpdateAccountPublicAlias(c) ==
  /\ c.op = "alias" /\ c.stage = "sent"
  /\ LET moved == {i \in DOMAIN db.idents : i[2] = db.alias /\ db.idents[i] = "active"} IN
       Write([db EXCEPT
         !.alias = c.n,
         !.idents = [i \in DOMAIN @ \cup {<<j[1], c.n>> : j \in moved} |->
                       IF i \notin DOMAIN @ THEN "active"
                       ELSE IF i \in moved THEN "deleted_tombstoned" ELSE @[i]]])
  /\ Served(c, "served")

\* A tombstone is restored only while its secret is active.
MayChange(c) ==
  db.idents[c.ident] = "deleted_tombstoned" /\ c.to = "active" => db.secrets[c.ident[1]].active

UpdateWebhookIdentityStatus(c) ==
  /\ c.op = "status" /\ c.stage = "sent" /\ MayChange(c)
  /\ Write([db EXCEPT !.idents[c.ident] = c.to])
  /\ Served(c, "served")

---------------------------------------------------------------------------
(***************************************************************************)
(* Writing: the answers.                                                   *)
(***************************************************************************)
MintedOnce(c) ==
  secretMap' = [secretMap EXCEPT ![c.key] =
                  IF @ # {} THEN @ ELSE {[secret |-> c.n, alias |-> c.alias]}]
Minted(c) == secretMap' = [secretMap EXCEPT ![c.key] = {[secret |-> c.n, alias |-> c.alias]}]

\* The answer of a creation carries the secret and its URL.
AnswerCreate(c) ==
  /\ c.op = "create" /\ c.stage = "served" /\ ~ Left(c)
  /\ Minted(c)
  /\ Goes(c.n, "refreshing")
  /\ Send(c.n, "write", {"listeners"})
  /\ UNCHANGED <<db, listeners, history, identities, busy, tab,
                 clicks, faults, past>>

AnswerMint(c) ==
  /\ c.op = "mint" /\ c.stage = "served" /\ ~ Left(c)
  /\ Minted(c)
  /\ Goes(c.n, "secrets")
  /\ Send(c.n, "write", {c.key})
  /\ UNCHANGED <<db, listeners, history, identities, busy, tab,
                 clicks, faults, past>>

\* The history of the listener is forgotten, not the secret made here.
AnswerDelete(c) ==
  /\ c.op = "delete" /\ c.stage = "served" /\ ~ Left(c)
  /\ history' = [history EXCEPT ![c.key] = {}]
  /\ Goes(c.n, "refreshing")
  /\ Send(c.n, "write", {"listeners"})
  /\ UNCHANGED <<db, listeners, secretMap, identities, busy, tab,
                 clicks, faults, past>>

AnswerAlias(c) ==
  /\ c.op = "alias" /\ c.stage = "served" /\ ~ Left(c)
  /\ Goes(c.n, "refreshing")
  /\ Send(c.n, "write", {"listeners"})
  /\ UNCHANGED <<db, screen, clicks, faults, past>>

AnswerStatusEarly(c) ==
  /\ c.op = "status" /\ c.stage = "served" /\ ~ Left(c)
  /\ Over(c.n)
  /\ busy' = NoIdent
  /\ UNCHANGED <<db, listeners, secretMap, history, identities, tab,
                 reads, clicks, faults, past>>
AnswerStatus(c) ==
  /\ c.op = "status" /\ c.stage = "served" /\ ~ Left(c)
  /\ Goes(c.n, "listing")
  /\ Send(c.n, "write", {"identities"})
  /\ UNCHANGED <<db, screen, clicks, faults, past>>

\* The answer to a tab that was left: App reads the listeners after all, what
\* is read for the tab is shown by nobody, and no mark is cleared.
LostReads(c) == IF c.op = "mint" THEN {c.key, "identities"} ELSE {"identities"}
AnswerLeft(c) ==
  /\ c.stage = "served" /\ Left(c)
  /\ Over(c.n)
  /\ IF c.op \in {"mint", "status"}
     THEN /\ reads' = {[f EXCEPT !.newest = @ /\ f.list \notin LostReads(c)] : f \in reads}
          /\ upToDate' = [l \in Lists |-> upToDate[l] /\ l \notin LostReads(c)]
     ELSE /\ Send(c.n, "left", {"listeners"})
          /\ UNCHANGED upToDate
  /\ UNCHANGED <<db, screen, clicks, faults, wanted, alone, exempt, doubled>>

\* The call fails or is refused, before or after it was served; a creation
\* refused for its secret leaves the type it made.
Refused(c) ==
  /\ c.stage = "sent"
  /\ \/ c.op \in {"mint", "delete"} /\ ~ Found(db, c.key)
     \/ c.op = "status" /\ ~ MayChange(c)

CallFails(c) ==
  /\ c.stage \in Unanswered
  /\ Fault \/ (Refused(c) /\ UNCHANGED faults)
  /\ calls' = calls \ {c}
  /\ busy' = IF c.op = "status" /\ ~ Left(c) THEN NoIdent ELSE busy
  /\ UNCHANGED <<db, listeners, secretMap, history, identities, tab, reads, clicks, past>>

---------------------------------------------------------------------------
User ==
  \/ \E k \in Keys : CreateListener(k) \/ CreateSecret(k) \/ DeleteListener(k)
  \/ UpdatePublicAlias
  \/ \E i \in DOMAIN identities, to \in {"active", "blocked"} : ChangeIdentityStatus(i, to)
  \/ \E l \in Lists : RefreshButton(l)
  \/ Leave \/ Return

Store(c) ==
  \/ CreateWebhookType(c) \/ FindListenerType(c) \/ StoreSecret(c)
  \/ ReadListener(c) \/ (\E s \in 0..MaxClicks : DeleteSecret(c, s)) \/ DeleteWebhookType(c)
  \/ UpdateAccountPublicAlias(c) \/ UpdateWebhookIdentityStatus(c)

Answer(c) ==
  \/ AnswerCreate(c) \/ AnswerMint(c) \/ AnswerDelete(c) \/ AnswerAlias(c)
  \/ AnswerStatus(c) \/ AnswerLeft(c) \/ CallFails(c) \/ Refreshed(c)

CallStep == \E c \in calls : Store(c) \/ Answer(c)
ReadStep ==
  \E f \in reads :
    AnswerListeners(f) \/ AnswerIdentities(f) \/ AnswerSecrets(f) \/ FailRead(f)

Next == User \/ CallStep \/ ReadStep

Spec == Init /\ [][Next]_vars
---------------------------------------------------------------------------
(***************************************************************************)
(* Properties.                                                             *)
(***************************************************************************)
\* Type invariant.
TypeOK ==
  /\ db.alias \in 0..MaxClicks
  /\ db.types \cup listeners \subseteq TypeRow
  /\ \A s \in DOMAIN db.secrets : db.secrets[s] \in [type : 0..MaxClicks, active : BOOLEAN]
  /\ DOMAIN db.idents \cup DOMAIN identities \subseteq Idents
  /\ \A i \in DOMAIN db.idents : db.idents[i] \in Status /\ i[1] \in DOMAIN db.secrets
  /\ secretMap \in [Keys -> SUBSET Url] /\ history \in [Keys -> SUBSET Url]
  /\ busy \in Idents \cup {NoIdent} /\ first \in 1..clicks /\ leaves \in 0..MaxLeaves
  /\ \A c \in calls : c.stage \in Unanswered \cup {"refreshing", "refreshed", "secrets", "listing"}
  /\ \A f \in reads : f.list \in Lists

\* Once everything has settled App has the server's listeners, and the open
\* tab shows their active secrets under the current alias and the server's
\* identities: every write is followed by the reads it makes stale, however
\* several writes overlap, and the tab reads all of it when it comes back,
\* if nothing failed and the read of a list sent last was answered last, to
\* the tab it was sent for.
SettledTab ==
  /\ calls = {} /\ reads = {} /\ faults = 0
  => /\ upToDate["listeners"] => listeners = db.types
     /\ open =>
          /\ upToDate["identities"] => identities = db.idents
          /\ \A t \in listeners :
               upToDate[t.key] /\ Found(db, t.key) => history[t.key] = ListedSecrets(db, t.key)

\* No secret outlives its listener: one whose type is gone is revoked, unless
\* its own revocation failed or it was made while its listener changed,
\* whatever other call fails and whenever the tab is left.
NoOrphanSecret ==
  \A s \in DOMAIN db.secrets :
    db.secrets[s].active => \/ \E t \in db.types : t.id = db.secrets[s].type
                            \/ s \in exempt

\* Block and Restore take effect in the order of the clicks: what was clicked
\* last is the status of the identity, unless it was tombstoned, provided no
\* identity was changed while another one was, or while a change of a tab
\* that was left was in flight: one marker serves all rows, and a tab that
\* comes back has lost it.
LastClickWins ==
  alone /\ faults = 0 /\ (\A c \in calls : c.op # "status") =>
    \A i \in DOMAIN wanted : db.idents[i] \in {wanted[i], "deleted_tombstoned"}

\* The secret whose URL is shown because it was made here is not a revoked
\* one, once the tab has settled, unless a call failed, it was made while its
\* listener changed, or the listener had two types at once: a deletion then
\* takes one of them and may leave the other.
ShownSecretActive ==
  /\ calls = {} /\ reads = {} /\ faults = 0
  /\ upToDate["listeners"]
  => \A t \in listeners : t.key \notin doubled =>
       \A u \in secretMap[t.key] : db.secrets[u.secret].active \/ u.secret \in exempt
=============================================================================
