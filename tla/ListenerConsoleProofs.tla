------------------------ MODULE ListenerConsoleProofs ------------------------
(***************************************************************************)
(* Proofs about ListenerConsole, for any listeners and any number of       *)
(* clicks, of calls in flight and of failures.                             *)
(***************************************************************************)
EXTENDS ListenerConsole, WellFoundedInduction, TLAPS

(***************************************************************************)
(* Type correctness.                                                       *)
(***************************************************************************)
N == 0..MaxClicks
Secrets == UNION {[S -> [type : N, active : BOOLEAN]] : S \in SUBSET N}
Identities == UNION {[S -> Status] : S \in SUBSET Idents}
Tables == [alias : N, types : SUBSET TypeRow, secrets : Secrets, idents : Identities]
Views == [types : SUBSET TypeRow, idents : Identities, found : BOOLEAN, urls : SUBSET Url]

Stages == {"sent", "typed", "revoking", "served", "refreshing", "refreshed", "secrets", "listing"}
Makes == [op : {"create", "mint"}, n : N, key : Keys, type : N, alias : N, stage : Stages]
Deletes == [op : {"delete"}, n : N, key : Keys, type : N, secrets : SUBSET N, stage : Stages]
Aliases == [op : {"alias"}, n : N, stage : Stages]
Changes == [op : {"status"}, n : N, ident : Idents, to : {"active", "blocked"}, stage : Stages]
Calls == Makes \cup Deletes \cup Aliases \cup Changes
Reads == [n : N, list : Lists, owner : {"write", "effect", "button", "left"}, seen : SUBSET Views,
          newest : BOOLEAN]

TablesType == db \in Tables /\ \A i \in DOMAIN db.idents : i[1] \in DOMAIN db.secrets
ScreenType ==
  /\ listeners \subseteq TypeRow /\ identities \in Identities /\ busy \in Idents \cup {NoIdent}
  /\ secretMap \in [Keys -> SUBSET Url] /\ history \in [Keys -> SUBSET Url]
PastType ==
  /\ clicks \in Nat /\ faults \in Nat /\ upToDate \in [Lists -> BOOLEAN] /\ alone \in BOOLEAN
  /\ DOMAIN wanted \subseteq Idents /\ wanted \in [DOMAIN wanted -> {"active", "blocked"}]
TypedMakes == \A c \in calls : c.stage = "typed" => c.op \in {"create", "mint"}
TypeInv ==
  /\ TablesType /\ ScreenType /\ PastType /\ TypedMakes /\ leaves \in Nat
  /\ calls \subseteq Calls /\ reads \subseteq Reads

LEMMA SecretsType ==
  \A f : f \in Secrets <=> DOMAIN f \subseteq N /\ f \in [DOMAIN f -> [type : N, active : BOOLEAN]]
BY DEF Secrets
LEMMA IdentitiesType ==
  \A f : f \in Identities <=> DOMAIN f \subseteq Idents /\ f \in [DOMAIN f -> Status]
BY DEF Identities

LEMMA ShownType ==
  ASSUME NEW d \in Tables, NEW l \in Lists
  PROVE  Shown(d, l) \in Views
<1>1. d.alias \in N /\ d.types \subseteq TypeRow /\ d.idents \in Identities /\ d.secrets \in Secrets
  BY DEF Tables
<1>2. [i \in {} |-> "active"] \in Identities
  BY IdentitiesType
<1>3. DOMAIN d.secrets \subseteq N
  BY <1>1, SecretsType
<1>4. ListedSecrets(d, l) \subseteq Url
  BY <1>1, <1>3 DEF ListedSecrets, ActiveOf, Url, N
<1>5. QED
  BY <1>1, <1>2, <1>4 DEF Shown, Views

LEMMA WriteType ==
  ASSUME NEW d \in Tables, Write(d), reads \subseteq Reads
  PROVE  db' \in Tables /\ reads' \subseteq Reads
<1>1. ASSUME NEW f \in Reads PROVE [f EXCEPT !.seen = @ \cup {Shown(d, f.list)}] \in Reads
  <2>1. Shown(d, f.list) \in Views
    BY ShownType DEF Reads
  <2>2. QED
    BY <2>1 DEF Reads
<1>2. QED
  BY <1>1 DEF Write

LEMMA SendType ==
  ASSUME TypeInv, NEW R \in SUBSET reads, NEW n \in N, NEW owner \in {"write", "effect", "button", "left"},
         NEW L \in SUBSET Lists, SendAfter(R, n, owner, L)
  PROVE  reads' \subseteq Reads
<1>1. ASSUME NEW f \in Reads PROVE [f EXCEPT !.newest = @ /\ f.list \notin L] \in Reads
  <2>1. (f.newest /\ f.list \notin L) \in BOOLEAN
    OBVIOUS
  <2>2. QED
    BY <2>1 DEF Reads
<1>2. ASSUME NEW l \in L
      PROVE  [n |-> n, list |-> l, owner |-> owner, seen |-> {Shown(db, l)}, newest |-> TRUE] \in Reads
  <2>1. Shown(db, l) \in Views
    BY ShownType DEF TypeInv, TablesType
  <2>2. QED
    BY <2>1 DEF Reads
<1>3. QED
  BY <1>1, <1>2 DEF SendAfter, TypeInv

LEMMA StageType ==
  ASSUME NEW c \in Calls, NEW stage \in Stages
  PROVE  /\ [c EXCEPT !.stage = stage] \in Calls
         /\ [c EXCEPT !.stage = stage].stage = stage
         /\ [c EXCEPT !.stage = stage].n = c.n /\ [c EXCEPT !.stage = stage].op = c.op
BY DEF Calls, Makes, Deletes, Aliases, Changes

LEMMA GoesType ==
  ASSUME calls \subseteq Calls, NEW n, NEW stage \in Stages, Goes(n, stage)
  PROVE  calls' \subseteq Calls
BY StageType DEF Goes

LEMMA CallFields ==
  ASSUME NEW c \in Calls
  PROVE  /\ c.n \in N /\ c.stage \in Stages
         /\ c.op \in {"create", "mint", "delete", "alias", "status"}
         /\ c.op \in {"create", "mint"} => c \in Makes
         /\ c.op = "delete" => c \in Deletes
         /\ c.op = "alias" => c \in Aliases
         /\ c.op = "status" => c \in Changes
BY DEF Calls, Makes, Deletes, Aliases, Changes

\* A key that has types has a newest and an oldest one.
LEMMA NatMin ==
  ASSUME NEW T \in SUBSET Nat, T # {}
  PROVE  \E i \in T : \A j \in T : i <= j
<1>1. PICK i \in T : \A j \in T : ~ (<<j, i>> \in OpToRel(<, Nat))
  BY NatLessThanWellFounded, WFMin
<1>2. \A j \in T : ~ (j < i)
  BY <1>1 DEF OpToRel
<1>3. QED
  BY <1>2

LEMMA FoundTypes ==
  ASSUME NEW d, d.types \subseteq TypeRow, NEW k, Found(d, k)
  PROVE  NewestType(d, k) \in d.types /\ NewestType(d, k).key = k
<1> DEFINE T == TypesOf(d, k)
           A == {MaxSecond - t.at : t \in T}
<1>1. T # {} /\ \A t \in T : /\ t \in d.types /\ t.key = k
                               /\ t.at \in 0..MaxSecond /\ t.uuid \in 0..MaxUuid
  BY DEF Found, TypesOf, TypeRow
<1>2. MaxSecond \in Nat /\ MaxUuid \in Nat
  BY ListenerAssumption
<1>3. A \in SUBSET Nat /\ A # {}
  BY <1>1, <1>2
<1>4. PICK i \in A : \A j \in A : i <= j
  BY <1>3, NatMin
<1> DEFINE L == {t \in T : MaxSecond - t.at = i}
           B == {MaxUuid - t.uuid : t \in L}
<1>5. B \in SUBSET Nat /\ B # {}
  <2>1. L # {}
    BY <1>4
  <2>2. QED
    BY <2>1, <1>1, <1>2
<1>6. PICK m \in B : \A j \in B : m <= j
  BY <1>5, NatMin
<1>7. PICK t \in L : m = MaxUuid - t.uuid
  BY <1>6
<1>8. ASSUME NEW u \in T PROVE Newer(t, u)
  <2>0. /\ t.at \in 0..MaxSecond /\ t.uuid \in 0..MaxUuid /\ i = MaxSecond - t.at
        /\ u.at \in 0..MaxSecond /\ u.uuid \in 0..MaxUuid
    BY <1>1, <1>7
  <2>1. MaxSecond - t.at <= MaxSecond - u.at
    BY <1>4, <1>7
  <2>2. u.at = t.at => MaxUuid - t.uuid <= MaxUuid - u.uuid
    BY <1>6, <1>7
  <2>3. QED
    BY <1>2, <2>0, <2>1, <2>2 DEF Newer
<1>9. t \in T
  BY <1>7
<1> HIDE DEF L, A, B
<1>10. NewestType(d, k) \in T
  BY <1>8, <1>9 DEF NewestType
<1>11. QED
  BY <1>1, <1>10

LEMMA OldestFound ==
  ASSUME NEW d, NEW k, NEW t \in OldestTypes(d, k)
  PROVE  t \in d.types /\ t.key = k
BY DEF OldestTypes, TypesOf

LEMMA ReadFields ==
  ASSUME NEW f \in Reads
  PROVE  /\ f.n \in N /\ f.list \in Lists /\ f.owner \in {"write", "effect", "button", "left"}
         /\ f.newest \in BOOLEAN
         /\ \A v \in f.seen : /\ v.types \subseteq TypeRow /\ v.idents \in Identities
                              /\ v.found \in BOOLEAN /\ v.urls \subseteq Url
BY DEF Reads, Views

LEMMA InitTypeInv == Init => TypeInv
<1> SUFFICES ASSUME Init PROVE TypeInv
  OBVIOUS
<1>1. 0 \in N /\ StockKey \in Keys /\ <<0, 0>> \in Idents
  BY ListenerAssumption DEF N, Idents
<1>2. db.secrets = [s \in {0} |-> [type |-> 0, active |-> TRUE]]
      /\ db.idents = [i \in {<<0, 0>>} |-> "active"]
  BY DEF Init
<1>3. db.secrets \in Secrets /\ DOMAIN db.secrets = {0}
  BY <1>1, <1>2, SecretsType
<1>4. db.idents \in Identities /\ DOMAIN db.idents = {<<0, 0>>}
  BY <1>1, <1>2, IdentitiesType DEF Status
<1>5. db \in Tables
  BY <1>1, <1>3, <1>4, ListenerAssumption DEF Init, Tables, TypeRow, N
<1>6. TablesType
  BY <1>3, <1>4, <1>5 DEF TablesType
<1>7. ListedSecrets(db, StockKey) \subseteq Url
  <2>1. db.alias \in N /\ DOMAIN db.secrets \subseteq N
    BY <1>1, <1>3, <1>5 DEF Tables
  <2>2. QED
    BY <2>1 DEF ListedSecrets, ActiveOf, Url, N
<1>8. ScreenType
  BY <1>4, <1>5, <1>7 DEF Init, ScreenType, Tables
<1>9. PastType
  BY DEF Init, PastType
<1>10. QED
  BY <1>6, <1>8, <1>9 DEF Init, TypeInv, TypedMakes

LEMMA StoreType ==
  ASSUME TypeInv, NEW c \in calls, Store(c)
  PROVE  TablesType' /\ calls' \subseteq Calls /\ reads' \subseteq Reads
<1>t. db \in Tables /\ c \in Calls /\ c.n \in N /\ reads \subseteq Reads /\ calls \subseteq Calls
  BY CallFields DEF TypeInv, TablesType
<1>d. /\ db.alias \in N /\ db.types \subseteq TypeRow
      /\ DOMAIN db.secrets \subseteq N /\ db.secrets \in Secrets
      /\ db.secrets \in [DOMAIN db.secrets -> [type : N, active : BOOLEAN]]
      /\ DOMAIN db.idents \subseteq Idents /\ db.idents \in Identities
      /\ db.idents \in [DOMAIN db.idents -> Status]
      /\ \A i \in DOMAIN db.idents : i[1] \in DOMAIN db.secrets
  BY <1>t, SecretsType, IdentitiesType DEF Tables, TypeInv, TablesType
<1>s. ASSUME NEW d \in Tables, Write(d), \A i \in DOMAIN d.idents : i[1] \in DOMAIN d.secrets
      PROVE  TablesType' /\ reads' \subseteq Reads
  BY <1>t, <1>s, WriteType DEF TablesType, Write
<1>m. ASSUME NEW to \in Calls, Moves(c, to) PROVE calls' \subseteq Calls
  BY <1>t, <1>m DEF Moves
<1>1. CASE CreateWebhookType(c)
  <2>1. c \in Makes
    BY <1>1, <1>t, CallFields DEF CreateWebhookType
  <2>2. [c EXCEPT !.stage = "typed", !.alias = db.alias] \in Calls
    BY <1>d, <2>1 DEF Calls, Makes, Stages
  <2>0. PICK at \in 0..MaxSecond, uuid \in 0..MaxUuid :
          Write([db EXCEPT !.types = @ \cup {[id |-> c.n, key |-> c.key, at |-> at, uuid |-> uuid]}])
    BY <1>1 DEF CreateWebhookType
  <2>3. PICK d : d = [db EXCEPT !.types =
                        @ \cup {[id |-> c.n, key |-> c.key, at |-> at, uuid |-> uuid]}]
    OBVIOUS
  <2>4. d \in Tables /\ d.idents = db.idents /\ d.secrets = db.secrets
    BY <1>t, <2>1, <2>3 DEF Tables, TypeRow, Makes, N
  <2>5. QED
    BY <1>1, <1>d, <1>s, <1>m, <2>0, <2>2, <2>3, <2>4 DEF CreateWebhookType
<1>2. CASE FindListenerType(c)
  <2>1. c \in Makes
    BY <1>2, <1>t, CallFields DEF FindListenerType
  <2>2. NewestType(db, c.key).id \in N
    BY <1>2, <1>d, FoundTypes DEF FindListenerType, TypeRow, N
  <2>3. [c EXCEPT !.stage = "typed", !.type = NewestType(db, c.key).id, !.alias = db.alias] \in Calls
    BY <1>d, <2>1, <2>2 DEF Calls, Makes, Stages
  <2>4. QED
    BY <1>2, <1>t, <1>m, <2>3 DEF FindListenerType, TypeInv, TablesType
<1>3. CASE StoreSecret(c) /\ c \in Makes
  <2>1. c.type \in N
    BY <1>3 DEF Makes
  <2>2. /\ WithSecret(c) \in Secrets /\ DOMAIN WithSecret(c) = DOMAIN db.secrets \cup {c.n}
    <3>1. [type |-> c.type, active |-> TRUE] \in [type : N, active : BOOLEAN]
      BY <2>1
    <3>2. \A s \in DOMAIN db.secrets : db.secrets[s] \in [type : N, active : BOOLEAN]
      BY <1>d
    <3>3. WithSecret(c) \in [DOMAIN db.secrets \cup {c.n} -> [type : N, active : BOOLEAN]]
      BY <3>1, <3>2 DEF WithSecret
    <3>4. QED
      BY <1>d, <1>t, <3>3, SecretsType
  <2>3. /\ WithIdent(c) \in Identities
        /\ DOMAIN WithIdent(c) = DOMAIN db.idents \cup {<<c.n, db.alias>>}
    <3>1. <<c.n, db.alias>> \in Idents
      BY <1>d, <1>t DEF Idents, N
    <3>2. QED
      BY <1>d, <3>1, IdentitiesType DEF WithIdent, Status
  <2>4. PICK d : d = [db EXCEPT !.secrets = WithSecret(c), !.idents = WithIdent(c)]
    OBVIOUS
  <2>5. d \in Tables /\ d.idents = WithIdent(c) /\ d.secrets = WithSecret(c)
    BY <1>t, <2>2, <2>3, <2>4 DEF Tables
  <2>6. \A i \in DOMAIN d.idents : i[1] \in DOMAIN d.secrets
    BY <1>d, <2>2, <2>3, <2>5
  <2>7. [c EXCEPT !.stage = "served"] \in Calls
    BY <1>t, StageType DEF Stages
  <2>8. QED
    BY <1>3, <1>s, <1>m, <2>4, <2>5, <2>6, <2>7 DEF StoreSecret, Served
<1>4. CASE ReadListener(c)
  <2>1. c \in Deletes
    BY <1>4, <1>t, CallFields DEF ReadListener
  <2>2. \A t \in OldestTypes(db, c.key) : t.id \in N
    BY <1>d, OldestFound DEF TypeRow, N
  <2>3. \A t : ActiveOf(db, t) \subseteq N
    BY <1>d DEF ActiveOf
  <2>4. ASSUME NEW t \in OldestTypes(db, c.key)
        PROVE  /\ [c EXCEPT !.stage = "revoking", !.type = t.id, !.secrets = ActiveOf(db, t.id)] \in Calls
               /\ [c EXCEPT !.stage = "revoking", !.type = t.id] \in Calls
    BY <2>1, <2>2, <2>3 DEF Calls, Deletes, Stages
  <2>5. QED
    BY <1>4, <1>t, <1>m, <2>4 DEF ReadListener, TypeInv, TablesType
<1>5. ASSUME NEW s \in 0..MaxClicks, DeleteSecret(c, s)
      PROVE  TablesType' /\ calls' \subseteq Calls /\ reads' \subseteq Reads
  <2>1. c \in Deletes
    BY <1>5, <1>t, CallFields DEF DeleteSecret
  <2>2. [c EXCEPT !.secrets = @ \ {s}] \in Calls
    BY <2>1 DEF Calls, Deletes
  <2>3. PICK d : d = Revoked(db, {s})
    OBVIOUS
  <2> DEFINE S == [r \in DOMAIN db.secrets |->
                     IF r \in {s} THEN [db.secrets[r] EXCEPT !.active = FALSE] ELSE db.secrets[r]]
             I == [i \in DOMAIN db.idents |->
                     IF i[1] \in {s} THEN "deleted_tombstoned" ELSE db.idents[i]]
  <2>4. S \in Secrets /\ DOMAIN S = DOMAIN db.secrets
    <3>1. \A r \in DOMAIN db.secrets :
            /\ db.secrets[r] \in [type : N, active : BOOLEAN]
            /\ [db.secrets[r] EXCEPT !.active = FALSE] \in [type : N, active : BOOLEAN]
      BY <1>d
    <3>2. S \in [DOMAIN db.secrets -> [type : N, active : BOOLEAN]]
      BY <3>1
    <3>3. QED
      BY <1>d, <3>2, SecretsType
  <2>5. I \in Identities /\ DOMAIN I = DOMAIN db.idents
    BY <1>d, IdentitiesType DEF Status
  <2>6. d = [db EXCEPT !.secrets = S, !.idents = I]
    BY <2>3 DEF Revoked
  <2> HIDE DEF S, I
  <2>7. d \in Tables /\ d.idents = I /\ d.secrets = S
    BY <1>t, <2>4, <2>5, <2>6 DEF Tables
  <2>8. QED
    BY <1>5, <1>t, <1>d, <1>s, <1>m, <2>2, <2>3, <2>4, <2>5, <2>7 DEF DeleteSecret, TypeInv, TablesType
<1>6. CASE DeleteWebhookType(c)
  <2>1. [c EXCEPT !.stage = "served"] \in Calls
    BY <1>t, StageType DEF Stages
  <2>2. PICK d : d = [db EXCEPT !.types = {t \in @ : t.id # c.type}]
    OBVIOUS
  <2>3. d \in Tables /\ d.idents = db.idents /\ d.secrets = db.secrets
    BY <1>t, <2>2 DEF Tables
  <2>4. QED
    BY <1>6, <1>d, <1>s, <1>m, <2>1, <2>2, <2>3 DEF DeleteWebhookType, Served
<1>7. CASE UpdateAccountPublicAlias(c)
  <2>1. [c EXCEPT !.stage = "served"] \in Calls
    BY <1>t, StageType DEF Stages
  <2>2. PICK moved : moved = {i \in DOMAIN db.idents : i[2] = db.alias /\ db.idents[i] = "active"}
    OBVIOUS
  <2> DEFINE New == {<<j[1], c.n>> : j \in moved}
             I == [i \in DOMAIN db.idents \cup New |->
                     IF i \notin DOMAIN db.idents THEN "active"
                     ELSE IF i \in moved THEN "deleted_tombstoned" ELSE db.idents[i]]
  <2>3. New \subseteq Idents /\ \A i \in New : i[1] \in DOMAIN db.secrets
    BY <1>d, <1>t, <2>2 DEF Idents, N
  <2>4. DOMAIN I = DOMAIN db.idents \cup New
    OBVIOUS
  <2> HIDE DEF New
  <2>5. I \in Identities
    BY <1>d, <2>3, IdentitiesType DEF Status
  <2>6. PICK d : d = [db EXCEPT !.alias = c.n, !.idents = I]
    OBVIOUS
  <2>7. Write(d) /\ Served(c, "served")
    BY <1>7, <2>2, <2>6 DEF UpdateAccountPublicAlias, New
  <2> HIDE DEF I
  <2>8. d \in Tables /\ d.idents = I /\ d.secrets = db.secrets
    BY <1>t, <2>5, <2>6 DEF Tables
  <2>9. QED
    BY <1>d, <1>s, <1>m, <2>1, <2>3, <2>4, <2>7, <2>8 DEF Served
<1>8. CASE UpdateWebhookIdentityStatus(c)
  <2>1. [c EXCEPT !.stage = "served"] \in Calls
    BY <1>t, StageType DEF Stages
  <2>2. c.to \in Status
    BY <1>8, <1>t, CallFields DEF UpdateWebhookIdentityStatus, Changes, Status
  <2>3. PICK I : I = [db.idents EXCEPT ![c.ident] = c.to]
    OBVIOUS
  <2>4. I \in Identities /\ DOMAIN I = DOMAIN db.idents
    BY <1>d, <2>2, <2>3, IdentitiesType
  <2>5. PICK d : d = [db EXCEPT !.idents = I]
    OBVIOUS
  <2>6. d = [db EXCEPT !.idents[c.ident] = c.to]
    BY <1>t, <2>3, <2>5 DEF Tables
  <2>7. d \in Tables /\ d.idents = I /\ d.secrets = db.secrets
    BY <1>t, <2>4, <2>5 DEF Tables
  <2>8. QED
    BY <1>8, <1>d, <1>s, <1>m, <2>1, <2>4, <2>6, <2>7 DEF UpdateWebhookIdentityStatus, Served
<1>9. StoreSecret(c) => c \in Makes
  BY <1>t, CallFields DEF StoreSecret, TypeInv, TypedMakes
<1>10. QED
  BY <1>1, <1>2, <1>3, <1>4, <1>5, <1>6, <1>7, <1>8, <1>9 DEF Store

\* What a call becomes when its handler in the tab goes on.
LaterStages == {"refreshing", "refreshed", "secrets", "listing"}
Later(c) == {c} \cup {[c EXCEPT !.stage = stage] : stage \in LaterStages}
LaterCalls == calls' \subseteq calls \/ \E n : \E stage \in LaterStages : Goes(n, stage)

LEMMA LaterFrom == LaterCalls => \A d \in calls' : \E c \in calls : d \in Later(c)
BY DEF LaterCalls, Later, Goes

LEMMA LaterType ==
  ASSUME TypeInv, LaterCalls
  PROVE  calls' \subseteq Calls /\ TypedMakes'
<1>1. LaterStages \subseteq Stages /\ "typed" \notin LaterStages
  BY DEF LaterStages, Stages
<1>2. ASSUME NEW d \in calls' PROVE d \in Calls /\ (d.stage = "typed" => d.op \in {"create", "mint"})
  <2>1. PICK c \in calls : d \in Later(c)
    BY LaterFrom
  <2>2. c \in Calls /\ (c.stage = "typed" => c.op \in {"create", "mint"})
    BY DEF TypeInv, TypedMakes
  <2>3. CASE d = c
    BY <2>2, <2>3
  <2>4. CASE d # c
    <3>1. PICK stage \in LaterStages : d = [c EXCEPT !.stage = stage]
      BY <2>1, <2>4 DEF Later
    <3>2. d \in Calls /\ d.stage = stage
      BY <1>1, <2>2, <3>1, StageType
    <3>3. QED
      BY <1>1, <3>2
  <2>5. QED
    BY <2>3, <2>4
<1>3. QED
  BY <1>2 DEF TypedMakes

LEMMA GoesLater ==
  ASSUME NEW n, NEW stage \in LaterStages, Goes(n, stage)
  PROVE  LaterCalls
BY DEF LaterCalls
LEMMA OverLater == ASSUME calls' \subseteq calls PROVE LaterCalls
BY DEF LaterCalls

LEMMA ReadStepType ==
  ASSUME TypeInv, NEW f \in reads,
         AnswerListeners(f) \/ AnswerIdentities(f) \/ AnswerSecrets(f) \/ FailRead(f)
  PROVE  LaterCalls /\ reads' \subseteq Reads /\ ScreenType' /\ PastType'
<1>f. /\ f \in Reads /\ f.n \in N /\ f.list \in Lists /\ reads \subseteq Reads
      /\ \A v \in f.seen : /\ v.types \subseteq TypeRow /\ v.idents \in Identities
                           /\ v.urls \subseteq Url
  BY ReadFields DEF TypeInv
<1>u. Answered(f) => upToDate' \in [Lists -> BOOLEAN]
  <2>1. (f.newest \/ \E g \in reads : g.list = f.list /\ g.newest) \in BOOLEAN
    BY <1>f, ReadFields
  <2>2. upToDate \in [Lists -> BOOLEAN]
    BY DEF TypeInv, PastType
  <2>3. QED
    BY <2>1, <2>2 DEF Answered
<1>s. SecretsRead(f) => LaterCalls /\ reads' \subseteq Reads
  <2>1. ASSUME SecretsRead(f), f.owner = "write" PROVE LaterCalls /\ reads' \subseteq Reads
    <3>1. Goes(f.n, "listing") /\ SendAfter(reads \ {f}, f.n, "write", {"identities"})
      BY <2>1 DEF SecretsRead
    <3>2. QED
      BY <1>f, <3>1, GoesLater, SendType DEF LaterStages, Lists
  <2>2. ASSUME SecretsRead(f), f.owner # "write" PROVE LaterCalls /\ reads' \subseteq Reads
    BY <1>f, <2>2, OverLater DEF SecretsRead
  <2>3. QED
    BY <2>1, <2>2
<1>e. EndsWith(f) => LaterCalls /\ busy' \in Idents \cup {NoIdent}
  <2>1. busy \in Idents \cup {NoIdent}
    BY DEF TypeInv, ScreenType
  <2>2. QED
    BY <2>1, OverLater DEF EndsWith, Over
<1>0. ScreenType /\ PastType
  BY DEF TypeInv
<1>1. CASE AnswerListeners(f)
  <2>1. PICK v \in f.seen : /\ listeners' = v.types
                            /\ SendAfter(reads \ {f}, f.n, "effect",
                                         IF open THEN TabReads(v.types) ELSE {})
    BY <1>1 DEF AnswerListeners
  <2>2. PICK L : L = IF open THEN TabReads(v.types) ELSE {}
    OBVIOUS
  <2>r. L \in SUBSET Lists
    BY <1>f, <2>2 DEF TabReads, TypeRow, Lists
  <2>3. reads' \subseteq Reads
    <3>1. reads \ {f} \in SUBSET reads /\ "effect" \in {"write", "effect", "button", "left"}
      OBVIOUS
    <3>2. QED
      BY <1>f, <2>1, <2>2, <2>r, <3>1, SendType
  <2>4. LaterCalls
    BY <1>1, GoesLater DEF AnswerListeners, LaterStages
  <2>5. ScreenType' /\ PastType'
    BY <1>0, <1>1, <1>f, <1>u, <2>1 DEF AnswerListeners, ScreenType, PastType
  <2>6. QED
    BY <2>3, <2>4, <2>5
<1>2. CASE AnswerIdentities(f)
  <2>1. ScreenType' /\ PastType'
    BY <1>0, <1>2, <1>f, <1>u, <1>e DEF AnswerIdentities, ScreenType, PastType
  <2>2. QED
    BY <1>2, <1>f, <1>e, <2>1 DEF AnswerIdentities
<1>3. CASE AnswerSecrets(f)
  <2>1. history' \in [Keys -> SUBSET Url]
    BY <1>0, <1>3, <1>f DEF AnswerSecrets, ScreenType
  <2>2. ScreenType' /\ PastType'
    BY <1>0, <1>3, <1>u, <2>1 DEF AnswerSecrets, ScreenType, PastType
  <2>3. QED
    BY <1>3, <1>s, <2>2 DEF AnswerSecrets
<1>4. CASE FailRead(f)
  <2>1. /\ faults' \in Nat
        /\ UNCHANGED <<listeners, secretMap, history, identities, clicks, past>>
    BY <1>0, <1>4 DEF FailRead, Fault, PastType
  <2>2. LaterCalls /\ reads' \subseteq Reads /\ busy' \in Idents \cup {NoIdent}
    <3>1. CASE f.list = "listeners"
      BY <1>0, <1>4, <1>f, <3>1, GoesLater DEF FailRead, LaterStages, ScreenType
    <3>2. CASE f.list = "identities"
      BY <1>4, <1>e, <1>f, <3>2 DEF FailRead
    <3>3. CASE f.list # "listeners" /\ f.list # "identities"
      BY <1>0, <1>4, <1>s, <3>3 DEF FailRead, ScreenType
    <3>4. QED
      BY <3>1, <3>2, <3>3
  <2>3. QED
    BY <1>0, <2>1, <2>2 DEF ScreenType, PastType, past
<1>5. QED
  BY <1>1, <1>2, <1>3, <1>4

LEMMA AnswerType ==
  ASSUME TypeInv, NEW c \in calls, Answer(c)
  PROVE  LaterCalls /\ reads' \subseteq Reads /\ ScreenType' /\ PastType'
<1>c. c \in Calls /\ c.n \in N /\ reads \subseteq Reads /\ ScreenType /\ PastType
  BY CallFields DEF TypeInv
<1>s. ASSUME NEW l \in Lists, Send(c.n, "write", {l}) PROVE reads' \subseteq Reads
  <2>1. {l} \in SUBSET Lists /\ reads \in SUBSET reads
        /\ "write" \in {"write", "effect", "button", "left"}
    OBVIOUS
  <2>2. SendAfter(reads, c.n, "write", {l})
    BY <1>s DEF Send
  <2>3. QED
    BY <1>c, <2>1, <2>2, SendType
<1>m. ASSUME c \in Makes, Minted(c) PROVE secretMap' \in [Keys -> SUBSET Url]
  <2>1. [secret |-> c.n, alias |-> c.alias] \in Url
    BY <1>m DEF Makes, Url, N
  <2>2. QED
    BY <1>c, <1>m, <2>1 DEF Minted, ScreenType
<1>1. CASE AnswerCreate(c)
  <2>1. c \in Makes /\ reads' \subseteq Reads
    BY <1>1, <1>c, <1>s, CallFields DEF AnswerCreate, Lists
  <2>2. QED
    BY <1>1, <1>c, <1>m, <2>1, GoesLater DEF AnswerCreate, LaterStages, ScreenType, PastType, past
<1>2. CASE AnswerMint(c)
  <2>1. c \in Makes /\ c.key \in Lists
    BY <1>2, <1>c, CallFields DEF AnswerMint, Makes, Lists
  <2>2. reads' \subseteq Reads
    BY <1>2, <1>s, <2>1 DEF AnswerMint
  <2>3. QED
    BY <1>2, <1>c, <1>m, <2>1, <2>2, GoesLater DEF AnswerMint, LaterStages, ScreenType, PastType, past
<1>3. CASE AnswerDelete(c)
  <2>1. reads' \subseteq Reads
    BY <1>3, <1>s DEF AnswerDelete, Lists
  <2>2. history' \in [Keys -> SUBSET Url]
    BY <1>3, <1>c DEF AnswerDelete, ScreenType
  <2>3. QED
    BY <1>3, <1>c, <2>1, <2>2, GoesLater DEF AnswerDelete, LaterStages, ScreenType, PastType, past
<1>4. CASE AnswerAlias(c)
  <2>1. reads' \subseteq Reads
    BY <1>4, <1>s DEF AnswerAlias, Lists
  <2>2. QED
    BY <1>4, <1>c, <2>1, GoesLater DEF AnswerAlias, LaterStages, screen, ScreenType, PastType, past
<1>5. CASE AnswerStatus(c)
  <2>1. reads' \subseteq Reads
    BY <1>5, <1>s DEF AnswerStatus, Lists
  <2>2. QED
    BY <1>5, <1>c, <2>1, GoesLater DEF AnswerStatus, LaterStages, screen, ScreenType, PastType, past
<1>6. CASE CallFails(c)
  <2>1. LaterCalls
    BY <1>6, OverLater DEF CallFails
  <2>2. QED
    BY <1>6, <1>c, <2>1 DEF CallFails, Fault, ScreenType, PastType, past
<1>7. CASE Refreshed(c)
  <2>1. reads' \subseteq Reads
    BY <1>7, <1>c, <1>s DEF Refreshed, Lists
  <2>2. LaterCalls
    BY <1>7, GoesLater, OverLater DEF Refreshed, Over, LaterStages
  <2>3. QED
    BY <1>7, <1>c, <2>1, <2>2 DEF Refreshed, screen, ScreenType, PastType, past
<1>8. CASE AnswerLeft(c)
  <2>0. LaterCalls
    BY <1>8, OverLater DEF AnswerLeft, Over
  <2>1. CASE c.op \in {"mint", "status"}
    <3>1. ASSUME NEW f \in reads PROVE [f EXCEPT !.newest = @ /\ f.list \notin LostReads(c)] \in Reads
      <4>1. (f.newest /\ f.list \notin LostReads(c)) \in BOOLEAN
        OBVIOUS
      <4>2. QED
        BY <1>c, <4>1 DEF Reads
    <3>2. reads' \subseteq Reads
      BY <1>8, <2>1, <3>1 DEF AnswerLeft
    <3>3. upToDate' \in [Lists -> BOOLEAN]
      BY <1>8, <2>1 DEF AnswerLeft
    <3>4. QED
      BY <1>8, <1>c, <2>0, <3>2, <3>3 DEF AnswerLeft, screen, ScreenType, PastType
  <2>2. CASE c.op \notin {"mint", "status"}
    <3>1. SendAfter(reads, c.n, "left", {"listeners"}) /\ UNCHANGED upToDate
      BY <1>8, <2>2 DEF AnswerLeft, Send
    <3>2. reads' \subseteq Reads
      BY <1>c, <3>1, SendType DEF Lists
    <3>3. QED
      BY <1>8, <1>c, <2>0, <3>1, <3>2 DEF AnswerLeft, screen, ScreenType, PastType
  <2>3. QED
    BY <2>1, <2>2
<1>9. QED
  BY <1>1, <1>2, <1>3, <1>4, <1>5, <1>6, <1>7, <1>8 DEF Answer

LEMMA StoreKeeps ==
  ASSUME TypeInv, NEW c \in calls, Store(c)
  PROVE  ScreenType' /\ PastType' /\ TypedMakes'
<1>1. /\ UNCHANGED <<screen, clicks, upToDate, wanted, alone>> /\ (UNCHANGED faults \/ Fault)
      /\ \E d : /\ Moves(c, d)
                /\ d.stage = "typed" => d.op \in {"create", "mint"}
  <2>0. c \in Calls
    BY DEF TypeInv
  <2>1. \A x : c.stage = "typed" \/ [c EXCEPT !.stage = "served"].stage # "typed"
    BY <2>0, StageType DEF Stages
  <2>2. CASE CreateWebhookType(c) \/ FindListenerType(c)
    <3>1. c \in Makes
      BY <2>0, <2>2, CallFields DEF CreateWebhookType, FindListenerType
    <3>2. PICK d, e : /\ d = [c EXCEPT !.stage = "typed", !.alias = db.alias]
                      /\ e = [c EXCEPT !.stage = "typed", !.type = NewestType(db, c.key).id,
                                       !.alias = db.alias]
      OBVIOUS
    <3>3. d.op = c.op /\ e.op = c.op /\ c.op \in {"create", "mint"}
      BY <3>1, <3>2 DEF Makes
    <3>4. QED
      BY <2>2, <3>2, <3>3 DEF CreateWebhookType, FindListenerType, past
  <2>3. CASE StoreSecret(c) \/ DeleteWebhookType(c) \/ UpdateAccountPublicAlias(c)
             \/ UpdateWebhookIdentityStatus(c)
    <3>1. [c EXCEPT !.stage = "served"].stage = "served"
      BY <2>0, StageType DEF Stages
    <3>2. QED
      BY <2>3, <3>1
         DEF StoreSecret, DeleteWebhookType, UpdateAccountPublicAlias, UpdateWebhookIdentityStatus,
             Served, past
  <2>4. CASE ReadListener(c)
    <3>1. c \in Deletes
      BY <2>0, <2>4, CallFields DEF ReadListener
    <3>2. \A t, S : /\ [c EXCEPT !.stage = "revoking", !.type = t, !.secrets = S].stage = "revoking"
                    /\ [c EXCEPT !.stage = "revoking", !.type = t].stage = "revoking"
      BY <3>1 DEF Deletes
    <3>3. QED
      BY <2>4, <3>2 DEF ReadListener
  <2>5. ASSUME NEW s \in 0..MaxClicks, DeleteSecret(c, s)
        PROVE  /\ UNCHANGED <<screen, clicks, upToDate, wanted, alone>> /\ (UNCHANGED faults \/ Fault)
               /\ \E d : /\ Moves(c, d)
                         /\ d.stage = "typed" => d.op \in {"create", "mint"}
    <3>1. c \in Deletes
      BY <2>0, <2>5, CallFields DEF DeleteSecret
    <3>2. \A S : [c EXCEPT !.secrets = S].stage = c.stage
      BY <3>1 DEF Deletes
    <3>3. QED
      BY <2>5, <3>2 DEF DeleteSecret
  <2>6. QED
    BY <2>2, <2>3, <2>4, <2>5 DEF Store
<1>2. TypedMakes'
  BY <1>1 DEF TypeInv, TypedMakes, Moves
<1>3. QED
  BY <1>1, <1>2 DEF TypeInv, ScreenType, PastType, screen, Fault

LEMMA AnswerKeepsDb ==
  ASSUME (\E c \in calls : Answer(c)) \/ ReadStep
  PROVE  UNCHANGED <<db, tab, clicks, wanted, alone, exempt, doubled>>
BY DEF Answer, ReadStep, AnswerCreate, AnswerMint, AnswerDelete, AnswerAlias, AnswerStatus,
       AnswerLeft, screen, CallFails, Refreshed, AnswerListeners, AnswerIdentities, AnswerSecrets, FailRead, past

\* The tab is left or opened anew by no step but these two.
LEMMA TabStep ==
  ASSUME [Next]_vars
  PROVE  \/ UNCHANGED tab /\ (clicks' = clicks \/ clicks' = clicks + 1)
         \/ Leave \/ Return
<1>1. CASE User
  BY <1>1 DEF User, CreateListener, CreateSecret, DeleteListener, Change, UpdatePublicAlias,
              ChangeIdentityStatus, RefreshButton, screen, Click
<1>2. ASSUME NEW c \in calls, Store(c) PROVE UNCHANGED <<tab, clicks>>
  BY <1>2 DEF Store, CreateWebhookType, FindListenerType, StoreSecret, ReadListener, DeleteSecret,
              DeleteWebhookType, UpdateAccountPublicAlias, UpdateWebhookIdentityStatus, Served, screen
<1>3. CASE (\E c \in calls : Answer(c)) \/ ReadStep
  BY <1>3, AnswerKeepsDb
<1>4. CASE UNCHANGED vars
  BY <1>4 DEF vars, screen
<1>5. QED
  BY <1>1, <1>2, <1>3, <1>4 DEF Next, CallStep

LEMMA LeavesType ==
  ASSUME TypeInv, [Next]_vars
  PROVE  leaves' \in Nat
<1>1. leaves \in Nat
  BY DEF TypeInv
<1>2. Leave => leaves' = leaves + 1
  BY DEF Leave
<1>3. Return => leaves' = leaves
  BY DEF Return
<1>4. UNCHANGED tab => leaves' = leaves
  BY DEF tab
<1>5. QED
  BY <1>1, <1>2, <1>3, <1>4, TabStep

LEMMA UserType ==
  ASSUME TypeInv, User
  PROVE  TypeInv'
<1>k. /\ TablesType /\ ScreenType /\ PastType /\ TypedMakes
      /\ calls \subseteq Calls /\ reads \subseteq Reads /\ leaves \in Nat /\ leaves' \in Nat
  BY LeavesType DEF TypeInv, Next
<1>n. ASSUME Click PROVE clicks \in N /\ clicks' = clicks + 1 /\ clicks' \in Nat /\ 0 \in N
  BY <1>k, <1>n, ListenerAssumption DEF Click, Spare, PastType, N
<1>a. ASSUME NEW c \in Calls, Start(c), c.stage = "sent", ScreenType', PastType' PROVE TypeInv'
  BY <1>k, <1>a DEF Start, TypeInv, TablesType, TypedMakes
<1>b. ASSUME NEW c \in Calls, Change(c), c.stage = "sent" PROVE TypeInv'
  <2>1. ScreenType'
    BY <1>b, <1>k DEF Change, screen, ScreenType
  <2>2. PastType'
    BY <1>b, <1>k, <1>n DEF Change, Start, PastType
  <2>3. QED
    BY <1>b, <1>a, <2>1, <2>2 DEF Change
<1>1. ASSUME NEW k \in Keys, CreateListener(k) PROVE TypeInv'
  <2>1. PICK c : c = [op |-> "create", n |-> clicks, key |-> k, type |-> clicks, alias |-> 0,
                      stage |-> "sent"]
    OBVIOUS
  <2>2. Change(c)
    BY <1>1, <2>1 DEF CreateListener
  <2>3. c \in Calls /\ c.stage = "sent"
    BY <1>n, <2>1, <2>2 DEF Calls, Makes, Stages, Change
  <2>4. QED
    BY <1>b, <2>2, <2>3
<1>2. ASSUME NEW k \in Keys, CreateSecret(k) PROVE TypeInv'
  <2>1. PICK c : c = [op |-> "mint", n |-> clicks, key |-> k, type |-> 0, alias |-> 0,
                      stage |-> "sent"]
    OBVIOUS
  <2>2. Change(c)
    BY <1>2, <2>1 DEF CreateSecret
  <2>3. c \in Calls /\ c.stage = "sent"
    BY <1>n, <2>1, <2>2 DEF Calls, Makes, Stages, Change
  <2>4. QED
    BY <1>b, <2>2, <2>3
<1>3. ASSUME NEW k \in Keys, DeleteListener(k) PROVE TypeInv'
  <2>1. PICK c : c = [op |-> "delete", n |-> clicks, key |-> k, type |-> 0, secrets |-> {},
                      stage |-> "sent"]
    OBVIOUS
  <2>2. Change(c)
    BY <1>3, <2>1 DEF DeleteListener
  <2>3. c \in Calls /\ c.stage = "sent"
    BY <1>n, <2>1, <2>2 DEF Calls, Deletes, Stages, Change
  <2>4. QED
    BY <1>b, <2>2, <2>3
<1>4. CASE UpdatePublicAlias
  <2>1. PICK c : c = [op |-> "alias", n |-> clicks, stage |-> "sent"]
    OBVIOUS
  <2>2. Click /\ Start(c) /\ UNCHANGED <<screen, wanted, alone>>
    BY <1>4, <2>1 DEF UpdatePublicAlias
  <2>3. c \in Calls /\ c.stage = "sent"
    BY <1>n, <2>1, <2>2 DEF Calls, Aliases, Stages
  <2>4. ScreenType' /\ PastType'
    BY <1>k, <1>n, <2>2 DEF Start, screen, ScreenType, PastType
  <2>5. QED
    BY <1>a, <2>2, <2>3, <2>4
<1>5. ASSUME NEW i \in DOMAIN identities, NEW to \in {"active", "blocked"},
             ChangeIdentityStatus(i, to)
      PROVE  TypeInv'
  <2>1. PICK c : c = [op |-> "status", n |-> clicks, ident |-> i, to |-> to, stage |-> "sent"]
    OBVIOUS
  <2>2. /\ Click /\ Start(c) /\ UNCHANGED <<listeners, secretMap, history, identities>>
        /\ busy' = i
        /\ wanted' = [j \in DOMAIN wanted \cup {i} |-> IF j = i THEN to ELSE wanted[j]]
        /\ alone' = (alone /\ \A x \in calls : x.op = "status" => x.ident = i /\ ~ Left(x))
    BY <1>5, <2>1 DEF ChangeIdentityStatus
  <2>3. i \in Idents
    BY <1>k, IdentitiesType DEF ScreenType
  <2>4. c \in Calls /\ c.stage = "sent"
    BY <1>n, <2>1, <2>2, <2>3 DEF Calls, Changes, Stages
  <2>5. ScreenType'
    BY <1>k, <2>2, <2>3 DEF ScreenType
  <2>6. DOMAIN wanted' \subseteq Idents /\ wanted' \in [DOMAIN wanted' -> {"active", "blocked"}]
    BY <1>k, <2>2, <2>3 DEF PastType
  <2>7. alone' \in BOOLEAN
    BY <2>2
  <2>8. PastType'
    BY <1>k, <1>n, <2>2, <2>6, <2>7 DEF Start, PastType
  <2>9. QED
    BY <1>a, <2>2, <2>4, <2>5, <2>8
<1>6. ASSUME NEW l \in Lists, RefreshButton(l) PROVE TypeInv'
  <2>1. Click /\ SendAfter(reads, clicks, "button", {l}) /\ UNCHANGED <<db, screen, calls, faults, past>>
    BY <1>6 DEF RefreshButton, Send
  <2>2. reads' \subseteq Reads
    <3>1. {l} \in SUBSET Lists /\ reads \in SUBSET reads
          /\ "button" \in {"write", "effect", "button", "left"}
      OBVIOUS
    <3>2. QED
      BY <1>k, <1>n, <2>1, <3>1, SendType
  <2>3. QED
    BY <1>k, <1>n, <2>1, <2>2
       DEF screen, past, TypeInv, TablesType, ScreenType, PastType, TypedMakes
<1>7. CASE Leave
  <2>1. PICK R : /\ R = {[f EXCEPT !.owner = "left"] : f \in {g \in reads : g.list = "listeners"}}
                 /\ SendAfter(R, 0, "effect", {"listeners"})
    BY <1>7 DEF Leave
  <2>2. \A f \in Reads : [f EXCEPT !.owner = "left"] \in Reads
    BY DEF Reads
  <2>3. R \subseteq Reads
    BY <1>k, <2>1, <2>2
  <2>4. ASSUME NEW f \in Reads PROVE [f EXCEPT !.newest = @ /\ f.list \notin {"listeners"}] \in Reads
    <3>1. (f.newest /\ f.list \notin {"listeners"}) \in BOOLEAN
      OBVIOUS
    <3>2. QED
      BY <3>1 DEF Reads
  <2>5. \A l \in {"listeners"} :
          [n |-> 0, list |-> l, owner |-> "effect", seen |-> {Shown(db, l)}, newest |-> TRUE] \in Reads
    <3>1. Shown(db, "listeners") \in Views /\ 0 \in N /\ "listeners" \in Lists
      BY <1>k, ShownType, ListenerAssumption DEF TablesType, Lists, N
    <3>2. QED
      BY <3>1 DEF Reads
  <2>6. reads' \subseteq Reads
    BY <2>1, <2>3, <2>4, <2>5 DEF SendAfter
  <2>7. identities' \in Identities
    <3>1. identities' = [i \in {} |-> "active"]
      BY <1>7 DEF Leave
    <3>2. QED
      BY <3>1, IdentitiesType
  <2>8. secretMap' \in [Keys -> SUBSET Url] /\ history' \in [Keys -> SUBSET Url]
    BY <1>7 DEF Leave
  <2>9. ScreenType' /\ PastType' /\ TablesType'
    BY <1>k, <1>7, <2>7, <2>8 DEF Leave, ScreenType, PastType, TablesType, past
  <2>10. calls' \subseteq calls
    BY <1>7 DEF Leave
  <2>11. QED
    BY <1>k, <2>6, <2>9, <2>10 DEF TypeInv, TypedMakes
<1>8. CASE Return
  <2>1. {"listeners"} \cup TabReads(listeners) \subseteq Lists
    BY <1>k DEF TabReads, ScreenType, TypeRow, Lists
  <2>2. 0 \in N
    BY ListenerAssumption DEF N
  <2>3. reads' \subseteq Reads
    BY <1>8, <2>1, <2>2, SendType DEF Return, Send
  <2>4. upToDate' \in [Lists -> BOOLEAN]
    <3>1. \A l \in Lists : (l # "listeners" \/ upToDate[l]) \in BOOLEAN
      OBVIOUS
    <3>2. QED
      BY <1>8, <3>1 DEF Return
  <2>5. QED
    BY <1>k, <1>8, <2>3, <2>4 DEF Return, TypeInv, ScreenType, PastType, TablesType, TypedMakes
<1>9. QED
  BY <1>1, <1>2, <1>3, <1>4, <1>5, <1>6, <1>7, <1>8 DEF User

LEMMA NextTypeInv == ASSUME TypeInv, [Next]_vars PROVE TypeInv'
<1>0. leaves' \in Nat
  BY LeavesType
<1>1. ASSUME NEW c \in calls, Store(c) PROVE TypeInv'
  BY <1>0, <1>1, StoreType, StoreKeeps DEF TypeInv
<1>2. ASSUME NEW c \in calls, Answer(c) PROVE TypeInv'
  BY <1>0, <1>2, AnswerType, AnswerKeepsDb, LaterType DEF TypeInv, TablesType
<1>3. CASE ReadStep
  BY <1>0, <1>3, ReadStepType, AnswerKeepsDb, LaterType DEF ReadStep, TypeInv, TablesType
<1>4. CASE UNCHANGED vars
  BY <1>0, <1>4 DEF vars, screen, past, TypeInv, TablesType, ScreenType, PastType, TypedMakes
<1>5. QED
  BY <1>1, <1>2, <1>3, <1>4, UserType DEF Next, CallStep

LEMMA TypeInvHolds == Spec => []TypeInv
BY InitTypeInv, NextTypeInv, PTL DEF Spec

TabType == open \in BOOLEAN /\ first \in 1..clicks /\ leaves \in 0..MaxLeaves

LEMMA TabHolds == Spec => [](TypeInv /\ TabType)
<1>1. Init => TabType
  BY ListenerAssumption DEF Init, TabType
<1>2. ASSUME TypeInv, TabType, [Next]_vars PROVE TabType'
  <2>0. clicks \in Nat /\ MaxLeaves \in Nat
    BY <1>2, ListenerAssumption DEF TypeInv, PastType
  <2>1. CASE Leave
    <3>1. open' = FALSE /\ first' = clicks /\ clicks' = clicks
          /\ leaves' = leaves + 1 /\ leaves < MaxLeaves
      BY <2>1 DEF Leave
    <3>2. first' \in 1..clicks' /\ leaves' \in 0..MaxLeaves
      BY <1>2, <2>0, <3>1 DEF TabType
    <3>3. open' \in BOOLEAN
      BY <3>1
    <3>4. QED
      BY <3>2, <3>3 DEF TabType
  <2>2. CASE Return
    BY <1>2, <2>0, <2>2 DEF Return, TabType
  <2>3. CASE UNCHANGED tab /\ (clicks' = clicks \/ clicks' = clicks + 1)
    BY <1>2, <2>0, <2>3 DEF tab, TabType
  <2>4. QED
    BY <1>2, <2>1, <2>2, <2>3, TabStep
<1>3. QED
  BY <1>1, <1>2, TypeInvHolds, PTL DEF Spec

\* The tables, the screen and the calls keep their types.
THEOREM TypeCorrect == Spec => []TypeOK
<1>1. TypeInv /\ TabType => TypeOK
  <2> SUFFICES ASSUME TypeInv, TabType PROVE TypeOK
    OBVIOUS
  <2>1. db.secrets \in Secrets /\ db.idents \in Identities /\ db.alias \in N /\ db.types \subseteq TypeRow
    BY DEF TypeInv, TablesType, Tables
  <2>2. identities \in Identities
    BY DEF TypeInv, ScreenType
  <2>3. QED
    BY <2>1, <2>2, SecretsType, IdentitiesType, CallFields, ReadFields
       DEF TypeInv, TablesType, ScreenType, TabType, TypeOK, N, Stages, Unanswered
<1>2. QED
  BY <1>1, TabHolds, PTL

---------------------------------------------------------------------------
(***************************************************************************)
(* What the steps do to the tables and the calls.                          *)
(***************************************************************************)
ByKey == {"create", "mint", "delete"}

\* The steps into and in the middle of a handler.
LEMMA Created ==
  ASSUME TypeInv, NEW c \in calls, CreateWebhookType(c)
  PROVE  /\ c.op = "create" /\ c.stage = "sent" /\ c \in Makes
         /\ \E d : /\ Moves(c, d) /\ d.n = c.n /\ d.op = "create" /\ d.stage = "typed"
                   /\ d.key = c.key /\ d.type = c.type /\ d.alias = db.alias
<1>1. c.op = "create" /\ c.stage = "sent" /\ c \in Makes
  BY CallFields DEF CreateWebhookType, TypeInv
<1>2. PICK d : d = [c EXCEPT !.stage = "typed", !.alias = db.alias]
  OBVIOUS
<1>3. /\ d.n = c.n /\ d.op = "create" /\ d.stage = "typed" /\ d.key = c.key /\ d.type = c.type
      /\ d.alias = db.alias
  BY <1>1, <1>2 DEF Makes
<1>4. QED
  BY <1>1, <1>2, <1>3 DEF CreateWebhookType

LEMMA FoundType ==
  ASSUME TypeInv, NEW c \in calls, FindListenerType(c)
  PROVE  /\ c.op = "mint" /\ c.stage = "sent" /\ c \in Makes /\ Found(db, c.key) /\ db' = db
         /\ \E d : /\ Moves(c, d) /\ d.n = c.n /\ d.op = "mint" /\ d.stage = "typed"
                   /\ d.key = c.key /\ d.type = NewestType(db, c.key).id /\ d.alias = db.alias
<1>1. c.op = "mint" /\ c.stage = "sent" /\ c \in Makes
  BY CallFields DEF FindListenerType, TypeInv
<1>2. PICK d : d = [c EXCEPT !.stage = "typed", !.type = NewestType(db, c.key).id,
                              !.alias = db.alias]
  OBVIOUS
<1>3. /\ d.n = c.n /\ d.op = "mint" /\ d.stage = "typed" /\ d.key = c.key
      /\ d.type = NewestType(db, c.key).id /\ d.alias = db.alias
  BY <1>1, <1>2 DEF Makes
<1>4. QED
  BY <1>1, <1>2, <1>3 DEF FindListenerType

LEMMA ListenerRead ==
  ASSUME TypeInv, NEW c \in calls, ReadListener(c)
  PROVE  /\ c.op = "delete" /\ c.stage = "sent" /\ c \in Deletes /\ Found(db, c.key) /\ db' = db
         /\ \E d : /\ Moves(c, d) /\ d.n = c.n /\ d.op = "delete" /\ d.stage = "revoking"
                   /\ d.key = c.key /\ (\E t \in OldestTypes(db, c.key) : d.type = t.id)
                   /\ \/ d.secrets = ActiveOf(db, d.type) /\ UNCHANGED <<faults, exempt>>
                      \/ /\ d.secrets = c.secrets /\ Fault
                         /\ exempt' = exempt \cup ActiveOf(db, d.type)
<1>1. c.op = "delete" /\ c.stage = "sent" /\ c \in Deletes /\ Found(db, c.key) /\ db' = db
  BY CallFields DEF ReadListener, TypeInv
<1>0. PICK o \in OldestTypes(db, c.key) :
        \/ /\ Moves(c, [c EXCEPT !.stage = "revoking", !.type = o.id, !.secrets = ActiveOf(db, o.id)])
           /\ UNCHANGED <<faults, exempt>>
        \/ /\ Fault /\ Moves(c, [c EXCEPT !.stage = "revoking", !.type = o.id])
           /\ exempt' = exempt \cup ActiveOf(db, o.id)
  BY DEF ReadListener
<1>2. PICK t, d, e : /\ t = o.id
                     /\ d = [c EXCEPT !.stage = "revoking", !.type = t, !.secrets = ActiveOf(db, t)]
                     /\ e = [c EXCEPT !.stage = "revoking", !.type = t]
  OBVIOUS
<1>3. d.n = c.n /\ d.op = "delete" /\ d.stage = "revoking" /\ d.key = c.key /\ d.type = t
      /\ d.secrets = ActiveOf(db, t)
  BY <1>1, <1>2 DEF Deletes
<1>4. e.n = c.n /\ e.op = "delete" /\ e.stage = "revoking" /\ e.key = c.key /\ e.type = t
      /\ e.secrets = c.secrets
  BY <1>1, <1>2 DEF Deletes
<1>5. CASE Moves(c, d) /\ UNCHANGED <<faults, exempt>>
  BY <1>1, <1>2, <1>3, <1>5
<1>6. CASE Fault /\ Moves(c, e) /\ exempt' = exempt \cup ActiveOf(db, t)
  BY <1>1, <1>2, <1>4, <1>6
<1>7. QED
  BY <1>0, <1>2, <1>5, <1>6

LEMMA Revokes ==
  ASSUME TypeInv, NEW c \in calls, NEW s, DeleteSecret(c, s)
  PROVE  /\ c.op = "delete" /\ c.stage = "revoking" /\ c \in Deletes /\ s \in c.secrets
         /\ \E d : /\ Moves(c, d) /\ d.n = c.n /\ d.op = "delete" /\ d.stage = "revoking"
                   /\ d.key = c.key /\ d.type = c.type /\ d.secrets = c.secrets \ {s}
<1>1. c.op = "delete" /\ c.stage = "revoking" /\ c \in Deletes /\ s \in c.secrets
  BY CallFields DEF DeleteSecret, TypeInv
<1>2. PICK d : d = [c EXCEPT !.secrets = @ \ {s}]
  OBVIOUS
<1>3. /\ d.n = c.n /\ d.op = "delete" /\ d.stage = "revoking" /\ d.key = c.key /\ d.type = c.type
      /\ d.secrets = c.secrets \ {s}
  BY <1>1, <1>2 DEF Deletes
<1>4. QED
  BY <1>1, <1>2, <1>3 DEF DeleteSecret

LEMMA ServedBy ==
  ASSUME TypeInv, NEW c \in calls,
         StoreSecret(c) \/ DeleteWebhookType(c) \/ UpdateAccountPublicAlias(c)
           \/ UpdateWebhookIdentityStatus(c)
  PROVE  /\ c.stage \in Unanswered
         /\ \E d : /\ Moves(c, d) /\ d.n = c.n /\ d.op = c.op /\ d.stage = "served"
                   /\ c.op \in ByKey => d.key = c.key /\ d.type = c.type
                   /\ c.op \in {"create", "mint"} => d.alias = c.alias
                   /\ c.op = "status" => d.ident = c.ident /\ d.to = c.to
<1>c. c \in Calls
  BY DEF TypeInv
<1>1. PICK d : d = [c EXCEPT !.stage = "served"]
  OBVIOUS
<1>2. c.stage \in Unanswered /\ Moves(c, d)
  BY <1>1 DEF StoreSecret, DeleteWebhookType, UpdateAccountPublicAlias, UpdateWebhookIdentityStatus,
              Served, Unanswered
<1>3. CASE c \in Makes
  BY <1>1, <1>2, <1>3 DEF Makes
<1>4. CASE c \in Deletes
  BY <1>1, <1>2, <1>4 DEF Deletes, ByKey
<1>5. CASE c \in Aliases
  BY <1>1, <1>2, <1>5 DEF Aliases, ByKey
<1>6. CASE c \in Changes
  BY <1>1, <1>2, <1>6 DEF Changes, ByKey
<1>7. QED
  BY <1>c, <1>3, <1>4, <1>5, <1>6 DEF Calls

\* What call c becomes with a call to the store.
Becomes(c, d) ==
  /\ Moves(c, d) /\ d.n = c.n /\ d.op = c.op
  /\ c.stage \in Unanswered /\ d.stage \in Unanswered /\ d.stage # "sent"
  /\ c.op \in ByKey => d.key = c.key
  /\ c.op = "status" => d.ident = c.ident /\ d.to = c.to
  /\ \/ /\ CreateWebhookType(c) /\ c.op = "create" /\ c.stage = "sent"
        /\ d.stage = "typed" /\ d.type = c.type /\ d.alias = db.alias
     \/ /\ FindListenerType(c) /\ c.op = "mint" /\ c.stage = "sent" /\ Found(db, c.key) /\ db' = db
        /\ d.stage = "typed" /\ d.type = NewestType(db, c.key).id /\ d.alias = db.alias
     \/ /\ ReadListener(c) /\ c.op = "delete" /\ c.stage = "sent" /\ Found(db, c.key) /\ db' = db
        /\ d.stage = "revoking" /\ (\E t \in OldestTypes(db, c.key) : d.type = t.id)
        /\ \/ d.secrets = ActiveOf(db, d.type) /\ UNCHANGED <<faults, exempt>>
           \/ d.secrets = c.secrets /\ Fault /\ exempt' = exempt \cup ActiveOf(db, d.type)
     \/ \E s \in 0..MaxClicks :
          /\ DeleteSecret(c, s) /\ c.op = "delete" /\ c.stage = "revoking" /\ s \in c.secrets
          /\ d.stage = "revoking" /\ d.type = c.type /\ d.secrets = c.secrets \ {s}
     \/ /\ StoreSecret(c) \/ DeleteWebhookType(c) \/ UpdateAccountPublicAlias(c)
             \/ UpdateWebhookIdentityStatus(c)
        /\ d.stage = "served" /\ (c.op \in ByKey => d.type = c.type)
        /\ (c.op \in {"create", "mint"} => d.alias = c.alias)

LEMMA StoreMoves ==
  ASSUME TypeInv, NEW c \in calls, Store(c)
  PROVE  \E d : Becomes(c, d)
<1>1. CASE CreateWebhookType(c)
  BY <1>1, Created DEF Becomes, ByKey, Unanswered
<1>2. CASE FindListenerType(c)
  BY <1>2, FoundType DEF Becomes, ByKey, Unanswered
<1>3. CASE ReadListener(c)
  BY <1>3, ListenerRead DEF Becomes, ByKey, Unanswered
<1>4. ASSUME NEW s \in 0..MaxClicks, DeleteSecret(c, s) PROVE \E d : Becomes(c, d)
  BY <1>4, Revokes DEF Becomes, ByKey, Unanswered
<1>5. CASE StoreSecret(c) \/ DeleteWebhookType(c) \/ UpdateAccountPublicAlias(c)
           \/ UpdateWebhookIdentityStatus(c)
  BY <1>5, ServedBy DEF Becomes, ByKey, Unanswered
<1>6. QED
  BY <1>1, <1>2, <1>3, <1>4, <1>5 DEF Store

LEMMA TablesFields ==
  ASSUME TypeInv
  PROVE  /\ db \in Tables /\ db.alias \in N /\ db.types \subseteq TypeRow
         /\ DOMAIN db.secrets \subseteq N
         /\ db.secrets \in [DOMAIN db.secrets -> [type : N, active : BOOLEAN]]
         /\ DOMAIN db.idents \subseteq Idents
         /\ db.idents \in [DOMAIN db.idents -> Status]
         /\ \A i \in DOMAIN db.idents : i[1] \in DOMAIN db.secrets
<1>1. db \in Tables /\ db.alias \in N /\ db.types \subseteq TypeRow
      /\ db.secrets \in Secrets /\ db.idents \in Identities
      /\ \A i \in DOMAIN db.idents : i[1] \in DOMAIN db.secrets
  BY DEF TypeInv, TablesType, Tables
<1>2. QED
  BY <1>1, SecretsType, IdentitiesType

\* The tables after each call to the store.
LEMMA TypeAdded ==
  ASSUME TypeInv, NEW c \in calls, CreateWebhookType(c)
  PROVE  /\ \E row : row.id = c.n /\ row.key = c.key /\ db'.types = db.types \cup {row}
         /\ db'.secrets = db.secrets /\ db'.idents = db.idents /\ db'.alias = db.alias
<1>1. PICK at \in 0..MaxSecond, uuid \in 0..MaxUuid :
        Write([db EXCEPT !.types = @ \cup {[id |-> c.n, key |-> c.key, at |-> at, uuid |-> uuid]}])
  BY DEF CreateWebhookType
<1>2. PICK row : row = [id |-> c.n, key |-> c.key, at |-> at, uuid |-> uuid]
  OBVIOUS
<1>3. row.id = c.n /\ row.key = c.key
  BY <1>2
<1>4. /\ db'.types = db.types \cup {row}
      /\ db'.secrets = db.secrets /\ db'.idents = db.idents /\ db'.alias = db.alias
  BY <1>1, <1>2, TablesFields DEF Write, Tables
<1>5. QED
  BY <1>3, <1>4

LEMMA SecretAdded ==
  ASSUME TypeInv, NEW c \in calls, StoreSecret(c)
  PROVE  /\ db'.types = db.types /\ db'.alias = db.alias
         /\ DOMAIN db'.secrets = DOMAIN db.secrets \cup {c.n}
         /\ db'.secrets[c.n] = [type |-> c.type, active |-> TRUE]
         /\ \A s \in DOMAIN db.secrets : s # c.n => db'.secrets[s] = db.secrets[s]
         /\ DOMAIN db'.idents = DOMAIN db.idents \cup {<<c.n, db.alias>>}
         /\ \A i \in DOMAIN db.idents : i # <<c.n, db.alias>> => db'.idents[i] = db.idents[i]
<1>1. db'.types = db.types /\ db'.alias = db.alias /\ db'.secrets = WithSecret(c)
      /\ db'.idents = WithIdent(c)
  BY TablesFields DEF StoreSecret, Write, Tables
<1>2. QED
  BY <1>1 DEF WithSecret, WithIdent

LEMMA SecretRevoked ==
  ASSUME TypeInv, NEW c \in calls, NEW s, DeleteSecret(c, s)
  PROVE  /\ db'.types = db.types /\ db'.alias = db.alias
         /\ DOMAIN db'.secrets = DOMAIN db.secrets
         /\ \A r \in DOMAIN db.secrets :
              /\ db'.secrets[r].type = db.secrets[r].type
              /\ r # s => db'.secrets[r] = db.secrets[r]
              /\ db'.secrets[r].active => db.secrets[r].active
              /\ r = s /\ db'.secrets[r].active => s \in exempt' /\ Fault
         /\ DOMAIN db'.idents = DOMAIN db.idents
         /\ \A i \in DOMAIN db.idents : db'.idents[i] \in {db.idents[i], "deleted_tombstoned"}
<1>d. /\ db \in Tables
      /\ \A r \in DOMAIN db.secrets : db.secrets[r] \in [type : N, active : BOOLEAN]
  BY TablesFields
<1>1. CASE db' = Revoked(db, {s})
  <2>1. /\ db'.types = db.types /\ db'.alias = db.alias
        /\ db'.secrets = [r \in DOMAIN db.secrets |->
             IF r \in {s} THEN [db.secrets[r] EXCEPT !.active = FALSE] ELSE db.secrets[r]]
        /\ db'.idents = [i \in DOMAIN db.idents |->
             IF i[1] \in {s} THEN "deleted_tombstoned" ELSE db.idents[i]]
    BY <1>1, <1>d DEF Revoked, Tables
  <2>2. \A r \in DOMAIN db.secrets :
          /\ [db.secrets[r] EXCEPT !.active = FALSE].type = db.secrets[r].type
          /\ [db.secrets[r] EXCEPT !.active = FALSE].active = FALSE
    BY <1>d
  <2>3. \A r \in DOMAIN db.secrets :
          /\ db'.secrets[r].type = db.secrets[r].type
          /\ r # s => db'.secrets[r] = db.secrets[r]
          /\ db'.secrets[r].active => db.secrets[r].active
          /\ r = s => ~ db'.secrets[r].active
    BY <2>1, <2>2
  <2>4. QED
    BY <2>1, <2>3
<1>2. CASE db' = db /\ s \in exempt' /\ Fault
  BY <1>2
<1>3. QED
  BY <1>1, <1>2 DEF DeleteSecret, Write

LEMMA TypeRemoved ==
  ASSUME TypeInv, NEW c \in calls, DeleteWebhookType(c)
  PROVE  /\ db'.types = {t \in db.types : t.id # c.type}
         /\ db'.secrets = db.secrets /\ db'.idents = db.idents /\ db'.alias = db.alias
BY TablesFields DEF DeleteWebhookType, Write, Tables

LEMMA AliasUpdated ==
  ASSUME TypeInv, NEW c \in calls, UpdateAccountPublicAlias(c)
  PROVE  /\ db'.types = db.types /\ db'.secrets = db.secrets
         /\ DOMAIN db.idents \subseteq DOMAIN db'.idents
         /\ \A i \in DOMAIN db.idents : db'.idents[i] \in {db.idents[i], "deleted_tombstoned"}
<1>1. PICK moved : /\ moved = {i \in DOMAIN db.idents : i[2] = db.alias /\ db.idents[i] = "active"}
                   /\ Write([db EXCEPT
                        !.alias = c.n,
                        !.idents = [i \in DOMAIN @ \cup {<<j[1], c.n>> : j \in moved} |->
                                      IF i \notin DOMAIN @ THEN "active"
                                      ELSE IF i \in moved THEN "deleted_tombstoned" ELSE @[i]]])
  BY DEF UpdateAccountPublicAlias
<1>2. /\ db'.types = db.types /\ db'.secrets = db.secrets
      /\ db'.idents = [i \in DOMAIN db.idents \cup {<<j[1], c.n>> : j \in moved} |->
                         IF i \notin DOMAIN db.idents THEN "active"
                         ELSE IF i \in moved THEN "deleted_tombstoned" ELSE db.idents[i]]
  BY <1>1, TablesFields DEF Write, Tables
<1>3. QED
  BY <1>2

LEMMA StatusUpdated ==
  ASSUME TypeInv, NEW c \in calls, UpdateWebhookIdentityStatus(c)
  PROVE  /\ db'.types = db.types /\ db'.secrets = db.secrets /\ db'.alias = db.alias
         /\ db'.idents = [db.idents EXCEPT ![c.ident] = c.to]
BY TablesFields DEF UpdateWebhookIdentityStatus, Write, Tables

\* A click that changes a listener, or another that starts a call.
Starts(c) ==
  /\ calls' = calls \cup {c} /\ c \in Calls /\ c.n = clicks /\ c.stage = "sent"
  /\ c.op = "create" => c.type = clicks

LEMMA UserStarts ==
  ASSUME TypeInv, User
  PROVE  \/ \E c : Starts(c) /\ Change(c) /\ c.op \in ByKey /\ (c.op = "delete" => c.secrets = {})
         \/ (\E c : Starts(c) /\ c.op = "alias") /\ UpdatePublicAlias
         \/ \E i \in DOMAIN identities, to \in {"active", "blocked"} :
              /\ ChangeIdentityStatus(i, to)
              /\ \E c : Starts(c) /\ c.op = "status" /\ c.ident = i /\ c.to = to
         \/ (\E l \in Lists : RefreshButton(l)) \/ Leave \/ Return
<1>0. clicks \in Nat /\ leaves \in Nat /\ faults \in Nat /\ calls \subseteq Calls
  BY DEF TypeInv, PastType
<1>n. Click => clicks \in N /\ 0 \in N
  BY <1>0, ListenerAssumption DEF Click, Spare, N
<1>1. ASSUME NEW k \in Keys, CreateListener(k)
      PROVE  \E c : Starts(c) /\ Change(c) /\ c.op \in ByKey /\ (c.op = "delete" => c.secrets = {})
  <2>1. PICK c : c = [op |-> "create", n |-> clicks, key |-> k, type |-> clicks, alias |-> 0,
                      stage |-> "sent"]
    OBVIOUS
  <2>2. Change(c) /\ Click /\ calls' = calls \cup {c}
    BY <1>1, <2>1 DEF CreateListener, Change, Start
  <2>3. c \in Calls
    BY <1>n, <2>1, <2>2 DEF Calls, Makes, Stages
  <2>4. QED
    BY <2>1, <2>2, <2>3 DEF Starts, ByKey
<1>2. ASSUME NEW k \in Keys, CreateSecret(k)
      PROVE  \E c : Starts(c) /\ Change(c) /\ c.op \in ByKey /\ (c.op = "delete" => c.secrets = {})
  <2>1. PICK c : c = [op |-> "mint", n |-> clicks, key |-> k, type |-> 0, alias |-> 0,
                      stage |-> "sent"]
    OBVIOUS
  <2>2. Change(c) /\ Click /\ calls' = calls \cup {c}
    BY <1>2, <2>1 DEF CreateSecret, Change, Start
  <2>3. c \in Calls
    BY <1>n, <2>1, <2>2 DEF Calls, Makes, Stages
  <2>4. QED
    BY <2>1, <2>2, <2>3 DEF Starts, ByKey
<1>3. ASSUME NEW k \in Keys, DeleteListener(k)
      PROVE  \E c : Starts(c) /\ Change(c) /\ c.op \in ByKey /\ (c.op = "delete" => c.secrets = {})
  <2>1. PICK c : c = [op |-> "delete", n |-> clicks, key |-> k, type |-> 0, secrets |-> {},
                      stage |-> "sent"]
    OBVIOUS
  <2>2. Change(c) /\ Click /\ calls' = calls \cup {c}
    BY <1>3, <2>1 DEF DeleteListener, Change, Start
  <2>3. c \in Calls
    BY <1>n, <2>1, <2>2 DEF Calls, Deletes, Stages
  <2>4. c.op = "delete" /\ c.n = clicks /\ c.stage = "sent" /\ c.secrets = {}
    BY <2>1
  <2>5. Starts(c) /\ c.op \in ByKey
    BY <2>2, <2>3, <2>4 DEF Starts, ByKey
  <2>6. QED
    BY <2>2, <2>4, <2>5
<1>4. CASE UpdatePublicAlias
  <2>1. PICK c : c = [op |-> "alias", n |-> clicks, stage |-> "sent"]
    OBVIOUS
  <2>2. Click /\ calls' = calls \cup {c}
    BY <1>4, <2>1 DEF UpdatePublicAlias, Start
  <2>3. c \in Calls
    BY <1>n, <2>1, <2>2 DEF Calls, Aliases, Stages
  <2>4. c.op = "alias" /\ Starts(c)
    BY <2>1, <2>2, <2>3 DEF Starts
  <2>5. QED
    BY <1>4, <2>4
<1>5. ASSUME NEW i \in DOMAIN identities, NEW to \in {"active", "blocked"},
             ChangeIdentityStatus(i, to)
      PROVE  \E c : Starts(c) /\ c.op = "status" /\ c.ident = i /\ c.to = to
  <2>1. PICK c : c = [op |-> "status", n |-> clicks, ident |-> i, to |-> to, stage |-> "sent"]
    OBVIOUS
  <2>2. Click /\ calls' = calls \cup {c}
    BY <1>5, <2>1 DEF ChangeIdentityStatus, Start
  <2>3. i \in Idents
    BY IdentitiesType DEF TypeInv, ScreenType
  <2>4. c \in Calls
    BY <1>n, <2>1, <2>2, <2>3 DEF Calls, Changes, Stages
  <2>5. QED
    BY <2>1, <2>2, <2>4 DEF Starts
<1>6. QED
  BY <1>1, <1>2, <1>3, <1>4, <1>5 DEF User

\* The steps that leave the tables alone, and those that do not.
LEMMA CallSteps ==
  ASSUME TypeInv, [Next]_vars
  PROVE  \/ LaterCalls /\ UNCHANGED <<db, exempt>> /\ (clicks' = clicks \/ Click)
         \/ \E c : Starts(c) /\ Change(c) /\ c.op \in ByKey /\ (c.op = "delete" => c.secrets = {})
         \/ /\ \E c : Starts(c) /\ c.op \in {"alias", "status"}
            /\ UNCHANGED <<db, exempt>> /\ Click
         \/ \E c \in calls : Store(c)
<1>1. ASSUME NEW l \in Lists, RefreshButton(l)
      PROVE  LaterCalls /\ UNCHANGED <<db, exempt>> /\ Click
  BY <1>1 DEF RefreshButton, LaterCalls, past
<1>2. ASSUME (\E c \in calls : Answer(c)) \/ ReadStep
      PROVE  LaterCalls /\ UNCHANGED <<db, exempt>> /\ clicks' = clicks
  BY <1>2, AnswerType, ReadStepType, AnswerKeepsDb DEF ReadStep
<1>3. CASE UNCHANGED vars
  BY <1>3 DEF vars, past, LaterCalls
<1>4. UpdatePublicAlias => Click /\ UNCHANGED <<db, exempt>>
  BY DEF UpdatePublicAlias, Start
<1>5. ASSUME NEW i \in DOMAIN identities, NEW to \in {"active", "blocked"},
             ChangeIdentityStatus(i, to)
      PROVE  Click /\ UNCHANGED <<db, exempt>>
  BY <1>5 DEF ChangeIdentityStatus, Start
<1>6. CASE Leave \/ Return
  BY <1>6 DEF Leave, Return, LaterCalls, past
<1>7. QED
  BY <1>1, <1>2, <1>3, <1>4, <1>5, <1>6, UserStarts DEF Next, CallStep

\* Calls that go on keep their numbers, and no unanswered call is new.
LEMMA LaterFields ==
  ASSUME TypeInv, NEW c \in calls, NEW d \in Later(c)
  PROVE  /\ d.n = c.n /\ d.op = c.op /\ (d.stage \in Unanswered => d = c)
         /\ d.stage = c.stage \/ d.stage \in LaterStages
         /\ c.op \in ByKey => d.key = c.key /\ d.type = c.type
         /\ c.op = "status" => d.ident = c.ident /\ d.to = c.to
<1>1. c \in Calls
  BY DEF TypeInv
<1>2. CASE d = c
  BY <1>2
<1>3. CASE d # c
  <2>1. PICK stage \in LaterStages : d = [c EXCEPT !.stage = stage]
    BY <1>3 DEF Later
  <2>2. stage \in Stages /\ stage \notin Unanswered
    BY DEF LaterStages, Stages, Unanswered
  <2>3. d.n = c.n /\ d.op = c.op /\ d.stage = stage
    BY <1>1, <2>1, <2>2, StageType
  <2>4. c \in Makes \cup Deletes => d.key = c.key /\ d.type = c.type
    BY <2>1 DEF Makes, Deletes
  <2>5. c \in Changes => d.ident = c.ident /\ d.to = c.to
    BY <2>1 DEF Changes
  <2>6. QED
    BY <1>1, <2>2, <2>3, <2>4, <2>5, CallFields DEF ByKey
<1>4. QED
  BY <1>2, <1>3

LEMMA LaterUnanswered ==
  ASSUME TypeInv, LaterCalls, NEW d \in calls', d.stage \in Unanswered
  PROVE  d \in calls
BY LaterFrom, LaterFields

LEMMA StoreFrame ==
  ASSUME NEW c \in calls, Store(c)
  PROVE  /\ UNCHANGED <<screen, clicks, upToDate, wanted, alone>>
         /\ UNCHANGED faults \/ Fault
         /\ exempt \subseteq exempt' /\ doubled \subseteq doubled'
<1>1. CASE CreateWebhookType(c) \/ FindListenerType(c)
  BY <1>1 DEF CreateWebhookType, FindListenerType, past
<1>2. CASE StoreSecret(c) \/ DeleteWebhookType(c) \/ UpdateAccountPublicAlias(c)
           \/ UpdateWebhookIdentityStatus(c)
  BY <1>2 DEF StoreSecret, DeleteWebhookType, UpdateAccountPublicAlias,
              UpdateWebhookIdentityStatus, Served, past
<1>3. CASE ReadListener(c)
  BY <1>3 DEF ReadListener
<1>4. ASSUME NEW s \in 0..MaxClicks, DeleteSecret(c, s)
      PROVE  /\ UNCHANGED <<screen, clicks, upToDate, wanted, alone>>
             /\ UNCHANGED faults \/ Fault
             /\ exempt \subseteq exempt' /\ doubled \subseteq doubled'
  BY <1>4 DEF DeleteSecret
<1>5. QED
  BY <1>1, <1>2, <1>3, <1>4 DEF Store

---------------------------------------------------------------------------
(***************************************************************************)
(* No secret outlives its listener.  What the steps of a handler leave     *)
(* open between two calls to the store is what the invariant is about: a   *)
(* type whose secret is still to come, and secrets read for a deletion     *)
(* that others may be added to.                                            *)
(***************************************************************************)
Numbered == \A x \in calls : x.n < clicks /\ \A y \in calls : x.n = y.n => x = y

TypeIds ==
  /\ \A t \in db.types : t.id < clicks /\ \A u \in db.types : t.id = u.id => t = u
  /\ \A c \in calls : c.op = "create" /\ c.stage \in Unanswered =>
       c.type = c.n /\ (c.stage = "sent" => \A t \in db.types : t.id # c.n)

\* Changes of one listener that overlap: their secrets are exempt.
Overlapped ==
  \A x, y \in calls :
    /\ x # y /\ x.op \in ByKey /\ y.op \in ByKey /\ x.key = y.key
    /\ x.stage \in Unanswered /\ y.stage \in Unanswered
    => x.n \in exempt

\* A secret still to be stored has its type, and a deletion has read every
\* secret of its type.
TypedHasType ==
  \A c \in calls : c.stage = "typed" =>
    c.n \in exempt \/ \E t \in db.types : t.id = c.type /\ t.key = c.key
RevokingRead ==
  \A c \in calls : c.stage = "revoking" =>
    /\ c.op = "delete" /\ c.type < clicks
    /\ \A t \in db.types : t.id = c.type => t.key = c.key
    /\ \A x \in calls : x.op = "create" /\ x.stage = "sent" => x.n # c.type
    /\ \A s \in DOMAIN db.secrets :
         db.secrets[s].active /\ db.secrets[s].type = c.type => s \in c.secrets \/ s \in exempt

OrphanInv == Numbered /\ TypeIds /\ Overlapped /\ TypedHasType /\ RevokingRead /\ NoOrphanSecret

LEMMA ClicksGrow ==
  ASSUME TypeInv, [Next]_vars
  PROVE  /\ clicks \in Nat /\ clicks' \in Nat /\ clicks <= clicks' /\ exempt \subseteq exempt'
         /\ Click => clicks' = clicks + 1
<1>1. clicks \in Nat
  BY DEF TypeInv, PastType
<1>2. (\E c \in calls : Store(c)) => clicks' = clicks /\ exempt \subseteq exempt'
  BY StoreFrame
<1>3. (\E c : Change(c)) => clicks' = clicks + 1 /\ exempt \subseteq exempt'
  BY DEF Change, Click
<1>4. QED
  BY <1>1, <1>2, <1>3, CallSteps DEF Click

LEMMA NumberedStep == ASSUME TypeInv, Numbered, [Next]_vars PROVE Numbered'
<1>c. calls \subseteq Calls /\ \A c \in calls : c.n \in Nat
  BY CallFields, ListenerAssumption DEF TypeInv, N
<1>1. CASE LaterCalls
  <2>1. CASE calls' \subseteq calls
    BY <2>1, <1>c, ClicksGrow DEF Numbered
  <2>2. CASE \E n : \E stage \in LaterStages : Goes(n, stage)
    <3>1. PICK n : \E stage \in LaterStages : Goes(n, stage)
      BY <2>2
    <3>2. PICK stage \in LaterStages : Goes(n, stage)
      BY <3>1
    <3>3. \A c \in calls : [c EXCEPT !.stage = stage].n = c.n
      BY <1>c, StageType DEF LaterStages, Stages
    <3>4. calls' = {IF c.n = n THEN [c EXCEPT !.stage = stage] ELSE c : c \in calls}
      BY <3>2 DEF Goes
    <3>5. \A x \in calls' : \E c \in calls :
            x.n = c.n /\ x = (IF c.n = n THEN [c EXCEPT !.stage = stage] ELSE c)
      BY <3>3, <3>4
    <3>6. QED
      BY <3>5, <1>c, ClicksGrow DEF Numbered
  <2>3. QED
    BY <1>1, <2>1, <2>2 DEF LaterCalls
<1>2. ASSUME NEW c, Starts(c), Click PROVE Numbered'
  <2>1. calls' = calls \cup {c} /\ c.n = clicks /\ clicks' = clicks + 1
    BY <1>2, ClicksGrow DEF Starts
  <2>2. QED
    BY <2>1, <1>c, ClicksGrow DEF Numbered
<1>3. ASSUME NEW c \in calls, Store(c) PROVE Numbered'
  <2>1. PICK d : Moves(c, d) /\ d.n = c.n
    BY <1>3, StoreMoves DEF Becomes
  <2>2. calls' = (calls \ {c}) \cup {d} /\ clicks' = clicks
    BY <1>3, <2>1, StoreFrame DEF Moves
  <2>3. QED
    BY <2>1, <2>2 DEF Numbered
<1>4. QED
  BY <1>1, <1>2, <1>3, CallSteps DEF Change

\* The three kinds of step that leave the tables alone, and those that do not.
LEMMA TypeIdsStep == ASSUME TypeInv, Numbered, TypeIds, [Next]_vars PROVE TypeIds'
<1>t. \A t \in db.types : t.id \in Nat
  BY TablesFields, ListenerAssumption DEF TypeRow, N
<1>c. \A c \in calls : c \in Calls /\ c.n \in Nat
  BY CallFields, ListenerAssumption DEF TypeInv, N
<1>1. CASE LaterCalls /\ UNCHANGED db
  <2>1. \A d \in calls' : d.stage \in Unanswered => d \in calls
    BY <1>1, LaterUnanswered
  <2>2. QED
    BY <2>1, <1>1, <1>t, ClicksGrow DEF TypeIds
<1>2. ASSUME NEW c, Starts(c), Click, UNCHANGED db PROVE TypeIds'
  <2>1. calls' = calls \cup {c} /\ c.n = clicks /\ clicks' = clicks + 1
        /\ (c.op = "create" => c.type = clicks)
    BY <1>2, ClicksGrow DEF Starts
  <2>2. \A t \in db.types : t.id # c.n
    BY <2>1, <1>t, ClicksGrow DEF TypeIds
  <2>3. QED
    BY <2>1, <2>2, <1>2, <1>t, ClicksGrow DEF TypeIds
<1>3. ASSUME NEW c \in calls, Store(c) PROVE TypeIds'
  <2>1. PICK d : /\ Moves(c, d) /\ d.n = c.n /\ d.op = c.op /\ d.stage # "sent"
                 /\ c.stage \in Unanswered /\ (c.op = "create" => d.type = c.type)
    BY <1>3, StoreMoves DEF Becomes, ByKey
  <2>2. calls' = (calls \ {c}) \cup {d} /\ clicks' = clicks
    BY <1>3, <2>1, StoreFrame DEF Moves
  <2>3. CASE CreateWebhookType(c)
    <3>1. PICK row : row.id = c.n /\ db'.types = db.types \cup {row}
      BY <2>3, TypeAdded
    <3>2. c.op = "create" /\ c.stage = "sent" /\ c.n < clicks
      BY <2>3 DEF CreateWebhookType, Numbered
    <3>3. \A t \in db.types : t.id # c.n
      BY <3>2, <2>1 DEF TypeIds
    <3>4. \A x \in calls' : x.op = "create" /\ x.stage \in Unanswered =>
            x.type = x.n /\ (x.stage = "sent" => \A t \in db'.types : t.id # x.n)
      BY <2>1, <2>2, <3>1 DEF TypeIds, Numbered
    <3>5. \A t \in db'.types : t.id < clicks' /\ \A u \in db'.types : t.id = u.id => t = u
      BY <2>2, <3>1, <3>2, <3>3 DEF TypeIds
    <3>6. QED
      BY <3>4, <3>5 DEF TypeIds
  <2>4. CASE ~ CreateWebhookType(c)
    <3>1. db'.types \subseteq db.types
      <4>1. FindListenerType(c) \/ ReadListener(c) => db' = db
        BY DEF FindListenerType, ReadListener
      <4>2. QED
        BY <4>1, <2>4, <1>3, SecretAdded, SecretRevoked, TypeRemoved, AliasUpdated, StatusUpdated
           DEF Store
    <3>2. QED
      BY <2>1, <2>2, <3>1 DEF TypeIds
  <2>5. QED
    BY <2>3, <2>4
<1>4. QED
  BY <1>1, <1>2, <1>3, CallSteps DEF Change, Start

LEMMA OverlappedStep == ASSUME TypeInv, Numbered, Overlapped, [Next]_vars PROVE Overlapped'
<1>1. CASE LaterCalls
  BY <1>1, LaterUnanswered, ClicksGrow DEF Overlapped
<1>2. ASSUME NEW c, Starts(c), Change(c) PROVE Overlapped'
  <2>1. PICK others : /\ others = {x \in calls : x.op \in {"create", "mint", "delete"}
                                                 /\ x.key = c.key /\ x.stage \in Unanswered}
                      /\ exempt' = exempt \cup {x.n : x \in IF others = {} THEN {} ELSE others \cup {c}}
    BY <1>2 DEF Change
  <2>2. calls' = calls \cup {c}
    BY <1>2 DEF Starts
  <2>3. \A x \in calls : x.op \in ByKey /\ x.key = c.key /\ x.stage \in Unanswered =>
          x.n \in exempt' /\ c.n \in exempt'
    BY <2>1 DEF ByKey
  <2>4. QED
    BY <2>1, <2>2, <2>3 DEF Overlapped
<1>3. ASSUME NEW c, Starts(c), c.op \in {"alias", "status"}, UNCHANGED exempt PROVE Overlapped'
  BY <1>3 DEF Starts, Overlapped, ByKey
<1>4. ASSUME NEW c \in calls, Store(c) PROVE Overlapped'
  <2>1. PICK d : /\ Moves(c, d) /\ d.n = c.n /\ d.op = c.op
                 /\ c.stage \in Unanswered /\ (c.op \in ByKey => d.key = c.key)
    BY <1>4, StoreMoves DEF Becomes
  <2>2. calls' = (calls \ {c}) \cup {d} /\ exempt \subseteq exempt'
    BY <1>4, <2>1, StoreFrame DEF Moves
  <2>3. QED
    BY <2>1, <2>2 DEF Overlapped
<1>5. QED
  BY <1>1, <1>2, <1>3, <1>4, CallSteps

\* No type goes, unless a deletion removes its own.
LEMMA TypesStay ==
  ASSUME TypeInv, NEW c \in calls, Store(c)
  PROVE  \/ db.types \subseteq db'.types
         \/ DeleteWebhookType(c) /\ db'.types = {t \in db.types : t.id # c.type}
<1>1. FindListenerType(c) \/ ReadListener(c) => db' = db
  BY DEF FindListenerType, ReadListener
<1>2. QED
  BY <1>1, TypeAdded, SecretAdded, SecretRevoked, TypeRemoved, AliasUpdated, StatusUpdated DEF Store

LEMMA TypedHasTypeStep ==
  ASSUME TypeInv, TypeIds, Overlapped, TypedHasType, RevokingRead, [Next]_vars
  PROVE  TypedHasType'
<1>1. CASE LaterCalls /\ UNCHANGED <<db, exempt>>
  BY <1>1, LaterUnanswered DEF TypedHasType, Unanswered
<1>2. ASSUME NEW c, Starts(c), UNCHANGED db PROVE TypedHasType'
  BY <1>2, ClicksGrow DEF Starts, TypedHasType
<1>3. ASSUME NEW c \in calls, Store(c) PROVE TypedHasType'
  <2>0. exempt \subseteq exempt'
    BY <1>3, StoreFrame
  <2>1. PICK d : Becomes(c, d)
    BY <1>3, StoreMoves
  <2>2. calls' = (calls \ {c}) \cup {d}
    BY <2>1 DEF Becomes, Moves
  \* The call that moves has found its type, or made it.
  <2>3. d.stage = "typed" => \E t \in db'.types : t.id = d.type /\ t.key = d.key
    <3>1. CASE CreateWebhookType(c)
      <4>1. d.key = c.key /\ d.type = c.n
        BY <2>1, <3>1 DEF Becomes, CreateWebhookType, TypeIds, Unanswered, ByKey
      <4>2. QED
        BY <3>1, <4>1, TypeAdded
    <3>2. CASE FindListenerType(c) /\ Found(db, c.key) /\ d.type = NewestType(db, c.key).id
      <4>1. d.key = c.key /\ db' = db /\ db.types \subseteq TypeRow
        BY <2>1, <3>2, TablesFields DEF Becomes, FindListenerType, ByKey
      <4>2. NewestType(db, c.key) \in db.types /\ NewestType(db, c.key).key = c.key
        BY <3>2, <4>1, FoundTypes
      <4>3. QED
        BY <3>2, <4>1, <4>2
    <3>3. QED
      BY <2>1, <3>1, <3>2 DEF Becomes
  \* The type of another goes only with a change that overlaps it.
  <2>4. ASSUME NEW e \in calls, e # c, e.stage = "typed"
        PROVE  e.n \in exempt' \/ \E t \in db'.types : t.id = e.type /\ t.key = e.key
    <3>1. ASSUME NEW t \in db.types, t.id = e.type, t.key = e.key, DeleteWebhookType(c),
                 c.type = e.type
          PROVE  e.n \in exempt'
      <4>1. c.op = "delete" /\ c.stage = "revoking"
        BY <3>1 DEF DeleteWebhookType
      <4>2. c.key = e.key
        BY <3>1, <4>1 DEF RevokingRead
      <4>3. e.op \in {"create", "mint"}
        BY <2>4 DEF TypeInv, TypedMakes
      <4>4. QED
        BY <2>0, <2>4, <4>1, <4>2, <4>3 DEF Overlapped, ByKey, Unanswered
    <3>2. ASSUME NEW t \in db.types, t.id = e.type, ~ (DeleteWebhookType(c) /\ c.type = e.type)
          PROVE  t \in db'.types
      BY <1>3, <3>2, TypesStay
    <3>3. QED
      BY <2>0, <2>4, <3>1, <3>2 DEF TypedHasType
  <2>5. QED
    BY <2>2, <2>3, <2>4 DEF TypedHasType
<1>4. QED
  BY <1>1, <1>2, <1>3, CallSteps DEF Change, Start

\* What a step may do to the secrets of type t that are active and not exempt.
LEMMA SecretsStep ==
  ASSUME TypeInv, NEW c \in calls, Store(c), NEW s \in DOMAIN db'.secrets, db'.secrets[s].active
  PROVE  \/ StoreSecret(c) /\ s = c.n /\ db'.secrets[s].type = c.type
         \/ /\ s \in DOMAIN db.secrets /\ db.secrets[s].active
            /\ db'.secrets[s].type = db.secrets[s].type
            /\ DeleteSecret(c, s) => s \in exempt'
<1>1. CASE db'.secrets = db.secrets /\ ~ DeleteSecret(c, s)
  BY <1>1
<1>2. CASE StoreSecret(c)
  <2>1. ~ DeleteSecret(c, s)
    BY <1>2 DEF StoreSecret, DeleteSecret
  <2>2. CASE s = c.n
    <3>1. [type |-> c.type, active |-> TRUE].type = c.type
      OBVIOUS
    <3>2. QED
      BY <1>2, <2>2, <3>1, SecretAdded
  <2>3. CASE s # c.n
    BY <1>2, <2>1, <2>3, SecretAdded
  <2>4. QED
    BY <2>2, <2>3
<1>3. ASSUME NEW r \in 0..MaxClicks, DeleteSecret(c, r)
      PROVE  /\ s \in DOMAIN db.secrets /\ db.secrets[s].active
             /\ db'.secrets[s].type = db.secrets[s].type
             /\ DeleteSecret(c, s) => s \in exempt'
  <2>1. /\ s \in DOMAIN db.secrets /\ db.secrets[s].active
        /\ db'.secrets[s].type = db.secrets[s].type
    BY <1>3, SecretRevoked
  <2>2. DeleteSecret(c, s) => s \in exempt'
    BY <2>1, SecretRevoked
  <2>3. QED
    BY <2>1, <2>2
<1>4. CreateWebhookType(c) \/ FindListenerType(c) \/ ReadListener(c) \/ DeleteWebhookType(c)
        \/ UpdateAccountPublicAlias(c) \/ UpdateWebhookIdentityStatus(c)
      => db'.secrets = db.secrets
  BY TypeAdded, TypeRemoved, AliasUpdated, StatusUpdated DEF FindListenerType, ReadListener
<1>5. (\A r \in 0..MaxClicks : ~ DeleteSecret(c, r)) => ~ DeleteSecret(c, s)
  <2>1. c \in Deletes /\ s \in c.secrets => s \in 0..MaxClicks
    BY DEF Deletes, N
  <2>2. QED
    BY <2>1, Revokes
<1>6. QED
  BY <1>1, <1>2, <1>3, <1>4, <1>5 DEF Store

LEMMA NoOrphanStep ==
  ASSUME TypeInv, OrphanInv, [Next]_vars
  PROVE  NoOrphanSecret'
<1>1. CASE UNCHANGED <<db, exempt>>
  BY <1>1 DEF OrphanInv, NoOrphanSecret
<1>2. CASE UNCHANGED db
  BY <1>2, ClicksGrow DEF OrphanInv, NoOrphanSecret
<1>3. ASSUME NEW c \in calls, Store(c) PROVE NoOrphanSecret'
  <2>0. exempt \subseteq exempt'
    BY <1>3, StoreFrame
  <2> SUFFICES ASSUME NEW s \in DOMAIN db'.secrets, db'.secrets[s].active
               PROVE  (\E t \in db'.types : t.id = db'.secrets[s].type) \/ s \in exempt'
    BY DEF NoOrphanSecret
  <2>1. CASE StoreSecret(c) /\ s = c.n /\ db'.secrets[s].type = c.type
    <3>1. c.n \in exempt \/ \E t \in db.types : t.id = c.type
      BY <2>1 DEF StoreSecret, OrphanInv, TypedHasType
    <3>2. QED
      BY <2>0, <2>1, <3>1, SecretAdded
  <2>2. CASE s \in DOMAIN db.secrets /\ db.secrets[s].active /\ db'.secrets[s].type = db.secrets[s].type
    <3>1. CASE DeleteWebhookType(c) /\ c.type = db.secrets[s].type
      <4>1. c.stage = "revoking" /\ c.secrets = {}
        BY <3>1 DEF DeleteWebhookType
      <4>2. QED
        BY <2>0, <2>2, <3>1, <4>1 DEF OrphanInv, RevokingRead
    <3>2. CASE ~ (DeleteWebhookType(c) /\ c.type = db.secrets[s].type)
      BY <1>3, <2>0, <2>2, <3>2, TypesStay DEF OrphanInv, NoOrphanSecret
    <3>3. QED
      BY <3>1, <3>2
  <2>3. QED
    BY <1>3, <2>1, <2>2, SecretsStep
<1>4. QED
  BY <1>1, <1>2, <1>3, CallSteps DEF Change, Start

LEMMA RevokingReadStep ==
  ASSUME TypeInv, OrphanInv, [Next]_vars
  PROVE  RevokingRead'
<1>0. /\ Numbered /\ TypeIds /\ Overlapped /\ TypedHasType /\ RevokingRead
      /\ clicks \in Nat /\ clicks' \in Nat /\ clicks <= clicks' /\ exempt \subseteq exempt'
      /\ \A c \in calls : c \in Calls
  BY ClicksGrow DEF OrphanInv, TypeInv
<1>n. \A e \in calls : e.stage = "revoking" => e.type \in Nat
  BY <1>0, CallFields, ListenerAssumption DEF RevokingRead, Deletes, N
<1>1. CASE LaterCalls /\ UNCHANGED <<db, exempt>>
  <2>1. \A e \in calls' : e.stage \in {"revoking", "sent"} => e \in calls
    BY <1>1, LaterUnanswered DEF Unanswered
  <2>2. QED
    BY <1>0, <1>1, <1>n, <2>1 DEF RevokingRead
<1>2. ASSUME NEW c, Starts(c), UNCHANGED db PROVE RevokingRead'
  <2>1. calls' = calls \cup {c} /\ c.n = clicks /\ c.stage = "sent"
    BY <1>2 DEF Starts
  <2>2. QED
    BY <1>0, <1>2, <1>n, <2>1 DEF RevokingRead
<1>3. ASSUME NEW c \in calls, Store(c) PROVE RevokingRead'
  <2>1. PICK d : Becomes(c, d)
    BY <1>3, StoreMoves
  <2>2. calls' = (calls \ {c}) \cup {d} /\ d.stage # "sent" /\ clicks' = clicks
    BY <1>3, <2>1, StoreFrame DEF Becomes, Moves
  <2>c. \A x \in calls' : x.op = "create" /\ x.stage = "sent" => x \in calls
    BY <2>2
  \* The deletion that moves has just read its secrets, or revokes one of them.
  <2>3. ASSUME d.stage = "revoking"
        PROVE  /\ d.op = "delete" /\ d.type < clicks'
               /\ \A t \in db'.types : t.id = d.type => t.key = d.key
               /\ \A x \in calls' : x.op = "create" /\ x.stage = "sent" => x.n # d.type
               /\ \A s \in DOMAIN db'.secrets :
                    db'.secrets[s].active /\ db'.secrets[s].type = d.type
                      => s \in d.secrets \/ s \in exempt'
    <3>1. CASE /\ ReadListener(c) /\ Found(db, c.key) /\ db' = db /\ c.op = "delete"
               /\ \E t \in OldestTypes(db, c.key) : d.type = t.id
               /\ d.secrets = ActiveOf(db, d.type) \/ exempt' = exempt \cup ActiveOf(db, d.type)
      <4>1. d.op = "delete" /\ d.key = c.key
        BY <2>1, <3>1 DEF Becomes, ByKey
      <4>2. PICK t \in db.types : t.key = c.key /\ t.id = d.type
        BY <3>1, OldestFound
      <4>3. \A s \in DOMAIN db.secrets :
              db.secrets[s].active /\ db.secrets[s].type = d.type => s \in ActiveOf(db, d.type)
        BY DEF ActiveOf
      <4>4. d.type < clicks /\ \A u \in db.types : u.id = d.type => u = t
        BY <1>0, <4>2 DEF TypeIds
      <4>5. \A x \in calls' : x.op = "create" /\ x.stage = "sent" => x.n # d.type
        BY <1>0, <2>c, <4>2 DEF TypeIds, Unanswered
      <4>6. QED
        BY <2>2, <3>1, <4>1, <4>2, <4>3, <4>4, <4>5
    <3>2. ASSUME NEW s \in 0..MaxClicks, DeleteSecret(c, s), c.op = "delete", c.stage = "revoking",
                 d.type = c.type, d.secrets = c.secrets \ {s}
          PROVE  /\ d.op = "delete" /\ d.type < clicks'
                 /\ \A t \in db'.types : t.id = d.type => t.key = d.key
                 /\ \A x \in calls' : x.op = "create" /\ x.stage = "sent" => x.n # d.type
                 /\ \A r \in DOMAIN db'.secrets :
                      db'.secrets[r].active /\ db'.secrets[r].type = d.type
                        => r \in d.secrets \/ r \in exempt'
      <4>1. d.op = "delete" /\ d.key = c.key
        BY <2>1, <3>2 DEF Becomes, ByKey
      <4>2. \A r \in DOMAIN db'.secrets :
              db'.secrets[r].active /\ db'.secrets[r].type = d.type
                => r \in d.secrets \/ r \in exempt'
        BY <1>0, <3>2, SecretRevoked DEF RevokingRead
      <4>3. db'.types = db.types
        BY <3>2, SecretRevoked
      <4>4. QED
        BY <1>0, <2>2, <2>c, <3>2, <4>1, <4>2, <4>3 DEF RevokingRead
    <3>3. QED
      BY <2>1, <2>3, <3>1, <3>2 DEF Becomes
  \* Another keeps what it has read, unless a change that overlaps it adds to it.
  <2>4. ASSUME NEW e \in calls, e # c, e.stage = "revoking"
        PROVE  /\ e.op = "delete" /\ e.type < clicks'
               /\ \A t \in db'.types : t.id = e.type => t.key = e.key
               /\ \A x \in calls' : x.op = "create" /\ x.stage = "sent" => x.n # e.type
               /\ \A s \in DOMAIN db'.secrets :
                    db'.secrets[s].active /\ db'.secrets[s].type = e.type
                      => s \in e.secrets \/ s \in exempt'
    <3>1. /\ e.op = "delete" /\ e.type < clicks'
          /\ \A x \in calls' : x.op = "create" /\ x.stage = "sent" => x.n # e.type
      BY <1>0, <2>2, <2>4, <2>c DEF RevokingRead
    <3>2. \A t \in db'.types : t.id = e.type => t.key = e.key
      <4>1. CASE db'.types \subseteq db.types
        BY <1>0, <2>4, <4>1 DEF RevokingRead
      <4>2. CASE CreateWebhookType(c)
        <5>1. c.n # e.type
          BY <1>0, <2>4, <4>2 DEF CreateWebhookType, RevokingRead
        <5>2. PICK u : u.id = c.n /\ db'.types = db.types \cup {u}
          BY <4>2, TypeAdded
        <5>3. QED
          BY <1>0, <2>4, <5>1, <5>2 DEF RevokingRead
      <4>3. FindListenerType(c) \/ ReadListener(c) => db' = db
        BY DEF FindListenerType, ReadListener
      <4>4. QED
        BY <1>3, <4>1, <4>2, <4>3, SecretAdded, SecretRevoked, TypeRemoved, AliasUpdated,
           StatusUpdated DEF Store
    <3>3. ASSUME NEW s \in DOMAIN db'.secrets, db'.secrets[s].active, db'.secrets[s].type = e.type
          PROVE  s \in e.secrets \/ s \in exempt'
      <4>1. CASE StoreSecret(c) /\ s = c.n /\ db'.secrets[s].type = c.type
        <5>1. c.stage = "typed" /\ c.op \in {"create", "mint"}
          BY <4>1 DEF StoreSecret, TypeInv, TypedMakes
        <5>2. CASE \E t \in db.types : t.id = c.type /\ t.key = c.key
          <6>1. c.key = e.key
            BY <1>0, <2>4, <3>3, <4>1, <5>2 DEF RevokingRead
          <6>2. QED
            BY <1>0, <2>4, <3>1, <4>1, <5>1, <6>1 DEF Overlapped, ByKey, Unanswered
        <5>3. QED
          BY <1>0, <4>1, <5>1, <5>2 DEF TypedHasType
      <4>2. CASE /\ s \in DOMAIN db.secrets /\ db.secrets[s].active
                 /\ db'.secrets[s].type = db.secrets[s].type
        BY <1>0, <2>4, <3>3, <4>2 DEF RevokingRead
      <4>3. QED
        BY <1>3, <3>3, <4>1, <4>2, SecretsStep
    <3>4. QED
      BY <3>1, <3>2, <3>3
  <2>5. QED
    BY <2>2, <2>3, <2>4 DEF RevokingRead
<1>4. QED
  BY <1>1, <1>2, <1>3, CallSteps DEF Change, Start

LEMMA InitOrphanInv == Init => OrphanInv
<1> SUFFICES ASSUME Init PROVE OrphanInv
  OBVIOUS
<1>1. calls = {} /\ clicks = 1
  BY DEF Init
<1>2. PICK t : t = [id |-> 0, key |-> StockKey, at |-> 0, uuid |-> MaxUuid]
  OBVIOUS
<1>3. db.types = {t} /\ t.id = 0 /\ db.secrets = [s \in {0} |-> [type |-> 0, active |-> TRUE]]
  BY <1>2 DEF Init
<1>4. NoOrphanSecret
  <2>1. \A s \in DOMAIN db.secrets : db.secrets[s] = [type |-> 0, active |-> TRUE]
    BY <1>3
  <2>2. [type |-> 0, active |-> TRUE].type = 0
    OBVIOUS
  <2>3. QED
    BY <1>3, <2>1, <2>2 DEF NoOrphanSecret
<1>5. TypeIds
  BY <1>1, <1>3 DEF TypeIds
<1>6. QED
  BY <1>1, <1>4, <1>5 DEF OrphanInv, Numbered, Overlapped, TypedHasType, RevokingRead

LEMMA OrphanInvHolds == Spec => [](TypeInv /\ OrphanInv)
<1>1. TypeInv /\ OrphanInv /\ [Next]_vars => OrphanInv'
  <2> SUFFICES ASSUME TypeInv, OrphanInv, [Next]_vars PROVE OrphanInv'
    OBVIOUS
  <2>1. Numbered /\ TypeIds /\ Overlapped /\ TypedHasType /\ RevokingRead
    BY DEF OrphanInv
  <2>2. Numbered' /\ TypeIds' /\ Overlapped'
    BY <2>1, NumberedStep, TypeIdsStep, OverlappedStep
  <2>3. QED
    BY <2>1, <2>2, TypedHasTypeStep, RevokingReadStep, NoOrphanStep DEF OrphanInv
<1>2. QED
  BY <1>1, InitOrphanInv, TypeInvHolds, PTL DEF Spec

\* No secret outlives its listener: one whose type is gone is revoked, unless
\* its own revocation failed or it was made while its listener changed.
THEOREM NoOrphanHolds == Spec => []NoOrphanSecret
<1>1. OrphanInv => NoOrphanSecret
  BY DEF OrphanInv
<1>2. QED
  BY <1>1, OrphanInvHolds, PTL

---------------------------------------------------------------------------
(***************************************************************************)
(* Reads and the calls that wait for them.                                 *)
(***************************************************************************)
\* The stage of a write that waits for a read of list l.
Awaits(l) ==
  IF l = "listeners" THEN "refreshing" ELSE IF l = "identities" THEN "listing" ELSE "secrets"

Clicked == 0 < clicks /\ \A c \in calls : 0 < c.n
\* The read of a write has a write that waits for it, and no other.  No write
\* waits for the listeners that another reads: a button, the tab as it opens or
\* is left, or a write of a tab that was left.
Owned ==
  \A f \in reads :
    /\ f.n < clicks
    /\ f.owner = "write" => \E c \in calls : c.n = f.n /\ c.stage = Awaits(f.list)
    /\ f.owner # "write" /\ f.list = "listeners" => \A c \in calls : c.n # f.n
    /\ \A g \in reads : f.owner = "write" /\ g.owner = "write" /\ f.n = g.n => f = g
OwnInv == Numbered /\ Clicked /\ Owned

LEMMA KeyLists == \A k \in Keys : k # "listeners" /\ k # "identities" /\ k \in Lists
BY ListenerAssumption DEF Lists

LEMMA AwaitsStages ==
  /\ \A l : Awaits(l) \in LaterStages /\ Awaits(l) # "refreshed"
  /\ \A l \in Lists : Awaits(l) = "refreshing" <=> l = "listeners"
  /\ \A k \in Keys : Awaits(k) = "secrets"
BY KeyLists DEF Awaits, LaterStages, Lists

\* What a write to the tables and the sending of reads do to the reads.
LEMMA WriteReads ==
  ASSUME TypeInv, NEW d, Write(d)
  PROVE  /\ \A g \in reads' : \E f \in reads :
              /\ g = [f EXCEPT !.seen = @ \cup {Shown(d, f.list)}]
              /\ g.n = f.n /\ g.list = f.list /\ g.owner = f.owner /\ g.newest = f.newest
              /\ g.seen = f.seen \cup {Shown(d, f.list)}
         /\ \A f \in reads : \E g \in reads' :
              /\ g.n = f.n /\ g.list = f.list /\ g.owner = f.owner /\ g.newest = f.newest
              /\ g.seen = f.seen \cup {Shown(d, f.list)}
<1> DEFINE kept(f) == [f EXCEPT !.seen = @ \cup {Shown(d, f.list)}]
<1>1. ASSUME NEW f \in reads
      PROVE  \E g \in reads' :
               /\ g = kept(f)
               /\ g.n = f.n /\ g.list = f.list /\ g.owner = f.owner /\ g.newest = f.newest
               /\ g.seen = f.seen \cup {Shown(d, f.list)}
  <2>1. PICK g : g = kept(f)
    OBVIOUS
  <2>2. /\ g.n = f.n /\ g.list = f.list /\ g.owner = f.owner /\ g.newest = f.newest
        /\ g.seen = f.seen \cup {Shown(d, f.list)}
    BY <2>1 DEF TypeInv, Reads
  <2>3. g \in reads'
    BY <2>1 DEF Write
  <2>4. QED
    BY <2>1, <2>2, <2>3
<1>2. \A g \in reads' : \E f \in reads : g = kept(f)
  BY DEF Write
<1> HIDE DEF kept
<1>3. \A g \in reads' : \E f \in reads :
        /\ g = kept(f)
        /\ g.n = f.n /\ g.list = f.list /\ g.owner = f.owner /\ g.newest = f.newest
        /\ g.seen = f.seen \cup {Shown(d, f.list)}
  BY <1>1, <1>2
<1>4. \A f \in reads : \E g \in reads' :
        /\ g.n = f.n /\ g.list = f.list /\ g.owner = f.owner /\ g.newest = f.newest
        /\ g.seen = f.seen \cup {Shown(d, f.list)}
  BY <1>1
<1>5. QED
  BY <1>3, <1>4, Zenon DEF kept

KeptRead(f, L) == [f EXCEPT !.newest = @ /\ f.list \notin L]
NewRead(n, owner, l) ==
  [n |-> n, list |-> l, owner |-> owner, seen |-> {Shown(db, l)}, newest |-> TRUE]

LEMMA KeptFields ==
  ASSUME NEW f \in Reads, NEW L
  PROVE  /\ KeptRead(f, L).n = f.n /\ KeptRead(f, L).list = f.list /\ KeptRead(f, L).owner = f.owner
         /\ KeptRead(f, L).seen = f.seen /\ (KeptRead(f, L).newest <=> f.newest /\ f.list \notin L)
<1>1. PICK g : g = KeptRead(f, L)
  OBVIOUS
<1>2. g.n = f.n /\ g.list = f.list /\ g.owner = f.owner /\ g.seen = f.seen
  BY <1>1 DEF Reads, KeptRead
<1>3. g.newest <=> f.newest /\ f.list \notin L
  BY <1>1 DEF Reads, KeptRead
<1>4. QED
  BY <1>1, <1>2, <1>3

LEMMA NewFields ==
  ASSUME NEW n, NEW owner, NEW l
  PROVE  /\ NewRead(n, owner, l).n = n /\ NewRead(n, owner, l).list = l
         /\ NewRead(n, owner, l).owner = owner /\ NewRead(n, owner, l).newest
         /\ NewRead(n, owner, l).seen = {Shown(db, l)}
BY DEF NewRead

LEMMA SendReads ==
  ASSUME TypeInv, NEW R \in SUBSET reads, NEW n, NEW owner, NEW L, SendAfter(R, n, owner, L)
  PROVE  /\ \A g \in reads' :
              \/ \E f \in R : g = KeptRead(f, L) /\ g.n = f.n /\ g.list = f.list /\ g.owner = f.owner
              \/ \E l \in L : g = NewRead(n, owner, l) /\ g.n = n /\ g.list = l /\ g.owner = owner
         /\ \A f \in R : KeptRead(f, L) \in reads'
         /\ \A l \in L : NewRead(n, owner, l) \in reads'
<1>1. /\ \A g \in reads' : (\E f \in R : g = KeptRead(f, L)) \/ (\E l \in L : g = NewRead(n, owner, l))
      /\ \A f \in R : KeptRead(f, L) \in reads'
      /\ \A l \in L : NewRead(n, owner, l) \in reads'
  BY DEF SendAfter, KeptRead, NewRead
<1>2. \A f \in R : f \in Reads
  BY DEF TypeInv
<1>3. QED
  BY <1>1, <1>2, KeptFields, NewFields

LEMMA GoesCalls ==
  ASSUME TypeInv, NEW n, NEW stage \in LaterStages, Goes(n, stage)
  PROVE  /\ \A c \in calls : c.n # n => c \in calls'
         /\ \A c \in calls : c.n = n =>
              \E d \in calls' : d \in Later(c) /\ d.n = n /\ d.stage = stage
         /\ \A d \in calls' : \E c \in calls : d.n = c.n
<1>1. \A c \in calls : [c EXCEPT !.stage = stage].n = c.n /\ [c EXCEPT !.stage = stage].stage = stage
  BY StageType DEF TypeInv, LaterStages, Stages
<1>2. calls' = {IF c.n = n THEN [c EXCEPT !.stage = stage] ELSE c : c \in calls}
  BY DEF Goes
<1>3. \A c \in calls : [c EXCEPT !.stage = stage] \in Later(c)
  BY DEF Later
<1>4. \A c \in calls : c.n = n => [c EXCEPT !.stage = stage] \in calls'
  BY <1>2
<1>5. (\A c \in calls : c.n # n => c \in calls') /\ \A d \in calls' : \E c \in calls : d.n = c.n
  BY <1>1, <1>2
<1>6. QED
  BY <1>1, <1>3, <1>4, <1>5

\* New listeners make an open tab read their secrets and the identities.
LEMMA EffectReads ==
  ASSUME TypeInv, NEW f \in reads, AnswerListeners(f)
  PROVE  \E v \in f.seen : \E L \in SUBSET Lists :
           /\ SendAfter(reads \ {f}, f.n, "effect", L) /\ "listeners" \notin L
           /\ open => "identities" \in L /\ \A t \in v.types : t.key \in L
<1>1. PICK v \in f.seen :
        SendAfter(reads \ {f}, f.n, "effect", IF open THEN TabReads(v.types) ELSE {})
  BY DEF AnswerListeners
<1>2. PICK L : L = IF open THEN TabReads(v.types) ELSE {}
  OBVIOUS
<1>3. \A t \in v.types : t.key \in Keys
  BY <1>1, ReadFields DEF TypeInv, TypeRow
<1>4. /\ L \in SUBSET Lists /\ "listeners" \notin L
      /\ open => "identities" \in L /\ \A t \in v.types : t.key \in L
  BY <1>2, <1>3, KeyLists DEF TabReads, Lists
<1>5. QED
  BY <1>1, <1>2, <1>4

\* A write sends the next read it waits for.
LEMMA OwnedSend ==
  ASSUME TypeInv, OwnInv, NEW c \in calls, NEW R \in SUBSET reads, NEW l \in Lists,
         \A g \in R : g.owner = "write" => g.n # c.n,
         Goes(c.n, Awaits(l)), SendAfter(R, c.n, "write", {l}), clicks' = clicks
  PROVE  Owned'
<1>1. /\ \A x \in calls : x.n # c.n => x \in calls'
      /\ \E d \in calls' : d.n = c.n /\ d.stage = Awaits(l)
      /\ \A d \in calls' : \E x \in calls : d.n = x.n
  BY AwaitsStages, GoesCalls
<1>2. ASSUME NEW g \in reads'
      PROVE  \/ \E f \in R : /\ g = KeptRead(f, {l})
                             /\ g.n = f.n /\ g.list = f.list /\ g.owner = f.owner
             \/ /\ g.n = c.n /\ g.list = l /\ g.owner = "write"
                /\ g = NewRead(c.n, "write", l)
  <2>1. \/ \E f \in R : /\ g = KeptRead(f, {l})
                        /\ g.n = f.n /\ g.list = f.list /\ g.owner = f.owner
        \/ \E m \in {l} : /\ g.n = c.n /\ g.list = m /\ g.owner = "write"
                          /\ g = NewRead(c.n, "write", m)
    BY SendReads
  <2>2. QED
    BY <2>1
<1>3. ASSUME NEW g \in reads', NEW f \in R, g.n = f.n, g.list = f.list, g.owner = f.owner
      PROVE  /\ g.n < clicks'
             /\ g.owner = "write" => g.n # c.n /\ \E x \in calls' : x.n = g.n /\ x.stage = Awaits(g.list)
             /\ g.owner # "write" /\ g.list = "listeners" => \A x \in calls' : x.n # g.n
  BY <1>1, <1>3 DEF OwnInv, Owned
<1>4. ASSUME NEW g \in reads', g.n = c.n, g.list = l, g.owner = "write"
      PROVE  g.n < clicks' /\ \E x \in calls' : x.n = g.n /\ x.stage = Awaits(g.list)
  BY <1>1, <1>4 DEF OwnInv, Numbered
<1>5. ASSUME NEW g \in reads', NEW h \in reads', g.owner = "write", h.owner = "write", g.n = h.n
      PROVE  g = h
  <2>1. CASE g.n = c.n
    <3>1. ASSUME NEW k \in reads', k.n = c.n, k.owner = "write"
          PROVE  k = NewRead(c.n, "write", l)
      <4>1. \A f \in R : ~ (k.n = f.n /\ k.owner = f.owner)
        BY <3>1
      <4>2. QED
        BY <1>2, <4>1
    <3>2. QED
      BY <1>5, <2>1, <3>1
  <2>2. CASE g.n # c.n
    <3>1. PICK f \in R, e \in R : /\ g = KeptRead(f, {l})
                                  /\ g.n = f.n /\ g.owner = f.owner
                                  /\ h = KeptRead(e, {l})
                                  /\ h.n = e.n /\ h.owner = e.owner
      BY <1>2, <1>5, <2>2
    <3>2. f = e
      BY <1>5, <3>1 DEF OwnInv, Owned
    <3>3. QED
      BY <3>1, <3>2
  <2>3. QED
    BY <2>1, <2>2
<1>6. ASSUME NEW g \in reads'
      PROVE  /\ g.n < clicks'
             /\ g.owner = "write" => \E x \in calls' : x.n = g.n /\ x.stage = Awaits(g.list)
             /\ g.owner # "write" /\ g.list = "listeners" => \A x \in calls' : x.n # g.n
  BY <1>2, <1>3, <1>4
<1>7. QED
  BY <1>5, <1>6 DEF Owned

\* Other reads are sent, that no call waits for.
Kept(g, R, L) ==
  \E f \in R : g = KeptRead(f, L) /\ g.n = f.n /\ g.list = f.list /\ g.owner = f.owner
Free(g) == g.n < clicks /\ g.owner # "write" /\ (g.list = "listeners" => \A x \in calls : x.n # g.n)
Stays(R) ==
  /\ \A d \in calls' : \E c \in calls : d.n = c.n
  /\ \A g \in R : g.owner = "write" => \A c \in calls : c.n = g.n => c \in calls'

LEMMA SendFree ==
  ASSUME TypeInv, NEW R \in SUBSET reads, NEW n, NEW owner, NEW L, SendAfter(R, n, owner, L),
         owner # "write", n < clicks', "listeners" \in L => \A x \in calls' : x.n # n
  PROVE  \A g \in reads' : Kept(g, R, L) \/ Free(g)'
<1>1. ASSUME NEW g \in reads' PROVE Kept(g, R, L) \/ Free(g)'
  <2>1. \/ \E f \in R : g = KeptRead(f, L) /\ g.n = f.n /\ g.list = f.list /\ g.owner = f.owner
        \/ \E l \in L : g = NewRead(n, owner, l) /\ g.n = n /\ g.list = l /\ g.owner = owner
    BY SendReads
  <2>2. ASSUME NEW l \in L, g.n = n, g.list = l, g.owner = owner PROVE Free(g)'
    BY <2>2 DEF Free
  <2>3. QED
    BY <2>1, <2>2 DEF Kept
<1>2. QED
  BY <1>1

LEMMA OwnedFree ==
  ASSUME TypeInv, OwnInv, [Next]_vars, NEW R \in SUBSET reads, NEW L,
         \A g \in reads' : Kept(g, R, L) \/ Free(g)', Stays(R)
  PROVE  Owned'
<1>1. \A f \in reads : f \in Reads /\ f.n \in Nat
  BY ReadFields, ListenerAssumption DEF TypeInv, N
<1>2. clicks \in Nat /\ clicks' \in Nat /\ clicks <= clicks'
  BY ClicksGrow
<1>3. ASSUME NEW g \in reads'
      PROVE  /\ g.n < clicks'
             /\ g.owner = "write" => \E x \in calls' : x.n = g.n /\ x.stage = Awaits(g.list)
             /\ g.owner # "write" /\ g.list = "listeners" => \A x \in calls' : x.n # g.n
  <2>1. ASSUME NEW f \in R, g.n = f.n, g.list = f.list, g.owner = f.owner
        PROVE  /\ g.n < clicks'
               /\ g.owner = "write" => \E x \in calls' : x.n = g.n /\ x.stage = Awaits(g.list)
               /\ g.owner # "write" /\ g.list = "listeners" => \A x \in calls' : x.n # g.n
    BY <1>1, <1>2, <2>1 DEF OwnInv, Owned, Stays
  <2>2. CASE Kept(g, R, L)
    BY <2>1, <2>2 DEF Kept
  <2>3. CASE Free(g)'
    BY <2>3 DEF Free
  <2>4. QED
    BY <2>2, <2>3
<1>4. ASSUME NEW g \in reads', NEW h \in reads', g.owner = "write", h.owner = "write", g.n = h.n
      PROVE  g = h
  <2>0. Kept(g, R, L) /\ Kept(h, R, L)
    BY <1>4 DEF Free
  <2>1. PICK f \in R : g = KeptRead(f, L) /\ g.n = f.n /\ g.owner = f.owner
    BY <2>0 DEF Kept
  <2>2. PICK e \in R : h = KeptRead(e, L) /\ h.n = e.n /\ h.owner = e.owner
    BY <2>0 DEF Kept
  <2>3. f = e
    BY <1>4, <2>1, <2>2 DEF OwnInv, Owned
  <2>4. QED
    BY <2>1, <2>2, <2>3
<1>5. QED
  BY <1>3, <1>4 DEF Owned

\* Reads and calls go, but no call that waits for a read that stays.
LEMMA OwnedLess ==
  ASSUME OwnInv, reads' \subseteq reads, clicks' = clicks,
         \A d \in calls' : \E c \in calls : d.n = c.n,
         \A g \in reads' : g.owner = "write" => \A c \in calls : c.n = g.n => c \in calls'
  PROVE  Owned'
BY DEF OwnInv, Owned

LEMMA OwnedRead ==
  ASSUME TypeInv, OwnInv, NEW f \in reads,
         AnswerListeners(f) \/ AnswerIdentities(f) \/ AnswerSecrets(f) \/ FailRead(f)
  PROVE  Owned'
<1>0. clicks' = clicks /\ f \in Reads /\ f.list \in Lists
  BY AnswerKeepsDb, ReadFields DEF ReadStep, TypeInv
<1>1. \A g \in reads \ {f} : g.owner = "write" /\ f.owner = "write" => g.n # f.n
  BY DEF OwnInv, Owned
\* No other read is waited for by the call that a read of the listeners moves.
<1>2. f.list = "listeners" => \A g \in reads \ {f} : g.owner = "write" => g.n # f.n
  BY <1>0, <1>1 DEF OwnInv, Owned
<1>3. CASE AnswerListeners(f)
  <2>1. PICK L : SendAfter(reads \ {f}, f.n, "effect", L) /\ "listeners" \notin L
    BY <1>3, EffectReads
  <2>2. Goes(f.n, "refreshed") /\ "refreshed" \in LaterStages /\ f.list = "listeners"
    BY <1>3 DEF AnswerListeners, LaterStages
  <2>3. /\ \A x \in calls : x.n # f.n => x \in calls'
        /\ \A d \in calls' : \E x \in calls : d.n = x.n
    BY <2>2, GoesCalls
  <2>4. reads \ {f} \in SUBSET reads
    OBVIOUS
  <2>5. [Next]_vars /\ f.n < clicks'
    BY <1>0, <1>3 DEF Next, ReadStep, OwnInv, Owned
  <2>6. \A g \in reads' : Kept(g, reads \ {f}, L) \/ Free(g)'
    BY <2>1, <2>4, <2>5, SendFree
  <2>7. Stays(reads \ {f})
    BY <1>2, <2>2, <2>3 DEF Stays
  <2>8. QED
    BY <2>4, <2>5, <2>6, <2>7, OwnedFree
<1>4. CASE AnswerIdentities(f) \/ (FailRead(f) /\ f.list = "identities")
  <2>1. EndsWith(f) /\ reads' = reads \ {f}
    BY <1>4 DEF AnswerIdentities, FailRead
  <2>2. CASE f.owner = "write"
    BY <1>0, <1>1, <2>1, <2>2, OwnedLess DEF EndsWith, Over
  <2>3. CASE f.owner # "write"
    BY <1>0, <2>1, <2>3, OwnedLess DEF EndsWith
  <2>4. QED
    BY <2>2, <2>3
<1>5. CASE AnswerSecrets(f) \/ (FailRead(f) /\ f.list \in Keys)
  <2>1. SecretsRead(f) /\ f.list \in Keys
    BY <1>5, KeyLists DEF AnswerSecrets, FailRead
  <2>2. CASE f.owner = "write"
    <3>1. PICK c \in calls : c.n = f.n
      BY <2>2 DEF OwnInv, Owned
    <3>2. Goes(c.n, Awaits("identities")) /\ SendAfter(reads \ {f}, c.n, "write", {"identities"})
      BY <2>1, <2>2, <3>1 DEF SecretsRead, Awaits
    <3>3. QED
      BY <1>0, <1>1, <2>2, <3>1, <3>2, OwnedSend DEF Lists
  <2>3. CASE f.owner # "write"
    BY <1>0, <2>1, <2>3, OwnedLess DEF SecretsRead
  <2>4. QED
    BY <2>2, <2>3
<1>6. CASE FailRead(f) /\ f.list = "listeners"
  <2>1. Goes(f.n, "refreshed") /\ reads' = reads \ {f} /\ "refreshed" \in LaterStages
    BY <1>6 DEF FailRead, LaterStages
  <2>2. QED
    BY <1>0, <1>2, <1>6, <2>1, GoesCalls, OwnedLess
<1>7. QED
  BY <1>0, <1>3, <1>4, <1>5, <1>6 DEF Lists

LEMMA OwnedAnswer ==
  ASSUME TypeInv, OwnInv, NEW c \in calls, Answer(c)
  PROVE  Owned'
<1>0. clicks' = clicks
  BY AnswerKeepsDb
<1>1. ASSUME NEW g \in reads, g.owner = "write", g.n = c.n
      PROVE  c.stage \in LaterStages \ {"refreshed"}
  BY <1>1, AwaitsStages DEF OwnInv, Owned, Numbered
<1>2. ASSUME NEW l \in Lists, c.stage \notin LaterStages \ {"refreshed"},
             Goes(c.n, Awaits(l)), Send(c.n, "write", {l})
      PROVE  Owned'
  BY <1>0, <1>1, <1>2, OwnedSend DEF Send
<1>3. CASE AnswerCreate(c) \/ AnswerDelete(c) \/ AnswerAlias(c)
  <2>1. Goes(c.n, Awaits("listeners")) /\ Send(c.n, "write", {"listeners"}) /\ c.stage = "served"
    BY <1>3 DEF AnswerCreate, AnswerDelete, AnswerAlias, Awaits
  <2>2. QED
    BY <1>2, <2>1 DEF Lists, LaterStages
<1>4. CASE AnswerMint(c)
  <2>1. c.key \in Keys
    BY <1>4, CallFields DEF AnswerMint, TypeInv, Makes
  <2>2. Goes(c.n, Awaits(c.key)) /\ Send(c.n, "write", {c.key}) /\ c.stage = "served"
    BY <1>4, <2>1, AwaitsStages DEF AnswerMint
  <2>3. QED
    BY <1>2, <2>1, <2>2, KeyLists DEF LaterStages
<1>5. CASE AnswerStatus(c) \/ (Refreshed(c) /\ c.op # "alias")
  <2>1. /\ Goes(c.n, Awaits("identities")) /\ Send(c.n, "write", {"identities"})
        /\ c.stage \in {"served", "refreshed"}
    BY <1>5 DEF AnswerStatus, Refreshed, Awaits
  <2>2. QED
    BY <1>2, <2>1 DEF Lists, LaterStages
<1>6. CASE CallFails(c) \/ (Refreshed(c) /\ c.op = "alias")
  <2>1. /\ calls' \subseteq calls /\ reads' = reads /\ c.stage \notin LaterStages \ {"refreshed"}
        /\ \A x \in calls : x.n # c.n => x \in calls'
    BY <1>6 DEF CallFails, Refreshed, Over, LaterStages, Unanswered
  <2>2. QED
    BY <1>0, <1>1, <2>1, OwnedLess
<1>7. CASE AnswerLeft(c)
  <2>1. c.stage = "served" /\ calls' = {x \in calls : x.n # c.n} /\ c.n < clicks'
    BY <1>0, <1>7 DEF AnswerLeft, Over, OwnInv, Numbered
  <2>2. Stays(reads)
    BY <1>1, <2>1 DEF LaterStages, Stays
  <2>3. reads \in SUBSET reads /\ [Next]_vars
    BY DEF Next, CallStep
  <2>4. CASE c.op \in {"mint", "status"}
    <3>1. \A g \in reads' : \E f \in reads : g = KeptRead(f, LostReads(c))
      BY <1>7, <2>4 DEF AnswerLeft, KeptRead
    <3>2. \A g \in reads' : Kept(g, reads, LostReads(c)) \/ Free(g)'
      BY <3>1, KeptFields DEF Kept, TypeInv
    <3>3. QED
      BY <2>2, <2>3, <3>2, OwnedFree
  <2>5. CASE c.op \notin {"mint", "status"}
    <3>1. SendAfter(reads, c.n, "left", {"listeners"})
      BY <1>7, <2>5 DEF AnswerLeft, Send
    <3>2. \A x \in calls' : x.n # c.n
      BY <2>1
    <3>3. \A g \in reads' : Kept(g, reads, {"listeners"}) \/ Free(g)'
      BY <2>1, <2>3, <3>1, <3>2, SendFree
    <3>4. QED
      BY <2>2, <2>3, <3>3, OwnedFree
  <2>6. QED
    BY <2>4, <2>5
<1>8. QED
  BY <1>3, <1>4, <1>5, <1>6, <1>7 DEF Answer

LEMMA OwnedStore ==
  ASSUME TypeInv, OwnInv, NEW c \in calls, Store(c)
  PROVE  Owned'
<1>1. PICK d : Becomes(c, d)
  BY StoreMoves
<1>2. /\ calls' = (calls \ {c}) \cup {d} /\ d.n = c.n /\ c.stage \in Unanswered
      /\ clicks' = clicks
  BY <1>1, StoreFrame DEF Becomes, Moves
<1>3. \A x \in calls, l \in Lists : x.stage = Awaits(l) => x \in calls'
  BY <1>2, AwaitsStages DEF Unanswered, LaterStages
<1>4. \A x \in calls' : \E y \in calls : x.n = y.n
  BY <1>2
<1>5. CASE reads' = reads
  BY <1>2, <1>3, <1>4, <1>5, ReadFields DEF OwnInv, Owned, TypeInv
<1>6. ASSUME NEW e, Write(e) PROVE Owned'
  <2>1. ASSUME NEW g \in reads'
        PROVE  /\ g.n < clicks'
               /\ g.owner = "write" => \E x \in calls' : x.n = g.n /\ x.stage = Awaits(g.list)
               /\ g.owner # "write" /\ g.list = "listeners" => \A x \in calls' : x.n # g.n
    <3>1. PICK f \in reads : g.n = f.n /\ g.list = f.list /\ g.owner = f.owner
      BY <1>6, WriteReads
    <3>2. f.list \in Lists
      BY ReadFields DEF TypeInv
    <3>3. QED
      BY <1>2, <1>3, <1>4, <3>1, <3>2 DEF OwnInv, Owned
  <2>2. ASSUME NEW g \in reads', NEW h \in reads', g.owner = "write", h.owner = "write", g.n = h.n
        PROVE  g = h
    <3>1. PICK f \in reads : g = [f EXCEPT !.seen = @ \cup {Shown(e, f.list)}]
                             /\ g.n = f.n /\ g.owner = f.owner
      BY <1>6, WriteReads
    <3>2. PICK k \in reads : h = [k EXCEPT !.seen = @ \cup {Shown(e, k.list)}]
                             /\ h.n = k.n /\ h.owner = k.owner
      BY <1>6, WriteReads
    <3>3. f = k
      BY <2>2, <3>1, <3>2 DEF OwnInv, Owned
    <3>4. QED
      BY <3>1, <3>2, <3>3
  <2>3. QED
    BY <2>1, <2>2 DEF Owned
<1>7. reads' = reads \/ \E e : Write(e)
  BY DEF Store, CreateWebhookType, FindListenerType, StoreSecret, ReadListener, DeleteSecret,
         DeleteWebhookType, UpdateAccountPublicAlias, UpdateWebhookIdentityStatus
<1>8. QED
  BY <1>5, <1>6, <1>7

LEMMA ClickedStep == ASSUME TypeInv, Clicked, [Next]_vars PROVE Clicked'
<1>0. clicks \in Nat /\ clicks' \in Nat /\ clicks <= clicks'
  BY ClicksGrow
<1>1. CASE LaterCalls
  BY <1>0, <1>1, LaterFrom, LaterFields DEF Clicked
<1>2. ASSUME NEW c, Starts(c) PROVE Clicked'
  BY <1>0, <1>2 DEF Starts, Clicked
<1>3. ASSUME NEW c \in calls, Store(c) PROVE Clicked'
  <2>1. PICK d : Becomes(c, d)
    BY <1>3, StoreMoves
  <2>2. QED
    BY <1>0, <2>1 DEF Becomes, Moves, Clicked
<1>4. QED
  BY <1>1, <1>2, <1>3, CallSteps

\* The tab that opens reads everything, and so does App for the one that is left:
\* no call has their number.
LEMMA OwnedOpen ==
  ASSUME TypeInv, OwnInv, Leave \/ Return
  PROVE  Owned'
<1>0. /\ [Next]_vars /\ clicks' = clicks /\ clicks \in Nat /\ 0 < clicks'
      /\ \A x \in calls : x.n # 0
  <2>1. [Next]_vars
    BY DEF Next, User
  <2>2. clicks' = clicks
    BY DEF Leave, Return
  <2>3. \A x \in calls : x.n # 0
    BY DEF OwnInv, Clicked
  <2>4. QED
    BY <2>1, <2>2, <2>3, ClicksGrow DEF OwnInv, Clicked
<1>1. CASE Return
  <2>1. PICK L : SendAfter(reads, 0, "effect", L)
    BY <1>1 DEF Return, Send
  <2>2. reads \in SUBSET reads /\ calls' = calls
    BY <1>1 DEF Return
  <2>3. \A g \in reads' : Kept(g, reads, L) \/ Free(g)'
    BY <1>0, <2>1, <2>2, SendFree
  <2>4. Stays(reads)
    BY <2>2 DEF Stays
  <2>5. QED
    BY <1>0, <2>2, <2>3, <2>4, OwnedFree
<1>2. CASE Leave
  <2>1. calls' = {c \in calls : c.stage \in Unanswered}
    BY <1>2 DEF Leave
  <2>2. ASSUME NEW g \in reads'
        PROVE  /\ g.owner # "write"
               /\ g.n = 0 \/ \E f \in reads : f.list = "listeners" /\ g.n = f.n
    <3>1. PICK R : /\ R = {[f EXCEPT !.owner = "left"] : f \in {h \in reads : h.list = "listeners"}}
                   /\ SendAfter(R, 0, "effect", {"listeners"})
      BY <1>2 DEF Leave
    <3>2. ASSUME NEW f \in reads
          PROVE  /\ [f EXCEPT !.owner = "left"] \in Reads /\ [f EXCEPT !.owner = "left"].owner = "left"
                 /\ [f EXCEPT !.owner = "left"].n = f.n
      BY DEF TypeInv, Reads
    <3>3. \A e \in R : e \in Reads /\ e.owner = "left"
                       /\ \E f \in reads : f.list = "listeners" /\ e.n = f.n
      BY <3>1, <3>2
    <3>4. (\E e \in R : g = KeptRead(e, {"listeners"})) \/ g = NewRead(0, "effect", "listeners")
      BY <3>1 DEF SendAfter, KeptRead, NewRead
    <3>5. QED
      BY <3>3, <3>4, KeptFields, NewFields
  <2>3. ASSUME NEW f \in reads, f.list = "listeners", NEW c \in calls' PROVE c.n # f.n
    <3>1. CASE f.owner = "write"
      <4>1. PICK x \in calls : x.n = f.n /\ x.stage = "refreshing"
        BY <2>3, <3>1 DEF OwnInv, Owned, Awaits
      <4>2. c.n = f.n => c = x
        BY <2>1, <4>1 DEF OwnInv, Numbered
      <4>3. QED
        BY <2>1, <4>1, <4>2 DEF Unanswered
    <3>2. QED
      BY <2>1, <2>3, <3>1 DEF OwnInv, Owned
  <2>4. \A g \in reads' : g.n < clicks' /\ \A c \in calls' : c.n # g.n
    BY <1>0, <2>1, <2>2, <2>3 DEF OwnInv, Owned
  <2>5. QED
    BY <2>2, <2>4 DEF Owned
<1>3. QED
  BY <1>1, <1>2

LEMMA OwnInvHolds == Spec => [](TypeInv /\ OwnInv)
<1>1. Init => OwnInv
  BY DEF Init, OwnInv, Numbered, Clicked, Owned
<1>2. TypeInv /\ OwnInv /\ [Next]_vars => OwnInv'
  <2> SUFFICES ASSUME TypeInv, OwnInv, [Next]_vars PROVE Owned'
    BY NumberedStep, ClickedStep DEF OwnInv
  <2>1. ASSUME NEW c, Starts(c), reads' = reads, Click PROVE Owned'
    <3>1. \A f \in reads : f.n \in Nat
      BY ReadFields, ListenerAssumption DEF TypeInv, N
    <3>2. calls' = calls \cup {c} /\ c.n = clicks /\ clicks' = clicks + 1
      BY <2>1, ClicksGrow DEF Starts
    <3>3. QED
      BY <2>1, <3>1, <3>2, ClicksGrow DEF OwnInv, Owned
  <2>2. ASSUME NEW l \in Lists, RefreshButton(l) PROVE Owned'
    <3>1. SendAfter(reads, clicks, "button", {l}) /\ calls' = calls /\ clicks' = clicks + 1
      BY <2>2, ClicksGrow DEF RefreshButton, Send
    <3>2. (\A c \in calls : c.n # clicks) /\ clicks < clicks' /\ reads \in SUBSET reads
      BY <3>1, ClicksGrow DEF OwnInv, Numbered
    <3>3. \A g \in reads' : Kept(g, reads, {l}) \/ Free(g)'
      BY <3>1, <3>2, SendFree
    <3>4. Stays(reads)
      BY <3>1 DEF Stays
    <3>5. QED
      BY <3>2, <3>3, <3>4, OwnedFree
  <2>3. CASE UNCHANGED vars
    BY <2>3 DEF vars, OwnInv, Owned
  <2>4. User => \/ (\E c : Starts(c) /\ reads' = reads /\ Click) \/ \E l \in Lists : RefreshButton(l)
                \/ Leave \/ Return
    BY UserStarts DEF Change, UpdatePublicAlias, ChangeIdentityStatus, Start
  <2>5. QED
    BY <2>1, <2>2, <2>3, <2>4, OwnedRead, OwnedAnswer, OwnedStore, OwnedOpen
       DEF Next, CallStep, ReadStep
<1>3. QED
  BY <1>1, <1>2, TypeInvHolds, PTL DEF Spec

---------------------------------------------------------------------------
(***************************************************************************)
(* The last click on an identity wins.                                     *)
(***************************************************************************)
NewSecrets ==
  /\ \A s \in DOMAIN db.secrets : s < clicks
  /\ \A c \in calls : c.op \in {"create", "mint"} /\ c.stage \in {"sent", "typed"} =>
       c.n \notin DOMAIN db.secrets
\* The identities seen or clicked are those of the server: none is removed.
KnownIdents ==
  /\ DOMAIN wanted \subseteq DOMAIN db.idents
  /\ DOMAIN identities \subseteq DOMAIN db.idents
  /\ \A f \in reads : \A v \in f.seen : DOMAIN v.idents \subseteq DOMAIN db.idents
  /\ \A c \in calls : c.op = "status" => c.ident \in DOMAIN wanted
\* While no two are changed at once, the row that is marked is the one being
\* changed by the tab as it is open, and what was wanted is there or on its way.
Marked ==
  /\ \A c \in calls, d \in calls : c.op = "status" /\ d.op = "status" => c = d
  /\ \A c \in calls : c.op = "status" /\ ~ Left(c) => busy = c.ident
OnItsWay ==
  /\ \A i \in DOMAIN wanted :
       \/ db.idents[i] \in {wanted[i], "deleted_tombstoned"}
       \/ \E c \in calls : c.op = "status" /\ c.ident = i /\ c.stage = "sent"
  /\ \A c \in calls : c.op = "status" /\ c.stage = "sent" => c.to = wanted[c.ident]
InOrder == alone /\ faults = 0 => Marked /\ OnItsWay
StatusInv == NewSecrets /\ KnownIdents /\ InOrder

\* The effect of a call to the store on the identities.
LEMMA IdentsStep ==
  ASSUME TypeInv, NEW c \in calls, Store(c)
  PROVE  /\ DOMAIN db.idents \subseteq DOMAIN db'.idents
         /\ \A i \in DOMAIN db.idents :
              \/ db'.idents[i] \in {db.idents[i], "deleted_tombstoned"}
              \/ StoreSecret(c) /\ i = <<c.n, db.alias>>
              \/ UpdateWebhookIdentityStatus(c) /\ i = c.ident /\ db'.idents[i] = c.to
<1>1. FindListenerType(c) \/ ReadListener(c) => db' = db
  BY DEF FindListenerType, ReadListener
<1>2. CASE db'.idents = db.idents
  BY <1>2
<1>3. CASE StoreSecret(c)
  BY <1>3, SecretAdded
<1>4. CASE UpdateWebhookIdentityStatus(c)
  BY <1>4, StatusUpdated
<1>5. QED
  BY <1>1, <1>2, <1>3, <1>4, TypeAdded, TypeRemoved, SecretRevoked, AliasUpdated DEF Store

LEMMA SecretsGrow ==
  ASSUME TypeInv, NEW c \in calls, Store(c)
  PROVE  \/ DOMAIN db'.secrets = DOMAIN db.secrets
         \/ StoreSecret(c) /\ DOMAIN db'.secrets = DOMAIN db.secrets \cup {c.n}
<1>1. FindListenerType(c) \/ ReadListener(c) => db' = db
  BY DEF FindListenerType, ReadListener
<1>2. QED
  BY <1>1, TypeAdded, SecretAdded, SecretRevoked, TypeRemoved, AliasUpdated, StatusUpdated DEF Store

LEMMA NewSecretsStep ==
  ASSUME TypeInv, Numbered, NewSecrets, [Next]_vars
  PROVE  NewSecrets'
<1>0. \A s \in DOMAIN db.secrets : s \in Nat
  BY TablesFields, ListenerAssumption DEF N
<1>1. CASE LaterCalls /\ UNCHANGED db
  BY <1>0, <1>1, LaterUnanswered, ClicksGrow DEF NewSecrets, Unanswered
<1>2. ASSUME NEW c, Starts(c), UNCHANGED db PROVE NewSecrets'
  BY <1>0, <1>2, ClicksGrow DEF NewSecrets, Starts
<1>3. ASSUME NEW c \in calls, Store(c) PROVE NewSecrets'
  <2>1. PICK d : Becomes(c, d)
    BY <1>3, StoreMoves
  <2>2. /\ calls' = (calls \ {c}) \cup {d} /\ d.n = c.n /\ d.op = c.op /\ clicks' = clicks
        /\ d.stage = "typed" => c.stage = "sent"
        /\ d.stage # "sent" /\ (StoreSecret(c) => d.stage # "typed")
    <3>1. calls' = (calls \ {c}) \cup {d} /\ d.n = c.n /\ d.op = c.op /\ d.stage # "sent"
      BY <2>1 DEF Becomes, Moves
    <3>2. d.stage = "typed" => c.stage = "sent"
      BY <2>1 DEF Becomes
    <3>3. StoreSecret(c) => c.stage # "sent"
      BY DEF StoreSecret
    <3>4. QED
      BY <1>3, <3>1, <3>2, <3>3, StoreFrame
  <2>3. c.n < clicks /\ \A x \in calls : x.n = c.n => x = c
    BY DEF Numbered
  <2>4. QED
    BY <1>3, <2>2, <2>3, SecretsGrow DEF NewSecrets
<1>4. QED
  BY <1>1, <1>2, <1>3, CallSteps DEF Change, Start

\* How a step changes what the reads have seen.
Seen == \A g \in reads' : (\E f \in reads : g.seen = f.seen) \/ (\E l : g.seen = {Shown(db, l)})

LEMMA SendSeen ==
  ASSUME NEW R \in SUBSET Reads, \A h \in R : \E f \in reads : h.seen = f.seen,
         NEW n, NEW owner, NEW L, SendAfter(R, n, owner, L)
  PROVE  Seen
<1>1. ASSUME NEW g \in reads'
      PROVE  (\E f \in reads : g.seen = f.seen) \/ (\E l : g.seen = {Shown(db, l)})
  <2>1. (\E h \in R : g = KeptRead(h, L)) \/ (\E l \in L : g = NewRead(n, owner, l))
    BY DEF SendAfter, KeptRead, NewRead
  <2>2. ASSUME NEW h \in R, g = KeptRead(h, L) PROVE \E f \in reads : g.seen = f.seen
    BY <2>2, KeptFields
  <2>3. ASSUME NEW l \in L, g = NewRead(n, owner, l) PROVE g.seen = {Shown(db, l)}
    BY <2>3, NewFields
  <2>4. QED
    BY <2>1, <2>2, <2>3
<1>2. QED
  BY <1>1 DEF Seen

LEMMA ReadMoves ==
  ASSUME TypeInv, [Next]_vars
  PROVE  (Seen /\ db' = db) \/ Write(db')
<1>k. reads \subseteq Reads
  BY DEF TypeInv
<1>l. reads' \subseteq reads => Seen
  BY DEF Seen
<1>s. ASSUME NEW R \in SUBSET reads, NEW n, NEW owner, NEW L, SendAfter(R, n, owner, L) PROVE Seen
  <2>1. R \in SUBSET Reads /\ \A h \in R : \E f \in reads : h.seen = f.seen
    BY <1>k
  <2>2. QED
    BY <1>s, <2>1, SendSeen
<1>f. \A f : reads \ {f} \in SUBSET reads /\ reads \in SUBSET reads
  OBVIOUS
<1>1. ASSUME NEW c \in calls, Store(c) PROVE (reads' = reads /\ db' = db) \/ Write(db')
  BY <1>1 DEF Store, CreateWebhookType, FindListenerType, StoreSecret, ReadListener, DeleteSecret,
       DeleteWebhookType, UpdateAccountPublicAlias, UpdateWebhookIdentityStatus, Write
<1>2. ASSUME NEW c \in calls, Answer(c) PROVE Seen /\ db' = db
  <2>1. CASE AnswerLeft(c)
    <3>1. CASE c.op \in {"mint", "status"}
      <4>1. \A g \in reads' : \E f \in reads : g = KeptRead(f, LostReads(c))
        BY <2>1, <3>1 DEF AnswerLeft, KeptRead
      <4>2. Seen
        BY <1>k, <4>1, KeptFields DEF Seen
      <4>3. QED
        BY <2>1, <4>2 DEF AnswerLeft
    <3>2. CASE c.op \notin {"mint", "status"}
      BY <1>s, <1>f, <2>1, <3>2 DEF AnswerLeft, Send
    <3>3. QED
      BY <3>1, <3>2
  <2>2. CASE ~ AnswerLeft(c)
    <3>1. db' = db /\ (reads' = reads \/ \E n, owner, L : SendAfter(reads, n, owner, L))
      BY <1>2, <2>2 DEF Answer, AnswerCreate, AnswerMint, AnswerDelete, AnswerAlias, AnswerStatus,
         CallFails, Refreshed, Send
    <3>2. QED
      BY <1>s, <1>l, <1>f, <3>1
  <2>3. QED
    BY <2>1, <2>2
<1>3. ASSUME NEW f \in reads,
             AnswerListeners(f) \/ AnswerIdentities(f) \/ AnswerSecrets(f) \/ FailRead(f)
      PROVE  Seen /\ db' = db
  <2>1. SecretsRead(f) => Seen
    BY <1>s, <1>l, <1>f DEF SecretsRead
  <2>2. CASE AnswerListeners(f)
    BY <1>s, <1>f, <2>2 DEF AnswerListeners
  <2>3. CASE AnswerIdentities(f)
    BY <1>l, <2>3 DEF AnswerIdentities
  <2>4. CASE AnswerSecrets(f) \/ FailRead(f)
    BY <1>l, <2>1, <2>4 DEF AnswerSecrets, FailRead
  <2>5. QED
    BY <1>3, <2>2, <2>3, <2>4
<1>4. CASE User
  <2>1. ASSUME NEW l \in Lists, RefreshButton(l) PROVE Seen /\ db' = db
    BY <1>s, <1>f, <2>1 DEF RefreshButton, Send
  <2>2. CASE Return
    BY <1>s, <1>f, <2>2 DEF Return, Send
  <2>3. CASE Leave
    <3>1. PICK R : /\ R = {[f EXCEPT !.owner = "left"] : f \in {h \in reads : h.list = "listeners"}}
                   /\ SendAfter(R, 0, "effect", {"listeners"})
      BY <2>3 DEF Leave
    <3>2. ASSUME NEW f \in reads
          PROVE  [f EXCEPT !.owner = "left"] \in Reads /\ [f EXCEPT !.owner = "left"].seen = f.seen
      BY <1>k DEF Reads
    <3>3. R \in SUBSET Reads /\ \A h \in R : \E f \in reads : h.seen = f.seen
      BY <3>1, <3>2
    <3>4. db' = db
      BY <2>3 DEF Leave
    <3>5. QED
      BY <3>1, <3>3, <3>4, SendSeen
  <2>4. (\E l \in Lists : RefreshButton(l)) \/ (reads' = reads /\ db' = db) \/ Leave \/ Return
    BY <1>4, UserStarts DEF Change, UpdatePublicAlias, ChangeIdentityStatus, Start
  <2>5. QED
    BY <1>l, <2>1, <2>2, <2>3, <2>4
<1>5. CASE UNCHANGED vars
  BY <1>l, <1>5 DEF vars
<1>6. QED
  BY <1>1, <1>2, <1>3, <1>4, <1>5, <1>l DEF Next, CallStep, ReadStep

\* What a read may show now, it might before, or the tables show.
LEMMA SeenStep ==
  ASSUME TypeInv, [Next]_vars, NEW g \in reads', NEW v \in g.seen
  PROVE  (\E f \in reads : v \in f.seen) \/ (\E l : v = Shown(db', l))
<1>1. CASE Write(db')
  <2>1. PICK f \in reads : g.seen = f.seen \cup {Shown(db', f.list)}
    BY <1>1, WriteReads
  <2>2. QED
    BY <2>1
<1>2. CASE Seen /\ db' = db
  BY <1>2 DEF Seen
<1>3. QED
  BY <1>1, <1>2, ReadMoves

LEMMA KnownIdentsStep ==
  ASSUME TypeInv, KnownIdents, [Next]_vars
  PROVE  KnownIdents'
<1>1. DOMAIN db.idents \subseteq DOMAIN db'.idents
  BY IdentsStep, CallSteps DEF Change, Start
<1>2. \A f \in reads' : \A v \in f.seen : DOMAIN v.idents \subseteq DOMAIN db'.idents
  <2> SUFFICES ASSUME NEW f \in reads', NEW v \in f.seen PROVE DOMAIN v.idents \subseteq DOMAIN db'.idents
    OBVIOUS
  <2>1. ASSUME NEW l, v = Shown(db', l) PROVE DOMAIN v.idents \subseteq DOMAIN db'.idents
    BY <2>1 DEF Shown
  <2>2. QED
    BY <1>1, <2>1, SeenStep DEF KnownIdents
<1>3. DOMAIN identities' \subseteq DOMAIN db'.idents
  <2>1. \/ identities' = identities \/ DOMAIN identities' = {}
        \/ \E f \in reads : \E v \in f.seen : identities' = v.idents
    <3>1. (\E c \in calls : Store(c)) => identities' = identities
      BY StoreFrame DEF screen
    <3>2. (\E c \in calls : Answer(c)) => identities' = identities
      BY DEF Answer, AnswerCreate, AnswerMint, AnswerDelete, AnswerAlias, AnswerStatus,
         AnswerLeft, CallFails, Refreshed, screen
    <3>3. ReadStep => identities' = identities \/ \E f \in reads : \E v \in f.seen : identities' = v.idents
      BY DEF ReadStep, AnswerListeners, AnswerIdentities, AnswerSecrets, FailRead
    <3>4. User => identities' = identities \/ Leave
      BY DEF User, CreateListener, CreateSecret, DeleteListener, Change, UpdatePublicAlias,
         ChangeIdentityStatus, RefreshButton, Return, screen
    <3>5. Leave => DOMAIN identities' = {}
      BY DEF Leave
    <3>6. QED
      BY <3>1, <3>2, <3>3, <3>4, <3>5 DEF Next, CallStep, vars, screen
  <2>2. QED
    BY <1>1, <2>1 DEF KnownIdents
<1>4. /\ DOMAIN wanted' \subseteq DOMAIN db'.idents
      /\ \A c \in calls' : c.op = "status" => c.ident \in DOMAIN wanted'
  <2>1. CASE User
    <3>1. ASSUME NEW i \in DOMAIN identities, NEW to, ChangeIdentityStatus(i, to),
                 NEW c, Starts(c), c.ident = i
          PROVE  /\ DOMAIN wanted' \subseteq DOMAIN db'.idents
                 /\ \A x \in calls' : x.op = "status" => x.ident \in DOMAIN wanted'
      <4>1. DOMAIN wanted' = DOMAIN wanted \cup {i}
        BY <3>1 DEF ChangeIdentityStatus
      <4>2. QED
        BY <1>1, <3>1, <4>1 DEF KnownIdents, Starts
    <3>2. ASSUME wanted' = wanted, NEW c, Starts(c), c.op # "status"
          PROVE  /\ DOMAIN wanted' \subseteq DOMAIN db'.idents
                 /\ \A x \in calls' : x.op = "status" => x.ident \in DOMAIN wanted'
      BY <1>1, <3>2 DEF KnownIdents, Starts
    <3>3. ASSUME wanted' = wanted, calls' \subseteq calls
          PROVE  /\ DOMAIN wanted' \subseteq DOMAIN db'.idents
                 /\ \A x \in calls' : x.op = "status" => x.ident \in DOMAIN wanted'
      BY <1>1, <3>3 DEF KnownIdents
    <3>4. (\E c : Change(c)) \/ UpdatePublicAlias \/ (\E l \in Lists : RefreshButton(l))
            => wanted' = wanted
      BY DEF Change, UpdatePublicAlias, RefreshButton, past
    <3>5. (\E l \in Lists : RefreshButton(l)) => calls' = calls
      BY DEF RefreshButton
    <3>6. Leave \/ Return => wanted' = wanted /\ calls' \subseteq calls
      BY DEF Leave, Return, past
    <3>7. QED
      BY <2>1, <3>1, <3>2, <3>3, <3>4, <3>5, <3>6, UserStarts DEF ByKey
  <2>2. CASE (\E c \in calls : Answer(c)) \/ ReadStep
    <3>1. LaterCalls /\ wanted' = wanted
      BY <2>2, AnswerType, ReadStepType, AnswerKeepsDb DEF ReadStep
    <3>2. ASSUME NEW d \in calls', d.op = "status" PROVE d.ident \in DOMAIN wanted
      BY <3>1, <3>2, LaterFrom, LaterFields DEF KnownIdents
    <3>3. QED
      BY <1>1, <3>1, <3>2 DEF KnownIdents
  <2>3. ASSUME NEW c \in calls, Store(c)
        PROVE  /\ DOMAIN wanted' \subseteq DOMAIN db'.idents
               /\ \A x \in calls' : x.op = "status" => x.ident \in DOMAIN wanted'
    <3>1. PICK d : Becomes(c, d)
      BY <2>3, StoreMoves
    <3>2. calls' = (calls \ {c}) \cup {d} /\ d.op = c.op /\ (c.op = "status" => d.ident = c.ident)
      BY <3>1 DEF Becomes, Moves
    <3>3. wanted' = wanted
      BY <2>3, StoreFrame
    <3>4. QED
      BY <1>1, <3>2, <3>3 DEF KnownIdents
  <2>4. CASE UNCHANGED vars
    BY <2>4 DEF vars, past, KnownIdents
  <2>5. QED
    BY <2>1, <2>2, <2>3, <2>4 DEF Next, CallStep
<1>5. QED
  BY <1>2, <1>3, <1>4 DEF KnownIdents

\* The answer of a read moves the call that waits for it, an answer its own.
LEMMA ReadMovesCall ==
  ASSUME TypeInv, OwnInv, NEW x \in calls, NEW f \in reads,
         AnswerListeners(f) \/ AnswerIdentities(f) \/ AnswerSecrets(f) \/ FailRead(f)
  PROVE  x \in calls' \/ (x.n = f.n /\ x.stage = Awaits(f.list) /\ f.owner = "write")
<1>0. f.list \in Lists
  BY ReadFields DEF TypeInv
<1>1. CASE f.owner = "write"
  <2>1. PICK c \in calls : c.n = f.n /\ c.stage = Awaits(f.list)
    BY <1>1 DEF OwnInv, Owned
  <2>2. \E stage : Goes(c.n, stage) \/ Over(c.n)
    BY <1>0, <1>1, <2>1, KeyLists
       DEF AnswerListeners, AnswerIdentities, AnswerSecrets, FailRead, EndsWith, SecretsRead, Lists
  <2>3. x = c \/ x.n # c.n
    BY DEF OwnInv, Numbered
  <2>4. QED
    BY <1>1, <2>1, <2>2, <2>3 DEF Goes, Over
<1>2. CASE f.owner # "write" /\ f.list = "listeners"
  <2>1. x.n # f.n
    BY <1>2 DEF OwnInv, Owned
  <2>2. Goes(f.n, "refreshed")
    BY <1>2, KeyLists DEF AnswerListeners, AnswerIdentities, AnswerSecrets, FailRead
  <2>3. QED
    BY <2>1, <2>2 DEF Goes
<1>3. CASE f.owner # "write" /\ f.list # "listeners"
  <2>1. calls' = calls
    BY <1>0, <1>3, KeyLists
       DEF AnswerListeners, AnswerIdentities, AnswerSecrets, FailRead, EndsWith, SecretsRead, Lists
  <2>2. QED
    BY <2>1
<1>4. QED
  BY <1>1, <1>2, <1>3

LEMMA AnswerMovesCall ==
  ASSUME TypeInv, OwnInv, NEW x \in calls, NEW c \in calls, Answer(c), x # c
  PROVE  x \in calls'
<1>1. x.n # c.n
  BY DEF OwnInv, Numbered
<1>2. (\E stage : Goes(c.n, stage)) \/ Over(c.n) \/ calls' = calls \ {c}
  BY DEF Answer, AnswerCreate, AnswerMint, AnswerDelete, AnswerAlias, AnswerStatus, AnswerLeft,
         Refreshed, CallFails
<1>3. QED
  BY <1>1, <1>2 DEF Goes, Over

\* A call that has only been sent goes on with the server, or fails.
LEMMA SentStays ==
  ASSUME TypeInv, OwnInv, NEW x \in calls, x.stage = "sent",
         (\E c \in calls : Answer(c)) \/ ReadStep
  PROVE  x \in calls' \/ CallFails(x)
<1>1. Answer(x) => CallFails(x)
  BY DEF Answer, AnswerCreate, AnswerMint, AnswerDelete, AnswerAlias, AnswerStatus, AnswerLeft, Refreshed
<1>2. \A l : x.stage # Awaits(l)
  BY AwaitsStages DEF LaterStages
<1>3. QED
  BY <1>1, <1>2, ReadMovesCall, AnswerMovesCall DEF ReadStep

\* The mark is cleared with the change of status that is over.
LEMMA MarkKept ==
  ASSUME TypeInv, OwnInv, (\E c \in calls : Answer(c)) \/ ReadStep
  PROVE  busy' = busy \/ \E c \in calls : c.op = "status" /\ calls' \subseteq calls \ {c}
<1>1. ASSUME NEW c \in calls, Answer(c)
      PROVE  busy' = busy \/ (c.op = "status" /\ calls' \subseteq calls \ {c})
  BY <1>1 DEF Answer, AnswerCreate, AnswerMint, AnswerDelete, AnswerAlias, AnswerStatus,
       AnswerLeft, CallFails, Refreshed, screen
<1>2. ASSUME NEW f \in reads, EndsWith(f)
      PROVE  busy' = busy \/ \E c \in calls : c.op = "status" /\ calls' \subseteq calls \ {c}
  <2>1. CASE f.owner = "write" /\ Call(f.n).op = "status"
    <3>1. \E c \in calls : c.n = f.n
      BY <2>1 DEF OwnInv, Owned
    <3>2. Call(f.n) \in calls /\ Call(f.n).n = f.n
      BY <3>1 DEF Call
    <3>3. calls' \subseteq calls \ {Call(f.n)}
      BY <1>2, <2>1, <3>2 DEF EndsWith, Over
    <3>4. QED
      BY <2>1, <3>2, <3>3
  <2>2. QED
    BY <1>2, <2>1 DEF EndsWith
<1>3. ASSUME NEW f \in reads,
             AnswerListeners(f) \/ AnswerIdentities(f) \/ AnswerSecrets(f) \/ FailRead(f)
      PROVE  busy' = busy \/ EndsWith(f)
  <2>1. CASE FailRead(f)
    BY <2>1 DEF FailRead
  <2>2. QED
    BY <1>3, <2>1 DEF AnswerListeners, AnswerIdentities, AnswerSecrets
<1>4. QED
  BY <1>1, <1>2, <1>3 DEF ReadStep

LEMMA MarkedStep ==
  ASSUME TypeInv, OwnInv, Marked, alone', [Next]_vars
  PROVE  Marked'
<1>1. CASE (\E c \in calls : Answer(c)) \/ ReadStep
  <2>1. LaterCalls /\ first' = first
    BY <1>1, AnswerType, ReadStepType, AnswerKeepsDb DEF ReadStep, tab
  <2>2. Numbered'
    BY NumberedStep DEF OwnInv
  <2>3. ASSUME NEW d \in calls', d.op = "status"
        PROVE  /\ \A e \in calls' : e.op = "status" => d = e
               /\ ~ (d.n < first') => busy' = d.ident
    <3>1. PICK c \in calls : c.n = d.n /\ c.op = "status" /\ c.ident = d.ident
      BY <2>1, <2>3, LaterFrom, LaterFields
    <3>2. ASSUME NEW e \in calls', e.op = "status" PROVE d = e
      <4>1. PICK b \in calls : b.n = e.n /\ b.op = "status"
        BY <2>1, <3>2, LaterFrom, LaterFields
      <4>2. b = c
        BY <3>1, <4>1 DEF Marked
      <4>3. QED
        BY <2>2, <3>1, <4>1, <4>2 DEF Numbered
    <3>3. busy' = busy
      <4>1. ASSUME NEW b \in calls, b.op = "status", calls' \subseteq calls \ {b} PROVE FALSE
        BY <2>3, <4>1 DEF Marked
      <4>2. QED
        BY <1>1, <4>1, MarkKept
    <3>4. QED
      BY <2>1, <3>1, <3>2, <3>3 DEF Marked, Left
  <2>4. QED
    BY <2>3 DEF Marked, Left
<1>2. ASSUME NEW c \in calls, Store(c) PROVE Marked'
  <2>1. PICK d : Becomes(c, d)
    BY <1>2, StoreMoves
  <2>2. /\ calls' = (calls \ {c}) \cup {d} /\ d.op = c.op /\ d.n = c.n
        /\ c.op = "status" => d.ident = c.ident
    BY <2>1 DEF Becomes, Moves
  <2>3. busy' = busy /\ first' = first
    BY <1>2, StoreFrame DEF screen, tab
  <2>4. QED
    BY <2>2, <2>3 DEF Marked, Left
<1>3. CASE User
  <2>1. ASSUME NEW c, Starts(c), c.op # "status", busy' = busy, first' = first PROVE Marked'
    BY <2>1 DEF Marked, Starts, Left
  <2>2. ASSUME NEW i, NEW to, ChangeIdentityStatus(i, to), NEW c, Starts(c), c.ident = i
        PROVE  Marked'
    <3>1. busy' = i /\ i # busy /\ calls' = calls \cup {c}
      BY <2>2 DEF ChangeIdentityStatus, StatusEnabled, Starts
    <3>2. \A x \in calls : x.op = "status" => x.ident = i /\ ~ Left(x)
      BY <2>2 DEF ChangeIdentityStatus
    <3>3. \A x \in calls : x.op # "status"
      BY <3>1, <3>2 DEF Marked
    <3>4. QED
      BY <2>2, <3>1, <3>3 DEF Marked
  <2>3. ASSUME calls' = calls, busy' = busy, first' = first PROVE Marked'
    BY <2>3 DEF Marked, Left
  <2>4. (\E c : Change(c)) \/ UpdatePublicAlias => busy' = busy /\ first' = first
    BY DEF Change, UpdatePublicAlias, screen, tab
  <2>5. (\E l \in Lists : RefreshButton(l)) \/ Return => calls' = calls /\ busy' = busy /\ first' = first
    BY DEF RefreshButton, Return, screen, tab
\* No call is one of the tab that comes back.
  <2>6. ASSUME Leave PROVE Marked'
    <3>1. calls' \subseteq calls /\ first' = clicks
      BY <2>6 DEF Leave
    <3>2. \A x \in calls' : Left(x)'
      BY <3>1 DEF Left, OwnInv, Numbered
    <3>3. QED
      BY <3>1, <3>2 DEF Marked
  <2>7. QED
    BY <1>3, <2>1, <2>2, <2>3, <2>4, <2>5, <2>6, UserStarts DEF ByKey
<1>4. CASE UNCHANGED vars
  BY <1>4 DEF vars, screen, tab, Marked, Left
<1>5. QED
  BY <1>1, <1>2, <1>3, <1>4 DEF Next, CallStep

LEMMA FaultsGrow ==
  ASSUME TypeInv, [Next]_vars
  PROVE  faults \in Nat /\ (faults' = faults \/ faults' = faults + 1) /\ (faults' = 0 => faults = 0)
<1>1. faults \in Nat
  BY DEF TypeInv, PastType
<1>2. (\E c \in calls : Store(c)) => faults' = faults \/ faults' = faults + 1
  BY StoreFrame DEF Fault
<1>3. (\E c \in calls : Answer(c)) \/ ReadStep => faults' = faults \/ faults' = faults + 1
  BY DEF Answer, AnswerCreate, AnswerMint, AnswerDelete, AnswerAlias, AnswerStatus, AnswerLeft,
     CallFails, Refreshed, ReadStep, AnswerListeners, AnswerIdentities, AnswerSecrets, FailRead, Fault
<1>4. User => faults' = faults
  BY UserStarts DEF Change, Start, UpdatePublicAlias, ChangeIdentityStatus, RefreshButton, Leave, Return
<1>5. faults' = faults \/ faults' = faults + 1
  BY <1>2, <1>3, <1>4 DEF Next, CallStep, vars
<1>6. QED
  BY <1>1, <1>5

LEMMA OnItsWayStep ==
  ASSUME TypeInv, OwnInv, NewSecrets, KnownIdents, Marked, OnItsWay, alone', faults' = 0, [Next]_vars
  PROVE  OnItsWay'
<1>f. faults = 0 /\ ~ Fault
  BY FaultsGrow DEF Fault
<1>1. CASE (\E c \in calls : Answer(c)) \/ ReadStep
  <2>1. LaterCalls /\ UNCHANGED <<db, wanted>>
    BY <1>1, AnswerType, ReadStepType, AnswerKeepsDb DEF ReadStep
  <2>2. \A d \in calls' : d.stage = "sent" => d \in calls
    BY <2>1, LaterUnanswered DEF Unanswered
  <2>3. ASSUME NEW i \in DOMAIN wanted, NEW c \in calls, c.op = "status", c.ident = i, c.stage = "sent"
        PROVE  c \in calls' \/ db.idents[i] \in {wanted[i], "deleted_tombstoned"}
    <3>1. CASE CallFails(c)
      BY <1>f, <2>3, <3>1 DEF CallFails, Refused, MayChange
    <3>2. QED
      BY <1>1, <2>3, <3>1, SentStays
  <2>4. QED
    BY <2>1, <2>2, <2>3 DEF OnItsWay
<1>2. ASSUME NEW c \in calls, Store(c) PROVE OnItsWay'
  <2>1. PICK d : Becomes(c, d)
    BY <1>2, StoreMoves
  <2>2. calls' = (calls \ {c}) \cup {d} /\ d.stage # "sent" /\ wanted' = wanted
    BY <1>2, <2>1, StoreFrame DEF Becomes, Moves
  <2>3. ASSUME NEW i \in DOMAIN wanted
        PROVE  \/ db'.idents[i] \in {wanted[i], "deleted_tombstoned"}
               \/ \E x \in calls' : x.op = "status" /\ x.ident = i /\ x.stage = "sent"
    <3>0. i \in DOMAIN db.idents /\ i[1] \in DOMAIN db.secrets
      BY TablesFields DEF KnownIdents
    <3>1. CASE UpdateWebhookIdentityStatus(c) /\ i = c.ident
      <4>1. c.op = "status" /\ c.stage = "sent"
        BY <3>1 DEF UpdateWebhookIdentityStatus
      <4>2. db'.idents[i] = c.to /\ c.to = wanted[i]
        BY <3>0, <3>1, <4>1, StatusUpdated, TablesFields DEF OnItsWay
      <4>3. QED
        BY <4>2
    <3>2. CASE StoreSecret(c) /\ i = <<c.n, db.alias>>
      <4>1. c.op \in {"create", "mint"} /\ c.stage = "typed"
        BY <3>2 DEF StoreSecret, TypeInv, TypedMakes
      <4>2. c.n \in DOMAIN db.secrets
        BY <3>0, <3>2
      <4>3. QED
        BY <4>1, <4>2 DEF NewSecrets
    <3>3. CASE db'.idents[i] \in {db.idents[i], "deleted_tombstoned"}
               /\ ~ (UpdateWebhookIdentityStatus(c) /\ i = c.ident)
      <4>1. CASE db.idents[i] \in {wanted[i], "deleted_tombstoned"}
        BY <3>3, <4>1
      <4>2. ASSUME NEW x \in calls, x.op = "status", x.ident = i, x.stage = "sent"
            PROVE  x \in calls'
        <5>1. CASE x = c
          <6>1. UpdateWebhookIdentityStatus(c)
            BY <1>2, <4>2, <5>1 DEF Store, CreateWebhookType, FindListenerType, StoreSecret, ReadListener,
               DeleteSecret, DeleteWebhookType, UpdateAccountPublicAlias
          <6>2. QED
            BY <3>3, <4>2, <5>1, <6>1
        <5>2. QED
          BY <2>2, <5>1
      <4>3. QED
        BY <4>1, <4>2 DEF OnItsWay
    <3>4. QED
      BY <1>2, <3>0, <3>1, <3>2, <3>3, IdentsStep
  <2>4. \A x \in calls' : x.op = "status" /\ x.stage = "sent" => x.to = wanted'[x.ident]
    BY <2>2 DEF OnItsWay
  <2>5. QED
    BY <2>2, <2>3, <2>4 DEF OnItsWay
<1>3. CASE User
  <2>1. ASSUME NEW c, Starts(c), c.op # "status", UNCHANGED <<db, wanted>> PROVE OnItsWay'
    BY <2>1 DEF OnItsWay, Starts
  <2>2. ASSUME NEW i, NEW to, ChangeIdentityStatus(i, to),
               NEW c, Starts(c), c.op = "status", c.ident = i, c.to = to
        PROVE  OnItsWay'
    <3>1. /\ i # busy /\ calls' = calls \cup {c} /\ c.stage = "sent" /\ db' = db
          /\ wanted' = [j \in DOMAIN wanted \cup {i} |-> IF j = i THEN to ELSE wanted[j]]
      BY <2>2 DEF ChangeIdentityStatus, StatusEnabled, Start, Starts
    <3>2. \A x \in calls : x.op = "status" => x.ident = i /\ ~ Left(x)
      BY <2>2 DEF ChangeIdentityStatus
    <3>3. \A x \in calls : x.op # "status"
      BY <3>1, <3>2 DEF Marked
    <3>4. QED
      BY <2>2, <3>1, <3>3 DEF OnItsWay
  <2>3. ASSUME UNCHANGED <<db, wanted>>, calls' \subseteq calls,
               \A c \in calls : c.stage = "sent" => c \in calls'
        PROVE  OnItsWay'
    BY <2>3 DEF OnItsWay
  <2>4. (\E c : Change(c)) \/ UpdatePublicAlias => UNCHANGED <<db, wanted>>
    BY DEF Change, Start, UpdatePublicAlias
  <2>5. (\E l \in Lists : RefreshButton(l)) \/ Return => UNCHANGED <<db, wanted, calls>>
    BY DEF RefreshButton, Return, past
  <2>6. Leave => /\ UNCHANGED <<db, wanted>> /\ calls' \subseteq calls
                 /\ \A c \in calls : c.stage = "sent" => c \in calls'
    BY DEF Leave, past, Unanswered
  <2>7. QED
    BY <1>3, <2>1, <2>2, <2>3, <2>4, <2>5, <2>6, UserStarts DEF ByKey
<1>4. CASE UNCHANGED vars
  BY <1>4 DEF vars, past, OnItsWay
<1>5. QED
  BY <1>1, <1>2, <1>3, <1>4 DEF Next, CallStep

LEMMA AloneStep == ASSUME [Next]_vars, TypeInv, alone' PROVE alone
<1>1. (\E c \in calls : Store(c)) => alone' = alone
  BY StoreFrame
<1>2. (\E c \in calls : Answer(c)) \/ ReadStep => alone' = alone
  BY AnswerKeepsDb
<1>3. User => alone
  BY UserStarts DEF Change, UpdatePublicAlias, ChangeIdentityStatus, RefreshButton, Leave, Return, past
<1>4. QED
  BY <1>1, <1>2, <1>3 DEF Next, CallStep, vars, past

LEMMA StatusInvHolds == Spec => [](TypeInv /\ OwnInv /\ StatusInv)
<1>1. Init => StatusInv
  <2> SUFFICES ASSUME Init PROVE StatusInv
    OBVIOUS
  <2>1. calls = {} /\ reads = {} /\ clicks = 1 /\ identities = db.idents
        /\ wanted = [i \in {} |-> "active"]
    BY DEF Init
  <2>2. db.secrets = [s \in {0} |-> [type |-> 0, active |-> TRUE]]
    BY DEF Init
  <2>3. QED
    BY <2>1, <2>2 DEF StatusInv, NewSecrets, KnownIdents, InOrder, Marked, OnItsWay
<1>2. TypeInv /\ OwnInv /\ StatusInv /\ [Next]_vars => StatusInv'
  <2> SUFFICES ASSUME TypeInv, OwnInv, StatusInv, [Next]_vars PROVE StatusInv'
    OBVIOUS
  <2>1. Numbered /\ NewSecrets /\ KnownIdents /\ InOrder
    BY DEF OwnInv, StatusInv
  <2>2. NewSecrets' /\ KnownIdents'
    BY <2>1, NewSecretsStep, KnownIdentsStep
  <2>3. ASSUME alone', faults' = 0 PROVE Marked' /\ OnItsWay'
    <3>1. alone /\ faults = 0
      BY <2>3, AloneStep, FaultsGrow
    <3>2. QED
      BY <2>1, <2>3, <3>1, MarkedStep, OnItsWayStep DEF InOrder
  <2>4. InOrder'
    BY <2>3 DEF InOrder
  <2>5. QED
    BY <2>2, <2>4 DEF StatusInv
<1>3. QED
  BY <1>1, <1>2, OwnInvHolds, PTL DEF Spec

\* Block and Restore take effect in the order of the clicks.
THEOREM LastClickWinsHolds == Spec => []LastClickWins
<1>1. StatusInv => LastClickWins
  BY DEF StatusInv, InOrder, OnItsWay, LastClickWins
<1>2. QED
  BY <1>1, StatusInvHolds, PTL

---------------------------------------------------------------------------
(***************************************************************************)
(* The tab once everything has settled.  The listeners, and while the tab  *)
(* is open the identities and the secrets of each listener it has, are     *)
(* fresh, or there is a write that will still read them, or a read of the  *)
(* listeners whose answer makes the tab read the rest.                     *)
(***************************************************************************)
\* The type a secret is made under, and the secrets a deletion revokes, are
\* of the listener the call is about.
TypedOwn ==
  \A c \in calls : c.stage = "typed" =>
    /\ c.type < clicks
    /\ \A x \in calls : x.op = "create" /\ x.stage = "sent" => x.n # c.type
    /\ \A t \in db.types : t.id = c.type => t.key = c.key
RevokesOwn ==
  \A c \in calls :
    /\ c.op = "delete" /\ c.stage = "sent" => c.secrets = {}
    /\ c.stage = "revoking" =>
         \A s \in c.secrets : s \in DOMAIN db.secrets /\ db.secrets[s].type = c.type
HandlerInv == TypedOwn /\ RevokesOwn
Known == TypeInv /\ OrphanInv /\ OwnInv /\ StatusInv /\ HandlerInv

LEMMA TypeRows ==
  ASSUME TypeInv, NEW c \in calls, Store(c), NEW t \in db'.types
  PROVE  t \in db.types \/ (CreateWebhookType(c) /\ t.id = c.n /\ t.key = c.key)
<1>1. FindListenerType(c) \/ ReadListener(c) => db' = db
  BY DEF FindListenerType, ReadListener
<1>2. CASE CreateWebhookType(c)
  BY <1>2, TypeAdded
<1>3. QED
  BY <1>1, <1>2, SecretAdded, SecretRevoked, TypeRemoved, AliasUpdated, StatusUpdated DEF Store

LEMMA TypedOwnStep ==
  ASSUME TypeInv, Numbered, TypeIds, TypedOwn, [Next]_vars
  PROVE  TypedOwn'
<1>0. /\ clicks \in Nat /\ clicks' \in Nat /\ clicks <= clicks'
      /\ \A e \in calls : e.stage = "typed" => e.type \in Nat
  BY ClicksGrow, CallFields, ListenerAssumption DEF TypeInv, TypedMakes, Makes, N
<1>1. CASE LaterCalls /\ UNCHANGED db
  <2>1. \A e \in calls' : e.stage \in {"typed", "sent"} => e \in calls
    BY <1>1, LaterUnanswered DEF Unanswered
  <2>2. QED
    BY <1>0, <1>1, <2>1 DEF TypedOwn
<1>2. ASSUME NEW c, Starts(c), UNCHANGED db PROVE TypedOwn'
  <2>1. calls' = calls \cup {c} /\ c.n = clicks /\ c.stage = "sent"
    BY <1>2 DEF Starts
  <2>2. QED
    BY <1>0, <1>2, <2>1 DEF TypedOwn
<1>3. ASSUME NEW c \in calls, Store(c) PROVE TypedOwn'
  <2>1. PICK d : Becomes(c, d)
    BY <1>3, StoreMoves
  <2>2. calls' = (calls \ {c}) \cup {d} /\ d.stage # "sent" /\ clicks' = clicks
    BY <1>3, <2>1, StoreFrame DEF Becomes, Moves
  <2>3. \A x \in calls' : x.op = "create" /\ x.stage = "sent" => x \in calls /\ x # c
    BY <2>2
  <2>4. ASSUME d.stage = "typed"
        PROVE  /\ d.type < clicks'
               /\ \A x \in calls' : x.op = "create" /\ x.stage = "sent" => x.n # d.type
               /\ \A t \in db'.types : t.id = d.type => t.key = d.key
    <3>1. CASE CreateWebhookType(c) /\ d.type = c.type /\ c.op = "create" /\ c.stage = "sent"
      <4>1. d.type = c.n /\ d.key = c.key /\ \A t \in db.types : t.id # c.n
        BY <2>1, <3>1 DEF Becomes, TypeIds, Unanswered, ByKey
      <4>2. \A x \in calls' : x.op = "create" /\ x.stage = "sent" => x.n # c.n
        BY <2>3 DEF Numbered
      <4>3. c.n < clicks'
        BY <2>2 DEF Numbered
      <4>4. QED
        BY <1>3, <4>1, <4>2, <4>3, TypeRows
    <3>2. CASE d.type = NewestType(db, c.key).id /\ Found(db, c.key) /\ db' = db /\ c.op = "mint"
      <4>1. PICK t \in db.types : t.key = c.key /\ t.id = d.type
        BY <3>2, FoundTypes, TablesFields
      <4>2. d.key = c.key
        BY <2>1, <3>2 DEF Becomes, ByKey
      <4>3. d.type < clicks /\ \A u \in db.types : u.id = d.type => u = t
        BY <4>1 DEF TypeIds
      <4>4. \A x \in calls' : x.op = "create" /\ x.stage = "sent" => x.n # d.type
        BY <2>3, <4>1 DEF TypeIds, Unanswered
      <4>5. QED
        BY <2>2, <3>2, <4>1, <4>2, <4>3, <4>4
    <3>3. QED
      BY <2>1, <2>4, <3>1, <3>2 DEF Becomes
  <2>5. ASSUME NEW e \in calls, e # c, e.stage = "typed"
        PROVE  /\ e.type < clicks'
               /\ \A x \in calls' : x.op = "create" /\ x.stage = "sent" => x.n # e.type
               /\ \A t \in db'.types : t.id = e.type => t.key = e.key
    <3>1. CreateWebhookType(c) => c.op = "create" /\ c.stage = "sent"
      BY DEF CreateWebhookType
    <3>2. QED
      BY <1>3, <2>2, <2>3, <2>5, <3>1, TypeRows DEF TypedOwn
  <2>6. QED
    BY <2>2, <2>4, <2>5 DEF TypedOwn
<1>4. QED
  BY <1>1, <1>2, <1>3, CallSteps DEF Change, Start

LEMMA RevokesOwnStep ==
  ASSUME TypeInv, NewSecrets, RevokesOwn, [Next]_vars
  PROVE  RevokesOwn'
<1>1. CASE LaterCalls /\ UNCHANGED db
  BY <1>1, LaterUnanswered DEF RevokesOwn, Unanswered
<1>2. ASSUME NEW c, Starts(c), UNCHANGED db, c.op = "delete" => c.secrets = {} PROVE RevokesOwn'
  BY <1>2 DEF RevokesOwn, Starts
<1>3. ASSUME NEW c \in calls, Store(c) PROVE RevokesOwn'
  <2>1. PICK d : Becomes(c, d)
    BY <1>3, StoreMoves
  <2>2. calls' = (calls \ {c}) \cup {d} /\ d.stage # "sent"
    BY <2>1 DEF Becomes, Moves
  <2>3. \A s \in DOMAIN db.secrets :
          s \in DOMAIN db'.secrets /\ db'.secrets[s].type = db.secrets[s].type
    <3>1. FindListenerType(c) \/ ReadListener(c) => db' = db
      BY DEF FindListenerType, ReadListener
    <3>2. StoreSecret(c) => c.n \notin DOMAIN db.secrets
      BY DEF StoreSecret, NewSecrets, TypeInv, TypedMakes
    <3>3. QED
      BY <1>3, <3>1, <3>2, TypeAdded, SecretAdded, SecretRevoked, TypeRemoved, AliasUpdated,
         StatusUpdated DEF Store
  <2>4. d.stage = "revoking" =>
          \A s \in d.secrets : s \in DOMAIN db.secrets /\ db.secrets[s].type = d.type
    <3>1. CASE ReadListener(c) /\ c.op = "delete" /\ c.stage = "sent"
               /\ (d.secrets = ActiveOf(db, d.type) \/ d.secrets = c.secrets)
      BY <3>1 DEF RevokesOwn, ActiveOf
    <3>2. CASE c.stage = "revoking" /\ d.type = c.type /\ \E s : d.secrets = c.secrets \ {s}
      BY <3>2 DEF RevokesOwn
    <3>3. QED
      BY <2>1, <3>1, <3>2 DEF Becomes
  <2>5. QED
    BY <2>2, <2>3, <2>4 DEF RevokesOwn
<1>4. QED
  BY <1>1, <1>2, <1>3, CallSteps DEF Change, Start

LEMMA KnownHolds == Spec => []Known
<1>1. Init => HandlerInv
  BY DEF Init, HandlerInv, TypedOwn, RevokesOwn
<1>2. TypeInv /\ OrphanInv /\ OwnInv /\ StatusInv /\ HandlerInv /\ [Next]_vars => HandlerInv'
  BY TypedOwnStep, RevokesOwnStep DEF OrphanInv, OwnInv, StatusInv, HandlerInv
<1>3. Known <=> TypeInv /\ OrphanInv /\ OwnInv /\ StatusInv /\ HandlerInv
  BY DEF Known
<1>4. QED
  BY <1>1, <1>2, <1>3, OrphanInvHolds, StatusInvHolds, PTL DEF Spec

\* List l on the screen is what v shows of it.
Displays(l, v) ==
  /\ l = "listeners" => listeners = v.types
  /\ l = "identities" => identities = v.idents
  /\ l \in Keys /\ v.found => history[l] = v.urls
NewestSent(l) == \E f \in reads : f.list = l /\ f.newest
\* The read of l sent last will show the tables as they are; when it was
\* answered last, the screen does.
Fresh(l) ==
  /\ \A f \in reads : f.list = l /\ f.newest => \A v \in f.seen : v = Shown(db, l)
  /\ upToDate[l] /\ ~ NewestSent(l) => Displays(l, Shown(db, l))

Listed(k) == \E t \in listeners : t.key = k
InStore(c) == c.stage \in {"typed", "revoking", "served"}
About(c, k) == c.op = "alias" \/ (c.op \in ByKey /\ c.key = k)
\* What will still read a list: a write, or the answer to a read of the
\* listeners, on which the open tab reads the other lists.
Rereads == \E f \in reads : f.list = "listeners"
ListenersDue == \E c \in calls : c.op \in {"create", "delete"} /\ InStore(c)
IdentitiesDue == Rereads \/ \E c \in calls : InStore(c) \/ c.stage = "secrets"
SecretsDue(k) == Rereads \/ \E c \in calls : About(c, k) /\ InStore(c)
TabInv ==
  /\ Fresh("identities") \/ IdentitiesDue
  /\ \A k \in Keys : Listed(k) /\ Found(db, k) => Fresh(k) \/ SecretsDue(k)
ListInv ==
  faults = 0 =>
    /\ Fresh("listeners") \/ ListenersDue
    /\ open => TabInv

\* A list is fresh when it is sent for.
LEMMA FreshSentWith ==
  ASSUME NEW R \in SUBSET Reads, NEW n, NEW owner, NEW L, SendAfter(R, n, owner, L),
         NEW l \in L, db' = db
  PROVE  Fresh(l)'
<1>0. /\ \A g \in reads' : (\E f \in R : g = KeptRead(f, L)) \/ (\E m \in L : g = NewRead(n, owner, m))
      /\ NewRead(n, owner, l) \in reads'
  BY DEF SendAfter, KeptRead, NewRead
<1>1. ASSUME NEW g \in reads', g.list = l, g.newest PROVE g.seen = {Shown(db, l)}
  <2>1. ASSUME NEW f \in R, g = KeptRead(f, L) PROVE FALSE
    BY <1>1, <2>1, KeptFields
  <2>2. PICK m \in L : g = NewRead(n, owner, m)
    BY <1>0, <2>1
  <2>3. QED
    BY <1>1, <2>2, NewFields
<1>2. NewestSent(l)'
  BY <1>0, NewFields DEF NewestSent
<1>3. QED
  BY <1>1, <1>2 DEF Fresh

LEMMA FreshSent ==
  ASSUME TypeInv, NEW R \in SUBSET reads, NEW n, NEW owner, NEW L, SendAfter(R, n, owner, L),
         NEW l \in L, db' = db
  PROVE  Fresh(l)'
<1>1. R \in SUBSET Reads
  BY DEF TypeInv
<1>2. QED
  BY <1>1, FreshSentWith

\* It stays fresh while its reads, its rows and the screen stay.
LEMMA FreshStays ==
  ASSUME NEW l, Fresh(l), Shown(db', l) = Shown(db, l), upToDate'[l] = upToDate[l],
         Displays(l, Shown(db, l)) => Displays(l, Shown(db, l))',
         \A g \in reads' : g.list = l /\ g.newest =>
           \E f \in reads : f.list = l /\ f.newest /\ \A v \in g.seen : v \in f.seen \/ v = Shown(db', l),
         NewestSent(l) => NewestSent(l)'
  PROVE  Fresh(l)'
BY DEF Fresh

LEMMA FreshOther ==
  ASSUME TypeInv, NEW l, Fresh(l), db' = db, upToDate'[l] = upToDate[l],
         Displays(l, Shown(db, l)) => Displays(l, Shown(db, l))',
         NEW R \in SUBSET reads, \A f \in reads \ R : f.list # l,
         NEW n, NEW owner, NEW L, SendAfter(R, n, owner, L), l \notin L
  PROVE  Fresh(l)'
<1>1. R \subseteq Reads
  BY DEF TypeInv
<1>2. ASSUME NEW g \in reads', g.list = l, g.newest
      PROVE  \E f \in reads : f.list = l /\ f.newest /\ \A v \in g.seen : v \in f.seen \/ v = Shown(db', l)
  <2>1. ASSUME NEW m \in L, g = NewRead(n, owner, m) PROVE FALSE
    BY <1>2, <2>1, NewFields
  <2>2. PICK f \in R : g = KeptRead(f, L)
    BY <2>1, SendReads
  <2>3. QED
    BY <1>1, <1>2, <2>2, KeptFields
<1>3. NewestSent(l) => NewestSent(l)'
  <2>1. ASSUME NEW f \in reads, f.list = l, f.newest PROVE NewestSent(l)'
    <3>1. f \in R /\ KeptRead(f, L) \in reads'
      BY <2>1, SendReads
    <3>2. KeptRead(f, L).list = l /\ KeptRead(f, L).newest
      BY <1>1, <2>1, <3>1, KeptFields
    <3>3. QED
      BY <3>1, <3>2 DEF NewestSent
  <2>2. QED
    BY <2>1 DEF NewestSent
<1>4. QED
  BY <1>2, <1>3, FreshStays

LEMMA FreshLess ==
  ASSUME NEW l, Fresh(l), db' = db, upToDate'[l] = upToDate[l],
         Displays(l, Shown(db, l)) => Displays(l, Shown(db, l))',
         reads' \subseteq reads, \A f \in reads \ reads' : f.list # l
  PROVE  Fresh(l)'
<1>1. NewestSent(l) => NewestSent(l)'
  BY DEF NewestSent
<1>2. QED
  BY <1>1, FreshStays

\* A call to the store that does not touch the rows.
LEMMA FreshStore ==
  ASSUME TypeInv, NEW c \in calls, Store(c), NEW l, Fresh(l), Shown(db', l) = Shown(db, l)
  PROVE  Fresh(l)'
<1>1. UNCHANGED <<listeners, identities, history, upToDate>>
  BY StoreFrame DEF screen
<1>2. Displays(l, Shown(db, l)) => Displays(l, Shown(db, l))'
  BY <1>1 DEF Displays
<1>3. CASE reads' = reads
  BY <1>1, <1>2, <1>3, FreshStays DEF NewestSent
<1>4. CASE Write(db')
  <2>1. ASSUME NEW g \in reads', g.list = l, g.newest
        PROVE  \E f \in reads : f.list = l /\ f.newest /\ \A v \in g.seen : v \in f.seen \/ v = Shown(db', l)
    <3>1. PICK f \in reads : /\ g.list = f.list /\ g.newest = f.newest
                             /\ g.seen = f.seen \cup {Shown(db', f.list)}
      BY <1>4, WriteReads
    <3>2. QED
      BY <2>1, <3>1
  <2>2. NewestSent(l) => NewestSent(l)'
    <3>1. ASSUME NEW f \in reads, f.list = l, f.newest PROVE NewestSent(l)'
      <4>1. PICK g \in reads' : g.list = f.list /\ g.newest = f.newest
        BY <1>4, WriteReads
      <4>2. QED
        BY <3>1, <4>1 DEF NewestSent
    <3>2. QED
      BY <3>1 DEF NewestSent
  <2>3. QED
    BY <1>1, <1>2, <2>1, <2>2, FreshStays
<1>5. reads' = reads \/ Write(db')
  BY DEF Store, CreateWebhookType, FindListenerType, StoreSecret, ReadListener, DeleteSecret,
       DeleteWebhookType, UpdateAccountPublicAlias, UpdateWebhookIdentityStatus, Write
<1>6. QED
  BY <1>3, <1>4, <1>5

\* The answer of the read sent last brings the list up to date.
LEMMA FreshAnswered ==
  ASSUME TypeInv, NEW f \in reads, Fresh(f.list), Answered(f), db' = db,
         \E v \in f.seen : v = Shown(db, f.list) => Displays(f.list, v)',
         \A g \in reads' : g.list = f.list /\ g.newest =>
           \E h \in reads : h.list = f.list /\ h.newest /\ h.seen = g.seen,
         \A g \in reads \ {f} : g.list = f.list /\ g.newest => NewestSent(f.list)'
  PROVE  Fresh(f.list)'
<1> DEFINE l == f.list
<1>1. l \in Lists /\ upToDate \in [Lists -> BOOLEAN]
  BY ReadFields DEF TypeInv, PastType
<1>2. upToDate'[l] <=> f.newest \/ \E g \in reads : g.list = l /\ g.newest
  BY <1>1 DEF Answered
<1>3. \A g \in reads' : g.list = l /\ g.newest => \A v \in g.seen : v = Shown(db', l)
  BY DEF Fresh
<1>4. ASSUME upToDate'[l], ~ NewestSent(l)' PROVE Displays(l, Shown(db, l))'
  <2>1. f.newest
    BY <1>2, <1>4
  <2>2. \A v \in f.seen : v = Shown(db, l)
    BY <2>1 DEF Fresh
  <2>3. QED
    BY <2>2
<1>5. QED
  BY <1>3, <1>4 DEF Fresh

LEMMA FailsCounts == ASSUME TypeInv, NEW f \in reads, FailRead(f) PROVE faults' # 0
BY DEF FailRead, Fault, TypeInv, PastType

LEMMA FreshRead ==
  ASSUME TypeInv, NEW f \in reads, AnswerListeners(f) \/ AnswerIdentities(f) \/ AnswerSecrets(f),
         NEW l \in Lists, Fresh(l)
  PROVE  Fresh(l)'
<1>1. f.list \in Lists /\ reads \ {f} \in SUBSET reads /\ upToDate \in [Lists -> BOOLEAN] /\ db' = db
  BY ReadFields DEF TypeInv, PastType, AnswerListeners, AnswerIdentities, AnswerSecrets
<1>2. Answered(f) /\ (l # f.list => upToDate'[l] = upToDate[l])
  BY <1>1 DEF Answered, AnswerListeners, AnswerIdentities, AnswerSecrets
<1>3. CASE l # f.list
  <2>1. \A f2 \in reads \ (reads \ {f}) : f2.list # l
    BY <1>3
  <2>2. Displays(l, Shown(db, l)) => Displays(l, Shown(db, l))'
    <3>1. CASE AnswerListeners(f)
      BY <1>3, <3>1 DEF AnswerListeners, Displays
    <3>2. CASE AnswerIdentities(f)
      BY <1>3, <3>2 DEF AnswerIdentities, Displays
    <3>3. CASE AnswerSecrets(f)
      <4>1. history \in [Keys -> SUBSET Url]
        BY DEF TypeInv, ScreenType
      <4>2. l \in Keys => history'[l] = history[l]
        BY <1>3, <3>3, <4>1 DEF AnswerSecrets
      <4>3. QED
        BY <3>3, <4>2 DEF AnswerSecrets, Displays
    <3>4. QED
      BY <3>1, <3>2, <3>3
  <2>3. ASSUME NEW n, NEW owner, NEW L, SendAfter(reads \ {f}, n, owner, L) PROVE Fresh(l)'
    BY <1>1, <1>2, <1>3, <2>1, <2>2, <2>3, FreshOther, FreshSent
  <2>4. CASE reads' = reads \ {f}
    <3>1. reads' \subseteq reads /\ \A f2 \in reads \ reads' : f2.list # l
      BY <2>1, <2>4
    <3>2. QED
      BY <1>1, <1>2, <1>3, <2>2, <3>1, FreshLess
  <2>5. reads' = reads \ {f} \/ \E n, owner, L : SendAfter(reads \ {f}, n, owner, L)
    BY DEF AnswerListeners, AnswerIdentities, AnswerSecrets, SecretsRead
  <2>6. QED
    BY <2>3, <2>4, <2>5
<1>4. CASE l = f.list
  <2>1. \E v \in f.seen : v = Shown(db, f.list) => Displays(f.list, v)'
    <3>1. CASE AnswerListeners(f)
      BY <3>1, KeyLists DEF AnswerListeners, Displays
    <3>2. CASE AnswerIdentities(f)
      BY <3>2, KeyLists DEF AnswerIdentities, Displays
    <3>3. CASE AnswerSecrets(f)
      <4>1. history \in [Keys -> SUBSET Url] /\ f.list \in Keys
        BY <3>3 DEF TypeInv, ScreenType, AnswerSecrets
      <4>2. PICK v \in f.seen :
              history' = IF v.found THEN [history EXCEPT ![f.list] = v.urls] ELSE history
        BY <3>3 DEF AnswerSecrets
      <4>3. QED
        BY <4>1, <4>2, KeyLists DEF Displays
    <3>4. QED
      BY <3>1, <3>2, <3>3
  <2>2. ASSUME NEW n, NEW owner, NEW L, l \notin L, SendAfter(reads \ {f}, n, owner, L)
        PROVE  /\ \A g \in reads' : g.list = f.list /\ g.newest =>
                    \E h \in reads : h.list = f.list /\ h.newest /\ h.seen = g.seen
               /\ \A g \in reads \ {f} : g.list = f.list /\ g.newest => NewestSent(f.list)'
    <3>1. ASSUME NEW g \in reads', g.list = l, g.newest
          PROVE  \E h \in reads : h.seen = g.seen /\ h.list = l /\ h.newest
      <4>1. ASSUME NEW m \in L, g = NewRead(n, owner, m) PROVE FALSE
        BY <2>2, <3>1, <4>1, NewFields
      <4>2. (\E h \in reads \ {f} : g = KeptRead(h, L)) \/ (\E m \in L : g = NewRead(n, owner, m))
        BY <1>1, <2>2, SendReads
      <4>3. PICK h \in reads \ {f} : g = KeptRead(h, L)
        BY <4>1, <4>2
      <4>4. QED
        BY <3>1, <4>3, KeptFields DEF TypeInv
    <3>2. ASSUME NEW g \in reads \ {f}, g.list = l, g.newest PROVE NewestSent(l)'
      <4>1. KeptRead(g, L) \in reads'
        BY <1>1, <2>2, SendReads
      <4>2. KeptRead(g, L).list = l /\ KeptRead(g, L).newest
        BY <2>2, <3>2, KeptFields DEF TypeInv
      <4>3. QED
        BY <4>1, <4>2 DEF NewestSent
    <3>3. QED
      BY <1>4, <3>1, <3>2
  <2>3. CASE reads' = reads \ {f}
    BY <1>1, <1>2, <1>4, <2>1, <2>3, FreshAnswered DEF NewestSent
  <2>4. \/ reads' = reads \ {f}
        \/ \E n, owner, L : l \notin L /\ SendAfter(reads \ {f}, n, owner, L)
    <3>1. CASE AnswerListeners(f)
      BY <1>4, <3>1, EffectReads DEF AnswerListeners
    <3>2. CASE AnswerIdentities(f)
      BY <3>2 DEF AnswerIdentities
    <3>3. CASE AnswerSecrets(f)
      <4>1. l \notin {"identities"}
        BY <1>4, <3>3, KeyLists DEF AnswerSecrets
      <4>2. QED
        BY <3>3, <4>1 DEF AnswerSecrets, SecretsRead
    <3>4. QED
      BY <3>1, <3>2, <3>3
  <2>5. QED
    BY <1>1, <1>2, <1>4, <2>1, <2>2, <2>3, <2>4, FreshAnswered
<1>5. QED
  BY <1>3, <1>4

\* A list whose read is lost with the tab it was sent for is not out of date by
\* its own account, and the others stay fresh.
LEMMA FreshLost ==
  ASSUME TypeInv, NEW c \in calls, AnswerLeft(c), c.op \in {"mint", "status"}, NEW l \in Lists,
         l \in LostReads(c) \/ Fresh(l)
  PROVE  Fresh(l)'
<1>1. /\ \A g \in reads' : \E f \in reads : g = KeptRead(f, LostReads(c))
      /\ \A f \in reads : KeptRead(f, LostReads(c)) \in reads'
  BY DEF AnswerLeft, KeptRead
<1>2. /\ upToDate' = [m \in Lists |-> upToDate[m] /\ m \notin LostReads(c)] /\ db' = db
      /\ UNCHANGED <<listeners, identities, history>>
  BY DEF AnswerLeft, screen
<1>3. \A f \in reads : f \in Reads
  BY DEF TypeInv
<1>4. CASE l \in LostReads(c)
  <2>1. ~ upToDate'[l]
    BY <1>2, <1>4
  <2>2. ASSUME NEW g \in reads', g.list = l PROVE ~ g.newest
    BY <1>1, <1>3, <1>4, <2>2, KeptFields
  <2>3. QED
    BY <2>1, <2>2 DEF Fresh
<1>5. CASE l \notin LostReads(c)
  <2>1. upToDate'[l] = upToDate[l]
    <3>1. upToDate[l] \in BOOLEAN
      BY DEF TypeInv, PastType
    <3>2. upToDate'[l] = (upToDate[l] /\ l \notin LostReads(c))
      BY <1>2
    <3>3. QED
      BY <1>5, <3>1, <3>2
  <2>2. Displays(l, Shown(db, l)) => Displays(l, Shown(db, l))'
    BY <1>2 DEF Displays
  <2>3. ASSUME NEW g \in reads', g.list = l, g.newest
        PROVE  \E f \in reads : f.list = l /\ f.newest /\ \A v \in g.seen : v \in f.seen \/ v = Shown(db', l)
    <3>1. PICK f \in reads : g = KeptRead(f, LostReads(c))
      BY <1>1
    <3>2. QED
      BY <1>3, <2>3, <3>1, KeptFields
  <2>4. NewestSent(l) => NewestSent(l)'
    <3>1. ASSUME NEW f \in reads, f.list = l, f.newest PROVE NewestSent(l)'
      <4>1. KeptRead(f, LostReads(c)) \in reads'
        BY <1>1
      <4>2. KeptRead(f, LostReads(c)).list = l /\ KeptRead(f, LostReads(c)).newest
        BY <1>3, <1>5, <3>1, KeptFields
      <4>3. QED
        BY <4>1, <4>2 DEF NewestSent
    <3>2. QED
      BY <3>1 DEF NewestSent
  <2>5. QED
    BY <1>2, <1>5, <2>1, <2>2, <2>3, <2>4, FreshStays
<1>6. QED
  BY <1>4, <1>5

\* The answer of a write leaves a list fresh, unless it forgets the secrets.
LEMMA FreshAnswer ==
  ASSUME TypeInv, NEW c \in calls, Answer(c), NEW l \in Lists, Fresh(l),
         ~ (AnswerDelete(c) /\ l = c.key)
  PROVE  Fresh(l)'
<1>0. CASE AnswerLeft(c) /\ c.op \in {"mint", "status"}
  BY <1>0, FreshLost
<1>1. CASE ~ (AnswerLeft(c) /\ c.op \in {"mint", "status"})
  <2>1. db' = db /\ upToDate' = upToDate /\ UNCHANGED <<listeners, identities>>
    BY <1>1, AnswerKeepsDb
       DEF Answer, AnswerCreate, AnswerMint, AnswerDelete, AnswerAlias, AnswerStatus, AnswerLeft,
           CallFails, Refreshed, past, screen
  <2>2. l \in Keys => history'[l] = history[l]
    <3>1. CASE AnswerDelete(c)
      <4>1. history \in [Keys -> SUBSET Url]
        BY DEF TypeInv, ScreenType
      <4>2. QED
        BY <3>1, <4>1 DEF AnswerDelete
    <3>2. CASE ~ AnswerDelete(c)
      BY <3>2 DEF Answer, AnswerCreate, AnswerMint, AnswerAlias, AnswerStatus, AnswerLeft, CallFails,
         Refreshed, screen
    <3>3. QED
      BY <3>1, <3>2
  <2>3. Displays(l, Shown(db, l)) => Displays(l, Shown(db, l))'
    BY <2>1, <2>2 DEF Displays
  <2>4. reads \in SUBSET reads /\ \A f \in reads \ reads : f.list # l
    OBVIOUS
  <2>5. ASSUME NEW n, NEW owner, NEW L, SendAfter(reads, n, owner, L) PROVE Fresh(l)'
    BY <2>1, <2>3, <2>4, <2>5, FreshSent, FreshOther
  <2>6. CASE reads' = reads
    BY <2>1, <2>3, <2>6, FreshLess
  <2>7. reads' = reads \/ \E n, owner, L : SendAfter(reads, n, owner, L)
    BY <1>1 DEF Answer, AnswerCreate, AnswerMint, AnswerDelete, AnswerAlias, AnswerStatus, AnswerLeft,
       CallFails, Refreshed, Send
  <2>8. QED
    BY <2>5, <2>6, <2>7
<1>2. QED
  BY <1>0, <1>1

LEMMA FreshUser ==
  ASSUME TypeInv, User \/ UNCHANGED vars, ~ Leave, ~ Return, NEW l \in Lists, Fresh(l)
  PROVE  Fresh(l)' /\ calls \subseteq calls' /\ db' = db
<1>1. ASSUME db' = db, reads' = reads, UNCHANGED <<listeners, identities, history, upToDate>>
      PROVE  Fresh(l)'
  BY <1>1, FreshLess DEF Displays
<1>2. ASSUME NEW m \in Lists, RefreshButton(m) PROVE Fresh(l)' /\ calls \subseteq calls' /\ db' = db
  <2>1. /\ SendAfter(reads, clicks, "button", {m}) /\ db' = db /\ calls' = calls
        /\ UNCHANGED <<listeners, identities, history, upToDate>>
    BY <1>2 DEF RefreshButton, Send, screen, past
  <2>2. reads \in SUBSET reads /\ \A f \in reads \ reads : f.list # l
    OBVIOUS
  <2>3. Displays(l, Shown(db, l)) => Displays(l, Shown(db, l))'
    BY <2>1 DEF Displays
  <2>4. QED
    BY <2>1, <2>2, <2>3, FreshSent, FreshOther
<1>3. (\E c : Starts(c) /\ Change(c)) \/ ((\E c : Starts(c)) /\ UpdatePublicAlias)
        \/ (\E i, to : (\E c : Starts(c)) /\ ChangeIdentityStatus(i, to)) \/ UNCHANGED vars
      => /\ db' = db /\ reads' = reads /\ UNCHANGED <<listeners, identities, history, upToDate>>
         /\ calls \subseteq calls'
  BY DEF Starts, Change, Start, UpdatePublicAlias, ChangeIdentityStatus, screen, vars, past
<1>4. QED
  BY <1>1, <1>2, <1>3, UserStarts

\* With nothing failed, only a call that was refused fails.
LEMMA FailsRefused ==
  ASSUME TypeInv, NEW c \in calls, CallFails(c), faults' = 0
  PROVE  c.stage = "sent" /\ calls' = calls \ {c} /\ reads' = reads
BY DEF CallFails, Refused, Fault, TypeInv, PastType

LEMMA MovesInStore ==
  ASSUME TypeInv, NEW c \in calls, Store(c)
  PROVE  \E d \in calls' : InStore(d) /\ d.n = c.n /\ d.op = c.op /\ (c.op \in ByKey => d.key = c.key)
<1>1. PICK d : Becomes(c, d)
  BY StoreMoves
<1>2. QED
  BY <1>1 DEF Becomes, Moves, InStore, Unanswered

LEMMA StoreMovesCall ==
  ASSUME TypeInv, NEW c \in calls, Store(c), NEW x \in calls, x # c
  PROVE  x \in calls'
<1>1. PICK d : Becomes(c, d)
  BY StoreMoves
<1>2. QED
  BY <1>1 DEF Becomes, Moves

\* The tab that opens reads all it shows; so it does when it has new listeners.
LEMMA TabRead ==
  ASSUME TypeInv, open', Return \/ \E f \in reads : AnswerListeners(f)
  PROVE  TabInv'
<1>1. SUFFICES ASSUME NEW R \in SUBSET reads, NEW n, NEW owner, NEW L, SendAfter(R, n, owner, L),
                      db' = db, "identities" \in L, \A t \in listeners' : t.key \in L
               PROVE  TabInv'
  <2>1. ASSUME Return
        PROVE  \E R \in SUBSET reads : \E n, owner, L :
                 /\ SendAfter(R, n, owner, L) /\ db' = db
                 /\ "identities" \in L /\ \A t \in listeners' : t.key \in L
    <3>1. SendAfter(reads, 0, "effect", {"listeners"} \cup TabReads(listeners))
          /\ db' = db /\ listeners' = listeners
      BY <2>1 DEF Return, Send
    <3>2. reads \in SUBSET reads
      OBVIOUS
    <3>3. QED
      BY <3>1, <3>2 DEF TabReads
  <2>2. ASSUME NEW f \in reads, AnswerListeners(f)
        PROVE  \E R \in SUBSET reads : \E n, owner, L :
                 /\ SendAfter(R, n, owner, L) /\ db' = db
                 /\ "identities" \in L /\ \A t \in listeners' : t.key \in L
    <3>1. open /\ db' = db
      BY <2>2 DEF AnswerListeners, tab
    <3>2. PICK v \in f.seen : /\ listeners' = v.types
                              /\ SendAfter(reads \ {f}, f.n, "effect",
                                           IF open THEN TabReads(v.types) ELSE {})
      BY <2>2 DEF AnswerListeners
    <3>3. SendAfter(reads \ {f}, f.n, "effect", TabReads(listeners')) /\ reads \ {f} \in SUBSET reads
      BY <3>1, <3>2
    <3>4. QED
      BY <3>1, <3>3 DEF TabReads
  <2>3. QED
    BY <1>1, <2>1, <2>2
<1>2. \A l \in L : Fresh(l)'
  BY <1>1, FreshSent
<1>3. QED
  BY <1>1, <1>2 DEF TabInv, Listed

\* A read of the listeners stays until its answer.
LEMMA RereadsStay ==
  ASSUME TypeInv, [Next]_vars, faults' = 0, Rereads, ~ Leave, \A f \in reads : ~ AnswerListeners(f)
  PROVE  Rereads'
<1>1. PICK r \in reads : r.list = "listeners"
  BY DEF Rereads
<1>2. ASSUME NEW R \in SUBSET reads, r \in R, NEW n, NEW owner, NEW L, SendAfter(R, n, owner, L)
      PROVE  Rereads'
  <2>1. KeptRead(r, L) \in reads'
    BY <1>2, SendReads
  <2>2. KeptRead(r, L).list = "listeners"
    BY <1>1, KeptFields DEF TypeInv
  <2>3. QED
    BY <2>1, <2>2 DEF Rereads
<1>3. r \in reads' => Rereads'
  BY <1>1 DEF Rereads
<1>f. reads \in SUBSET reads /\ \A f : reads \ {f} \in SUBSET reads
  OBVIOUS
<1>4. ASSUME NEW c \in calls, Store(c) PROVE Rereads'
  <2>1. reads' = reads \/ Write(db')
    BY <1>4 DEF Store, CreateWebhookType, FindListenerType, StoreSecret, ReadListener, DeleteSecret,
       DeleteWebhookType, UpdateAccountPublicAlias, UpdateWebhookIdentityStatus, Write
  <2>2. Write(db') => \E g \in reads' : g.list = r.list
    BY WriteReads
  <2>3. QED
    BY <1>1, <1>3, <2>1, <2>2 DEF Rereads
<1>5. ASSUME NEW c \in calls, Answer(c) PROVE Rereads'
  <2>1. CASE AnswerLeft(c) /\ c.op \in {"mint", "status"}
    <3>1. KeptRead(r, LostReads(c)) \in reads'
      BY <2>1 DEF AnswerLeft, KeptRead
    <3>2. KeptRead(r, LostReads(c)).list = "listeners"
      BY <1>1, KeptFields DEF TypeInv
    <3>3. QED
      BY <3>1, <3>2 DEF Rereads
  <2>2. CASE ~ (AnswerLeft(c) /\ c.op \in {"mint", "status"})
    <3>1. reads' = reads \/ \E n, owner, L : SendAfter(reads, n, owner, L)
      BY <1>5, <2>2 DEF Answer, AnswerCreate, AnswerMint, AnswerDelete, AnswerAlias, AnswerStatus,
         AnswerLeft, CallFails, Refreshed, Send
    <3>2. QED
      BY <1>2, <1>3, <1>f, <3>1
  <2>3. QED
    BY <2>1, <2>2
<1>6. CASE ReadStep
  <2>1. PICK f \in reads : AnswerIdentities(f) \/ AnswerSecrets(f)
    BY <1>6, FailsCounts DEF ReadStep
  <2>2. f # r
    BY <1>1, <2>1, KeyLists DEF AnswerIdentities, AnswerSecrets
  <2>3. reads' = reads \ {f} \/ \E n, owner, L : SendAfter(reads \ {f}, n, owner, L)
    BY <2>1 DEF AnswerIdentities, AnswerSecrets, SecretsRead
  <2>4. QED
    BY <1>2, <1>3, <1>f, <2>2, <2>3
<1>7. CASE User
  <2>1. CASE Return
    BY <1>2, <1>f, <2>1 DEF Return, Send
  <2>2. ASSUME NEW l \in Lists, RefreshButton(l) PROVE Rereads'
    BY <1>2, <1>f, <2>2 DEF RefreshButton, Send
  <2>3. CASE reads' = reads
    BY <1>3, <2>3
  <2>4. QED
    BY <1>7, <2>1, <2>2, <2>3, UserStarts DEF Change, Start, UpdatePublicAlias, ChangeIdentityStatus
<1>8. CASE UNCHANGED vars
  BY <1>3, <1>8 DEF vars
<1>9. QED
  BY <1>4, <1>5, <1>6, <1>7, <1>8 DEF Next, CallStep

LEMMA ListenersStep ==
  ASSUME TypeInv, OwnInv, [Next]_vars, faults' = 0, Fresh("listeners") \/ ListenersDue
  PROVE  Fresh("listeners")' \/ ListenersDue'
<1>l. "listeners" \in Lists /\ "listeners" \notin Keys
  BY KeyLists DEF Lists
<1>1. ASSUME NEW c \in calls, Store(c) PROVE Fresh("listeners")' \/ ListenersDue'
  <2>1. CASE c.op \in {"create", "delete"}
    BY <1>1, <2>1, MovesInStore DEF ListenersDue
  <2>2. CASE c.op \notin {"create", "delete"}
    <3>1. db'.types = db.types
      <4>1. FindListenerType(c) => db' = db
        BY DEF FindListenerType
      <4>2. QED
        BY <1>1, <2>2, <4>1, SecretAdded, AliasUpdated, StatusUpdated
           DEF Store, CreateWebhookType, ReadListener, DeleteSecret, DeleteWebhookType
    <3>2. Shown(db', "listeners") = Shown(db, "listeners")
      BY <1>l, <3>1 DEF Shown
    <3>3. QED
      BY <1>1, <2>2, <3>2, FreshStore, StoreMovesCall DEF ListenersDue, InStore
  <2>3. QED
    BY <2>1, <2>2
<1>2. CASE (User \/ UNCHANGED vars) /\ ~ Leave /\ ~ Return
  <2>1. CASE Fresh("listeners")
    BY <1>2, <1>l, <2>1, FreshUser
  <2>2. CASE ListenersDue
    <3>1. calls \subseteq calls'
      BY <1>2, UserStarts
         DEF Starts, RefreshButton, vars
    <3>2. QED
      BY <2>2, <3>1 DEF ListenersDue, InStore
  <2>3. QED
    BY <2>1, <2>2
\* Leaving and opening the tab both read the listeners.
<1>5. CASE Return
  <2>1. SendAfter(reads, 0, "effect", {"listeners"} \cup TabReads(listeners)) /\ db' = db
    BY <1>5 DEF Return, Send
  <2>2. reads \in SUBSET reads
    OBVIOUS
  <2>3. QED
    BY <2>1, <2>2, FreshSent
<1>6. CASE Leave
  <2>1. PICK R : /\ R = {[f EXCEPT !.owner = "left"] : f \in {h \in reads : h.list = "listeners"}}
                 /\ SendAfter(R, 0, "effect", {"listeners"})
    BY <1>6 DEF Leave
  <2>2. \A f \in reads : [f EXCEPT !.owner = "left"] \in Reads
    BY DEF TypeInv, Reads
  <2>3. R \in SUBSET Reads /\ db' = db
    BY <1>6, <2>1, <2>2 DEF Leave
  <2>4. QED
    BY <2>1, <2>3, FreshSentWith
<1>3. ASSUME NEW c \in calls, Answer(c) PROVE Fresh("listeners")' \/ ListenersDue'
  <2>1. CASE AnswerCreate(c) \/ AnswerDelete(c) \/ AnswerAlias(c)
             \/ (AnswerLeft(c) /\ c.op \notin {"mint", "status"})
    <3>1. db' = db /\ \E owner : SendAfter(reads, c.n, owner, {"listeners"})
      BY <2>1 DEF AnswerCreate, AnswerDelete, AnswerAlias, AnswerLeft, Send
    <3>2. reads \in SUBSET reads
      OBVIOUS
    <3>3. QED
      BY <3>1, <3>2, FreshSent
  <2>2. CASE ~ (AnswerCreate(c) \/ AnswerDelete(c) \/ AnswerAlias(c)
                \/ (AnswerLeft(c) /\ c.op \notin {"mint", "status"}))
    <3>1. ~ (c.op \in {"create", "delete"} /\ InStore(c))
      BY <1>3, <2>2, FailsRefused DEF Answer, AnswerMint, AnswerStatus, Refreshed, InStore
    <3>2. QED
      BY <1>3, <1>l, <2>2, <3>1, FreshAnswer, AnswerMovesCall DEF ListenersDue, InStore
  <2>3. QED
    BY <2>1, <2>2
<1>4. CASE ReadStep
  <2>1. PICK f \in reads : AnswerListeners(f) \/ AnswerIdentities(f) \/ AnswerSecrets(f)
    BY <1>4, FailsCounts DEF ReadStep
  <2>2. \A x \in calls : InStore(x) => x \in calls'
    <3>1. \A x : InStore(x) => x.stage # Awaits(f.list)
      BY AwaitsStages DEF InStore, LaterStages
    <3>2. QED
      BY <2>1, <3>1, ReadMovesCall
  <2>3. QED
    BY <1>l, <2>1, <2>2, FreshRead DEF ListenersDue, InStore
<1>7. QED
  BY <1>1, <1>2, <1>3, <1>4, <1>5, <1>6 DEF Next, CallStep

LEMMA IdentitiesStep ==
  ASSUME TypeInv, OwnInv, [Next]_vars, faults' = 0, Fresh("identities") \/ IdentitiesDue,
         ~ Leave, ~ Return, \A f \in reads : ~ AnswerListeners(f)
  PROVE  Fresh("identities")' \/ IdentitiesDue'
<1>l. "identities" \in Lists /\ "identities" \notin Keys /\ reads \in SUBSET reads
  BY KeyLists DEF Lists
<1>r. Rereads => IdentitiesDue'
  BY RereadsStay DEF IdentitiesDue
<1>1. ASSUME NEW c \in calls, Store(c) PROVE IdentitiesDue'
  BY <1>1, MovesInStore DEF IdentitiesDue, InStore
<1>2. CASE User \/ UNCHANGED vars
  <2>1. CASE Fresh("identities")
    BY <1>2, <1>l, <2>1, FreshUser
  <2>2. CASE IdentitiesDue
    <3>1. calls \subseteq calls'
      BY <1>2, UserStarts
         DEF Starts, RefreshButton, vars
    <3>2. QED
      BY <1>r, <2>2, <3>1 DEF IdentitiesDue, InStore
  <2>3. QED
    BY <2>1, <2>2
<1>3. ASSUME NEW c \in calls, Answer(c) PROVE Fresh("identities")' \/ IdentitiesDue'
  <2>1. CASE AnswerCreate(c) \/ AnswerDelete(c) \/ AnswerAlias(c)
             \/ (AnswerLeft(c) /\ c.op \notin {"mint", "status"})
    <3>1. \E owner : SendAfter(reads, c.n, owner, {"listeners"})
      BY <2>1 DEF AnswerCreate, AnswerDelete, AnswerAlias, AnswerLeft, Send
    <3>2. \E owner : NewRead(c.n, owner, "listeners") \in reads'
      BY <1>l, <3>1, SendReads
    <3>3. QED
      BY <3>2, NewFields DEF IdentitiesDue, Rereads
  <2>2. CASE AnswerMint(c)
    <3>1. Goes(c.n, "secrets")
      BY <2>2 DEF AnswerMint
    <3>2. \E d \in calls' : d.stage = "secrets"
      BY <3>1, GoesCalls DEF LaterStages
    <3>3. QED
      BY <3>2 DEF IdentitiesDue
  <2>3. CASE AnswerStatus(c) \/ (Refreshed(c) /\ c.op # "alias")
    <3>1. db' = db /\ SendAfter(reads, c.n, "write", {"identities"})
      BY <2>3 DEF AnswerStatus, Refreshed, Send
    <3>2. QED
      BY <1>l, <3>1, FreshSent
  <2>4. CASE AnswerLeft(c) /\ c.op \in {"mint", "status"}
    BY <1>l, <2>4, FreshLost DEF LostReads
  <2>5. CASE CallFails(c) \/ (Refreshed(c) /\ c.op = "alias")
    <3>1. ~ (InStore(c) \/ c.stage = "secrets") /\ ~ AnswerDelete(c)
      BY <2>5, FailsRefused DEF Refreshed, InStore, AnswerDelete
    <3>2. QED
      BY <1>3, <1>l, <1>r, <3>1, FreshAnswer, AnswerMovesCall DEF IdentitiesDue, InStore
  <2>6. QED
    BY <1>3, <2>1, <2>2, <2>3, <2>4, <2>5 DEF Answer
<1>4. CASE ReadStep
  <2>1. PICK f \in reads : AnswerIdentities(f) \/ AnswerSecrets(f)
    BY <1>4, FailsCounts DEF ReadStep
  <2>2. CASE AnswerSecrets(f) /\ f.owner = "write"
    <3>1. SendAfter(reads \ {f}, f.n, "write", {"identities"}) /\ db' = db
      BY <2>2 DEF AnswerSecrets, SecretsRead
    <3>2. reads \ {f} \in SUBSET reads
      OBVIOUS
    <3>3. QED
      BY <3>1, <3>2, FreshSent
  <2>3. CASE AnswerIdentities(f) \/ (AnswerSecrets(f) /\ f.owner # "write")
    <3>1. \A x \in calls : x.stage # "listing" => x \in calls'
      <4>1. Awaits("identities") = "listing"
        BY DEF Awaits
      <4>2. QED
        BY <2>3, <4>1, ReadMovesCall DEF AnswerIdentities
    <3>2. QED
      BY <1>l, <1>r, <2>3, <3>1, FreshRead DEF IdentitiesDue, InStore
  <2>4. QED
    BY <2>1, <2>2, <2>3
<1>5. QED
  BY <1>1, <1>2, <1>3, <1>4 DEF Next, CallStep

\* A call about another listener leaves the secrets shown of this one.
LEMMA ShownElsewhere ==
  ASSUME Known, NEW c \in calls, Store(c), NEW k \in Keys, ~ About(c, k)
  PROVE  Shown(db', k) = Shown(db, k)
<1>0. /\ TypeInv /\ TypeIds /\ TypedOwn /\ RevokesOwn /\ RevokingRead /\ NewSecrets
      /\ c.op # "alias" /\ (c.op \in ByKey => c.key # k)
  BY DEF Known, OrphanInv, StatusInv, HandlerInv, About
<1>1. TypesOf(db', k) = TypesOf(db, k)
  <2>1. ASSUME NEW t \in db'.types, t.key = k PROVE t \in db.types
    BY <1>0, <2>1, TypeRows DEF CreateWebhookType, ByKey
  <2>2. ASSUME NEW t \in db.types, t.key = k PROVE t \in db'.types
    <3>1. DeleteWebhookType(c) => t.id # c.type
      BY <1>0, <2>2 DEF DeleteWebhookType, RevokingRead, ByKey
    <3>2. QED
      BY <1>0, <3>1, TypesStay
  <2>3. QED
    BY <2>1, <2>2 DEF TypesOf
<1>2. Found(db', k) <=> Found(db, k)
  BY <1>1 DEF Found
<1>3. NewestType(db', k) = NewestType(db, k)
  BY <1>1 DEF NewestType
<1>4. ASSUME Found(db, k) PROVE ActiveOf(db', NewestType(db, k).id) = ActiveOf(db, NewestType(db, k).id)
  <2>1. PICK t \in db.types : t.key = k /\ t = NewestType(db, k)
    BY <1>0, <1>4, TablesFields, FoundTypes
  <2>2. CASE StoreSecret(c)
    <3>1. c.stage = "typed" /\ c.op \in {"create", "mint"}
      BY <1>0, <2>2 DEF StoreSecret, TypeInv, TypedMakes
    <3>2. c.type # t.id /\ c.n \notin DOMAIN db.secrets
      BY <1>0, <2>1, <3>1 DEF TypedOwn, NewSecrets, ByKey
    <3>3. [type |-> c.type, active |-> TRUE].type = c.type
      OBVIOUS
    <3>4. /\ DOMAIN db'.secrets = DOMAIN db.secrets \cup {c.n}
          /\ db'.secrets[c.n].type # t.id
          /\ \A s \in DOMAIN db.secrets : db'.secrets[s] = db.secrets[s]
      BY <1>0, <2>2, <3>2, <3>3, SecretAdded
    <3>5. ActiveOf(db', t.id) = ActiveOf(db, t.id)
      BY <3>4 DEF ActiveOf
    <3>6. QED
      BY <2>1, <3>5
  <2>3. ASSUME NEW s \in 0..MaxClicks, DeleteSecret(c, s)
        PROVE  ActiveOf(db', t.id) = ActiveOf(db, t.id)
    <3>1. c.op = "delete" /\ c.stage = "revoking" /\ s \in c.secrets
      BY <2>3 DEF DeleteSecret
    <3>2. db.secrets[s].type # t.id
      BY <1>0, <2>1, <3>1 DEF RevokesOwn, RevokingRead, ByKey
    <3>3. /\ DOMAIN db'.secrets = DOMAIN db.secrets
          /\ \A r \in DOMAIN db.secrets : /\ db'.secrets[r].type = db.secrets[r].type
                                          /\ r # s => db'.secrets[r] = db.secrets[r]
      BY <1>0, <2>3, SecretRevoked
    <3>4. QED
      BY <3>2, <3>3 DEF ActiveOf
  <2>4. CASE db'.secrets = db.secrets
    BY <2>4 DEF ActiveOf
  <2>5. FindListenerType(c) \/ ReadListener(c) => db' = db
    BY DEF FindListenerType, ReadListener
  <2>6. QED
    BY <1>0, <2>1, <2>2, <2>3, <2>4, <2>5, TypeAdded, TypeRemoved, AliasUpdated, StatusUpdated DEF Store
<1>5. db'.alias = db.alias
  <2>1. FindListenerType(c) \/ ReadListener(c) => db' = db
    BY DEF FindListenerType, ReadListener
  <2>2. ~ UpdateAccountPublicAlias(c)
    BY <1>0 DEF UpdateAccountPublicAlias
  <2>3. QED
    BY <1>0, <2>1, <2>2, TypeAdded, SecretAdded, SecretRevoked, TypeRemoved, StatusUpdated DEF Store
<1>6. Found(db, k) => ListedSecrets(db', k) = ListedSecrets(db, k)
  BY <1>3, <1>4, <1>5 DEF ListedSecrets
<1>7. QED
  BY <1>2, <1>6, KeyLists DEF Shown

\* The secrets of a listener the tab has, while it is open.
LEMMA KeyStep ==
  ASSUME Known, [Next]_vars, faults' = 0, NEW k \in Keys, Found(db', k),
         Found(db, k) => Fresh(k) \/ SecretsDue(k),
         ~ Leave, ~ Return, \A f \in reads : ~ AnswerListeners(f)
  PROVE  Fresh(k)' \/ SecretsDue(k)'
<1>0. TypeInv /\ OwnInv /\ k \in Lists /\ k # "listeners" /\ k # "identities" /\ reads \in SUBSET reads
  BY KeyLists DEF Known
<1>r. Rereads => SecretsDue(k)'
  BY <1>0, RereadsStay DEF SecretsDue
\* A call that is still due and stays is due.
<1>d. ASSUME NEW x \in calls, About(x, k), x \in calls', InStore(x) PROVE SecretsDue(k)'
  BY <1>d DEF SecretsDue, About, InStore
<1>1. ASSUME NEW c \in calls, Store(c) PROVE Fresh(k)' \/ SecretsDue(k)'
  <2>1. CASE About(c, k)
    <3>1. PICK d \in calls' : /\ InStore(d) /\ d.n = c.n /\ d.op = c.op
                              /\ (c.op \in ByKey => d.key = c.key)
      BY <1>0, <1>1, MovesInStore
    <3>2. About(d, k)
      BY <2>1, <3>1 DEF About
    <3>3. QED
      BY <3>1, <3>2 DEF SecretsDue, About, InStore
  <2>2. CASE ~ About(c, k)
    <3>1. Shown(db', k) = Shown(db, k)
      BY <1>1, <2>2, ShownElsewhere
    <3>2. Found(db, k)
      BY <1>0, <3>1 DEF Shown
    <3>3. CASE Fresh(k)
      BY <1>0, <1>1, <3>1, <3>3, FreshStore
    <3>4. ASSUME NEW x \in calls, About(x, k), InStore(x) PROVE SecretsDue(k)'
      BY <1>0, <1>1, <1>d, <2>2, <3>4, StoreMovesCall
    <3>5. QED
      BY <1>r, <3>2, <3>3, <3>4 DEF SecretsDue
  <2>3. QED
    BY <2>1, <2>2
<1>2. CASE User \/ UNCHANGED vars
  <2>1. CASE Fresh(k)
    BY <1>0, <1>2, <2>1, FreshUser
  <2>2. ASSUME NEW x \in calls, About(x, k), InStore(x) PROVE SecretsDue(k)'
    <3>1. x \in calls'
      BY <1>0, <1>2, UserStarts DEF Starts, RefreshButton, vars
    <3>2. QED
      BY <1>d, <2>2, <3>1
  <2>3. db' = db
    <3>1. (\E l \in Lists : RefreshButton(l)) => db' = db
      BY DEF RefreshButton
    <3>2. QED
      BY <1>0, <1>2, <3>1, UserStarts DEF Change, Start, UpdatePublicAlias, ChangeIdentityStatus, vars
  <2>4. QED
    BY <1>r, <2>1, <2>2, <2>3 DEF SecretsDue
<1>3. ASSUME NEW c \in calls, Answer(c) PROVE Fresh(k)' \/ SecretsDue(k)'
  <2>0. db' = db /\ Found(db, k)
    BY <1>3, AnswerKeepsDb
  <2>1. CASE AnswerCreate(c) \/ AnswerDelete(c) \/ AnswerAlias(c)
             \/ (AnswerLeft(c) /\ c.op \notin {"mint", "status"})
    <3>1. \E owner : SendAfter(reads, c.n, owner, {"listeners"})
      BY <2>1 DEF AnswerCreate, AnswerDelete, AnswerAlias, AnswerLeft, Send
    <3>2. \E owner : NewRead(c.n, owner, "listeners") \in reads'
      BY <1>0, <3>1, SendReads
    <3>3. QED
      BY <3>2, NewFields DEF SecretsDue, Rereads
  <2>2. CASE AnswerMint(c) /\ c.key = k
    <3>1. SendAfter(reads, c.n, "write", {k})
      BY <2>2 DEF AnswerMint, Send
    <3>2. QED
      BY <1>0, <2>0, <3>1, FreshSent
  <2>3. CASE AnswerLeft(c) /\ c.op = "mint" /\ c.key = k
    BY <1>0, <2>3, FreshLost DEF LostReads
  <2>4. CASE /\ ~ (AnswerCreate(c) \/ AnswerDelete(c) \/ AnswerAlias(c)
                    \/ (AnswerLeft(c) /\ c.op \notin {"mint", "status"}))
             /\ ~ (AnswerMint(c) /\ c.key = k) /\ ~ (AnswerLeft(c) /\ c.op = "mint" /\ c.key = k)
    <3>1. ~ (About(c, k) /\ InStore(c))
      BY <1>0, <1>3, <2>4, FailsRefused
         DEF Answer, AnswerMint, AnswerStatus, Refreshed, InStore, About, ByKey
    <3>2. CASE Fresh(k)
      BY <1>0, <1>3, <2>4, <3>2, FreshAnswer
    <3>3. ASSUME NEW x \in calls, About(x, k), InStore(x) PROVE SecretsDue(k)'
      BY <1>0, <1>3, <1>d, <3>1, <3>3, AnswerMovesCall
    <3>4. QED
      BY <1>r, <2>0, <3>2, <3>3 DEF SecretsDue
  <2>5. QED
    BY <2>1, <2>2, <2>3, <2>4
<1>4. CASE ReadStep
  <2>1. PICK f \in reads : AnswerIdentities(f) \/ AnswerSecrets(f)
    BY <1>0, <1>4, FailsCounts DEF ReadStep
  <2>2. db' = db
    BY <1>4, AnswerKeepsDb
  <2>3. CASE Fresh(k)
    BY <1>0, <2>1, <2>3, FreshRead
  <2>4. ASSUME NEW x \in calls, About(x, k), InStore(x) PROVE SecretsDue(k)'
    <3>1. x.stage # Awaits(f.list)
      BY <2>4, AwaitsStages DEF InStore, LaterStages
    <3>2. QED
      BY <1>0, <1>d, <2>1, <2>4, <3>1, ReadMovesCall
  <2>5. QED
    BY <1>r, <2>2, <2>3, <2>4 DEF SecretsDue
<1>5. QED
  BY <1>1, <1>2, <1>3, <1>4 DEF Next, CallStep

\* The listeners the tab has are new with the answer to a read of them only.
LEMMA ListenersKept ==
  ASSUME [Next]_vars, \A f \in reads : ~ AnswerListeners(f)
  PROVE  listeners' = listeners
<1>1. User => listeners' = listeners
  BY DEF User, CreateListener, CreateSecret, DeleteListener, Change, UpdatePublicAlias,
         ChangeIdentityStatus, RefreshButton, Leave, Return, screen
<1>2. (\E c \in calls : Store(c)) => listeners' = listeners
  BY StoreFrame DEF screen
<1>3. (\E c \in calls : Answer(c)) => listeners' = listeners
  BY DEF Answer, AnswerCreate, AnswerMint, AnswerDelete, AnswerAlias, AnswerStatus, AnswerLeft,
         CallFails, Refreshed, screen
<1>4. ReadStep => listeners' = listeners
  BY DEF ReadStep, AnswerIdentities, AnswerSecrets, FailRead
<1>5. QED
  BY <1>1, <1>2, <1>3, <1>4 DEF Next, CallStep, vars, screen

LEMMA ListInvHolds == Spec => []ListInv
<1>1. ASSUME Init PROVE ListInv
  <2>1. reads = {} /\ \A l \in Lists : Displays(l, Shown(db, l))
    <3>1. /\ Shown(db, "listeners").types = db.types /\ Shown(db, "identities").idents = db.idents
          /\ listeners = db.types /\ identities = db.idents /\ reads = {}
      BY <1>1 DEF Init, Shown
    <3>2. ASSUME NEW k \in Keys, Found(db, k) PROVE history[k] = ListedSecrets(db, k)
      <4>1. db.types = {[id |-> 0, key |-> StockKey, at |-> 0, uuid |-> MaxUuid]}
        BY <1>1 DEF Init
      <4>2. k = StockKey
        BY <3>2, <4>1 DEF Found, TypesOf
      <4>3. QED
        BY <1>1, <4>2, ListenerAssumption DEF Init
    <3>3. ASSUME NEW k \in Keys, Shown(db, k).found PROVE history[k] = Shown(db, k).urls
      <4>1. Found(db, k) /\ Shown(db, k).urls = ListedSecrets(db, k)
        BY <3>3 DEF Shown
      <4>2. QED
        BY <3>2, <4>1
    <3>4. QED
      BY <3>1, <3>3 DEF Displays
  <2>2. QED
    BY <2>1, KeyLists DEF ListInv, TabInv, Fresh, Lists
<1>2. ASSUME Known, ListInv, [Next]_vars PROVE ListInv'
  <2>1. SUFFICES ASSUME faults' = 0
        PROVE  /\ Fresh("listeners")' \/ ListenersDue'
               /\ open' => TabInv'
    BY DEF ListInv
  <2>2. TypeInv /\ OwnInv /\ faults = 0
    BY <1>2, <2>1, FaultsGrow DEF Known
  <2>3. Fresh("listeners")' \/ ListenersDue'
    BY <1>2, <2>1, <2>2, ListenersStep DEF ListInv
  <2>4. ASSUME open' PROVE TabInv'
    <3>1. CASE Return \/ \E f \in reads : AnswerListeners(f)
      BY <2>2, <2>4, <3>1, TabRead
    <3>2. CASE ~ Return /\ \A f \in reads : ~ AnswerListeners(f)
      <4>1. ~ Leave
        BY <2>4 DEF Leave
      <4>2. open
        <5>1. UNCHANGED tab => open' = open
          BY DEF tab
        <5>2. QED
          BY <1>2, <2>4, <3>2, <4>1, <5>1, TabStep
      <4>3. TabInv
        BY <1>2, <2>2, <4>2 DEF ListInv
      <4>4. Fresh("identities")' \/ IdentitiesDue'
        BY <1>2, <2>1, <2>2, <3>2, <4>1, <4>3, IdentitiesStep DEF TabInv
      <4>5. ASSUME NEW k \in Keys, Listed(k)', Found(db', k) PROVE Fresh(k)' \/ SecretsDue(k)'
        <5>1. Listed(k)
          BY <1>2, <3>2, <4>5, ListenersKept DEF Listed
        <5>2. QED
          BY <1>2, <2>1, <3>2, <4>1, <4>3, <4>5, <5>1, KeyStep DEF TabInv
      <4>6. QED
        BY <4>4, <4>5 DEF TabInv
    <3>3. QED
      BY <3>1, <3>2
  <2>5. QED
    BY <2>3, <2>4
<1>3. QED
  BY <1>1, <1>2, KnownHolds, PTL DEF Spec

\* Once everything has settled App has the server's listeners, and the open tab
\* shows the tables: with no write and no read under way a list is not due, so
\* it is fresh (ListInv), whatever keys, clicks, overlaps and leavings there were.
THEOREM SettledTabHolds == Spec => []SettledTab
<1>1. ASSUME Known, ListInv PROVE SettledTab
  <2>1. SUFFICES ASSUME calls = {}, reads = {}, faults = 0
        PROVE  /\ upToDate["listeners"] => listeners = db.types
               /\ open =>
                    /\ upToDate["identities"] => identities = db.idents
                    /\ \A t \in listeners :
                         upToDate[t.key] /\ Found(db, t.key) => history[t.key] = ListedSecrets(db, t.key)
    BY DEF SettledTab
  <2>2. ~ ListenersDue /\ ~ IdentitiesDue /\ \A k \in Keys : ~ SecretsDue(k)
    BY <2>1 DEF ListenersDue, IdentitiesDue, SecretsDue, Rereads
  <2>3. \A l : Fresh(l) /\ upToDate[l] => Displays(l, Shown(db, l))
    BY <2>1 DEF Fresh, NewestSent
  <2>4. upToDate["listeners"] => listeners = db.types
    BY <1>1, <2>1, <2>2, <2>3 DEF ListInv, Displays, Shown
  <2>5. ASSUME open, upToDate["identities"] PROVE identities = db.idents
    BY <1>1, <2>1, <2>2, <2>3, <2>5 DEF ListInv, TabInv, Displays, Shown
  <2>6. ASSUME open, NEW t \in listeners, upToDate[t.key], Found(db, t.key)
        PROVE  history[t.key] = ListedSecrets(db, t.key)
    <3>1. t.key \in Keys /\ Listed(t.key)
      BY <1>1 DEF Known, TypeInv, ScreenType, TypeRow, Listed
    <3>2. Displays(t.key, Shown(db, t.key))
      BY <1>1, <2>1, <2>2, <2>3, <2>6, <3>1 DEF ListInv, TabInv
    <3>3. Shown(db, t.key).found /\ Shown(db, t.key).urls = ListedSecrets(db, t.key)
      BY <2>6, <3>1 DEF Shown
    <3>4. QED
      BY <3>1, <3>2, <3>3 DEF Displays
  <2>7. QED
    BY <2>4, <2>5, <2>6
<1>2. QED
  BY <1>1, KnownHolds, ListInvHolds, PTL

---------------------------------------------------------------------------
(***************************************************************************)
(* The secret that was made here.  A key that was never doubled has one    *)
(* type (Single), whatever the clocks and the order of ids.  A secret made *)
(* while no other change of its listener overlapped is of that type        *)
(* (MakesKept).  It stays so until a creation, whose own answer replaces   *)
(* it or leaves the key with two types; a deletion that revokes it takes   *)
(* its type too.  A tab that is left forgets the secrets it made, so those *)
(* shown are of clicks since.                                              *)
(***************************************************************************)
Single == \A t, u \in db.types : t.key = u.key /\ t.key \notin doubled => t = u
HasType(c) == \E t \in db.types : t.id = c.type /\ t.key = c.key
StoredFor(c) ==
  c.n \in DOMAIN db.secrets /\ db.secrets[c.n].active /\ db.secrets[c.n].type = c.type
Keeps(c) ==
  /\ c.stage \in {"typed", "served"} => HasType(c)
  /\ c.stage = "served" => StoredFor(c)
MakesKept ==
  \A c \in calls : c.op \in {"create", "mint"} /\ c.stage \in Unanswered /\ c.n \notin exempt => Keeps(c)

LEMMA DoubledGrows ==
  ASSUME [Next]_vars
  PROVE  doubled \subseteq doubled'
<1>1. User => doubled' = doubled
  BY DEF User, CreateListener, CreateSecret, DeleteListener, Change, UpdatePublicAlias,
         ChangeIdentityStatus, RefreshButton, Leave, Return, past
<1>2. (\E c \in calls : Store(c)) => doubled \subseteq doubled'
  BY StoreFrame
<1>3. (\E c \in calls : Answer(c)) \/ ReadStep => doubled' = doubled
  BY AnswerKeepsDb
<1>4. QED
  BY <1>1, <1>2, <1>3 DEF Next, CallStep, vars, past

LEMMA SingleStep ==
  ASSUME TypeInv, Single, [Next]_vars
  PROVE  Single'
<1>1. CASE db'.types \subseteq db.types
  BY <1>1, DoubledGrows DEF Single
<1>2. ASSUME NEW c \in calls, CreateWebhookType(c) PROVE Single'
  <2>1. PICK row : row.id = c.n /\ row.key = c.key /\ db'.types = db.types \cup {row}
    BY <1>2, TypeAdded
  <2>2. ASSUME c.key \notin doubled' PROVE \A t \in db.types : t.key # c.key
    BY <1>2, <2>2 DEF CreateWebhookType, Found, TypesOf
  <2>3. ASSUME NEW t \in db'.types, NEW u \in db'.types, t.key = u.key, t.key \notin doubled'
        PROVE  t = u
    <3>1. CASE t \in db.types /\ u \in db.types
      BY <2>3, <3>1, DoubledGrows DEF Single
    <3>2. CASE t = row \/ u = row
      BY <2>1, <2>2, <2>3, <3>2
    <3>3. QED
      BY <2>1, <3>1, <3>2
  <2>4. QED
    BY <2>3 DEF Single
<1>3. ASSUME NEW c \in calls, Store(c), ~ CreateWebhookType(c) PROVE db'.types \subseteq db.types
  BY <1>3, TypeRows
<1>4. UNCHANGED db => db'.types = db.types
  OBVIOUS
<1>5. QED
  BY <1>1, <1>2, <1>3, <1>4, CallSteps DEF Change, Start

\* What a call to the store does to a secret there is.
LEMMA SecretStays ==
  ASSUME TypeInv, NewSecrets, NEW c \in calls, Store(c), NEW s \in DOMAIN db.secrets
  PROVE  /\ s \in DOMAIN db'.secrets /\ db'.secrets[s].type = db.secrets[s].type
         /\ db'.secrets[s].active => db.secrets[s].active
         /\ db.secrets[s].active => db'.secrets[s].active \/ DeleteSecret(c, s)
<1>1. CASE db'.secrets = db.secrets
  BY <1>1
<1>2. CASE StoreSecret(c)
  <2>1. s # c.n
    BY <1>2 DEF StoreSecret, NewSecrets, TypeInv, TypedMakes
  <2>2. QED
    BY <1>2, <2>1, SecretAdded
<1>3. ASSUME NEW r \in 0..MaxClicks, DeleteSecret(c, r)
      PROVE  /\ s \in DOMAIN db'.secrets /\ db'.secrets[s].type = db.secrets[s].type
             /\ db'.secrets[s].active => db.secrets[s].active
             /\ db.secrets[s].active => db'.secrets[s].active \/ DeleteSecret(c, s)
  <2>1. /\ s \in DOMAIN db'.secrets /\ db'.secrets[s].type = db.secrets[s].type
        /\ s # r => db'.secrets[s] = db.secrets[s]
    BY <1>3, SecretRevoked
  <2>2. db'.secrets[s].active => db.secrets[s].active
    BY <1>3, SecretRevoked
  <2>3. QED
    BY <1>3, <2>1, <2>2
<1>4. CreateWebhookType(c) \/ FindListenerType(c) \/ ReadListener(c) \/ DeleteWebhookType(c)
        \/ UpdateAccountPublicAlias(c) \/ UpdateWebhookIdentityStatus(c)
      => db'.secrets = db.secrets
  BY TypeAdded, TypeRemoved, AliasUpdated, StatusUpdated DEF FindListenerType, ReadListener
<1>5. QED
  BY <1>1, <1>2, <1>3, <1>4 DEF Store

\* A deletion takes the types and the secrets of its own listener only.
LEMMA DeletesOwn ==
  ASSUME RevokingRead, RevokesOwn, NEW c \in calls, NEW T, NEW k,
         \E t \in db.types : t.id = T /\ t.key = k,
         \/ DeleteWebhookType(c) /\ c.type = T
         \/ \E s : DeleteSecret(c, s) /\ db.secrets[s].type = T
  PROVE  c.op = "delete" /\ c.stage = "revoking" /\ c.type = T /\ c.key = k
<1>1. c.op = "delete" /\ c.stage = "revoking" /\ c.type = T
  BY DEF DeleteWebhookType, DeleteSecret, RevokesOwn
<1>2. QED
  BY <1>1 DEF RevokingRead

LEMMA MakesKeptStep ==
  ASSUME Known, MakesKept, [Next]_vars
  PROVE  MakesKept'
<1>k. /\ TypeInv /\ Numbered /\ TypeIds /\ Overlapped /\ RevokingRead /\ NewSecrets /\ RevokesOwn
      /\ exempt \subseteq exempt'
  BY ClicksGrow DEF Known, OrphanInv, StatusInv, HandlerInv
<1>n. \A c \in calls : c \in Calls /\ c.n \in Nat
  BY <1>k, CallFields, ListenerAssumption DEF TypeInv, N
<1>1. CASE LaterCalls /\ UNCHANGED <<db, exempt>>
  BY <1>1, <1>k, LaterUnanswered DEF MakesKept, Keeps, HasType, StoredFor
<1>2. ASSUME NEW c, Starts(c), UNCHANGED db PROVE MakesKept'
  <2>1. calls' = calls \cup {c} /\ c.n = clicks /\ c.stage = "sent"
    BY <1>2 DEF Starts
  <2>2. Keeps(c)'
    BY <2>1 DEF Keeps
  <2>3. QED
    BY <1>2, <1>k, <2>1, <2>2 DEF MakesKept, Keeps, HasType, StoredFor
<1>3. ASSUME NEW c \in calls, Store(c) PROVE MakesKept'
  <2>1. PICK d : Becomes(c, d)
    BY <1>3, <1>k, StoreMoves
  <2>2. calls' = (calls \ {c}) \cup {d} /\ d.n = c.n /\ d.op = c.op /\ d.stage # "sent"
        /\ c.stage \in Unanswered /\ (c.op \in ByKey => d.key = c.key)
    BY <2>1 DEF Becomes, Moves
  \* Another one of the same listener would overlap with the call that moves.
  <2>3. ASSUME NEW e \in calls, e # c, e.op \in {"create", "mint"}, e.stage \in Unanswered,
               e.n \notin exempt
        PROVE  Keeps(e)'
    <3>0. Keeps(e)
      BY <2>3 DEF MakesKept
    <3>1. ~ (c.op \in ByKey /\ c.key = e.key)
      BY <1>k, <2>2, <2>3 DEF Overlapped, ByKey
    <3>2. ASSUME HasType(e) PROVE HasType(e)'
      <4>1. PICK t \in db.types : t.id = e.type /\ t.key = e.key
        BY <3>2 DEF HasType
      <4>2. ~ (DeleteWebhookType(c) /\ c.type = e.type)
        BY <1>k, <3>1, <4>1, DeletesOwn DEF ByKey
      <4>3. t \in db'.types
        BY <1>3, <1>k, <4>1, <4>2, TypesStay
      <4>4. QED
        BY <4>1, <4>3 DEF HasType
    <3>3. ASSUME HasType(e), StoredFor(e) PROVE StoredFor(e)'
      <4>1. ~ DeleteSecret(c, e.n)
        BY <1>k, <3>1, <3>3, DeletesOwn DEF HasType, StoredFor, ByKey
      <4>2. QED
        BY <1>3, <1>k, <3>3, <4>1, SecretStays DEF StoredFor
    <3>4. QED
      BY <3>0, <3>2, <3>3 DEF Keeps
  <2>4. ASSUME c.op \in {"create", "mint"}, c.n \notin exempt PROVE Keeps(d)'
    <3>0. Keeps(c) /\ d.key = c.key /\ c.n \in Nat
      BY <1>n, <2>2, <2>4 DEF MakesKept, ByKey
    <3>1. CASE CreateWebhookType(c) /\ c.stage = "sent" /\ d.stage = "typed" /\ d.type = c.type
      <4>1. c.type = c.n
        BY <1>k, <3>1 DEF CreateWebhookType, TypeIds, Unanswered
      <4>2. \E row \in db'.types : row.id = c.n /\ row.key = c.key
        BY <1>k, <3>1, TypeAdded
      <4>3. QED
        BY <3>0, <3>1, <4>1, <4>2 DEF Keeps, HasType
    <3>2. CASE /\ FindListenerType(c) /\ c.stage = "sent" /\ d.stage = "typed" /\ Found(db, c.key)
               /\ db' = db /\ d.type = NewestType(db, c.key).id
      <4>1. NewestType(db, c.key) \in db.types /\ NewestType(db, c.key).key = c.key
        BY <1>k, <3>2, FoundTypes, TablesFields
      <4>2. QED
        BY <3>0, <3>2, <4>1 DEF Keeps, HasType
    <3>3. CASE StoreSecret(c) /\ d.stage = "served" /\ d.type = c.type
      <4>1. HasType(c)
        BY <3>0, <3>3 DEF Keeps, StoreSecret
      <4>2. db'.types = db.types
        BY <1>k, <3>3, SecretAdded
      <4>3. HasType(d)'
        BY <3>0, <3>3, <4>1, <4>2 DEF HasType
      <4>4. StoredFor(d)'
        <5>1. PICK r : r = [type |-> c.type, active |-> TRUE]
          OBVIOUS
        <5>2. r.type = c.type /\ r.active
          BY <5>1
        <5>3. c.n \in DOMAIN db'.secrets /\ db'.secrets[c.n] = r
          BY <1>k, <3>3, <5>1, SecretAdded
        <5>4. QED
          BY <2>2, <3>3, <5>2, <5>3 DEF StoredFor
      <4>5. QED
        BY <3>3, <4>3, <4>4 DEF Keeps
    <3>4. ~ (DeleteWebhookType(c) \/ UpdateAccountPublicAlias(c) \/ UpdateWebhookIdentityStatus(c))
      BY <2>4 DEF DeleteWebhookType, UpdateAccountPublicAlias, UpdateWebhookIdentityStatus
    <3>5. c.op \in ByKey
      BY <2>4 DEF ByKey
    <3>6. QED
      BY <2>1, <2>4, <3>1, <3>2, <3>3, <3>4, <3>5 DEF Becomes
  <2>5. QED
    BY <1>k, <2>2, <2>3, <2>4 DEF MakesKept
<1>4. QED
  BY <1>1, <1>2, <1>3, <1>k, CallSteps DEF Change, Start

\* The type of a secret, whether a deletion is about to take it, and whether
\* it is gone.
TypeOfSecret(s) == db.secrets[s].type
Deleting(T) == \E c \in calls : c.op = "delete" /\ c.stage = "revoking" /\ c.type = T
Creating(k, T) == \E c \in calls : c.op = "create" /\ c.n = T /\ c.key = k /\ c.stage \in Unanswered
Gone(T) == \A t \in db.types : t.id # T
HasOwnType(k, s) ==
  /\ s \in DOMAIN db.secrets /\ first <= s /\ s < clicks /\ TypeOfSecret(s) < clicks
  /\ \A t \in db.types : t.id = TypeOfSecret(s) => t.key = k
  /\ \A c \in calls : c.op = "create" /\ c.stage = "sent" => c.n # TypeOfSecret(s)
\* Changes under way are later ones, and other types are of creations under way.
Latest(k, s) ==
  /\ \A c \in calls : c.op \in ByKey /\ c.key = k /\ c.stage \in Unanswered => s < c.n
  /\ \A t \in db.types : t.key = k => t.id = TypeOfSecret(s) \/ Creating(k, t.id)
\* It is revoked by a deletion that takes its type.
LeavesWith(s) == db.secrets[s].active \/ Deleting(TypeOfSecret(s)) \/ Gone(TypeOfSecret(s))
Current(k, s) == HasOwnType(k, s) /\ Latest(k, s) /\ LeavesWith(s)
ShownInv ==
  faults = 0 =>
    \A k \in Keys \ doubled : \A u \in secretMap[k] :
      u.secret \notin exempt => Current(k, u.secret)

\* With nothing failed, a creation is under way until its answer, and a
\* deletion revokes until it removes its type.
LEMMA StaysUnderWay ==
  ASSUME TypeInv, OwnInv, [Next]_vars, faults' = 0, NEW x \in calls
  PROVE  /\ x.op = "create" /\ x.stage \in Unanswered /\ ~ AnswerCreate(x) /\ ~ Left(x) =>
              \E d \in calls' : d.op = "create" /\ d.n = x.n /\ d.key = x.key /\ d.stage \in Unanswered
         /\ x.op = "delete" /\ x.stage = "revoking" /\ ~ DeleteWebhookType(x) =>
              \E d \in calls' : d.op = "delete" /\ d.stage = "revoking" /\ d.type = x.type
<1>0. "revoking" \in Unanswered
  BY DEF Unanswered
<1>1. CASE x \in calls'
  BY <1>1
<1>2. CASE User \/ UNCHANGED vars
  <2>1. Leave /\ x.stage \in Unanswered => x \in calls'
    BY DEF Leave
  <2>2. ~ Leave => calls \subseteq calls'
    BY <1>2, UserStarts DEF Starts, RefreshButton, Return, vars
  <2>3. QED
    BY <1>0, <1>1, <2>1, <2>2
<1>3. ASSUME NEW c \in calls, Store(c), x # c PROVE x \in calls'
  BY <1>3, StoreMovesCall
<1>4. CASE Store(x)
  <2>1. PICK d : Becomes(x, d)
    BY <1>4, StoreMoves
  <2>2. d \in calls' /\ d.n = x.n /\ d.op = x.op /\ d.stage \in Unanswered
        /\ (x.op \in ByKey => d.key = x.key)
    BY <2>1 DEF Becomes, Moves
  <2>3. x.op = "delete" /\ x.stage = "revoking" /\ ~ DeleteWebhookType(x) =>
          d.stage = "revoking" /\ d.type = x.type
    <3>1. x.op = "delete" /\ x.stage = "revoking" =>
            ~ (StoreSecret(x) \/ UpdateAccountPublicAlias(x) \/ UpdateWebhookIdentityStatus(x))
      BY DEF StoreSecret, UpdateAccountPublicAlias, UpdateWebhookIdentityStatus
    <3>2. QED
      BY <2>1, <3>1 DEF Becomes
  <2>4. QED
    BY <2>2, <2>3 DEF ByKey
<1>5. ASSUME NEW c \in calls, Answer(c), x # c PROVE x \in calls'
  BY <1>5, AnswerMovesCall
<1>6. CASE Answer(x)
  <2>1. CallFails(x) => x.stage = "sent" /\ x.op # "create"
    BY DEF CallFails, Refused, Fault, TypeInv, PastType
  <2>2. Refreshed(x) => x.stage \notin Unanswered
    BY DEF Refreshed, Unanswered
  <2>3. x.op = "create" /\ x.stage \in Unanswered /\ ~ Left(x) => AnswerCreate(x)
    BY <1>6, <2>1, <2>2 DEF Answer, AnswerMint, AnswerDelete, AnswerAlias, AnswerStatus, AnswerLeft
  <2>4. ~ (x.op = "delete" /\ x.stage = "revoking")
    BY <1>0, <1>6, <2>1, <2>2
       DEF Answer, AnswerCreate, AnswerMint, AnswerDelete, AnswerAlias, AnswerStatus, AnswerLeft
  <2>5. QED
    BY <2>3, <2>4
<1>7. CASE ReadStep /\ x.stage \in Unanswered
  <2>1. \A l : x.stage # Awaits(l)
    BY <1>7, AwaitsStages DEF LaterStages, Unanswered
  <2>2. x \in calls'
    BY <1>7, <2>1, ReadMovesCall DEF ReadStep
  <2>3. QED
    BY <1>1, <2>2
<1>8. QED
  BY <1>0, <1>1, <1>2, <1>3, <1>4, <1>5, <1>6, <1>7 DEF Next, CallStep

\* A secret whose answer comes is the latest of its listener.
LEMMA AnswerShows ==
  ASSUME Known, TabType, Single, MakesKept, NEW c \in calls, AnswerCreate(c) \/ AnswerMint(c),
         c.n \notin exempt, c.key \notin doubled
  PROVE  Current(c.key, c.n)'
<1>k. /\ TypeInv /\ Numbered /\ TypeIds /\ Overlapped /\ RevokingRead
      /\ c \in Calls /\ c.n \in Nat /\ \A t \in db.types : t.id \in Nat
  BY CallFields, TablesFields, ListenerAssumption
     DEF Known, OrphanInv, TypeInv, TypeRow, N
<1>1. /\ c.op \in {"create", "mint"} /\ c.op \in ByKey /\ c.stage = "served" /\ c.stage \in Unanswered
      /\ db' = db /\ clicks' = clicks
      /\ \E stage \in LaterStages : Goes(c.n, stage)
  BY DEF AnswerCreate, AnswerMint, Unanswered, LaterStages, ByKey
<1>2. HasType(c) /\ StoredFor(c)
  BY <1>1 DEF MakesKept, Keeps
<1>3. PICK row \in db.types : row.id = c.type /\ row.key = c.key
  BY <1>2 DEF HasType
<1>4. /\ \A t \in db.types : t.key = c.key => t = row
      /\ \A t \in db.types : t.id = c.type => t = row
      /\ c.type < clicks
  BY <1>3, <1>k DEF Single, TypeIds
<1>5. ASSUME NEW x \in calls', x.stage \in Unanswered PROVE x \in calls /\ x # c
  <2>1. PICK stage \in LaterStages : Goes(c.n, stage)
    BY <1>1
  <2>2. LaterCalls /\ stage \in Stages /\ stage \notin Unanswered
    BY <2>1, GoesLater DEF LaterStages, Stages, Unanswered
  <2>3. x \in calls
    BY <1>k, <1>5, <2>2, LaterUnanswered
  <2>4. PICK y \in calls : x = IF y.n = c.n THEN [y EXCEPT !.stage = stage] ELSE y
    BY <2>1 DEF Goes
  <2>5. y.n = c.n => x.stage = stage
    BY <1>k, <2>2, <2>4, StageType DEF TypeInv
  <2>6. QED
    BY <1>5, <2>2, <2>3, <2>4, <2>5
<1>6. ASSUME NEW x \in calls', x.stage \in Unanswered, x.op \in ByKey PROVE x.key # c.key
  BY <1>k, <1>1, <1>5, <1>6 DEF Overlapped
<1>7. /\ c.n \in DOMAIN db.secrets /\ db.secrets[c.n].type = c.type /\ db.secrets[c.n].active
  BY <1>2 DEF StoredFor
<1>8. HasOwnType(c.key, c.n)'
  <2>1. \A x \in calls' : x.op = "create" /\ x.stage = "sent" => x.n # c.type
    BY <1>k, <1>3, <1>5 DEF TypeIds, Unanswered
  <2>2. c.n < clicks
    BY <1>k DEF Numbered
  <2>3. first <= c.n
    BY <1>k DEF AnswerCreate, AnswerMint, Left, TabType
  <2>4. first' = first
    BY DEF AnswerCreate, AnswerMint, tab
  <2>5. QED
    BY <1>1, <1>3, <1>4, <1>7, <2>1, <2>2, <2>3, <2>4 DEF HasOwnType, TypeOfSecret
<1>9. Latest(c.key, c.n)'
  BY <1>1, <1>3, <1>4, <1>6, <1>7 DEF Latest, TypeOfSecret
<1>10. LeavesWith(c.n)'
  BY <1>1, <1>7 DEF LeavesWith
<1>11. QED
  BY <1>8, <1>9, <1>10 DEF Current

LEMMA CurrentStep ==
  ASSUME Known, TabType, [Next]_vars, ~ Leave, faults' = 0, NEW k \in Keys, NEW s, Current(k, s),
         \A c \in calls : AnswerCreate(c) => c.key # k
  PROVE  Current(k, s)'
<1>0. PICK T : T = TypeOfSecret(s)
  OBVIOUS
<1>k. /\ TypeInv /\ Numbered /\ TypeIds /\ Overlapped /\ RevokingRead /\ OwnInv
      /\ NewSecrets /\ RevokesOwn
      /\ clicks \in Nat /\ clicks' \in Nat /\ clicks <= clicks'
  BY ClicksGrow DEF Known, OrphanInv, StatusInv, HandlerInv
<1>n. /\ \A c \in calls : c \in Calls /\ c.n \in Nat
      /\ \A t \in db.types : t.id \in Nat
      /\ s \in Nat /\ T \in Nat /\ T < clicks /\ s < clicks /\ s \in DOMAIN db.secrets
      /\ first \in Nat /\ first <= s /\ first' = first
  <2>1. s \in DOMAIN db.secrets /\ s < clicks /\ T < clicks /\ first <= s
    BY <1>0 DEF Current, HasOwnType
  <2>2. first \in Nat
    BY DEF TabType
  <2>3. first' = first
    BY TabStep DEF tab, Return
  <2>4. QED
    BY <1>0, <1>k, <2>1, <2>2, <2>3, CallFields, TablesFields, ListenerAssumption
       DEF TypeInv, TypeRow, N, TypeOfSecret
<1>u. UNCHANGED db \/ \E c \in calls : Store(c)
  BY <1>k, CallSteps DEF Change, Start
\* The secret keeps its type; it is revoked by a deletion of its type only.
<1>s. /\ s \in DOMAIN db'.secrets /\ TypeOfSecret(s)' = T
      /\ db'.secrets[s].active => db.secrets[s].active
      /\ \/ db.secrets[s].active => db'.secrets[s].active
         \/ \E c \in calls : DeleteSecret(c, s)
  <2>1. CASE UNCHANGED db
    BY <1>0, <1>n, <2>1 DEF TypeOfSecret
  <2>2. ASSUME NEW c \in calls, Store(c)
        PROVE  /\ s \in DOMAIN db'.secrets /\ TypeOfSecret(s)' = T
               /\ db'.secrets[s].active => db.secrets[s].active
               /\ db.secrets[s].active => db'.secrets[s].active \/ DeleteSecret(c, s)
    BY <1>0, <1>k, <1>n, <2>2, SecretStays DEF TypeOfSecret
  <2>3. QED
    BY <1>u, <2>1, <2>2
\* New types are those of creations under way, new calls those of a click.
<1>t. ASSUME NEW t \in db'.types, t \notin db.types
      PROVE  \E c \in calls : /\ Store(c) /\ CreateWebhookType(c) /\ c.op = "create"
                              /\ c.stage = "sent" /\ t.id = c.n /\ t.key = c.key
  BY <1>t, <1>k, <1>u, TypeRows DEF CreateWebhookType
<1>c. ASSUME NEW d \in calls', d.stage \in Unanswered
      PROVE  \/ d \in calls \/ (d.n = clicks /\ d.stage = "sent")
             \/ \E c \in calls : Store(c) /\ Becomes(c, d)
  <2>1. LaterCalls => d \in calls
    BY <1>c, <1>k, LaterUnanswered
  <2>2. ASSUME NEW c, Starts(c) PROVE d \in calls \/ (d.n = clicks /\ d.stage = "sent")
    BY <2>2 DEF Starts
  <2>3. ASSUME NEW c \in calls, Store(c) PROVE d \in calls \/ Becomes(c, d)
    <3>1. PICK e : Becomes(c, e)
      BY <1>k, <2>3, StoreMoves
    <3>2. d \in calls \/ d = e
      BY <3>1 DEF Becomes, Moves
    <3>3. QED
      BY <3>1, <3>2
  <2>4. QED
    BY <1>k, <2>1, <2>2, <2>3, CallSteps
<1>1. HasOwnType(k, s)'
  <2>1. ASSUME NEW t \in db'.types, t.id = T PROVE t.key = k
    <3>1. t \in db.types
      BY <1>0, <1>t, <2>1 DEF Current, HasOwnType
    <3>2. QED
      BY <1>0, <2>1, <3>1 DEF Current, HasOwnType
  <2>2. ASSUME NEW d \in calls', d.op = "create", d.stage = "sent" PROVE d.n # T
    <3>1. d.stage \in Unanswered /\ \A c \in calls : ~ Becomes(c, d)
      BY <2>2 DEF Unanswered, Becomes
    <3>2. d \in calls \/ d.n = clicks
      BY <1>c, <3>1
    <3>3. QED
      BY <1>0, <1>n, <2>2, <3>2, <1>k DEF Current, HasOwnType
  <2>3. QED
    BY <1>0, <1>k, <1>n, <1>s, <2>1, <2>2 DEF HasOwnType
<1>2. Latest(k, s)'
  <2>1. ASSUME NEW d \in calls', d.op \in ByKey, d.key = k, d.stage \in Unanswered PROVE s < d.n
    <3>1. CASE d \in calls
      BY <1>0, <2>1, <3>1 DEF Current, Latest
    <3>2. CASE d.n = clicks
      BY <1>n, <3>2
    <3>3. ASSUME NEW c \in calls, Becomes(c, d) PROVE s < d.n
      BY <1>0, <2>1, <3>3 DEF Current, Latest, Becomes
    <3>4. QED
      BY <1>c, <2>1, <3>1, <3>2, <3>3
  <2>2. ASSUME NEW T1, Creating(k, T1) PROVE Creating(k, T1)'
    <3>1. PICK x \in calls : x.op = "create" /\ x.n = T1 /\ x.key = k /\ x.stage \in Unanswered
      BY <2>2 DEF Creating
    <3>2. ~ AnswerCreate(x) /\ ~ Left(x)
      <4>1. s < x.n /\ x.n \in Nat
        BY <1>n, <3>1 DEF Current, Latest, ByKey
      <4>2. QED
        BY <1>n, <3>1, <4>1 DEF Left
    <3>3. PICK d \in calls' : d.op = "create" /\ d.n = x.n /\ d.key = x.key /\ d.stage \in Unanswered
      BY <1>k, <3>1, <3>2, StaysUnderWay
    <3>4. QED
      BY <3>1, <3>3 DEF Creating
  <2>3. ASSUME NEW t \in db'.types, t.key = k PROVE t.id = T \/ Creating(k, t.id)'
    <3>1. t.id = T \/ Creating(k, t.id)
      <4>1. CASE t \in db.types
        BY <1>0, <2>3, <4>1 DEF Current, Latest
      <4>2. CASE t \notin db.types
        BY <1>t, <2>3, <4>2 DEF Creating, Unanswered
      <4>3. QED
        BY <4>1, <4>2
    <3>2. QED
      BY <2>2, <3>1
  <2>4. QED
    BY <1>0, <1>s, <2>1, <2>3 DEF Latest
<1>3. LeavesWith(s)'
  <2>1. Deleting(T) /\ ~ Deleting(T)' => Gone(T)'
    <3>1. SUFFICES ASSUME Deleting(T), ~ Deleting(T)' PROVE Gone(T)'
      OBVIOUS
    <3>2. PICK x \in calls : x.op = "delete" /\ x.stage = "revoking" /\ x.type = T
      BY <3>1 DEF Deleting
    <3>3. DeleteWebhookType(x)
      BY <1>k, <3>1, <3>2, StaysUnderWay DEF Deleting
    <3>4. QED
      BY <1>k, <3>2, <3>3, TypeRemoved DEF Gone
  <2>2. Gone(T) => Gone(T)'
    BY <1>0, <1>t DEF Gone, Current, HasOwnType
  <2>3. ASSUME ~ (db.secrets[s].active => db'.secrets[s].active) PROVE Deleting(T)
    BY <1>0, <1>s, <2>3, <1>k DEF DeleteSecret, RevokesOwn, TypeOfSecret, Deleting
  <2>4. db.secrets[s].active \/ Deleting(T) \/ Gone(T)
    BY <1>0 DEF Current, LeavesWith
  <2>5. db'.secrets[s].active \/ Deleting(T)' \/ Gone(T)'
    BY <2>1, <2>2, <2>3, <2>4
  <2>6. QED
    BY <1>0, <1>s, <2>5 DEF LeavesWith
<1>4. QED
  BY <1>0, <1>1, <1>2, <1>3 DEF Current

\* What was made here is what there was, or what this answer brings.
LEMMA MadeStep ==
  ASSUME TypeInv, [Next]_vars, NEW k \in Keys, NEW u \in secretMap'[k]
  PROVE  \/ \E c \in calls : /\ AnswerCreate(c) \/ AnswerMint(c)
                             /\ c.key = k /\ u.secret = c.n
         \/ u \in secretMap[k] /\ ~ Leave /\ \A c \in calls : AnswerCreate(c) => c.key # k
<1>0. ~ Leave
  <2>1. Leave => secretMap'[k] = {}
    BY DEF Leave
  <2>2. QED
    BY <2>1
<1>1. ASSUME NEW c \in calls, AnswerCreate(c) \/ AnswerMint(c)
      PROVE  \/ c.key = k /\ u.secret = c.n
             \/ u \in secretMap[k] /\ c.key # k
  <2>1. secretMap' = [secretMap EXCEPT ![c.key] = {[secret |-> c.n, alias |-> c.alias]}]
    BY <1>1 DEF AnswerCreate, AnswerMint, Minted
  <2>2. secretMap \in [Keys -> SUBSET Url]
    BY DEF TypeInv, ScreenType
  <2>3. QED
    BY <2>1, <2>2
<1>2. ASSUME \A c \in calls : ~ AnswerCreate(c) /\ ~ AnswerMint(c) PROVE secretMap' = secretMap
  <2>1. User => secretMap' = secretMap
    BY <1>0 DEF User, CreateListener, CreateSecret, DeleteListener, Change, UpdatePublicAlias,
           ChangeIdentityStatus, RefreshButton, Return, screen
  <2>2. (\E c \in calls : Store(c)) => secretMap' = secretMap
    BY StoreFrame DEF screen
  <2>3. (\E c \in calls : Answer(c)) => secretMap' = secretMap
    BY <1>2 DEF Answer, AnswerDelete, AnswerAlias, AnswerStatus, AnswerLeft, CallFails, Refreshed, screen
  <2>4. ReadStep => secretMap' = secretMap
    BY DEF ReadStep, AnswerListeners, AnswerIdentities, AnswerSecrets, FailRead
  <2>5. UNCHANGED vars => secretMap' = secretMap
    BY DEF vars, screen
  <2>6. QED
    BY <2>1, <2>2, <2>3, <2>4, <2>5 DEF Next, CallStep
<1>3. QED
  BY <1>0, <1>1, <1>2

LEMMA ShownInvHolds == Spec => [](Single /\ MakesKept /\ ShownInv)
<1>1. ASSUME Init PROVE Single /\ MakesKept /\ ShownInv
  <2>1. calls = {} /\ secretMap = [k \in Keys |-> {}]
    BY <1>1 DEF Init
  <2>2. PICK row : db.types = {row}
    BY <1>1 DEF Init
  <2>3. QED
    BY <2>1, <2>2 DEF Single, MakesKept, ShownInv
<1>2. Known /\ TabType /\ Single /\ MakesKept /\ ShownInv /\ [Next]_vars
        => Single' /\ MakesKept' /\ ShownInv'
  <2>1. SUFFICES ASSUME Known, TabType, Single, MakesKept, ShownInv, [Next]_vars PROVE ShownInv'
    BY MakesKeptStep, SingleStep DEF Known
  <2>2. SUFFICES ASSUME faults' = 0, NEW k \in Keys, k \notin doubled', NEW u \in secretMap'[k],
                        u.secret \notin exempt'
                 PROVE  Current(k, u.secret)'
    BY DEF ShownInv
  <2>3. TypeInv /\ faults = 0 /\ u.secret \notin exempt /\ k \notin doubled
    BY <2>1, <2>2, FaultsGrow, ClicksGrow, DoubledGrows DEF Known
  <2>4. ASSUME NEW c \in calls, AnswerCreate(c) \/ AnswerMint(c), c.key = k, u.secret = c.n
        PROVE  Current(k, u.secret)'
    BY <2>1, <2>3, <2>4, AnswerShows
  <2>5. ASSUME u \in secretMap[k], ~ Leave, \A c \in calls : AnswerCreate(c) => c.key # k
        PROVE  Current(k, u.secret)'
    <3>1. Current(k, u.secret)
      BY <2>1, <2>3, <2>5 DEF ShownInv
    <3>2. QED
      BY <2>1, <2>2, <2>5, <3>1, CurrentStep
  <2>6. QED
    BY <2>1, <2>3, <2>4, <2>5, MadeStep
<1>3. QED
  BY <1>1, <1>2, KnownHolds, TabHolds, PTL DEF Spec

\* The secret whose URL is shown because it was made here is not a revoked
\* one, once the tab has settled: with no creation under way the listeners of
\* its key have its type (Current), and with no deletion under way a secret
\* that was revoked has lost its type.
THEOREM ShownSecretActiveHolds == Spec => []ShownSecretActive
<1>1. ASSUME Known, ListInv, ShownInv PROVE ShownSecretActive
  <2>1. SUFFICES ASSUME calls = {}, reads = {}, faults = 0, upToDate["listeners"],
                        NEW t \in listeners, t.key \notin doubled,
                        NEW u \in secretMap[t.key], u.secret \notin exempt
                 PROVE  db.secrets[u.secret].active
    BY DEF ShownSecretActive
  <2>2. ~ ListenersDue /\ ~ NewestSent("listeners")
    BY <2>1 DEF ListenersDue, NewestSent
  <2>3. listeners = db.types
    BY <1>1, <2>1, <2>2 DEF ListInv, Fresh, Displays, Shown
  <2>4. t.key \in Keys /\ t \in db.types
    BY <1>1, <2>1, <2>3, TablesFields DEF Known, TypeRow
  <2>5. Current(t.key, u.secret)
    BY <1>1, <2>1, <2>4 DEF ShownInv
  <2> DEFINE T == TypeOfSecret(u.secret)
  <2>6. ~ Deleting(T) /\ ~ Creating(t.key, t.id)
    BY <2>1 DEF Deleting, Creating
  <2>7. t.id = T
    BY <2>4, <2>5, <2>6 DEF Current, Latest
  <2>8. ~ Gone(T)
    BY <2>4, <2>7 DEF Gone
  <2>9. QED
    BY <2>5, <2>6, <2>8 DEF Current, LeavesWith
<1>2. QED
  BY <1>1, KnownHolds, ListInvHolds, ShownInvHolds, PTL
=============================================================================
