------------------------- MODULE ConsoleSessionProofs -------------------------
(***************************************************************************)
(* Proofs about ConsoleSession, for any number of clicks and of failures.  *)
(***************************************************************************)
EXTENDS ConsoleSession, TLAPS

(***************************************************************************)
(* Type correctness.                                                       *)
(***************************************************************************)
Cookies == Numbers \cup {NoToken}
Boots == [op : {"boot"}, page : Numbers, stage : {"profile", "user"}]
Logins ==
  [op : {"login"}, n : Numbers, page : Numbers, mount : Nat,
   stage : {"sent", "served", "refused", "user"}]
WriteOps == {"create", "revoke", "alias"}
WriteCalls ==
  [op : WriteOps, n : Numbers, page : Numbers, mount : Nat, with : Cookies, token : Cookies,
   stage : {"sent", "served", "refused", "listing"}]
ListCalls ==
  [op : {"list"}, page : Numbers, mount : Nat, with : Cookies, newest : BOOLEAN,
   stage : {"sent", "served", "refused"}, got : SUBSET Numbers]
Calls == Boots \cup Logins \cup WriteCalls \cup ListCalls

AuthType ==
  /\ loading \in BOOLEAN /\ user \in {"none", "full", "bare"} /\ isAuthenticated \in BOOLEAN
  /\ profile \in {"default", "server"} /\ error \in BOOLEAN
ScreenType ==
  /\ tab \in Tabs /\ mount \in Nat /\ list \subseteq Numbers /\ shown \in Cookies
ServerType ==
  /\ mode \in {"multitenant", "single_tenant"} /\ tokens \subseteq Numbers
PageType == cookie \in Cookies /\ away \in BOOLEAN /\ page \in Numbers
PastType == asked \in {"in", "out", "revoked"} /\ missed \in BOOLEAN /\ upToDate \in BOOLEAN
CountType == clicks \in 1..MaxClicks /\ faults \in 0..MaxFaults
TypeInv ==
  /\ AuthType /\ ScreenType /\ ServerType /\ PageType /\ PastType /\ CountType
  /\ calls \subseteq Calls

LEMMA CallSets ==
  \A c \in Calls : /\ c.op = "boot" => c \in Boots
                   /\ c.op = "login" => c \in Logins
                   /\ c.op \in WriteOps => c \in WriteCalls
                   /\ c.op = "list" => c \in ListCalls
                   /\ c.op \in {"boot", "login", "list"} \cup WriteOps
BY DEF Calls, Boots, Logins, WriteCalls, ListCalls, WriteOps

\* A call that has come to another stage.
At(c, stage) == [c EXCEPT !.stage = stage]
LEMMA AtFields ==
  ASSUME NEW c \in Calls, NEW stage
  PROVE  /\ At(c, stage).op = c.op /\ At(c, stage).page = c.page /\ At(c, stage).stage = stage
         /\ c.op # "boot" => At(c, stage).mount = c.mount
         /\ c.op \notin {"boot", "list"} => At(c, stage).n = c.n
         /\ c.op \notin {"boot", "login"} => At(c, stage).with = c.with
         /\ c.op \in WriteOps => At(c, stage).token = c.token
BY CallSets DEF At, Boots, Logins, WriteCalls, ListCalls, WriteOps

LEMMA AtType ==
  ASSUME NEW c \in Calls, NEW stage,
         \/ c.op = "boot" /\ stage = "user"
         \/ c.op = "login" /\ stage \in {"served", "refused", "user"}
         \/ c.op \in WriteOps /\ stage \in {"served", "refused", "listing"}
         \/ c.op = "list" /\ stage = "refused"
  PROVE  At(c, stage) \in Calls
BY CallSets DEF At, Calls, Boots, Logins, WriteCalls, ListCalls, WriteOps

LEMMA NewLists ==
  ASSUME TypeInv, NEW m \in Nat
  PROVE  /\ ListCall(m) \in Calls /\ ListCall(m).op = "list" /\ ListCall(m).mount = m
         /\ ListCall(m).page = page /\ ListCall(m).stage = "sent" /\ ListCall(m).newest
BY DEF ListCall, Calls, ListCalls, TypeInv, PageType

\* What makes lists obsolete keeps the other calls.
LEMMA ObsoleteCalls ==
  ASSUME NEW C \in SUBSET Calls
  PROVE  /\ Obsolete(C) \subseteq Calls
         /\ \A c \in C : c.op # "list" => c \in Obsolete(C)
         /\ \A d \in Obsolete(C) : d \in C \/ d.op = "list"
         /\ \A d \in Obsolete(C) : d.op = "list" => ~ d.newest /\ \E c \in C : c.op = "list" /\ d.mount = c.mount
<1> DEFINE old(c) == [c EXCEPT !.newest = FALSE]
<1>1. ASSUME NEW c \in C, c.op = "list"
      PROVE  old(c) \in Calls /\ old(c).op = "list" /\ ~ old(c).newest /\ old(c).mount = c.mount
  <2>1. c \in ListCalls
    BY <1>1, CallSets
  <2>2. PICK d : d = old(c)
    OBVIOUS
  <2>3. d \in ListCalls /\ d.newest = FALSE /\ d.mount = c.mount
    BY <2>1, <2>2 DEF ListCalls
  <2>4. d.op = "list"
    BY <2>3 DEF ListCalls
  <2>5. QED
    BY <2>2, <2>3, <2>4 DEF Calls
<1>2. Obsolete(C) = {IF c.op = "list" THEN old(c) ELSE c : c \in C}
  BY DEF Obsolete
<1> HIDE DEF old
<1>3. QED
  BY <1>1, <1>2

\* What Show does to the calls and to the component.
LEMMA Shows ==
  ASSUME NEW u, NEW p, NEW t, NEW l, NEW C, Show(u, p, t, l, C)
  PROVE  /\ user' = u /\ profile' = p /\ loading' = l /\ tab' \in {t, "home"}
         /\ IsSingleTenant(u, p) => tab' # "enterprise"
         /\ C \subseteq calls' /\ \A c \in calls' : c \in C \/ c = ListCall(mount + 1)
         /\ \/ calls' = C /\ UNCHANGED <<mount, list, shown, upToDate>>
            \/ mount' = mount + 1 /\ list' = {} /\ shown' = NoToken /\ upToDate' = FALSE
<1>1. tab' = IF IsSingleTenant(u, p) /\ t = "enterprise" THEN "home" ELSE t
  BY DEF Show
<1>2. user' = u /\ profile' = p /\ loading' = l
  BY DEF Show
<1>3. \/ calls' = C /\ UNCHANGED <<mount, list, shown, upToDate>>
      \/ /\ mount' = mount + 1 /\ list' = {} /\ shown' = NoToken /\ upToDate' = FALSE
         /\ calls' = C \cup {ListCall(mount + 1)} \/ calls' = C
  BY DEF Show
<1>4. QED
  BY <1>1, <1>2, <1>3

LEMMA ShowType ==
  ASSUME TypeInv, NEW u \in {"none", "full", "bare"}, NEW p \in {"default", "server"},
         NEW t \in Tabs, NEW l \in BOOLEAN, NEW C \in SUBSET Calls, Show(u, p, t, l, C)
  PROVE  /\ loading' \in BOOLEAN /\ user' \in {"none", "full", "bare"}
         /\ profile' \in {"default", "server"} /\ ScreenType' /\ upToDate' \in BOOLEAN
         /\ calls' \subseteq Calls
<1>1. mount + 1 \in Nat /\ NoToken \in Cookies /\ "home" \in Tabs
  BY DEF TypeInv, ScreenType, Cookies, Tabs
<1>2. ListCall(mount + 1) \in Calls
  BY <1>1, NewLists
<1>3. /\ user' = u /\ profile' = p /\ loading' = l /\ tab' \in {t, "home"}
      /\ \A c \in calls' : c \in C \/ c = ListCall(mount + 1)
      /\ \/ UNCHANGED <<mount, list, shown, upToDate>>
         \/ mount' = mount + 1 /\ list' = {} /\ shown' = NoToken /\ ~ upToDate'
  BY Shows
<1>4. calls' \subseteq Calls
  BY <1>2, <1>3
<1>5. ScreenType'
  BY <1>1, <1>3 DEF TypeInv, ScreenType
<1>6. upToDate' \in BOOLEAN
  BY Zenon DEF Show, TypeInv, PastType
<1>7. QED
  BY <1>3, <1>4, <1>5, <1>6

LEMMA UnservedCalls ==
  /\ Unserved \subseteq calls
  /\ \A c \in Unserved : c.op \in {"login", "create", "revoke"} /\ c.stage = "sent"
BY DEF Unserved

LEMMA LoadType ==
  ASSUME TypeInv, NEW t \in Tabs, NEW failed \in BOOLEAN, Load(t, failed)
  PROVE  AuthType' /\ ScreenType' /\ away' \in BOOLEAN /\ page' \in Numbers /\ missed' \in BOOLEAN
         /\ upToDate' \in BOOLEAN /\ calls' \subseteq Calls
<1>1. clicks \in Numbers /\ mount + 1 \in Nat /\ NoToken \in Cookies
  BY SessionAssumption DEF TypeInv, CountType, Numbers, ScreenType, Cookies
<1>2. Boot(clicks) \in Calls
  BY <1>1 DEF Boot, Calls, Boots
<1>3. QED
  BY <1>1, <1>2, UnservedCalls DEF Load, TypeInv, AuthType, ScreenType

LEMMA StartTabs == \A param \in Params : StartTab(param) \in Tabs
BY DEF StartTab, Params, Tabs

LEMMA InitTypeInv == Init => TypeInv
<1> SUFFICES ASSUME Init PROVE TypeInv
  OBVIOUS
<1>1. tab \in Tabs
  BY StartTabs DEF Init
<1>2. Boot(0) \in Calls /\ {0, NoToken} \subseteq Cookies /\ 0 \in Numbers
  BY SessionAssumption DEF Boot, Calls, Boots, Cookies, Numbers
<1>3. clicks \in 1..MaxClicks /\ faults \in 0..MaxFaults
  BY SessionAssumption DEF Init
<1>4. AuthType /\ ServerType
  BY <1>2 DEF Init, AuthType, ServerType
<1>5. ScreenType /\ PageType /\ calls \subseteq Calls
  BY <1>1, <1>2 DEF Init, ScreenType, PageType
<1>6. PastType
  BY DEF Init, PastType
<1>7. QED
  BY <1>3, <1>4, <1>5, <1>6 DEF TypeInv, CountType

LEMMA CountsGrow ==
  ASSUME TypeInv
  PROVE  /\ Click => clicks' \in 1..MaxClicks /\ ~ away
         /\ Fault => faults' \in 0..MaxFaults
         /\ clicks \in Numbers /\ clicks > 0
BY SessionAssumption DEF TypeInv, CountType, Click, Fault, Numbers

LEMMA WriteFields ==
  ASSUME TypeInv, NEW op \in WriteOps, NEW t \in Cookies
  PROVE  /\ Write(op, t) \in Calls /\ Write(op, t).op = op /\ Write(op, t).n = clicks
         /\ Write(op, t).page = page /\ Write(op, t).mount = mount /\ Write(op, t).with = cookie
         /\ Write(op, t).token = t /\ Write(op, t).stage = "sent"
BY CountsGrow DEF Write, Calls, WriteCalls, TypeInv, PageType, ScreenType

NewLogin == [op |-> "login", n |-> clicks, page |-> page, mount |-> mount, stage |-> "sent"]
LEMMA LoginFields ==
  ASSUME TypeInv
  PROVE  /\ NewLogin \in Calls /\ NewLogin.op = "login" /\ NewLogin.n = clicks
         /\ NewLogin.page = page /\ NewLogin.mount = mount /\ NewLogin.stage = "sent"
BY CountsGrow DEF NewLogin, Calls, Logins, TypeInv, PageType, ScreenType

LEMMA UserType == ASSUME TypeInv, User PROVE TypeInv'
<1>0. /\ Click => clicks' \in 1..MaxClicks
      /\ clicks \in Numbers /\ "home" \in Tabs /\ NoToken \in Cookies /\ calls \in SUBSET Calls
      /\ asked \in {"in", "out", "revoked"} /\ Forgotten \in {"in", "out", "revoked"}
  BY CountsGrow DEF Tabs, Cookies, TypeInv, PastType, Forgotten
<1>1. ASSUME NEW t \in Tabs, PickTab(t) PROVE TypeInv'
  <2>1. Show(user, profile, t, loading, calls) /\ Click
        /\ UNCHANGED <<mode, tokens, cookie, away, page, isAuthenticated, error, faults, asked, missed>>
    BY <1>1 DEF PickTab
  <2>2. /\ loading' \in BOOLEAN /\ user' \in {"none", "full", "bare"}
        /\ profile' \in {"default", "server"} /\ ScreenType' /\ upToDate' \in BOOLEAN
        /\ calls' \subseteq Calls
    BY <1>0, <2>1, ShowType DEF TypeInv, AuthType
  <2>3. QED
    BY <1>0, <2>1, <2>2 DEF TypeInv, AuthType, ServerType, PageType, PastType, CountType
<1>2. CASE Reload
  <2>1. PICK param \in Params : Load(StartTab(param), FALSE)
    BY <1>2 DEF Reload
  <2>2. AuthType' /\ ScreenType' /\ away' \in BOOLEAN /\ page' \in Numbers /\ missed' \in BOOLEAN
        /\ upToDate' \in BOOLEAN /\ calls' \subseteq Calls
    BY <2>1, LoadType, StartTabs
  <2>3. QED
    BY <1>0, <1>2, <2>2 DEF Reload, TypeInv, ServerType, PageType, PastType, CountType
<1>3. CASE SubmitLogin
  <2>1. /\ Click /\ calls' = calls \cup {NewLogin} /\ error' = FALSE
        /\ UNCHANGED <<mode, tokens, cookie, away, page, loading, user, isAuthenticated, profile,
                       screen, faults, past>>
    BY <1>3 DEF SubmitLogin, NewLogin
  <2>2. QED
    BY <1>0, <2>1, LoginFields
       DEF TypeInv, AuthType, ScreenType, ServerType, PageType, PastType, CountType, screen, past
<1>4. CASE LeaveToSignIn
  BY <1>0, <1>4, UnservedCalls
     DEF LeaveToSignIn, TypeInv, AuthType, ScreenType, ServerType, PageType, PastType, CountType, auth,
         screen, past
<1>5. CASE ScaleKitCallback
  <2>1. PICK failed \in BOOLEAN : Load("home", failed)
    BY <1>5 DEF ScaleKitCallback
  <2>2. AuthType' /\ ScreenType' /\ away' \in BOOLEAN /\ page' \in Numbers /\ missed' \in BOOLEAN
        /\ upToDate' \in BOOLEAN /\ calls' \subseteq Calls
    BY <1>0, <2>1, LoadType
  <2>3. tokens' \subseteq Numbers /\ cookie' \in Cookies /\ asked' \in {"in", "out", "revoked"}
    BY <1>0, <1>5 DEF ScaleKitCallback, TypeInv, ServerType, PageType, Cookies
  <2>4. QED
    BY <1>5, <2>2, <2>3 DEF ScaleKitCallback, TypeInv, ServerType, PageType, PastType, CountType
<1>6. CASE ScaleKitLogout
  <2>1. AuthType' /\ ScreenType' /\ away' \in BOOLEAN /\ page' \in Numbers /\ missed' \in BOOLEAN
        /\ upToDate' \in BOOLEAN /\ calls' \subseteq Calls
    BY <1>0, <1>6, LoadType DEF ScaleKitLogout
  <2>2. QED
    BY <1>0, <1>6, <2>1 DEF ScaleKitLogout, TypeInv, ServerType, PageType, PastType, CountType
<1>7. ASSUME NEW op \in WriteOps, NEW t \in Cookies, Click, Send(Write(op, t)) PROVE TypeInv'
  BY <1>0, <1>7, WriteFields
     DEF Send, TypeInv, AuthType, ScreenType, ServerType, PageType, PastType, CountType, auth, screen, past
<1>8. CreateToken \/ (\E t \in list : RevokeToken(t)) \/ SaveAlias => TypeInv'
  <2>1. list \subseteq Cookies
    BY DEF TypeInv, ScreenType, Cookies
  <2>2. QED
    BY <1>0, <1>7, <2>1 DEF CreateToken, RevokeToken, SaveAlias, WriteOps
<1>9. QED
  BY <1>1, <1>2, <1>3, <1>4, <1>5, <1>6, <1>8 DEF User

\* The effects of an answer on what Show changes.
LEMMA ShowStep ==
  ASSUME TypeInv, NEW u \in {"none", "full", "bare"}, NEW p \in {"default", "server"},
         NEW l \in BOOLEAN, NEW C \in SUBSET Calls, Show(u, p, tab, l, C),
         ServerType', PageType', isAuthenticated' \in BOOLEAN, error' \in BOOLEAN,
         asked' \in {"in", "out", "revoked"}, missed' \in BOOLEAN, CountType'
  PROVE  TypeInv'
<1>1. /\ loading' \in BOOLEAN /\ user' \in {"none", "full", "bare"}
      /\ profile' \in {"default", "server"} /\ ScreenType' /\ upToDate' \in BOOLEAN
      /\ calls' \subseteq Calls
  BY ShowType DEF TypeInv, ScreenType
<1>2. QED
  BY <1>1 DEF TypeInv, AuthType, PastType

LEMMA AnswerType ==
  ASSUME TypeInv, NEW c \in calls,
         AnswerProfile(c) \/ FailProfile(c) \/ AnswerUser(c) \/ AnswerLogin(c) \/ AnswerAlias(c)
  PROVE  TypeInv'
<1>0. /\ calls \ {c} \in SUBSET Calls /\ c \in Calls
      /\ Fault => faults' \in 0..MaxFaults
      /\ user \in {"none", "full", "bare"} /\ profile \in {"default", "server"} /\ loading \in BOOLEAN
      /\ isAuthenticated \in BOOLEAN /\ error \in BOOLEAN /\ missed \in BOOLEAN
      /\ asked \in {"in", "out", "revoked"} /\ ServerType /\ PageType /\ CountType
  BY CountsGrow DEF TypeInv, AuthType, PastType
<1>1. CASE AnswerProfile(c)
  <2>1. (calls \ {c}) \cup {At(c, "user")} \in SUBSET Calls
    BY <1>0, <1>1, AtType DEF AnswerProfile
  <2>2. \E p \in {"default", "server"} : Show(user, p, tab, loading, (calls \ {c}) \cup {At(c, "user")})
    BY <1>1 DEF AnswerProfile, At
  <2>3. /\ ServerType' /\ PageType' /\ isAuthenticated' \in BOOLEAN /\ error' \in BOOLEAN
        /\ asked' \in {"in", "out", "revoked"} /\ missed' \in BOOLEAN /\ CountType'
    BY <1>0, <1>1 DEF AnswerProfile, ServerType, PageType, CountType
  <2>4. QED
    BY <1>0, <2>1, <2>2, <2>3, ShowStep
<1>2. CASE FailProfile(c)
  <2>1. Show(user, profile, tab, FALSE, calls \ {c})
    BY <1>2 DEF FailProfile
  <2>2. /\ ServerType' /\ PageType' /\ isAuthenticated' \in BOOLEAN /\ error' \in BOOLEAN
        /\ asked' \in {"in", "out", "revoked"} /\ missed' \in BOOLEAN /\ CountType'
    BY <1>0, <1>2 DEF FailProfile, ServerType, PageType, CountType
  <2>3. FALSE \in BOOLEAN
    OBVIOUS
  <2>4. QED
    BY <1>0, <2>1, <2>2, <2>3, ShowStep, ZenonT(30)
<1>3. CASE AnswerUser(c)
  <2>1. PICK u \in {"none", "full", "bare"} : Show(u, profile, tab, FALSE, calls \ {c})
    <3>1. CASE Show(IF cookie \in tokens THEN "full" ELSE "none", profile, tab, FALSE, calls \ {c})
      BY <3>1
    <3>2. CASE Show("none", profile, tab, FALSE, calls \ {c})
      BY <3>2
    <3>3. \/ Show(IF cookie \in tokens THEN "full" ELSE "none", profile, tab, FALSE, calls \ {c})
          \/ Show("none", profile, tab, FALSE, calls \ {c})
      BY <1>3, Zenon DEF AnswerUser
    <3>4. QED
      BY <3>1, <3>2, <3>3
  <2>2. isAuthenticated' \in BOOLEAN
    <3>1. isAuthenticated' = (cookie \in tokens) \/ isAuthenticated' = FALSE
      BY <1>3, Zenon DEF AnswerUser
    <3>2. (cookie \in tokens) \in BOOLEAN
      OBVIOUS
    <3>3. QED
      BY <3>1, <3>2, Zenon
  <2>3. missed' \in BOOLEAN
    BY <1>0, <1>3 DEF AnswerUser
  <2>4. CountType'
    BY <1>0, <1>3 DEF AnswerUser, CountType
  <2>5. ServerType' /\ PageType' /\ error' \in BOOLEAN /\ asked' \in {"in", "out", "revoked"}
    BY <1>0, <1>3 DEF AnswerUser, ServerType, PageType
  <2>6. ASSUME NEW l \in BOOLEAN, Show(u, profile, tab, l, calls \ {c}) PROVE TypeInv'
    BY <1>0, <2>2, <2>3, <2>4, <2>5, <2>6, ShowStep
  <2>7. FALSE \in BOOLEAN
    OBVIOUS
  <2>8. QED
    BY <2>1, <2>6, <2>7, Zenon
<1>4. CASE AnswerLogin(c)
  <2>1. (calls \ {c}) \cup {At(c, "user")} \in SUBSET Calls
    BY <1>0, <1>4, AtType DEF AnswerLogin
  <2>2. Show(user, "server", tab, loading, (calls \ {c}) \cup {At(c, "user")})
    BY <1>4 DEF AnswerLogin, At
  <2>3. c.n \in Cookies
    BY <1>0, <1>4, CallSets DEF AnswerLogin, Logins, Cookies
  <2>4. /\ ServerType' /\ PageType' /\ isAuthenticated' \in BOOLEAN /\ error' \in BOOLEAN
        /\ asked' \in {"in", "out", "revoked"} /\ missed' \in BOOLEAN /\ CountType'
    BY <1>0, <1>4, <2>3 DEF AnswerLogin, ServerType, PageType, CountType
  <2>5. QED
    BY <1>0, <2>1, <2>2, <2>4, ShowStep
<1>5. CASE AnswerAlias(c)
  <2>1. Show("bare", profile, tab, loading, calls \ {c})
    BY <1>5 DEF AnswerAlias
  <2>2. /\ ServerType' /\ PageType' /\ isAuthenticated' \in BOOLEAN /\ error' \in BOOLEAN
        /\ asked' \in {"in", "out", "revoked"} /\ missed' \in BOOLEAN /\ CountType'
    BY <1>0, <1>5 DEF AnswerAlias, ServerType, PageType, CountType
  <2>3. QED
    BY <1>0, <2>1, <2>2, ShowStep
<1>6. QED
  BY <1>1, <1>2, <1>3, <1>4, <1>5

\* What a write of token w leaves in flight.
LEMMA RestCalls ==
  ASSUME TypeInv, NEW c \in calls, NEW w
  PROVE  /\ Rest(c, w) \subseteq Calls
         /\ \A d \in Rest(c, w) : d \in calls \ {c} \/ d.op = "list"
         /\ \A d \in calls \ {c} : d.op # "list" => d \in Rest(c, w)
         /\ w = tokens \/ ~ Foreign(c) => Rest(c, w) = calls \ {c}
         /\ w # tokens /\ Foreign(c) => \A d \in Rest(c, w) : d.op = "list" => ~ d.newest
         /\ \A d \in Rest(c, w) : d.op = "list" => \E x \in calls : x.op = "list" /\ d.mount = x.mount
<1>1. calls \ {c} \in SUBSET Calls
  BY DEF TypeInv
<1>2. QED
  BY <1>1, ObsoleteCalls DEF Rest

LEMMA ServeType ==
  ASSUME TypeInv, NEW c \in calls, SingleTenantLogin(c) \/ ServeWrite(c) \/ ServeList(c)
  PROVE  TypeInv'
<1>0. c \in Calls /\ AuthType /\ ScreenType /\ ServerType /\ PageType /\ PastType /\ CountType
  BY DEF TypeInv
<1>1. CASE SingleTenantLogin(c)
  <2>1. \A stage \in {"served", "refused"} : Continues(c, stage) \subseteq Calls
    BY <1>0, <1>1, AtType DEF SingleTenantLogin, Continues, At
  <2>2. calls' \subseteq Calls
    BY <1>1, <2>1, RestCalls DEF SingleTenantLogin, TypeInv
  <2>3. c.n \in Numbers
    BY <1>0, <1>1, CallSets DEF SingleTenantLogin, Logins
  <2>4. tokens' \subseteq Numbers
    BY <1>0, <1>1, <2>3 DEF SingleTenantLogin, ServerType
  <2>5. upToDate' \in BOOLEAN
    BY <1>0, <1>1 DEF SingleTenantLogin, Serve, PastType
  <2>6. QED
    BY <1>0, <1>1, <2>2, <2>4, <2>5
       DEF SingleTenantLogin, TypeInv, AuthType, ScreenType, ServerType, PageType, PastType, CountType,
           auth, screen
<1>2. CASE ServeWrite(c)
  <2>1. \A stage \in {"served", "refused"} : Continues(c, stage) \subseteq Calls
    BY <1>0, <1>2, AtType DEF ServeWrite, Continues, At, WriteOps
  <2>2. calls' \subseteq Calls
    BY <1>2, <2>1, RestCalls DEF ServeWrite
  <2>3. c.n \in Numbers
    BY <1>0, <1>2, CallSets DEF ServeWrite, WriteCalls, WriteOps
  <2>4. tokens' \subseteq Numbers
    BY <1>0, <1>2, <2>3 DEF ServeWrite, Written, ServerType
  <2>5. upToDate' \in BOOLEAN
    BY <1>0, <1>2 DEF ServeWrite, Serve, PastType
  <2>6. asked' \in {"in", "out", "revoked"}
    BY <1>0, <1>2 DEF ServeWrite, PastType
  <2>7. QED
    BY <1>0, <1>2, <2>2, <2>4, <2>5, <2>6
       DEF ServeWrite, TypeInv, AuthType, ScreenType, ServerType, PageType, PastType, CountType,
           auth, screen
<1>3. CASE ServeList(c)
  <2>1. c \in ListCalls
    BY <1>0, <1>3, CallSets DEF ServeList
  <2>2. [c EXCEPT !.stage = "served", !.got = tokens] \in Calls
    BY <1>0, <2>1 DEF ServerType, Calls, ListCalls
  <2>3. At(c, "refused") \in Calls
    BY <1>0, <1>3, AtType DEF ServeList
  <2>4. QED
    BY <1>0, <1>3, <2>2, <2>3
       DEF ServeList, At, TypeInv, AuthType, ScreenType, ServerType, PageType, PastType, CountType,
           auth, screen, past
<1>4. QED
  BY <1>1, <1>2, <1>3

LEMMA MineType ==
  ASSUME TypeInv, NEW c \in calls,
         LoginRefused(c) \/ AnswerCreate(c) \/ AnswerRevoke(c) \/ WriteFails(c) \/ AnswerList(c) \/ Drop(c)
  PROVE  TypeInv'
<1>0. /\ c \in Calls /\ AuthType /\ ScreenType /\ ServerType /\ PageType /\ PastType /\ CountType
      /\ Fault => faults' \in 0..MaxFaults
      /\ calls \ {c} \in SUBSET Calls
      /\ ListCall(mount) \in Calls
  BY NewLists, CountsGrow DEF TypeInv, ScreenType
<1>1. CASE LoginRefused(c)
  BY <1>0, <1>1 DEF LoginRefused, TypeInv, AuthType, ScreenType, ServerType, PageType, PastType, CountType,
     screen, past
<1>2. CASE AnswerCreate(c)
  <2>1. At(c, "listing") \in Calls /\ c.n \in Cookies
    BY <1>0, <1>2, AtType, CallSets DEF AnswerCreate, WriteOps, WriteCalls, Cookies
  <2>2. calls' \subseteq Calls
    BY <1>0, <1>2, <2>1, ObsoleteCalls DEF AnswerCreate, At
  <2>3. QED
    BY <1>0, <1>2, <2>1, <2>2
       DEF AnswerCreate, TypeInv, AuthType, ScreenType, ServerType, PageType, PastType, CountType, auth, past
<1>3. CASE AnswerRevoke(c)
  <2>1. calls' \subseteq Calls
    BY <1>0, <1>3, ObsoleteCalls DEF AnswerRevoke
  <2>2. QED
    BY <1>0, <1>3, <2>1
       DEF AnswerRevoke, TypeInv, AuthType, ScreenType, ServerType, PageType, PastType, CountType, auth,
           screen, past
<1>4. CASE WriteFails(c)
  <2>1. calls' \subseteq Calls
    BY <1>0, <1>4, ObsoleteCalls DEF WriteFails
  <2>2. upToDate' \in BOOLEAN
    BY <1>0, <1>4 DEF WriteFails, PastType
  <2>3. CountType'
    BY <1>0, <1>4 DEF WriteFails, CountType
  <2>4. QED
    BY <1>0, <1>4, <2>1, <2>2, <2>3
       DEF WriteFails, TypeInv, AuthType, ScreenType, ServerType, PageType, PastType, auth, screen
<1>5. CASE AnswerList(c)
  <2>1. c \in ListCalls
    BY <1>0, <1>5, CallSets DEF AnswerList
  <2>2. list' \subseteq Numbers /\ upToDate' \in BOOLEAN
    BY <1>0, <1>5, <2>1 DEF AnswerList, ListCalls, ScreenType
  <2>3. CountType'
    BY <1>0, <1>5 DEF AnswerList, CountType
  <2>4. calls' \subseteq Calls
    BY <1>0, <1>5 DEF AnswerList, Listed
  <2>5. QED
    BY <1>0, <1>5, <2>2, <2>3, <2>4
       DEF AnswerList, TypeInv, AuthType, ScreenType, ServerType, PageType, PastType, auth
<1>6. CASE Drop(c)
  BY <1>0, <1>6 DEF Drop, TypeInv, AuthType, ScreenType, ServerType, PageType, PastType, CountType, auth,
     screen, past
<1>7. QED
  BY <1>1, <1>2, <1>3, <1>4, <1>5, <1>6

LEMMA NextTypeInv == ASSUME TypeInv, [Next]_vars PROVE TypeInv'
<1>1. CASE UNCHANGED vars
  BY <1>1 DEF vars, auth, screen, past, TypeInv, AuthType, ScreenType, ServerType, PageType, PastType,
     CountType
<1>2. QED
  BY <1>1, UserType, AnswerType, ServeType, MineType DEF Next, CallStep

LEMMA TypeInvHolds == Spec => []TypeInv
BY InitTypeInv, NextTypeInv, PTL DEF Spec

\* The variables keep their types for any number of clicks: an unknown ?tab=
\* of the address is no tab, and every number is that of a click.
THEOREM TypeCorrect == Spec => []TypeOK
<1>1. TypeInv => TypeOK
  BY CallSets DEF TypeInv, TypeOK, AuthType, ScreenType, ServerType, PageType, CountType, Cookies, WriteOps
<1>2. QED
  BY <1>1, TypeInvHolds, PTL

---------------------------------------------------------------------------
(***************************************************************************)
(* The numbers of clicks tell calls, pages and sessions apart.             *)
(***************************************************************************)
NumOps == {"login"} \cup WriteOps
PageNumbers ==
  page <= clicks /\ (away => page < clicks) /\ (cookie \in Numbers => cookie < clicks)
CallNumbers ==
  \A c \in calls : c.op \in NumOps => c.page <= c.n /\ c.n < clicks /\ (away => c.n < page)
NewSessions == \A c \in calls : c.op \in {"login", "create"} /\ c.stage = "sent" => c.n # cookie
Distinct == \A c, d \in calls : c.op \in NumOps /\ d.op \in NumOps /\ d.n = c.n => c = d
Numbered == PageNumbers /\ CallNumbers /\ NewSessions /\ Distinct

\* A step drops calls, moves one on, or starts one.
Keeps == \A x \in calls' : x.op \in NumOps => x \in calls
Becomes(c, d) ==
  /\ \A x \in calls' : x.op \in NumOps => x \in calls \ {c} \/ x = d
  /\ d = At(c, d.stage) /\ d.op = c.op /\ d.n = c.n /\ d.page = c.page
  /\ (d.op \in WriteOps => d.with = c.with)
  /\ \/ c.stage = "sent" /\ d.stage \in {"served", "refused"}
     \/ c.op = "login" /\ c.stage = "served" /\ d.stage = "user"
     \/ c.op = "create" /\ c.stage = "served" /\ d.stage = "listing"
  /\ Ours(c) /\ UNCHANGED <<clicks, page, away>>
Starts(d) ==
  /\ \A x \in calls' : x.op \in NumOps => x \in calls \/ x = d
  /\ d.op \in NumOps /\ d.n = clicks /\ d.page = page /\ d.mount = mount /\ d.stage = "sent"
  /\ (d.op \in WriteOps => d.with = cookie)
  /\ Click /\ UNCHANGED <<page, cookie, tokens, away, past, mode, screen, loading, user, profile, isAuthenticated>>
Loads == \E t \in Tabs, failed \in BOOLEAN : Load(t, failed)

LEMMA LoadFields ==
  ASSUME TypeInv, Loads
  PROVE  /\ away' = FALSE /\ page' = clicks /\ loading' = TRUE /\ user' = "none" /\ profile' = "default"
         /\ tab' \in Tabs /\ mount' = mount + 1 /\ upToDate' = FALSE /\ missed' = FALSE
         /\ calls' = Unserved \cup {Boot(clicks)}
         /\ Boot(clicks).op = "boot" /\ Boot(clicks).stage = "profile"
BY DEF Loads, Load, Boot

LEMMA LoadSteps ==
  ASSUME Reload \/ ScaleKitCallback \/ ScaleKitLogout
  PROVE  Loads
BY StartTabs DEF Reload, ScaleKitCallback, ScaleKitLogout, Loads, Tabs

LEMMA ListOps == TypeInv => ListCall(mount + 1).op \notin NumOps /\ ListCall(mount).op \notin NumOps
BY DEF ListCall, NumOps, WriteOps

LEMMA UserCalls ==
  ASSUME TypeInv, User
  PROVE  \/ Keeps /\ Click /\ UNCHANGED <<page, away, cookie, asked>> /\ \E t \in Tabs : PickTab(t)
         \/ Keeps /\ Loads /\ (Reload \/ ScaleKitCallback \/ ScaleKitLogout)
         \/ Keeps /\ LeaveToSignIn
         \/ \E d \in Calls : Starts(d)
<1>1. ASSUME NEW t \in Tabs, PickTab(t) PROVE Keeps /\ Click /\ UNCHANGED <<page, away, cookie, asked>>
  <2>1. Show(user, profile, t, loading, calls) /\ Click /\ UNCHANGED <<page, away, cookie, asked>>
    BY <1>1 DEF PickTab
  <2>2. QED
    BY <2>1, Shows, ListOps DEF Keeps
<1>2. CASE Reload \/ ScaleKitCallback \/ ScaleKitLogout
  <2>1. Loads
    BY <1>2, LoadSteps
  <2>2. Keeps
    BY <2>1, LoadFields, UnservedCalls DEF Keeps, NumOps, WriteOps
  <2>3. QED
    BY <1>2, <2>1, <2>2
<1>3. CASE LeaveToSignIn
  BY <1>3, UnservedCalls DEF LeaveToSignIn, Keeps
<1>4. CASE SubmitLogin
  <2>1. calls' = calls \cup {NewLogin} /\ Click
        /\ UNCHANGED <<page, cookie, tokens, away, past, mode, screen, loading, user, profile, isAuthenticated>>
    BY <1>4 DEF SubmitLogin, NewLogin
  <2>2. QED
    BY <2>1, LoginFields DEF Starts, NumOps, WriteOps
<1>5. ASSUME NEW op \in WriteOps, NEW t \in Cookies, Click, Send(Write(op, t))
      PROVE  \E d \in Calls : Starts(d)
  BY <1>5, WriteFields DEF Send, Starts, NumOps, auth
<1>6. CreateToken \/ (\E t \in list : RevokeToken(t)) \/ SaveAlias => \E d \in Calls : Starts(d)
  <2>1. list \subseteq Cookies /\ NoToken \in Cookies
    BY DEF TypeInv, ScreenType, Cookies
  <2>2. QED
    BY <1>5, <2>1 DEF CreateToken, RevokeToken, SaveAlias, WriteOps
<1>7. QED
  BY <1>1, <1>2, <1>3, <1>4, <1>6 DEF User

LEMMA ContinuesCalls ==
  ASSUME NEW c \in Calls, NEW stage
  PROVE  \A d \in Continues(c, stage) : d = At(c, stage) /\ Ours(c)
BY DEF Continues, At

\* The answers and the server.
LEMMA CallMoves ==
  ASSUME TypeInv, NEW c \in calls, c.op \in NumOps, NEW stage,
         \A x \in calls' : x.op \in NumOps => x \in calls \ {c} \/ (x = At(c, stage) /\ Ours(c)),
         \/ c.stage = "sent" /\ stage \in {"served", "refused"}
         \/ c.op = "login" /\ c.stage = "served" /\ stage = "user"
         \/ c.op = "create" /\ c.stage = "served" /\ stage = "listing",
         UNCHANGED <<clicks, page, away>>
  PROVE  Keeps \/ \E d \in Calls : Becomes(c, d)
<1>1. CASE ~ Ours(c)
  BY <1>1 DEF Keeps
<1>2. CASE Ours(c)
  <2>1. PICK d : d = At(c, stage)
    OBVIOUS
  <2>2. c \in Calls /\ c.op \notin {"boot", "list"}
    BY DEF TypeInv, NumOps, WriteOps
  <2>3. d \in Calls
    BY <2>1, <2>2, AtType DEF NumOps, WriteOps
  <2>4. /\ d.stage = stage /\ d.op = c.op /\ d.n = c.n /\ d.page = c.page
        /\ (d.op \in WriteOps => d.with = c.with)
    BY <2>1, <2>2, AtFields DEF WriteOps
  <2>5. Becomes(c, d)
    BY <1>2, <2>1, <2>4 DEF Becomes
  <2>6. QED
    BY <2>3, <2>5
<1>3. QED
  BY <1>1, <1>2

CallAnswer(c) ==
  \/ AnswerProfile(c) \/ FailProfile(c) \/ AnswerUser(c)
  \/ SingleTenantLogin(c) \/ AnswerLogin(c) \/ LoginRefused(c)
  \/ ServeWrite(c) \/ AnswerCreate(c) \/ AnswerRevoke(c) \/ AnswerAlias(c) \/ WriteFails(c)
  \/ ServeList(c) \/ AnswerList(c) \/ Drop(c)

LEMMA AnswerFrame ==
  ASSUME TypeInv, NEW c \in calls, CallAnswer(c)
  PROVE  /\ UNCHANGED <<mode, clicks, page, away>>
         /\ cookie' = cookie \/ AnswerLogin(c)
BY DEF CallAnswer, AnswerProfile, FailProfile, AnswerUser, SingleTenantLogin, AnswerLogin, LoginRefused,
   ServeWrite, AnswerCreate, AnswerRevoke, AnswerAlias, WriteFails, ServeList, AnswerList, Drop

LEMMA AnswerCalls ==
  ASSUME TypeInv, NEW c \in calls, CallAnswer(c)
  PROVE  Keeps \/ \E d \in Calls : Becomes(c, d)
<1>0. /\ UNCHANGED <<clicks, page, away>> /\ c \in Calls /\ calls \ {c} \in SUBSET Calls
      /\ ListCall(mount).op \notin NumOps /\ ListCall(mount + 1).op \notin NumOps
      /\ \A op \in NumOps : op # "list" /\ op # "boot"
  BY AnswerFrame, ListOps DEF TypeInv, NumOps, WriteOps
<1>1. CASE AnswerProfile(c)
  <2>1. PICK p : Show(user, p, tab, loading, (calls \ {c}) \cup {At(c, "user")})
    BY <1>1 DEF AnswerProfile, At
  <2>2. At(c, "user").op \notin NumOps
    BY <1>0, <1>1, AtFields DEF AnswerProfile, NumOps, WriteOps
  <2>3. \A x \in calls' : x \in (calls \ {c}) \cup {At(c, "user")} \/ x = ListCall(mount + 1)
    BY <2>1, Shows
  <2>4. QED
    BY <1>0, <2>2, <2>3 DEF Keeps
<1>2. CASE FailProfile(c) \/ AnswerUser(c) \/ AnswerAlias(c)
  <2>1. PICK u, p, l : Show(u, p, tab, l, calls \ {c})
    <3>1. FailProfile(c) => Show(user, profile, tab, FALSE, calls \ {c})
      BY DEF FailProfile
    <3>2. AnswerUser(c) => \/ Show(IF cookie \in tokens THEN "full" ELSE "none", profile, tab, FALSE, calls \ {c})
                           \/ Show("none", profile, tab, FALSE, calls \ {c})
      BY Zenon DEF AnswerUser
    <3>3. AnswerAlias(c) => Show("bare", profile, tab, loading, calls \ {c})
      BY DEF AnswerAlias
    <3>4. QED
      BY <1>2, <3>1, <3>2, <3>3, Zenon
  <2>2. \A x \in calls' : x \in calls \ {c} \/ x = ListCall(mount + 1)
    BY <2>1, Shows
  <2>3. QED
    BY <1>0, <2>2 DEF Keeps
<1>3. CASE SingleTenantLogin(c)
  <2>0. c.op = "login" /\ c.stage = "sent" /\ c.op \in NumOps
    BY <1>3 DEF SingleTenantLogin, NumOps
  <2>1. CASE calls' = Rest(c, tokens \cup {c.n}) \cup Continues(c, "served")
    <3>1. \A x \in calls' : x.op \in NumOps => x \in calls \ {c} \/ (x = At(c, "served") /\ Ours(c))
      BY <1>0, <2>1, RestCalls, ContinuesCalls
    <3>2. QED
      BY <1>0, <2>0, <3>1, CallMoves
  <2>2. CASE calls' = (calls \ {c}) \cup Continues(c, "refused")
    <3>1. \A x \in calls' : x.op \in NumOps => x \in calls \ {c} \/ (x = At(c, "refused") /\ Ours(c))
      BY <1>0, <2>2, ContinuesCalls
    <3>2. QED
      BY <1>0, <2>0, <3>1, CallMoves
  <2>3. QED
    BY <1>3, <2>1, <2>2 DEF SingleTenantLogin
<1>4. CASE ServeWrite(c)
  <2>0. c.op \in NumOps /\ c.stage = "sent"
    BY <1>4 DEF ServeWrite, NumOps, WriteOps
  <2>1. PICK stage \in {"served", "refused"} : calls' = Rest(c, Written(c)) \cup Continues(c, stage)
    BY <1>4 DEF ServeWrite
  <2>2. \A x \in calls' : x.op \in NumOps => x \in calls \ {c} \/ (x = At(c, stage) /\ Ours(c))
    BY <1>0, <2>1, RestCalls, ContinuesCalls
  <2>3. QED
    BY <1>0, <2>0, <2>1, <2>2, CallMoves
<1>5. CASE AnswerLogin(c)
  <2>1. c.op = "login" /\ c.op \in NumOps /\ c.stage = "served" /\ Ours(c)
        /\ Show(user, "server", tab, loading, (calls \ {c}) \cup {At(c, "user")})
    BY <1>5 DEF AnswerLogin, At, NumOps
  <2>2. \A x \in calls' : x.op \in NumOps => x \in calls \ {c} \/ (x = At(c, "user") /\ Ours(c))
    <3>1. \A x \in calls' : x \in (calls \ {c}) \cup {At(c, "user")} \/ x = ListCall(mount + 1)
      BY <2>1, Shows
    <3>2. QED
      BY <1>0, <2>1, <3>1
  <2>3. QED
    BY <1>0, <2>1, <2>2, CallMoves
<1>6. CASE AnswerCreate(c)
  <2>1. c.op = "create" /\ c.op \in NumOps /\ c.stage = "served" /\ Ours(c)
        /\ calls' = Obsolete(calls \ {c}) \cup {At(c, "listing"), ListCall(mount)}
    BY <1>6 DEF AnswerCreate, At, NumOps, WriteOps, Mine
  <2>2. \A x \in calls' : x.op \in NumOps => x \in calls \ {c} \/ (x = At(c, "listing") /\ Ours(c))
    BY <1>0, <2>1, ObsoleteCalls
  <2>3. QED
    BY <1>0, <2>1, <2>2, CallMoves
<1>7. CASE LoginRefused(c) \/ AnswerRevoke(c) \/ WriteFails(c) \/ AnswerList(c) \/ Drop(c)
  BY <1>0, <1>7, ObsoleteCalls DEF LoginRefused, AnswerRevoke, WriteFails, AnswerList, Listed, Drop, Keeps
<1>8. CASE ServeList(c)
  <2>1. c \in ListCalls
    BY <1>0, <1>8, CallSets DEF ServeList
  <2>2. [c EXCEPT !.stage = "served", !.got = tokens].op = "list" /\ [c EXCEPT !.stage = "refused"].op = "list"
    BY <2>1 DEF ListCalls
  <2>3. QED
    BY <1>0, <1>8, <2>2 DEF ServeList, Keeps
<1>9. QED
  BY <1>1, <1>2, <1>3, <1>4, <1>5, <1>6, <1>7, <1>8 DEF CallAnswer

LEMMA NumberedStep ==
  ASSUME TypeInv, Numbered, [Next]_vars
  PROVE  Numbered'
<1>0. /\ clicks \in Nat /\ page \in Nat /\ NoToken \notin Numbers /\ Numbers \subseteq Nat
      /\ Click => clicks' = clicks + 1 /\ ~ away
      /\ \A c \in calls : c.op \in NumOps => c \in Calls /\ c.n \in Nat /\ c.page \in Nat
      /\ cookie \in Cookies /\ away \in BOOLEAN
  <2>1. \A c \in calls : c.op \in NumOps => c \in Calls /\ c.n \in Numbers /\ c.page \in Numbers
    BY CallSets DEF TypeInv, NumOps, Logins, WriteCalls
  <2>2. QED
    BY <2>1, SessionAssumption DEF TypeInv, CountType, PageType, Click, Numbers
<1>1. ASSUME Keeps, UNCHANGED <<page, away, cookie>>, clicks' = clicks \/ Click
      PROVE  Numbered'
  <2>1. PageNumbers'
    BY <1>0, <1>1 DEF Numbered, PageNumbers, CallNumbers, Cookies
  <2>2. CallNumbers'
    BY <1>0, <1>1 DEF Numbered, PageNumbers, CallNumbers, Keeps
  <2>3. NewSessions'
    BY <1>0, <1>1 DEF Numbered, PageNumbers, NewSessions, Keeps, CallNumbers, Distinct, NumOps, WriteOps
  <2>4. Distinct'
    BY <1>0, <1>1 DEF Numbered, PageNumbers, Distinct, Keeps
  <2>5. QED
    BY <2>1, <2>2, <2>3, <2>4 DEF Numbered
<1>2. ASSUME NEW d \in Calls, Starts(d) PROVE Numbered'
  <2>1. /\ d.n = clicks /\ d.page = page /\ clicks' = clicks + 1 /\ ~ away'
        /\ \A x \in calls' : x.op \in NumOps => x \in calls \/ x = d
        /\ UNCHANGED <<page, cookie, away>>
    BY <1>0, <1>2 DEF Starts
  <2>2. PageNumbers'
    BY <1>0, <2>1 DEF Numbered, PageNumbers, CallNumbers, Cookies
  <2>3. CallNumbers'
    BY <1>0, <2>1 DEF Numbered, PageNumbers, CallNumbers
  <2>4. NewSessions'
    BY <1>0, <2>1, SessionAssumption DEF Numbered, PageNumbers, NewSessions, Cookies, NumOps, WriteOps
  <2>5. Distinct'
    BY <1>0, <2>1 DEF Numbered, CallNumbers, Distinct
  <2>6. QED
    BY <2>2, <2>3, <2>4, <2>5 DEF Numbered
<1>3. ASSUME NEW c \in calls, NEW d \in Calls, Becomes(c, d), cookie' = cookie \/ (cookie' = c.n /\ c.stage # "sent"),
             c.op \in NumOps
      PROVE  Numbered'
  <2>1. /\ d.n = c.n /\ d.page = c.page /\ d.op = c.op /\ d.stage # "sent"
        /\ \A x \in calls' : x.op \in NumOps => x \in calls \ {c} \/ x = d
        /\ UNCHANGED <<clicks, page, away>>
    BY <1>3 DEF Becomes
  <2>2. PageNumbers'
    BY <1>0, <1>3, <2>1 DEF Numbered, PageNumbers, CallNumbers, Cookies
  <2>3. CallNumbers'
    BY <1>0, <1>3, <2>1 DEF Numbered, PageNumbers, CallNumbers
  <2>4. NewSessions'
    BY <1>0, <1>3, <2>1 DEF Numbered, PageNumbers, NewSessions, CallNumbers, Distinct, NumOps, WriteOps
  <2>5. Distinct'
    BY <1>0, <1>3, <2>1 DEF Numbered, PageNumbers, Distinct
  <2>6. QED
    BY <2>2, <2>3, <2>4, <2>5 DEF Numbered
<1>4. CASE User
  <2>1. CASE Keeps /\ Loads /\ (Reload \/ ScaleKitCallback \/ ScaleKitLogout)
    <3>1. page' = clicks /\ away' = FALSE
      BY <2>1, LoadFields
    <3>2. clicks' = clicks \/ Click
      BY <2>1 DEF Reload, ScaleKitCallback, ScaleKitLogout
    <3>3. cookie' \in {cookie, NoToken} \/ (away /\ cookie' = page)
      BY <2>1 DEF Reload, ScaleKitCallback, ScaleKitLogout
    <3>4. PageNumbers'
      BY <1>0, <2>1, <3>1, <3>2, <3>3 DEF Numbered, PageNumbers, CallNumbers, Cookies
    <3>5. CallNumbers'
      BY <1>0, <2>1, <3>1, <3>2, <3>3 DEF Numbered, PageNumbers, CallNumbers, Keeps
    <3>6. NewSessions'
      BY <1>0, <2>1, <3>1, <3>2, <3>3, SessionAssumption DEF Numbered, PageNumbers, NewSessions, Keeps, CallNumbers, Distinct, NumOps, WriteOps
    <3>7. Distinct'
      BY <1>0, <2>1, <3>1, <3>2, <3>3 DEF Numbered, PageNumbers, Distinct, Keeps
    <3>8. QED
      BY <3>4, <3>5, <3>6, <3>7 DEF Numbered
  <2>2. CASE Keeps /\ LeaveToSignIn
    <3>1. Click /\ page' = clicks /\ cookie' = cookie
      BY <2>2 DEF LeaveToSignIn
    <3>2. PageNumbers'
      BY <1>0, <2>2, <3>1 DEF Numbered, PageNumbers, CallNumbers, Cookies
    <3>3. CallNumbers'
      BY <1>0, <2>2, <3>1 DEF Numbered, PageNumbers, CallNumbers, Keeps
    <3>4. NewSessions'
      BY <1>0, <2>2, <3>1 DEF Numbered, PageNumbers, NewSessions, Keeps, CallNumbers, Distinct, NumOps, WriteOps
    <3>5. Distinct'
      BY <1>0, <2>2, <3>1 DEF Numbered, PageNumbers, Distinct, Keeps
    <3>6. QED
      BY <3>2, <3>3, <3>4, <3>5 DEF Numbered
  <2>3. QED
    BY <1>1, <1>2, <1>4, <2>1, <2>2, UserCalls
<1>5. ASSUME NEW c \in calls, CallAnswer(c) PROVE Numbered'
  <2>1. /\ UNCHANGED <<clicks, page, away>>
        /\ cookie' = cookie \/ AnswerLogin(c)
        /\ Keeps \/ \E d \in Calls : Becomes(c, d)
    BY <1>5, AnswerFrame, AnswerCalls
  <2>2. CASE AnswerLogin(c)
    <3>1. cookie' = c.n /\ c.stage = "served" /\ c.op = "login" /\ c.op \in NumOps
      BY <2>2 DEF AnswerLogin, NumOps
    <3>2. CASE Keeps
      <4>1. PageNumbers'
        BY <1>0, <2>1, <3>1, <3>2 DEF Numbered, PageNumbers, CallNumbers, Cookies
      <4>2. CallNumbers'
        BY <1>0, <2>1, <3>1, <3>2 DEF Numbered, PageNumbers, CallNumbers, Keeps
      <4>3. NewSessions'
        BY <1>0, <2>1, <3>1, <3>2 DEF Numbered, PageNumbers, NewSessions, Keeps, CallNumbers, Distinct, NumOps, WriteOps
      <4>4. Distinct'
        BY <1>0, <2>1, <3>1, <3>2 DEF Numbered, PageNumbers, Distinct, Keeps
      <4>5. QED
        BY <4>1, <4>2, <4>3, <4>4 DEF Numbered
    <3>3. QED
      BY <1>3, <2>1, <3>1, <3>2
  <2>3. CASE cookie' = cookie
    <3>1. ASSUME NEW d \in Calls, Becomes(c, d), c.op \notin NumOps PROVE Keeps
      BY <3>1 DEF Becomes, Keeps
    <3>2. CASE Keeps
      BY <1>1, <2>1, <2>3, <3>2
    <3>3. ASSUME NEW d \in Calls, Becomes(c, d), c.op \in NumOps PROVE Numbered'
      BY <1>3, <2>3, <3>3
    <3>4. QED
      BY <2>1, <3>1, <3>2, <3>3
  <2>4. QED
    BY <2>1, <2>2, <2>3
<1>6. CASE UNCHANGED vars
  BY <1>1, <1>6 DEF vars, Keeps
<1>7. QED
  BY <1>4, <1>5, <1>6 DEF Next, CallStep, CallAnswer

LEMMA NumberedHolds == Spec => [](TypeInv /\ Numbered)
<1>1. Init => Numbered
  <2>1. Boot(0).op \notin NumOps
    BY DEF Boot, NumOps, WriteOps
  <2>2. QED
    BY <2>1, SessionAssumption DEF Init, Numbered, PageNumbers, CallNumbers, NewSessions, Distinct, Numbers, NumOps, WriteOps
<1>2. QED
  BY <1>1, NumberedStep, TypeInvHolds, PTL DEF Spec

---------------------------------------------------------------------------
(***************************************************************************)
(* The console is that of the server's deployment mode.                    *)
(***************************************************************************)
\* While a page starts it is loading, and no sign-in of it is under way.
BootLoads == \A c \in calls : c.op = "boot" => loading /\ ~ away
OneBoot == \A c, d \in calls : c.op = "boot" /\ d.op = "boot" => c = d
LoginAfter == \A c \in calls : c.op = "login" /\ c.page = page => ~ loading
\* The profile was fetched, is being fetched, or was missed.
Fetched == missed \/ profile = "server" \/ \E c \in calls : c.op = "boot" /\ c.stage = "profile"
NoEnterprise == IsSingleTenant(user, profile) => tab # "enterprise"
AwayMode == away /\ ~ missed => mode = "multitenant"
ModeInv == BootLoads /\ OneBoot /\ LoginAfter /\ Fetched /\ NoEnterprise /\ AwayMode

\* The steps that do not start or end the start of a page.
Quiet ==
  /\ \A x \in calls' : x.op = "boot" => x \in calls
  /\ \A x \in calls : x.op = "boot" => x \in calls'
  /\ UNCHANGED <<loading, missed, away, page, mode>>
  /\ profile' = profile \/ profile' = "server"
  /\ NoEnterprise'

LEMMA ShowMode ==
  ASSUME NEW u, NEW p, NEW t, NEW l, NEW C, Show(u, p, t, l, C), mode' = mode
  PROVE  NoEnterprise'
<1>1. user' = u /\ profile' = p /\ (IsSingleTenant(u, p) => tab' # "enterprise")
  BY Shows
<1>2. QED
  BY <1>1 DEF NoEnterprise, IsSingleTenant

LEMMA QuietShow ==
  ASSUME TypeInv, NEW u, NEW p \in {profile, "server"}, NEW t, NEW C \in SUBSET Calls,
         Show(u, p, t, loading, C),
         \A x \in C : x.op = "boot" => x \in calls,
         \A x \in calls : x.op = "boot" => x \in C,
         UNCHANGED <<missed, away, page, mode>>
  PROVE  Quiet
<1>1. NoEnterprise'
  BY ShowMode
<1>2. /\ profile' = p /\ loading' = loading /\ C \subseteq calls'
      /\ \A x \in calls' : x \in C \/ x = ListCall(mount + 1)
  BY Shows
<1>3. ListCall(mount + 1).op # "boot"
  BY DEF ListCall
<1>4. QED
  BY <1>1, <1>2, <1>3 DEF Quiet

LEMMA QuietStill ==
  ASSUME NoEnterprise, UNCHANGED <<loading, missed, away, page, mode, profile, user, tab>>,
         \A x \in calls' : x.op = "boot" => x \in calls,
         \A x \in calls : x.op = "boot" => x \in calls'
  PROVE  Quiet
BY DEF Quiet, NoEnterprise, IsSingleTenant

LEMMA QuietUser ==
  ASSUME TypeInv, NoEnterprise, User
  PROVE  Quiet \/ Loads \/ LeaveToSignIn
<1>1. ASSUME NEW t \in Tabs, PickTab(t) PROVE Quiet
  <2>1. /\ Show(user, profile, t, loading, calls) /\ UNCHANGED <<missed, away, page, mode>>
        /\ calls \in SUBSET Calls
    BY <1>1 DEF PickTab, TypeInv
  <2>2. QED
    BY <2>1, QuietShow
<1>2. CASE SubmitLogin
  <2>1. calls' = calls \cup {NewLogin} /\ NewLogin.op = "login"
    BY <1>2, LoginFields DEF SubmitLogin, NewLogin
  <2>2. UNCHANGED <<loading, missed, away, page, mode, profile, user, tab>>
    BY <1>2 DEF SubmitLogin, screen, past
  <2>3. QED
    BY <2>1, <2>2, QuietStill
<1>3. ASSUME NEW op \in WriteOps, NEW t \in Cookies, Send(Write(op, t)) PROVE Quiet
  <2>1. calls' = calls \cup {Write(op, t)} /\ Write(op, t).op # "boot"
    BY <1>3, WriteFields DEF Send, WriteOps
  <2>2. UNCHANGED <<loading, missed, away, page, mode, profile, user, tab>>
    BY <1>3 DEF Send, screen, past, auth
  <2>3. QED
    BY <2>1, <2>2, QuietStill
<1>4. CreateToken \/ (\E t \in list : RevokeToken(t)) \/ SaveAlias => Quiet
  <2>1. list \subseteq Cookies /\ NoToken \in Cookies
    BY DEF TypeInv, ScreenType, Cookies
  <2>2. QED
    BY <1>3, <2>1 DEF CreateToken, RevokeToken, SaveAlias, WriteOps
<1>5. QED
  BY <1>1, <1>2, <1>4, LoadSteps DEF User

LEMMA QuietAnswer ==
  ASSUME TypeInv, NoEnterprise, NEW c \in calls, CallAnswer(c)
  PROVE  Quiet \/ AnswerProfile(c) \/ FailProfile(c) \/ AnswerUser(c)
<1>0. /\ c \in Calls /\ calls \ {c} \in SUBSET Calls
      /\ ListCall(mount).op # "boot"
      /\ UNCHANGED <<away, page, mode>>
  BY AnswerFrame DEF TypeInv, ListCall
<1>1. CASE AnswerLogin(c)
  <2>1. c.op = "login" /\ Show(user, "server", tab, loading, (calls \ {c}) \cup {At(c, "user")})
        /\ missed' = missed
    BY <1>1 DEF AnswerLogin, At
  <2>2. At(c, "user").op # "boot" /\ (calls \ {c}) \cup {At(c, "user")} \in SUBSET Calls
    BY <1>0, <2>1, AtFields, AtType
  <2>3. QED
    BY <1>0, <2>1, <2>2, QuietShow
<1>2. CASE AnswerAlias(c)
  <2>1. c.op = "alias" /\ Show("bare", profile, tab, loading, calls \ {c}) /\ missed' = missed
    BY <1>2 DEF AnswerAlias
  <2>2. QED
    BY <1>0, <2>1, QuietShow
<1>3. CASE SingleTenantLogin(c) \/ ServeWrite(c)
  <2>1. UNCHANGED <<loading, missed, profile, user, tab>> /\ c.op # "boot"
    BY <1>3 DEF SingleTenantLogin, ServeWrite, auth, screen
  <2>2. PICK w, stage : calls' = Rest(c, w) \cup Continues(c, stage)
                        \/ calls' = (calls \ {c}) \cup Continues(c, stage)
    BY <1>3 DEF SingleTenantLogin, ServeWrite
  <2>3. \A x \in Continues(c, stage) : x.op # "boot"
    BY <1>0, <2>1, ContinuesCalls, AtFields
  <2>4. /\ \A x \in Rest(c, w) : x.op = "boot" => x \in calls
        /\ \A x \in calls : x.op = "boot" => x \in Rest(c, w)
    BY <2>1, RestCalls
  <2>5. /\ \A x \in calls' : x.op = "boot" => x \in calls
        /\ \A x \in calls : x.op = "boot" => x \in calls'
    BY <2>1, <2>2, <2>3, <2>4
  <2>6. QED
    BY <1>0, <2>1, <2>5, QuietStill
<1>4. CASE LoginRefused(c) \/ Drop(c) \/ AnswerList(c)
  <2>1. UNCHANGED <<loading, missed, profile, user, tab>> /\ c.op # "boot"
    BY <1>4 DEF LoginRefused, Drop, AnswerList, auth, screen, past
  <2>2. /\ \A x \in calls' : x.op = "boot" => x \in calls
        /\ \A x \in calls : x.op = "boot" => x \in calls'
    BY <1>4, <2>1 DEF LoginRefused, Drop, AnswerList, Listed
  <2>3. QED
    BY <1>0, <2>1, <2>2, QuietStill
<1>5. CASE AnswerCreate(c) \/ AnswerRevoke(c) \/ WriteFails(c)
  <2>1. UNCHANGED <<loading, missed, profile, user, tab>> /\ c.op # "boot"
    BY <1>5 DEF AnswerCreate, AnswerRevoke, WriteFails, auth, screen, past
  <2>2. At(c, "listing").op # "boot"
    BY <1>0, <2>1, AtFields
  <2>3. \/ calls' = Obsolete(calls \ {c}) \cup {At(c, "listing"), ListCall(mount)}
        \/ calls' = Obsolete(calls \ {c}) \cup {ListCall(mount)}
        \/ calls' = Obsolete(calls \ {c}) \/ calls' = calls \ {c}
    BY <1>5 DEF AnswerCreate, AnswerRevoke, WriteFails, At
  <2>4. /\ \A x \in Obsolete(calls \ {c}) : x.op = "boot" => x \in calls
        /\ \A x \in calls : x.op = "boot" => x \in Obsolete(calls \ {c})
    BY <1>0, <2>1, ObsoleteCalls
  <2>5. /\ \A x \in calls' : x.op = "boot" => x \in calls
        /\ \A x \in calls : x.op = "boot" => x \in calls'
    BY <1>0, <2>1, <2>2, <2>3, <2>4
  <2>6. QED
    BY <1>0, <2>1, <2>5, QuietStill
<1>6. CASE ServeList(c)
  <2>1. c \in ListCalls /\ c.op # "boot" /\ UNCHANGED <<loading, missed, profile, user, tab>>
    BY <1>0, <1>6, CallSets DEF ServeList, auth, screen, past
  <2>2. [c EXCEPT !.stage = "served", !.got = tokens].op = "list" /\ [c EXCEPT !.stage = "refused"].op = "list"
    BY <2>1 DEF ListCalls
  <2>3. /\ \A x \in calls' : x.op = "boot" => x \in calls
        /\ \A x \in calls : x.op = "boot" => x \in calls'
    BY <1>6, <2>1, <2>2 DEF ServeList
  <2>4. QED
    BY <1>0, <2>1, <2>3, QuietStill
<1>7. QED
  BY <1>1, <1>2, <1>3, <1>4, <1>5, <1>6 DEF CallAnswer

\* A sign-in of the page was started on it.
LEMMA LoginCalls ==
  ASSUME TypeInv, Numbered, [Next]_vars, NEW x \in calls', x.op = "login", x.page = page'
  PROVE  \/ page' = page /\ \E c \in calls : c.op = "login" /\ c.page = page
         \/ page' = page /\ ~ loading
<1>0. x.op \in NumOps
  BY DEF NumOps
<1>n. \A c \in calls : c.op \in NumOps => c.page <= c.n /\ c.n < clicks /\ c.page \in Nat /\ c.n \in Nat
  <2>1. \A c \in calls : c.op \in NumOps => c.page \in Numbers /\ c.n \in Numbers
    BY CallSets DEF TypeInv, NumOps, Logins, WriteCalls
  <2>2. QED
    BY <2>1, SessionAssumption DEF Numbered, CallNumbers, Numbers
<1>1. ASSUME Keeps, page' = page \/ page' = clicks PROVE \/ page' = page /\ \E c \in calls : c.op = "login" /\ c.page = page
                                                         \/ page' = page /\ ~ loading
  <2>1. x \in calls
    BY <1>0, <1>1 DEF Keeps
  <2>2. page' # clicks
    BY <1>0, <1>n, <2>1, CountsGrow DEF Numbers
  <2>3. QED
    BY <1>1, <2>1, <2>2
<1>2. CASE User
  <2>1. ASSUME NEW d \in Calls, Starts(d) PROVE page' = page /\ (x \in calls \/ ~ loading)
    <3>1. page' = page /\ (x \in calls \/ (x = d /\ d.op = "login"))
      BY <1>0, <2>1 DEF Starts
    <3>2. SubmitLogin => ~ loading
      BY DEF SubmitLogin, Showing, Component
    <3>3. ASSUME NEW op \in WriteOps, NEW t \in Cookies, Send(Write(op, t)), x \notin calls PROVE FALSE
      BY <3>3, WriteFields DEF Send, WriteOps
    <3>4. list \subseteq Cookies /\ NoToken \in Cookies
      BY DEF TypeInv, ScreenType, Cookies
    <3>5. CreateToken \/ (\E t \in list : RevokeToken(t)) \/ SaveAlias => x \in calls
      BY <3>3, <3>4 DEF CreateToken, RevokeToken, SaveAlias, WriteOps
    <3>6. \/ (\E t \in Tabs : PickTab(t)) \/ Reload \/ ScaleKitCallback \/ ScaleKitLogout \/ LeaveToSignIn
          => x \in calls
      <4>1. ASSUME NEW t \in Tabs, PickTab(t) PROVE x \in calls
        <5>1. Show(user, profile, t, loading, calls) /\ ListCall(mount + 1).op = "list"
          BY <4>1 DEF PickTab, ListCall
        <5>2. QED
          BY <5>1, Shows
      <4>2. CASE Reload \/ ScaleKitCallback \/ ScaleKitLogout
        BY <4>2, LoadSteps, LoadFields, UnservedCalls
      <4>3. CASE LeaveToSignIn
        BY <4>3, UnservedCalls DEF LeaveToSignIn
      <4>4. QED
        BY <4>1, <4>2, <4>3
    <3>7. QED
      BY <1>2, <3>1, <3>2, <3>5, <3>6 DEF User
  <2>2. Loads \/ LeaveToSignIn => page' = clicks
    BY LoadFields DEF LeaveToSignIn
  <2>3. QED
    BY <1>1, <1>2, <2>1, <2>2, UserCalls
<1>3. ASSUME NEW c \in calls, CallAnswer(c)
      PROVE  \/ page' = page /\ \E e \in calls : e.op = "login" /\ e.page = page
             \/ page' = page /\ ~ loading
  <2>1. page' = page
    BY <1>3, AnswerFrame
  <2>2. ASSUME NEW d \in Calls, Becomes(c, d) PROVE x \in calls \/ (c.op = "login" /\ c.page = page)
    BY <1>0, <2>1, <2>2 DEF Becomes
  <2>3. Keeps => x \in calls
    BY <1>0 DEF Keeps
  <2>4. QED
    BY <1>3, <2>1, <2>2, <2>3, AnswerCalls
<1>4. CASE UNCHANGED vars
  BY <1>4 DEF vars
<1>5. QED
  BY <1>2, <1>3, <1>4 DEF Next, CallStep, CallAnswer

LEMMA ModeInvStep ==
  ASSUME TypeInv, Numbered, ModeInv, [Next]_vars
  PROVE  ModeInv'
<1>0. BootLoads /\ OneBoot /\ LoginAfter /\ Fetched /\ NoEnterprise /\ AwayMode
  BY DEF ModeInv
<1>a. LoginAfter => LoginAfter' \/ (loading' /\ ~ loading /\ page' = page)
  BY LoginCalls DEF LoginAfter
<1>1. CASE Quiet
  <2>1. BootLoads' /\ OneBoot'
    BY <1>0, <1>1 DEF Quiet, BootLoads, OneBoot
  <2>2. LoginAfter'
    BY <1>0, <1>1, <1>a DEF Quiet
  <2>3. Fetched'
    BY <1>0, <1>1 DEF Quiet, Fetched
  <2>4. NoEnterprise' /\ AwayMode'
    BY <1>0, <1>1 DEF Quiet, AwayMode
  <2>5. QED
    BY <2>1, <2>2, <2>3, <2>4 DEF ModeInv
<1>2. CASE Loads
  <2>1. /\ \A x \in calls' : x.op = "boot" => x = Boot(clicks)
        /\ Boot(clicks) \in calls' /\ Boot(clicks).op = "boot" /\ Boot(clicks).stage = "profile"
        /\ loading' = TRUE /\ away' = FALSE /\ page' = clicks /\ user' = "none" /\ profile' = "default"
    BY <1>2, LoadFields, UnservedCalls
  <2>2. \A x \in calls' : x.op = "login" => x.page # page'
    <3>1. ASSUME NEW x \in calls', x.op = "login" PROVE x.page # clicks
      <4>1. x \in calls /\ x.op \in NumOps
        BY <1>2, <2>1, <3>1, LoadFields, UnservedCalls DEF NumOps
      <4>2. x.page \in Numbers /\ x.n \in Numbers
        BY <3>1, <4>1, CallSets DEF TypeInv, Logins
      <4>3. QED
        BY <4>1, <4>2, CountsGrow, SessionAssumption DEF Numbered, CallNumbers, Numbers
    <3>2. QED
      BY <2>1, <3>1
  <2>3. BootLoads' /\ OneBoot' /\ LoginAfter' /\ Fetched' /\ AwayMode'
    BY <2>1, <2>2 DEF BootLoads, OneBoot, LoginAfter, Fetched, AwayMode
  <2>4. NoEnterprise'
    BY <2>1 DEF NoEnterprise, IsSingleTenant
  <2>5. QED
    BY <2>3, <2>4 DEF ModeInv
<1>3. CASE LeaveToSignIn
  <2>1. /\ ~ loading /\ user = "none" /\ ~ IsSingleTenant(user, profile) /\ away' = TRUE
        /\ calls' = Unserved /\ UNCHANGED <<mode, loading, user, profile, tab, missed>>
    BY <1>3 DEF LeaveToSignIn, auth, screen, past
  <2>2. missed \/ profile = "server"
    BY <1>0, <2>1 DEF Fetched, BootLoads
  <2>3. BootLoads' /\ OneBoot' /\ LoginAfter'
    BY <2>1, UnservedCalls DEF BootLoads, OneBoot, LoginAfter
  <2>4. Fetched'
    BY <2>1, <2>2 DEF Fetched
  <2>5. NoEnterprise'
    BY <1>0, <2>1 DEF NoEnterprise, IsSingleTenant
  <2>6. AwayMode'
    BY <2>1, <2>2 DEF AwayMode, IsSingleTenant, TypeInv, ServerType
  <2>7. QED
    BY <2>3, <2>4, <2>5, <2>6 DEF ModeInv
<1>4. ASSUME NEW c \in calls, AnswerProfile(c) \/ FailProfile(c) \/ AnswerUser(c) PROVE ModeInv'
  <2>1. /\ UNCHANGED <<mode, clicks, page, away>> /\ c \in Calls
    BY <1>4, AnswerFrame DEF CallAnswer, TypeInv
  <2>2. CASE AnswerProfile(c)
    <3>1. /\ c.op = "boot" /\ c.stage = "profile"
          /\ \/ missed' = missed /\ Show(user, "server", tab, loading, (calls \ {c}) \cup {At(c, "user")})
             \/ missed' = TRUE /\ Show(user, "default", tab, loading, (calls \ {c}) \cup {At(c, "user")})
      BY <2>2 DEF AnswerProfile, At
    <3>2. At(c, "user").op = "boot" /\ ListCall(mount + 1).op # "boot"
      BY <2>1, <3>1, AtFields DEF ListCall
    <3>3. \A x \in calls' : x.op = "boot" => x \in (calls \ {c}) \cup {At(c, "user")}
      BY <3>1, <3>2, Shows
    <3>4. \A x \in calls' : x.op = "boot" => x = At(c, "user")
      BY <1>0, <3>1, <3>3 DEF OneBoot
    <3>5. loading' = loading /\ loading /\ ~ away /\ (missed' = TRUE \/ profile' = "server")
      BY <1>0, <3>1, Shows DEF BootLoads
    <3>6. BootLoads' /\ OneBoot' /\ Fetched' /\ AwayMode'
      BY <2>1, <3>4, <3>5 DEF BootLoads, OneBoot, Fetched, AwayMode
    <3>7. NoEnterprise'
      BY <2>1, <3>1, ShowMode
    <3>8. LoginAfter'
      BY <1>0, <1>a, <3>5
    <3>9. QED
      BY <3>6, <3>7, <3>8 DEF ModeInv
  <2>3. CASE FailProfile(c) \/ AnswerUser(c)
    <3>1. PICK u : Show(u, profile, tab, FALSE, calls \ {c})
      <4>1. FailProfile(c) => Show(user, profile, tab, FALSE, calls \ {c})
        BY DEF FailProfile
      <4>2. AnswerUser(c) => \/ Show(IF cookie \in tokens THEN "full" ELSE "none", profile, tab, FALSE, calls \ {c})
                             \/ Show("none", profile, tab, FALSE, calls \ {c})
        BY Zenon DEF AnswerUser
      <4>3. QED
        BY <2>3, <4>1, <4>2, Zenon
    <3>2. /\ loading' = FALSE /\ profile' = profile
          /\ \A x \in calls' : x \in calls \ {c} \/ x = ListCall(mount + 1)
      BY <3>1, Shows
    <3>3. ListCall(mount + 1).op # "boot"
      BY DEF ListCall
    <3>4. c.op = "boot" \/ (c.op = "login" /\ c.page = page)
      BY <2>3 DEF FailProfile, AnswerUser, Ours
    <3>5. \A x \in calls' : x.op # "boot"
      BY <1>0, <3>2, <3>3, <3>4 DEF BootLoads, OneBoot, LoginAfter
    <3>6. BootLoads' /\ OneBoot' /\ LoginAfter'
      BY <3>2, <3>5 DEF BootLoads, OneBoot, LoginAfter
    <3>7. Fetched'
      <4>1. CASE missed'
        BY <4>1 DEF Fetched
      <4>2. CASE ~ missed'
        <5>1. AnswerUser(c) /\ missed' = missed
          BY <2>3, <4>2 DEF FailProfile, AnswerUser
        <5>2. c.op \in {"boot", "login"} /\ c.stage = "user"
          BY <5>1 DEF AnswerUser
        <5>3. ASSUME NEW x \in calls, x.op = "boot", x.stage = "profile" PROVE FALSE
          BY <1>0, <3>4, <5>2, <5>3 DEF BootLoads, OneBoot, LoginAfter
        <5>4. QED
          BY <1>0, <3>2, <4>2, <5>1, <5>3 DEF Fetched
      <4>3. QED
        BY <4>1, <4>2
    <3>8. NoEnterprise'
      BY <2>1, <3>1, ShowMode
    <3>9. AwayMode'
      BY <1>0, <2>1, <2>3, <3>4 DEF AwayMode, BootLoads, AnswerUser, FailProfile, Ours
    <3>10. QED
      BY <3>6, <3>7, <3>8, <3>9 DEF ModeInv
  <2>4. QED
    BY <1>4, <2>2, <2>3
<1>5. CASE UNCHANGED vars
  <2>1. Quiet
    BY <1>0, <1>5, QuietStill DEF vars, auth, screen, past
  <2>2. QED
    BY <1>1, <2>1
<1>6. QED
  BY <1>0, <1>1, <1>2, <1>3, <1>4, <1>5, QuietUser, QuietAnswer DEF Next, CallStep, CallAnswer

LEMMA ModeInvHolds == Spec => [](TypeInv /\ Numbered /\ ModeInv)
<1>1. Init => ModeInv
  <2> SUFFICES ASSUME Init PROVE ModeInv
    OBVIOUS
  <2>1. calls = {Boot(0)} /\ loading = TRUE /\ away = FALSE /\ user = "none" /\ profile = "default"
    BY DEF Init
  <2>2. Boot(0).op = "boot" /\ Boot(0).stage = "profile"
    BY DEF Boot
  <2>3. BootLoads /\ OneBoot /\ LoginAfter /\ Fetched /\ NoEnterprise /\ AwayMode
    BY <2>1, <2>2 DEF BootLoads, OneBoot, LoginAfter, Fetched, NoEnterprise, AwayMode, IsSingleTenant
  <2>4. QED
    BY <2>3 DEF ModeInv
<1>2. QED
  BY <1>1, ModeInvStep, NumberedHolds, PTL DEF Spec

\* The console is that of the deployment mode: once loaded, a page that missed
\* nothing has the profile (Fetched), whoever signs in or saves an alias, and
\* the enterprise tab is left whenever the mode is known to be single-tenant.
THEOREM RightModeHolds == Spec => []RightMode
<1>1. ASSUME TypeInv, ModeInv PROVE RightMode
  <2>1. SUFFICES ASSUME ~ missed, ~ loading
        PROVE  /\ IsSingleTenant(user, profile) <=> mode = "single_tenant"
               /\ tab = "enterprise" \/ away => mode = "multitenant"
    BY DEF RightMode
  <2>2. profile = "server"
    BY <1>1, <2>1 DEF ModeInv, Fetched, BootLoads
  <2>3. QED
    BY <1>1, <2>1, <2>2 DEF ModeInv, NoEnterprise, AwayMode, IsSingleTenant, TypeInv, ServerType
<1>2. QED
  BY <1>1, ModeInvHolds, PTL

---------------------------------------------------------------------------
(***************************************************************************)
(* Whoever signed in is signed in.                                         *)
(***************************************************************************)
AskedInv == asked = "in" <=> cookie \in tokens
\* An alias is not saved by one who signed out.
AliasInv ==
  \A c \in calls : c.op = "alias" =>
    /\ c.stage = "sent" /\ asked = "out" => c.with = cookie
    /\ c.stage = "served" => asked # "out"
\* The user will be fetched, or is the one whose session it is.
Pends(c) == c.op \in {"boot", "login"} /\ c.stage \in {"profile", "user"}
Pending == \E c \in calls : Pends(c)
Agrees == (user # "none" <=> asked = "in") /\ (isAuthenticated <=> user # "none")
UserInv == away \/ missed \/ asked = "revoked" \/ Pending \/ Agrees
SignedInv == AskedInv /\ AliasInv /\ UserInv

\* The session changes only by signing in or out, and by writes of tokens.
LEMMA UserKeepsSession ==
  ASSUME User
  PROVE  UNCHANGED <<asked, cookie, tokens>> \/ Reload \/ ScaleKitCallback \/ ScaleKitLogout
BY DEF User, PickTab, SubmitLogin, LeaveToSignIn, CreateToken, RevokeToken, SaveAlias, Send, past

LEMMA AnswerKeepsSession ==
  ASSUME NEW c \in calls, CallAnswer(c)
  PROVE  UNCHANGED <<asked, cookie, tokens>> \/ SingleTenantLogin(c) \/ AnswerLogin(c) \/ ServeWrite(c)
BY DEF CallAnswer, AnswerProfile, FailProfile, AnswerUser, LoginRefused, AnswerCreate, AnswerRevoke,
   AnswerAlias, WriteFails, ServeList, AnswerList, Drop, past

LEMMA AskedStep ==
  ASSUME TypeInv, Numbered, AskedInv, [Next]_vars
  PROVE  AskedInv'
<1>0. NoToken \notin tokens /\ asked \in {"in", "out", "revoked"}
  <2>1. \A t \in Numbers : t \in Nat
    BY SessionAssumption DEF Numbers
  <2>2. QED
    BY <2>1, SessionAssumption DEF TypeInv, ServerType, PastType
<1>1. CASE UNCHANGED <<asked, cookie, tokens>>
  BY <1>1 DEF AskedInv
<1>2. CASE Reload
  BY <1>0, <1>2 DEF Reload, Forgotten, AskedInv
<1>3. CASE ScaleKitCallback
  <2>1. \/ tokens' = tokens \cup {page} /\ cookie' = page /\ asked' = "in"
        \/ asked' = Forgotten /\ UNCHANGED <<tokens, cookie>>
    BY <1>3 DEF ScaleKitCallback
  <2>2. QED
    BY <1>0, <2>1 DEF Forgotten, AskedInv
<1>4. CASE ScaleKitLogout
  BY <1>0, <1>4 DEF ScaleKitLogout, AskedInv
<1>5. ASSUME NEW c \in calls, SingleTenantLogin(c) PROVE AskedInv'
  <2>1. c.n # cookie
    BY <1>5 DEF SingleTenantLogin, Numbered, NewSessions
  <2>2. asked' = asked /\ cookie' = cookie /\ (tokens' = tokens \/ tokens' = tokens \cup {c.n})
    BY <1>5 DEF SingleTenantLogin
  <2>3. QED
    BY <2>1, <2>2 DEF AskedInv
<1>6. ASSUME NEW c \in calls, AnswerLogin(c) PROVE AskedInv'
  BY <1>6 DEF AnswerLogin, AskedInv
<1>7. ASSUME NEW c \in calls, ServeWrite(c) PROVE AskedInv'
  <2>1. /\ cookie' = cookie /\ tokens' = Written(c)
        /\ asked' = IF c.op = "revoke" /\ c.token = cookie /\ cookie \notin Written(c)
                    THEN "revoked" ELSE asked
    BY <1>7 DEF ServeWrite
  <2>2. \/ Written(c) = tokens
        \/ c.op = "create" /\ c.n # cookie /\ Written(c) = tokens \cup {c.n}
        \/ c.op = "revoke" /\ Written(c) = tokens \ {c.token}
    BY <1>7 DEF ServeWrite, Written, Numbered, NewSessions
  <2>3. QED
    BY <2>1, <2>2 DEF AskedInv
<1>8. CASE UNCHANGED vars
  BY <1>1, <1>8 DEF vars, past
<1>9. QED
  BY <1>1, <1>2, <1>3, <1>4, <1>5, <1>6, <1>7, <1>8, UserKeepsSession, AnswerKeepsSession
     DEF Next, CallStep, CallAnswer

LEMMA AliasStep ==
  ASSUME TypeInv, AskedInv, AliasInv, [Next]_vars
  PROVE  AliasInv'
<1>0. asked \in {"in", "out", "revoked"} /\ "alias" \in NumOps /\ "alias" \in WriteOps
  BY DEF TypeInv, PastType, NumOps, WriteOps
<1>1. ASSUME \A x \in calls' : x.op = "alias" => x \in calls,
             UNCHANGED <<asked, cookie>> \/ asked' \in {"in", "revoked"}
      PROVE  AliasInv'
  BY <1>0, <1>1 DEF AliasInv
<1>2. ASSUME NEW d \in Calls, Starts(d) PROVE AliasInv'
  <2>1. /\ \A x \in calls' : x.op = "alias" => x \in calls \/ x = d
        /\ (d.op = "alias" => d.stage = "sent" /\ d.with = cookie) /\ UNCHANGED <<asked, cookie>>
    BY <1>0, <1>2 DEF Starts, past
  <2>2. QED
    BY <2>1 DEF AliasInv
<1>3. ASSUME NEW c \in calls, CallAnswer(c), c.op # "alias" PROVE AliasInv'
  <2>1. UNCHANGED <<asked, cookie>> \/ asked' \in {"in", "revoked"}
    BY <1>3, AnswerKeepsSession DEF SingleTenantLogin, AnswerLogin, ServeWrite
  <2>2. \A x \in calls' : x.op = "alias" => x \in calls
    BY <1>0, <1>3, AnswerCalls DEF Keeps, Becomes
  <2>3. QED
    BY <1>1, <2>1, <2>2
<1>4. ASSUME NEW c \in calls, AnswerAlias(c) \/ WriteFails(c) PROVE AliasInv'
  <2>1. UNCHANGED <<asked, cookie>>
    BY <1>4 DEF AnswerAlias, WriteFails
  <2>2. calls \ {c} \in SUBSET Calls
    BY DEF TypeInv
  <2>3. \A x \in calls' : x.op = "alias" => x \in calls
    <3>1. AnswerAlias(c) => Show("bare", profile, tab, loading, calls \ {c})
      BY DEF AnswerAlias
    <3>2. ListCall(mount + 1).op # "alias"
      BY DEF ListCall
    <3>3. QED
      BY <1>4, <2>2, <3>1, <3>2, Shows, ObsoleteCalls DEF WriteFails
  <2>4. QED
    BY <1>1, <2>1, <2>3
\* A write of one without a session is refused.
<1>5. ASSUME NEW c \in calls, ServeWrite(c), c.op = "alias" PROVE AliasInv'
  <2>1. PICK stage : /\ stage = IF c.with \in tokens THEN "served" ELSE "refused"
                     /\ calls' = Rest(c, Written(c)) \cup Continues(c, stage)
    BY <1>5 DEF ServeWrite
  <2>2. c \in Calls /\ At(c, stage).stage = stage
    BY AtFields DEF TypeInv
  <2>3. \A x \in calls' : x.op = "alias" => x \in calls \/ x = At(c, stage)
    BY <2>1, <2>2, RestCalls, ContinuesCalls
  <2>4. UNCHANGED <<asked, cookie>>
    BY <1>5 DEF ServeWrite
  <2>5. stage = "served" => asked # "out"
    BY <1>5, <2>1 DEF ServeWrite, AliasInv, AskedInv
  <2>6. QED
    BY <2>1, <2>2, <2>3, <2>4, <2>5 DEF AliasInv
<1>6. CASE User
  <2>1. CASE Reload \/ ScaleKitCallback \/ ScaleKitLogout
    <3>1. \A x \in calls' : x.op # "alias"
      BY <2>1, LoadSteps, LoadFields, UnservedCalls
    <3>2. QED
      BY <3>1 DEF AliasInv
  <2>2. CASE Keeps /\ (LeaveToSignIn \/ \E t \in Tabs : PickTab(t))
    BY <1>0, <1>1, <2>2 DEF Keeps, LeaveToSignIn, PickTab, past
  <2>3. QED
    BY <1>2, <1>6, <2>1, <2>2, UserCalls
<1>7. ASSUME NEW c \in calls, CallAnswer(c), c.op = "alias" PROVE ServeWrite(c) \/ AnswerAlias(c) \/ WriteFails(c)
  BY <1>7 DEF CallAnswer, AnswerProfile, FailProfile, AnswerUser, SingleTenantLogin, AnswerLogin,
     LoginRefused, AnswerCreate, AnswerRevoke, ServeList, AnswerList, Drop
<1>8. CASE UNCHANGED vars
  BY <1>1, <1>8 DEF vars, past
<1>9. QED
  BY <1>3, <1>4, <1>5, <1>6, <1>7, <1>8 DEF Next, CallStep, CallAnswer

\* What waits for the user stays, but for the answers that settle it.
LEMMA OthersStay ==
  ASSUME TypeInv, NEW c \in calls, CallAnswer(c), NEW x \in calls \ {c}, x.op \in {"boot", "login"}
  PROVE  x \in calls'
<1>0. calls \ {c} \in SUBSET Calls /\ x \in calls \ {c}
  BY DEF TypeInv
<1>1. CASE AnswerProfile(c) \/ FailProfile(c) \/ AnswerUser(c) \/ AnswerLogin(c) \/ AnswerAlias(c)
  <2>1. PICK u, p, l, C : Show(u, p, tab, l, C) /\ calls \ {c} \subseteq C
    <3>1. AnswerProfile(c) => \E p : Show(user, p, tab, loading, (calls \ {c}) \cup {At(c, "user")})
      BY DEF AnswerProfile, At
    <3>2. FailProfile(c) => Show(user, profile, tab, FALSE, calls \ {c})
      BY DEF FailProfile
    <3>3. AnswerUser(c) => \/ Show(IF cookie \in tokens THEN "full" ELSE "none", profile, tab, FALSE, calls \ {c})
                           \/ Show("none", profile, tab, FALSE, calls \ {c})
      BY Zenon DEF AnswerUser
    <3>4. AnswerLogin(c) => Show(user, "server", tab, loading, (calls \ {c}) \cup {At(c, "user")})
      BY DEF AnswerLogin, At
    <3>5. AnswerAlias(c) => Show("bare", profile, tab, loading, calls \ {c})
      BY DEF AnswerAlias
    <3>6. calls \ {c} \subseteq calls \ {c} /\ calls \ {c} \subseteq (calls \ {c}) \cup {At(c, "user")}
      OBVIOUS
    <3>7. QED
      BY <1>1, <3>1, <3>2, <3>3, <3>4, <3>5, <3>6, Zenon
  <2>2. C \subseteq calls'
    BY <2>1, Shows
  <2>3. QED
    BY <1>0, <2>1, <2>2
<1>2. CASE SingleTenantLogin(c) \/ ServeWrite(c)
  BY <1>0, <1>2, RestCalls DEF SingleTenantLogin, ServeWrite
<1>3. CASE LoginRefused(c) \/ ServeList(c) \/ AnswerList(c) \/ Drop(c)
  BY <1>0, <1>3 DEF LoginRefused, ServeList, AnswerList, Listed, Drop
<1>4. CASE AnswerCreate(c) \/ AnswerRevoke(c) \/ WriteFails(c)
  BY <1>0, <1>4, ObsoleteCalls DEF AnswerCreate, AnswerRevoke, WriteFails
<1>5. QED
  BY <1>1, <1>2, <1>3, <1>4 DEF CallAnswer

LEMMA UserStep ==
  ASSUME TypeInv, AskedInv, AliasInv, UserInv, [Next]_vars
  PROVE  UserInv'
<1>0. asked \in {"in", "out", "revoked"}
  BY DEF TypeInv, PastType
\* Nothing of the kind happens to the user and the session.
<1>1. ASSUME UNCHANGED <<away, missed, user, isAuthenticated>>, asked' = asked \/ asked' = "revoked",
             \A x \in calls : Pends(x) => x \in calls'
      PROVE  UserInv'
  BY <1>1 DEF UserInv, Pending, Agrees
<1>2. CASE Reload \/ ScaleKitCallback \/ ScaleKitLogout
  <2>1. Boot(clicks) \in calls' /\ Pends(Boot(clicks))
    BY <1>2, LoadSteps, LoadFields DEF Pends
  <2>2. QED
    BY <2>1 DEF UserInv, Pending
<1>3. CASE LeaveToSignIn
  BY <1>3 DEF LeaveToSignIn, UserInv
<1>4. ASSUME NEW t \in Tabs, PickTab(t) PROVE UserInv'
  <2>1. Show(user, profile, t, loading, calls) /\ UNCHANGED <<away, missed, isAuthenticated, asked>>
    BY <1>4 DEF PickTab
  <2>2. user' = user /\ calls \subseteq calls'
    BY <2>1, Shows
  <2>3. QED
    BY <1>1, <2>1, <2>2
<1>5. SubmitLogin \/ CreateToken \/ (\E t \in list : RevokeToken(t)) \/ SaveAlias => UserInv'
  <2>1. SubmitLogin \/ CreateToken \/ (\E t \in list : RevokeToken(t)) \/ SaveAlias
        => UNCHANGED <<away, missed, user, isAuthenticated, asked>> /\ calls \subseteq calls'
    BY DEF SubmitLogin, CreateToken, RevokeToken, SaveAlias, Send, auth, past
  <2>2. QED
    BY <1>1, <2>1
<1>6. ASSUME NEW c \in calls, CallAnswer(c) PROVE UserInv'
  <2>0. /\ away' = away /\ c \in Calls
        /\ \A x \in calls \ {c} : Pends(x) => x \in calls'
    BY <1>6, AnswerFrame, OthersStay DEF Pends, TypeInv
  <2>1. CASE AnswerProfile(c)
    <3>1. c.op = "boot" /\ \E p : Show(user, p, tab, loading, (calls \ {c}) \cup {At(c, "user")})
      BY <2>1 DEF AnswerProfile, At
    <3>2. (calls \ {c}) \cup {At(c, "user")} \subseteq calls'
      BY <3>1, Shows
    <3>3. Pends(At(c, "user"))
      BY <2>0, <3>1, AtFields DEF Pends
    <3>4. QED
      BY <3>2, <3>3 DEF UserInv, Pending
  <2>2. CASE FailProfile(c)
    BY <2>2 DEF FailProfile, UserInv
  <2>3. CASE AnswerUser(c)
    <3>1. \/ missed'
          \/ /\ Show(IF cookie \in tokens THEN "full" ELSE "none", profile, tab, FALSE, calls \ {c})
             /\ isAuthenticated' = (cookie \in tokens)
      BY <2>3, Zenon DEF AnswerUser
    <3>2. asked' = asked
      BY <2>3 DEF AnswerUser
    <3>3. ASSUME Show(IF cookie \in tokens THEN "full" ELSE "none", profile, tab, FALSE, calls \ {c}),
                 isAuthenticated' = (cookie \in tokens)
          PROVE  Agrees'
      <4>1. user' = IF cookie \in tokens THEN "full" ELSE "none"
        BY <3>3, Zenon DEF Show
      <4>2. isAuthenticated' <=> cookie \in tokens
        BY <3>3
      <4>3. QED
        BY <3>2, <4>1, <4>2 DEF Agrees, AskedInv
    <3>4. QED
      BY <3>1, <3>3 DEF UserInv
  <2>4. CASE AnswerLogin(c)
    <3>1. c.op = "login" /\ Show(user, "server", tab, loading, (calls \ {c}) \cup {At(c, "user")})
      BY <2>4 DEF AnswerLogin, At
    <3>2. (calls \ {c}) \cup {At(c, "user")} \subseteq calls'
      BY <3>1, Shows
    <3>3. Pends(At(c, "user"))
      BY <2>0, <3>1, AtFields DEF Pends
    <3>4. QED
      BY <3>2, <3>3 DEF UserInv, Pending
  <2>5. CASE AnswerAlias(c)
    <3>1. /\ Show("bare", profile, tab, loading, calls \ {c}) /\ c.op = "alias" /\ c.stage = "served"
          /\ UNCHANGED <<missed, asked, isAuthenticated>>
      BY <2>5 DEF AnswerAlias
    <3>2. user' = "bare" /\ ~ Pends(c) /\ asked # "out"
      BY <3>1, Shows DEF Pends, AliasInv
    <3>3. Pending => Pending'
      BY <2>0, <3>2 DEF Pending
    <3>4. asked # "revoked" /\ Agrees => Agrees'
      BY <1>0, <3>1, <3>2 DEF Agrees
    <3>5. QED
      BY <2>0, <3>1, <3>3, <3>4 DEF UserInv
  <2>6. CASE ~ (AnswerProfile(c) \/ FailProfile(c) \/ AnswerUser(c) \/ AnswerLogin(c) \/ AnswerAlias(c))
    <3>1. UNCHANGED <<missed, user, isAuthenticated>> /\ (asked' = asked \/ asked' = "revoked")
      BY <1>6, <2>6 DEF CallAnswer, SingleTenantLogin, LoginRefused, ServeWrite, AnswerCreate, AnswerRevoke,
         WriteFails, ServeList, AnswerList, Drop, auth, past
    <3>2. ~ Pends(c)
      BY <1>6, <2>6 DEF CallAnswer, SingleTenantLogin, LoginRefused, ServeWrite, AnswerCreate, AnswerRevoke,
         WriteFails, ServeList, AnswerList, Drop, Pends
    <3>3. QED
      BY <1>1, <2>0, <3>1, <3>2
  <2>7. QED
    BY <2>1, <2>2, <2>3, <2>4, <2>5, <2>6
<1>7. CASE UNCHANGED vars
  BY <1>1, <1>7 DEF vars, auth, past
<1>8. QED
  BY <1>2, <1>3, <1>4, <1>5, <1>6, <1>7 DEF Next, CallStep, CallAnswer, User

LEMMA SignedInvHolds == Spec => [](TypeInv /\ SignedInv)
<1>1. Init => SignedInv
  <2> SUFFICES ASSUME Init PROVE SignedInv
    OBVIOUS
  <2>1. calls = {Boot(0)} /\ Boot(0).op = "boot" /\ Boot(0).stage = "profile"
    BY DEF Init, Boot
  <2>2. AskedInv
    BY SessionAssumption DEF Init, AskedInv
  <2>3. AliasInv /\ UserInv
    BY <2>1 DEF AliasInv, UserInv, Pending, Pends
  <2>4. QED
    BY <2>2, <2>3 DEF SignedInv
<1>2. ASSUME TypeInv, Numbered, SignedInv, [Next]_vars PROVE SignedInv'
  BY <1>2, AskedStep, AliasStep, UserStep DEF SignedInv
<1>3. QED
  BY <1>1, <1>2, NumberedHolds, PTL DEF Spec

\* Whoever signed in last is signed in and whoever signed out is not: the
\* cookie is that of a token exactly when one signed in (AskedInv), and the
\* user follows the cookie unless it is about to be fetched (UserInv).
THEOREM SignedAsAskedHolds == Spec => []SignedAsAsked
<1>1. SignedInv => SignedAsAsked
  BY DEF SignedInv, AskedInv, UserInv, Pending, Agrees, SignedAsAsked, Settled
<1>2. QED
  BY <1>1, SignedInvHolds, PTL

---------------------------------------------------------------------------
(***************************************************************************)
(* The list of tokens.                                                     *)
(***************************************************************************)
Mounted == \A c \in calls : c.op # "boot" => c.mount <= mount
OwnServed == \E c \in calls : c.op \in {"create", "revoke"} /\ c.stage = "served" /\ Mine(c)
Fetches(c) == c.op = "list" /\ c.newest /\ Mine(c)
\* A list that is up to date is that of the server, or will be replaced: by the
\* refresh that follows a write of this component, or by one under way.
ListFresh == upToDate /\ ~ away => list = tokens \/ OwnServed \/ \E c \in calls : Fetches(c)
AnswerFresh == \A c \in calls : Fetches(c) /\ c.stage = "served" => c.got = tokens \/ OwnServed
ListInv == Mounted /\ ListFresh /\ AnswerFresh

LEMMA MountType ==
  ASSUME TypeInv
  PROVE  mount \in Nat /\ \A c \in calls : c.op # "boot" => c.mount \in Nat
BY CallSets DEF TypeInv, ScreenType, Logins, WriteCalls, ListCalls

\* Nothing of the kind happens to the list.
Serves(x) == x.op = "list" \/ (x.op \in {"create", "revoke"} /\ x.stage = "served")
LEMMA ListStill ==
  ASSUME ListFresh, AnswerFresh, UNCHANGED <<tokens, list, mount, page, away>>, upToDate' => upToDate,
         \A x \in calls' : x.op = "list" => x \in calls,
         \A x \in calls : Serves(x) /\ Mine(x) => x \in calls'
  PROVE  ListFresh' /\ AnswerFresh'
<1>1. \A x : Mine(x)' <=> Mine(x)
  BY DEF Mine, Ours
<1>2. OwnServed => OwnServed'
  BY <1>1 DEF OwnServed, Serves
<1>3. \A x \in calls : Fetches(x) => x \in calls' /\ Fetches(x)'
  BY <1>1 DEF Fetches, Serves
<1>4. ListFresh'
  BY <1>2, <1>3 DEF ListFresh
<1>5. AnswerFresh'
  BY <1>1, <1>2 DEF AnswerFresh, Fetches
<1>6. QED
  BY <1>4, <1>5

LEMMA MountStill ==
  ASSUME Mounted, mount' = mount, \A x \in calls' : x.op # "boot" => x \in calls \/ x.mount <= mount
  PROVE  Mounted'
BY DEF Mounted

\* A component that appears starts anew.
LEMMA ShowList ==
  ASSUME TypeInv, ListInv, NEW u, NEW p, NEW t, NEW l, NEW C \in SUBSET Calls, Show(u, p, t, l, C),
         UNCHANGED <<tokens, away, page>>,
         \A x \in C : x.op \notin {"boot", "login"} => x \in calls,
         \A x \in calls : x.op \in {"list", "create", "revoke"} => x \in C,
         \A x \in C : x.op = "login" => x.mount <= mount
  PROVE  ListInv'
<1>1. CASE calls' = C /\ UNCHANGED <<mount, list, shown, upToDate>>
  <2>1. ListFresh' /\ AnswerFresh'
    BY <1>1, ListStill DEF ListInv, Serves
  <2>2. Mounted'
    BY <1>1, MountStill DEF ListInv
  <2>3. QED
    BY <2>1, <2>2 DEF ListInv
<1>2. CASE mount' = mount + 1 /\ upToDate' = FALSE
  <2>1. \A x \in calls' : x \in C \/ x = ListCall(mount + 1)
    BY Shows
  <2>2. mount + 1 \in Nat /\ ListCall(mount + 1).mount = mount + 1 /\ ListCall(mount + 1).stage = "sent"
    BY MountType, NewLists
  <2>3. \A x \in C : x.op # "boot" => x.mount \in Nat /\ x.mount <= mount
    <3>1. \A x \in C : x.op # "boot" => x.mount \in Nat
      BY CallSets DEF Logins, WriteCalls, ListCalls
    <3>2. QED
      BY <3>1 DEF ListInv, Mounted
  <2>4. Mounted'
    BY <1>2, <2>1, <2>2, <2>3, MountType DEF Mounted
  <2>5. AnswerFresh'
    <3>1. \A x \in calls' : x.op = "list" /\ x.stage = "served" => x.mount # mount'
      BY <1>2, <2>1, <2>2, <2>3, MountType
    <3>2. QED
      BY <3>1 DEF AnswerFresh, Fetches, Mine
  <2>6. ListFresh'
    BY <1>2 DEF ListFresh
  <2>7. QED
    BY <2>4, <2>5, <2>6 DEF ListInv
<1>3. QED
  BY <1>1, <1>2, Shows

LEMMA UserList ==
  ASSUME TypeInv, ListInv, User
  PROVE  ListInv'
<1>1. ASSUME NEW t \in Tabs, PickTab(t) PROVE ListInv'
  <2>1. Show(user, profile, t, loading, calls) /\ UNCHANGED <<tokens, away, page>>
    BY <1>1 DEF PickTab
  <2>2. calls \in SUBSET Calls /\ \A x \in calls : x.op = "login" => x.mount <= mount
    BY DEF TypeInv, ListInv, Mounted
  <2>3. QED
    BY <2>1, <2>2, ShowList
<1>2. CASE Reload \/ ScaleKitCallback \/ ScaleKitLogout
  <2>1. /\ \A x \in calls' : x \in Unserved \/ x.op = "boot"
        /\ mount' = mount + 1 /\ upToDate' = FALSE
    BY <1>2, LoadSteps, LoadFields
  <2>2. \A x \in calls' : x.op # "list"
    BY <2>1, UnservedCalls
  <2>3. Mounted'
    BY <2>1, MountType, UnservedCalls DEF Mounted, ListInv
  <2>4. QED
    BY <2>1, <2>2, <2>3 DEF ListInv, ListFresh, AnswerFresh, Fetches
<1>3. CASE LeaveToSignIn
  <2>1. away' = TRUE /\ calls' = Unserved /\ mount' = mount
    BY <1>3 DEF LeaveToSignIn, screen
  <2>2. QED
    BY <2>1, UnservedCalls DEF ListInv, Mounted, ListFresh, AnswerFresh, Fetches
<1>4. ASSUME NEW d, d.op \in NumOps, d.mount = mount, calls' = calls \cup {d},
             UNCHANGED <<tokens, screen, past, page, away>>
      PROVE  ListInv'
  <2>1. ListFresh' /\ AnswerFresh'
    BY <1>4, ListStill DEF ListInv, screen, past, NumOps, WriteOps
  <2>2. Mounted'
    BY <1>4, MountStill, MountType DEF ListInv, screen
  <2>3. QED
    BY <2>1, <2>2 DEF ListInv
<1>5. CASE SubmitLogin
  <2>1. calls' = calls \cup {NewLogin} /\ UNCHANGED <<tokens, screen, past, page, away>>
    BY <1>5 DEF SubmitLogin, NewLogin
  <2>2. QED
    BY <1>4, <2>1, LoginFields DEF NumOps
<1>6. ASSUME NEW op \in WriteOps, NEW t \in Cookies, Send(Write(op, t)) PROVE ListInv'
  <2>1. calls' = calls \cup {Write(op, t)} /\ UNCHANGED <<tokens, screen, past, page, away>>
    BY <1>6 DEF Send
  <2>2. QED
    BY <1>4, <2>1, WriteFields DEF NumOps
<1>7. CreateToken \/ (\E t \in list : RevokeToken(t)) \/ SaveAlias => ListInv'
  <2>1. list \subseteq Cookies /\ NoToken \in Cookies
    BY DEF TypeInv, ScreenType, Cookies
  <2>2. QED
    BY <1>6, <2>1 DEF CreateToken, RevokeToken, SaveAlias, WriteOps
<1>8. QED
  BY <1>1, <1>2, <1>3, <1>5, <1>7 DEF User

\* The server writes the tokens.
LEMMA WriteServed ==
  ASSUME TypeInv, ListInv, NEW c \in calls, NEW w, NEW stage,
         c.op \in NumOps, c.stage = "sent", Serve(c, w), tokens' = w,
         calls' = Rest(c, w) \cup Continues(c, stage),
         w # tokens /\ c.op # "login" => c.op \in {"create", "revoke"} /\ stage = "served",
         UNCHANGED <<list, mount, page, away>>
  PROVE  ListInv'
<1>0. c \in Calls /\ c.op # "list" /\ c.op # "boot" /\ Mounted /\ ListFresh /\ AnswerFresh
      /\ mount \in Nat
  BY MountType DEF TypeInv, NumOps, WriteOps, ListInv
<1>1. \A x \in Continues(c, stage) : x.op = c.op /\ x.mount = c.mount /\ x.page = c.page /\ x.stage = stage
  BY <1>0, ContinuesCalls, AtFields
<1>2. Mounted'
  <2>1. \A x \in Rest(c, w) : x.op # "boot" => x.mount <= mount
    BY <1>0, RestCalls DEF Mounted
  <2>2. QED
    BY <1>0, <1>1, <2>1, MountStill DEF Mounted
<1>3. CASE w = tokens
  <2>1. upToDate' = upToDate /\ calls' = (calls \ {c}) \cup Continues(c, stage)
    BY <1>3, RestCalls DEF Serve
  <2>2. \A x \in calls : Serves(x) => x \in calls'
    BY <1>0, <2>1 DEF Serves
  <2>3. QED
    BY <1>0, <1>1, <1>2, <1>3, <2>1, <2>2, ListStill DEF ListInv
<1>4. CASE w # tokens /\ Foreign(c)
  <2>1. upToDate' = FALSE /\ \A x \in calls' : x.op = "list" => ~ x.newest
    BY <1>0, <1>1, <1>4, RestCalls DEF Serve
  <2>2. QED
    BY <1>2, <2>1 DEF ListInv, ListFresh, AnswerFresh, Fetches
<1>5. CASE w # tokens /\ ~ Foreign(c)
  <2>1. c.op \in {"create", "revoke"} /\ stage = "served" /\ c.page = page /\ c.mount = mount
    BY <1>5 DEF Foreign
  <2>2. CASE away
    BY <1>2, <2>2 DEF ListInv, ListFresh, AnswerFresh, Fetches, Mine, Ours
  <2>3. CASE ~ away
    <3>1. At(c, stage) \in calls'
      BY <2>1, <2>3 DEF Continues, Ours, At
    <3>2. OwnServed'
      BY <1>0, <2>1, <2>3, <3>1, AtFields DEF OwnServed, Mine, Ours
    <3>3. QED
      BY <1>2, <3>2 DEF ListInv, ListFresh, AnswerFresh
  <2>4. QED
    BY <2>2, <2>3
<1>6. QED
  BY <1>3, <1>4, <1>5

LEMMA ShowsList ==
  ASSUME TypeInv, ListInv, NEW c \in calls,
         AnswerProfile(c) \/ FailProfile(c) \/ AnswerUser(c) \/ AnswerLogin(c) \/ AnswerAlias(c)
  PROVE  ListInv'
<1>0. /\ UNCHANGED <<tokens, away, page>> /\ c \in Calls /\ calls \in SUBSET Calls
      /\ c.op \in {"boot", "login", "alias"} /\ (c.op # "boot" => c.mount <= mount)
      /\ Mounted
  BY DEF AnswerProfile, FailProfile, AnswerUser, AnswerLogin, AnswerAlias, TypeInv, ListInv, Mounted
<1>1. ASSUME NEW C, C = calls \ {c} \/ (C = (calls \ {c}) \cup {At(c, "user")} /\ c.op \in {"boot", "login"})
      PROVE  /\ C \in SUBSET Calls
             /\ \A x \in C : x.op \notin {"boot", "login"} => x \in calls
             /\ \A x \in calls : x.op \in {"list", "create", "revoke"} => x \in C
             /\ \A x \in C : x.op = "login" => x.mount <= mount
  <2>1. c.op \in {"boot", "login"} => /\ At(c, "user") \in Calls /\ At(c, "user").op = c.op
                                      /\ (c.op = "login" => At(c, "user").mount = c.mount)
    BY <1>0, AtFields, AtType
  <2>2. QED
    BY <1>0, <1>1, <2>1 DEF Mounted
<1>2. PICK u, p, l, C :
        /\ Show(u, p, tab, l, C)
        /\ C = calls \ {c} \/ (C = (calls \ {c}) \cup {At(c, "user")} /\ c.op \in {"boot", "login"})
  <2>1. AnswerProfile(c) => /\ \E p : Show(user, p, tab, loading, (calls \ {c}) \cup {At(c, "user")})
                            /\ c.op = "boot"
    BY DEF AnswerProfile, At
  <2>2. FailProfile(c) => Show(user, profile, tab, FALSE, calls \ {c})
    BY DEF FailProfile
  <2>3. AnswerUser(c) => \/ Show(IF cookie \in tokens THEN "full" ELSE "none", profile, tab, FALSE, calls \ {c})
                         \/ Show("none", profile, tab, FALSE, calls \ {c})
    BY Zenon DEF AnswerUser
  <2>4. AnswerLogin(c) => /\ Show(user, "server", tab, loading, (calls \ {c}) \cup {At(c, "user")})
                          /\ c.op = "login"
    BY DEF AnswerLogin, At
  <2>5. AnswerAlias(c) => Show("bare", profile, tab, loading, calls \ {c})
    BY DEF AnswerAlias
  <2>6. "boot" \in {"boot", "login"} /\ "login" \in {"boot", "login"}
    OBVIOUS
  <2>7. QED
    BY <2>1, <2>2, <2>3, <2>4, <2>5, <2>6, Zenon
<1>3. QED
  BY <1>0, <1>1, <1>2, ShowList

LEMMA WritesList ==
  ASSUME TypeInv, ListInv, NEW c \in calls, SingleTenantLogin(c) \/ ServeWrite(c)
  PROVE  ListInv'
<1>0. UNCHANGED <<list, mount, page, away>>
  BY DEF SingleTenantLogin, ServeWrite, screen
<1>1. CASE SingleTenantLogin(c)
  <2>1. c.op = "login" /\ c.op \in NumOps /\ c.stage = "sent"
    BY <1>1 DEF SingleTenantLogin, NumOps
  <2>2. CASE /\ tokens' = tokens \cup {c.n} /\ Serve(c, tokens \cup {c.n})
             /\ calls' = Rest(c, tokens \cup {c.n}) \cup Continues(c, "served")
    BY <1>0, <2>1, <2>2, WriteServed
  <2>3. CASE /\ calls' = (calls \ {c}) \cup Continues(c, "refused")
             /\ UNCHANGED <<tokens, upToDate>>
    <3>1. Rest(c, tokens) = calls \ {c} /\ Serve(c, tokens)
      BY <2>3, RestCalls DEF Serve
    <3>2. QED
      BY <1>0, <2>1, <2>3, <3>1, WriteServed
  <2>4. QED
    BY <1>1, <2>2, <2>3 DEF SingleTenantLogin
<1>2. CASE ServeWrite(c)
  <2>1. /\ c.op \in NumOps /\ c.op # "login" /\ c.stage = "sent" /\ tokens' = Written(c)
        /\ Serve(c, Written(c))
    BY <1>2 DEF ServeWrite, NumOps, WriteOps
  <2>2. PICK stage : /\ stage = IF c.with \in tokens THEN "served" ELSE "refused"
                     /\ calls' = Rest(c, Written(c)) \cup Continues(c, stage)
    BY <1>2 DEF ServeWrite
  <2>3. Written(c) # tokens => c.op \in {"create", "revoke"} /\ stage = "served"
    BY <1>2, <2>2 DEF ServeWrite, Written
  <2>4. QED
    BY <1>0, <2>1, <2>2, <2>3, WriteServed
<1>3. QED
  BY <1>1, <1>2

LEMMA OthersList ==
  ASSUME TypeInv, ListInv, NEW c \in calls,
         LoginRefused(c) \/ AnswerCreate(c) \/ AnswerRevoke(c) \/ WriteFails(c) \/ Drop(c)
  PROVE  ListInv'
<1>0. /\ c \in Calls /\ calls \ {c} \in SUBSET Calls /\ Mounted /\ ListFresh /\ AnswerFresh
      /\ mount \in Nat
  BY MountType DEF TypeInv, ListInv
\* A call that does not count is over.
<1>1. ASSUME calls' = calls \ {c}, UNCHANGED <<tokens, list, mount, page, away>>, upToDate' => upToDate,
             ~ Serves(c) \/ ~ Mine(c)
      PROVE  ListInv'
  <2>1. ListFresh' /\ AnswerFresh'
    BY <1>0, <1>1, ListStill
  <2>2. Mounted'
    BY <1>0, <1>1, MountStill
  <2>3. QED
    BY <2>1, <2>2 DEF ListInv
<1>2. CASE LoginRefused(c)
  BY <1>1, <1>2 DEF LoginRefused, screen, past, Serves
<1>3. CASE Drop(c)
  BY <1>1, <1>3 DEF Drop, screen, past
\* A write was answered: the lists under way are obsolete.
<1>4. ASSUME NEW D, calls' = Obsolete(calls \ {c}) \cup D, mount' = mount, away' = away,
             \A x \in D : x.op # "boot" => x.mount <= mount,
             \A x \in D : x.op # "list" \/ x.stage # "served",
             ~ upToDate' \/ \E x \in D : Fetches(x)'
      PROVE  ListInv'
  <2>1. Mounted'
    <3>1. \A x \in Obsolete(calls \ {c}) : x.op # "boot" => x.mount <= mount
      BY <1>0, ObsoleteCalls DEF Mounted
    <3>2. QED
      BY <1>0, <1>4, <3>1 DEF Mounted
  <2>2. ListFresh'
    BY <1>4 DEF ListFresh
  <2>3. AnswerFresh'
    BY <1>0, <1>4, ObsoleteCalls DEF AnswerFresh, Fetches
  <2>4. QED
    BY <2>1, <2>2, <2>3 DEF ListInv
<1>l. /\ ListCall(mount).op = "list" /\ ListCall(mount).mount = mount /\ ListCall(mount).page = page
      /\ ListCall(mount).stage = "sent" /\ ListCall(mount).newest
  BY <1>0, NewLists
<1>5. CASE AnswerCreate(c)
  <2>1. /\ c.op = "create" /\ Mine(c) /\ UNCHANGED <<mount, page, away>>
        /\ calls' = Obsolete(calls \ {c}) \cup {At(c, "listing"), ListCall(mount)}
    BY <1>5 DEF AnswerCreate, At
  <2>2. At(c, "listing").op = "create" /\ At(c, "listing").mount = c.mount /\ c.mount = mount
    BY <1>0, <2>1, AtFields DEF Mine
  <2>3. PICK D : D = {At(c, "listing"), ListCall(mount)}
    OBVIOUS
  <2>4. PICK f \in D : f = ListCall(mount)
    BY <2>3
  <2>5. Fetches(f)'
    BY <1>l, <2>1, <2>4 DEF Fetches, Mine, Ours
  <2>6. /\ \A x \in D : x.op # "boot" => x.mount <= mount
        /\ \A x \in D : x.op # "list" \/ x.stage # "served"
        /\ calls' = Obsolete(calls \ {c}) \cup D
    BY <1>0, <1>l, <2>1, <2>2, <2>3
  <2>7. QED
    BY <1>4, <2>1, <2>5, <2>6
<1>6. CASE AnswerRevoke(c)
  <2>1. /\ c.op = "revoke" /\ Mine(c) /\ UNCHANGED <<mount, page, away>>
        /\ calls' = Obsolete(calls \ {c}) \cup {ListCall(mount)}
    BY <1>6 DEF AnswerRevoke, screen
  <2>2. PICK D : D = {ListCall(mount)}
    OBVIOUS
  <2>3. PICK f \in D : f = ListCall(mount)
    BY <2>2
  <2>4. Fetches(f)'
    BY <1>l, <2>1, <2>3 DEF Fetches, Mine, Ours
  <2>5. /\ \A x \in D : x.op # "boot" => x.mount <= mount
        /\ \A x \in D : x.op # "list" \/ x.stage # "served"
        /\ calls' = Obsolete(calls \ {c}) \cup D
    BY <1>0, <1>l, <2>1, <2>2
  <2>6. QED
    BY <1>4, <2>1, <2>4, <2>5
<1>7. CASE WriteFails(c)
  <2>1. UNCHANGED <<tokens, list, mount, page, away>> /\ c.op \in {"create", "revoke", "alias"}
    BY <1>7 DEF WriteFails, screen
  <2>2. CASE c.stage = "served" /\ c.op # "alias"
    <3>1. calls' = Obsolete(calls \ {c}) /\ ~ upToDate'
      BY <1>7, <2>2 DEF WriteFails
    <3>2. PICK D : D = {}
      OBVIOUS
    <3>3. calls' = Obsolete(calls \ {c}) \cup D
      BY <3>1, <3>2
    <3>4. QED
      BY <1>4, <2>1, <3>1, <3>2, <3>3
  <2>3. CASE ~ (c.stage = "served" /\ c.op # "alias")
    <3>1. calls' = calls \ {c}
      BY <1>7, <2>3 DEF WriteFails
    <3>2. upToDate' => upToDate
      BY <1>7 DEF WriteFails
    <3>3. ~ Serves(c)
      BY <2>1, <2>3 DEF Serves
    <3>4. QED
      BY <1>1, <2>1, <3>1, <3>2, <3>3
  <2>4. QED
    BY <2>2, <2>3
<1>8. QED
  BY <1>2, <1>3, <1>5, <1>6, <1>7

LEMMA ListsList ==
  ASSUME TypeInv, ListInv, NEW c \in calls, ServeList(c) \/ AnswerList(c)
  PROVE  ListInv'
<1>0. /\ c \in ListCalls /\ Mounted /\ ListFresh /\ AnswerFresh /\ c.op = "list"
      /\ UNCHANGED <<tokens, mount, page, away>>
  BY CallSets DEF ServeList, AnswerList, TypeInv, ListInv, screen
<1>m. \A x : Mine(x)' <=> Mine(x)
  BY <1>0 DEF Mine, Ours
<1>1. CASE ServeList(c)
  <2>1. PICK d : /\ calls' = (calls \ {c}) \cup {d} /\ c.stage = "sent" /\ UNCHANGED <<list, upToDate>>
                 /\ d = IF c.with \in tokens THEN [c EXCEPT !.stage = "served", !.got = tokens]
                        ELSE [c EXCEPT !.stage = "refused"]
    BY <1>1 DEF ServeList, screen, past
  <2>2. /\ d.op = "list" /\ d.mount = c.mount /\ d.page = c.page /\ d.newest = c.newest
        /\ d.stage = "served" => d.got = tokens
    BY <1>0, <2>1 DEF ListCalls
  <2>3. OwnServed => OwnServed'
    BY <1>0, <1>m, <2>1 DEF OwnServed
  <2>4. Fetches(c) => Fetches(d)'
    BY <1>0, <1>m, <2>2 DEF Fetches, Mine, Ours
  <2>5. (\E x \in calls : Fetches(x)) => (\E x \in calls : Fetches(x))'
    BY <1>m, <2>1, <2>4 DEF Fetches
  <2>6. ListFresh'
    BY <1>0, <2>1, <2>3, <2>5 DEF ListFresh
  <2>7. AnswerFresh'
    BY <1>0, <1>m, <2>1, <2>2, <2>3 DEF AnswerFresh, Fetches
  <2>8. Mounted'
    BY <1>0, <2>1, <2>2 DEF Mounted
  <2>9. QED
    BY <2>6, <2>7, <2>8 DEF ListInv
<1>2. CASE AnswerList(c)
  <2>1. /\ calls' \subseteq calls
        /\ \A x \in calls : x.op \in {"create", "revoke"} /\ x.stage = "served" => x \in calls'
    BY <1>0, <1>2 DEF AnswerList, Listed
  <2>2. OwnServed => OwnServed'
    BY <1>0, <1>m, <2>1 DEF OwnServed
  <2>3. ListFresh'
    <3>1. CASE c.stage = "served" /\ list' = c.got /\ upToDate' = c.newest
      <4>1. upToDate' => c.got = tokens \/ OwnServed
        BY <1>0, <1>2, <3>1 DEF AnswerList, AnswerFresh, Fetches
      <4>2. QED
        BY <1>0, <2>2, <3>1, <4>1 DEF ListFresh
    <3>2. CASE upToDate' = FALSE
      BY <3>2 DEF ListFresh
    <3>3. QED
      BY <1>2, <3>1, <3>2 DEF AnswerList
  <2>4. AnswerFresh'
    BY <1>0, <1>m, <2>1, <2>2 DEF AnswerFresh, Fetches
  <2>5. Mounted'
    BY <1>0, <2>1 DEF Mounted
  <2>6. QED
    BY <2>3, <2>4, <2>5 DEF ListInv
<1>3. QED
  BY <1>1, <1>2

LEMMA ListInvHolds == Spec => [](TypeInv /\ ListInv)
<1>1. Init => ListInv
  <2> SUFFICES ASSUME Init PROVE ListInv
    OBVIOUS
  <2>1. calls = {Boot(0)} /\ Boot(0).op = "boot" /\ upToDate = FALSE
    BY DEF Init, Boot
  <2>2. QED
    BY <2>1 DEF ListInv, Mounted, ListFresh, AnswerFresh, Fetches
<1>2. ASSUME TypeInv, ListInv, [Next]_vars PROVE ListInv'
  <2>1. CASE UNCHANGED vars
    BY <1>2, <2>1
       DEF vars, screen, past, ListInv, Mounted, ListFresh, AnswerFresh, Fetches, OwnServed, Mine, Ours
  <2>2. QED
    BY <1>2, <2>1, UserList, ShowsList, WritesList, OthersList, ListsList DEF Next, CallStep
<1>3. QED
  BY <1>1, <1>2, TypeInvHolds, PTL DEF Spec

\* Once everything has settled the list of tokens is that of the server, if it
\* is from the refresh sent last and no other component wrote after it: what
\* this component writes is followed by a refresh (ListFresh).
THEOREM SettledTokensHolds == Spec => []SettledTokens
<1>1. ListInv => SettledTokens
  BY DEF ListInv, ListFresh, OwnServed, SettledTokens, Settled
<1>2. QED
  BY <1>1, ListInvHolds, PTL
=============================================================================
