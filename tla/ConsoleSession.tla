---------------------------- MODULE ConsoleSession ----------------------------
(***************************************************************************)
(* Signing in and out of the web client (web/src/context/AuthContext.jsx,  *)
(* SingleTenantLogin and LandingContent of web/src/App.jsx), the tabs, and *)
(* the account's tokens as HomeDashboard and ApiTokensTab show them: every *)
(* session is a token too.                                                 *)
(*                                                                         *)
(* A handler of the client runs to completion between two awaits: one      *)
(* action, with the effects and the mounting of components it causes.  A   *)
(* write is sent, served and answered.  Leaving a component drops what it  *)
(* shows, leaving the page drops the answers it waits for; the calls go on.*)
(*                                                                         *)
(* What is abstracted: a token is the number of the click that made it;    *)
(* tabs alike for this module are one; credentials are right or wrong; the *)
(* sign-in at ScaleKit succeeds or comes back with auth_error.  The drawer *)
(* is open when a tab is picked.                                           *)
(***************************************************************************)
EXTENDS Naturals

CONSTANTS
  NoToken,   \* no cookie, no token shown
  MaxClicks, \* bound: clicks
  MaxFaults  \* bound: calls that fail

ASSUME SessionAssumption ==
  NoToken \notin Nat /\ MaxClicks \in Nat \ {0} /\ MaxFaults \in Nat

\* "urls" stands for the tabs that neither show tokens nor depend on the mode.
Tabs == {"home", "api-tokens", "urls", "enterprise"}

VARIABLES
  mode,    \* AppDeploymentMode of the server
  tokens,  \* account_tokens that are not revoked
  cookie,  \* htc_token
  away,    \* the browser is at the sign-in of ScaleKit
  page,    \* number of the click that loaded the page
  loading, user, isAuthenticated, profile, error, \* AuthContext
  tab,     \* activeTab
  mount,   \* number of the component on the screen
  list, shown, \* apiTokensList and apiToken of that component
  calls,   \* requests in flight
  clicks,  \* number of the next click
  faults,  \* faults so far
  asked,   \* history: signed "in" or "out", or the own session "revoked"
  missed,  \* history: this page failed to fetch the profile or the user
  upToDate \* history: the list is from the last refresh, sent after every
           \* write this component did not make

auth == <<loading, user, isAuthenticated, profile, error>>
screen == <<tab, mount, list, shown>>
past == <<asked, missed, upToDate>>
vars == <<mode, tokens, cookie, away, page, auth, screen, calls, clicks, faults, past>>

Click == ~ away /\ clicks < MaxClicks /\ clicks' = clicks + 1
Fault == faults < MaxFaults /\ faults' = faults + 1

Boot(n) == [op |-> "boot", page |-> n, stage |-> "profile"]

\* ?tab= of the address, or home: nobody is signed in when App first renders.
StartTabAny(param) == param
StartTab(param) == IF param \in Tabs THEN param ELSE "home"
Params == Tabs \cup {"other"}

Init ==
  /\ mode \in {"multitenant", "single_tenant"}
  /\ tokens = {0} /\ cookie \in {0, NoToken}
  /\ away = FALSE /\ page = 0
  /\ loading = TRUE /\ user = "none" /\ isAuthenticated = FALSE
  /\ profile = "default" /\ error = FALSE
  /\ \E param \in Params : tab = StartTab(param)
  /\ mount = 0 /\ list = {} /\ shown = NoToken
  /\ calls = {Boot(0)}
  /\ clicks = 1 /\ faults = 0
  /\ asked = IF cookie = NoToken THEN "out" ELSE "in"
  /\ missed = FALSE /\ upToDate = FALSE

---------------------------------------------------------------------------
(***************************************************************************)
(* What is on the screen.                                                  *)
(***************************************************************************)

\* The account's app_profile, else the one fetched before anybody signed in.
\* A saved alias brings back an account without app_profile.
IsSingleTenantOf(u, p) == mode = "single_tenant" /\ u = "full"
IsSingleTenant(u, p) == mode = "single_tenant" /\ (u = "full" \/ p = "server")

Component(u, t, l) ==
  IF l THEN "spinner" ELSE IF t = "home" /\ u = "none" THEN "landing" ELSE t
Showing == Component(user, tab, loading)
TokenLists == {"home", "api-tokens"}

\* fetchTokens; a newer one makes the older ones obsolete.
Obsolete(C) == {IF c.op = "list" THEN [c EXCEPT !.newest = FALSE] ELSE c : c \in C}
ListCall(m) ==
  [op |-> "list", page |-> page, mount |-> m, with |-> cookie, newest |-> TRUE,
   stage |-> "sent", got |-> {}]

\* The screen after a change of u, p, t or l; C is what is left in flight.
\* Single-tenant deployments have no enterprise tab: an effect leaves it.  A
\* component that appears starts empty, and those with tokens fetch them.
Show(u, p, t, l, C) ==
  LET to == IF IsSingleTenant(u, p) /\ t = "enterprise" THEN "home" ELSE t
      component == Component(u, to, l)
  IN
  /\ user' = u /\ profile' = p /\ tab' = to /\ loading' = l
  /\ IF component = Showing
     THEN calls' = C /\ UNCHANGED <<mount, list, shown, upToDate>>
     ELSE /\ mount' = mount + 1 /\ list' = {} /\ shown' = NoToken
          /\ calls' = IF component \in TokenLists THEN C \cup {ListCall(mount + 1)} ELSE C
          /\ upToDate' = FALSE

\* SideDrawer, and the round button.
PickTab(t) ==
  /\ Click /\ ~ loading
  /\ t \in Tabs \ {tab}
  /\ t = "enterprise" => ~ IsSingleTenant(user, profile)
  /\ Show(user, profile, t, loading, calls)
  /\ UNCHANGED <<mode, tokens, cookie, away, page, isAuthenticated, error, faults, asked, missed>>

\* A page is left: calls that were sent may still be served.
Unserved == {c \in calls : c.op \in {"login", "create", "revoke"} /\ c.stage = "sent"}
Load(t, failed) ==
  /\ away' = FALSE
  /\ page' = clicks
  /\ loading' = TRUE /\ user' = "none" /\ isAuthenticated' = FALSE
  /\ profile' = "default" /\ error' = failed
  /\ tab' = t
  /\ mount' = mount + 1 /\ list' = {} /\ shown' = NoToken
  /\ calls' = Unserved \cup {Boot(clicks)}
  /\ missed' = FALSE /\ upToDate' = FALSE

\* What was asked of the page that is loaded next.
Forgotten == IF asked = "revoked" THEN "out" ELSE asked

Reload ==
  /\ Click
  /\ \E param \in Params : Load(StartTab(param), FALSE)
  /\ asked' = Forgotten
  /\ UNCHANGED <<mode, tokens, cookie, faults>>

---------------------------------------------------------------------------
(***************************************************************************)
(* Signing in and out.                                                     *)
(***************************************************************************)
Ours(c) == c.page = page /\ ~ away

\* The server is reached before the user is asked for; a response that is not
\* ok leaves the default profile, no response ends the start.
AnswerProfile(c) ==
  /\ c.op = "boot" /\ c.stage = "profile"
  /\ LET C == (calls \ {c}) \cup {[c EXCEPT !.stage = "user"]} IN
     \/ /\ Show(user, "server", tab, loading, C)
        /\ UNCHANGED <<faults, missed>>
     \/ /\ Fault /\ missed' = TRUE
        /\ Show(user, "default", tab, loading, C)
  /\ UNCHANGED <<mode, tokens, cookie, away, page, isAuthenticated, error, clicks, asked>>

FailProfileStuck(c) ==
  /\ c.op = "boot" /\ c.stage = "profile"
  /\ Fault /\ missed' = TRUE
  /\ Show(user, profile, tab, loading, calls \ {c})
  /\ UNCHANGED <<mode, tokens, cookie, away, page, isAuthenticated, error, clicks, asked>>
FailProfile(c) ==
  /\ c.op = "boot" /\ c.stage = "profile"
  /\ Fault /\ missed' = TRUE
  /\ Show(user, profile, tab, FALSE, calls \ {c})
  /\ UNCHANGED <<mode, tokens, cookie, away, page, isAuthenticated, error, clicks, asked>>

\* fetchUser, at the start and after a sign-in.
AnswerUser(c) ==
  /\ c.op \in {"boot", "login"} /\ c.stage = "user" /\ Ours(c)
  /\ LET ok == cookie \in tokens IN
     \/ /\ Show(IF ok THEN "full" ELSE "none", profile, tab, FALSE, calls \ {c})
        /\ isAuthenticated' = ok
        /\ UNCHANGED <<faults, missed>>
     \/ /\ Fault /\ missed' = TRUE
        /\ Show("none", profile, tab, FALSE, calls \ {c})
        /\ isAuthenticated' = FALSE
  /\ UNCHANGED <<mode, tokens, cookie, away, page, error, clicks, asked>>

\* SingleTenantLogin; its button is disabled while it waits.
SubmitLogin ==
  /\ Showing = "landing" /\ IsSingleTenant(user, profile)
  /\ \A c \in calls : c.op = "login" => c.mount # mount
  /\ Click
  /\ calls' = calls \cup
       {[op |-> "login", n |-> clicks, page |-> page, mount |-> mount, stage |-> "sent"]}
  /\ error' = FALSE
  /\ UNCHANGED <<mode, tokens, cookie, away, page, loading, user, isAuthenticated, profile,
                 screen, faults, past>>

\* A write of another component: the list on the screen does not follow it.
Foreign(c) == c.op = "login" \/ c.page # page \/ c.mount # mount
Serve(c, written) ==
  IF written # tokens /\ Foreign(c)
  THEN upToDate' = FALSE
  ELSE UNCHANGED upToDate
Rest(c, written) ==
  IF written # tokens /\ Foreign(c) THEN Obsolete(calls \ {c}) ELSE calls \ {c}
Continues(c, stage) == IF Ours(c) THEN {[c EXCEPT !.stage = stage]} ELSE {}

\* CreateAccount adds a token for the session of a right secret.
SingleTenantLogin(c) ==
  /\ c.op = "login" /\ c.stage = "sent"
  /\ \/ /\ tokens' = tokens \cup {c.n}
        /\ Serve(c, tokens \cup {c.n})
        /\ calls' = Rest(c, tokens \cup {c.n}) \cup Continues(c, "served")
     \/ /\ calls' = (calls \ {c}) \cup Continues(c, "refused")
        /\ UNCHANGED <<tokens, upToDate>>
  /\ UNCHANGED <<mode, cookie, away, page, auth, screen, clicks, faults, asked, missed>>

\* The cookie comes with the answer; the user is fetched with it.
AnswerLoginUnfetched(c) ==
  /\ c.op = "login" /\ c.stage = "served" /\ Ours(c)
  /\ cookie' = c.n
  /\ asked' = IF c.n \in tokens THEN "in" ELSE "revoked"
  /\ Show(user, "server", tab, loading, calls \ {c})
  /\ UNCHANGED <<mode, tokens, away, page, isAuthenticated, error, clicks, faults, missed>>
AnswerLogin(c) ==
  /\ c.op = "login" /\ c.stage = "served" /\ Ours(c)
  /\ cookie' = c.n
  /\ asked' = IF c.n \in tokens THEN "in" ELSE "revoked"
  /\ Show(user, "server", tab, loading, (calls \ {c}) \cup {[c EXCEPT !.stage = "user"]})
  /\ UNCHANGED <<mode, tokens, away, page, isAuthenticated, error, clicks, faults, missed>>

LoginRefused(c) ==
  /\ c.op = "login" /\ Ours(c)
  /\ \/ c.stage = "refused" /\ UNCHANGED faults
     \/ c.stage \in {"sent", "served"} /\ Fault
  /\ calls' = calls \ {c}
  /\ error' = (error \/ c.stage = "refused")
  /\ UNCHANGED <<mode, tokens, cookie, away, page, loading, user, isAuthenticated, profile,
                 screen, clicks, past>>

\* Login of TopAppBar and "Get Started" of LandingContent.
LeaveToSignIn ==
  /\ ~ loading /\ user = "none" /\ ~ IsSingleTenant(user, profile)
  /\ Click
  /\ away' = TRUE
  /\ page' = clicks
  /\ calls' = Unserved
  /\ UNCHANGED <<mode, tokens, cookie, auth, screen, faults, past>>

\* ScaleKitCallback: a token and its cookie, or auth_error.
ScaleKitCallback ==
  /\ away
  /\ clicks' = clicks
  /\ \/ /\ tokens' = tokens \cup {page} /\ cookie' = page /\ asked' = "in"
        /\ Load("home", FALSE)
     \/ /\ asked' = Forgotten
        /\ Load("home", TRUE)
        /\ UNCHANGED <<tokens, cookie>>
  /\ UNCHANGED <<mode, faults>>

\* ScaleKitLogout drops the cookie, not the token.
ScaleKitLogoutKept ==
  /\ ~ loading /\ user # "none"
  /\ Click
  /\ Load("home", FALSE)
  /\ asked' = "out"
  /\ UNCHANGED <<mode, tokens, cookie, faults>>
ScaleKitLogout ==
  /\ ~ loading /\ user # "none"
  /\ Click
  /\ cookie' = NoToken
  /\ Load("home", FALSE)
  /\ asked' = "out"
  /\ UNCHANGED <<mode, tokens, faults>>

---------------------------------------------------------------------------
(***************************************************************************)
(* The tokens of the account, and its alias.                               *)
(***************************************************************************)
Send(c) ==
  /\ calls' = calls \cup {c}
  /\ UNCHANGED <<mode, tokens, cookie, away, page, auth, screen, faults, past>>
Write(op, t) ==
  [op |-> op, n |-> clicks, page |-> page, mount |-> mount, with |-> cookie, token |-> t,
   stage |-> "sent"]

\* Of HomeDashboard and of ApiTokensTab; disabled until the list is back.
CreateToken ==
  /\ Showing \in TokenLists
  /\ \A c \in calls : c.op = "create" => c.mount # mount
  /\ Click
  /\ Send(Write("create", NoToken))

RevokeToken(t) ==
  /\ Showing = "api-tokens" /\ t \in list
  /\ Click
  /\ Send(Write("revoke", t))

\* UrlsTab; an alias that is sent is set.
SaveAlias ==
  /\ Showing = "urls"
  /\ \A c \in calls : c.op # "alias"
  /\ Click
  /\ Send(Write("alias", NoToken))

\* AuthMiddleware asks for the token the call was sent with.
Written(c) ==
  IF c.with \notin tokens THEN tokens
  ELSE CASE c.op = "create" -> tokens \cup {c.n}
         [] c.op = "revoke" -> tokens \ {c.token}
         [] OTHER -> tokens

ServeWrite(c) ==
  /\ c.op \in {"create", "revoke", "alias"} /\ c.stage = "sent"
  /\ tokens' = Written(c)
  /\ Serve(c, Written(c))
  /\ calls' = Rest(c, Written(c)) \cup Continues(c, IF c.with \in tokens THEN "served" ELSE "refused")
  /\ asked' = IF c.op = "revoke" /\ c.token = cookie /\ cookie \notin Written(c)
              THEN "revoked" ELSE asked
  /\ UNCHANGED <<mode, cookie, away, page, auth, screen, clicks, faults, missed>>

Mine(c) == Ours(c) /\ c.mount = mount

AnswerCreate(c) ==
  /\ c.op = "create" /\ c.stage = "served" /\ Mine(c)
  /\ shown' = c.n
  /\ calls' = Obsolete(calls \ {c}) \cup {[c EXCEPT !.stage = "listing"], ListCall(mount)}
  /\ UNCHANGED <<mode, tokens, cookie, away, page, auth, tab, mount, list, clicks, faults, past>>

AnswerRevokeUnlisted(c) ==
  /\ c.op = "revoke" /\ c.stage = "served" /\ Mine(c)
  /\ calls' = calls \ {c}
  /\ UNCHANGED <<mode, tokens, cookie, away, page, auth, screen, clicks, faults, past>>
AnswerRevoke(c) ==
  /\ c.op = "revoke" /\ c.stage = "served" /\ Mine(c)
  /\ calls' = Obsolete(calls \ {c}) \cup {ListCall(mount)}
  /\ UNCHANGED <<mode, tokens, cookie, away, page, auth, screen, clicks, faults, past>>

\* setUser is the context's: it works when UrlsTab is gone.
AnswerAlias(c) ==
  /\ c.op = "alias" /\ c.stage = "served" /\ Ours(c)
  /\ Show("bare", profile, tab, loading, calls \ {c})
  /\ UNCHANGED <<mode, tokens, cookie, away, page, isAuthenticated, error, clicks, faults,
                 asked, missed>>

\* A write fails or is refused: nothing is fetched again.
WriteFails(c) ==
  /\ c.op \in {"create", "revoke", "alias"} /\ Ours(c)
  /\ \/ c.stage = "refused" /\ UNCHANGED <<faults, upToDate>>
     \/ /\ c.stage \in {"sent", "served"} /\ Fault
        /\ upToDate' = (upToDate /\ c.stage = "sent")
  /\ calls' = IF c.stage = "served" /\ c.op # "alias" THEN Obsolete(calls \ {c}) ELSE calls \ {c}
  /\ UNCHANGED <<mode, tokens, cookie, away, page, auth, screen, clicks, asked, missed>>

\* The component of these is gone.
Drop(c) ==
  /\ c.op \in {"create", "revoke", "list"} /\ c.stage # "sent" /\ ~ Mine(c)
  /\ calls' = calls \ {c}
  /\ UNCHANGED <<mode, tokens, cookie, away, page, auth, screen, clicks, faults, past>>

ServeList(c) ==
  /\ c.op = "list" /\ c.stage = "sent"
  /\ calls' = (calls \ {c}) \cup
       {IF c.with \in tokens THEN [c EXCEPT !.stage = "served", !.got = tokens]
        ELSE [c EXCEPT !.stage = "refused"]}
  /\ UNCHANGED <<mode, tokens, cookie, away, page, auth, screen, clicks, faults, past>>

\* fetchTokens keeps its errors to itself; a creation ends with it.
Listed(c) ==
  calls' = {x \in calls \ {c} : ~ (x.op = "create" /\ x.stage = "listing" /\ x.mount = mount)}

AnswerList(c) ==
  /\ c.op = "list" /\ Mine(c)
  /\ \/ c.stage = "served" /\ list' = c.got /\ upToDate' = c.newest /\ UNCHANGED faults
     \/ c.stage = "refused" /\ upToDate' = FALSE /\ UNCHANGED <<list, faults>>
     \/ c.stage = "served" /\ Fault /\ upToDate' = FALSE /\ UNCHANGED list
  /\ Listed(c)
  /\ UNCHANGED <<mode, tokens, cookie, away, page, auth, tab, mount, shown, clicks, asked, missed>>

---------------------------------------------------------------------------
User ==
  \/ \E t \in Tabs : PickTab(t)
  \/ Reload \/ SubmitLogin \/ LeaveToSignIn \/ ScaleKitCallback \/ ScaleKitLogout
  \/ CreateToken \/ (\E t \in list : RevokeToken(t)) \/ SaveAlias

CallStep ==
  \E c \in calls :
    \/ AnswerProfile(c) \/ FailProfile(c) \/ AnswerUser(c)
    \/ SingleTenantLogin(c) \/ AnswerLogin(c) \/ LoginRefused(c)
    \/ ServeWrite(c) \/ AnswerCreate(c) \/ AnswerRevoke(c) \/ AnswerAlias(c) \/ WriteFails(c)
    \/ ServeList(c) \/ AnswerList(c) \/ Drop(c)

Next == User \/ CallStep
Spec == Init /\ [][Next]_vars

\* A request that was sent is answered or fails; the user owes nothing.
FairSpec == Spec /\ WF_vars(CallStep)
---------------------------------------------------------------------------
(***************************************************************************)
(* Properties.                                                             *)
(***************************************************************************)
Numbers == 0..MaxClicks

\* Type invariant; an unknown ?tab= is no tab.
TypeOK ==
  /\ mode \in {"multitenant", "single_tenant"}
  /\ tokens \subseteq Numbers /\ cookie \in Numbers \cup {NoToken}
  /\ away \in BOOLEAN /\ loading \in BOOLEAN /\ isAuthenticated \in BOOLEAN /\ error \in BOOLEAN
  /\ user \in {"none", "full", "bare"} /\ profile \in {"default", "server"}
  /\ tab \in Tabs
  /\ list \subseteq Numbers /\ shown \in Numbers \cup {NoToken}
  /\ \A c \in calls : c.op \in {"boot", "login", "create", "revoke", "alias", "list"}
  /\ clicks \in 1..MaxClicks /\ faults \in 0..MaxFaults

Settled == ~ away /\ calls = {}

\* Whoever signed in last is signed in and whoever signed out is not, across
\* reloads, tabs and answers in any order: user, isAuthenticated and the
\* cookie agree unless this page missed an answer or revoked its own session.
SignedAsAsked ==
  Settled /\ ~ missed /\ asked # "revoked" =>
    /\ user # "none" <=> asked = "in"
    /\ isAuthenticated <=> user # "none"
    /\ asked = "in" <=> cookie \in tokens

\* The console is that of the server's deployment mode, also after an alias
\* was saved, unless this page missed the profile: a single-tenant one has no
\* enterprise tab and sends nobody to ScaleKit.
RightMode ==
  ~ missed /\ ~ loading =>
    /\ IsSingleTenant(user, profile) <=> mode = "single_tenant"
    /\ tab = "enterprise" \/ away => mode = "multitenant"

\* Once everything has settled the list is that of the server, if its last
\* refresh was answered last, after the writes of other components.
SettledTokens ==
  Settled /\ Showing \in TokenLists /\ upToDate => list = tokens

\* The spinner at the start, "UNLOCKING..." and "CREATING..." end, whatever
\* call fails.
Waiting == \E c \in calls : c.op \in {"login", "create"}
SpinnersStop ==
  /\ loading ~> ~ loading
  /\ Waiting ~> ~ Waiting
=============================================================================
