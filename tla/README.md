# AgentHook in TLA+

AgentHook (the Go service of this repository) receives webhooks for accounts,
stores each as an event, optionally rewrites its payload, decides on an action
with rules, a router and an LLM, carries the action out (mostly HTTP posts to
the account's forward targets) and records the outcome. This directory
specifies the parts of the service and of its web client whose correctness
depends on the order of steps: modules in TLA+, configurations for TLC, and
proofs for TLAPS.

1. [The system](#1-the-system) - inventory
2. [What is modelled](#2-what-is-modelled) - modules, state, actions, abstractions
3. [What TLC checks](#3-what-tlc-checks) - runs, bounds, fairness
4. [Where code and documents disagree](#4-where-code-and-documents-disagree)
5. [What is proved](#5-what-is-proved)
6. [What is not modelled](#6-what-is-not-modelled)
7. [Plan](#7-plan)

To run: `tlc -config EventPipeline_races.cfg MCEventPipeline` (a run is a
module and a configuration, `PROJECT.json` pairs them), and
`tlapm EventPipelineProofs.tla`.

## 1. The system

| Component | State | Operations | Interacts with |
|---|---|---|---|
| **Event pipeline** `internal/service/actions.go` | event rows (status, source id, text, tags) in the store; locals of each request | ProcessWebhook, ReprocessEvent, processWithPolicy, Execute | store, transform engine, router, LLM, Pinecone, forward targets |
| **Webhook identity registry** `internal/store/memory.go`, `mysql.go`, `internal/webhookid` | accounts with aliases, types, secrets, identities, their indexes | create account, change alias, create/delete secret and type, block/restore, resolve | ingestion, mail, receipt guard |
| **Type discovery and auto promotion** `internal/service/resolver.go`, `autopromote.go` | signatures, transforms, one promotion row per account and type | Resolve, ObserveCandidate, ObserveDeterministicHit | store, two classifiers, classify endpoint |
| **Routing and decision** `routing.go`, `integration_targets.go`, `payload_text.go` | none | routeEvent, chooseSkill, validateAndNormalizeDecision | pipeline, LLM |
| **Transform engine** `transform.go` | none (active transform read per call) | Apply: DSL or WASM | store, pipeline |
| **LLM compaction, fingerprint** | none | pure functions on payloads | pipeline, resolver |
| **Integrations** `internal/integrations` | none | LLM with fallback chain, Pinecone, Telegram, classifiers; each with a timeout | outside services |
| **Store** `internal/store` | all tables | the `domain.Store` interface; a mutex in memory, SQL on MySQL/TiDB | everything |
| **Migrations** `migrations.go` | `schema_migrations` | apply statements, record | start of an instance |
| **HTTP API** `internal/transport/http` | none | ingest, listeners, secrets, events, skills, policies | all services |
| **Single-tenant claim** `memory.go`, `mysql.go`, `handlers.go` | claims with expiry and consumption | ensure, consume, record account | start-up, account creation |
| **Authentication** `internal/auth` | tokens in the store, a cookie in the browser | session from token or ScaleKit, sign-in, sign-out | store, web client |
| **Web client: session and tokens** `AuthContext.jsx`, `App.jsx` | user, profile, loading, error, tab, lists of tokens | load, sign in and out, change tab, create and revoke tokens | authentication, profile |
| **Web client: listeners** `UrlsTab` | listeners, secrets, identities, busy flags | create and delete listeners and secrets, block, restore, change alias | listener and identity endpoints |
| **Web client: skills** `SkillsTab` | lists and counts per listener, selection | prefetch, create, save, apply packs and presets | skill and preset endpoints |
| **Web client: events** `App`, `StoryboardCard`, `SkillsTab` | events, filter, marks, selected messages | fetch, filter, re-run one event or a selection | event endpoints, pipeline |
| **Web client: integrations** `IntegrationsTab`, `IntegrationSecretsTab`, `BYOKSettings` | a list and a form each | list, create, edit, delete | target, secret and provider endpoints |
| **Mail service, receipt guard** `internal/mail` | mailboxes, threads, messages, attachments | ingest, send, reply, evaluate recipient | S3/SES, registry, ingest endpoint |
| **Runtimes** `cmd/*`, `internal/app`, `internal/config` | process-wide initialisation | server, Lambdas, CLI | - |
| **Observability, security, edge worker, CLI, static pages, scripts** | none that decisions depend on | - | - |

How the parts meet: a delivery `POST /url/{alias}/{secret}` resolves alias and
secret in the registry, then runs the pipeline in the same goroutine. A mail
does the same through the mail service, which posts it to the ingest endpoint.
The classify endpoint runs the resolver, whose observers move signatures and
transforms; the pipeline applies the transforms that became active. All state
is in the store, which several instances (server processes or Lambdas) share;
no lock is held between two store calls of a request. The web client is one
page whose handlers run between two awaits; every button sends requests whose
answers may come back in any order and change React state that other handlers
read before.

**What is hard.** (a) Redeliveries: senders retry, so two deliveries of one
source id race through lookup and insert on different instances. (b) Partial
failure: many store errors are dropped, a fan-out may fail midway, an instance
may die between the action and the record of it. (c) Read-modify-write over
several calls: target lists and the promotion row are used long after they
were read. (d) Long legal histories of the registry: aliases move between
accounts, addresses are deleted, blocked, restored and recreated, and four
indexes have to agree throughout. (e) The web client: a handler works with the
state of the render it was made in, answers overtake each other, a tab is left
under calls in flight, a button may be clicked while another call runs, and
one flag or form serves many rows.

**What makes each correct.** The pipeline: one row per source id, effects at
most once per target over all deliveries, a row that shows only what was
carried out, acknowledgements that are kept, every request ends. The registry:
an address belongs to one account for ever, changes of alias break no
listener, resolution stays within the account. Promotion: only what the
cutoffs ask for is promoted, whatever copies overwrite each other. Mail: a mail
is stored and forwarded once or not at all. The web client: once its calls have
settled it shows what the server has, under conditions that are stated; what a
user typed reaches the row it was typed for and is done once; a sign-in and the
spinner end;
deleting a listener leaves no live secret. The hazards at their lines, with the
property that covers each, are in `PROJECT.json`.

## 2. What is modelled

### EventPipeline, IdempotentIngest

`EventPipeline` is the event pipeline with any number of concurrent requests
(`Requests`), each the goroutine of one HTTP call. `pc[r]` is the call the
request is about to make; every call on the store or an outside service is a
step of its own.

| Module | Code |
|---|---|
| `status`, `rowSrc`, `markedBy`, `textBy`, `tagsBy` | columns of an event row: `status`, `source_event_id`, and who wrote status/action, `processed_text`, `tags_json` |
| `src`, `ev`, `snap`, `to`, `todo` | locals: `sourceEventID`, `event`, the list from ListForwardTargets, targets of the decision, targets not tried yet |
| `hits[r][t]` | posts of request r that reached target t (the world outside) |
| `ProcessWebhook`, `FindDuplicate`, `FindNothing`, `ApplyTransform`, `CreateEvent`, `CreateEventConflict`, `CreateEventFails` | ProcessWebhook up to the insert |
| `LoadTargets`, `Decide`, `Post`, `PostFails`, `ExecuteDone` | processWithPolicy and the loop of forwardHTTP |
| `MarkFailed`, `MarkProcessed`, `SaveProcessedText`, `SaveTags` | the writes after the action |
| `ReprocessEvent`, `ReprocessRefused` | the reprocess endpoint |
| `UpdateForwardTarget`, `Crash` | the owner edits targets; an instance dies |

Faults, counted by `faults` up to `MaxFaults`: a failed lookup (the code takes
any error for "no row"), an insert that fails before or after it took effect,
a failed list of targets, a failed status, text or tags write, a crash. A
failed post needs no budget: it may happen at any post, before or after the
target acted on it. That a post *succeeded* means, here and in `OnlyCompletedRunsShow`,
what it means in the code: the target answered, with whatever HTTP status
(`actions.go`, postJSONToHTTP). An answer of 500 is a success.

Abstractions: a payload is its source id; a decision is a set of targets out
of `Decisions` (none, one of the list that was read, or all of type http),
which is what survives validateAndNormalizeDecision; the Pinecone query and upsert, the
LLM and the router change no state the properties speak of and are part of
`Decide`. Events are those of one account: the key is (account, source id).

`IdempotentIngest` states what the pipeline promises without its
interleavings: an id is stored once, only a stored id is acknowledged or has
effects, each target is reached for it by one delivery.

### WebhookIdentity

The registry as MemoryStore keeps it: each Go map is a function whose domain
grows and shrinks (`accounts`, `accountsByAlias`, `secretsByID`,
`secretByHash`, `identitiesByID`, `identityByLocalPart`), and each exported
operation, which runs under the store's mutex, is one action that changes all
the maps the method changes: `CreateAccount`, `UpdateAccountPublicAlias` with
the whole loop of rekeyActiveIdentitiesForAliasChange, `CreateWebhookType`,
`DeleteWebhookType`, `CreateSecretWithValue`, `DeleteSecret`,
`BlockWebhookIdentity`, `RestoreWebhookIdentity`. ResolveSecretAnyType is the
query the properties are about.

A local part is the pair of normalised alias and secret value. `Normalize` is
a constant function because slugs are made by slugFromEmail and are not
normalised: two different aliases may name the same addresses. The rekey loop
runs in the order of a Go map, so it may have moved any part of the identities
when it meets a reserved address, and the error undoes nothing: the action
chooses any subset then. Left out: with an unchanged alias the loop may also
meet copies it just made (one more tombstone of the same address), and token
rows, which no address depends on.

### AutoPromote

One type of one account that is not deterministic-only. `row` is its
AutoPromoteState, `sigs` its signatures in order of creation, `trs` the status
of its transforms. A worker `w` is one call of the classify endpoint: it
matches an enabled signature and measures a hit (`Match`,
`ObserveDeterministicHit`), or the classifiers name the type (`Discover`,
`SaveSignature`, `SaveTransform`, `ObserveCandidate`). The observers decide on
a copy `st[w]` of the row and carry the decision out call by call
(`FindSignature`, `SetSignature`, `LatestTransform`, `PendingTransform`,
`SetTransform`), and `UpsertAutoPromoteState` writes the copy back. `confident`
and `measured` are history variables: nothing reads them but the properties.

Abstractions: rates are percent; a confidence is whether it meets
MinConfidence; signatures of the owner are those whose source the promoter
does not take for its own; creation times order signatures strictly (MySQL
stores seconds, so equal times are resolved there arbitrarily). Every measured
hit is a success in the code (`autopromote.go:77-78`), so a rate up to 100
percent always holds and the rollback branch is reached with a higher one only:
the theorems cover it (they hold for every rate), the run does not.

### The web client

Five modules, one per part of the page. They share their form: an action is a
click, the part of a handler between two awaits, a request being served, or
its answer. A request in flight is a record; `got` is what the server answered
and `Unread` before that, so that an answer shows the table of an earlier
moment and answers overtake each other. What a handler captured (the `selectedTypeKey`,
`editingTargetID` or list of its render) is a field of its call. Clicks are
numbered, and the numbers name calls and the rows they make. `MaxClicks` and
`MaxFaults` are the bounds. What a property needs to know about the past (was
the last request answered last, did a write overlap it) is kept in history
variables that no guard reads.

*A tab that is left* is unmounted, whatever it has in flight. In `SkillConsole`
and `ListenerConsole` that is `Leave` and `Return`; `EventConsole`,
`IntegrationConsole` and `ConsoleSession` have it in the action that changes the
tab. Three things follow in the code, and so in the modules: what the tab knew is
gone, its busy flags and markers included, so a button is enabled under a call of
the same tab as it was open before; requests that were sent are still carried out
by the server, and a handler that goes on after an await still sends its next
request; and what such a handler sets is shown by nobody, unless it is state of
`App`, as the listeners are. Every change of tab makes `App` fetch the listeners
(`App.jsx:1206`). The exit animation, during which the old tab may stay in the
page for a moment, is left out: leaving takes effect at once.

**ConsoleSession** (`AuthContext.jsx`, `App`, the two lists of tokens): the
start (`Load`, `AnswerProfile`, `FailProfile`, `AnswerUser`), sign-in in both
deployment modes, sign-out, reloads, tabs (`Show`: a tab mounts a component and
drops the state of the one before), tokens made and revoked in either
component, and the alias form's effect on the user. `user` is none, full or
`bare`: the answer of `PUT /api/me`, which replaces it, has no profile. The
server is its set of valid tokens and one cookie. The browser stores a cookie
when the response arrives, a moment before the code after the `await` runs: the
module makes the two one step, so a cookie and the answer that carried it are
seen together.

**ListenerConsole** (`UrlsTab`, the listener and identity endpoints): the
handlers of the server that make several store calls are a step per call
(`CreateWebhookType`, `StoreSecret`; `ReadListener`, `DeleteSecret`,
`DeleteWebhookType`), with a store that is MySQLStore: the deletion of a type
removes its row only. A refresh keeps the set `seen` of what its table was
since it was sent and answers any of them; a read of several store calls is
one moment. Addresses are new ones: WebhookIdentity has those that come back.

A key may have several types. Their order is not that of the clicks: `at` is
`created_at`, the database's clock in whole seconds (`mysql.go:340`), `uuid` the
place of its random id among those of one second, and both are any values
(`MaxSecond`, `MaxUuid`), so a clock that is set back is in. findListenerType takes the last by the two
(`NewestType`, `handlers.go:2544`); DeleteListener takes the first by
`created_at` alone, any of those of one second (`OldestTypes`, `mysql.go:490`),
which may be the same row. What the tab shows after a deletion under two types
may then be revoked, so `ShownSecretActive` speaks of keys that never had two
(`doubled` notes the others, also those that have one again).

Left and reopened tabs: `first` is the number of the first click since the tab
was left, and `Left(c)` says that call c is of the tab as it was before. The
answer to such a call clears no marker and refreshes at most `App`'s listeners
(`AnswerLeft`), so the tab that is open now keeps the rows it read before the call was
served: for `SettledTab` the lists that the lost refresh was for count as not
up to date until they are read again. `LastClickWins` does not speak of a
history in which an identity was changed while a change of a left tab was in
flight: the marker was lost with the tab and the code orders nothing then.

**SkillConsole** (`SkillsTab`): the prefetch effect, creations without a busy
flag, a save that merges into the list it captured, packs (a listing, posts at
once, a listing) and presets (two inserts by the server, a listing, a refresh of
the listeners). The cleanup of the effect sets `cancelled`, after which an answer
changes nothing, so a cancelled prefetch is dropped when it is cancelled
(`Uncancelled`). MemoryStore inserts skills freely and MySQL has a unique key:
`unique` is which of them it is. The order of a list that is answered is left
open: no property here depends on it. An empty list of listeners clears the
counts and the selection and leaves the lists of skills (`SetListeners`,
`App.jsx:3022`); `cleared` notes the types whose count and list then disagree,
and `CountsMatchLists` speaks of the others. A run of a preset or a pack that was
left goes on in `left`, its posts in `posts`; `overlapped` notes the listeners
for which a pack was applied while calls of an earlier application were out,
which a failed post or a tab left and reopened makes possible: on a store
without a unique key a skill is then inserted twice, and `PackInstalledOnce`
speaks of all the others, among them those where a pack is applied again after
a run was cut short or left.

**EventConsole** (the storyboard and the recent messages of `SkillsTab`): fetch
by tag, refreshes, re-runs of one card with and without an event in the answer,
and re-runs of a selection, whose posts run at once and which gives up at the
first failure. A run of an event is its number; what the pipeline does in a run
is EventPipeline's. The server answers one page, the newest `Limit` events (50,
`handlers.go:1269`), of the account or of a tag; which of the events of one second
are on a full page is not determined (`Pages`). SkillsTab shows what is of its
listener on the page of the account (`App.jsx:3085`), which may be less than that
listener has: the settled lists are equal to *a page the server would answer
now*, not to all events.

**IntegrationConsole** (`IntegrationsTab`, `IntegrationSecretsTab`,
`BYOKSettings`): three registries built alike, one on the screen at a time. A
typed value is the click that typed it and the row it was typed for, which is
what lets `OwnValue` say that it reached its own row, and `CreatedOnce` that one
submission makes one row: only after an answer was lost may the user submit the
same value again, and for a secret only under another key. A tab that is left drops
its state; its unserved calls stay as `ghosts` and may still be served.

## 3. What TLC checks

| Run | Bounds | Question |
|---|---|---|
| `EventPipeline_races` | 3 requests, 3 rows, 1 source id and none, 1 target, 1 fault | `UniqueSourceEvent`, `AtMostOncePerTarget`, `AcknowledgedIsStored` under every interleaving |
| `EventPipeline_fair` | 2 requests, 1 target, 1 fault | `EveryRequestEnds`, `RowsSettle` |
| `EventPipeline_refines` | 2 requests, 2 rows, 2 targets, 1 fault | `ImplementsIngest`, `OnlyCompletedRunsShow` with partial fan-outs and a changing target list |
| `WebhookIdentity_registry` | 2 accounts, 3 aliases (two with one normal form), 2 values, 2 secrets, 3 identities | `OneOwnerPerAddress`, `AddressOwnerFixed`, `AliasChangeKeepsAddresses` |
| `AutoPromote_earned` | 2 workers, cutoffs 2 and 2, 90 percent, 5 calls, 1 fault | `PromotionEarned`, `PromotedIsMatched`, `ActivationEarned` |
| `SkillConsole_skills` | 2 listeners or none, a pack of 2, both stores, 2 clicks, the tab left once, 1 fault (3,802,676 states) | `CountsMatchLists`, `SettledScreen`, `PackInstalledOnce`, `OnlyEmptyFirstIsLeft` |
| `EventConsole_console` | 3 events of 2 listeners on pages of 2, two of one second, 1 tag, 3 clicks, 1 fault (268,221 states) | `SettledStoryboard`, `SettledMessages`, `AnnouncedReran`, `SpinnersStop` |
| `IntegrationConsole_integrations` | 3 registries, 3 keys, 1 stored row, 4 clicks, 1 fault | `OwnValue`, `CreatedOnce`, `EditedExists` |
| `ListenerConsole_listeners` | 1 listener, types of 2 seconds and 2 ids, 3 events among clicks, one leaving of the tab and one fault, at most one call in flight at a click (5,089,422 states) | `SettledTab`, `NoOrphanSecret`, `LastClickWins`, `ShownSecretActive` |
| `ConsoleSession_session` | both modes, 3 clicks, 2 faults | `SignedAsAsked`, `RightMode`, `SettledTokens`, `SpinnersStop` |

*Why the bounds are enough.* A race on a source id needs two deliveries; the
third request lets a reprocess run, or a delivery without an id, join the race.
One fault separates any pair of writes; two
faults only combine errors the code treats independently. Two targets are the
smallest fan-out that can fail midway. The registry's conflicts are between
two accounts over one address, which needs two aliases with one normal form
and a third to move away to; two secrets of one value give deletion and
re-creation, and three identities a listener that is rekeyed while a tombstone
of it remains. In `AutoPromote`, two
workers are the smallest lost update; five calls are two candidates, two hits
and one call more; a cutoff of 2 shows an off-by-one. The theorems of section
5 do not depend on these bounds. In the web client a race is between two
handlers, each of several requests: two clicks are the race, the others bring
about the state it happens in (an edit opened, a filter set, a listener
selected). A page load itself sends requests, so the first click already races
with them. `ListenerConsole` bounds what is in flight when a button is clicked
by `MaxOpen` (a write that waits for a refresh is two of them): the
change of one listener may meet another change or the refreshes of an earlier
one, as the mutants of that run show. Its bound `MaxClicks` counts the leaving of
the tab and the fault along with the clicks (`Spare`): each may come in the place
of a click, all three together with three clicks may not. So the case
`LastClickWins` leaves out (a change, the tab left and reopened, two changes more)
is beyond that run; the theorem has no such bound. In `EventConsole` the page
leaves out one event of the three, of one listener or the other, and a re-run
that changes a tag changes which events a page of that tag has. The events there
are at the start are fixed (`FirstRows`): the first and third have no tag.

*Symmetry.* Requests, rows and targets, secret and identity ids, and workers
are interchangeable: no module compares or orders them. The liveness run uses no
symmetry.

*Deadlock* is checked for the pipeline, where targets may always be edited,
and for the registry, where an alias may always be set again. The runs of
`AutoPromote` and of the web client switch it off: their behaviours end when
`MaxCalls` or the clicks are used up.

*Fairness.* `FairSpec` is weak fairness of `Handle(r)` for each request: a
goroutine that is not killed runs on, and each call it waits for returns,
because each has a bound: 5 s for posts (`actions.go:43`) and Telegram, 8 s
for the LLM and Pinecone, 300 ms for a WASM transform, and the write timeout
of the server for the request. Fairness of `Handle(r)` as a whole does not
promise that a particular outcome of a call ever happens. Crashes are not
fair, and neither are arrivals. One assumption is not enforced by the code:
the WASM runtime is not configured to stop a module when its context ends, so
transforms are assumed to terminate. In the web client weak fairness is of the
steps of requests in flight: a request the browser has sent is answered or
fails (the server ends it or the connection breaks), and a handler that has
its answer runs. The user owes nothing: no click is fair, and no fault is.
Liveness is stated for the session and the storyboard, where a flag that stays
set blocks the page or says something untrue; the other three modules state
safety only.

*Every property can fail.* For each property of a passing run `PROJECT.json`
names a mutant: a definition of the module and a variant of it (beside
the original in the module) that changes it as a plausible bug in that code would
(a missing unique key, a retry of a failed post, a dropped error, an off-by-one
cutoff, an index not updated, a flag cleared early, a button that is not
disabled, an answer of an older render that is heeded), under which TLC finds the property violated.

## 4. Where code and documents disagree

Each of these runs checks one sentence of the repository's documents or
messages, and TLC shows a behaviour of the code that breaks it.

| Run | Sentence | What happens |
|---|---|---|
| `EventPipeline_finalstatus` | api-spec: "Persist final status" | the error of the status write is dropped, the delivery is accepted and its row stays in processing |
| `WebhookIdentity_isolation` | master plan: "account isolation in data and auth layers" | a second account creates the same manual value and takes over the global index; the first account's secret no longer resolves |

Other places where the code does less than its documents say or its reader
expects have no run of their own; most are hazards in `PROJECT.json`, and the
properties name what they leave out because of it.

- A change of alias that stops at a reserved address keeps the new alias, and a
  secret then resolves through the identity of the account that holds the
  address (`memory.go:590`).
- Delete, block, restore revives an identity without a secret, which the direct
  way is refused with "matching active secret required to restore deleted
  identity".
- The master plan's "`validated` -> `shadow` -> `active`" does not hold: a stale
  copy of the row may be written back over active, and a transform that was
  never in shadow may be activated.
- With more than fifty events, the messages of a listener are those of its events
  that are among the account's newest fifty.
- Leaving and reopening a tab under its calls: the listeners' tab may keep showing
  rows from before a write it sent; an earlier Block may be served after a later
  Restore; a pack may be installed twice on a store without a unique key.
- A listener created twice has two types; deleting it takes one of them, which may
  be the one whose URL is shown.
- Saving a skill loses what arrived meanwhile; the messages of the listener
  selected before may stay under another one; retrying a target whose creation
  was answered by an error makes a second one; a URL made before a change of
  alias is shown until the page is loaded again.
- A revocation that fails while a listener is deleted leaves its secret active,
  and so does a secret made meanwhile.

## 5. What is proved

TLAPS checks the theorems of eight modules: every invariant and every action
property of the passing runs, and the refinement, for all values of the
constants under the named assumptions of the modules. `PipelineAssumption`,
`RegistryAssumption` and `PromoteAssumption`: special values are not members of
the sets they stand beside; Normalize is idempotent; slugs are unique, which the
code ensures with its index of slugs; cutoffs are integers, also zero or
negative. The five assumptions of the web client's modules say the same of their
special values, that the rows there are at the start have different numbers and
keys, that a pack and the skills a user types have different keys, and that
bounds are natural numbers, of any size: no theorem limits clicks, faults, rows,
listeners or calls in flight.

**EventPipelineProofs**: `TypeCorrect`, `UniqueSource`, `AtMostOnce`,
`CompletedRunsShow`, `Acknowledged`, `Refinement`. `AtMostOncePerTarget` is not
inductive: it says nothing of a request that has not posted yet. `IInv` adds
who may post at all. `OneOwner`: of the deliveries that hold one row, only the
one that inserted it executes it. With `HasRow` (the row of a delivery carries
its source id) and `UniqueSourceEvent`, two deliveries with one id that both
posted are owners of one row, so they are one. `Fresh`, `Effects` and
`Progress` track how far each request is with its decision; `Shown`
strengthens `OnlyCompletedRunsShow` to runs that are past their last post, so
that no later step of them can change what was shown. One lemma per action,
one step per conjunct. `Refinement` maps `stored`, `reached` and `acked` to
what rows, posts and answers say, and shows for each action which step of
IdempotentIngest it is: `CreateEvent` stores, `Post` and `PostFails` reach,
`SaveTags` and `FindDuplicate` acknowledge, everything else stutters.

**WebhookIdentityProofs**: `TypeCorrect`, `OneOwner`, `OwnerFixed`,
`AliasChange`. `TypeOK` and `OneOwnerPerAddress` are inductive together; the
work is in CreateSecretWithValue and UpdateAccountPublicAlias, where
addresses are taken: `Available` and `Reserved` are exactly what keeps them
with their account. `OwnerFixed` comes with the same case analysis.
`AliasChange` needs that all identities of an address are of one account, so
that the address a listener moves to is its own.

**AutoPromoteProofs**: `TypeCorrect`, `Promotion`, `Activation`,
`PromotedIsMatchedHolds`. The strengthening says of the stored row *and of every
copy in flight* that its counters are bounded by the history (validated by
`confident`, total by `measured`), that success equals total, and that a copy in
or past shadow has earned it (`Decided`, `Earned`): a stale copy is then still an
earned one, so an upsert that loses updates cannot promote early. `RateOfAll` is
the arithmetic fact that all hits are a rate up to 100 percent and not above.
`PromotedIsMatched` speaks of the row when nothing failed; `MatchInv` adds the
copies: one that is promoted is past `SetSignature`, or there are candidates
(`Discover` and `SaveSignature` come first) and it is on its way to enable the
newest. No call without a fault switches one off again, because the rate is
always met.

**ListenerConsoleProofs**: `TypeCorrect`, `NoOrphanHolds`, `LastClickWinsHolds`,
`SettledTabHolds`, `ShownSecretActiveHolds`.

- `NoOrphanSecret` fails, if at all, between two store calls of two handlers.
  `Overlapped`: of two unanswered changes of one listener both are exempt.
  `TypedHasType`: a secret about to be stored has its type still. `RevokingRead`:
  a deletion under way holds every active secret of its type, but for exempt
  ones. `TypeIds` and `Numbered` keep the rows of two creations apart.
- `LastClickWins`: while one identity is changed at a time, and none under a change
  of a tab that was left, there is at most one change, the marker of the open tab
  names it unless the tab was left since (`Marked`), and what was clicked last is in
  the table or on its way (`OnItsWay`).
- `SettledTab`: `ListInv` says of each list that it is `Fresh` (the read sent last
  will show the table as it is, and the screen does if that was answered last) or
  that something is under way which will still read it: a write in the store for
  the listeners (`ListenersDue`), for the lists of an open tab (`TabInv`) also any
  read of the listeners, whose answer sets off the effect that reads them
  (`Rereads`). `TabInv` holds again as the tab opens, as it reads everything then.
  `Owned` ties a read to the call that awaits it; a read of the listeners that
  outlives its tab awaits none.
- `ShownSecretActive`: `Single`: a key that was never doubled has one type. `MakesKept`:
  a secret made without an overlap is of a type of its key. `Current` keeps that
  after its answer: it was made since the tab was last left, other types are of
  creations under way, whose own answer replaces what is shown, and it is revoked
  only by a deletion that takes its type, so the listener goes with the secret.
  Neither clocks nor ids enter the argument.

**SkillConsoleProofs**: `TypeCorrect`, `CountsMatch`, `OnlyEmptyFirst`,
`PackInstalledOnceHolds`, `SettledScreenHolds`. `CountsMatchLists` is inductive.
`OnlyEmptyFirstIsLeft` needs `LiveInv`: the prefetch that is heeded was made for
the listeners and the selection of the screen, and a closed tab has none.
`PackInstalledOnce` needs `Single`, for each listener on which no two applications
overlapped: its runs, those left included, are one at most (`Only`), what that run
found missing is missing still (`Listed`), and a post that is not served yet is for a
key without a row and without another post (`New`). `SettledScreen`: while calls are
`clean`, there is one write and none beside a prefetch (`OneWrite`); every answer
in flight, and every list but the one the write is about, mirrors the rows
(`AnswersFresh`, `PrefetchFresh`, `ScreenFresh`).

**EventConsoleProofs**: `TypeCorrect`, `AnnouncedReranHolds`,
`SettledMessagesHolds`, `SettledStoryboardHolds`. `RerunInv`: a selected event
has run since the click, or its post is out. `PanelInv` and `BoardInv` follow
the numbers of the calls: none is newer than the last fetch, and the one with
that number is for the listener or tag now set and brings the rows as they are
(`LastLoad`, `LastBulk`, `LastFetched`); for the board also that while no calls
overlap only the card that is being re-run may differ from its row (`Alone`,
`CardsKept`).

**IntegrationConsoleProofs**: `TypeCorrect`, `OwnValueHolds`,
`EditedExistsHolds`, `CreatedOnceHolds`. `OwnInv` says of every place that holds
a value (rows, list, form, save, answers and the calls of a tab that was left)
that it was typed for the row it stands beside. `EditedInv`: whatever deletion of
the edited row is under way was sent by this form and will clear it. `OnceInv`:
at most one row holds a value whose answer was not lost, and while something may
still make a row of it none does (`Drafted` is the form before its save is over).

**ConsoleSessionProofs**: `TypeCorrect`, `RightModeHolds`, `SignedAsAskedHolds`,
`SettledTokensHolds`. `ModeInv`: the profile was fetched or missed, or the start
that fetches it is under way, alone, and the page is loading (`BootLoads`,
`OneBoot`), so that no sign-in is answered meanwhile. `SignedInv`: the cookie is a
valid token exactly when the user last asked to be signed in, and unless a call
that fetches the user is pending, user and flag agree with that; the answer to an
alias saved by one who signed out meanwhile is the case that needs `AliasInv`.
`ListInv`: the list is the server's, or a write of the mounted component is
served and will be followed by a fetch (`OwnServed`), or a fetch is under way
that brings the tokens as they are.

Only model-checked: `EveryRequestEnds`, `RowsSettle` and `SpinnersStop` of the
session and of the storyboard, which are liveness under fairness and beyond the
prover. The two runs that expect a violation state what does not hold.

## 6. What is not modelled

- Payload content: DSL and WASM transforms, compaction, text extraction,
  fingerprints, scores of the router. They are pure; what they yield enters
  the models as a choice.
- Two transactions of MySQL on one address at once: `WebhookIdentity` is the
  in-memory store, where operations are atomic, and in `ListenerConsole` a
  transaction is one step.
- How a message is sent: forward_telegram, slack_notify, crm_upsert and
  ticket_create have one resolved target by the time they are executed, and
  are the same step of the fan-out as one post of forward_http.
- The Pinecone upsert between the status and the text write: an outside index
  whose errors are dropped.
- Signatures an owner stores with the source name the promoter uses.
- The single-tenant claim: `authMode` never answers `single_tenant_claim` and
  `EnsureSingleTenantClaim` has no caller outside the tests, so no claim is
  ever issued.
- Mail and the receipt guard, migrations and the runtimes: see the plan.
- Edge worker, CLI and processor scripts: one request in, one request out.
- Pages of the web client without state: landing, documentation, heartbeat,
  enterprise; the counters of `Metrics`; notices, expanded cards, copied marks
  and the trial classification of `SkillsTab`.
- In the web client, the late answers to a component that was left: React drops
  them, so the modules do, but for what they change on the server and in `App`.
  The exit animation of a tab.
- Observability, security helpers, configuration: no state the others rely on.

## 7. Plan

In this order; the first five are done.

1. `EventPipeline`, `IdempotentIngest`, proofs - the most important behaviour.
2. `WebhookIdentity`, proofs.
3. `AutoPromote`, proofs.
4. The web client with the endpoints behind it: `ListenerConsole`,
   `SkillConsole`, `EventConsole`, `IntegrationConsole`, `ConsoleSession`.
5. Proofs about them: type correctness and every safety property.
6. `MailService` and the receipt guard: ingestion redelivered by the event
   source, failures between store and forward; composed with
   `IdempotentIngest` for what the second post of a mail does.
7. The registry on MySQL with statements interleaved, shown to implement
   `WebhookIdentity`'s owner properties.
8. Pure operators: routing, decision validation and the signature time window
   against reference definitions over bounded inputs; migrations and Lambda
   initialisation as small state machines.
