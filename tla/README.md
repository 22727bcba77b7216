# TLA+ models of Stellara

Stellara is a gateway that gives MCP clients web, browser and memory tools behind
an OAuth authorization server of its own. This directory holds TLA+ models of its
stateful parts, TLC configurations that check them on small instances, and TLAPS
proofs of the main results for every value of the constants.

Run a model with `tlc -config <run>.cfg <module>` and a proof with
`tlapm <module>.tla`. `PROJECT.json` names the runs, maps every definition to
the source lines it models, and gives for each property a change of the code
that would break it (operators marked `\* mutant` in the modules).

## 1. The system

One Node process, single-threaded: code between two `await`s is atomic. State is
in SQLite (`better-sqlite3`, synchronous), in Qdrant, in memory, and in a Chromium
process driven by Playwright. A second program, the embedding migration, runs while
the gateway is paused.

| Part | State | Operations | What is hard | What makes it correct |
|---|---|---|---|---|
| Grants (`oauth/storage.ts`, `tokens.ts`, `codes.ts`, `session.ts`, `keys.ts`, `storage-reconciliation.ts`, `routes/oauth/*`) | sessions, codes, refresh tokens, keys, the snapshot of static tokens, all persisted; access tokens outside | login, authorize, code exchange, refresh with rotation and replay detection, sweep, boot reconciliation | crash between the commit and the signed token; replay after the predecessor's row is swept; lost snapshot; boundary of the expiry tests | nothing outlives a withdrawn credential; one usable refresh token per grant; a recognised replay ends the grant |
| Registration (`oauth/clients.ts`, `resource.ts`) | `oauth_clients`, the cutover in `oauth_meta`, a bucket per address | register, resolve, the `resource` rule at authorize and token | restarts and clock corrections; two endpoints deciding from different data | new clients strict, older clients served, bounded registrations |
| Client metadata (`oauth/client-metadata*.ts`) | cache, flights, counter, caller buckets; one flight's redirects, timer and deadline | resolve (hit, join, fetch), DNS, pinned request, redirect, validation, timeout, close | callers sharing a flight, timeout against answer, a late timer, shutdown in mid-flight, caps | counters exact, nothing cached after abort or close, every caller answered, no document outlives what it declared |
| Authentication, rate limits (`auth.ts`, `rate-limit.ts`) | two tables of windows | count by address, verify the bearer, count by user | order of the hooks; the await inside JWT verification; fixed windows | a request runs as its bearer's owner; only own requests spend a quota |
| Browser pool (`services/playwright.ts`, `-pool.ts`) | shared browser, contexts, sessions, cached Chrome version | start, stop, actions, sweep, close; disconnects of Chromium | three awaits inside `startSession`; crash, sweep or close in between | no lost context, right identity, sessions reclaimed, caps, nothing left after close |
| Tabs and HAR (`services/playwright-extensions.ts`, `-har.ts`) | tab list, active index, recorder | open, close, switch, start and stop recording | overlapping calls, failing page loads, late responses | index valid, focus kept |
| Memory (`services/qdrant.ts`, `tools/memory.ts`) | points in Qdrant | upsert, delete, list, search | read and write are separate requests; a timed-out write goes on | createdAt kept, answers true, pages complete |
| Fetch and GraphQL (`services/http-fetch*.ts`, `graphql-guard.ts`, `tools/web-fetch.ts`) | one call's request, hop, body | redirect loop, capped drain, decoding | method rewriting over a chain, abort at any point, a body that ends at the cap | payload follows the method, truncation is told, no stream left open but that of a refused redirect |
| Crawl and research (`services/firecrawl*.ts`, `exa.ts`, `tools/web.ts`) | one call's timers, hits and scrapes | start, poll with back-off, snapshot; search, parallel scrapes, pairing | soft cap against hard cap; outcomes of filtered hits; a budget shared by two phases | resumable unless slow, own page per hit, within budget |
| Domain availability (`tools/domain.ts`, `services/rdap.ts`, `whois.ts`) | bootstrap snapshot, WHOIS discovery cache | override, snapshot, static map, discovery, query | overlapping lookups on shared caches, outages, negative entries | a supported TLD is refused for a reason |
| Lifecycle (`server.ts`, `routes/health.ts`) | boot, storage, timers, `onClose` hooks | boot, signals, drain, hooks, forced exit | a second signal, a hanging client or hook, a handler the drain does not see | storage outlives its users, exit code 0 means clean, gone within the grace period |
| Migration (`scripts/migrate-embeddings.ts`) | two collections, a cursor | scroll, embed, upsert, count | stopped and repeated runs, edits in between, a cursor over nothing | exit code 0 means the target is the source |
| MCP and REST routes, schemas, page actions, config, errors, logging | none between requests | dispatch, validate, map | none | not modelled: stateless |

Interactions: a request passes the address limiter, the authentication and the user
limiter (`AuthGate`), then a tool. `/oauth/authorize` asks the resolver for the client
(`ClientResolver` for https ids, the registrar of `ClientRegistration` for opaque
ones), then the session manager, then issues a code (`OAuthGrants`). A flight of the
resolver is a `MetadataFetch`. The token endpoint uses stored rows only. Boot
reconciles grants, then reads the cutover, then loads the key; the `onClose` hooks
close the resolver before the storage (`ServerLifecycle`). A browser tool reaches the
pool, then one session's tabs. Outbound tools run under `withTimeout` (`ToolCall`).

## 2. Modules

### OAuthGrants

Tables are sets of rows; `now` is `Date.now()`; `phase` is the process (`down`,
`reconciled` while booting, `serving`). One action per handler: `Login`,
`Authorize`, `ExchangeCode`, `RotateRefresh`, `ReplayStored` (the row is there and
marked), `ReplayForgotten` (the row is gone), `SweepExpired`, and `Reconcile` and
`LoadSigningKey` for the boot, `Stop` for a crash or exit, `LoseSnapshot` for an
unreadable snapshot. A handler's statements form one step; `exchangeAuthCode` and
`rotateRefreshToken` end in `await signAccessToken`, so they leave a `pending`
request that `SignAccessToken` finishes or a crash drops. `cred` in each row is
history: the static token the user typed. `Reconcile(E)` boots with any set `E` of
effective tokens.

*Abstraction:* requests the handlers refuse without touching state are not steps.
A PKCE challenge with its redirect URI is one `Binding` value. Not modelled:
`destroySession` and `sweepStaleClients`, which nothing calls. The refusals of
`validateRefreshPreflight` come before the replay check and change nothing.

`GrantLifecycle` says what the store promises, without tables or time: a grant
is offered, redeemed once, carried by one token at a time and ended for good.
`OAuthGrantsRefinement` maps the store to it: a grant is named by its code, offered
while the code is stored, active while an unrotated refresh token of its family is
(`BearerAmong` is that token) and ended once it was redeemed and none is left.

### ClientRegistration

`Boot` writes the cutover on the first start only; `RegisterClient` covers
`validateRedirectUris`, `consumeBucket` and `persistAndShape` in the handler's order;
`Authorize` applies `validateResolvedClientResource` (`LegacyResolved`);
`LegacyBound` is `validateBoundTokenResource`. `SetClock` sets the clock to any time
while the process is down; in a running process it only advances. `recent`,
`relying` and `older` are history. `last_used_at` is left out: its only reader has
no caller.

### ClientResolver, SourceRateLimiter

`ClientResolver` splits `resolveCimd` into its outcomes (`CacheHit`, `JoinFlight`,
`RefuseMiss`, `StartFlight`) and a flight into `FetchSucceeds` / `FetchFails`, the
timer's `Timeout`, and `FinishFlight` (the `finally` block, a microtask later).
`Close` aborts every flight and `CloseDone` returns once all have settled. Cached
lifetimes are counters that `Tick` decreases. The cache is a sequence, as a `Map` keeps
its order: a row is read or replaced at its place (`RowAt`), and the first goes when the
table is full.

The per-source limiter of the same component is `SourceRateLimiter`: prune, evict the
oldest bucket, count. Its `Map` is the set of its rows and the order of their sources
(`order`), which is all that `ensureCapacity` looks at. What it admitted lately is
history, kept by `EventHistory`: a set of events, each its age and a number, from which
`Recorded` forgets the oldest when it has more events than the properties tell apart.

### BrowserPool, BrowserTabs

A `startSession` call advances through its awaits: `StartSession` (entry checks and
`enforceCapacity`), `Launched`, `AdoptBrowser`, `ContextOpened`, `RegisterSession`, or
`StartFails`. `Disconnect(b)` is Chromium going away, with its contexts. `close()` is
`Close`, `CloseBrowser`, `ForgetBrowser`. Ages of a session count up and stop at
their limits, so the state space is finite without bounding time. The history
variable `overlapped` records that two calls, or a call and `close()`, ran at once;
`SerialCallsSafe` says what holds as long as that has not happened.

A context or process counts as closed from the call of its `close()` on. That call takes
time and may fail, which the code swallows: what the models say is that everything is
closed by someone, not that Playwright succeeds. Likewise a page is there until a tool call
closes it; one that crashes stays in the list of tabs.

`BrowserTabs` is one session: openings are split at `newPage` and `goto`,
recordings at the await for a response's body.

### MemoryStore

An upsert is `BeginUpsert` (where `now` is taken), `Read` (`fetchExistingCreatedAt`),
`Apply` (Qdrant stores the point) and `Answer`; a delete likewise, with the count
read first. `Abandon` answers the caller with an error; a write already sent goes
to the background, where `Apply` or `LoseWrite` ends it. Qdrant evaluates the filter of a
delete at the count and again at the delete: the ids a delete is about are all that match
at some time of the call, and one that matches only some of the time is contended. The walk through
`memory_list` is `BeginWalk`, `Page`, `EndWalk`: a page returns the user's first points
from the cursor on in the order of their ids (those of a `Rank` up to the page size),
and the next cursor is the first one left out. `walk.items` counts how often each point
was returned. `known` is history: what the last
answered call did to a point, or that two operations were under way on it at once
(`contended`): Qdrant offers no lock, and for such points the code promises nothing.

### AuthGate

The three `onRequest` hooks of a request in their order. A request without a usable
bearer (`BareRequest`), with a static token (`StaticRequest`) or refused for a revoked
JWT runs at once; a JWT that has to be verified stays in `pending` from `JwtRequest` to
`Verified`, while anything else may happen, its expiry (`JwtExpires`) included. A
window counts its requests and knows the time to its end; `GateTick` advances both
tables. `Restart` loses counters and requests and reads a new token map and revocation
list. `passes` and `calls` are history (`EventHistory`): the requests that count.

### ToolCall and the outbound tools

`ToolCall` is `withTimeout`: `Begin` sets a timer, `FireTimer` aborts the signal,
`Settle` is the return or throw of the function. The timer answers nothing by
itself: a call ends because what it awaits rejects. Each tool extends it with its awaits.

* `HttpFetch`: `web_fetch`, `web_get`, `web_graphql`, `web_graphql_query`. Each
  response either redirects (method, payload and headers rewritten as the status says,
  the old body cancelled) or is drained chunk by chunk under the cap and decoded; either
  cancel may fail. Bodies are numbers of units that hold an object, another JSON value or
  no JSON; servers answer with any status, chunks, end or error.
* `WebCrawl`: job, pause, poll, snapshot; a pause is cut to what the soft cap leaves but
  never below `MinPause`, so the last one may outlast the cap. The single-request Firecrawl
  and Exa tools are one await each.
* `WebResearch`: search, then one scrape per hit whose URL may be dialled, in any
  order and with any outcome, under the soft timer; then one source per hit. The k-th
  safe hit is that at the place with k safe hits up to it (`Place`), and a hit finds its
  own scrape by counting the safe ones before it, as the code does (`SafeIndex`).
* `MetadataFetch`: DNS lookup, pinned request, headers, body, redirects, validation
  and lifetime of one resolver flight, with a timer that may be late and a deadline
  that is not. Steps take no clock time, but for `DeadlineOvertakes`: the deadline passes
  between two tests of it, with the request made in between. `ClientResolver` sees only
  the flight's outcome.

### DomainLookup

Overlapping calls of `domain_availability` on the shared bootstrap snapshot and WHOIS
discovery cache. A TLD has an RDAP override, a static WHOIS server or neither; the last
kind is what registries decide: each bootstrap document may list it or not (`listed`), and
each reply of IANA may name a server for it or not. Each call is split at the awaits for the
bootstrap registry, IANA, RDAP and WHOIS; each reply may be late, fail or be cut off by the
call's timer. `failures` and `silence` are history: which
calls had a failing query, and how long ago IANA named no server for a TLD.

### ProcessExit, ServerLifecycle, Migration

`ProcessExit` is what both programs share: `process.once` listeners for two signals,
whose second occurrence ends the process on the spot, and an exit code.

`ServerLifecycle` boots (`BuildApp`, `Ready`, `Listen`, or `BootFails`), serves requests
whose clients may leave while their handlers run on, and shuts down: `ShutDown(s)` for
each signal with a forced-exit timer of its own, `Drained`, one `HookEnds` per hook in
Fastify's order, `CloseReturns` or `ForceExit`. The second `app.close()` joins the first;
what Fastify keeps of a hook's error by then is not in this repository, so the model lets it
be forgotten (`failed`). `ServerKilled` is a crash or a signal
without a listener; afterwards the server may start again.

`Migration` is the script from its arguments to its exit code: one action per reply of
Qdrant or the embedding provider, failures and kills at each, signals that abort the
embedding request or stop the next `Proceed`, and owners who edit the source between
two runs. The ids are scrolled in order, a page being the set of the next ones; a vector
is the text it was made of.

### Compositions

`MCClientMetadata`, `MCRequestState`, `Outbound` and `MCProcess` put components
that share no variable (but the call of `ToolCall`, of which there is one, and the
process of `ProcessExit`) side by side as a sum: while one runs, the others stand
still in an initial state. Since none reads what another writes, every behaviour of
a component alone occurs, and no interleaving of two could show more about either.
`Outbound` is a module of its own, and not part of `MCOutbound`, because what it says of
any outbound call is proved of the composition (`OutboundProofs`).

## 3. Runs

| Run | Question | Instance |
|---|---|---|
| `MCOAuthRevocation` | Does a withdrawn credential take everything with it, and do restarts keep what they should? | one user with two static tokens, another with one; one session, one code, two refresh tokens, two keys; time to 3 |
| `MCOAuthRotation` | Is a grant usable by one token, does a replay end it, does the store implement `GrantLifecycle`? | one user, two clients, two codes, three refresh tokens; time to 4 |
| `MCRegistration` | Does the cutover separate clients for good? | four clients of any age, one https id, windows of two registrations; time to 3 |
| `MCClientMetadata` | Are cache, flights, shutdown and source limiter sound, and does everyone get an answer? | three ids, three callers, two flights, two rows; three sources, two buckets, two requests per window of three |
| `MCPool` | Is nothing lost on any path, and do the caps hold for calls that do not overlap? | three calls of three users, three browsers, caps two and one |
| `MCPoolReclaim` | Do idle and dead sessions leave the pool? | two calls, one user, two browsers |
| `MCRequestState` | Who does a request run as, who pays for it, and what becomes of tabs and memories under overlapping calls? | one address, two users, one static token, three JWTs (one without the scope, one forged), two verifications at once, quotas two and one, window two; four pages, two openers, cap three; two calls on two points of a user at two times, another user's point between them, pages of one |
| `MCOutbound` | Is every outbound call answered, truthfully and in time, and what does it leave open? | two redirects, bodies of two units and more; crawls with caps of 26 and 34, pauses from 3 to 12 and none below 2; three hits, two pages, budgets one and two of three; metadata flights of three units, three redirects; two lookups of one TLD of each kind, lifetimes one and two |
| `MCProcess` | What do signals, crashes and exit codes mean? | two requests, three hooks, two signals, grace two; three points, two texts, batch sizes 0, 1, 2, 1001 |

| Run | Property | What it says |
|---|---|---|
| `MCOAuthRevocation` | `GrantsBackedByCredential`, `AccessOutlivesCredentialByTtl`, `AccessSurvivesRestart`, `ExpiredRowsSwept` | withdrawal, restart, sweep of sessions, codes and refresh tokens |
| `MCOAuthRotation` | `OneLiveTokenPerGrant`, `ReplayedGrantStaysDead`, `RotationChainsSound`, `NoPartialRevocation`, `ImplementsLifecycle` | rotation, replay, refinement |
| `MCRegistration` | `NewClientsStrict`, `RelyingClientsServed`, `RegistrationsBounded` | the cutover over restarts and clock corrections |
| `MCClientMetadata` | `FlightsExact`, `CacheHonest`, `LimiterExact`, `CallersAnswered` | no slot leaks, nothing aborted is cached, a refusal is earned and the table bounded, nobody waits for ever |
| `MCPool`, `MCPoolReclaim` | `ContextsSound`, `SerialCallsSafe`, `SessionsReclaimed` | every context has an owner and its own browser's version; caps and close; places come back |
| `MCRequestState` | `ServedToOwner`, `QuotasExact` | identity across the await of a verification; which requests spend which quota |
| | `FocusSound` | the active index names a tab, and a close moves nobody to another page |
| | `AnswersTrue`, `WalkComplete`, `CreatedAtPreserved` | answers, counts, pages and times of memories |
| `MCOutbound` | `PayloadFollowsMethod`, `TruncationTold`, `OnlyTwoStayOpen` | redirects, the cap of a body, what stays open behind an answer |
| | `ResumableUnlessSlow`, `ResearchSound` | the pauses of a crawl never cost its job id; pairing and budget of a research |
| | `FreshnessBounded` | no document is cached longer than the maximum or its own `Expires` plus one flight |
| | `RegistriesServed`, `CallAnswered` | a supported TLD is refused only for a reason; every call ends |
| `MCProcess` | `StorageOutlivesHandlers`, `CleanExitIsClean`, `GoneWithinGrace`, `ProcessesEnd` | order of the hooks, exit codes, forced exit |
| | `SuccessIsExact`, `RerunCompletes`, `DryRunHonest` | what exit code 0 of a migration, a repeated one and a dry one says |

Three runs end in a violation on purpose; each shows a sentence of the
documentation that the code does not keep:

| Run | Violated | Documented | What happens |
|---|---|---|---|
| `MCOAuthReplayDoc` | `ReplayInvalidatesChain` | `stellara-konzept.md:312` | the sweep removes a rotated token's row while its successor lives; a replay is then only "unknown" |
| `MCPoolCaps` | `CapsRespected` | `stellara-konzept.md:953` | overlapping starts count the sessions before either registers |
| `MCTabsRecorder` | `RecorderIsActive` | `stellara-konzept.md:1267` | a stop that fails on the size limit has already stopped the recorder and keeps it |

Reading the code for the models showed more differences that have no run of their own.

* Browser: two first starts launch two browsers, one of which nobody closes
  (`playwright-pool.ts:61` says repeated calls do not spawn a new process); a start in
  flight across `close()` registers its session afterwards (`server.ts:230`); opening a
  tab near the deadline moves it (`playwright-config.ts:21` says regardless of
  activity); overlapping opens exceed the tab cap (`stellara-konzept.md:1296`); a page
  whose `goto` failed stays open; a response awaited across a stop is still appended
  to the returned recording.
* Memory: an upsert that overlaps another operation on its point may lose the original
  `createdAt` (`stellara-konzept.md:617`); `memory_list` does not sort by `updatedAt`
  (`stellara-konzept.md:660`).
* Outbound: an answer of a GraphQL endpoint that is truncated, or JSON but no object, is
  reported as "did not return JSON" (`web-fetch.ts:170`). A redirect that is refused leaves
  its response uncancelled: `resolveRedirect` throws at `http-fetch.ts:204`, before the cancel
  whose comment (`http-fetch.ts:205`) says that the socket leaks without it. A metadata flight
  whose deadline passes between `client-metadata-transport.ts:61` and the test at `:202`
  (entered after `requestPinned` was called) leaves that request open, with its timer
  cleared; its rejection has no handler, nor has the program one for unhandled
  rejections. `OnlyTwoStayOpen` admits these two and nothing else. A document with
  `Expires` only outlives it by up to one flight, which `FreshnessBounded` admits; a crawl
  that failed is reported as in progress; the remark that the soft cap ensures an answer
  before the hard timeout (`firecrawl.ts:96`) holds only for requests faster than half the
  time between the caps less the least pause, which is how `ResumableUnlessSlow` puts it.
* Registration: "an in-memory per-IP rate limit caps registrations at five per hour"
  (`clients.ts:11-12`) is more than a fixed window gives: nine may fall into one hour, as `RegistrationsBounded`
  (twice the maximum, less one) says.
* Domains: a failing registry makes a TLD look unsupported although `whois.ts:216` says
  the tool tells the two apart; a reply of IANA without a `whois:` field is cached as
  "no server", also when it is a refusal.
* Authentication: a static token with exactly two dots is treated as a JWT.
* Processes: a boot that fails after `buildApp` exits without `app.close()`; a signal
  during an embedding request comes back as an `AppError`, which is no `AbortError`, and
  ends the migration with 1, not the 130 of its help text (`migrate-embeddings.ts:88`).

**Bounds.** Lifetimes are one to three clock units in the order the defaults have
(access and code lifetime shortest, then refresh, then session); only the order of
expiries and equality at their boundaries matter, and every such order occurs within
the time given. Two users suffice where the question is whether one is affected by
another; three refresh tokens give a chain with a middle; two grants of one user and
client give a replay that must take both. Three overlapping starts give a call that
overtakes two. Quotas of two and one with a window of two give a window that is full,
one that straddles a boundary and one that has just reopened. Two redirects give a
rewriting with a later 307 behind it; a cap of two with chunks of two gives bodies that
end before, at and beyond it, cut in either way. The caps and pauses of a crawl are scaled
to a clock of which 8 units lie between the caps: the pause grows to its bound, is cut by
the soft cap, and then by its least length, and two requests of up to half of what is left
fit behind it while slower ones do not. Three hits give an unsafe one before,
between and after safe ones. Two lookups give one that reads what the other is about
to write; lifetimes of one and two give every order of expiry of the three caches.
Three points and pages of one and two give a page boundary on both sides of a point,
and `1001` and `0` are just outside the sizes the script takes. Two requests give a
client that leaves while another stays. `MaxTime`, `MaxCaptures`, `MaxChunk`, `MaxHits`,
`RedirectBound`, `HeaderBound`, `Pending` and `Revocations` bound what callers and servers
do; ids are finite sets, reused where the code's random ids cannot collide with a
stored one. Symmetry is used only in runs without liveness.

**Deadlock** is checked in every run but `MCOutbound`, where the answered call is the
end. **Type invariants** document the state of their modules; those of `OAuthGrants`,
`ClientRegistration`, `GrantLifecycle`, `ClientResolver` and `BrowserPool` are proved, alone
or as conjuncts of the invariants below.

**Fairness.** `ExpiredRowsSwept` assumes the `setInterval` of the sweep fires in a
process that keeps serving. `SessionsReclaimed` assumes time passes and the pool's
sweeper interval fires. `CallersAnswered` and `CallAnswered` assume that clock and
timers run, that a request or pause rejects once its signal is aborted (each passes
the signal on, or races it: `waitForCimdOperation`) and that promise callbacks run;
nothing is assumed of the network. In `ToolCall` the clock stands still while a timer
is due: timers are prompt, except for a metadata flight, whose timer may be late.
`ProcessesEnd` assumes of the server that its clock runs and a due forced exit
happens, and nothing of requests, clients and hooks; of the migration, that each
request is answered or fails at last, since the script sets no limit of its own.

## 4. Proofs

Every safety property the passing runs check is a theorem, for every value of the
constants that satisfies the named `ASSUME`s, which TLC evaluates too; so is the refinement
of `GrantLifecycle`. Besides bounds and disjointness of parameters the assumptions say
only that the marker of absence (`Null`, `None`) is no record, that a page is not named like
a stage of its opening, and that the order of point ids is one. Clocks have no bound in
the theorems but `MaxTime`, which is any number.

A property is seldom inductive. Each proof states the strengthening as named
conjuncts, shows that it holds initially, that each action keeps it (one step per
action) and that it implies the property.

### `OAuthGrantsProofs`, `GrantLifecycleProofs`

* `TypeCorrect`, on which the others rest.
* `GrantsAreBacked` (`GrantsBackedByCredential`). The property speaks of a running
  process only; `BackedInv` adds what holds while it is down: rows descend from the
  credentials of the snapshot, so that a reconciliation that compares with the snapshot
  removes enough, and a lost snapshot removes all.
* `AccessIsBounded` (`AccessOutlivesCredentialByTtl`). `AccessInv` adds that no token
  lives longer than `AccessTTL` from now and that a pending request's credential is
  effective, which the previous theorem gives.
* `AccessSurvives` (`AccessSurvivesRestart`): whatever was signed was signed with the key
  that is persisted, and a process that serves has loaded it.
* `OneLiveToken` and `ReplayIsFinal` from `FamilyInv`: a code still stored has no refresh
  token yet; of a family at most one row is unrotated; a family whose replay was
  detected has no row; ids are never reused.
* `ChainsAreSound` (`RotationChainsSound`): a successor is stored in the step that marks
  its predecessor, with a later expiry, and a sweep or a revocation never takes it
  alone. `RevocationIsWhole` (`NoPartialRevocation`) is the action property beside it.
* `StoreImplementsLifecycle` (`ImplementsLifecycle`): the initial state maps to an initial
  state, and each action to `Offer`, `Redeem`, `Renew`, `Withdraw` of a set of grants, or
  a stutter. All steps that only delete rows (boot, sweep, replay, an expired code) are
  covered by one lemma about `Withdraw`. The mapping needs `FamilyInv`, which says that a
  grant's bearer is one token. `StoreEndsForGood` then carries `EndsForGood` over.
* `OneBearer` and `EndsForGood` are about the lifecycle itself; that every bearer is on
  record as spent makes their invariant inductive.

### `ClientRegistrationProofs`

* `RegistrationTypeCorrect`; `NewStrict`, `RelyingServed` and `RedirectsStayAllowed` from
  `CutoverInv`: before the first start nothing of this version exists; afterwards the
  cutover never changes, new rows are not below it and whoever relies on the exemption
  has a row below it.
* `RegistrationsAreBounded` (`RegistrationsBounded`) from `BoundInv`, which splits the
  registrations of the last hour by the present window: those inside are at most its
  count, those after its first instant one less, those before it less than the maximum.
  When the window ends, its first instant leaves the hour: so at most the maximum less
  one is left to count as "before" the next.

### `ClientMetadataProofs`

* `FlightsAreExact` and `CacheIsHonest` from `ResolverInv`, their conjunction with the type
  and the finiteness of the flights. The cardinality in `FlightsExact` is followed through each
  action by adding or removing one id; the table's rows have distinct ids, and
  removing the row at one place or the first keeps every other row.

### `RequestStateProofs`

* `OwnerServed` (`ServedToOwner`). What was tested before the await still holds after it:
  the revocation list changes at a restart only, which ends every verification.
* `QuotasAreExact` and `LimiterIsExact` from lemmas about `EventHistory`: a history is
  *tight* for a window that opened `age` ticks ago if the events since then are at most its
  count, those younger than its opening one less, and the older ones less than the
  maximum. A hit keeps that, a tick keeps it or ends the window and leaves less than the
  maximum (the first event is forgotten in that very tick), and the next window opens on
  such a remainder. In the other direction a history *covers* a window: every counted hit
  is still in it, so a refusal was earned. The limiter keeps these per source, however
  rows are pruned or evicted, and a bucket is placed only where one is in place already, was
  evicted or fits the bound; a source whose open window was evicted is excepted until
  its history is empty.
* `AnswersAreTrue` and `CreationTimesKept` from `CallsInv`: while one call only is under
  way on a point nothing else writes it, so what a call read is true when it writes and
  what it wrote when it answers; a point two calls were under way on is marked for good.
* `WalksAreComplete` (`WalkComplete`) from `WalkInv`: every point that was there all along
  was returned once or is not below the cursor, and nothing returned is. The page is an
  initial part of what is left in the order of ids, which makes the cursor a boundary.
* `FocusIsSound` (`FocusSound`) from `TabsInv`: the tabs are distinct pages that exist, and the
  pages still opening are not among them.

### `BrowserProofs`

* `ContextsAreSound` (`ContextsSound`) from `ContextsInv`: what a call holds of a browser is
  that of the browser it was launched with; the cached version is the present
  browser's.
* `SerialCallsAreSafe` (`SerialCallsSafe`) from `SerialInv`: as long as nothing overlapped
  there is one call, there is room for it until it registers, and the processes that run
  are the shared one or the one that call has launched.

### `OutboundProofs`

* `PayloadGone` (`PayloadFollowsMethod`): the request is the original or has been rewritten,
  and the original never changes.
* `TruncationIsTold`, `OnlyTwoLeftOpen` (`OnlyTwoStayOpen`), `CrawlsAreResumable`,
  `ResearchIsSound` and `FreshnessIsBounded` from `OutboundInv`, one part per tool. Of a body,
  what was kept is what was offered up to the cap; of a crawl, no poll begins later than the
  least pause after the soft cap, because a pause that would pass the cap by more is not
  begun, so what is used up beyond that is the requests' own; of a
  research, each scrape is pending, empty or the page of the hit at its place, and places
  are unique since the count of safe hits grows by one at each.
* `RegistriesHonest` (`RegistriesServed`), an action property: a call says "unsupported" for a
  failed query of its own or a recent silence of IANA, and an outage takes nothing from a
  call that began with a snapshot. From `LookupInv` and
  `HoldersInv`: a negative cache entry is never younger than IANA's silence it stands for,
  who waits has been told nothing, and a call with a snapshot waits for its refresh or
  for RDAP only.

### `ProcessProofs`

* `ForcedExit` (`GoneWithinGrace`). A tick takes from each timer what it adds to the time
  waited, and no shutdown sets another one's timer, because a listener runs once.
* `StorageOutlives` and `CleanExit` from `LifeInv`: the hooks left are a tail of the
  registered order, lookups are over when it is empty, and 0 is set after it only. A
  failure can be forgotten only by the second of two signals (`ForgetInv`).
* `SuccessExact`, `RerunsComplete`, `DryRunIsHonest` from `MigrationInv`: everything up to
  the cursor is covered, the page in hand is the next part of what remains, and the count
  begins when nothing does. Equal counts then mean equal collections, since a finite set
  has no proper subset of its size.

### Only model-checked

The liveness properties (`ExpiredRowsSwept`, `CallersAnswered`, `SessionsReclaimed`,
`CallAnswered`, `ProcessesEnd`): TLAPS does not reason about `ENABLED` and fairness
here. The three properties documented but not kept are refuted by TLC.
Where a proof needs an extreme element (the first point left out of a page, the oldest
event, the last id of a page) it gets it from the well-founded order of the naturals, by a least
counterexample: the induction theorems of the library, which take an operator, are out
of reach of the provers. That is why pages, tables and histories are sets with an
order, and not sequences filtered by `SelectSeq`.

## 5. Not modelled, and what could follow

* The readiness probes of Exa, Firecrawl, Qdrant and the embedding provider: each
  caches its last result for a short time and feeds `/readyz` only. Two overlapping
  probes may leave the older result in the cache.
* Page actions, evaluation, storage, PDF and snapshots of a page: they act on the page,
  not on state of the service.
* MCP dispatch, REST routes, request schemas and OpenAPI: stateless. The schemas bound
  the inputs of the tool modules.
* Configuration, error texts and logging, apart from the token map and the codes of
  mapped upstream errors.
* The refusals of `validateRefreshPreflight` that change no state; which URLs,
  documents and addresses a filter accepts (a free choice in the models); the header
  allowlist of a response.

Next, in order of use: a client that keeps a session with refresh tokens over lost
answers and retries, composed with `OAuthGrants`; the preflight of a refresh, whose
refusals come before the replay check; the probes with their caches; what a pool
promises to calls that do overlap (how far the caps can be exceeded), as a theorem.
