# Verification of codex-proxy

codex-proxy is a Node.js server that accepts OpenAI, Anthropic and Gemini API requests,
translates them and forwards them to the Codex backend over a pool of ChatGPT accounts.
This directory holds TLA+ models of it, the TLC runs that check them on small instances,
and theorems that TLAPS proves for every instance. Paths such as `auth/account-pool.ts`
are relative to the repository's `src/` directory.

## 1. Inventory

One process, one event loop: code between two `await`s runs alone, and every hazard of
the program lies in what changes across an `await`, a timer or a restart.

| Component | State | Operations | What makes it correct |
|---|---|---|---|
| Account registry (`auth/account-registry.ts`) | map of entries: status, token, refresh token, plan, usage, cached quota | add, remove, updateToken, mark*, reset, lazy refresh | statuses leave and return as documented; a limit that begins ends; no token is lost |
| Acquire locks (`auth/account-lifecycle.ts`, `rotation-strategy.ts`) | per account, the timestamps of its slots | acquire, release, clearLock, distinct-plan pick | a slot per request in flight, none without one; load within the limit; only usable accounts are picked |
| Pool facade (`auth/account-pool.ts`) | both of the above | every public method, coordinating the two | locks follow statuses |
| Request handling (`routes/shared/proxy-handler.ts`, `proxy-error-handler.ts`, `account-acquisition.ts`) | locals of one request: current account, accounts tried, release guard | acquire, send, classify, fail over, stream or collect, retry empty responses | each acquire is released once; failover ends; usage counted once |
| Session affinity (`auth/session-affinity.ts`) | response id to account, conversation, turn state | record, look up, expire | what is recorded belongs to that response |
| Refresh scheduler (`auth/refresh-scheduler.ts`) | timers, in-flight set, semaphore and its queue | scheduleOne, doRefresh, retry loop, recovery | no lost slot, status or token; every refresh ends; disabled accounts stay so |
| Health check (`auth/health-check.ts`) | none | refresh a token to see whether the account lives | coexists with the scheduler on single-use tokens |
| Account services (`services/`) | tokens an import is exchanging | import, delete, set status | batch steps keep pool and scheduler consistent; no token is exchanged twice |
| OAuth logins (`auth/oauth-pkce.ts`, `routes/auth.ts`) | login sessions, completed states, callback server | start, callback, relay, device poll | a code is exchanged once and what it brings lands in an account |
| Token exchange (`refreshAccessToken`, `tls/direct-fallback.ts`) | none | own proxy, global proxy, direct | single-use tokens are not resent after they may have arrived |
| Persistence (`auth/account-persistence.ts`) | `accounts.json`, `auth.json`, a debounce timer in the registry | load, migrate, complete, save (tmp and rename) | after a crash the file is whole and at most one debounce behind; no start loses an account |
| Usage (`auth/usage-refresher.ts`, `usage-stats.ts`, `quota-*.ts`) | window counters, cached quotas, snapshots, warnings | collect, roll over, warn | totals survive resets and removals of accounts |
| Proxy pool (`proxy/proxy-pool.ts`, `routes/proxies.ts`) | proxies, assignments, round-robin index, health timer, `proxies.json` | add, remove, update, assign, resolve, check | assignments name existing proxies; a check never revives a disabled one |
| Cookie jar (`proxy/cookie-jar.ts`) | cookies per account, `cookies.json` | capture, set, expire, clear, save, load | a change reaches the file, whole |
| Model catalogue (`models/`, `proxy/codex-models.ts`) | models, lists of the fetched plans, cache file, fetcher's timer | fetch per plan, merge, cache, resolve names | a failed fetch drops nothing; names keep their meaning |
| Backend client (`proxy/codex-api.ts`, `ws-transport.ts`) | sockets | send over a WebSocket or HTTP, stream, abort | one outcome per request, sent once |
| TLS transports (`tls/`, `native/src/lib.rs`) | child processes, the libcurl loop, caches of the binary and its arguments | choose, send, stream, fall back to HTTP/1.1 | everybody waiting is answered; a cut body is signalled |
| Translation (`translation/`, `routes/shared/response-processor.ts`) | per-stream counters and buffers | requests, schemas, events, answers | nothing is lost, doubled or reordered; well-formed event streams |
| API routes (`routes/`) | locals of a request | parse, translate, hand on; `/v1/responses` passes events through | the same answer streamed or collected |
| Dashboard sessions (`auth/dashboard-session.ts`, `routes/dashboard-login.ts`) | sessions, failures per address | login, logout, gate, sweep | lock-outs end; sessions last |
| Updates (`self-update.ts`, `update-checker.ts`, `routes/admin/update.ts`) | checkout, build, version state, flags | check, pull, install, build, restart, full update | one update at a time; what is claimed is what is known |
| Process life cycle (`index.ts`, `hardRestart`) | port, processes | start, listen, close, spawn a successor | a restart has one successor |
| Desktop application (`packages/electron/`) | update state, tray menu, dialogs | check, ask, download, install | a downloaded version stays available |
| Dashboard pages (`shared/hooks/`) | the lists shown, dialogs | load, poll, operate | the page tells what is so |
| Configuration and admin routes (`config*.ts`, `routes/admin/`) | hot-reloaded configuration | read, mutate | what depends on it notices |

How they interact. A route calls the request handler; the handler acquires an account
from the pool, sends, and on the answer mutates the pool (mark, release) and maybe
acquires again. The scheduler's timers call the OAuth server and mutate the same
entries; so do health checks, imports, logins and the dashboard. The registry's readers
lazily lift limits and expire tokens. Persistence is a side effect of every mutation. A
request is translated on its way in, leaves through the proxy its account is assigned to,
with the account's cookies, over one of four transports, and its events are translated
or passed on as they come back.

Hard behaviours: slots without owners that are popped by whoever releases first, dropped
after five minutes and cleared by status mutations; error branches that each have to
undo exactly what their request holds; single-use refresh tokens and login codes used by
several actors; a semaphore with a queue under a limit that changes; transient statuses
that are persisted; asynchronous writes of one file that overlap; answers of probes,
fetches and page loads that come after what they are about has changed; a transfer, its
promise and its body that end in any order; a process that starts the one that replaces
it. `PROJECT.json` lists them one by one under "hazards".

## 2. Modules

| Module | Models | State |
|---|---|---|
| `AccountRegistry` | `account-registry.ts` | none: each method is an operator from an entry map to the next, because the program composes several of them within one turn of the event loop |
| `AccountLifecycle` | `account-lifecycle.ts` | none: the same for the slot map |
| `AccountPool` | `account-pool.ts` driven by any caller | `entry`, `slots`, `limit` (configuration), `now`, and the history `held` |
| `AccountPool_proofs` | theorems about `AccountPool` | |
| `AccountStore` | the registry's usage records and windows, its writes of `accounts.json`, restarts | `entry`, `usage`, `pending` (the debounce timer), `disk`, `failed`, `now`, `restarts` |
| `MCAccountStore` | the store for TLC | `focus`: one account with its windows, or two with their counters |
| `AccountStore_proofs` | theorems about `AccountStore` | |
| `AccountCounts` | abstract: the requests counted on each account of the pool, in memory and on disk | `count`, `saved` |
| `PoolUsage` | abstract: the usage of all accounts in memory and on disk, as two sums | `live`, `saved` |
| `UsageStats` | the snapshots and the baseline of `usage-stats.ts`, over `PoolUsage` | `live`, `saved`, `baseline`, `snaps`, `history` (the file), `now`, `restarts`, and the histories `counted`, `regained`, `gone` |
| `UsageStats_proofs` | theorems about `UsageStats` | |
| `Failover` | abstract: how a request comes to its account, to another one and to its end | `course` |
| `ProxyHandler` | the request handler over the pool | `entry`, `slots`, `now`, `req` (locals of each request), `affinity` |
| `ProxyHandler_proofs` | theorems about `ProxyHandler` | |
| `TokenRefresh` | scheduler, probe, operator, OAuth server | `entry`, `task`, `running`, `queue`, `timer`, `orphans`, `call`, `live`, `limit`, `outside` |
| `TokenRefresh_proofs` | theorems about `TokenRefresh` | |
| `ProxyPool` | `proxy-pool.ts` and its routes | `proxies`, `order`, `assigned`, `next`, `checks`, `timer`, `pending`, `disk`, `failed`, `restarts`, and the history `turn` |
| `CookieJar` | `cookie-jar.ts` | `jar`, `persistTimer`, `writers`, `tmp`, `file`, `now`, `up`, `starts`, and the histories `taken`, `unrepaired` |
| `ModelCatalogue` | `model-store.ts`, `model-fetcher.ts`, `codex-models.ts` | `catalog`, `planLists`, `cacheFile`, `cacheWrites`, the backend's `offered`, `slots`, `refreshTimer`, `attempt`, `fetches`, `hasFetched`, `reloads`, and the history `crossed` |
| `Logins` | logins of `oauth-pkce.ts` and `routes/auth.ts` | `begun`, `pending`, `completed`, the callback servers, `exchanges`, `loggedIn`, the authorisation server's `spent` |
| `Imports` | `account-import.ts` beside the scheduler | `valid`, `revoked`, `held`, `refreshingRTs`, `request`, `refresh` |
| `TokenExchange` | `refreshAccessToken`, `direct-fallback.ts` | `accountProxy`, `globalProxy`, `transport`, `attempts`, `consumed` |
| `AccountMigration` | starts of `account-persistence.ts` | `authFile`, `file`, `migrated`, `pool`, `starting`, `harm`, `removed` |
| `DashboardSessions` | sessions, login route and gate | `sessions`, `failedAttempts`, `loggingIn`, `keyed`, `keySet`, `now`, `drawn` |
| `DashboardView` | `shared/hooks/` of the accounts and the proxies | `hook` (which page), `atServer`, `listed`, `refreshing`, `calls`, `adding`, `addInfo` |
| `RequestTranslation` | `*-to-codex.ts`, `tool-format.ts` | `turns`, the conversation; the translators are operators on it |
| `TupleSchemas` | `tuple-schema.ts` | `original`, `prepared`, `tuples`, `answer`, `restored` |
| `Translation` | `codex-to-*.ts`, the extractor, the response processor | upstream's `items`, `terminal`, `ended`; `openai`, `anthropic`, `gemini`, `collected`, `client` |
| `PassThrough` | `routes/responses.ts` | `parts`, `announced`, `over`, `streamed`, `tupleTextBuffer`, `assembled`, `noted` |
| `Transports` | `codex-api.ts`, the three HTTP transports, the WebSocket | the transfer and its promise, body, abort and timer |
| `CurlBinary` | `transport.ts`, `curl-binary.ts` | settings, `chosen`, `resolved`, `tlsArgs`, the HTTP/1.1 fallback, `flying` |
| `Updates` | `self-update.ts`, `update-checker.ts`, `admin/update.ts` | the checkout (`origin`, `fetched`, `head`, `installed`, `built`, `running`), flags and stages, versions, pipelines, `survivors` (children of processes that have ended) |
| `DesktopUpdater` | `auto-updater.ts`, the tray | `upd`, `dismissedVersion`, `questions`, `checks`, `downloads`, `onDisk`, `trayMenu` |
| `ServerProcesses` | `index.ts`, Electron's `main.ts`, `hardRestart` | `port`, `process`, `flushed` |
| `Server` | `CurlBinary`, `Transports`, `Updates`, `DesktopUpdater` and `ServerProcesses` side by side | theirs |
| `Answers` | `Translation` and `PassThrough` side by side | theirs |
| `Backend_proofs` | theorems about `ProxyPool`, `CookieJar`, `MCEgress`, `Answers` and `RequestTranslation` | |
| `Operations_proofs` | theorems about the modules of `MCOperations` and about itself | |
| `Server_proofs` | theorems about the modules of `Server` and about `ModelCatalogue` | |
| `MCAccountPool`, `MCProxyHandler`, `MCTokenRefresh` | values, symmetry and constraints for TLC | |
| `MCEgress` | instances of `ProxyPool`, `CookieJar` | `focus` |
| `MCModels` | instance of `ModelCatalogue` | |
| `MCOperations` | instances of `Logins`, `Imports`, `TokenExchange`, `AccountMigration`, `DashboardSessions`, `DashboardView` | `focus` |
| `MCServer` | instances of `RequestTranslation`, `TupleSchemas` and the modules of `Answers` and `Server` | `focus` |

The modules that `MCEgress`, `MCOperations` and `MCServer` extend share no state with each
other. A behaviour of such a run is one of a single module, which `focus` names; the
others stay as they start, so the run explores the sum of their states and not the
product. It is a way of checking several modules at once and claims nothing about their
interaction.

`AccountPool`, `AccountStore`, `ProxyHandler` and `TokenRefresh` share the operators of
the stateless modules, so that a 429 in the handler and a `markRateLimited` of the pool are
the same definition.

**AccountPool.** One action per state-changing public method. An acquire first runs
`RefreshStatus` on every entry and drops stale slots, as the code does, also when it
then returns null. The rotation strategies (`least_used`, `round_robin`, `sticky`) are
one choice among the candidates; a preferred account wins if it is one. `held` counts
acquires without release per account; it is the only thing the program does not have.
`FreshSlots` cuts a prefix where the code filters: slots being chronological (part of
the proved invariant) the two are equal, and `StaleSlotsDropped` says that what remains
is what the filter keeps. `getDistinctPlanAccounts` really does not drop stale slots.
Time is a counter; a token's life and a limit's length are counts of its units. The
jitter on a limit is within the choice of its length.

**AccountStore.** The same registry methods once more, now for what they write: each
action ends in `PersistNow` or `SchedulePersist` as its method does, the lazy refresh
(`Read`) in a scheduled write only if it rolled a window. `PersistNow` replaces the file
or fails, which the program logs and forgets (`failed`). `Restart` is a kill, or an exit
after ten seconds with connections still open, or (`flushed`) an orderly exit, whose
`destroy` writes the accounts; starting reads every account once. Counters are bounded
and one stands for those that always change together. Left out: labels, cached quota,
empty-response counts; the migration of the single-account file and the completion of old
entries are in `AccountMigration`. The store implements two abstract specifications
(`CountsLikePool`). `AccountCounts` says it account by account: a request is counted once
and on its own account, usage goes with its account or its counters and no other's, and
the file has what the pool had when it was written. `PoolUsage` says it of the sums, in
which usage may drop by any amount, and is all that the statistics see. The sum is
the number of (account, request) pairs (`Requests`), a set, which is what can be proved
about.

**UsageStats.** Builds on `PoolUsage` and so needs no accounts. The three counters of a
snapshot are treated alike and one stands for them. `Pruned` cuts off a prefix where
the code filters: the clock only moves forward in the model, so the aged snapshots are
the first. `counted` is all usage ever counted, `regained` what a crash brought back
(gone from the pool but not yet from `accounts.json`), `gone` what the pool lost since
the start after a snapshot had seen it; the program has none of them.

**ProxyHandler.** A step is what the handler does from one answer of the backend to its
next `await`: classify the error, mutate the pool, release, acquire another account. Its
fields `outer` and `acct` are `entryId` of `handleProxyRequest` and `currentEntryId` of
`handleNonStreaming`, which differ after an empty-response retry. `owed`, `lost` and
`counted` are histories. It implements `Failover`, which knows nothing of the pool:
`CourseOf` takes from a request's record its place (a retry under way is still the
collecting of an answer), its account, the accounts tried and the retries spent.
`OperatorMarks` and `OperatorRemoves` are the dashboard. Tokens outlive the run and
every plan serves the model: expiry, plans and a changing limit are in `AccountPool`.
`withRetry` and the stagger delay only take time.

**TokenRefresh.** A record `Here` holds the scheduler's state, and each method is an
operator on it, because one call runs others before the next `await`: `Over` (the
finally block) releases the slot. `ReleaseSlot` takes one off `_running` and wakes the
first waiter (`woken`), which takes its slot in a microtask of its own (`Admit`), or
leaves and releases in turn if its account has gone. In between no timer fires and no
request comes in (`Quiet`), but what other microtasks of the turn do may come: answers,
expiries, and imports, which call `doRefresh` and find the slot free. `live` is the
ghost of the one good refresh token an OAuth grant has; a server that rotates tokens
moves it into the answer (`Serve`), and `Granted` stores it. Timers may fire at any
moment. `Init` is `scheduleAll` over any mix of persisted statuses, with refreshing
switched on or off: off, it returns at once, and it passes over accounts without a
refresh token: such an account that was persisted as `refreshing` stays so, with nobody
at work on it (`Stranded`). `ImportMany` exchanges nothing here, having the account's
tokens; `ImportStarts` and `ImportVerified` are the halves of `importOne`, before and
after it verifies the account over the network, and the second one stores what the first
one took. Left out: `destroy`, the catch block for answers that are not strings, and
`triggerRefreshNow`, which nothing calls.

**ProxyPool.** One action per operation of the dashboard, per request that asks for its
proxy and per half of a health check: the check starts with the entry and URL of that
moment (`CheckStarts`, `CheckAll`) and its answer is applied to the entry of the same id,
if there still is one (`CheckEnds`). Removing a proxy removes its assignments.
`PersistNow` may fail; `PersistTimer` is the debounce. `order` is kept because the round
robin walks the map in insertion order. `turn` is a history.

**CookieJar.** A write is three awaits on one temporary file that concurrent writes
share (`OpenTmp`, `WriteTmp`, `RenameTmp`); a writer knows its file by where it is now,
since a rename moves an open file under the writer. A critical cookie is written at once
(`Persist`), another a second later. What is interleaved by two writers is `Mixed`.
Each of the three may fail, leaving the temporary file as it is or cut short, and so may
the write at the shutdown (`PersistFails`, `DestroyFails`): the catch blocks log and
forget, and no timer is set. `unrepaired` says that writes overlapped, or one failed, and
none has run alone to its end since.

**ModelCatalogue.** A fetch holds an account of every plan it asks (`Held`), its answers
come in any order and are merged one by one, each starting a write of the cache that
nobody waits for. The cache file follows the catalogue unless `crossed`: writes
overlapped, one failed, or the models were loaded anew during one (what a reload takes
from the file, the write under way then takes out of it). The fetcher's chain and the
immediate fetch after a login are two fetches. Names are sequences of their parts, so
that `ParseModelName` and `BuildDisplayModelName` are what they are in the code: cutting
and adding suffixes. An effort may be called `none`; `None` is the code's `null`.

**Logins.** A login has a session, a callback server whose timers outlive it, and up to
four bringers of its code. `Bring` removes nothing before the answer, as in the code, so
that exchanges of the same code overlap; the server grants it to the first. `Land` adds
the account, forgets the session and marks the login completed. `DirectFallback` is the
retry without the proxy, and the second one after it.

**Imports.** Tokens are numbered in the order the server issues them, so "the old one is
dead" is `<`. The set `refreshingRTs` guards an exchange; the scheduler's refresh of the
same account does not look at it. A batch (`importMany`) takes its list one entry after
the other and stores each in the turn that resolves it; a single import verifies the
account first and stores after that, whatever has been stored meanwhile.

**TokenExchange.** The chain of ways to the authorisation server, of which each failure
has one of the texts the transports produce; whether the next step is tried depends on
that text only (`GoesOn`), whether the token was consumed on the server.

**AccountMigration.** A start in its steps, each of which may fail or be the last.

**DashboardSessions.** A login looks at the count of failures of its address before it
awaits its body, so several may be past the limit together; whether a key is configured it
reads before, too (`keyed`), and the key may be set or unset meanwhile.

**DashboardView.** Three hooks with the same shape: load, poll, operate and load again;
the accounts' page also waits for a login by comparing counts. An error that comes as JSON
is an answer without a list: the pages of the proxies and of their assignments show an
empty list then, that of the accounts counts none before the login.

**RequestTranslation, TupleSchemas.** Pure conversions: the translators are operators on
a conversation, which the state variable lets grow. In OpenAI's formats a result may lack
its id or name, which becomes `Unknown`, and a tool's message has words only, its images
being dropped by `extractText`. The schema conversion is recursive on schemas, all of
which up to a depth are initial states: among them conditionals (`if`, `then`, `else`),
which the walks that find and convert tuples go into and the one that restores them does
not, and properties beside a combinator (`mixed`), of which it restores the former only.

**Translation, PassThrough.** The upstream's events are the actions; each one makes every
translator's move at once, so that the clients' views can be compared. Text is counted
in deltas, or is the sequence of its chunks where order matters. Arguments of a call may
be no JSON: where a format wants them parsed (Gemini's, and Anthropic's when collected)
the client gets an empty object in their place (`Parsed`).

**Transports.** The transfer (process, loop, task or socket) ends on its own and the way
learns of it in one last event, `TransferOver`. What a way does at each event differs by
`way` in the operators `AnswersAtOnce`, `EndOf`, `Listens`: the native addon's headers
and chunks come as events of their own, while the command line and the socket settle
their promise in the event that brings the headers. `FallBackToHttp` is the second try
of `createResponse`.

**CurlBinary.** Sending and failing are two steps, between which other requests set and
expire the fallback to HTTP/1.1.

**Updates, DesktopUpdater, ServerProcesses.** The stages of an update of the checkout, by
each caller that may start one; the dialogs and downloads of the desktop application,
answered in any order or never; processes that start, listen one turn later, close and
spawn a successor. When a process ends or crashes, any of the children it has, the git or
npm of an update or a full update, may outlive it (`survivors`) and end later, beside
those of the next process. The hard timer of a restart may find the process still up or
already closing.

## 3. Runs

| Run | Checks | Result |
|---|---|---|
| `account_pool` | `TypeOK`, `SlotsBacked`, `ParkedHoldsNoSlot`, `StaleSlotsDropped`, `AcquiredIsUsable` | hold |
| `proxy_handler` | `TypeOK`, `SlotsGivenBackOnce`, `CountedAtMostOnce` | hold |
| `failover_ends` | `EveryRequestAnswered`, `FailsOverInOrder` | hold |
| `token_refresh` | `RefreshingIsOwned`, `NoTokenDropped`, `SemaphoreKept`, `ServedInOrder` | hold |
| `refresh_ends` | `RefreshEnds` | holds |
| `account_store` | `TypeOK`, `DiskFollowsMemory`, `TokensDurable`, `WindowsCurrent`, `CountsLikePool` | hold |
| `usage_stats` | `TypeOK`, `SnapshotsMonotone`, `NothingCountedTwice` | hold |
| `egress` | `JarKept`, `PoolKept` | hold |
| `models` | `CatalogueKept`, `NothingTakenBack` | hold |
| `operations` | `LoginsKept`, `OneTimeTokensGuarded`, `OnlyVerifiedGoesBack`, `SessionsKept`, `MigrationKeepsAccounts`, `PageTellsTheTruth` | hold |
| `server` | `ConversationKept`, `TuplesKept`, `ResponsesArrive`, `AnswersKept`, `UpdatesInOrder`, `OneSuccessor`, `Http2Retried` | hold |
| `disabled_stays` | `DisabledStaysDisabled` | violated |

Several of these are conjunctions, each named for what its parts are about together:

- `SlotsGivenBackOnce`: `SlotsAccounted` (slots never exceed the requests in flight plus
  the releases the guard swallowed: an upper bound) and `NoDoubleRelease` (no request
  releases more than it acquired). It does not say that every request in flight has its
  slot: a mark drops the slots of requests at work, and their late releases pop those of
  others (`NoRequestWithoutSlot`, below).
- `FailsOverInOrder`: the handler implements `Failover` (`FailoverSpec`: no account gets
  a request twice before an answer has begun, and another one gets it after only if that
  answer was empty, which is tried a bounded number of times), and `EveryStepCounts` (every
  step of a request uses up at least one of the steps it had left).
- `RefreshingIsOwned`: no step leaves an account `refreshing` with no refresh at work or
  waiting; only a start that loads one in that status and does not schedule it does.
- `SemaphoreKept`: the permits are exactly those of refreshes under way and nobody waits
  while all are free and none is on its way to a waiter (`SemaphoreExact`); permits held
  or on their way only grow by a refresh that found fewer than the limit held, so a limit
  that was lowered admits nobody before it is met (`ConcurrencyLimited`). They may exceed
  the limit by those on their way (`SlotsWithinLimit`, below).
- `CountsLikePool`: the store implements `AccountCounts` and `PoolUsage`.
- `ServedInOrder`: nobody leaves the queue before one who waited longer
  (`NobodyOvertaken`), and a refresh in its slot ends or goes on, each retry being an
  attempt more (`AttemptsCounted`). A newcomer may find a free slot while others wait,
  after the limit was raised; the code gives it to it, and so does the model. The queue
  is not held up by that, since every release admits its first waiter.
- `JarKept`: `EveryChangeTaken` (a change is in the last snapshot that a write took, or
  the timer's will have it) and `RepairedWhenAlone` (unless writes overlapped or one
  failed the file is whole and catches up; after that the first write that runs alone and
  does not fail repairs it, and only the next change of the jar brings one about).
- `PoolKept`: `AssignmentsResolve`, `FileFollows`, `RoundRobinFair`, and
  `DisabledByOperator` (checks under way never bring a disabled proxy back).
- `CatalogueKept`: `ChainGoesOn` (the chain of fetches neither dies nor doubles),
  `CacheKeepsTheCatalogue`, `DisplayNameAsksTheSame` (the name in an answer, sent again,
  asks for the same model, effort and tier). `NothingTakenBack`: `NewestListStays`,
  `ListedNamesKeepTheirMeaning`.
- `LoginsKept`: `ListenerIsActive`, `RetryPossible`, `GrantedLoginsLand`,
  `HandledLoginsKnown`. `OneTimeTokensGuarded`: `ExchangesGuarded` (no two imports
  exchange a token at the same time) and `MidFlightEndsIt` (one call sends it no second
  way once the server may have it). `OnlyVerifiedGoesBack`: the account's token is
  replaced by an older one only by a single import that stores after its verification.
  `SessionsKept`: `LockNeverProlonged`, `OnlyLogoutEnds`. `MigrationKeepsAccounts`:
  `AccountsSurviveStarts`, `NothingWrittenOut`. `PageTellsTheTruth`: `OwnChangeShown`
  (where the server answers with a list), `NoticeIsTrue` (where it answered the question
  for the number before).
- `ConversationKept`: `ResultsMatched` (a result that names its call reaches it, another
  reaches none; Gemini's reaches the call at its place), `NothingLost` (but images in
  results, which only Anthropic's format has). `TuplesKept`: `RestoredIsValid` (for
  schemas in which the walk back comes to all that was converted, `WalksAgree`),
  `AsksNoTuples`. `ResponsesArrive`: `NobodyLeftWaiting`, `BodyWhole`,
  `CutIsSignalled`, `RequestedOnce`. `AnswersKept`: `ContentArrives`, `BlocksWellFormed`,
  `EmptyTold` (translated streams), `AnswersAgree` (passed through). `UpdatesInOrder`:
  `OneUpdateAtATime`, `OnePipelineAtATime` (both within one process),
  `DownloadedStaysOffered`.
- `JarKept`, `PoolKept`, `CatalogueKept` and those of `operations` and `server` have the
  type invariants of their modules among their parts.

`disabled_stays` checks what a comment says and the code does not keep: an account is
disabled while its timer is pending; the timer's refresh marks it `refreshing` and then
`active`.

**Stated and refuted.** More statements of the repository's comments, tests and changelog
are stated in the modules, under "Properties", and TLC refutes them when they are put in
the place of a run's properties. "findings" in `PROJECT.json` quotes each:

| Property | What happens |
|---|---|
| `RateLimitEnds` (`AccountPool`) | limited, then usage reset: no deadline is left and the account stays `rate_limited` |
| `NoOrphanSlot`, `NoRequestWithoutSlot`, `TurnStateOfResponse` (`ProxyHandler`) | an empty response retried on the same account leaves a slot; a mark drops the slots of others at work; an empty response retried on another account has the first one's turn state recorded |
| `SpentTokenNotResent`, `PermanentErrorsConsecutive` (`TokenRefresh`) | the answer with the rotated token is lost and the old one is sent again; refused, unanswered, refused counts as two in a row |
| `CrashRecovered`, `SlotsWithinLimit` (`TokenRefresh`) | with refreshing switched off, or without a refresh token, an account loaded as `refreshing` stays so; an import takes the slot that is on its way to a waiter |
| `TotalsSurvive` (`UsageStats`) | an account goes and another counts as much before the next snapshot: nothing moves to the baseline |
| `CookieFileWhole`, `FlushedBeforeExit` (`CookieJar`) | two writes share one temporary file; a write that fails is logged and forgotten, also the last one |
| `JudgedByPresentUrl` (`ProxyPool`) | a check of the old URL sets the status of the new one |
| `SourceIsTrue` (`ModelCatalogue`) | another plan's list labels a backend model `static` |
| `YesMeansLoggedIn` (`Logins`) | a callback server given the code of another login marks its own login as completed too |
| `DuplicatesProtected`, `TokenNeverGoesBack` (`Imports`) | duplicates of one list come one after the other and never meet the guard; a verified import stores its token over a newer one |
| `NoRouteTwice`, `PreFlightFallsBack` (`TokenExchange`) | `undefined` stands for the global proxy, which is tried again; a refused connection or failed handshake does not lead to the next step |
| `MigrationSurvivesCrash` (`AccountMigration`) | a crash while the migrated file is written leaves it unreadable, for ever |
| `NewAccountIsNew`, `DoneIsShown` (`DashboardView`) | an error in JSON counts as no account, and the next answer brings a "new" one; the load after an operation fails, and the page shows the list of before, or an empty one |
| `NoBlockLeftOpen`, `ArgumentsArrive` (`Translation`) | a response that fails within a call, or is cut, leaves a block open; arguments that are no JSON become an empty object |
| `GeminiMatchesByName`, `ResultImagesKept` (`RequestTranslation`) | the map of names is made anew per content, and results are matched by position; an image in a tool's message is dropped |
| `TuplesRestored`, `RestoredWithoutChoice`, `NoPrefixItems` (`TupleSchemas`) | of a choice the first branch with a tuple is taken; a tuple in `then` or `else`, or in a combinator beside properties, is converted and not restored; tuples in `patternProperties` reach the backend |
| `NothingHeldBack` (`PassThrough`) | held text is lost if the response does not complete |
| `StatusIsTheBackends` (`Transports`) | libcurl's callback takes the tunnel's status |
| `FallbackIsTemporary`, `ExitCodeTriggers` (`CurlBinary`) | only curl-impersonate ever leaves the fallback; simple requests pass no exit code on |
| `ClaimsTheReportedVersion`, `OutdatedIsOffered`, `NoSilentDeath` (`Updates`) | a reload or restart goes back to the version of `default.yaml`; an update that fails after the pull is never offered again; without its executable the process stays and serves nobody |
| `OneFullUpdate`, `OneUpdateOnCheckout` (`Updates`) | children of a process outlive it and run beside those of the next one, whose flags are down |
| `NoAskingAgain` (`DesktopUpdater`) | with two questions open the older answer forgets the newer |
| `RetriesWhilePortTaken`, `DesktopFallsBack` (`ServerProcesses`) | the port turns out to be in use after `startServer` has returned |

For the reader only, since no document promises them, the modules also state what one
would wish: `CompleteOrSignalled`, `AbortStopsTransfer`, `CallbacksCatch`,
`UsageCountedAlike`, `CutIsTold`, `ResultsBeforeWords`, `InstallNamesIt`, `MenuIsCurrent`,
`DoneAgrees`, `RightStaysRight`, `EmptyMeansNone`, `RefreshingShown`, `UnreadFileKept`,
`NoRestartDuringUpdate`. The code does not keep these.

**Bounds and why they are enough.** `account_pool`: two accounts (one can be excluded,
preferred or full while the other is not), one plan beside "no plan", limits 1 and 2
(the limit can drop below the load), two units of time with slots stale and tokens and
limits ended in the second, at most two holders each: so an account can be cleared,
re-acquired and released late by its first holder. `proxy_handler`: two requests on two
accounts with limit 1 (one's mutations hit what the other holds), one empty-response
retry, a limit that ends one unit after it began. Slots go stale in it as well, because
`LockTTL = 0`. `failover_ends`: one request, since requests only hinder each other by
making accounts unavailable, which the operator does there too; two empty-response
retries as in the code, so that the second ends what the first did not. `token_refresh`:
an account with single-use tokens and one with reusable ones, limits 1 and 2 changing at
any time, two attempts and a threshold of two (the code has five and two), one probe or
import (which may come while a slot is on its way); and, by the constraint `Bounded`,
three accounts and one slot, so that two wait and one could overtake, then without
probes, imports, revoked grants, stray timers and repeated permanent errors.
`refresh_ends`: limit 1, so that one account must wait for the other. `account_store`: a
behaviour is either of one account with all of its statuses, its window and time (the
properties of the file and of windows speak of one account at a time), or of two active
accounts with their counters, so that what is counted on, reset or removed with one
could disturb the other's; the theorems hold for any number, all of it combined. Two
units of time let a window or a limit that was written in one be over in the next; an
unknown and a known window length take both branches of the roll-over. `MaxCount` bounds
the usage of all accounts together. `usage_stats`: three snapshots that age after one
unit, so that pruned, first and last snapshot are all different; two restarts, so that a
crash can follow a recovery. `egress`: two proxies (the round robin has a next one, a
removal a remaining one), two URLs, one check of each under way, one restart; two
overlapping writes of the cookies, a critical and an ordinary one, one expiry. Its
constraint `Bounded` separates what need not be combined: failed writes of the proxies
are explored before a restart and without checks, two writers of cookies at a time not
after a restart or an expiry, and what they or failed writes leave with cookies that do
not expire. `models`: two plans with a model in common, one whose list changes to one
that takes a model away and brings a name that ends like an effort; `FewWrites` explores
two writes of the cache together. `operations`: two browser logins (one replaces the
other's server) and one device login, `OneKind` keeping them apart, two exchanges under
way (two bringers of one code), a clock that goes past the session's life; two batches
and a single import against the scheduler, three tokens; two failed attempts allowed and
two logins under way, so that one fails past the limit; an account of `auth.json`,
another old and a new one; a page with one row, two values and two requests at once, so
that a load and an operation overtake each other. `server`: conversations of five turns
with two calls in an answer (call, results, call again of the same tool); schemas of
depth two with two parts; a fallback of two units seen to expire and be set again; two
chunks, so that one can come before the promise is settled and one after; three items of
two deltas, so that every kind follows every other (what comes after the client has gone
changes nothing for it, and is not followed: `WhileClientThere`); two parts of two
chunks; one commit, one version, one restart, after which children of the first process
are there beside those of the second (`OneKindOfUpdate` does not combine new commits
with new versions); two releases and two questions at once; three processes, so that a
successor has one. Deadlock is not checked: time, processes and the counters of outside
events are bounded, one-shot models (a request, an exchange) end, and a server without
requests stops legitimately.

**Fairness.** `EveryRequestAnswered` assumes that the step answering a request is not
delayed for ever. Until the headers have come the transports' timeout justifies it; that
a body that has begun also ends is an assumption about the backend, since the timeout is
cleared by then. `RefreshEnds` assumes it of the token requests (a timeout of 30 s) and
of the backoff sleeps (timers). Nothing is assumed of the operator, the clock, the
probes or the timers that start refreshes. The modules checked by `egress`, `models`,
`operations` and `server` state no fairness: their properties are all safety.

## 4. Proofs

Eight modules hold theorems. They hold for every value of the constants that the named
assumptions of the modules admit: any sets of accounts, requests, proxies, models (finite
where the assumptions say so, as everything in the program is), any limits, lifetimes and
bounds. The assumptions only say that numbers are numbers, that special values are
none of the ordinary ones, and that sets that are counted are finite. Of the properties
the passing runs check, all are proved but those listed at the end of this section.

An invariant that a run checks is seldom inductive. Below, for each component, is what
is proved, the inductive invariant, and why it has the parts it has. All of them have
the same layout: a lemma that the first state has the invariant, a lemma for each action
that it keeps it, `Inductive` (or the first step of the theorem) that puts these
together, and theorems that read the properties off it.

**The pool** (`AccountPool_proofs`).

- `TypeCorrect`: `Spec => []TypeOK`
- `NoPhantomLoad`: `Spec => []SlotsBacked`
- `ParkedAccountsUnlocked`: `Spec => []ParkedHoldsNoSlot`
- `CleanupExact`: `Spec => []StaleSlotsDropped`
- `AcquireSound`: `Spec => AcquiredIsUsable`

`IInv` is the conjunction of the types, `SlotsChronological`, `SlotsBacked` and
`ParkedHoldsNoSlot`. Chronological slots are what makes the clean-up right: a pop removes
the first slot, a push appends the present, a clean-up leaves a suffix, and all three keep
the order (`PushChronological`, `PopChronological`, `SuffixChronological`). In
chronological slots the stale ones are the first `StaleCount` of them (`PositionsCounted`,
`FreshSlotsExact`), so cutting them off equals filtering. Every part speaks of one
account at a time, so the invariant is restated account by account
(`InvariantByAccount`) and each operator has a lemma saying that it keeps the account's
part. `AcquireSound` is an action property: candidates are active after the lazy refresh,
hence unexpired, and below the limit before their push.

**The store** (`AccountStore_proofs`).

- `TypeCorrect`: `Spec => []TypeOK`
- `FileFollows`: `Spec => []DiskFollowsMemory`
- `NoTokenLost`: `Spec => []TokensDurable`
- `ReadsCatchUp`: `Spec => WindowsCurrent`
- `StoreIsPool`: `Spec => CountsLikePool`, two refinements: `AccountStore` implements
  `AccountCounts` with `count` and `saved` mapped to the counts of the accounts present,
  and `PoolUsage` with `live` and `saved` mapped to the sums over them

`IInv` is the conjunction of the first three. Types are needed because the roll-over
divides; the other two are inductive beside them, but not obviously: the lazy refresh
changes statuses without a write, so the file may differ from memory with no timer
pending. What saves it is that refreshing is idempotent and composes over time (a
refresh now after a refresh earlier equals a refresh now), which makes "equal after a
refresh" stable under `Tick`, `Read` and `Restart`. `ReadsCatchUp` rests on
`NextResetAhead`: the quotient in `NextReset` moves the end past the present by at most
one length. For the refinements, an account that is not in the pool has no counts
(`BothClean`), and an action counts or forgets on the account it is about alone; the sum
is the cardinality of a set of pairs, and each action either leaves every account's
count, lowers some, raises one by one, or replaces the counts by those of the file; each
way has a lemma about the cardinality, and each is a step of `PoolUsage` or a stutter.

**The statistics** (`UsageStats_proofs`).

- `TypeCorrect`: `Spec => []TypeOK`
- `TotalsNeverFall`: `Spec => []SnapshotsMonotone`
- `NothingInvented`: `Spec => []NothingCountedTwice`

`IInv` adds to the types that the totals climb in memory and in the file (a restart
continues with the file's) and stay within what was counted or regained, that baseline
plus live usage does too, and that the baseline of the file is not above the one in
memory. A new total is baseline plus live usage after
`NextBaseline`, hence at least the last total; cutting off aged snapshots keeps order.
The statistics rest on `PoolUsage` alone, so with `StoreIsPool` they apply to the store.

**The request handler** (`ProxyHandler_proofs`).

- `TypeCorrect`: `Spec => []TypeOK`
- `NoSlotLeftBehind`: `Spec => []SlotsGivenBackOnce`
- `CountedOnce`: `Spec => []CountedAtMostOnce`
- `FailoverRefined`: `Spec => FailsOverInOrder`, the refinement: `ProxyHandler` implements
  `Failover` under `CourseOf`, and every step counts

A step of a handler leaves one account and may take another in the same turn, so the
invariant is stated of any entry map, slot map and records of requests (`PoolFits`) and
carried through the two halves. An account's slots are at most its holders
(`HoldersIn`) plus the releases its guards swallowed (`LostIn`), both sets whose
cardinalities change by at most one. `RequestOK` is what keeps a release from being given
twice: a request in flight owes exactly one release of its present account, has not been
counted on it, and the account its caller would release (`outer`) is this one or is in
`released`. Between release and next acquire it owes none (`Between`). Each of the
branches (answered, failed over, banned, limited, empty, aborted, cut) is one lemma.

For the refinement, a lemma for each action says what it does to the course of its
request: `Start` asks or ends, the branches that fail over ask an account not tried yet or
end, headers begin the answer, an empty response is asked for again or ends, the others
end (`EveryStepAdvances`). The headers of a retry, the operator and the clock leave every
course as it was. `RequestOK` is needed for the number of retries and for the second
release when a retry throws. `MovesCount` then says that each of these moves takes
`StepsLeft` down and not below zero: before an answer has begun it counts the accounts
not tried, after it the retries. So a request that has begun changes its course at most
as often as there are accounts, plus the retries, plus two: this is the part of
`EveryRequestAnswered` that needs no fairness. The number depends neither on the other
requests nor on what the operator does to the accounts, for which the run has small sets
and the theorem any finite one.

**The refresh scheduler** (`TokenRefresh_proofs`).

- `TypeCorrect`: `Spec => []TypeOK`
- `NobodyStranded`: `Spec => RefreshingIsOwned`
- `TokenNotDropped`: `Spec => []NoTokenDropped`
- `SemaphoreTheorem`: `Spec => SemaphoreKept`
- `OrderTheorem`: `Spec => ServedInOrder`

`IInv` says that the record `Here` is `Consistent`. Its part about an account
(`AccountOK`) ties the status to the task, the task to the call, and the good token to
the call that carries it; its part about the semaphore says that `running` counts the tasks
at work, that the queue has each waiting account once, and that it is empty unless
somebody is at work or woken; that is why a lowered limit cannot strand it. Because
operators run one in another within one turn, `Consistent` takes as an argument how many
refreshes have ended without having given back their slot. Its other argument is a set of
accounts that may be `refreshing` without a refresh: with all accounts in it, it gives the
invariants; with those stranded now, what a step may not do, since no step can know of a
set and all keep it (`NobodyStranded`).

For `SemaphoreTheorem` and `OrderTheorem` each operator is also shown not to raise the
slots held and on their way but below the limit (`ClaimedIn`), and to leave the order of
the queue and the tasks at work alone (`Admits`, of `ReleaseSlot`, `DoRefresh`,
`ScheduleOne`) or to take one task on (`Serves`, of `Over` and `TryLater`): whom
`ReleaseSlot` wakes stood first. With the bound on attempts that `TypeOK` has, a waiter is
behind at most `MaxAttempts` calls of each account at work or before it, which is the part
of `RefreshEnds` that needs no fairness.

**Cookies and proxies** (`Backend_proofs`).

- `CookieTheorem`: `CookieSpec => []JarKept`
- `PoolTheorem`: `Spec => PoolKept` (of `ProxyPool`)
- `EgressTheorem`: both, of the composition that `egress` checks

For the cookies, `LoneWriter` says that a writer nobody overlapped has the temporary
file to itself and is writing what was last taken, `FileIsTaken` that unless writes
overlapped or one failed the file is whole. A writer that is overlapped stops being
alone for good, so nothing need be known of what it writes; one that fails leaves the
file unrepaired. For the proxies, `Sound` ties proxies, order and assignments together,
in memory and in the file, since a restart puts the file's in the place of memory's. The
round robin is the hard part: `RoundOK` says that the proxies already had in this round
are the `k` places before the index, cyclically, for some `k`. A removal or a disabling
changes places, which is why `turn` starts anew then, and the invariant with it.

**Answers** (`Backend_proofs`).

- `TranslationAnswers`: `TranslationSpec => [](ContentArrives /\ BlocksWellFormed /\
  EmptyTold)`
- `TranslationTypes`: `TranslationSpec => []TranslationTypeOK`
- `PassAnswers`: `PassSpec => [](PassTypeOK /\ AnswersAgree)`
- `AnswersTheorem`: all of these, which is `AnswersKept`

What a client has got is compared with the sequence of items the backend sent, of which
a sequence of any length may come, so each reading of the items (the text of a part, the
calls, the arguments of one) is first restated by what one more item at the end adds to
it; the rest speaks of these additions only. `TranslationInv` says what each translated
stream has of the items while they come (`AllMid`) and when the response is complete
(`AllHave`), and the same of the collectors (`CollectedMid`, `CollectedEnd`). It has to
distinguish the two because tool calls and, for Gemini, arguments come late on purpose.
Beside it stand the shape of the item stream (`InOrder`: at most one call is open, and
none when the response completes) and of the Anthropic blocks (`BlocksInShape`: the
blocks that are started and not stopped are exactly the one the encoder's locals name),
without which neither the index of the next block nor the closing at the end could be
followed. For responses that are passed on, `PassInv` orders the parts and their events
(`PartsInOrder`), and says of an unfinished stream that what was streamed is what the
backend wrote or, when text is held back for the conversion of tuples, that none was
streamed and the buffer has it all in order (`GoingOn`). The types of the translation
rest on what is counted: `CountsInv` says that a translator reports neither error nor
usage before the event that ends the response, at most one of each while the stream is
open, and one error more when it breaks. What a call's arguments parse to is a choice of
the model, so that the theorem gives the parsed formats what `Parsed` makes of the
items, and not what was said.

**Conversations** (`Backend_proofs`).

- `ConversationTheorem`: `ConversationSpec => []ConversationKept`

The input of a conversation is the concatenation of what its turns become, so it is
followed turn by turn: a turn more puts its items behind those before (the lemmas on
`FlattenSeq`), and for each dialect and kind of turn the items it becomes are laid out
once: where the message is, where each call, result and image. `ConversationInv` says
that every turn has the shape of its speaker's (`TurnIs`: the user makes no calls, a
call's identity is the place where it was made, results come with no calls) and that for
each dialect the input so far `Holds`: every turn is kept, none overtakes another, every
result that names its call finds it and no other result finds one, and the last items are
the calls of the last turn. Of the last part the
next step needs it: ids made up of tools (the older functions) or of positions (Gemini)
are used again by every answer, and a result goes to the last call with its id, which has
to be the one of the turn before.

**Logins, imports, the exchange, starts, the dashboard** (`Operations_proofs`).

- `LoginsTheorem`, `ImportsTheorem` (`ExchangesGuarded` and `OnlyVerifiedGoesBack`),
  `ExchangeTheorem` (`MidFlightEndsIt`), `MigrationTheorem`, `DashboardTheorem`,
  `ViewTheorem`: the properties of each module, of its own specification
- `OneTimeTokens`, `PartsKeepTheirs`: the same of the composition that
  `operations` checks, by `Composition`: a behaviour of the composition is one of each part

Beside the types: a login's times fit (`TimesOK`: a young login without success still has
its session, and its mark of success is not older than the success); a batch that
exchanges has its entry still in front (`EntryInFront`); a token whose answer is on its
way is nowhere else yet (`NewestOnce`); all attempts but the last led on
(`EarlierWentOn`); at every stage of a start the account of `auth.json` is in one of
the two files (`LegacySafe`) and a loaded pool has what the file has (`PoolHasFile`);
failures and logins under way of an address are bounded together (`FailuresBounded`); a
page's call knows what the server has unless another operation overtook it (`CallTells`),
and the dialog's count is that of before the new account (`CountTells`).

**The server around requests** (`Server_proofs`).

- `ProcessesTheorem` (`OneSuccessor`), `CurlTheorem` (`Http2Retried`),
  `TransportTheorem` (`ResponsesArrive`: that a cut is told is proved of the command line
  alone, the other ways do not tell it, and the order of chunks is not modelled),
  `UpdateTheorem` and `DesktopTheorem`, together `UpdatesTheorem` (`UpdatesInOrder`)
- `DisplayNameTheorem`: `DisplayNameAsksTheSame`, which needs no behaviour: for any
  unambiguous catalogue
- `CatalogueTheorem`: `ModelSpec => []CatalogueKept`;
  `NothingTakenBackTheorem`: `ModelSpec => NothingTakenBack`

`Lineage` is why no child finds its parent with the port: a parent is gone before its
child starts, and has one child. `FallbackFollows` fixes the end of the fallback to the
first failure. A body that is open has everything that was sent (`BodyKeepsUp`), one
behind the command line closes for a known reason (`CutIsKnown`), and what was never
connected was never requested (`NotYetRequested`), so that a second try is the first
request. `OneAtWork` ties the updater's flag to its stages, and therewith the children a
process leaves behind: as many kinds as it has, one of each. `OfferedIsDownloaded` needs
`FoundFirst`: an answer to an old question finds the version a check left. In the
catalogue, `CacheFollows` says what the one write under way writes, and `ListsInOrder`
that with one slot for an account only one fetch asks for a plan at a time, so that its
answer is the newest. Names are proved by cases on which suffixes are there; that an
unambiguous name which is cut is not itself a known model is `LongerIsUnknown`.

**Only model-checked**, and why:

- `EveryRequestAnswered` and `RefreshEnds`: liveness under fairness, and with it
  ENABLED, is beyond TLAPS. Of the first, the bound on its steps is proved
  (`FailoverRefined`), and of the second the order of the queue and the count of
  attempts (`OrderTheorem`); what is left to TLC is that a request, or a refresh, always
  has a next step.
- `TuplesKept`: `TupleSchemas` converts schemas and values recursively (`RECURSIVE`).
  tlapm gives up its SMT prover in every module that reaches such a definition, and what
  a recursive conversion does to every schema needs induction over data, which its
  provers cannot instantiate. TLC checks it on every schema of depth two.
- That the behaviours of `MCServer` are behaviours of each of its parts: for the same
  reason it can hold no theorem. Each of its steps is one of one part that leaves the
  variables of the others alone; the theorems are of the parts' own specifications.

## 5. Plan

1. Token versions in the handler, to compose it with `TokenRefresh` (a late 401).
2. Cached quota and the skip of exhausted accounts; the buckets of `getHistory`.
3. The rest of session affinity: expiry and its bound.

## 6. Not modelled, and why

- Bytes: SSE and WebSocket framing, decompression, multipart, the native addon's and
  libcurl's internals. `Transports` models the events they produce.
- Generation parameters, tool declarations and instructions in translated requests:
  copies of fields, which tests compare better than a model does.
- Parsing, validation and editing of configuration files; the fingerprint manager; the
  paths a request needs no session for; logging.
- Components of the web UI, translations of its texts, packaging, and the scripts that
  build, extract fingerprints and install curl: no state that outlives a call.
- `destroy` of the scheduler and the catch blocks for answers that are not strings.
