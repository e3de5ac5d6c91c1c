# A TLA+ model of trackr

trackr is a multi-tenant link shortener in Go. One process serves the API and
the public redirect; a global SQLite (or libSQL) database holds organizations,
users and invites, and every organization has an SQLite file of its own with its
links, clicks, webhooks and daily statistics. This directory models the parts of
it that keep state and run concurrently, checks them with TLC on small
instances, and proves every safety property with TLAPS for all instances, with
the safety part of what makes requests, calls and deliveries end.

Paths below are relative to `src/`; `…` stands for `internal`.

## 1. Inventory

| Part | State | Operations | What is hard |
|---|---|---|---|
| Link management: `…/engine/links`, `…/api/handlers/link_handler.go` | table `links` of the tenant database | create (draw or check a code, INSERT), patch (SELECT, merge, UPDATE), archive (UPDATE), read-only list, get, QR | no request has a transaction: its statements interleave with those of others |
| Redirect: `…/api/handlers/redirect_handler.go`, `…/engine/redirect/cache.go`, `logger.go` | link cache and domain cache (`sync.Map`), table `clicks`, `links.click_count` | resolve host, cache lookup, read-through fill, answer, LogClick in a goroutine | stale entries, a fill racing a write, the cache shared by all tenants, fire-and-forget logging |
| Accounts: `auth_handler.go`, `org_handler.go`, `repositories.go` | tables `organizations`, `users`, `invites` (global) | signup by invite, login, refresh, create organization, create and list invites | checks outside the transaction they guard; the single write lock; rollback |
| Tenant pool: `…/platform/database/tenant.go` | map from organization to `*sql.DB` under an RWMutex | Get, CloseAll | double-checked locking, error return while holding the lock |
| Rate limiter: `…/api/middleware/rate_limit.go` | map of token buckets, a mutex each | Allow, cleanup every ten minutes | time read before the mutex; a bucket removed while a request holds it |
| Provisioning: goroutine in `OrgHandler.Create`, `cmd/migrate` | schema of the tenant database | run the migration files | races the first requests; errors dropped; crash; run again |
| Webhooks: `…/engine/webhooks/dispatcher.go`, `webhook_repo.go`, `webhook_handler.go` | table `webhooks` | create, patch, delete; Dispatch, deliver | a goroutine per delivery, two statements per outcome |
| Analytics: `…/engine/analytics`, `analytics_handler.go` | table `daily_stats` | ComputeDailyStats (three queries), upsert, GetLinkClicks by page, read-only reports | queries of different moments; pages that shift while clicks arrive |
| Rules and devices: `…/engine/links/rules.go`, `…/pkg/parser`, `…/pkg/geoip` | none | pick the destination of a visit | priorities, missing and empty values |
| Request pipeline: `…/api/router.go`, `middleware/auth.go`, `middleware/tenant.go` | request context | chain, wrap, requireRole | a handler must find what a middleware stored; roles as old as a token |
| Tokens: `…/platform/auth/jwt.go`, login and refresh in `auth_handler.go` | none: sessions are not recorded | sign, parse, login, refresh | nothing is revoked, only time ends a session |
| API keys, audit log, user/SAML/domain/health handlers, workers, configuration, logging, QR codes | single statements or none | | stubs, or no interaction |

How they interact. The router wraps each handler in authentication, tenant
lookup (which calls the tenant pool) and rate limiting. Link handlers write the
tenant's `links`; the redirect reads it through the cache and its LogClick
goroutines write `clicks` and `links.click_count`. No write tells the cache.
Signup and organization creation share the global database and its one write
lock; organization creation starts the provisioning goroutine, and the pool
opens the same file without waiting for it. Nothing in the server calls
`Dispatcher.Dispatch`, the retry of webhooks, the expiry of links or the daily
statistics: the workers only log.

Facts about the wiring that bound what the models speak of:

- The handlers of links, redirects, webhooks, API keys and the audit log ask the
  context for the plain strings `"tenant"`, `"claims"`, `"params"` and for
  `*database.TenantContext`, while the middlewares store values under a typed key
  and store `*middleware.TenantContext` (`…/api/middleware/tenant.go:57`,
  `…/api/handlers/link_handler.go:25`). The unchecked assertions panic on these
  routes as they are wired today: run `request_pipeline_context`. The other
  modules start behind these lookups, with the context the handlers are written
  for.
- For the same reason the limiter, meant to count by organization, falls back to
  `RemoteAddr`, port included; `RateLimiter` leaves the key open.
- httprouter 1.3.0 refuses a parameter beside a static segment, so that
  `GET /:short_code` beside `/health` makes `NewRouter` panic; the modules speak of
  the routes as they are listed.
- `main` only leaves through `log.Fatalf`, so its deferred `CloseAll` does not
  run in practice; `TenantPool` lets it come at any time all the same.
- No code writes the `domains` table, a user's role or `deleted_at`, or an
  invite's status, and no code compares `link_quota` with anything. Where a
  module lets such a row change, an operator does it.
- The status of a link is any non-empty string a PATCH gives (`…/engine/links/service.go:81`;
  neither `ValidateLink` nor the table restricts it), though `active, paused, archived` is
  what the comments list. The redirect answers every one but `active` with 410, so that
  in `Links` the set of statuses is open.
- `PLAN.md:670` and `:681` reserve PATCH and DELETE of a link to its creator or an admin.
  Neither `router.go:100` nor the handler looks at the role or at `created_by`; the route
  has no roles in `RequestPipeline`, and `AuthorizedRecently` asks of it no more than a
  member's claims.
- `invites.email`, meant to lock an invite to an address, is stored and never compared
  by Signup; `Accounts` leaves the column out.
- Signup hands out a pair of tokens too, signed from the row it has just committed. In
  `Tokens` that is a login that reads the row at its commit.
- A webhook whose URL cannot be parsed, which no handler refuses, fails every delivery
  before its POST and shows neither a `last_error` nor a `retry_count`
  (`…/engine/webhooks/dispatcher.go:53`).
- `expires_at` of a link is stored and never read by the redirect, though
  `PLAN.md:798` answers an expired link with 410.
- `ComputeDailyStats` and `UpsertDailyStats` are called by no code. Run twice for a
  day at once, the last upsert wins, whatever it counted.
- `clicks.ip_address` holds `RemoteAddr` with its port, so that `unique_ips` counts
  connections. The keys a device rule is documented with (`…/engine/links/link.go:29`:
  ios, android) are none `ParseDeviceType` returns, and a device rule with an empty
  URL hides the rule for the country.
- The statements of LogClick are not in a transaction; `GetClicks` does not ask
  for `rows.Err`; its `(page-1)*limit` can overflow for a page no client asks for.
- `GetFailed` (`…/repositories/webhook_repo.go:178`), which no code calls, misses
  the webhooks whose `last_triggered_at` is NULL.

What makes each part correct: links - codes unique per tenant and never handed
to another link, whatever creates race; redirect - no tenant sees another's
link, staleness is bounded, every click is accounted for; accounts - rows
unique, uses count users, organizations have owners, the lock is released; pool -
one handle per tenant, no call hangs, no map race; limiter - never more than the
rate allows; provisioning - a reported success means a whole schema; webhooks -
no failed POST lost from the count, no deleted row revived, every delivery ends;
tokens and pipeline - no handler runs without a member's claims, with a role the
member lost longer ago than a token lives, or for a user who is long deleted;
traffic - a visit is for the organization its domain has, or had within the life
of an entry, a finished day's statistics are its clicks', paging loses no click.

## 2. Modules

| Module | Models | State ↔ code |
|---|---|---|
| `CodeRegistry` | abstract: codes are claimed once, for ever | `claims` |
| `Links` | `LinkHandler`, `links.Service`, `links.Repository` | `table` = table `links` of each tenant; `job[p]` = what goroutine `p` has in its local variables and which statement comes next |
| `Redirect` (EXTENDS `Links`) | `RedirectHandler.Handle`, `LinkCache`, `ClickLogger` | `cache` = `LinkCache.store`; `visit` = handler goroutines; `log` = click rows and LogClick goroutines by link; `replaced`, `readAt` are history |
| `Accounts` | `Signup`, `OrgHandler.Create`, `InviteHandler.Create` | committed rows; `writer` = holder of SQLite's write lock; uncommitted writes live in `job` |
| `Membership` | abstract: organizations are founded, invites issued, members join, each in one step | `orgs`, `users`, `invites` = the committed rows; `Slack` = by how much an invite may be overused |
| `TenantPool` | `TenantDBPool` on `sync.RWMutex` | `pools`, `readers`, `writer`; `opened`, `closed` say which handles are open |
| `RateLimiter` | `Allow`, `cleanupLoop` | `store` = the `sync.Map`, `bucket` = the heap, so that a request can hold a bucket that is no longer in the map |
| `TenantProvisioning` | the goroutine of `OrgHandler.Create`, `runMigrations` | `schema`, `run[r]` = file and statement a runner is at |
| `Webhooks` | `Dispatcher`, `WebhookHandler`, `WebhookRepository` | `hooks` = table; `flight[i]` = delivery goroutines by what they do next, from building the request to the last statement; `ledger` is history |
| `Tokens` | `AuthHandler.Login`, `Refresh`, `auth.GenerateAccessToken`, `GenerateRefreshToken`, `ValidateToken` | `users` = table; `tokens` = what clients hold; `session[p]` = a login or refresh and the row it read; `former` is history |
| `RequestPipeline` (EXTENDS `Tokens`) | `NewRouter`, `wrap`, `chain`, `requireRole`, the auth, tenant and rate-limit middlewares | `req[r]` = stage, route and context of a request; `Routes` = the routes by middlewares, roles and what their handlers ask for |
| `Hosts` | `RedirectHandler.resolveOrgFromDomain`, `domainCache` | `domains` = verified rows; `domainCache` = the `sync.Map`; `visit[v]` = handler goroutines; `moved` is history |
| `Rules` | `RedirectRules.Evaluate`, `ParseDeviceType`, `DummyResolver` | operators |
| `Traffic` (EXTENDS `Hosts`, `Rules`) | from the host of a visit to its row in `clicks`, `analytics.Repository`, `AnalyticsHandler.GetLinkClicks` | `clicks` = table, `inserting` = LogClick goroutines, `job[j]` = a computation of statistics by its next query, `daily` = table `daily_stats`, `reader[c]` = a client and its page |
| `…Proofs` | theorems, a module for each component; `LinkProofs` has those of `Links` and `Redirect` | |
| `MC…` | the instances TLC checks | |

An SQL statement is one atomic step, and so is a `sync.Map` operation or a
section under a mutex; anything between two of them may be interleaved. A step
that fails is an action of its own (`StatementFails`, `Fail`, `QueryFails`, …),
and so is the death of the process where there is something to lose. Operators
marked *Variant* are slips the code could have made; the properties are known
to notice them.

Abstractions: one field stands for all fields a PATCH merges and validates alike,
the status being merged without; random codes are drawn from a small set by length,
so that they collide; bcrypt, headers, JSON and the layout of a page are left out;
so is the URL of a webhook, so that any delivery may turn out not to be buildable; a
token is its claims and its expiry, and its signature is taken to be sound; a
User-Agent is the set of the words looked for in it; times are small integers. The
way of a visit is cut in two at the organization: `Redirect` starts with the
organization found and leaves the destination as it is stored; `Traffic` finds the
organization, gives each one link with rules, and follows the click to its readers.
The two share no state but the rows of `clicks`, which `Redirect` counts and
`Traffic` dates.

## 3. Runs

| Run | Instance | Shows |
|---|---|---|
| `links` | 2 tenants, 4 ids, 2 goroutines, 3 requests, 1 retry; one code taken from the start | `LinksTypeOK`, `UniqueCodes`, `ImplementsRegistry`, `RequestsEnd` |
| `redirect` | 2 tenants with the same code, 2 visitors, 3 visits, 1 API request, TTL 1, clock 2 | `TenantIsolation`, `BoundedStaleness`, `ClicksAccounted` |
| `accounts` | 2 organizations on one slug, 3 users, 1 invite for 0 or 1 uses, 2 goroutines, 5 requests | `UsesCountUsers`, `BoundedOvershoot`, `UniqueRows`, `OrgsAreOwned`, `ImplementsMembership`, `LockReleased` |
| `tenant_pool` | 3 goroutines, 2 tenants, 2 handles | `OneHandlePerOrg`, `MapIsExact`, `NoMapRace`, `CallsReturn`, no deadlock |
| `rate_limiter` | 1 key, 2 buckets, 3 requests, limit 3 per 2 time units, clock 9, lag 1 | `BucketConforms`, `KeyConforms` |
| `webhooks` | 1 webhook, 2 PATCH goroutines, 4 requests, 3 deliveries | `FailuresAccounted`, `CountedHasError`, `DeletedStaysDeleted`, `DeliveriesEnd` |
| `provisioning` | the goroutine, 2 runs of the tool, 2 faults | `ReportedIsComplete`, `RerunsSucceed`, `ProvisionedOrFault` |
| `request_pipeline` | the owners of 2 organizations, 1 login or refresh and 1 request at a time, 2 tokens, access token 1, refresh token 2, clock 5 | `SessionsEnd`, `AuthorizedRecently`, `ClaimsBeforeRoles` |
| `traffic` | 1 domain between 2 organizations, 2 visitors, 2 visits and clicks, 1 job, 1 reader, 2 events, pages of 1 and 2, entry life 2, clock 2 | `HostStaleness`, `ClosedDayIsExact`, `PagesMissNothing` |

The comment above each property says what it means for the code. That the clock of a
bucket never runs back (`RefillClockMonotone`) is stated in `RateLimiter` and left to
its theorem: `BucketConforms`, which depends on it, is the property the run checks.

Three runs show a disagreement between the code and what the repository says of
it; their counterexamples are short and worth reading:

- `links_archive` (`ArchiveSticks`): PATCH of the destination reads an active
  row, DELETE archives it, the PATCH writes the whole row back, and the link is
  active again. With one goroutine the property holds
  (`ArchiveSticksWithoutRaces`), so that the race is all there is to it.
- `accounts_max_uses` (`MaxUsesRespected`): two signups pass the check of
  `max_uses` before either commits. `BoundedOvershoot`, which holds, says how far
  this goes: the number of concurrent signups, less one;
  with no concurrency, `MaxUsesHoldsWithoutRaces`.
- `request_pipeline_context` (`HandlersFindContext`): a request that has passed
  its middlewares reaches a handler that asks for a context value nobody stored,
  and panics. `TypedContextIsFound` says which: the values asked for under plain
  strings, on every such route and request, and no others.

### Bounds

Every bound is a constant: `MaxRequests`, `MaxVisits`, `MaxNow`, `MaxDispatches`,
`MaxFaults`, `MaxEdits` (changes of a user's row) and `MaxEvents` (moves of a
domain, jobs and pagings together) cap how often the environment acts, `Ids`,
`Handles`, `Buckets`, `MaxTokens` and `MaxClicks` how many objects can be made,
`MaxRetries` is the code's 5 made small. They are chosen by the shortest behaviours
that matter. Two creates racing for a code need two goroutines; a third request and
an existing link add a patch or an archive in between, and one retry is enough to
reach both lengths and the refusal. A stale answer takes a fill, a write and a later
visit, with an expired entry a third one. A race for an invite needs a founder, an
invite, two signups and one request more. In the pool two goroutines race and a
third closes. A bucket must fill, idle beyond the limit (three windows here, ten in
the code), be removed while a request holds it and be replaced: clock 9. In the
webhook run three deliveries can fail, fail and succeed around a PATCH that read
before them and a DELETE. A session of a deleted user outlives the deletion longest
when the last login read the row just before, its refresh token is used on its last
day and the access token from it on its own last: clock 5. An entry of the domain
cache is stale when a visit fills it around a move and a second one finds it: one
move and two visits, and a second event lets a job or a paging run beside. A page
that shifts takes one click on the first page and one that arrives in front of it; a
limit beyond the maximum makes the offset of the code differ from the naive one. Two
jobs that overlap are in the theorems only.

### Assumptions

- `MaxLag` (RateLimiter): a request gets from `time.Now` to its bucket's mutex
  within so much time. `KeyConforms` needs it, together with
  `LagIsShort == 2 * Window + 3 * MaxLag <= IdleLimit + 1`: otherwise a request
  could fill a bucket again after its removal, while its successor starts full. In
  the code this is a lag of up to 160 s; the run has the least idle limit that
  will do. No other theorem uses it.
- `MaxLag` (Tokens, RequestPipeline): a login, refresh or request is at work no
  longer than this, from reading the row to the answer. `SessionsEnd` and
  `AuthorizedRecently` add it twice to the life of a token.
- Fairness. Weak fairness of `Proceed`, `Deliver`, `MakeDir`, `Apply`: a
  goroutine with something to run is scheduled, and the waits it can be in are
  timed (SQLite's busy timeout, the HTTP client's ten seconds). Strong fairness of
  `ReadLock` and `Announce` in `TenantPool`: Go's RWMutex releases the readers
  that wait before it lets the next writer in, and `sync.Mutex` has a starvation
  mode, so that neither is passed over for ever. Clients, visitors, receivers of
  webhooks, clocks, failures and crashes are not assumed to act.
- Symmetry is used where only safety is checked (`redirect`, `rate_limiter`,
  `request_pipeline`, `traffic`), over goroutines, buckets, addresses, in
  `redirect` two tenants whose tables start alike, and in `request_pipeline` the
  two owners together with their organizations: no definition names one of them.
- Deadlock is not checked in `request_pipeline` and `traffic`: their environment
  is bounded, so that they end when it has had its share.

## 4. Proofs

Every safety property the passing runs check is a theorem: it holds for every
number of tenants, goroutines, rows, requests and failures, from the named
assumptions on the constants alone. TLC checked each inductive invariant, or the
property it strengthens, on the instances above. Each proof module states the
invariant, proves that the initial states have it and that each action keeps it,
one lemma per action, and draws the theorems from it. Theorems that state no
property of a run define what they state beside them, in the proof module.

`LinkProofs`, first part (`Links`): `TypeCorrect`, `CodesAreUnique` and
`TableImplementsRegistry` (safety of the refinement). The inductive invariant is
`LinksTypeOK /\ UniqueCodes`. The first says more than types: whatever is stored or
about to be has a destination `ValidateLink` accepts, because a PATCH validates the
row it has merged and not its body. Of a status it says nothing but that somebody
asked for it. Uniqueness is inductive as it stands because the UNIQUE constraint is
checked by the INSERT itself; the earlier lookup by `ExistsByShortCode` plays no
part, which says that it only spares a failed INSERT. The refinement follows from a
case split: a step either inserts one row, which is a `Claim`, or keeps every row's
code (`KeepsCodes`), which is a stutter. `LinkRequestsComeNearer` bounds the
statements a request can still run and shows each to lower that bound, retries
included. `ArchiveSticksWithoutRaces` needs that the status a PATCH has read is
still the row's (`StatusFresh`), which is what a second goroutine spoils.

`LinkProofs`, second part (`Redirect`): `RedirectTypeCorrect`,
`TenantsAreIsolated`, `ClicksAreAccounted`, `StalenessIsBounded`. The redirect
writes nothing to the table but counts, so `LinksStay` carries the invariant of
the first part over; a link, once stored, stays with its code (`KeepsLinks`), so
that a cached or half-served link remains its tenant's however old it is.
`ClicksAccounted` is not inductive: a row inserted later must find its click log
empty, which `Accounts` adds together with the fact that no row is ever removed;
that a UUID names one row (`IdsIn`) is what lets one log serve all databases.
For staleness the invariant `Known` says of every cached or held link that the
row was that link when it was read, and that a change since then is in the history
with a later date (`KnownSince`); an entry that is used is no older than the TTL.

`AccountsProofs`: `AccountTypes`, `InviteUsesAreUsers`, `InviteOvershootIsBounded`,
`AccountsAreUnique`, `OrganizationsAreOwned`. The invariant has a part on the rows
(uniqueness, ownership, `Rooted`: an invite's organization and the invite a user
came by exist) and one on the
transactions: only the holder of the write lock has uncommitted rows (`Held`),
they use ids nobody else has (`Drawn`), and what a transaction looked up under the
lock is still so (`Checked`). Uses and users move together because both are
written by the same commit. The bound on the overshoot counts the signups that
have passed the check of an invite and not yet ended, as the cardinality of a set.

`AccountsImplementMembership` proves the refinement: the commit of a signup is a
`Join`, that of a new organization a `Found`, the INSERT of an invite an `Issue`,
and every other statement, failure or crash a stutter, because what is not
committed is not in the rows. The guards of the abstract steps come from the
invariant, which kept the answers to the lookups true until the commit; `Slack` is
`Cardinality(Procs) - 1`, the bound on the overshoot. `UsersAreAsInvited` shows
what the abstraction is good for: it is argued over the three steps of
`Membership`, with no word about locks or goroutines.

`TenantPoolProofs`: `PoolTypes`, `PoolOpensOnce`, `PoolMapIsExact`,
`PoolHasNoMapRace`. `Locked` derives the exclusion of the RWMutex from where the
calls are; `Booked` says which handles are open, in the map or in the hands of the
writer. `GetHandsOutOpen`, that a handle is open when Get takes it from the map or
has made it, follows from the two.

`RateLimiterProofs`: `TypeCorrect`, `BucketsConform`, `ClockMonotone`, `KeysConform`.
To `TypeOK` the invariant adds `Allocated` (what the map or a request refers to
exists) and `Accounts`, for every bucket
`Window * (granted + tokens) <= Window * Limit + Limit * (lastRefill - created)`.
A refill pays for no more time than the clock of the bucket advances
(`WholeTokens`: the rounded-down refill is at most the exact one), and taking a
token moves it from one summand to the other. `KeysConform` follows a key through
its buckets. At most two of them are in use: the one in the map, and the one
removed before it, by requests that loaded it and are gone a lag later. A bucket
that is removed has been idle, and the time of that, which its cap lost, pays in
advance for the most its requests can still take and for the first fill of the
next (`PaidFor`); `Ledgers` says so of every key, for some assignment of buckets to
keys and some dates of removal.

`TenantProvisioningProofs`: `ProvisioningTypes`, `SuccessMeansComplete`,
`MigrationsCanBeRepeated`. A run of the tool has left behind every statement it has
passed (`Passed`), which the goroutine has not: it goes on after an error.
`GoroutineIsNeverStuck` and `MigrationsGoForward` are the safety part of
`ProvisionedOrFault`.

`WebhooksProofs`: `WebhookTypes`, `WebhookFailuresAccounted`,
`WebhookCountsAreExplained`, `WebhooksStayDeleted`. Failures are those of the POST:
a delivery that ends while it builds its request is recorded nowhere, and the
balance says that it is not counted either. `Fresh` keeps unused ids out of the
deliveries, and `Explained` ties a count above zero to the error its delivery
stored. `FailuresOncePerDispatch`: a delivery in flight and a failure recorded each
stand for a call of Dispatch of their own, so that none is recorded twice.

`RequestPipelineProofs`: `PipelineTypes`, `SessionsOfDeletedUsersEnd`,
`HandlersAreAuthorized`, `RolesAfterClaims`. The argument is a chain of dates: a
row is read while its request is at work, a token is signed from it no more than
`MaxLag` later and dies a life after that, and a request let in by it is answered
no more than `MaxLag` after it came. That a refresh never looks at `deleted_at` only
adds the life of one refresh token. `TypedContextIsFound` follows from `ContextStored`:
how far a request is in its chain says exactly what its context holds.

`TrafficProofs`: `TrafficTypes`, `VisitsFindTheirOwner`, `SettledDaysAreExact`,
`PagingIsComplete`. Hosts: an entry's organization was verified when it was read,
or has been moved since (`Owned`). Days: no click is stamped with a past day once
that day is over, so that the rows of a day with none in flight are final
(`Over`), and so are the columns a job has counted. Pages: the rank of a row in
the order of GetClicks numbers the rows without gaps (`Ranks`, `RanksHaveNoGap`),
a click that arrives can only raise the ranks of those behind it (`RanksGrow`), and
a reader at page n has seen all it wanted of rank below its offset
(`ReaderCaughtUp`).

Only model-checked: liveness, which needs fairness and ENABLED and is beyond the
prover. Of each such property the theorems state the part that is safety, a measure
that every step lowers and, where a guard could keep a step from being taken, that
some guard holds; what TLC adds is the scheduler's share.

| Liveness | Rests on |
|---|---|
| `RequestsEnd` | `LinkRequestsComeNearer` |
| `LockReleased` | `LockHolderIsAtWork` (the holder is inside its transaction), `RequestsComeNearer` |
| `CallsReturn` | `PoolNeverDeadlocks` (some call waits for nobody, its guard written out), `CallsComeNearer` |
| `DeliveriesEnd` | `DeliveriesRunDown` |
| `ProvisionedOrFault` | `GoroutineIsNeverStuck`, `MigrationsGoForward` |

`CodeRegistry` and `Membership` state no fairness, so that their refinements are
proved whole.

## 5. Plan

What remains worth doing, in this order:

1. `Redirect` and `Traffic` in one instance: the domain cache in front of the link
   cache, so that the staleness of the two adds up.
2. The read-modify-write of PATCH in `Links` over two fields, to say which merges
   of concurrent PATCHes can be lost.
3. Larger instances of `traffic` with two jobs and two readers, which the theorems
   already cover.
4. The retry worker and `GetFailed`, once some code calls them.

## 6. Not modelled

- Passwords and signatures: cryptography, without state.
- API keys and the audit log: single statements, and nothing reads a key or
  appends an entry.
- User, SAML, domain, metrics and health handlers, and the workers: stubs.
- Configuration, logging, errors, QR codes: formatting.
- `ParseUserAgent`, which fills two columns nothing reads; `last_login_at`, which
  nothing reads either; UTM parameters and referrers.
- Read-only routes other than GetLinkClicks: they change nothing, and an answer
  that is one query old is all they promise.
- The reserved words of short codes: a drawn code is never compared with them; no
  code of the length drawn by default other than `metrics` is one.
- The global target of `cmd/migrate`, and its `direction`, which is never read.
- libSQL: the model takes SQLite's single writer.
