# Sidervia in TLA+

Sidervia is a single-process gateway: it accepts OpenAI-, Anthropic-, Gemini-
and xAI-style requests of clients, picks one of several upstream accounts that
a route allows, passes the request on with that account's credential, and
records what happened. An administrator edits accounts, routes and keys over
HTTP, OAuth accounts are connected and refreshed at their provider, and usage is
counted and kept for a time. State lives in SQLite and, for what must be fast or
may be forgotten, in the memory of the process. This directory models the parts
where these two kinds of state, many requests, editors, a provider and a clock
meet.

The first part is the inventory of the system, the second says which module
models which part, the third what each run shows, the fourth what is proved and
how, the last what is left.

## 1. Inventory

| Component | State | Operations | Talks to |
| --- | --- | --- | --- |
| account scheduler (`internal/routing`) | in memory: `states[account].inFlight`, `cursors[route]` under one mutex; rows `account_runtime` (streak, cooldown, quota reset) | `Plan`, `Lease.Release`, `RecordSuccess`, `RecordFailure`, `LoadAccount` | called by the gateway; reads what control writes |
| gateway (`internal/gateway`) | none across requests; per request: candidate, event, response | `Execute` (plan, credential, prepare, call, refresh and retry, copy, record, release, report) | scheduler, OAuth service, egress, usage writer |
| OAuth service (`internal/oauth`) | `refreshes[account]` (single flight), rows `oauth_attempts`, `accounts.credential_*` | `EnsureCredential`, refresher sweep, `CreateAttempt`, callback, `CancelAttempt`, `RecoverInterrupted` | token endpoint, control, routing |
| account administration (`internal/control`, `accountvalidate`) | rows `accounts` with status, credential, `version`, `credential_version` | create, update, delete, begin and finish a validation, complete an authorisation, recover | OAuth service, upstreams |
| other administration (`internal/control`) | rows with `version`: upstreams, proxies, routes, client keys; lists with cursors | create, show, update, delete, list | admin HTTP interface |
| administrator authentication (`internal/auth`) | admin row (password, TOTP, failures, lock, `session_version`), sessions, in-memory limiter and password slots | bootstrap, login, authenticate, logout, TOTP, password change and reset | admin HTTP interface |
| client authentication (`internal/clientauth`) | client keys, `last_used_at_ms` | `Authenticate` | gateway handlers |
| usage writer (`internal/usage`) | queue of 1000, batch of 100, `closed`, first error | `Enqueue`, `run`, `Close` | gateway; `request_records` with foreign keys |
| usage retention and reports (`internal/usage`) | `request_records`, daily totals | `Cleanup`, `Run`, `ListRequests` | SQLite |
| process (`internal/app`, `cmd`), process lock, maintenance, store | the lock, schema version, sentinel, encrypted columns, backups, handlers in flight | serve and shut down, rotate the key, reset the password, back up, migrate | the data directory |
| egress (`internal/egress`) | client cache per account and versions | `Do`, `DoGoogleOAuthToken` | upstreams, SOCKS5 proxies |
| HTTP interface, codecs, providers, cryptography, configuration, logs | none, or written only | decoding and formatting | |

What is hard in it:

* *Old snapshots.* `Plan` reads the database, then the clock, then memory under
  a mutex; updates of accounts, proxies and routes, logins and validations read
  a row, work, and write in another transaction. Versions are all they rely on.
* *One slot, many exits.* `Execute` has more than a dozen early returns after a
  slot was taken.
* *Last writer wins.* Outcomes of requests that overlap are recorded in the
  order they end, in one row per account.
* *A credential that changes under its users.* Several requests and a sweep may
  find a token due; the provider may rotate the refresh token; the administrator
  may replace the account's credential; a client may leave in the middle of a
  refresh it leads.
* *Something consumed once.* A TOTP step, an OAuth code, an event, a row that is
  folded into a total: each has racing consumers.
* *Two-step hand-overs.* `Enqueue` looks at a flag and then sends; a backup is
  published and then signed; a 401 is recorded by two statements.
* *Restarts.* Memory is forgotten, the database is not; commands of other
  processes, with another key or build, wait at the lock.
* *Arithmetic at the edges.* Durations overflow, backoffs double, ratios are
  compared without dividing, windows slide.

`PROJECT.json` lists these one by one under `hazards`, each with the line where
it bites and the properties that watch it.

What makes the components correct:

* *scheduler*: an account never serves more than it may, no slot is lost or
  returned twice, equals take turns, an account is left alone as long as the
  upstream asked and not for good, the error a caller gets is the one that helps.
* *gateway*: one account per request, one retry, every slot returned, the
  account is punished only for what it did.
* *refresh*: one exchange at a time, no new credential overwritten or condemned
  by news about an old one, nobody waits for ever.
* *accounts and attempts*: only a tried credential is active, no write brings an
  older one back, one attempt lives, its code is exchanged once, and it connects
  the account the administrator saw; nothing stays busy without a request.
* *other administration*: references resolve, nobody overwrites what was not
  shown, a list leaves out nothing.
* *authentication*: sessions end with the secrets they were opened with, a code
  buys one session, the limiter admits what the windows allow.
* *usage*: an accepted event counts once, through shutdown and retention.
* *process*: one key opens everything, a clean exit has stored everything the
  usage writer took, a finished backup stays.

## 2. Modules

    RoutingRules         decisions over rows: filter, order of errors, tie, cap
      RetryTimes         Retry-After and backoff in machine arithmetic
        RoutingScan      the loops of the code against those definitions
          RoutingProofs  theorems
      Scheduler          all state of the scheduler and everyone who moves it
        SchedulerHistory what earlier grants and answers promise for later ones
          SchedulerProofs
        Gateway          Execute, composed with Scheduler
          GatewayProofs  theorems, on top of SchedulerProofs
    LeasePool            what the scheduler promises (abstract)
    CredentialRefresh    EnsureCredential and the compare-and-swap of credentials
      CredentialRefreshProofs
    Accounts             the life of an account with its OAuth attempts
      AccountsProofs
    UsageWriter          Enqueue, run, Close
      Retention          with the table, the sweeps and the daily totals
        RetentionProofs
    AdminAuth            login, sessions, TOTP, password
    AttemptLimiter       the two windows of login attempts
      AdminAuthProofs    theorems about both
    Resources            proxies, upstreams, accounts and routes under editors
    ClientKeys           keys of clients and their last use
    RecordPages          a list read page by page while it changes
    Process              commands around one data directory
      AdministrationProofs  theorems about these four, each for its own state

Every `MC<module>` supplies the values the configurations name. `MCAdminAuth`
and `MCAdministration` put components side by side that share no state: a
behaviour chooses one of them, its `focus`, and moves only that one, so that
their states add up instead of multiplying. `map` in `PROJECT.json` names the
lines behind each definition.

**RoutingRules** (`routing.go`: `filter`, `noCandidateError`, the second half of
`Plan`, `clamp`). A row is a record of the columns the route query returns,
reduced to what the decisions read; times are naturals and 0 is NULL. The chain
of early returns in `filter` is the sequence `Objections`, its first that holds
names the reason. The choice is stated with sets: `WithCapacity`, `TopPriority`,
`LeastLoaded`, `Tie`.

**RoutingScan** has the loops as the code runs them (`CapacityScan`,
`MinimumPriority`, `LoadScan`, `RetryAt`), each a recursive function over its
turns, and compares them with those sets: TLC over every table of up to three
rows, the proofs over tables of any length; so `Scheduler` may use the sets.

**RetryTimes** has `parseRetryAfter` and the doubling loop with a `Duration` of
`Width` bits instead of 64, where the product of `parseRetryAfter` wraps.

**Scheduler**. `status`, `limit`, `priority` are columns of `accounts`;
`streak`, `cooldown`, `quota` of `account_runtime`; `inFlight` and `cursor` are
`Service.states` and `Service.cursors`; `phase`, `route`, `rows`, `eligible`,
`lease` are where a request is in its plan. `Plan` is `Query` (the SELECT),
`Inspect` or `NoneEligible` (filtering with one reading of the clock), `Grant`
or `Saturated` (under the mutex). A holder reports at most once (`RecordSuccess`,
`RecordReset`, `RecordBackoff`, `MarkReauth` then `RecordRuntimeError`, or
`Unrecorded` when there is nothing to record or the write failed), then
`Release`s. Around it: `UpdateAccount`, both ends of a validation, the
completion of an OAuth authorisation, a refused refresh, `Restart`, `Tick`. An
action is one SQL statement or transaction, or one critical section; SQLite
serialises writers, and every write of `accounts` increments `version`, so an
update whose version matches acts on the row it read.

**SchedulerHistory** adds three variables that only remember: the latest picks
from a tie, the end of the rest that was asked of an account last, and what of
that was known when a plan read the database.

**Gateway** runs `Execute` on the scheduler's actions: each step of `stage` is a
call with its early returns; `candidate` and `verdict` are the variables the
code carries along. `EnsureCredential` returns whatever `CredentialRefresh` lets
it return: after a 401, a new token, an error, or the refused token itself. An
upstream answer is one of the classes `upstreamError` tells apart.

**CredentialRefresh** is one account: the row (`status`, `version` of the
credential, `token`), the provider (`accepted`, `issued`), the entry of
`refreshes` (`flight`) and where every caller is. The two SELECTs, the exchange,
the UPDATE and the last SELECT of the leader are separate actions.

**Accounts** is one account over its life: its row, the version of the egress
behind it, the administrator's session, the rows of `oauth_attempts`, and in
`op` the requests in flight, each with what it has read. An update is
`ReadForUpdate` and `UpdateAccount`; a validation `BeginValidation`,
`LoadForProbe`, then `Accept` or `Reject`; a new attempt `ReadForAttempt` and
`CreateAttempt`; a callback `ReadForClaim`, `ClaimAttempt`, `ExchangeToken` and
`CompleteOAuthAccount`, `CompletionRefused` or `FailAttempt`. A write that finds
another version is `Superseded`. `ClientLeaves` ends a request at any point, as a
cancelled context does, and `FinishFails` one whose last statement fails; both
leave the row as it is. Around them: deletion, a refresh, a 401
(`RequireReauth`), the change of an upstream or a proxy, a new session, expiry,
clean-up, and `RestartAccounts` with `RecoverInterrupted`. A credential is the
number under which it was first known. `proved` and `cutShort` only remember.

**UsageWriter** has the queue, the batch, the flags of `Close` and the table with
its foreign key. `Send` happens when there is room, and `FindFull` when there
is none, after which `WriteDirectly` comes sooner or later; a flush writes all
of a batch or nothing.

**Retention** extends it with the clock, the sweep and the totals of each day: a
batch takes the oldest expired records, adds them to the totals and deletes them
in one transaction; a batch that is not full is the last. `RestartProcess` ends
the writer wherever it is, and the next process sweeps at once.

**AdminAuth** has the administrator's row, the sessions, and requests that read
the row, hash or check a code, and write in a transaction of their own. A
password matches the hash that was read or does not; a code matches none or one
of the three steps around its time. `spent` remembers which step of which secret
bought a session. **AttemptLimiter** keeps the lists of times per address and in
all, as `limiter.go` does, beside a log of what was admitted. `Login` reads the
clock before it waits for a slot and for the mutex, so an attempt arrives with
any reading of the last `MaxDelay` units.

**Resources** has a row per proxy, upstream, account and route, reduced to its
version, its references and the two columns the checks read, and editors who
were shown a row with its ETag. Reads outside the transaction that writes (the
candidates of a route that is shown, the secrets of a proxy that is kept) are
steps of their own.

**ClientKeys**: `Authenticate` reads the row, then the clock, then writes the
last use unless it is recent; the wall clock may be set back. **RecordPages**:
rows have a place (time, row number), a page is what lies behind the cursor,
rows appear and go between two pages.

**Process** runs serve, key rotate, admin reset-password and backup create, each
from reading the key file to its deferred calls, with the lock, migrations one
by one, the sentinel, the values of each encrypted column, the shutdown of the
server in its order with its timeouts, and a kill between any two steps. `lost`
says in which ways events of requests have been lost: beside a full queue, at a
closed writer, with the queue at the end.

Each module states its types. The run's budget of properties goes to what could
be wrong: the types of `Scheduler`, `Gateway`, `CredentialRefresh`, `Accounts`,
`AdminAuth`, `Resources`, `Retention` with `UsageWriter`, and `Process` are
proved, as parts of the inductive invariants; those of `ClientKeys` and
`RecordPages` document their variables.

## 3. Runs

TLC finishes each run that passes; deadlock is not checked because a finite
number of events, a bounded clock and bounded versions really end.

| Run | Shows |
| --- | --- |
| `routing_rules` | the selection loop finds exactly the least-loaded rows of the best priority with a free slot, and every cursor value picks the same row as the definition (all tables of three rows over three accounts); when the filter removes every row, the reason is the most specific one and Retry-After is exact; every representable Retry-After is honoured; the doubling loop equals its closed form up to a streak of eight |
| `scheduler_capacity` | with stale snapshots, changing limits and restarts, on two routes that share an account: counters are leases, `LimitRespected`, ties take turns, and the refinement of `LeasePool` |
| `scheduler_rest` | with time and every outcome and intervention: no plan that began after an account was asked to rest gives it out before the end of the rest asked for last (`PledgeKept`), rests are bounded |
| `gateway_safety` | one account per request, at most one retry and only after a forced `EnsureCredential` without an error, re-authentication only after the answers listed in `ReauthIsEarned`, callers' errors punish nobody |
| `gateway_slots` | every slot is returned, if bodies end, also across restarts |
| `refresh` | one flight; marks and writes only on the credential that was read; every caller returns |
| `usage` | every accepted event counts once, in memory, the table or the totals; a clean close stored what was accepted before it; a clean sweep leaves nothing due; what is accepted gets written |
| `auth` | usable sessions are of today's password and second factor; a step of a secret buys one session, also across password changes; the limiter admits by the history of attempts, exactly so with current readings of the clock |
| `accounts` | busy rows are owned, one attempt lives, its code is exchanged once, it completes as consented; active accounts are proved; no credential returns |
| `administration` | references are sound and no update is blind; the history of a key runs one way; pages are complete; one key opens all, a clean exit stores all that the writer took, published backups stay |

Bounds. In `scheduler_capacity` two accounts and three requests are enough for
two plans to hold the same snapshot while a third lease exists; limits 1 and 2
let a limit shrink below the load; the second route takes one of the two
accounts of the first behind its back, and the cursors wrap at two, a multiple
of every tie's size: at 2^64, which is no multiple of three, one turn of a tie
of three would repeat, once in 2^64 plans. In `scheduler_rest` time runs to
three and a 429 asks for one unit or for three against a clamp of two, so that
locks begin, are clamped, end, and are cut short by the next 429; the requests
use one account with an API key, the other one, an OAuth account no route leads
to, is there for the actions only such accounts have. `gateway_slots` has one tick and the OAuth account alone,
because liveness is checked without symmetry; its path through `Execute` is the
longer one. `MaxStreak` bounds failures in a row, `MaxTime` the clock,
`MaxToken` the tokens a provider issues, `MaxVersion` in `refresh` the
credential version on which a refresh may still start. `RetryTimes` counts three
units to the second in nine bits, so that one third of the numbers ParseInt
accepts overflow.

In `usage` a queue of one overflows, batches of two are filled, and a sweep's
batch of one makes two events of one day span two batches, the first of them
full; three days let records expire. In `accounts` two requests and two attempts
give every race of two operations, and a second attempt that is created while
the first is exchanged; two paths tell an update that moves the account from one
that does not; an account with an API key has five versions, which an overtaken
validation takes, an OAuth account four, which a second consent takes. In `auth` two requests and
two sessions race on one row; a lock, a session's idle and absolute ends and the
three steps around a code fit into three units of time; the limiter's windows
are one and three, with limits small enough that either list may refuse alone,
and readings of the clock up to two units old, beyond the shorter window, in an
order of their own; eight units hold a sweep, readings before it, and a second.
In `administration` one thing of each kind, two accounts so that a route may
change between them, and five edits let each editor be overtaken; a clock of four
makes a key expire and be set back; three rows in pages of one or two have
ties and gaps; two processes, two keys and two columns are what a rotation, a
migration under way and a backup to a taken path need. All processes are of the
build that knows both columns; older builds beside newer ones are in the proofs
about `Process`, which hold for any set of builds.

Fairness. `usage` assumes that `run` goes on (weak fairness of `Run`) and that a
flush tried again and again succeeds in the end (strong fairness), which is what
its ticker and a transient fault give. `EventuallyWritten` excepts a closed
writer, for which nothing runs any more, and deletions, after which a batch may
never be written: both are real in the code (see below). `refresh` assumes that
the leader's statements end: database calls have a busy timeout, and the token
endpoint answers or the leader's client leaves. `gateway_slots` assumes that
bodies end too, for which the code has no timeout. Nothing is assumed of time,
of interventions, of clients or of the order of requests.

### Where the code and its documents part

Two runs are expected to find a counterexample; each checks one sentence of a
document against the code.

| Run | Sentence | What happens |
| --- | --- | --- |
| `gateway_model` | 10.5, a credential still valid is used on | the candidate comes back without its upstream model, and Prepare fails |
| `refresh_lost` | 10.5, a rotated token replaces the old one | the client leaves after the exchange, the UPDATE is cancelled |

Read in the code while modelling, with no run of their own; the models contain
the behaviour, and the properties say what holds beside it:

* `gateway/service.go:438` multiplies seconds before it limits them: a large
  Retry-After overflows (`RepresentableRetryAfterHonoured` speaks of the others);
* `usage/writer.go:57` looks at `closed` before it sends: an event accepted
  after the last drain stays in the queue (`CleanCloseStoresEarly` speaks of
  those accepted before `Close`);
* `usage/writer.go:144`: an event of an account that was deleted meanwhile fails
  the batch it is in, again and again;
* `accountvalidate/service.go:54` finishes a validation under the context of a
  client that may have left, and `control/account_validation.go:126` returns an
  error before the UPDATE when a provider lists more than a thousand models; the
  account stays `validating` until the restart (`BusyRowsAreOwned` speaks of the
  time in which no client has left and no finishing statement has failed);
* `routing.go:529` writes the reset of a 429 over an earlier one: of two requests
  in flight together the later answer counts, also where it asks for less
  (`PledgeKept` speaks of the rest asked for last);
* `auth/service.go:136` reads the clock before the limiter's mutex: an attempt
  that waited may be admitted although there was no room at its reading, since
  later ones have pruned the lists (`AdmittedByHistory` asks for room at its
  reading to admit it and for room now to have admitted it);
* `auth/service.go:367` checks the code that disables TOTP against the row read
  before, without recording it, while `docs/detailed-design.md:346` consumes a
  step: a code that bought a session since then is accepted once more, and ends
  the use of its secret (`StepIsSpentOnce` counts sessions);
* `usage/writer.go:63` writes an event itself when the queue is full; if that
  fails, `gateway/service.go:308` logs it, the event is lost and a later exit may
  still be clean, while `docs/detailed-design.md:818` loses no record there
  (`CleanExitStoresAccepted` names this exception);
* `routing.go:463` marks an account `reauth_required` without looking at the
  credential's version: a late 401 of an old credential condemns a new one
  (`RequireReauth` in `Accounts` meets any active account);
* `routing.go:154` reports saturation as soon as the rows that pass the filter
  are full, although `docs/detailed-design.md:623` puts re-authentication and
  others before it;
* `egress/manager.go:121` limits dialling, TLS and the answer's header, while
  `docs/architecture.md:250` speaks of idle streams and total life: without
  fairness for `BodyRead`, `SlotsReturned` does not hold;
* `oauth/refresh.go:33` lets a forced caller join a flight that was not forced
  and may return the refused credential unchanged (`docs/detailed-design.md:647`:
  a 401 refreshes once).

## 4. Proofs

Eight modules hold theorems; together they prove every safety property that a
passing run checks. Each theorem is about every value of the constants that
satisfies the named assumptions of its modules (`DurationAssumption`,
`ScanAssumption`, `SchedulerAssumption`, `RefreshAssumption`,
`AccountsAssumption`, `AuthAssumption`, `LimiterAssumption`,
`ResourcesAssumption`, `ClientKeysAssumption`, `RecordPagesAssumption`,
`WriterAssumption`, `RetentionAssumption`, `ProcessAssumption`): any number of
accounts, requests, rows, editors, events, processes, any limits and lifetimes.
Seldom is the property a run checks inductive by itself, and most modules begin
with the invariant that is.

*RoutingProofs.* What the loops compute, for tables of any length. A loop is a
recursive function over its turns; `LoopExists` proves once that there is such a
function, and `EveryTurn` that what holds at the first turn and is kept by every
further one holds at all: otherwise there were a least turn at which it fails
(`LeastIsLeast`, by well-foundedness). Each loop then has a lemma that says what
it has found after a turn. `KeptInOrder`: a filtering loop keeps the members in
the order of the query. `MinimumIsLeast`: the running priority is the least so
far. `IsBest`: the candidates kept are those, among the rows seen, whose ratio is
the one to beat, and none has less; that one better row replaces all of them
rests on `RatioOrder`, the transitivity of comparing ratios by
cross-multiplication. `PickOfAscending`: the element at `cursor % n` of an
ascending sequence of n rows is the one with that many smaller ones.
`IsEarliest`: the running Retry-After is the least end of the rests so far,
because every row with that reason rests beyond now (`FilterRests`), so 0 can
mean none. The arithmetic of `RetryTimes` needs that 2^n doubles with n, which is
proved from the number of subsets (`Powers`): then a product that fits a
`Duration` does not wrap, and the doubling loop has the closed form. Theorems:
`LoopFindsTie`, `RetryAfterExact`, `MostSpecificErrorFirst`, `HeadersHonoured`,
`BackoffExact`.

*SchedulerProofs.* That a new lease fits follows from a counter, and the counter
is right only if leases and phases agree. The invariant `IInv` is the types,
`LeaseFollowsPhase` (a request holds a lease exactly in the phases after a grant
and before the release), `InFlightIsLeases` and `LimitRespected`. A grant adds
its request to the holders of one account, whose number was the counter and
below the limit of the snapshot; a release takes one out, and the counter cannot
be zero then; a restart empties both; all other steps leave leases and counters
alone (`Quiet`). Theorems: `TypeCorrect`, `CountersExact`, `LimitSafe`, and
`SchedulerImplementsPool`: a grant is an `Acquire`, a release a `Release`, a
restart a `Crash`, everything else a stutter of `LeasePool`.

On the history of `SchedulerHistory`: `RestsEnd` needs only that what is added to
the clock is clamped, and that the network backoff's maximum, which is the
smaller one in the code, is not above that of a 429. `PledgesKept` needs
`PledgeInv`: an active account rests in the database until its pledge ends, a
snapshot knows the pledges that were made before it was read, and the rows that
passed the filter were past them at the reading of the clock; a grant is then
late enough whatever happened since. `TiesTakeTurns` needs `TurnInv`: the picks
that are remembered of a tie, numbered by how many came since, are the rows at
the positions the cursor had, so two equal picks would be a whole tie apart. This
is exact since the cursor last wrapped, and across the wrap if the tie's size
divides the modulus: `TieTakesTurns` says so, for at 2^64 a tie of three may
pick one row out of turn. The history only watches: `HistoryImplementsScheduler`
carries the theorems about `Spec` over to the specification the runs check.

*GatewayProofs.* Every step of an execution is a step of the scheduler or leaves
it alone (`GatewayIsScheduler`), so `IInv` carries over, and so does whatever is
proved of `Spec`, the implementation of `LeasePool` included
(`GatewayImplementsScheduler`). On top of it `Sound`
says per stage how far the scheduler is with the request (`InPhase`), that the
candidate and the verdict name the leased account (`SameAccount`), what a second
call presupposes (`CallsMade`), and which answer a verdict rests on (`Fair`).
What a refresh does to the token is
not theirs: a second call presupposes that the forced `EnsureCredential` returned
without an error, no more. Theorems: `OneAccount`, `OneRetry`, `LeaseHeldMeanwhile`, and the action
properties `ReauthEarned` and `CallersNotPunished`, for which one lemma finds out
which steps may write an account's standing at all (`Recorders`). `UpstreamLimited`
joins the two modules: the executions with a call to an account's upstream under
way, or its response open, are among the leases on that account, so their number
obeys the limits; that is what the counters are for.

*CredentialRefreshProofs.* `ReadingIsFaithful` says what a leader's reading is
worth: the version read is not newer than the row's, and when it is the same
one, the token read is the row's, or, while it waits to be saved, one that is
not older; a token that was refused stays refused. Theorems: `SingleFlight`,
`MarksAreEarned`, `TokenMonotone`, and `WaitersAreLed`, the safety half of
`EveryCallReturns`: whoever waits has a leader at work that will publish, so what
is left to fairness is only that this leader goes on.

*AccountsProofs.* `RequestsFaithful`: what a request has read of the row is true
as long as the row has the version it read, so a write that names this version
acts on what it saw. `ClaimsFaithful`: an attempt that was claimed is no longer
pending, and one request works on it (`OneWorks`); the UPDATE of `claimAttempt`
is what starts it, and a second callback finds another status. All six properties
of the run follow: `BusyRowsOwned`, `AttemptsExclude`, `CodesExchangedOnce`,
`ActivationsProved`, `ConsentsKept`, `CredentialsAdvance`.

*AdminAuthProofs.* `VersionsVouch`: a session that carries the session version
of the row was opened under the hash and the secret of the row, because whatever
replaces one of these raises the version; and the same holds for what a login
has kept of the row it read, under which it will open one. `StepsAreBehind`:
every step of the secret in force that bought a session lies at or before
`lastStep`, and only a later one is taken; a change of the password keeps both.
Secrets are numbered (`SecretsAreMinted`), so one that was given up never comes
back with its steps. Theorems: `TypeCorrect`, `SessionsCurrent`,
`StepsSpentOnce`. For the limiter, `LimiterInv`: each list holds attempts of its
addresses that were admitted, and all that are younger than an hour now.
Pruning and sweeping keep that, whatever earlier reading they are called with,
for an earlier cutoff keeps more. So a list holds at least what the history has
in a window that ends now, and at most what it has in the window of the reading,
and `LimiterByHistory` follows.

*AdministrationProofs, resources.* Every handler is an insertion, a rewriting, a removal or a
look (`Edit`), and they differ in what the row they write may refer to.
`EditorsFaithful`: what an editor was shown is what the row holds while it has
that version, the candidates and secrets read apart included; identifiers are
new, so a deleted row never comes back under an editor. Theorems:
`ReferencesSound`, `NothingOverwrittenBlindly`.

*Client keys.* `KeysInv` adds to the types that a key not yet created has no use
and that no client past the lookup holds one. The UPDATE of the last use is
guarded by the value it replaces, and an update or a revocation by the status, so
`KeysMoveOneWay` holds however late a client writes and however the clock is set.

*Record pages.* `PagesInv`: what was listed descends towards the cursor, and a
row that stayed is listed or still ahead of it. A page is a prefix of the rows
ahead in their order; that this order exists for every finite table is proved by
ranks (a row's place is the number of rows before it, and `Before` is a strict
total order), and that a row not in the page lies beyond its last one follows
from it. Theorem: `ListingsComplete`.

*RetentionProofs.* `HeldOnce`: queue, batch and table share no event and hold
none twice, and only accepted ones. `TotalsFit`: the totals are those of the
accepted events in none of the three (`Folded`). No step of the writer changes
`Folded`; a batch of a sweep moves its events there and adds what they add; a
restart refuses what memory held. `ShutdownSound` follows run through its drain:
a closed writer calls no event early any more, so the queue that was found empty
stays empty of these. That a sweep is complete is a count: a batch that is not
full has as many events as are expired. Theorems: `TypeCorrect`,
`EventsCountOnce`, `CleanClose`, `SweepComplete`.

*Processes.* The lock makes one command at a time the only writer of the
database (`Locked`), and what it has found there, the schema and the key of the
sentinel, stays true until it lets go (`Current`), also for the handlers of a
server that shuts down; until the writer is closed events are lost beside a full
queue only (`Draining`). A copy that is published opens under its own
key, and two backups are never about to sign the same path (`Copying`,
`OneSigner`), because publishing does not replace. Values lie only in columns a
migration has made (`ColumnsExist`), and a rotation knows these. Theorems:
`ProcessTypeCorrect`, `OneKey`, `CleanExit`, `BackupsStay`, and what they rest on as
statements of their own: `CommandsExclude` (one command at work in a data
directory) and `SignedBackupsAreGood` (a fitting checksum file vouches for a
backup that opens).

Only model-checked: liveness (`SlotsReturned`, `EveryCallReturns`,
`EventuallyWritten`), since fairness and ENABLED are out of the prover's reach,
and the two runs that end in a counterexample. The proofs of loops are by hand
over the least turn: the library's induction theorems take an operator as
parameter, which no installed prover can instantiate, and no module that is
proved about may declare a RECURSIVE operator.

## 5. What is left

In this order:

1. The cache of clients in `egress/manager.go`: that the client found under a
   key is the one that would be built for the candidate at hand.
2. `handlers_gateway.go`: the copying of bodies and streams with the end of
   either side, which decides when `BodyRead` happens.

Not modelled, and not planned:

* the native codec, the provider adapters beyond what `Gateway` needs, HTTP
  decoding and formatting, CSRF headers, URLs and PKCE: data, or refusals
  that change nothing;
* the SOCKS5 dialogue, encryption, encodings and file permissions;
* configuration, logs and metrics: read once, or only written;
* `control/overview.go` and the sums of the usage reports: single SELECTs;
* `doctor`, `config` and `healthcheck`: they only read;
* the browser client.

SQLite is taken at its word: a transaction is atomic, writers are serialised, a
busy timeout is a failed statement.
