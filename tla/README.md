# Verification of makoto-lite-llm

TLA+ models of the LLM gateway in `src/src/app`, the TLC configurations that
check them, and TLAPS proofs. Paths below are relative to `src/src/app` unless
they begin with `src/`.

## The system

A FastAPI application in one process and on one event loop. A handler runs
undisturbed from one `await` to the next; every SQL statement, commit and
upstream call is an `await`. Each request has an `AsyncSession` of its own
(`database.py:19`), at PostgreSQL's default READ COMMITTED, with autoflush and
without expiry on commit; `get_db` commits nothing, so what a handler has not
committed is rolled back when its session closes.

| Component | State | Operations | Interacts with | What makes it correct |
|---|---|---|---|---|
| Rate limiter (`services/rate_limiter.py`) | per key a list of (timestamp, increment) | `check_rate_limit`, `reset` | called by `proxy_guard.check_rate_limit`, twice per call (RPM, TPM) | verdicts equal those of the full history; no window over the limit; `retry_after` is enough |
| Key authentication (`auth/dependencies.py`) | TTL cache of (ApiKey, User) pairs | `_authenticate_api_key`, `get_current_api_key`, `invalidate_api_key_cache` | reads `api_keys` and `users`, invalidated by key operations | a decision is never staler than the TTL (plus the fill); expiry is immediate; what revokes a key reaches the cache |
| Key lifecycle (`services/key_service.py`) | rows of `api_keys` | generate, update, rotate, block, unblock, reactivate, bulk update, delete, reset spend | invalidates the cache | rotation keeps the grace promise; overlapping operators do not undo each other |
| Users (`services/user_service.py`) | rows of `users` | create, update, block, delete | loaded with a key | a blocked user's keys stop working within the TTL |
| Spend ledger (`services/spend_service.py`) | `spend_logs`, four `daily_*_spend` tables | `log_spend` | called after the upstream call, and in the `finally` of a stream | aggregates equal logs; log and aggregates change together; the transaction ends |
| Budget check (`services/proxy_guard.py:176`) | none | `check_budget` | reads `daily_key_spend` | overspend is bounded by what is in flight |
| Proxy pipeline (`routes/proxy_routes.py`) | none of its own | `chat_completions`, `_sse_generator` | authentication, model access, rate limits, budget, SDK, ledger | guards in order; every answered call is logged |
| Model access (`services/permission_service.py`) | none | `resolve_model_access`: the key's patterns, else the team's, else the organization's, else everything | proxy guard | an empty list denies and only a missing one inherits; wildcards match as documented |
| Login and tokens (`services/auth_service.py`) | failed-login counter, refresh tokens, reset tokens | login, refresh, logout, reset | users | lockout counts every failure; a refresh or reset token works once |
| Single sign-on (`services/sso_service.py`, `oidc_client.py`, `routes/sso_routes.py`) | `_state_store` in memory; configurations, users, memberships | authorize, callback, provisioning, group mapping, create and delete a configuration | identity provider, tokens | a state is used once; tokens mean a provisioned user; each failure has its reason |
| Organizations, teams, memberships (`services/org_service.py`, `team_service.py`) | their rows, projects | create, update, members, delete with hand-written cascades | keys, users | a cascade leaves nothing behind, or nothing happens |
| Budgets as objects (`services/budget_service.py`) | rows | create, update, delete | nothing reads them | - |
| Audit (`services/audit_service.py`) | rows | two inserts no route calls | - | - |
| SDK (`sdk/`) | one pooled `httpx` client per provider | `acompletion`, streams, error classes | upstream providers | connections come back, but for the streams that nobody closes; errors keep their meaning; streams end |
| Schema (`src/alembic/versions`) | foreign keys, unique constraints | - | every service | - |

Hard behaviours: state read before an `await` and used after it (cache fill,
ORM objects edited and committed later, aggregates added to in Python), an
in-memory cache beside a database, unique-key conflicts between concurrent
inserts, cancellation of a streaming response, time (TTL, grace, expiry,
midnight), and a check (the budget) separated from its effect (the log) by the
whole upstream call. `PROJECT.json` lists the hazards at their lines, with the properties that cover each
or the reason why none does.

Rate windows, the key cache and the SSO states are in memory only and the code
has no recovery: a restart is a crash of open transactions and the loss of that
memory. `SsoFlow` has it as an action, since a login spans two requests; elsewhere
the rollback of an open transaction is all of it.

## Modules

| Module | What it is |
|---|---|
| `RateWindow` | constants and the arithmetic of a window (`Usage`, `Live`) |
| `SlidingWindow` | abstract: decide each call on the whole history of granted calls |
| `RateLimiter` | the code: prune, sum, record or refuse; refines `SlidingWindow` |
| `RateLimiterProofs` | its theorems |
| `ApiKeyAuth` | requests, TTL cache, key and user operations, clock |
| `ApiKeyAuthProofs`, `ApiKeyTableProofs` | its theorems: types and staleness; blocks, expiry and the cache |
| `AtomicLedger` | abstract: a call is added to the log and all its aggregates at once; only calls that overlap in an aggregate may take from it |
| `SpendLedger` | the code: budget check, upstream, `log_spend` statement by statement, rollback, cancellation |
| `SpendLedgerProofs` | its theorems: the overlaps, the refinement, and the overspend |
| `AuthSessions` | login with lockout, refresh, logout and password reset, statement by statement |
| `AuthSessionsProofs` | its theorems |
| `TenancyRows` | rows, their foreign keys and unique constraints |
| `Directory` | abstract: a row appears with all it refers to, and goes with all that belongs to it, in one step |
| `Tenancy` | the code: every administrative operation as SQL statements under row locks; refines `Directory` |
| `TenancyProofs` | its theorems: types, the deletions, who can deadlock, and the refinement |
| `SsoFlow` | authorize, callback, provisioning, group mapping, configurations, restart |
| `SsoFlowProofs` | its theorems |
| `ChatCompletions` | credentials, guards, dispatch, provider, event stream and log of `/v1/chat/completions`; uses the operators of `RateLimiter` |
| `ChatCompletionsProofs` | its theorems |
| `MC*` | instances for TLC |

An operator whose name begins with `Bug` is a wrong version of the operator
after it: a plausible slip in that piece of code. No specification uses one; they
show, substituted for the right one, that a property can fail.

### RateLimiter

`check_rate_limit` has no `await`, so a call is one step: `CheckAllowed` or
`CheckDenied`, split on the comparison in line 54. `windows` is `_windows`; the
list is a set of events with an id each, because the code only filters it, sums
it and takes its oldest element. `granted` is history: what was recorded since
the last `reset`, without pruning. `Tick` moves `time.monotonic()`.

### ApiKeyAuth

A step is what runs between two awaits, or one statement of the database. `req`
is a request in `_authenticate_api_key` and `get_current_api_key`:

    idle -AuthHit-> authed                          entry in the cache
    idle -AuthMiss-> lookup -AuthLookup-> owner -AuthLoadOwner-> fill -AuthFill-> authed
    authed -KeyHit-> served                         entry still there
    authed -KeyMiss-> key -KeyLookup-> served       looked up again, or None

with `refused` where the code raises 401. `LoopFree` says that between the two
dependencies of one request no other coroutine runs. `task` is a key operation:
`get` (the SELECT), `apply` (rotation: new hash, invalidation), `commit`,
`refresh`, `invalidate` (block). The UPDATE at commit carries the columns that
differ from what was loaded (`Merged`), as SQLAlchemy's unit of work does.

Abstractions: a hash is a number (they never repeat); one value `limit` stands
for the key's models, budget and rates; which entry a full cache evicts is left
open, where cachetools takes the least recently inserted or used.
`staleSince` and `bornStale` are history: the first is when a row behind a loaded pair
changed, or when the grace period ended through which the pair was found (`Lapsed`).
Not modelled: an operator who comes with an sk- key that its own request puts into the
cache. It edits the cached objects themselves when it changes that key or its owner, and
a rollback there expires them, so that the next hit raises.
`reset_spend` sets a column nothing reads and is left out.

### SpendLedger

`call` follows a request from `check_budget` to the end of `log_spend`: the
SELECT of an aggregate and the edit of the object (`SelectRow`), its INSERT or
UPDATE (`FlushRow`), an INSERT that finds the unique key taken
(`FlushConflict`), `Commit`, `Rollback`, and the cancellation of a stream that
is in its `finally` (`Cancel`). A row's lock is taken by the statement that
writes it and held to the end of the transaction; `draft` is what the
transaction wrote there. An aggregate is the set of calls counted in it: its
columns are sums over that set, and `row.total += x` writes the set that was
read plus this call. `overlap` is history: which `log_spend` ran at the same time.

The upstream call is one step that may fail. A stream that ends without a usage
chunk, or a model without a price, logs cost 0; `Cost` covers it.

### AuthSessions

A request runs one operation of `auth_service.py` and ends. Between two steps lies
an `await`; a statement and the COMMIT right after it are one step.

    idle -LoginSelect-> matched | missed -LoginCommit-> issue -CreateTokens-> done
    idle -RefreshSelect-> revoke -RefreshRevoke-> rotate -RefreshCommit-> done
    idle -LogoutSelect, LogoutAllBegin-> logout -LogoutCommit-> done
    idle -ForgotPassword-> done
    idle -ResetSelect-> claim -ResetClaim-> password -ResetCommit-> done

The branches on `None` end at once (`LoginRefused`, `RefreshRefused`,
`ResetRefused`), a wrong password and a blocked user end at `LoginCommit`.
`users`, `tokens` and `resets` are the committed rows; `read` and `mine` are the
user's row as loaded and as the handler left the object, and the UPDATE at commit
writes the columns in which they differ (`Written`). `RefreshRevoke` and
`ResetClaim` are the UPDATE that autoflush sends with the SELECT of the user: from
there to COMMIT the token's row is locked (`Locked`), and a second request that had
selected the row waits there and then goes on, since its UPDATE names the row by
its id only. The UPDATE of logout-all works on the rows it saw when it began
(`rows`), waits for those that are locked and misses one inserted meanwhile.

A token is named after the request that issued it, so `tokens[r]` is the row
`CreateTokens` or `RefreshCommit` of `r` inserted; a password stands for all its
hashes. Time is counted in units that stand for minutes, days and hours alike.
Two variables are history: `before[r]`, the requests that had ended when `r` began,
and `misses[u]`, the wrong passwords committed since the last right one. "Overlap"
means that neither request had ended when the other began.

### Tenancy

A request is a list of statements, `todo`, that its handler runs in one transaction;
a step runs one, waits in the middle of one, or commits. What the code leaves to
PostgreSQL at READ COMMITTED is modelled from what the code relies on:

- a DELETE finds its rows when it begins, locks them (`del`), waits for those that
  another transaction holds with some of its own locked (`BlockDelete`), and does not
  see what is committed meanwhile; its foreign keys are checked at its end
  (`CheckOrphans`, `FailOrphans`), and the check waits for a row about to go;
- an INSERT waits for whoever holds the same key, then locks each row it refers to
  against deletion (`ExecShare`), in the order of its foreign keys;
- one of a circle is aborted (`Deadlocked`).

The rows that a waiting DELETE waits for it takes in one step, when all of them are free
(`ResumeDelete`); PostgreSQL takes each as it becomes free, so it may hold one of them
and wait for the next.

`delete_team` and `delete_org` are their statements in order (`TeamCascade`,
`OrgCascade`); `delete_org` selects the teams first (`ReadTeams`), and an organization
without teams skips the four statements on them. `Catches` says where the handler
turns an IntegrityError into a 409; the `OrgMembership` of an organization or a user
that does not exist is therefore answered with 409 "already a member" as well. A COMMIT
is followed by `db.refresh` (`Refresh`), which answers 500 when the row is gone again
although it was created. A SELECT that finds nothing answers 404 and changes nothing,
and is left out. An update that changes no column emits no UPDATE; one that does is
`Update` whatever the column, so blocking a user or a team is one. `budget_id` and
`project_id` are set by no operation.

`late` and `blame` are history: what others committed while a request ran, and the
rows that made its foreign keys fail.

### SsoFlow

A request is an authorization or a callback:

    idle -Authorize-> discover -Discover-> done
    idle -Callback-> config -ReadConfig-> exchange -ExchangeCode-> select
      -SelectUser-> flush -FlushUser-> member -FlushMember-> commit -CommitUser-> groups | tokens
                                       member -FlushMember-> reselect -Reselect-> tokens | done
      groups -SkipGroup, MapGroup-> groups -CommitGroups-> tokens -IssueTokens-> done
      groups -MapMalformed, Deadlocked-> done

`store` is `_state_store`, a TTLCache: a state is told apart by its organization and
its age, the oldest goes first when it expires or makes room. `pop` uses a state once.
The two rollbacks are what is hard. The one after a duplicate organization membership
also undoes the flushed provider and subject of the user and expires the
configuration; the next read of an expired attribute cannot be awaited and raises.
`stale` keeps which objects are expired. The mapping of a configuration is stored
unvalidated, so a team id in it may be no UUID, and the callback fails between the groups
(`MapMalformed`). One callback of a circle of waits is aborted, however many are in it
(`Deadlocked`). Meanwhile other routes create users and add members (`CreateUser`,
`AddOrgMember`, `AddTeamMember`), bounded by `Gifts`, and delete teams and configurations,
bounded by `Removed`. `given`, `claimed`, `before` and `failed` are history: what the
person had or was given, the groups of the claims, which requests had ended when this
one began, and the step that failed.

Nothing in this module removes users, organizations or memberships (`delete_user`,
`delete_org`, `remove_member` are in `Tenancy`): `TokensMeanProvisioned` and
`LinkedUsersBelong` hold on that condition.

What the model says of the code: a person who is a member already and whose claims
bear groups gets a 500 (`sso_routes.py:192`), although the plan says of that case
"that's fine, re-fetch user"
(`src/docs/superpowers/plans/2026-04-14-sso-real-oidc.md:669`); without groups the
login works and the provider and subject are not saved. A person who is in one
of the mapped teams already gets a 500 at the tokens. `auto_create_user` and
`is_active` of a configuration are read by nothing.

### ChatCompletions

    idle -Authenticate-> key -LoadKey-> guards -Guard-> budget -CheckBudget-> connect
    connect -Connect-> reply -Reply-> log -Log-> done                  without a stream
    connect -Connect-> head -StatusLine-> stream -NextChunk, Finish-> log -Log-> done

The guards run between two awaits, model access and both windows in one step; the
windows are computed with `Pruned` and `Fits` of `RateLimiter`, once for RPM and once
for TPM. The authentication cache is `ApiKeyAuth`'s subject: here `Authenticate` may refuse
any credential and may admit any hash that the key has had, rotated or deleted since, which
includes whatever a grace period or a cached pair admits. `LoadKey` hands out the object
that this hash led to when it was cached or leads to now: the one with that hash, or the
one after the next rotation, by which it became the previous hash. It hands out none when
the row is gone or has another hash: the entry has left the cache then, and the grace
period is over. A key's hash counts its rotations, and windows and spend are filed per
hash, as in the code; its limits do not change here.

The client of a provider has `MaxConns` connections. A stream has its 200 before the
provider answers, so a refusal becomes an event and `[DONE]`, and a transport that
breaks leaves the stream without `[DONE]`. `transform_stream_chunk` of each provider
decides which of its events become chunks and what they can bear
(`OpenAIChunks`, `AnthropicChunks`); what it maps to `None` is skipped (`Skip`), an
error inside a stream among it. A chunk that makes it raise ends the stream
(`Untransformed`) with `post_stream` still suspended where it yielded.
`Disconnect` is what starlette 1.0 and anyio 4 do
(`src/uv.lock`): a generator that awaits is cancelled, and again at the await in its
`finally`, so nothing is logged, although the design says "Generator `finally:` logs
whatever we have" (`src/docs/superpowers/specs/2026-05-06-proxy-http-routes-design.md:502`);
one suspended at its `yield` is closed later and logs. In the first case `post_stream` is
cancelled along and its connection is back at once. In the second, as after
`Untransformed`, `post_stream` stays suspended inside its `async with`, because nobody
calls `StreamWrapper.aclose`: the call keeps its connection through `log_spend` and until
the generator is collected (`Collect`, of which no fairness is assumed). `log_spend` is one step that may
fail against another that is logging (`LogFails`); its statements are in `SpendLedger`.
`came`, `at`, `slots` and `gone` are history.

Worth knowing: an OpenAI 403 reaches the client as 500 and an Anthropic 403 as 401;
httpx errors and answers that cannot be transformed are no `LiteLLMError` and become a
500 or a stream that is cut off; a `timeout` per request replaces the connect timeout
of ten seconds that the client was made with; the usage of an Anthropic stream is that of
its `message_delta`, and `message_start`, with the input tokens, is skipped.

## Runs

| Run | Question | Result |
|---|---|---|
| `rate_limiter` | do pruning, verdicts and `retry_after` agree with the full history, under changing limits and increments? | pass |
| `api_keys` | one key, one request, one operator, every operation: staleness, expiry, block | pass |
| `api_keys_overlap` | two operators on one key: does one undo the other, what ends the use of an accepted hash? | pass |
| `spend_ledger` | four concurrent calls: what is lost, what fails, does it end? | pass |
| `spend_ledger_budget` | five calls of one key over two days, two logging at once: is it an atomic ledger, and how far can a key overspend? By what is in flight, and without a bound by the calls whose `log_spend` overlapped another in the key's aggregate | pass |
| `spend_ledger_lost` | do aggregates equal logs once nobody writes? | no: lost update |
| `auth_sessions` | logins, refreshes, logouts and resets of one user in every interleaving: is a token exchanged once but by overlapping requests, does a logout hold, does the lockout count? | pass |
| `tenancy` | three administrators at once: when does a cascade fail, what does a 204 mean, who deadlocks, is it a directory? | pass |
| `tenancy_pairs` | every pair of operations over more kinds of rows: is it a directory, is every request answered? | pass |
| `sso_login` | two callbacks or authorizations, with restarts, deletions and other routes that write the same person: what do tokens mean, why does a login fail, does it end? | pass |
| `chat_completions` | three calls under two limits and a budget, the key rotated or deleted meanwhile: are the limits exact, per hash? | pass |
| `chat_streams` | two calls that share a connection: what is the client told, what is logged, which connections stay behind, does every call end? | pass |

The "no" contradicts a sentence of the repository, quoted in `PROJECT.json` under
`findings`. Other sentences of the documents hold only as far as a passing property
says: a key leaves the cache on delete or block (`dependencies.py:28`; within the TTL,
`BoundedStaleness`), an overspend of one or two requests
(`proxy_guard.py:183`; of the calls in flight and all that overlapped, `OverspendIsInFlight`), every answered
call logged (unless two insert the first aggregate of a day, `FailsOnlyToOverlap`), the
old refresh token invalidated (unless two refreshes overlap,
`SpentOnceUnlessOverlapping`), and "cascade" for an organization (unless it has an SSO
configuration, `CascadeFailsOnlyOnNewRows`). No property speaks of `None` "for JWT auth"
(`dependencies.py:177`): `get_current_api_key` returns it also for a key that vanished, or
whose grace period ended, after `get_current_user` admitted it, and the call then runs
without limits; `LoadKey` has these cases, and `LimitsAreExact` is about calls with a key.

Some of the properties that pass are narrower than what one might wish for.
`RetryAfterSuffices` is about callers who ask for no more than each kept entry holds, as
the RPM check does: the entry that expires first may free too little for a larger
request, although the comment at `rate_limiter.py:55` speaks of "enough entries".
`GraceIsKept` names three ways in which a rotation ends the use of an accepted hash,
where the docstring of `rotate_key` says "keep old hash during grace period": the row
keeps one previous hash, so the one before last goes; of two rotations that overlap, the
second replaces the hash that the first just returned; and the period may be over when
the commit comes. `FailuresAreCounted` is about logins that do not
overlap: the counter is read, incremented in Python and
written back, so of two wrong passwords at once one is lost. `ConnectionsAreReturned`
allows the two cases in which the code leaves a connection with a call that has ended.

### Bounds

- `rate_limiter`: two keys (the RPM and the TPM window), limits 2 and 3,
  increments 1 and 2, window 3, time to 5, four calls. Entries of two instants can
  share a window and the older expires with the newer still in it, also while a refused
  caller waits; four calls fill both limits and leave one to be refused. The theorems
  remove these bounds.
- `api_keys`: TTL 2, fill at most 1, clock to 4, two hashes (one rotation), so an
  entry outlives a change, expires, and is decided on up to three instants after a grace
  period of one has ended: TTL and fill later, when it must not be there any more.
  `MaxFill` bounds the time from the key lookup to the store, which in the code is
  the latency of one more SELECT: `BoundedStaleness` is stated with it.
- `api_keys_overlap`: two operators who block, rotate and update one key, three hashes
  and two grace periods, one of them zero, so that rotations follow each other inside and
  after a grace period, and overlap. Its properties are about the row: it has no request.
- `spend_ledger`: two hashes of one user, one of them in a team, four calls of
  which one is a stream: the calls meet in key, user and team rows, with three
  or two aggregates each, enough for two transactions to lock in a common order
  and for a third to conflict. `spend_ledger_budget` has five calls of one key and a
  second day: three units of budget, of which one is lost to an overlap, let five calls
  through with two in flight; without the clashed calls in the bound TLC finds it
  violated.
- `auth_sessions`: four requests of one user who knows one of two passwords, two
  attempts before the lockout, every lifetime one unit and the clock at 0 or 1.
  Four requests are a login that issues the token and three that meet on it (two
  refreshes and a logout), or three logins around a reset: each property relates two
  requests and the token between them. Users share no row, so a second one adds
  nothing. The theorems remove these bounds.
- `tenancy`: three requests over an organization with a team, its projects, a user and
  keys, or over two organizations of which each has a key with the other's team (which
  `generate_key` accepts): a circle or a failed cascade takes two requests, and the
  third commits in between or closes the circle. Requests are interchangeable.
  `tenancy_pairs` has every operation and more rows, but two requests, so that liveness
  can be checked without symmetry.
- `sso_login`: two requests, one organization or two that map their groups to the same
  teams, a person of the allowed domain and one of another, four groups of which two
  map to teams, one to none and one to what is no team id, a store of two. The claims
  list two teams in either order, one team twice, a team before the malformed id, or no
  group. Other routes may create the person's account and add one organization and one
  team to it, and delete one configuration and one team. Two callbacks are enough for a
  conflict, three groups for a rollback with something before and after it. In one organization two callbacks
  of one person never wait for each other: the second finds the membership and fails
  where it reads the mapping; the circle takes the second organization. `Starts` has the
  authorizations done, because the requests that made them count among the two
  otherwise. A circle of three callbacks is out of the run's reach; `FailuresHaveReasons`
  is proved for any number. Restarts are unbounded.
- `chat_completions`: three calls, RPM 2 and TPM 3 with tokens 1 and 2 so that either
  limit refuses with the other still open, a window of two units and three instants so
  that a slot expires, one rotation. `chat_streams`: two calls and one connection, so
  that one waits for the pool; two chunks, the smallest stream whose last usage is
  not its first; refusals 403, 429 and 503. A connection that stays behind is then the
  whole pool, and the other call runs into the pool's timeout.
- Deadlock is not checked where the environment may simply stop: `MaxCalls`,
  `MaxTime`, or all calls or requests done.

### Fairness

Weak fairness, of each process by itself and only of steps that can be taken:

- `spend_ledger`: `Database(c)`, a statement or commit which the database can execute is
  executed. A statement that waits for a lock is not enabled, so nothing is assumed of
  it, and `LogSpendEnds` has to come from the common lock order.
- `tenancy_pairs`: `Work(r)`, likewise, and PostgreSQL's deadlock check, which runs
  after `deadlock_timeout`: `EveryRequestEnds` has to come from the fact that whoever
  is waited for goes on or is in a circle.
- `sso_login`: `Login(r)`, likewise, and the identity provider answers or times out
  after ten seconds (`oidc_client.py:20`, `:52`, `:74`).
- `chat_streams`: `Run(c)`, where a provider answers or times out (`http_client.py:61`,
  `:88`) and waiting for a connection times out. A stream's events are bounded by
  `MaxChunks`; the code bounds the silence between two of them.

Nothing is assumed of clients, administrators, disconnections, restarts, rotation,
expiry or midnight.

## Proofs

All checked by TLAPS for every value of the constants that satisfies the named
assumptions (`WindowAssumption`, `ApiKeyAssumption`, `NullAssumption`,
`LedgerAssumption`, `SessionAssumption`, `NoTokenAssumption`, `TenancyAssumption`,
`SsoAssumption`, `ChatAssumption`), which TLC evaluates in the runs.

`RateLimiterProofs`
- `TypeCorrect`, `PruningCorrect`, `LimitRespected`: the invariant adds that every
  event is in the past and that the kept list holds every granted event still live
  (`EventsArePast`, `LiveAreKept`). The induction on a window of the past needs
  `UnitsAdd` and `UsageMonotone`, which express the sum of increments as a
  cardinality.
- `Refinement`: each call of the limiter is a call of `SlidingWindow`; pruning
  maps to a stutter.
- `WaitingSuffices`: the property speaks of a later moment than the refusal.
  `WaitingFreesAnEntry` carries over: while a refusal is the last answer, its key's list is
  what the refusal left, or empty, so waiting `retry_after` drops an entry at least.

`ApiKeyAuthProofs`
- `TypeCorrect`, `StalenessBounded`. `BoundedStaleness` speaks of the moment of
  decision and is not inductive. `IInv` follows a loaded object: while it waits to be
  stored it was read at most `MaxFill` ago and was current when read; an entry is
  younger than the TTL and was current at most `MaxFill` before it was stored;
  what is decided on therefore is stale by less than the sum. There is one lemma per action.

`ApiKeyTableProofs`
- `BlocksHold` (`BlockIsNotOverwritten`) and `ExpiryHolds` (`ExpiryIsImmediate`).
  `TInv` adds two facts: what an operation is about to commit differs from what it
  loaded in `blocked` and `expires` only as that operation means to (`EditOK`), and
  the row behind every loaded or cached object expires no earlier than the object
  says (`Older`), because no operation brings an expiry forward.
- `BlocksReachTheCache` (`BlockClearsCurrentHash`). The property says nothing while an
  operation is under way, so `BlockInv` says what holds then: an operation on the key
  will still drop the entry of its current hash (`Clears`). Two more facts make it
  inductive. `CurrentInv`: an object on its way to the cache that is not out of date
  equals its row, so nothing but a late fill stores an admitting copy of a blocked row.
  `PubInv`: there are disjoint sets of hashes, one for each key, that hold whatever its
  row, a loaded copy of it, a lookup or the cache mentions, and a rotation that is about
  to commit brings a hash from none of them. So no two rows share a hash, and a rotation
  that commits during a block moves the row to a hash the cache cannot hold. The sets
  are an existential witness, which grows with every key and every rotation.
- `GraceHolds` (`GraceIsKept`). `KeepOK` says of an operation that as long as the row has
  the hash it loaded, it has the previous hash and the grace period it loaded: so a
  rotation which overlapped none writes all three columns, although its UPDATE leaves out
  those that did not change. That no rotation brings back a hash is `PubInv` again.

`SpendLedgerProofs`
- `TypeCorrect`, `CountedAreLogged`, `OnlyOverlapLoses`, `OnlyOverlapFails`, for any
  number of concurrent transactions. None of the three properties is inductive: a
  commit publishes a draft computed several steps before. `IInv` says of every
  draft and of every object about to be flushed (`Version`) that it counts this
  call and, but for those that overlap it or were lost before, every call logged in
  that row; that the owner of a lock is in `log_spend`; that a call which reaches
  commit owns the locks of all its rows; and that a row to be inserted was missing,
  so whoever logged there since overlaps. `Grows` collects what a step may do to
  history, and one lemma carries each fact across such a step.
- `LedgerIsAtomic`: `SpendLedger` implements `AtomicLedger`, however many `log_spend`
  calls overlap. `Current` strengthens `Version`: a draft is the committed row with the
  call added, or a logged call of that row has overlapped the call. A commit maps to
  `Record` (`CommitRecords`), every other step to a stutter.
- `OverspendBounded` (`OverspendIsInFlight`), for finitely many calls. The logged
  spend alone is not inductive: a call is admitted long before it is logged, and perhaps
  on another day. `OwedBounded` therefore adds to the logged calls that none has
  overlapped (`Clear`) those in flight, each
  under the day it would be booked on now, and needs that at most `MaxInFlight` calls are
  in flight and that nothing is booked on a day to come. Only an admission and midnight
  add to what is owed; both find room, the first because `check_budget` counts every
  logged call that is clear, by `LostOnlyToOverlap`. Sums of costs are cardinalities of sets
  of units, so that `SumFacts` and `SumBound` follow from the library's facts on finite sets.

`AuthSessionsProofs`
- `TypeCorrect`: a step on a token needs its row to be there, so `TInv` adds
  `TargetsExist`, what each stage of a request knows of its target.
- `ExchangedOnce` and `LogoutsHold`: four lemmas say what any step may do: tables only
  grow (`TablesGrow`), a request keeps what it is doing (`RequestsKeep`), what was
  true of its target when it began (`Starts`) and is when it ends (`Ends`). The rest
  uses these alone. `ExchangeInv` says of two exchanges of one token that they overlap
  from the moment the second has found it; `LogoutInv` that a token is revoked, or its
  logout has yet to write it, and that no refresh of it began after the logout ended.
- `FailuresCounted`: `LoginInv` says that while a user's logins do not overlap, what a
  login is about to write is the committed row with one more failure, or none. A step
  is one of a login or leaves all this alone (`QuietOrLogin`): resets and blocks write
  other columns.

`TenancyProofs`
For any set of rows with the columns of their tables (`WellFormed`), any contents that
satisfy the constraints (`Consistent`) and any number of requests.
- `TypeCorrect`, `DeletedIsGone`, `CascadesAreComplete`, `DirectoryImplemented`, from
  one invariant of three parts. `TInv`: types, and what a request is at each step.
  `RowsInv`: the committed rows satisfy the constraints; two transactions never hold a
  row that one of them deletes nor two rows that clash; a row that is being inserted
  clashes with none, and everything it refers to is locked or its lock is still to
  come. `WorkInv`: what is left of a deletion will find every row it has yet to delete
  (`Covers`), children before parents (`Ordered`), so that nothing but new rows refers
  to what is deleted (`Childless`).
- The steps are sorted by what they do to locks and rows (`Acts`), and a request whose
  step it is not keeps all that is its own (`Frame`). Only a COMMIT changes `rows`
  (`OnlyCommits`); it maps to `Add` or `Remove` of `Directory`, where a removal takes
  exactly the rows that `Owned` names, and everything else maps to a stutter.
- `CirclesHaveCascades`, with `LightInv`: a request that works on one row holds nothing
  while it waits, unless it has inserted its row or looks for what refers to the one it
  deleted. So whoever waits and is waited for (`Members`) is a cascade, adds a row or
  deletes a user. The last waits for a row that refers to the user, which neither of the
  last two deletes (`UserWaits`); one that adds waits for one that deletes
  (`AdderWaits`): there is a cascade, which waits for another request, and not for the
  deletion of a user (`CascadeWaits`). That the other may be a cascade too was
  found with the proof: two of them lock the keys by team and then by organization.

`SsoFlowProofs`
- `TypeCorrect`, `TokensIssued`, `FailuresHaveReasons`, `LinkedBelong`. `RowsInv` says
  what a callback that has looked its user up may rely on: rows do not go away, and of
  those that write one user's row one at a time is in its transaction. `GroupsInv` says
  that what is pending is wanted and nobody else's, and that until a row is found in
  place everything wanted is there, pending or to come; the groups still to come are the
  last of the claims (`Mapping`). `KnownInv` says that while no other callback of the person
  runs, what there is of the person was there when the claims came in, was given by other
  routes, or was committed by this callback: so a row that is in its way has one of the
  reasons that the property names. `OutcomeInv` says why each kind of failure could happen.

`ChatCompletionsProofs`
For any number of calls, keys and rotations, any limits and streams of any length.
- `TypeCorrect`, `PoolsHold`, `LimitsHold`, `ClientsAreTold`, `LogsAreTrue`. `TInv`:
  types, and what a call has at each stage (`Stage`). `ConnsInv`, which gives `PoolsHold`:
  a call in its exchange holds a connection, and any other that does is a stream whose
  `post_stream` is left suspended (`Suspended`), which no later step of it changes. `Own` sums up what each
  action does to its own call (`Does`), and `Frame` that it leaves every other alone; the
  other parts are carried across these summaries.
- `LogInv`: `finish` and `usage` are
  what the events so far bore. `ToldInv` and `SentInv`: an error comes last, and until then
  what has been sent is the chunks that came, in order (`InOrder`).
- `WindowInv` is what `LimitsAreExact` needs. A tuple in a window is the slot of one call
  (`TuplesAreSlots`), and a slot still in the window has its tuple (`SlotFacts`); so what
  the limiter adds up is what the calls with a slot take (`UsageIsTotal`, by a bijection
  between their units), and the bound on every window of the past is inductive
  (`HeldWithinLimits`). A dispatched call has both slots. A refusal stays right, because
  calls with a slot only join (`RefusalFacts`).

Every safety and action property of the passing runs is proved. Only model-checked:
`LogSpendEnds`, `EveryRequestEnds`, `LoginEnds` and `CallsEnd`, since liveness under
fairness is out of the prover's reach.

## Not modelled, and the plan

`AuthSessions` leaves out the deletion of a user under a request in progress (a
foreign key error) and the access token with which logout and logout-all come.

Left out for good: the translation of requests and messages between providers (field by
field and without state), the other schemas, audit (two inserts that no route calls),
start-up, `aclose_all` (the server enters the shutdown of the lifespan when no request
is left), the double-checked creation of a client (no await inside its lock), and error
wording. `ChatCompletions` takes `log_spend` and the cache at the grain described above,
and does not multiply their own models.
