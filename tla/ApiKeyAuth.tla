----------------------------- MODULE ApiKeyAuth -----------------------------
(***************************************************************************)
(* API keys, the in-process TTL cache in front of them, and the requests   *)
(* they authenticate.                                                      *)
(*                                                                         *)
(*   src/src/app/auth/dependencies.py   _authenticate_api_key,             *)
(*                                      get_current_api_key, the cache     *)
(*   src/src/app/services/key_service.py   the key operations              *)
(*                                                                         *)
(* All coroutines share one event loop: a step is what runs between two    *)
(* awaits, or one statement that the database executes for a coroutine     *)
(* that awaits it.  A coroutine's commit is one such statement.            *)
(*                                                                         *)
(* A key hash is a number: generate_api_key never repeats one, so the next *)
(* hash is the next number.  Of a key's limits (models, budget, RPM, TPM)  *)
(* one stands for all.  An operator works in the session of its own        *)
(* request, so the objects it changes are not the ones in the cache: the   *)
(* operators here come with a JWT, or with a key that was cached before.   *)
(* (If the operator's own request fills the cache with its sk- key, and    *)
(* then changes that key or its owner, it edits the cached objects, and a  *)
(* rollback expires them.  That is left out.)                              *)
(***************************************************************************)
EXTENDS Integers, FiniteSets

CONSTANTS
  Keys,       \* rows of api_keys, by id
  Users,
  Owner,      \* api_keys.user_id
  Requests,   \* coroutines serving requests that carry an sk- key
  Admins,     \* coroutines running key operations
  Ops,        \* the key operations they may run
  Limits,     \* values of a key's limits
  Graces,     \* grace periods a rotation may ask for
  Lifetimes,  \* times from creation to expires_at
  CacheTTL,   \* settings.api_key_cache_ttl_seconds
  CacheSize,  \* maxsize of _api_key_cache
  MaxFill,    \* bound on the time from the key lookup to the cache fill
  MaxHash,    \* bound on the number of keys and rotations
  MaxTime,    \* bound on the clock
  Never,      \* a time after every other: NULL in a timestamp column
  NoHash, NoRow, GoneRow, NoObject, NoEntry

ASSUME ApiKeyAssumption ==
  /\ Owner \in [Keys -> Users]
  /\ Ops \subseteq {"block", "unblock", "rotate", "reactivate", "update", "delete"}
  /\ Graces \subseteq Nat /\ Lifetimes \subseteq Nat
  /\ CacheTTL \in Nat \ {0} /\ CacheSize \in Nat \ {0}
  /\ MaxFill \in Nat /\ MaxHash \in Nat \ {0} /\ MaxTime \in Nat
  /\ Never \in Nat /\ Never > MaxTime
  /\ \A d \in Graces \cup Lifetimes : Never > MaxTime + d

VARIABLES
  now,     \* datetime.now(UTC) and the cache's timer
  row,     \* api_keys: a row, NoRow before it is inserted, GoneRow after it is deleted
  user,    \* users.is_blocked, or "gone" once deleted
  issued,  \* number of hashes generated so far
  cache,   \* _api_key_cache
  req,     \* the requests being authenticated
  task     \* the key operations in progress

vars == <<now, row, user, issued, cache, req, task>>

Hashes == 1..MaxHash
Times == 0..Never
UserStates == {"active", "blocked", "gone"}

Row == [hash : Hashes, prev : Hashes \cup {NoHash}, grace : Times,
        blocked : BOOLEAN, expires : Times, limit : Limits]

\* The (ApiKey, User) objects a request loaded.  staleSince is history: when
\* the first of the two rows changed after it was read, or the grace period
\* ended through which it was found.
Object == [key : Keys, row : Row, owner : UserStates \cup {"unread"}, staleSince : Times]

ASSUME NullAssumption ==
  /\ NoHash \notin Hashes /\ NoObject \notin Object
  /\ NoRow # GoneRow /\ NoRow \notin Row /\ GoneRow \notin Row

\* bornStale is history: a row had changed already when the entry was stored.
Entry == [obj : Object, filledAt : 0..MaxTime, bornStale : BOOLEAN]

Request == [pc : {"idle", "lookup", "owner", "fill", "authed", "key", "served", "refused"},
            hash : Hashes, obj : Object \cup {NoObject},
            readAt : 0..MaxTime,   \* when the key row was read
            at : 0..MaxTime]       \* when it was decided on, or handed to the guards

Task == [pc : {"idle", "get", "apply", "commit", "refresh", "invalidate"},
         op : Ops \cup {"none"}, key : Keys, copy : Row \cup {NoRow},   \* copy: the ORM object
         new : Row \cup {NoRow}]                          \* its values at commit

Present(k) == row[k] \in Row

\* The WHERE clause of _lookup_api_key.
Accepts(k, h) ==
  /\ row[k] \notin {NoRow, GoneRow}
  /\ \/ row[k].hash = h
     \/ row[k].prev = h /\ row[k].grace > now

\* A wrong version of Valid: the expiry is left to the database lookup.
BugValidNoExpiry(obj, t) == ~obj.row.blocked /\ obj.owner = "active"

\* The three checks of _authenticate_api_key, made on loaded objects.
Valid(obj, t) ==
  /\ ~obj.row.blocked
  /\ ~(obj.row.expires < t)
  /\ obj.owner = "active"

IdleRequest ==
  [pc |-> "idle", hash |-> 1, obj |-> NoObject, readAt |-> 0, at |-> 0]

\* Between get_current_user and get_current_api_key of one request there is
\* no await, so nothing else runs on the event loop.
LoopFree == \A r \in Requests : req[r].pc # "authed"

(***************************************************************************)
(* History: the loaded copies of a row that a statement changes, or that   *)
(* the hash they were found under no longer leads to.                      *)
(***************************************************************************)
Outdated(obj, changed) ==
  IF obj # NoObject /\ obj.key \in changed /\ obj.staleSince = Never
    THEN [obj EXCEPT !.staleSince = now] ELSE obj

OutdatedByUser(obj, u) ==
  IF obj # NoObject /\ Owner[obj.key] = u /\ obj.owner # "unread" /\ obj.staleSince = Never
    THEN [obj EXCEPT !.staleSince = now] ELSE obj

\* obj was found under h.
Lapsed(obj, h, t) ==
  IF obj # NoObject /\ obj.row.hash # h /\ obj.row.grace <= t /\ obj.staleSince = Never
    THEN [obj EXCEPT !.staleSince = t] ELSE obj

ChangeRows(new) ==
  LET changed == {k \in Keys : new[k] # row[k]}
  IN  /\ row' = new
      /\ req' = [r \in Requests |-> [req[r] EXCEPT !.obj = Outdated(@, changed)]]
      /\ cache' = [h \in Hashes |-> IF cache[h] = NoEntry THEN NoEntry
                                    ELSE [cache[h] EXCEPT !.obj = Outdated(@, changed)]]

ChangeUser(u, state) ==
  /\ user[u] # state
  /\ user' = [user EXCEPT ![u] = state]
  /\ req' = [r \in Requests |-> [req[r] EXCEPT !.obj = OutdatedByUser(@, u)]]
  /\ cache' = [h \in Hashes |-> IF cache[h] = NoEntry THEN NoEntry
                                ELSE [cache[h] EXCEPT !.obj = OutdatedByUser(@, u)]]

(***************************************************************************)
(* An operator whose name begins with Bug is a wrong version of the one    *)
(* that follows it: the properties are tested against it and no            *)
(* specification uses it.                                                  *)
(*                                                                         *)
(* The cache: TTLCache(maxsize, ttl).  An entry leaves it when it is ttl   *)
(* old; a get does not renew it.  Which entry a full cache evicts follows  *)
(* the order of use, which is left open here.                              *)
(***************************************************************************)
Fresh(e, t) == e # NoEntry /\ t < e.filledAt + CacheTTL

BugHitRenews(h) == IF cache[h] = NoEntry THEN NoEntry ELSE [cache[h] EXCEPT !.filledAt = now]

\* What a get leaves in the cache.
AfterHit(h) == cache[h]

Occupied == {h \in Hashes : cache[h] # NoEntry}

Store(h, e) ==
  IF cache[h] # NoEntry \/ Cardinality(Occupied) < CacheSize
    THEN cache' = [cache EXCEPT ![h] = e]
    ELSE \E victim \in Occupied : cache' = [cache EXCEPT ![victim] = NoEntry, ![h] = e]

BugInvalidateNothing(h) == cache' = cache

Invalidate(h) == cache' = [cache EXCEPT ![h] = NoEntry]

(***************************************************************************)
(* Authentication.                                                         *)
(***************************************************************************)

\* The decision is taken on obj now.
Decided(r, h, obj) ==
  [req[r] EXCEPT !.pc = IF Valid(obj, now) THEN "authed" ELSE "refused",
                 !.hash = h, !.obj = obj, !.at = now, !.readAt = 0]

AuthHit(r, h) ==
  /\ LoopFree /\ req[r].pc = "idle"
  /\ cache[h] # NoEntry
  /\ req' = [req EXCEPT ![r] = Decided(r, h, cache[h].obj)]
  /\ cache' = [cache EXCEPT ![h] = AfterHit(h)]
  /\ UNCHANGED <<now, row, user, issued, task>>

AuthMiss(r, h) ==
  /\ LoopFree /\ req[r].pc = "idle"
  /\ cache[h] = NoEntry
  /\ req' = [req EXCEPT ![r] = [IdleRequest EXCEPT !.pc = "lookup", !.hash = h]]
  /\ UNCHANGED <<now, row, user, issued, cache, task>>

\* _lookup_api_key: the database answers; without a row the request is refused.
AuthLookup(r) ==
  /\ req[r].pc = "lookup"
  /\ \/ \E k \in Keys :
          /\ Accepts(k, req[r].hash)
          /\ req' = [req EXCEPT ![r].pc = "owner", ![r].readAt = now,
                       ![r].obj = [key |-> k, row |-> row[k], owner |-> "unread",
                                   staleSince |-> Never]]
     \/ /\ \A k \in Keys : ~Accepts(k, req[r].hash)
        /\ req' = [req EXCEPT ![r].pc = "refused", ![r].at = now]
  /\ UNCHANGED <<now, row, user, issued, cache, task>>

AuthLoadOwner(r) ==
  /\ req[r].pc = "owner"
  /\ req' = [req EXCEPT ![r].pc = "fill", ![r].obj.owner = user[Owner[req[r].obj.key]]]
  /\ UNCHANGED <<now, row, user, issued, cache, task>>

\* The coroutine resumes: cache fill and checks, with no await in between.
AuthFill(r) ==
  /\ LoopFree /\ req[r].pc = "fill"
  /\ Store(req[r].hash, [obj |-> req[r].obj, filledAt |-> now,
                         bornStale |-> req[r].obj.staleSince # Never])
  /\ req' = [req EXCEPT ![r] = Decided(r, req[r].hash, req[r].obj)]
  /\ UNCHANGED <<now, row, user, issued, task>>

\* get_current_api_key: the cached object, or a lookup of its own.
KeyHit(r) ==
  /\ req[r].pc = "authed"
  /\ cache[req[r].hash] # NoEntry
  /\ req' = [req EXCEPT ![r].pc = "served", ![r].obj = cache[req[r].hash].obj, ![r].at = now]
  /\ cache' = [cache EXCEPT ![req[r].hash] = AfterHit(req[r].hash)]
  /\ UNCHANGED <<now, row, user, issued, task>>

KeyMiss(r) ==
  /\ req[r].pc = "authed"
  /\ cache[req[r].hash] = NoEntry
  /\ req' = [req EXCEPT ![r].pc = "key"]
  /\ UNCHANGED <<now, row, user, issued, cache, task>>

\* Its lookup does not load the owner, nor fill the cache, nor refuse.
KeyLookup(r) ==
  /\ req[r].pc = "key"
  /\ \/ \E k \in Keys :
          /\ Accepts(k, req[r].hash)
          /\ req' = [req EXCEPT ![r].pc = "served", ![r].at = now,
                       ![r].obj = [key |-> k, row |-> row[k], owner |-> "unread",
                                   staleSince |-> Never]]
     \/ /\ \A k \in Keys : ~Accepts(k, req[r].hash)
        /\ req' = [req EXCEPT ![r].pc = "served", ![r].at = now, ![r].obj = NoObject]
  /\ UNCHANGED <<now, row, user, issued, cache, task>>

Finish(r) ==
  /\ req[r].pc \in {"served", "refused"}
  /\ req' = [req EXCEPT ![r] = IdleRequest]
  /\ UNCHANGED <<now, row, user, issued, cache, task>>

(***************************************************************************)
(* Key operations.  Each loads the row, edits the object, commits the      *)
(* columns that differ from what it loaded, and reads the row back.        *)
(***************************************************************************)
IdleTask(k) == [pc |-> "idle", op |-> "none", key |-> k, copy |-> NoRow, new |-> NoRow]

GenerateKey(k, limit, life) ==
  /\ row[k] = NoRow /\ issued < MaxHash /\ user[Owner[k]] # "gone"
  /\ issued' = issued + 1
  /\ ChangeRows([row EXCEPT ![k] =
       [hash |-> issued + 1, prev |-> NoHash, grace |-> Never, blocked |-> FALSE,
        expires |-> IF life = Never THEN Never ELSE now + life, limit |-> limit]])
  /\ UNCHANGED <<now, user, task>>

AdminBegin(a, op, k) ==
  /\ task[a].pc = "idle" /\ row[k] # NoRow
  /\ task' = [task EXCEPT ![a] = [IdleTask(k) EXCEPT !.pc = "get", !.op = op]]
  /\ UNCHANGED <<now, row, user, issued, cache, req>>

\* What the operation makes of the object it loaded (rotate_key: see below).
Edits(op, copy) ==
  CASE op = "block"      -> {[copy EXCEPT !.blocked = TRUE]}
    [] op = "unblock"    -> {[copy EXCEPT !.blocked = FALSE]}
    [] op = "reactivate" -> {[copy EXCEPT !.blocked = FALSE, !.expires = Never]}
    [] op = "update"     -> {[copy EXCEPT !.limit = l] : l \in Limits}
    [] op = "delete"     -> {copy}
    [] op = "rotate"     -> {copy}

\* get_key: without a row the operation returns None.
AdminGet(a) ==
  LET k == task[a].key IN
  /\ task[a].pc = "get"
  /\ \/ /\ ~Present(k)
        /\ task' = [task EXCEPT ![a] = IdleTask(k)]
     \/ /\ Present(k)
        /\ \E new \in Edits(task[a].op, row[k]) :
             task' = [task EXCEPT ![a].copy = row[k], ![a].new = new,
                        ![a].pc = IF task[a].op = "rotate" THEN "apply" ELSE "commit"]
  /\ UNCHANGED <<now, row, user, issued, cache, req>>

BugRotatedForgets(copy, hash, grace) ==
  [copy EXCEPT !.grace = now + grace, !.hash = hash]

BugRotatedBackwards(copy, hash, grace) ==
  [copy EXCEPT !.prev = copy.hash, !.grace = now - grace, !.hash = hash]

\* rotate_key between get_key and commit.
Rotated(copy, hash, grace) ==
  [copy EXCEPT !.prev = copy.hash, !.grace = now + grace, !.hash = hash]

AdminRotate(a, grace) ==
  /\ LoopFree /\ task[a].pc = "apply" /\ issued < MaxHash
  /\ issued' = issued + 1
  /\ Invalidate(task[a].copy.hash)
  /\ task' = [task EXCEPT ![a].pc = "commit",
                         ![a].new = Rotated(task[a].copy, issued + 1, grace)]
  /\ UNCHANGED <<now, row, user, req>>

BugMergedAllColumns(current, copy, new) == new

\* The UPDATE statement: the columns of the object that changed since it was
\* loaded, over whatever the row holds by now.
Merged(current, copy, new) ==
  [hash    |-> IF new.hash # copy.hash THEN new.hash ELSE current.hash,
   prev    |-> IF new.prev # copy.prev THEN new.prev ELSE current.prev,
   grace   |-> IF new.grace # copy.grace THEN new.grace ELSE current.grace,
   blocked |-> IF new.blocked # copy.blocked THEN new.blocked ELSE current.blocked,
   expires |-> IF new.expires # copy.expires THEN new.expires ELSE current.expires,
   limit   |-> IF new.limit # copy.limit THEN new.limit ELSE current.limit]

\* An object without changes commits nothing; one whose row is gone raises
\* StaleDataError, and the operation ends there.
AdminCommit(a) ==
  LET t == task[a] IN
  /\ t.pc = "commit" /\ t.op # "delete"
  /\ \/ /\ t.new = t.copy
        /\ task' = [task EXCEPT ![a] = [IdleTask(t.key) EXCEPT !.pc = "refresh", !.op = t.op]]
        /\ UNCHANGED <<row, cache, req>>
     \/ /\ t.new # t.copy /\ Present(t.key)
        /\ ChangeRows([row EXCEPT ![t.key] = Merged(@, t.copy, t.new)])
        /\ task' = [task EXCEPT ![a] = [IdleTask(t.key) EXCEPT !.pc = "refresh", !.op = t.op]]
     \/ /\ t.new # t.copy /\ ~Present(t.key)
        /\ task' = [task EXCEPT ![a] = IdleTask(t.key)]
        /\ UNCHANGED <<row, cache, req>>
  /\ UNCHANGED <<now, user, issued>>

\* delete_key: DELETE; a row that is gone already is no error.
AdminDelete(a) ==
  LET t == task[a] IN
  /\ t.pc = "commit" /\ t.op = "delete"
  /\ ChangeRows([row EXCEPT ![t.key] = GoneRow])
  /\ task' = [task EXCEPT ![a] = IdleTask(t.key)]
  /\ UNCHANGED <<now, user, issued>>

\* db.refresh, which raises when the row is gone; block_key goes on to
\* invalidate, the other operations return.
AdminRefresh(a) ==
  LET t == task[a] IN
  /\ t.pc = "refresh"
  /\ task' = [task EXCEPT ![a] =
       IF Present(t.key) /\ t.op \in {"block", "unblock"}
         THEN [t EXCEPT !.pc = "invalidate", !.copy = row[t.key]]
         ELSE IdleTask(t.key)]
  /\ UNCHANGED <<now, row, user, issued, cache, req>>

\* block_key drops the entry of the current hash.
AdminInvalidate(a) ==
  /\ LoopFree /\ task[a].pc = "invalidate"
  /\ Invalidate(task[a].copy.hash)
  /\ task' = [task EXCEPT ![a] = IdleTask(task[a].key)]
  /\ UNCHANGED <<now, row, user, issued, req>>

\* bulk_update_keys: one UPDATE statement.
BulkUpdate(ids, limit) ==
  /\ ChangeRows([k \in Keys |-> IF k \in ids /\ Present(k)
                                 THEN [row[k] EXCEPT !.limit = limit] ELSE row[k]])
  /\ UNCHANGED <<now, user, issued, task>>

BlockUser(u, blocked) ==
  /\ user[u] # "gone"
  /\ ChangeUser(u, IF blocked THEN "blocked" ELSE "active")
  /\ UNCHANGED <<now, row, issued, task>>

\* delete_user succeeds only when no row of api_keys refers to the user.
DeleteUser(u) ==
  /\ \A k \in Keys : Owner[k] = u => ~Present(k)
  /\ ChangeUser(u, "gone")
  /\ UNCHANGED <<now, row, issued, task>>

\* Time passes.  A coroutine between the key lookup and the fill has been
\* there for at most MaxFill; one between two statements without an await has
\* seen the clock move once at most.
Tick ==
  /\ now < MaxTime
  /\ \A r \in Requests : req[r].pc \in {"owner", "fill"} => now < req[r].readAt + MaxFill
  /\ \A r \in Requests : req[r].pc = "authed" => req[r].at = now
  /\ now' = now + 1
  /\ req' = [r \in Requests |-> [req[r] EXCEPT !.obj = Lapsed(@, req[r].hash, now + 1)]]
  /\ cache' = [h \in Hashes |-> IF Fresh(cache[h], now + 1)
                                THEN [cache[h] EXCEPT !.obj = Lapsed(@, h, now + 1)]
                                ELSE NoEntry]
  /\ UNCHANGED <<row, user, issued, task>>

Init ==
  /\ now = 0
  /\ row = [k \in Keys |-> NoRow]
  /\ user = [u \in Users |-> "active"]
  /\ issued = 0
  /\ cache = [h \in Hashes |-> NoEntry]
  /\ req = [r \in Requests |-> IdleRequest]
  /\ task \in [Admins -> {IdleTask(k) : k \in Keys}]

Authenticate(r) ==
  \/ \E h \in Hashes : AuthHit(r, h) \/ AuthMiss(r, h)
  \/ AuthLookup(r) \/ AuthLoadOwner(r) \/ AuthFill(r)
  \/ KeyHit(r) \/ KeyMiss(r) \/ KeyLookup(r)
  \/ Finish(r)

Administer(a) ==
  \/ \E op \in Ops, k \in Keys : AdminBegin(a, op, k)
  \/ AdminGet(a)
  \/ \E grace \in Graces : AdminRotate(a, grace)
  \/ AdminCommit(a) \/ AdminDelete(a) \/ AdminRefresh(a) \/ AdminInvalidate(a)

Next ==
  \/ \E r \in Requests : Authenticate(r)
  \/ \E a \in Admins : Administer(a)
  \/ \E k \in Keys, limit \in Limits, life \in Lifetimes \cup {Never} :
        GenerateKey(k, limit, life)
  \/ \E ids \in SUBSET Keys, limit \in Limits : BulkUpdate(ids, limit)
  \/ \E u \in Users : DeleteUser(u) \/ \E blocked \in BOOLEAN : BlockUser(u, blocked)
  \/ Tick

Spec == Init /\ [][Next]_vars
-----------------------------------------------------------------------------
(***************************************************************************)
(* Properties                                                              *)
(***************************************************************************)
TypeOK ==
  /\ now \in 0..MaxTime
  /\ row \in [Keys -> Row \cup {NoRow, GoneRow}]
  /\ user \in [Users -> UserStates]
  /\ issued \in 0..MaxHash
  /\ cache \in [Hashes -> Entry \cup {NoEntry}]
  /\ req \in [Requests -> Request]
  /\ task \in [Admins -> Task]

\* A request is admitted, refused, or handed limits on the strength of loaded
\* rows that were current less than CacheTTL + MaxFill ago, whatever changed
\* in between: a block, a deletion, a rotation, the end of a grace period, an
\* update, a reactivation, or the owner being blocked.
BoundedStaleness ==
  \A r \in Requests :
    req[r].pc \in {"authed", "key", "served", "refused"} /\ req[r].obj # NoObject =>
      \/ req[r].at <= req[r].obj.staleSince
      \/ req[r].at < req[r].obj.staleSince + CacheTTL + MaxFill

\* Expiry does not wait for the cache: no request is admitted on an object
\* whose row, as the table has it now, had expired at that moment.
ExpiryIsImmediate ==
  \A r \in Requests :
    LET obj == req[r].obj IN
    req[r].pc = "authed" /\ obj # NoObject /\ Present(obj.key) =>
      row[obj.key].expires >= req[r].at

Pending(k) == \E a \in Admins : task[a].key = k /\ task[a].pc # "idle"

\* Once block_key has returned, the only entry of the current hash that still
\* admits is one stored by a request that had read the row before a change
\* and filled the cache after it.
BlockClearsCurrentHash ==
  \A k \in Keys :
    Present(k) /\ row[k].blocked /\ ~Pending(k) =>
      LET e == cache[row[k].hash]
      IN  e = NoEntry \/ e.obj.row.blocked \/ e.bornStale

\* A key that was blocked stays blocked until an operation that is meant to
\* unblock it commits: a rotation or an update that loaded the row before the
\* block and commits after it does not write the old value back.
BlockIsNotOverwritten ==
  [][\A k \in Keys :
       Present(k) /\ row[k].blocked /\ row'[k] # GoneRow /\ ~row'[k].blocked =>
         \E a \in Admins : /\ task[a].key = k /\ task[a].pc = "commit"
                          /\ task[a].op \in {"unblock", "reactivate"}]_row

\* A rotation about to commit that may end the use of a hash: the one before
\* last, since the row keeps a single previous hash; that of another rotation
\* which committed since this one loaded the row; or the hash it replaces, when
\* the grace period is over by the time of the commit.
Retires(t, k, h) ==
  /\ t.key = k /\ t.pc = "commit" /\ t.op = "rotate"
  /\ \/ row[k].prev = h
     \/ t.copy.hash # row[k].hash
     \/ t.new.grace <= now

\* A hash that is accepted stays accepted through every operation but a deletion
\* and the rotations that may retire it, however operators overlap: the hash
\* that a rotation replaces keeps its grace period.
GraceIsKept ==
  [][\A k \in Keys, h \in Hashes :
       Accepts(k, h) /\ row'[k] # GoneRow =>
         \/ row'[k].hash = h
         \/ row'[k].prev = h /\ row'[k].grace > now
         \/ \E a \in Admins : Retires(task[a], k, h)]_row
=============================================================================
