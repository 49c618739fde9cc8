-------------------------- MODULE ApiKeyAuthProofs --------------------------
(***************************************************************************)
(* For every set of keys, users, requests and operators, every cache size  *)
(* and TTL: the types, and the bound on how stale a decision can be.       *)
(***************************************************************************)
EXTENDS ApiKeyAuth, TLAPS

USE ApiKeyAssumption

(***************************************************************************)
(* The inductive invariant follows a loaded object through its life.       *)
(***************************************************************************)

\* A request holds an object at the awaits where the code uses one; while it
\* waits to be stored, the object was read at most MaxFill ago and was current
\* when it was read; once decided on, it was current recently enough.
RequestOK(q, t) ==
  /\ q.pc \in {"owner", "fill"} =>
       /\ q.obj \in Object
       /\ q.readAt <= t /\ t <= q.readAt + MaxFill
       /\ q.readAt <= q.obj.staleSince
  /\ q.pc = "lookup" => q.obj = NoObject
  /\ q.at <= t
  /\ q.pc \in {"authed", "key", "served", "refused"} /\ q.obj # NoObject =>
       \/ q.at <= q.obj.staleSince
       \/ q.at < q.obj.staleSince + CacheTTL + MaxFill

\* A cached object is younger than the TTL, and was current at most MaxFill
\* before it was stored.
EntryOK(e, t) ==
  /\ e.filledAt <= t /\ t < e.filledAt + CacheTTL
  /\ e.filledAt <= e.obj.staleSince + MaxFill

\* An operation holds the row it loaded at the awaits where it uses it.
TaskOK(t) ==
  /\ t.pc = "get" => t.op \in Ops
  /\ t.pc \in {"apply", "commit", "invalidate"} => t.copy \in Row
  /\ t.pc = "commit" => t.new \in Row

DbInv ==
  /\ now \in 0..MaxTime
  /\ row \in [Keys -> Row \cup {NoRow, GoneRow}]
  /\ user \in [Users -> UserStates]
  /\ issued \in 0..MaxHash

ReqInv ==
  /\ req \in [Requests -> Request]
  /\ \A r \in Requests : RequestOK(req[r], now)

CacheInv ==
  /\ cache \in [Hashes -> Entry \cup {NoEntry}]
  /\ \A h \in Hashes : cache[h] # NoEntry => EntryOK(cache[h], now)

TaskInv ==
  /\ task \in [Admins -> Task]
  /\ \A a \in Admins : TaskOK(task[a])

IInv == DbInv /\ ReqInv /\ CacheInv /\ TaskInv

LEMMA IInvImplies == IInv => TypeOK /\ BoundedStaleness
  BY DEF IInv, DbInv, ReqInv, CacheInv, TaskInv, TypeOK, BoundedStaleness, RequestOK

(***************************************************************************)
(* Lemmas on the operators.                                                *)
(***************************************************************************)

\* What a change of rows does to a loaded object: it closes its history, or
\* nothing.
Aged(old, new) ==
  \/ new = old
  \/ old # NoObject /\ old \in Object /\ new \in Object /\ new.staleSince = now

LEMMA OutdatedAges ==
  ASSUME now \in 0..MaxTime, NEW obj \in Object \cup {NoObject}, NEW S
  PROVE  Aged(obj, Outdated(obj, S))
  BY DEF Aged, Outdated, Object, Times

LEMMA OutdatedByUserAges ==
  ASSUME now \in 0..MaxTime, NEW obj \in Object \cup {NoObject}, NEW u
  PROVE  Aged(obj, OutdatedByUser(obj, u))
  BY DEF Aged, OutdatedByUser, Object, Times

LEMMA EditsType ==
  ASSUME NEW op \in Ops, NEW copy \in Row, NEW new \in Edits(op, copy)
  PROVE  new \in Row
  <1>1. Never \in Times
    BY DEF Times
  <1>2. CASE op = "block"
    BY <1>2 DEF Edits, Row
  <1>3. CASE op = "unblock"
    BY <1>3 DEF Edits, Row
  <1>4. CASE op = "reactivate"
    BY <1>1, <1>4 DEF Edits, Row
  <1>5. CASE op = "update"
    BY <1>5 DEF Edits, Row
  <1>6. CASE op \in {"delete", "rotate"}
    BY <1>6 DEF Edits
  <1>7. QED
    BY <1>2, <1>3, <1>4, <1>5, <1>6

LEMMA RotatedType ==
  ASSUME NEW copy \in Row, NEW h \in Hashes, NEW g \in Graces, now \in 0..MaxTime
  PROVE  Rotated(copy, h, g) \in Row
  <1>1. now + g \in Times
    BY DEF Times
  <1>2. QED
    BY <1>1 DEF Rotated, Row

LEMMA MergedType ==
  ASSUME NEW current \in Row, NEW copy \in Row, NEW new \in Row
  PROVE  Merged(current, copy, new) \in Row
  BY DEF Merged, Row

LEMMA IdleTaskOK ==
  ASSUME NEW k \in Keys
  PROVE  IdleTask(k) \in Task /\ TaskOK(IdleTask(k))
  BY DEF IdleTask, Task, TaskOK

LEMMA IdleRequestOK == \A t \in Nat : IdleRequest \in Request /\ RequestOK(IdleRequest, t)
  BY DEF IdleRequest, Request, RequestOK, Hashes

(***************************************************************************)
(* Each part of the invariant is kept by what an action can do to it.      *)
(***************************************************************************)

\* One request moves.
LEMMA ReqStep ==
  ASSUME ReqInv, UNCHANGED now, NEW r \in Requests, NEW q \in Request,
         RequestOK(q, now), req' = [req EXCEPT ![r] = q]
  PROVE  ReqInv'
  <1>1. \A s \in Requests : req'[s] = IF s = r THEN q ELSE req[s]
    BY DEF ReqInv
  <1>2. req' \in [Requests -> Request]
    BY DEF ReqInv
  <1>3. \A s \in Requests : RequestOK(req'[s], now)
    BY <1>1 DEF ReqInv
  <1>4. QED
    BY <1>2, <1>3 DEF ReqInv

\* A request decides on an object that was current recently.
LEMMA DecidedStep ==
  ASSUME ReqInv, now \in 0..MaxTime, NEW r \in Requests, NEW h \in Hashes, NEW obj \in Object,
         now < obj.staleSince + CacheTTL + MaxFill
  PROVE  Decided(r, h, obj) \in Request /\ RequestOK(Decided(r, h, obj), now)
  <1>1. req[r] \in Request
    BY DEF ReqInv
  <1>2. 0 \in 0..MaxTime
    OBVIOUS
  <1>3. Decided(r, h, obj) \in Request
    BY <1>1, <1>2 DEF Decided, Request
  <1>4. /\ Decided(r, h, obj).pc \in {"authed", "refused"}
        /\ Decided(r, h, obj).obj = obj /\ Decided(r, h, obj).at = now
    BY <1>1 DEF Decided, Request
  <1>5. QED
    BY <1>3, <1>4 DEF RequestOK

\* An entry is dropped, or one that is in order is stored.
LEMMA CacheStep ==
  ASSUME CacheInv, UNCHANGED now, NEW new \in [Hashes -> Entry \cup {NoEntry}],
         cache' = new,
         \A h \in Hashes : \/ new[h] = cache[h] \/ new[h] = NoEntry
                           \/ EntryOK(new[h], now)
  PROVE  CacheInv'
  BY DEF CacheInv

\* One operation moves.
LEMMA TaskStep ==
  ASSUME TaskInv, NEW a \in Admins, NEW t \in Task, TaskOK(t),
         task' = [task EXCEPT ![a] = t]
  PROVE  TaskInv'
  <1>1. \A b \in Admins : task'[b] = IF b = a THEN t ELSE task[b]
    BY DEF TaskInv
  <1>2. QED
    BY <1>1 DEF TaskInv

\* Loaded objects are outdated by a statement: requests ...
LEMMA ReqAges ==
  ASSUME DbInv, ReqInv, UNCHANGED now,
         NEW f \in [Requests -> Object \cup {NoObject}],
         \A r \in Requests : Aged(req[r].obj, f[r]),
         req' = [r \in Requests |-> [req[r] EXCEPT !.obj = f[r]]]
  PROVE  ReqInv'
  <1>1. now \in Nat
    BY DEF DbInv
  <1>2. ASSUME NEW r \in Requests
        PROVE  req'[r] \in Request /\ RequestOK(req'[r], now)
    <2>1. req[r] \in Request /\ RequestOK(req[r], now) /\ Aged(req[r].obj, f[r])
      BY DEF ReqInv
    <2>2. req'[r] = [req[r] EXCEPT !.obj = f[r]]
      OBVIOUS
    <2>3. req'[r] \in Request
      BY <2>1, <2>2 DEF Request
    <2>4. /\ req'[r].pc = req[r].pc /\ req'[r].obj = f[r]
          /\ req'[r].readAt = req[r].readAt /\ req'[r].at = req[r].at
      BY <2>1, <2>2 DEF Request
    <2>5. CASE f[r] = req[r].obj
      BY <2>1, <2>3, <2>4, <2>5 DEF RequestOK
    <2>6. CASE req[r].obj # NoObject /\ f[r] \in Object /\ f[r].staleSince = now
      BY <1>1, <2>1, <2>3, <2>4, <2>6 DEF RequestOK
    <2>7. QED
      BY <2>1, <2>3, <2>5, <2>6 DEF Aged
  <1>3. DOMAIN req' = Requests /\ req' = [r \in Requests |-> req'[r]]
    OBVIOUS
  <1>4. QED
    BY <1>2, <1>3 DEF ReqInv

\* ... and the cache.
LEMMA CacheAges ==
  ASSUME DbInv, CacheInv, UNCHANGED now,
         NEW f \in [{h \in Hashes : cache[h] # NoEntry} -> Object],
         \A h \in Hashes : cache[h] # NoEntry => Aged(cache[h].obj, f[h]),
         cache' = [h \in Hashes |-> IF cache[h] = NoEntry THEN NoEntry
                                    ELSE [cache[h] EXCEPT !.obj = f[h]]]
  PROVE  CacheInv'
  <1>1. now \in Nat
    BY DEF DbInv
  <1>2. ASSUME NEW h \in Hashes, cache[h] # NoEntry
        PROVE  cache'[h] \in Entry /\ EntryOK(cache'[h], now)
    <2>1. cache[h] \in Entry /\ EntryOK(cache[h], now) /\ Aged(cache[h].obj, f[h])
      BY <1>2 DEF CacheInv
    <2>2. cache'[h] = [cache[h] EXCEPT !.obj = f[h]] /\ f[h] \in Object
      BY <1>2
    <2>3. cache'[h] \in Entry
      BY <2>1, <2>2 DEF Entry
    <2>4. cache'[h].obj = f[h] /\ cache'[h].filledAt = cache[h].filledAt
      BY <2>1, <2>2 DEF Entry
    <2>5. CASE f[h] = cache[h].obj
      BY <2>1, <2>3, <2>4, <2>5 DEF EntryOK
    <2>6. CASE f[h].staleSince = now
      <3>1. cache[h].filledAt \in Nat
        BY <2>1 DEF Entry
      <3>2. QED
        BY <1>1, <2>1, <2>3, <2>4, <2>6, <3>1 DEF EntryOK
    <2>7. QED
      BY <2>1, <2>3, <2>5, <2>6 DEF Aged
  <1>3. \A h \in Hashes : cache[h] = NoEntry => cache'[h] = NoEntry
    OBVIOUS
  <1>4. cache' = [h \in Hashes |-> cache'[h]]
    OBVIOUS
  <1>5. cache' \in [Hashes -> Entry \cup {NoEntry}]
    BY <1>2, <1>3, <1>4
  <1>6. QED
    BY <1>2, <1>3, <1>5 DEF CacheInv

(***************************************************************************)
(* The statements that change rows.                                        *)
(***************************************************************************)
LEMMA ChangeRowsStep ==
  ASSUME DbInv, ReqInv, CacheInv, UNCHANGED <<now, user>>, issued' \in 0..MaxHash,
         NEW new \in [Keys -> Row \cup {NoRow, GoneRow}], ChangeRows(new)
  PROVE  DbInv' /\ ReqInv' /\ CacheInv'
  <1> DEFINE changed == {k \in Keys : new[k] # row[k]}
             f == [r \in Requests |-> Outdated(req[r].obj, changed)]
             g == [h \in {h \in Hashes : cache[h] # NoEntry} |->
                     Outdated(cache[h].obj, changed)]
  <1>1. DbInv'
    BY DEF DbInv, ChangeRows
  <1>2. /\ \A r \in Requests : req[r].obj \in Object \cup {NoObject}
        /\ \A h \in Hashes : cache[h] # NoEntry => cache[h].obj \in Object
    BY DEF ReqInv, CacheInv, Request, Entry
  <1>3. /\ \A r \in Requests : Aged(req[r].obj, Outdated(req[r].obj, changed))
        /\ \A h \in Hashes : cache[h] # NoEntry =>
              Aged(cache[h].obj, Outdated(cache[h].obj, changed))
    <2> HIDE DEF changed
    <2>1. now \in 0..MaxTime
      BY DEF DbInv
    <2>2. QED
      BY <1>2, <2>1, OutdatedAges
  <1> HIDE DEF changed
  <1>4. f \in [Requests -> Object \cup {NoObject}]
    BY <1>2, <1>3 DEF Aged
  <1>5. g \in [{h \in Hashes : cache[h] # NoEntry} -> Object]
    BY <1>2, <1>3 DEF Aged
  <1>6. req' = [r \in Requests |-> [req[r] EXCEPT !.obj = f[r]]]
    BY DEF ChangeRows, changed
  <1>7. cache' = [h \in Hashes |-> IF cache[h] = NoEntry THEN NoEntry
                                   ELSE [cache[h] EXCEPT !.obj = g[h]]]
    BY DEF ChangeRows, changed
  <1>8. ReqInv'
    BY <1>3, <1>4, <1>6, ReqAges
  <1>9. CacheInv'
    BY <1>3, <1>5, <1>7, CacheAges
  <1>10. QED
    BY <1>1, <1>8, <1>9

LEMMA ChangeUserStep ==
  ASSUME DbInv, ReqInv, CacheInv, UNCHANGED <<now, row, issued>>,
         NEW u \in Users, NEW state \in UserStates, ChangeUser(u, state)
  PROVE  DbInv' /\ ReqInv' /\ CacheInv'
  <1> DEFINE f == [r \in Requests |-> OutdatedByUser(req[r].obj, u)]
             g == [h \in {h \in Hashes : cache[h] # NoEntry} |->
                     OutdatedByUser(cache[h].obj, u)]
  <1>1. DbInv'
    BY DEF DbInv, ChangeUser
  <1>2. /\ \A r \in Requests : req[r].obj \in Object \cup {NoObject}
        /\ \A h \in Hashes : cache[h] # NoEntry => cache[h].obj \in Object
    BY DEF ReqInv, CacheInv, Request, Entry
  <1>3. /\ \A r \in Requests : Aged(req[r].obj, OutdatedByUser(req[r].obj, u))
        /\ \A h \in Hashes : cache[h] # NoEntry =>
              Aged(cache[h].obj, OutdatedByUser(cache[h].obj, u))
    <2>1. now \in 0..MaxTime
      BY DEF DbInv
    <2>2. QED
      BY <1>2, <2>1, OutdatedByUserAges
  <1>4. f \in [Requests -> Object \cup {NoObject}]
    BY <1>2, <1>3 DEF Aged
  <1>5. g \in [{h \in Hashes : cache[h] # NoEntry} -> Object]
    BY <1>2, <1>3 DEF Aged
  <1>6. req' = [r \in Requests |-> [req[r] EXCEPT !.obj = f[r]]]
    BY DEF ChangeUser
  <1>7. cache' = [h \in Hashes |-> IF cache[h] = NoEntry THEN NoEntry
                                   ELSE [cache[h] EXCEPT !.obj = g[h]]]
    BY DEF ChangeUser
  <1>8. ReqInv'
    BY <1>3, <1>4, <1>6, ReqAges
  <1>9. CacheInv'
    BY <1>3, <1>5, <1>7, CacheAges
  <1>10. QED
    BY <1>1, <1>8, <1>9

(***************************************************************************)
(* Authentication.                                                         *)
(***************************************************************************)
LEMMA AuthHitStep ==
  ASSUME IInv, NEW r \in Requests, NEW h \in Hashes, AuthHit(r, h)
  PROVE  IInv'
  <1>1. cache[h] \in Entry /\ EntryOK(cache[h], now)
    BY DEF IInv, CacheInv, AuthHit
  <1>2. /\ cache[h].obj \in Object
        /\ now < cache[h].obj.staleSince + CacheTTL + MaxFill
    <2>1. /\ cache[h].obj \in Object /\ cache[h].obj.staleSince \in Nat
          /\ cache[h].filledAt \in Nat /\ now \in Nat
      BY <1>1 DEF Entry, Object, Times, IInv, DbInv
    <2>2. QED
      BY <1>1, <2>1 DEF EntryOK
  <1>3. ReqInv'
    <2>1. Decided(r, h, cache[h].obj) \in Request /\ RequestOK(Decided(r, h, cache[h].obj), now)
      BY <1>2, DecidedStep DEF IInv, DbInv
    <2>2. QED
      BY <2>1, ReqStep DEF IInv, AuthHit
  <1>4. CacheInv'
    BY DEF AuthHit, AfterHit, IInv, CacheInv
  <1>5. QED
    BY <1>3, <1>4 DEF IInv, AuthHit, DbInv, TaskInv

LEMMA AuthMissStep ==
  ASSUME IInv, NEW r \in Requests, NEW h \in Hashes, AuthMiss(r, h)
  PROVE  IInv'
  <1> DEFINE q == [IdleRequest EXCEPT !.pc = "lookup", !.hash = h]
  <1>1. /\ IdleRequest \in Request /\ now \in Nat
        /\ IdleRequest.obj = NoObject /\ IdleRequest.at = 0
    BY IdleRequestOK DEF IdleRequest, IInv, DbInv
  <1>2. q \in Request /\ q.pc = "lookup" /\ q.obj = NoObject /\ q.at = 0
    BY <1>1 DEF Request
  <1>3. req' = [req EXCEPT ![r] = q]
    BY DEF AuthMiss
  <1> HIDE DEF q
  <1>4. RequestOK(q, now)
    BY <1>1, <1>2 DEF RequestOK
  <1>5. ReqInv'
    BY <1>2, <1>3, <1>4, ReqStep DEF IInv, AuthMiss
  <1>6. QED
    BY <1>5 DEF IInv, AuthMiss, DbInv, CacheInv, TaskInv

LEMMA AuthLookupStep ==
  ASSUME IInv, NEW r \in Requests, AuthLookup(r)
  PROVE  IInv'
  <1>1. req[r] \in Request /\ now \in 0..MaxTime /\ Never \in Times /\ RequestOK(req[r], now)
    BY DEF IInv, ReqInv, DbInv, Times
  <1>2. ASSUME NEW k \in Keys, Accepts(k, req[r].hash),
               req' = [req EXCEPT ![r].pc = "owner", ![r].readAt = now,
                         ![r].obj = [key |-> k, row |-> row[k], owner |-> "unread",
                                     staleSince |-> Never]]
        PROVE  ReqInv'
    <2> DEFINE o == [key |-> k, row |-> row[k], owner |-> "unread", staleSince |-> Never]
               q == [req[r] EXCEPT !.pc = "owner", !.readAt = now, !.obj = o]
    <2>1. o \in Object /\ o.staleSince = Never
      BY <1>1, <1>2 DEF Object, Accepts, IInv, DbInv
    <2>2. q.pc = "owner" /\ q.readAt = now /\ q.obj = o /\ q.at = req[r].at
      BY <1>1 DEF Request
    <2>3. q \in Request
      <3> HIDE DEF o
      <3> QED BY <1>1, <2>1 DEF Request
    <2>4. req' = [req EXCEPT ![r] = q]
      BY <1>2 DEF IInv, ReqInv
    <2>5. RequestOK(q, now)
      <3> HIDE DEF o, q
      <3> QED BY <1>1, <2>1, <2>2 DEF RequestOK
    <2>6. QED
      <3> HIDE DEF q
      <3> QED BY <2>3, <2>4, <2>5, ReqStep DEF IInv, AuthLookup
  <1>3. ASSUME req' = [req EXCEPT ![r].pc = "refused", ![r].at = now]
        PROVE  ReqInv'
    <2> DEFINE q == [req[r] EXCEPT !.pc = "refused", !.at = now]
    <2>1. q \in Request /\ q.pc = "refused" /\ q.at = now /\ q.obj = req[r].obj
      BY <1>1 DEF Request
    <2>2. RequestOK(q, now)
      <3>1. req[r].obj = NoObject /\ now \in Nat
        BY <1>1 DEF AuthLookup, RequestOK
      <3> HIDE DEF q
      <3> QED BY <2>1, <3>1 DEF RequestOK
    <2>3. req' = [req EXCEPT ![r] = q]
      BY <1>3 DEF IInv, ReqInv
    <2>4. QED
      <3> HIDE DEF q
      <3> QED BY <2>1, <2>2, <2>3, ReqStep DEF IInv, AuthLookup
  <1>4. QED
    BY <1>2, <1>3 DEF AuthLookup, IInv, DbInv, CacheInv, TaskInv

LEMMA AuthLoadOwnerStep ==
  ASSUME IInv, NEW r \in Requests, AuthLoadOwner(r)
  PROVE  IInv'
  <1>1. /\ req[r] \in Request /\ RequestOK(req[r], now)
        /\ req[r].pc = "owner" /\ req[r].obj \in Object
    BY DEF IInv, ReqInv, AuthLoadOwner, RequestOK
  <1> DEFINE o == [req[r].obj EXCEPT !.owner = user[Owner[req[r].obj.key]]]
             q == [req[r] EXCEPT !.pc = "fill", !.obj = o]
  <1>2. o \in Object /\ o.staleSince = req[r].obj.staleSince
    BY <1>1 DEF Object, IInv, DbInv
  <1>3. req' = [req EXCEPT ![r] = q]
    <2>1. req' = [req EXCEPT ![r] = [[req[r] EXCEPT !.pc = "fill"] EXCEPT !.obj.owner = user[Owner[req[r].obj.key]]]]
      BY DEF AuthLoadOwner, IInv, ReqInv
    <2>2. [[req[r] EXCEPT !.pc = "fill"] EXCEPT !.obj.owner = user[Owner[req[r].obj.key]]] = q
      BY <1>1 DEF Request
    <2>3. QED
      BY <2>1, <2>2
  <1> HIDE DEF o
  <1>4. /\ q \in Request /\ q.pc = "fill" /\ q.obj = o
        /\ q.readAt = req[r].readAt /\ q.at = req[r].at
    BY <1>1, <1>2 DEF Request
  <1> HIDE DEF q
  <1>5. RequestOK(q, now)
    BY <1>1, <1>2, <1>4 DEF RequestOK
  <1>6. ReqInv'
    BY <1>3, <1>4, <1>5, ReqStep DEF IInv, AuthLoadOwner
  <1>7. QED
    BY <1>6 DEF IInv, AuthLoadOwner, DbInv, CacheInv, TaskInv

LEMMA AuthFillStep ==
  ASSUME IInv, NEW r \in Requests, AuthFill(r)
  PROVE  IInv'
  <1>1. /\ req[r] \in Request /\ RequestOK(req[r], now)
        /\ req[r].pc = "fill" /\ req[r].obj \in Object
        /\ req[r].hash \in Hashes /\ now \in 0..MaxTime
    BY DEF IInv, ReqInv, DbInv, AuthFill, RequestOK, Request
  <1> DEFINE o == req[r].obj
             h == req[r].hash
             e == [obj |-> o, filledAt |-> now, bornStale |-> o.staleSince # Never]
  <1>2. o.staleSince \in Nat /\ req[r].readAt \in Nat
    BY <1>1 DEF Object, Times, Request
  <1>3. /\ now <= o.staleSince + MaxFill
        /\ now < o.staleSince + CacheTTL + MaxFill
    BY <1>1, <1>2 DEF RequestOK
  <1>4. e \in Entry /\ e.filledAt = now /\ e.obj = o
    BY <1>1 DEF Entry
  <1>5. EntryOK(e, now)
    <2> HIDE DEF e
    <2> QED BY <1>1, <1>3, <1>4 DEF EntryOK
  <1>6. CacheInv'
    <2> HIDE DEF e
    <2>1. cache' = [cache EXCEPT ![h] = e]
          \/ \E v \in Hashes : cache' = [cache EXCEPT ![v] = NoEntry, ![h] = e]
      BY DEF AuthFill, Store, Occupied, e
    <2>2. cache \in [Hashes -> Entry \cup {NoEntry}]
      BY DEF IInv, CacheInv
    <2>3. /\ cache' \in [Hashes -> Entry \cup {NoEntry}]
          /\ \A j \in Hashes : cache'[j] \in {cache[j], NoEntry, e}
      BY <1>1, <1>4, <2>1, <2>2
    <2>4. QED
      BY <1>5, <2>3, CacheStep DEF IInv, AuthFill
  <1>7. ReqInv'
    <2>1. Decided(r, h, o) \in Request /\ RequestOK(Decided(r, h, o), now)
      BY <1>1, <1>3, DecidedStep DEF IInv
    <2>2. QED
      BY <2>1, ReqStep DEF IInv, AuthFill
  <1>8. QED
    BY <1>6, <1>7 DEF IInv, AuthFill, DbInv, TaskInv

LEMMA KeyHitStep ==
  ASSUME IInv, NEW r \in Requests, KeyHit(r)
  PROVE  IInv'
  <1> DEFINE o == cache[req[r].hash].obj
             q == [req[r] EXCEPT !.pc = "served", !.obj = o, !.at = now]
  <1>1. /\ req[r] \in Request /\ req[r].hash \in Hashes /\ now \in 0..MaxTime
    BY DEF IInv, ReqInv, DbInv, Request
  <1>2. cache[req[r].hash] \in Entry /\ EntryOK(cache[req[r].hash], now)
    BY <1>1 DEF IInv, CacheInv, KeyHit
  <1>3. o \in Object /\ now < o.staleSince + CacheTTL + MaxFill
    <2>1. /\ o \in Object /\ o.staleSince \in Nat
          /\ cache[req[r].hash].filledAt \in Nat
      BY <1>2 DEF Entry, Object, Times
    <2>2. QED
      BY <1>1, <1>2, <2>1 DEF EntryOK
  <1>4. req' = [req EXCEPT ![r] = q]
    BY DEF KeyHit, IInv, ReqInv
  <1> HIDE DEF o
  <1>5. q \in Request /\ q.pc = "served" /\ q.obj = o /\ q.at = now
    BY <1>1, <1>3 DEF Request
  <1> HIDE DEF q
  <1>6. RequestOK(q, now)
    BY <1>1, <1>3, <1>5 DEF RequestOK
  <1>7. ReqInv'
    BY <1>4, <1>5, <1>6, ReqStep DEF IInv, KeyHit
  <1>8. CacheInv'
    BY DEF KeyHit, AfterHit, IInv, CacheInv
  <1>9. QED
    BY <1>7, <1>8 DEF IInv, KeyHit, DbInv, TaskInv

LEMMA KeyMissStep ==
  ASSUME IInv, NEW r \in Requests, KeyMiss(r)
  PROVE  IInv'
  <1> DEFINE q == [req[r] EXCEPT !.pc = "key"]
  <1>1. req[r] \in Request /\ RequestOK(req[r], now) /\ req[r].pc = "authed"
    BY DEF IInv, ReqInv, KeyMiss
  <1>2. q \in Request /\ q.pc = "key" /\ q.obj = req[r].obj /\ q.at = req[r].at
    BY <1>1 DEF Request
  <1>3. req' = [req EXCEPT ![r] = q]
    BY DEF KeyMiss, IInv, ReqInv
  <1> HIDE DEF q
  <1>4. RequestOK(q, now)
    BY <1>1, <1>2 DEF RequestOK
  <1>5. ReqInv'
    BY <1>2, <1>3, <1>4, ReqStep DEF IInv, KeyMiss
  <1>6. QED
    BY <1>5 DEF IInv, KeyMiss, DbInv, CacheInv, TaskInv

LEMMA KeyLookupStep ==
  ASSUME IInv, NEW r \in Requests, KeyLookup(r)
  PROVE  IInv'
  <1>1. req[r] \in Request /\ now \in 0..MaxTime /\ Never \in Times /\ now <= Never
    BY DEF IInv, ReqInv, DbInv, Times
  <1>2. PICK o \in Object \cup {NoObject} :
          /\ o # NoObject => o.staleSince = Never
          /\ req' = [req EXCEPT ![r].pc = "served", ![r].at = now, ![r].obj = o]
    <2>1. CASE \E k \in Keys :
                 /\ Accepts(k, req[r].hash)
                 /\ req' = [req EXCEPT ![r].pc = "served", ![r].at = now,
                              ![r].obj = [key |-> k, row |-> row[k], owner |-> "unread",
                                          staleSince |-> Never]]
      <3>1. PICK k \in Keys :
                 /\ Accepts(k, req[r].hash)
                 /\ req' = [req EXCEPT ![r].pc = "served", ![r].at = now,
                              ![r].obj = [key |-> k, row |-> row[k], owner |-> "unread",
                                          staleSince |-> Never]]
        BY <2>1
      <3> DEFINE n == [key |-> k, row |-> row[k], owner |-> "unread", staleSince |-> Never]
      <3>2. n \in Object /\ n.staleSince = Never
        BY <1>1, <3>1 DEF Object, Accepts, IInv, DbInv
      <3>3. QED
        BY <3>1, <3>2
    <2>2. CASE req' = [req EXCEPT ![r].pc = "served", ![r].at = now, ![r].obj = NoObject]
      BY <2>2
    <2>3. QED
      BY <2>1, <2>2 DEF KeyLookup
  <1> DEFINE q == [req[r] EXCEPT !.pc = "served", !.at = now, !.obj = o]
  <1>3. req' = [req EXCEPT ![r] = q]
    BY <1>2 DEF IInv, ReqInv
  <1>4. q \in Request /\ q.pc = "served" /\ q.obj = o /\ q.at = now
    BY <1>1, <1>2 DEF Request
  <1> HIDE DEF q
  <1>5. RequestOK(q, now)
    BY <1>1, <1>2, <1>4 DEF RequestOK
  <1>6. ReqInv'
    BY <1>3, <1>4, <1>5, ReqStep DEF IInv, KeyLookup
  <1>7. QED
    BY <1>6 DEF IInv, KeyLookup, DbInv, CacheInv, TaskInv

LEMMA FinishStep ==
  ASSUME IInv, NEW r \in Requests, Finish(r)
  PROVE  IInv'
  <1>1. IdleRequest \in Request /\ RequestOK(IdleRequest, now)
    BY IdleRequestOK DEF IInv, DbInv
  <1>2. ReqInv'
    BY <1>1, ReqStep DEF IInv, Finish
  <1>3. QED
    BY <1>2 DEF IInv, Finish, DbInv, CacheInv, TaskInv

(***************************************************************************)
(* Key operations.                                                         *)
(***************************************************************************)
LEMMA GenerateKeyStep ==
  ASSUME IInv, NEW k \in Keys, NEW limit \in Limits, NEW life \in Lifetimes \cup {Never},
         GenerateKey(k, limit, life)
  PROVE  IInv'
  <1> DEFINE rec == [hash |-> issued + 1, prev |-> NoHash, grace |-> Never, blocked |-> FALSE,
                     expires |-> IF life = Never THEN Never ELSE now + life, limit |-> limit]
             new == [row EXCEPT ![k] = rec]
  <1>1. now \in 0..MaxTime /\ issued \in 0..MaxHash /\ issued < MaxHash
    BY DEF IInv, DbInv, GenerateKey
  <1>2. issued + 1 \in Hashes /\ Never \in Times
        /\ (life # Never => now + life \in Times)
    BY <1>1 DEF Hashes, Times
  <1>3. rec \in Row
    BY <1>2 DEF Row
  <1>4. ChangeRows(new) /\ issued' \in 0..MaxHash /\ UNCHANGED <<now, user, task>>
    BY <1>1 DEF GenerateKey
  <1> HIDE DEF rec
  <1>5. new \in [Keys -> Row \cup {NoRow, GoneRow}]
    BY <1>3 DEF IInv, DbInv
  <1> HIDE DEF new
  <1>6. DbInv' /\ ReqInv' /\ CacheInv'
    BY <1>4, <1>5, ChangeRowsStep DEF IInv
  <1>7. QED
    BY <1>4, <1>6 DEF IInv, TaskInv

LEMMA AdminBeginStep ==
  ASSUME IInv, NEW a \in Admins, NEW op \in Ops, NEW k \in Keys, AdminBegin(a, op, k)
  PROVE  IInv'
  <1> DEFINE t == [IdleTask(k) EXCEPT !.pc = "get", !.op = op]
  <1>1. IdleTask(k) \in Task
    BY IdleTaskOK
  <1>2. t \in Task /\ t.pc = "get" /\ t.op \in Ops
    BY <1>1 DEF Task
  <1>3. TaskOK(t)
    BY <1>2 DEF TaskOK
  <1>4. task' = [task EXCEPT ![a] = t]
    BY DEF AdminBegin
  <1> HIDE DEF t
  <1>5. TaskInv'
    BY <1>2, <1>3, <1>4, TaskStep DEF IInv
  <1>6. QED
    BY <1>5 DEF IInv, AdminBegin, DbInv, ReqInv, CacheInv

\* An operation that ends, and leaves the requests and the cache alone.
LEMMA ReturnStep ==
  ASSUME TaskInv, NEW a \in Admins, task' = [task EXCEPT ![a] = IdleTask(task[a].key)]
  PROVE  TaskInv'
  <1>1. task[a].key \in Keys
    BY DEF TaskInv, Task
  <1>2. IdleTask(task[a].key) \in Task /\ TaskOK(IdleTask(task[a].key))
    BY <1>1, IdleTaskOK
  <1>3. QED
    BY <1>2, TaskStep

LEMMA AdminGetStep ==
  ASSUME IInv, NEW a \in Admins, AdminGet(a)
  PROVE  IInv'
  <1>1. task[a] \in Task /\ task[a].pc = "get" /\ task[a].key \in Keys
    BY DEF IInv, TaskInv, Task, AdminGet
  <1>2. CASE task' = [task EXCEPT ![a] = IdleTask(task[a].key)]
    <2>1. TaskInv'
      BY <1>2, ReturnStep DEF IInv
    <2>2. QED
      BY <2>1 DEF IInv, AdminGet, DbInv, ReqInv, CacheInv
  <1>3. ASSUME Present(task[a].key), NEW new \in Edits(task[a].op, row[task[a].key]),
               task' = [task EXCEPT ![a].copy = row[task[a].key], ![a].new = new,
                          ![a].pc = IF task[a].op = "rotate" THEN "apply" ELSE "commit"]
        PROVE  IInv'
    <2> DEFINE k == task[a].key
               t == [task[a] EXCEPT !.copy = row[k], !.new = new,
                       !.pc = IF task[a].op = "rotate" THEN "apply" ELSE "commit"]
    <2>1. row[k] \in Row
      BY <1>3 DEF Present
    <2>2. new \in Row
      <3>1. task[a].op \in Ops
        BY <1>1 DEF IInv, TaskInv, TaskOK
      <3>2. QED
        BY <1>3, <2>1, <3>1, EditsType
    <2>3. t \in Task /\ t.copy = row[k] /\ t.new = new /\ t.pc \in {"apply", "commit"}
      BY <1>1, <2>1, <2>2 DEF Task
    <2>4. task' = [task EXCEPT ![a] = t]
      BY <1>3 DEF IInv, TaskInv
    <2> HIDE DEF t
    <2>5. TaskOK(t)
      BY <2>1, <2>2, <2>3 DEF TaskOK
    <2>6. TaskInv'
      BY <2>3, <2>4, <2>5, TaskStep DEF IInv
    <2>7. QED
      BY <2>6 DEF IInv, AdminGet, DbInv, ReqInv, CacheInv
  <1>4. QED
    BY <1>2, <1>3 DEF AdminGet

LEMMA AdminRotateStep ==
  ASSUME IInv, NEW a \in Admins, NEW grace \in Graces, AdminRotate(a, grace)
  PROVE  IInv'
  <1>1. /\ task[a] \in Task /\ task[a].copy \in Row
        /\ now \in 0..MaxTime /\ issued + 1 \in Hashes /\ issued' \in 0..MaxHash
    BY DEF IInv, DbInv, TaskInv, TaskOK, AdminRotate, Hashes
  <1> DEFINE new == Rotated(task[a].copy, issued + 1, grace)
             t == [task[a] EXCEPT !.pc = "commit", !.new = new]
  <1>2. new \in Row
    BY <1>1, RotatedType
  <1>3. task' = [task EXCEPT ![a] = t]
    BY DEF AdminRotate, IInv, TaskInv
  <1> HIDE DEF new
  <1>4. t \in Task /\ t.pc = "commit" /\ t.copy = task[a].copy /\ t.new = new
    BY <1>1, <1>2 DEF Task
  <1> HIDE DEF t
  <1>5. TaskInv'
    BY <1>1, <1>2, <1>3, <1>4, TaskStep DEF IInv, TaskOK
  <1>6. CacheInv'
    BY DEF AdminRotate, Invalidate, IInv, CacheInv
  <1>7. QED
    BY <1>1, <1>5, <1>6 DEF IInv, AdminRotate, DbInv, ReqInv

LEMMA AdminCommitStep ==
  ASSUME IInv, NEW a \in Admins, AdminCommit(a)
  PROVE  IInv'
  <1> DEFINE k == task[a].key
             t == [IdleTask(k) EXCEPT !.pc = "refresh", !.op = task[a].op]
  <1>1. /\ task[a] \in Task /\ k \in Keys
        /\ task[a].copy \in Row /\ task[a].new \in Row
        /\ task[a].op \in Ops \cup {"none"}
        /\ UNCHANGED <<now, user, issued>> /\ issued' \in 0..MaxHash
    BY DEF IInv, DbInv, TaskInv, TaskOK, Task, AdminCommit
  <1>2. t \in Task /\ t.pc = "refresh"
    BY <1>1, IdleTaskOK DEF Task
  <1>3. task' = [task EXCEPT ![a] = t] \/ task' = [task EXCEPT ![a] = IdleTask(task[a].key)]
    BY DEF AdminCommit
  <1>4. TaskInv'
    <2> HIDE DEF t, k
    <2>1. TaskOK(t)
      BY <1>2 DEF TaskOK
    <2>2. CASE task' = [task EXCEPT ![a] = t]
      BY <1>2, <2>1, <2>2, TaskStep DEF IInv
    <2>3. CASE task' = [task EXCEPT ![a] = IdleTask(task[a].key)]
      BY <2>3, ReturnStep DEF IInv
    <2>4. QED
      BY <1>3, <2>2, <2>3
  <1>5. CASE UNCHANGED <<row, cache, req>>
    BY <1>1, <1>4, <1>5 DEF IInv, DbInv, ReqInv, CacheInv
  <1>6. CASE /\ Present(k)
             /\ ChangeRows([row EXCEPT ![k] = Merged(@, task[a].copy, task[a].new)])
    <2> DEFINE m == Merged(row[k], task[a].copy, task[a].new)
               new == [row EXCEPT ![k] = m]
    <2>1. m \in Row
      BY <1>1, <1>6, MergedType DEF Present
    <2>2. ChangeRows(new)
      BY <1>6
    <2> HIDE DEF m
    <2>3. new \in [Keys -> Row \cup {NoRow, GoneRow}]
      BY <2>1 DEF IInv, DbInv
    <2> HIDE DEF new
    <2>4. DbInv' /\ ReqInv' /\ CacheInv'
      BY <1>1, <2>2, <2>3, ChangeRowsStep DEF IInv
    <2>5. QED
      BY <1>4, <2>4 DEF IInv
  <1>7. QED
    BY <1>5, <1>6 DEF AdminCommit

LEMMA AdminDeleteStep ==
  ASSUME IInv, NEW a \in Admins, AdminDelete(a)
  PROVE  IInv'
  <1> DEFINE new == [row EXCEPT ![task[a].key] = GoneRow]
  <1>1. /\ ChangeRows(new) /\ UNCHANGED <<now, user, issued>> /\ issued' \in 0..MaxHash
        /\ new \in [Keys -> Row \cup {NoRow, GoneRow}]
    BY DEF AdminDelete, IInv, DbInv
  <1>2. DbInv' /\ ReqInv' /\ CacheInv'
    <2> HIDE DEF new
    <2> QED BY <1>1, ChangeRowsStep DEF IInv
  <1>3. TaskInv'
    BY ReturnStep DEF AdminDelete, IInv
  <1>4. QED
    BY <1>2, <1>3 DEF IInv

LEMMA AdminRefreshStep ==
  ASSUME IInv, NEW a \in Admins, AdminRefresh(a)
  PROVE  IInv'
  <1> DEFINE t == [task[a] EXCEPT !.pc = "invalidate", !.copy = row[task[a].key]]
  <1>1. task[a] \in Task
    BY DEF IInv, TaskInv
  <1>2. CASE Present(task[a].key) /\ task' = [task EXCEPT ![a] = t]
    <2>1. t \in Task /\ t.pc = "invalidate" /\ t.copy \in Row
      BY <1>1, <1>2 DEF Task, Present
    <2> HIDE DEF t
    <2>2. TaskOK(t)
      BY <2>1 DEF TaskOK
    <2>3. QED
      BY <1>2, <2>1, <2>2, TaskStep DEF IInv, AdminRefresh, DbInv, ReqInv, CacheInv
  <1>3. CASE task' = [task EXCEPT ![a] = IdleTask(task[a].key)]
    BY <1>3, ReturnStep DEF IInv, AdminRefresh, DbInv, ReqInv, CacheInv
  <1>4. QED
    BY <1>2, <1>3 DEF AdminRefresh

LEMMA AdminInvalidateStep ==
  ASSUME IInv, NEW a \in Admins, AdminInvalidate(a)
  PROVE  IInv'
  <1>1. TaskInv'
    BY ReturnStep DEF AdminInvalidate, IInv
  <1>2. CacheInv'
    BY DEF AdminInvalidate, Invalidate, IInv, CacheInv
  <1>3. QED
    BY <1>1, <1>2 DEF IInv, AdminInvalidate, DbInv, ReqInv

LEMMA BulkUpdateStep ==
  ASSUME IInv, NEW ids \in SUBSET Keys, NEW limit \in Limits, BulkUpdate(ids, limit)
  PROVE  IInv'
  <1> DEFINE new == [k \in Keys |-> IF k \in ids /\ Present(k)
                                     THEN [row[k] EXCEPT !.limit = limit] ELSE row[k]]
  <1>1. \A k \in Keys : Present(k) => [row[k] EXCEPT !.limit = limit] \in Row
    BY DEF Present, Row
  <1>2. new \in [Keys -> Row \cup {NoRow, GoneRow}]
    BY <1>1 DEF IInv, DbInv
  <1>3. ChangeRows(new) /\ UNCHANGED <<now, user, task>> /\ issued' \in 0..MaxHash
    BY DEF BulkUpdate, IInv, DbInv
  <1> HIDE DEF new
  <1>4. DbInv' /\ ReqInv' /\ CacheInv'
    BY <1>2, <1>3, ChangeRowsStep DEF IInv
  <1>5. QED
    BY <1>3, <1>4 DEF IInv, TaskInv

(***************************************************************************)
(* Users, the clock, and the theorems.                                     *)
(***************************************************************************)
LEMMA UserStep ==
  ASSUME IInv, NEW u \in Users, NEW state \in UserStates, ChangeUser(u, state),
         UNCHANGED <<now, row, issued, task>>
  PROVE  IInv'
  <1>1. DbInv' /\ ReqInv' /\ CacheInv'
    BY ChangeUserStep DEF IInv
  <1>2. QED
    BY <1>1 DEF IInv, TaskInv

\* A grace period that ends closes the history of an object found through it.
LEMMA LapsedAges ==
  ASSUME NEW t \in Times, NEW obj \in Object \cup {NoObject}, NEW h
  PROVE  /\ Lapsed(obj, h, t) \in Object \cup {NoObject}
         /\ obj = NoObject => Lapsed(obj, h, t) = NoObject
         /\ obj \in Object =>
              /\ Lapsed(obj, h, t) \in Object
              /\ Lapsed(obj, h, t).staleSince \in {obj.staleSince, t}
  <1>1. CASE obj = NoObject
    BY <1>1, NullAssumption DEF Lapsed
  <1>2. CASE obj \in Object
    <2>1. PICK o : o = [obj EXCEPT !.staleSince = t]
      OBVIOUS
    <2>2. o \in Object /\ o.staleSince = t
      BY <1>2, <2>1 DEF Object
    <2>3. Lapsed(obj, h, t) = obj \/ Lapsed(obj, h, t) = o
      BY <2>1 DEF Lapsed
    <2>4. QED
      BY <1>2, <2>2, <2>3, NullAssumption
  <1>3. QED
    BY <1>1, <1>2

LEMMA TickStep ==
  ASSUME IInv, Tick
  PROVE  IInv'
  <1>1. /\ now \in 0..MaxTime /\ now' = now + 1 /\ now' \in 0..MaxTime /\ now + 1 \in Times
        /\ UNCHANGED <<row, user, issued, task>>
    BY DEF IInv, DbInv, Tick, Times
  <1>2. ASSUME NEW r \in Requests
        PROVE  req'[r] \in Request /\ RequestOK(req'[r], now')
    <2>1. RequestOK(req[r], now) /\ req[r] \in Request
      BY DEF IInv, ReqInv
    <2>2. req[r].pc \in {"owner", "fill"} => now < req[r].readAt + MaxFill
      BY DEF Tick
    <2>3. req[r].at \in Nat /\ req[r].readAt \in Nat /\ req[r].obj \in Object \cup {NoObject}
      BY <2>1 DEF Request
    <2>4. PICK o : o = Lapsed(req[r].obj, req[r].hash, now + 1)
      OBVIOUS
    <2>5. /\ o \in Object \cup {NoObject}
          /\ req[r].obj = NoObject => o = NoObject
          /\ req[r].obj \in Object => o \in Object /\ o.staleSince \in {req[r].obj.staleSince, now + 1}
      BY <1>1, <2>3, <2>4, LapsedAges
    <2>6. req'[r] = [req[r] EXCEPT !.obj = o]
      BY <2>4 DEF Tick
    <2>7. /\ req'[r] \in Request /\ req'[r].obj = o /\ req'[r].pc = req[r].pc
          /\ req'[r].at = req[r].at /\ req'[r].readAt = req[r].readAt
      BY <2>1, <2>5, <2>6 DEF Request
    <2>8. req[r].obj \in Object => req[r].obj.staleSince \in Nat
      BY DEF Object, Times
    <2>9. CASE req[r].obj = NoObject
      BY <1>1, <2>1, <2>3, <2>5, <2>7, <2>9, NullAssumption DEF RequestOK
    <2>10. CASE req[r].obj \in Object
      <3>1. CASE o.staleSince = req[r].obj.staleSince
        BY <1>1, <2>1, <2>2, <2>3, <2>5, <2>7, <2>8, <2>10, <3>1, NullAssumption DEF RequestOK
      <3>2. CASE o.staleSince = now + 1
        BY <1>1, <2>1, <2>2, <2>3, <2>5, <2>7, <2>8, <2>10, <3>2, NullAssumption DEF RequestOK
      <3>3. QED
        BY <2>5, <2>10, <3>1, <3>2
    <2>11. QED
      BY <2>3, <2>9, <2>10
  <1>3. ReqInv'
    <2>1. DOMAIN req' = Requests /\ req' = [r \in Requests |-> req'[r]]
      BY DEF Tick
    <2>2. QED
      BY <1>2, <2>1 DEF ReqInv
  <1>4. CacheInv'
    <2>1. /\ DOMAIN cache' = Hashes /\ cache' = [h \in Hashes |-> cache'[h]]
          /\ \A h \in Hashes : cache'[h] = IF Fresh(cache[h], now + 1)
               THEN [cache[h] EXCEPT !.obj = Lapsed(cache[h].obj, h, now + 1)] ELSE NoEntry
      BY DEF Tick
    <2>2. cache \in [Hashes -> Entry \cup {NoEntry}]
      BY DEF IInv, CacheInv
    <2>3. ASSUME NEW h \in Hashes, cache'[h] # NoEntry
          PROVE  cache'[h] \in Entry /\ EntryOK(cache'[h], now')
      <3>1. cache'[h] = [cache[h] EXCEPT !.obj = Lapsed(cache[h].obj, h, now + 1)]
            /\ cache[h] # NoEntry /\ now + 1 < cache[h].filledAt + CacheTTL
        BY <2>1, <2>3 DEF Fresh
      <3>2. cache[h] \in Entry /\ EntryOK(cache[h], now)
        BY <2>2, <3>1 DEF IInv, CacheInv
      <3>3. cache[h].filledAt \in Nat /\ cache[h].obj \in Object /\ cache[h].obj.staleSince \in Nat
        BY <3>2 DEF Entry, Object, Times
      <3>4. PICK o : o = Lapsed(cache[h].obj, h, now + 1)
        OBVIOUS
      <3>5. o \in Object /\ o.staleSince \in {cache[h].obj.staleSince, now + 1}
        BY <1>1, <3>3, <3>4, LapsedAges
      <3>6. cache'[h] \in Entry /\ cache'[h].obj = o /\ cache'[h].filledAt = cache[h].filledAt
        BY <3>1, <3>2, <3>4, <3>5 DEF Entry
      <3>7. QED
        BY <1>1, <3>1, <3>2, <3>3, <3>5, <3>6 DEF EntryOK
    <2>4. QED
      BY <2>1, <2>3 DEF CacheInv
  <1>5. QED
    BY <1>1, <1>3, <1>4 DEF IInv, DbInv, TaskInv

LEMMA InitIInv == Init => IInv
  <1> SUFFICES ASSUME Init PROVE IInv
    OBVIOUS
  <1>1. DbInv
    BY DEF Init, DbInv, UserStates
  <1>2. ReqInv
    BY IdleRequestOK DEF Init, ReqInv
  <1>3. CacheInv
    BY DEF Init, CacheInv
  <1>4. TaskInv
    BY IdleTaskOK DEF Init, TaskInv
  <1>5. QED
    BY <1>1, <1>2, <1>3, <1>4 DEF IInv

LEMMA StepIInv == IInv /\ [Next]_vars => IInv'
  <1> SUFFICES ASSUME IInv, [Next]_vars PROVE IInv'
    OBVIOUS
  <1>1. ASSUME NEW r \in Requests, Authenticate(r) PROVE IInv'
    BY <1>1, AuthHitStep, AuthMissStep, AuthLookupStep, AuthLoadOwnerStep, AuthFillStep,
       KeyHitStep, KeyMissStep, KeyLookupStep, FinishStep DEF Authenticate
  <1>2. ASSUME NEW a \in Admins, Administer(a) PROVE IInv'
    BY <1>2, AdminBeginStep, AdminGetStep, AdminRotateStep, AdminCommitStep, AdminDeleteStep,
       AdminRefreshStep, AdminInvalidateStep DEF Administer
  <1>3. ASSUME NEW u \in Users, NEW blocked \in BOOLEAN, BlockUser(u, blocked) PROVE IInv'
    BY <1>3, UserStep DEF BlockUser, UserStates
  <1>4. ASSUME NEW u \in Users, DeleteUser(u) PROVE IInv'
    BY <1>4, UserStep DEF DeleteUser, UserStates
  <1>5. CASE UNCHANGED vars
    BY <1>5 DEF vars, IInv, DbInv, ReqInv, CacheInv, TaskInv
  <1>6. QED
    BY <1>1, <1>2, <1>3, <1>4, <1>5, GenerateKeyStep, BulkUpdateStep, TickStep DEF Next

LEMMA Inductive == Spec => []IInv
  BY InitIInv, StepIInv, PTL DEF Spec

\* Every variable stays in its type: no operation puts a timestamp out of
\* range, or reads a row or an object that is not there.
THEOREM TypeCorrect == Spec => []TypeOK
  BY Inductive, IInvImplies, PTL

\* Whatever the operators change, a decision is never taken, and no limits are
\* handed on, on rows that had changed CacheTTL + MaxFill ago.
THEOREM StalenessBounded == Spec => []BoundedStaleness
  BY Inductive, IInvImplies, PTL
=============================================================================
