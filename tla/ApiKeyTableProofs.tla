------------------------- MODULE ApiKeyTableProofs -------------------------
(***************************************************************************)
(* For any number of keys, requests and operators: overlapping operations  *)
(* do not unblock a key, the cache does not postpone its expiry, and a     *)
(* block reaches the cache, and a rotated hash keeps its grace period.      *)
(***************************************************************************)
EXTENDS ApiKeyAuthProofs

USE ApiKeyAssumption, NullAssumption

\* What an operation is about to write: it unblocks only if it is meant to,
\* and leaves expires_at alone or clears it.
EditOK(t) ==
  t.pc = "commit" =>
    /\ t.op \in {"unblock", "reactivate"} \/ t.new.blocked = t.copy.blocked \/ t.new.blocked
    /\ t.new.expires = t.copy.expires \/ t.new.expires = Never

\* The row a loaded object stands for expires no earlier than the object says.
Older(obj) ==
  /\ row[obj.key] # NoRow
  /\ Present(obj.key) => obj.row.expires <= row[obj.key].expires

EditInv == \A a \in Admins : EditOK(task[a])

ObjInv ==
  /\ \A r \in Requests : req[r].obj # NoObject => Older(req[r].obj)
  /\ \A h \in Hashes : cache[h] # NoEntry => Older(cache[h].obj)
  /\ \A r \in Requests :
       req[r].pc = "authed" /\ req[r].obj # NoObject => ~(req[r].obj.row.expires < req[r].at)

TInv == IInv /\ EditInv /\ ObjInv

LEMMA EditsEdit ==
  ASSUME NEW op \in Ops, NEW copy \in Row, NEW new \in Edits(op, copy)
  PROVE  /\ op \in {"unblock", "reactivate"} \/ new.blocked = copy.blocked \/ new.blocked
         /\ new.expires = copy.expires \/ new.expires = Never
  <1>1. CASE op \in {"block", "unblock"}
    BY <1>1 DEF Edits, Row
  <1>2. CASE op = "reactivate"
    BY <1>2 DEF Edits, Row
  <1>3. CASE op = "update"
    BY <1>3 DEF Edits, Row
  <1>4. CASE op \in {"delete", "rotate"}
    BY <1>4 DEF Edits
  <1>5. QED
    BY <1>1, <1>2, <1>3, <1>4

LEMMA EditStep ==
  ASSUME IInv, EditInv, [Next]_vars
  PROVE  EditInv'
  <1>1. CASE UNCHANGED task
    BY <1>1 DEF EditInv, EditOK
  <1>2. ASSUME NEW a \in Admins, NEW t,
               task' = [task EXCEPT ![a] = t], EditOK(t)
        PROVE  EditInv'
    BY <1>2 DEF EditInv, EditOK, IInv, TaskInv
  <1>3. ASSUME NEW a \in Admins, Administer(a) PROVE EditInv'
    <2>1. task[a] \in Task /\ TaskOK(task[a])
      BY DEF IInv, TaskInv
    <2>2. \A k \in Keys : EditOK(IdleTask(k))
      BY DEF EditOK, IdleTask
    <2>3. ASSUME NEW op \in Ops, NEW k \in Keys, AdminBegin(a, op, k) PROVE EditInv'
      <3>1. EditOK([IdleTask(k) EXCEPT !.pc = "get", !.op = op])
        BY DEF EditOK, IdleTask
      <3>2. QED
        BY <1>2, <2>3, <3>1 DEF AdminBegin
    <2>4. CASE AdminGet(a)
      <3>1. CASE task' = [task EXCEPT ![a] = IdleTask(task[a].key)]
        BY <1>2, <2>1, <2>2, <3>1 DEF Task
      <3>2. CASE Present(task[a].key) /\ \E new \in Edits(task[a].op, row[task[a].key]) :
                   task' = [task EXCEPT ![a].copy = row[task[a].key], ![a].new = new,
                              ![a].pc = IF task[a].op = "rotate" THEN "apply" ELSE "commit"]
        <4> DEFINE copy == row[task[a].key]
        <4>1. copy \in Row /\ task[a].op \in Ops
          BY <2>1, <2>4, <3>2 DEF Present, TaskOK, AdminGet
        <4>2. PICK new \in Edits(task[a].op, copy) :
                   task' = [task EXCEPT ![a].copy = copy, ![a].new = new,
                              ![a].pc = IF task[a].op = "rotate" THEN "apply" ELSE "commit"]
          BY <3>2
        <4> DEFINE t == [task[a] EXCEPT !.copy = copy, !.new = new,
                                        !.pc = IF task[a].op = "rotate" THEN "apply" ELSE "commit"]
        <4>3. t.copy = copy /\ t.new = new /\ t.op = task[a].op
          BY <2>1 DEF Task
        <4>4. task' = [task EXCEPT ![a] = t]
          BY <4>2 DEF IInv, TaskInv
        <4> HIDE DEF t, copy
        <4>5. EditOK(t)
          BY <4>1, <4>2, <4>3, EditsEdit DEF EditOK
        <4>6. QED
          BY <1>2, <4>4, <4>5
      <3>3. QED
        BY <2>4, <3>1, <3>2 DEF AdminGet
    <2>5. ASSUME NEW grace \in Graces, AdminRotate(a, grace) PROVE EditInv'
      <3> DEFINE new == Rotated(task[a].copy, issued + 1, grace)
                 t == [task[a] EXCEPT !.pc = "commit", !.new = new]
      <3>1. task[a].copy \in Row
        BY <2>1, <2>5 DEF AdminRotate, TaskOK
      <3>2. new.blocked = task[a].copy.blocked /\ new.expires = task[a].copy.expires
        BY <3>1 DEF Rotated, Row
      <3>3. t.copy = task[a].copy /\ t.new = new
        BY <2>1 DEF Task
      <3>4. task' = [task EXCEPT ![a] = t]
        BY <2>5 DEF AdminRotate, IInv, TaskInv
      <3> HIDE DEF t, new
      <3>5. QED
        BY <1>2, <3>2, <3>3, <3>4 DEF EditOK
    <2>6. CASE AdminCommit(a)
      <3>1. EditOK([IdleTask(task[a].key) EXCEPT !.pc = "refresh", !.op = task[a].op])
        BY DEF EditOK, IdleTask
      <3>2. \/ task' = [task EXCEPT ![a] = [IdleTask(task[a].key) EXCEPT !.pc = "refresh", !.op = task[a].op]]
            \/ task' = [task EXCEPT ![a] = IdleTask(task[a].key)]
        BY <2>6 DEF AdminCommit
      <3>3. QED
        BY <1>2, <2>1, <2>2, <3>1, <3>2 DEF Task
    <2>7. CASE AdminRefresh(a)
      <3>1. EditOK([task[a] EXCEPT !.pc = "invalidate", !.copy = row[task[a].key]])
        BY <2>1 DEF EditOK, Task
      <3>2. \/ task' = [task EXCEPT ![a] = [task[a] EXCEPT !.pc = "invalidate", !.copy = row[task[a].key]]]
            \/ task' = [task EXCEPT ![a] = IdleTask(task[a].key)]
        BY <2>7 DEF AdminRefresh
      <3>3. QED
        BY <1>2, <2>1, <2>2, <3>1, <3>2 DEF Task
    <2>8. CASE AdminDelete(a) \/ AdminInvalidate(a)
      BY <1>2, <2>1, <2>2, <2>8 DEF AdminDelete, AdminInvalidate, Task
    <2>9. QED
      BY <1>3, <2>3, <2>4, <2>5, <2>6, <2>7, <2>8 DEF Administer
  <1>4. CASE UNCHANGED vars \/ Tick \/ \E r \in Requests : Authenticate(r)
    BY <1>1, <1>4 DEF vars, Tick, Authenticate, AuthHit, AuthMiss, AuthLookup, AuthLoadOwner,
                      AuthFill, KeyHit, KeyMiss, KeyLookup, Finish
  <1>5. ASSUME \/ \E k \in Keys, limit \in Limits, life \in Lifetimes \cup {Never} :
                    GenerateKey(k, limit, life)
               \/ \E ids \in SUBSET Keys, limit \in Limits : BulkUpdate(ids, limit)
               \/ \E u \in Users : DeleteUser(u) \/ \E blocked \in BOOLEAN : BlockUser(u, blocked)
        PROVE  EditInv'
    BY <1>1, <1>5 DEF GenerateKey, BulkUpdate, DeleteUser, BlockUser
  <1>6. QED
    BY <1>3, <1>4, <1>5 DEF Next

(***************************************************************************)
(* A block is undone only on purpose.                                      *)
(***************************************************************************)

NoStrayUnblock ==
  \A k \in Keys :
    Present(k) /\ row[k].blocked /\ row'[k] # GoneRow /\ ~row'[k].blocked =>
      \E a \in Admins : /\ task[a].key = k /\ task[a].pc = "commit"
                       /\ task[a].op \in {"unblock", "reactivate"}

LEMMA BlockStep ==
  ASSUME IInv, EditInv, [Next]_vars
  PROVE  NoStrayUnblock
  <1> SUFFICES ASSUME NEW k \in Keys, Present(k), row[k].blocked,
                      row'[k] # GoneRow, ~row'[k].blocked
               PROVE  \E a \in Admins : /\ task[a].key = k /\ task[a].pc = "commit"
                                       /\ task[a].op \in {"unblock", "reactivate"}
    BY DEF NoStrayUnblock
  <1>1. row'[k] # row[k]
    OBVIOUS
  <1>2. row[k] \in Row /\ row[k] # NoRow /\ row \in [Keys -> Row \cup {NoRow, GoneRow}]
    BY DEF Present, IInv, DbInv
  <1>3. ASSUME NEW j \in Keys, NEW limit \in Limits, NEW life \in Lifetimes \cup {Never},
               GenerateKey(j, limit, life)
        PROVE  FALSE
    BY <1>1, <1>2, <1>3 DEF GenerateKey, ChangeRows
  <1>4. ASSUME NEW ids \in SUBSET Keys, NEW limit \in Limits, BulkUpdate(ids, limit)
        PROVE  FALSE
    BY <1>2, <1>4 DEF BulkUpdate, ChangeRows, Row
  <1>5. ASSUME NEW a \in Admins, AdminDelete(a) PROVE FALSE
    BY <1>1, <1>2, <1>5 DEF AdminDelete, ChangeRows
  <1>6. ASSUME NEW a \in Admins, AdminCommit(a)
        PROVE  /\ task[a].key = k /\ task[a].pc = "commit"
               /\ task[a].op \in {"unblock", "reactivate"}
    <2>1. task[a] \in Task /\ TaskOK(task[a]) /\ EditOK(task[a]) /\ task[a].pc = "commit"
      BY <1>6 DEF IInv, TaskInv, EditInv, AdminCommit
    <2>2. row' = [row EXCEPT ![task[a].key] = Merged(@, task[a].copy, task[a].new)]
      BY <1>1, <1>6 DEF AdminCommit, ChangeRows
    <2>3. task[a].key = k
      BY <1>1, <1>2, <2>1, <2>2 DEF Task
    <2>4. row'[k] = Merged(row[k], task[a].copy, task[a].new)
      BY <1>2, <2>2, <2>3
    <2>5. ~(task[a].new.blocked = task[a].copy.blocked \/ task[a].new.blocked)
      BY <1>2, <2>1, <2>4 DEF Merged, TaskOK, Row
    <2>6. QED
      BY <2>1, <2>3, <2>5 DEF EditOK
  <1>7. row' # row
    BY <1>1
  <1>8. ASSUME NEW a \in Admins, Administer(a), ~AdminDelete(a), ~AdminCommit(a) PROVE FALSE
    BY <1>7, <1>8 DEF Administer, AdminBegin, AdminGet, AdminRotate, AdminRefresh, AdminInvalidate
  <1>9. ASSUME UNCHANGED vars \/ Tick \/ \E r \in Requests : Authenticate(r) PROVE FALSE
    BY <1>7, <1>9 DEF vars, Tick, Authenticate, AuthHit, AuthMiss, AuthLookup, AuthLoadOwner,
                      AuthFill, KeyHit, KeyMiss, KeyLookup, Finish
  <1>10. ASSUME NEW u \in Users, DeleteUser(u) \/ \E blocked \in BOOLEAN : BlockUser(u, blocked)
         PROVE  FALSE
    BY <1>7, <1>10 DEF DeleteUser, BlockUser
  <1>11. QED
    BY <1>3, <1>4, <1>5, <1>6, <1>8, <1>9, <1>10 DEF Next, Administer

(***************************************************************************)
(* Expiry and the cache.                                                   *)
(***************************************************************************)

\* No step inserts a row twice, nor brings an expiry forward.
RowsLater ==
  \A k \in Keys :
    \/ row'[k] = row[k] \/ row[k] = NoRow \/ row'[k] = GoneRow
    \/ row[k] \in Row /\ row'[k] \in Row /\ row[k].expires <= row'[k].expires

LEMMA OlderKept ==
  ASSUME IInv, RowsLater, NEW obj \in Object, Older(obj)
  PROVE  Older(obj)'
  <1>1. obj.key \in Keys /\ obj.row.expires \in Nat
    BY DEF Object, Row, Times
  <1>2. row[obj.key] \in Row => row[obj.key].expires \in Nat
    BY DEF Row, Times
  <1>3. row'[obj.key] \in Row => row'[obj.key].expires \in Nat
    BY DEF Row, Times
  <1>4. CASE row'[obj.key] = row[obj.key]
    BY <1>4 DEF Older, Present
  <1>5. CASE row'[obj.key] = GoneRow
    BY <1>5 DEF Older, Present
  <1>6. CASE row[obj.key] \in Row /\ row'[obj.key] \in Row
             /\ row[obj.key].expires <= row'[obj.key].expires
    BY <1>1, <1>2, <1>3, <1>6 DEF Older, Present
  <1>7. QED
    BY <1>1, <1>4, <1>5, <1>6 DEF RowsLater, Older

\* A change of history leaves key and row of an object alone.
Same(old, new) == old = new \/ (new.key = old.key /\ new.row = old.row)

LEMMA OutdatedSame ==
  ASSUME NEW obj \in Object \cup {NoObject}, NEW S, NEW u
  PROVE  /\ Same(obj, Outdated(obj, S)) /\ Same(obj, OutdatedByUser(obj, u))
         /\ obj = NoObject => Outdated(obj, S) = obj /\ OutdatedByUser(obj, u) = obj
  <1>1. CASE obj = NoObject
    BY <1>1 DEF Outdated, OutdatedByUser, Same
  <1>2. CASE obj \in Object
    <2>1. LET new == [obj EXCEPT !.staleSince = now]
          IN  new.key = obj.key /\ new.row = obj.row
      BY <1>2 DEF Object
    <2>2. /\ Outdated(obj, S) \in {obj, [obj EXCEPT !.staleSince = now]}
          /\ OutdatedByUser(obj, u) \in {obj, [obj EXCEPT !.staleSince = now]}
      BY DEF Outdated, OutdatedByUser
    <2>3. obj = NoObject => Outdated(obj, S) = obj /\ OutdatedByUser(obj, u) = obj
      BY DEF Outdated, OutdatedByUser
    <2>4. QED
      BY <2>1, <2>2, <2>3 DEF Same
  <1>3. QED
    BY <1>1, <1>2

LEMMA LapsedSame ==
  ASSUME NEW obj \in Object \cup {NoObject}, NEW h, NEW t
  PROVE  /\ Same(obj, Lapsed(obj, h, t))
         /\ obj = NoObject => Lapsed(obj, h, t) = obj
         /\ Lapsed(obj, h, t).staleSince = Never /\ t # Never => Lapsed(obj, h, t) = obj
  <1>1. CASE obj = NoObject
    BY <1>1 DEF Lapsed, Same
  <1>2. CASE obj \in Object
    <2>1. PICK o : o = [obj EXCEPT !.staleSince = t]
      OBVIOUS
    <2>2. o.key = obj.key /\ o.row = obj.row /\ o.staleSince = t
      BY <1>2, <2>1 DEF Object
    <2>3. Lapsed(obj, h, t) = obj \/ (obj # NoObject /\ Lapsed(obj, h, t) = o)
      BY <2>1 DEF Lapsed
    <2>4. QED
      BY <2>2, <2>3 DEF Same
  <1>3. QED
    BY <1>1, <1>2

\* What the end of grace periods does to requests and entries.
LEMMA TickObjects ==
  ASSUME IInv, Tick
  PROVE  /\ row' = row /\ now + 1 # Never
         /\ \A r \in Requests :
              /\ req[r] \in Request /\ req[r].obj \in Object \cup {NoObject}
              /\ req'[r].pc = req[r].pc /\ req'[r].at = req[r].at /\ req'[r].hash = req[r].hash
              /\ req'[r].obj = Lapsed(req[r].obj, req[r].hash, now + 1)
         /\ \A h \in Hashes : cache'[h] # NoEntry =>
              /\ cache[h] \in Entry /\ cache[h] # NoEntry
              /\ cache'[h].bornStale = cache[h].bornStale
              /\ cache'[h].obj = Lapsed(cache[h].obj, h, now + 1)
  <1>1. row' = row /\ now + 1 # Never
    BY DEF Tick, IInv, DbInv
  <1>2. ASSUME NEW r \in Requests
        PROVE  /\ req[r] \in Request /\ req[r].obj \in Object \cup {NoObject}
               /\ req'[r].pc = req[r].pc /\ req'[r].at = req[r].at /\ req'[r].hash = req[r].hash
               /\ req'[r].obj = Lapsed(req[r].obj, req[r].hash, now + 1)
    <2>1. req[r] \in Request /\ req[r].obj \in Object \cup {NoObject}
      BY DEF IInv, ReqInv, Request
    <2>2. PICK o : o = Lapsed(req[r].obj, req[r].hash, now + 1)
      OBVIOUS
    <2>3. req'[r] = [req[r] EXCEPT !.obj = o]
      BY <2>2 DEF Tick
    <2>4. QED
      BY <2>1, <2>2, <2>3 DEF Request
  <1>3. ASSUME NEW h \in Hashes, cache'[h] # NoEntry
        PROVE  /\ cache[h] \in Entry /\ cache[h] # NoEntry
               /\ cache'[h].bornStale = cache[h].bornStale
               /\ cache'[h].obj = Lapsed(cache[h].obj, h, now + 1)
    <2>1. PICK o : o = Lapsed(cache[h].obj, h, now + 1)
      OBVIOUS
    <2>2. cache[h] # NoEntry /\ cache'[h] = [cache[h] EXCEPT !.obj = o]
      BY <1>3, <2>1 DEF Tick, Fresh
    <2>3. cache[h] \in Entry
      BY <2>2 DEF IInv, CacheInv
    <2>4. QED
      BY <2>1, <2>2, <2>3 DEF Entry
  <1>4. QED
    BY <1>1, <1>2, <1>3

\* ObjInv after a step that ages objects and does no more to req and cache.
LEMMA AgedObjects ==
  ASSUME IInv, ObjInv, RowsLater,
         \A r \in Requests : /\ req'[r].pc = req[r].pc /\ req'[r].at = req[r].at
                             /\ req[r].obj = NoObject => req'[r].obj = NoObject
                             /\ Same(req[r].obj, req'[r].obj),
         \A h \in Hashes : /\ cache'[h] # NoEntry => cache[h] # NoEntry
                           /\ cache'[h] # NoEntry => Same(cache[h].obj, cache'[h].obj)
  PROVE  ObjInv'
  <1>1. ASSUME NEW r \in Requests, req'[r].obj # NoObject
        PROVE  /\ Older(req[r].obj)'
               /\ req'[r].pc = "authed" => ~(req'[r].obj.row.expires < req'[r].at)
    <2>1. req[r].obj # NoObject /\ Same(req[r].obj, req'[r].obj)
      BY <1>1
    <2>2. req[r].obj \in Object /\ Older(req[r].obj)
      BY <2>1 DEF IInv, ReqInv, Request, ObjInv
    <2>3. PICK o : o = req[r].obj
      OBVIOUS
    <2>4. Older(o)'
      BY <2>2, <2>3, OlderKept
    <2>5. req'[r].obj.key = o.key /\ req'[r].obj.row = o.row
      BY <2>1, <2>3 DEF Same
    <2>6. Older(req[r].obj)'
      BY <2>4, <2>5 DEF Older
    <2>7. req'[r].pc = "authed" => ~(req'[r].obj.row.expires < req'[r].at)
      BY <2>1, <2>3, <2>5 DEF ObjInv
    <2>8. QED
      BY <2>6, <2>7
  <1>2. ASSUME NEW h \in Hashes, cache'[h] # NoEntry
        PROVE  Older(cache[h].obj)'
    <2>1. cache[h] # NoEntry /\ Same(cache[h].obj, cache'[h].obj)
      BY <1>2
    <2>2. cache[h].obj \in Object /\ Older(cache[h].obj)
      BY <2>1 DEF IInv, CacheInv, Entry, ObjInv
    <2>3. PICK o : o = cache[h].obj
      OBVIOUS
    <2>4. Older(o)'
      BY <2>2, <2>3, OlderKept
    <2>5. cache'[h].obj.key = o.key /\ cache'[h].obj.row = o.row
      BY <2>1, <2>3 DEF Same
    <2>6. QED
      BY <2>4, <2>5 DEF Older
  <1>3. QED
    BY <1>1, <1>2 DEF ObjInv

LEMMA ChangeRowsObjects ==
  ASSUME IInv, ObjInv, NEW new, ChangeRows(new), RowsLater
  PROVE  ObjInv'
  <1> DEFINE S == {k \in Keys : new[k] # row[k]}
  <1>1. /\ req' = [r \in Requests |-> [req[r] EXCEPT !.obj = Outdated(@, S)]]
        /\ cache' = [h \in Hashes |-> IF cache[h] = NoEntry THEN NoEntry
                                      ELSE [cache[h] EXCEPT !.obj = Outdated(@, S)]]
    BY DEF ChangeRows
  <1> HIDE DEF S
  <1>2. ASSUME NEW r \in Requests
        PROVE  /\ req'[r].pc = req[r].pc /\ req'[r].at = req[r].at
               /\ req[r].obj = NoObject => req'[r].obj = NoObject
               /\ Same(req[r].obj, req'[r].obj)
    <2>1. req[r] \in Request /\ req[r].obj \in Object \cup {NoObject}
      BY DEF IInv, ReqInv, Request
    <2>2. req'[r].obj = Outdated(req[r].obj, S) /\ req'[r].pc = req[r].pc /\ req'[r].at = req[r].at
      BY <1>1, <2>1 DEF Request
    <2>3. QED
      BY <2>1, <2>2, OutdatedSame
  <1>3. ASSUME NEW h \in Hashes, cache'[h] # NoEntry
        PROVE  cache[h] # NoEntry /\ Same(cache[h].obj, cache'[h].obj)
    <2>1. cache[h] # NoEntry
      BY <1>1, <1>3
    <2>2. cache[h] \in Entry /\ cache[h].obj \in Object \cup {NoObject}
      BY <2>1 DEF IInv, CacheInv, Entry
    <2>3. cache'[h].obj = Outdated(cache[h].obj, S)
      BY <1>1, <2>1, <2>2 DEF Entry
    <2>4. Same(cache[h].obj, Outdated(cache[h].obj, S))
      BY <2>2, OutdatedSame
    <2>5. QED
      BY <2>1, <2>3, <2>4
  <1>4. QED
    BY <1>2, <1>3, AgedObjects

LEMMA ChangeUserObjects ==
  ASSUME IInv, ObjInv, NEW u, NEW state, ChangeUser(u, state), row' = row
  PROVE  ObjInv'
  <1>1. /\ req' = [r \in Requests |-> [req[r] EXCEPT !.obj = OutdatedByUser(@, u)]]
        /\ cache' = [h \in Hashes |-> IF cache[h] = NoEntry THEN NoEntry
                                      ELSE [cache[h] EXCEPT !.obj = OutdatedByUser(@, u)]]
    BY DEF ChangeUser
  <1>2. ASSUME NEW r \in Requests
        PROVE  /\ req'[r].pc = req[r].pc /\ req'[r].at = req[r].at
               /\ req[r].obj = NoObject => req'[r].obj = NoObject
               /\ Same(req[r].obj, req'[r].obj)
    <2>1. req[r] \in Request /\ req[r].obj \in Object \cup {NoObject}
      BY DEF IInv, ReqInv, Request
    <2>2. req'[r].obj = OutdatedByUser(req[r].obj, u) /\ req'[r].pc = req[r].pc /\ req'[r].at = req[r].at
      BY <1>1, <2>1 DEF Request
    <2>3. QED
      BY <2>1, <2>2, OutdatedSame
  <1>3. ASSUME NEW h \in Hashes, cache'[h] # NoEntry
        PROVE  cache[h] # NoEntry /\ Same(cache[h].obj, cache'[h].obj)
    <2>1. cache[h] # NoEntry
      BY <1>1, <1>3
    <2>2. cache[h] \in Entry /\ cache[h].obj \in Object \cup {NoObject}
      BY <2>1 DEF IInv, CacheInv, Entry
    <2>3. cache'[h].obj = OutdatedByUser(cache[h].obj, u)
      BY <1>1, <2>1, <2>2 DEF Entry
    <2>4. Same(cache[h].obj, OutdatedByUser(cache[h].obj, u))
      BY <2>2, OutdatedSame
    <2>5. QED
      BY <2>1, <2>3, <2>4
  <1>4. RowsLater
    BY DEF RowsLater
  <1>5. QED
    BY <1>2, <1>3, <1>4, AgedObjects

\* Every change of the table keeps or clears expires_at.
LEMMA RowsLaterStep ==
  ASSUME IInv, EditInv, [Next]_vars
  PROVE  RowsLater
  <1>1. /\ row \in [Keys -> Row \cup {NoRow, GoneRow}]
        /\ \A k \in Keys : row[k] \in Row => row[k].expires \in Nat /\ row[k].expires <= Never
    BY DEF IInv, DbInv, Row, Times
  <1>2. CASE row' = row
    BY <1>2 DEF RowsLater
  <1>3. ASSUME NEW j \in Keys, NEW limit \in Limits, NEW life \in Lifetimes \cup {Never},
               GenerateKey(j, limit, life)
        PROVE  RowsLater
    BY <1>1, <1>3 DEF GenerateKey, ChangeRows, RowsLater
  <1>4. ASSUME NEW ids \in SUBSET Keys, NEW limit \in Limits, BulkUpdate(ids, limit)
        PROVE  RowsLater
    <2>1. ASSUME NEW k \in Keys, row'[k] # row[k]
          PROVE  row[k] \in Row /\ row'[k] = [row[k] EXCEPT !.limit = limit]
      BY <1>4, <2>1 DEF BulkUpdate, ChangeRows, Present
    <2>2. ASSUME NEW w \in Row PROVE [w EXCEPT !.limit = limit] \in Row
                                     /\ [w EXCEPT !.limit = limit].expires = w.expires
      BY DEF Row
    <2>3. ASSUME NEW k \in Keys, row'[k] # row[k]
          PROVE  row[k] \in Row /\ row'[k] \in Row /\ row[k].expires <= row'[k].expires
      <3>1. row[k] \in Row /\ row'[k] = [row[k] EXCEPT !.limit = limit]
        BY <2>1, <2>3
      <3>2. row'[k] \in Row /\ row'[k].expires = row[k].expires
        BY <2>2, <3>1
      <3>3. QED
        BY <1>1, <3>1, <3>2
    <2>4. QED
      BY <2>3 DEF RowsLater
  <1>5. ASSUME NEW a \in Admins, AdminDelete(a) PROVE RowsLater
    BY <1>1, <1>5 DEF AdminDelete, ChangeRows, RowsLater
  <1>6. ASSUME NEW a \in Admins, AdminCommit(a), row' # row PROVE RowsLater
    <2>1. task[a] \in Task /\ TaskOK(task[a]) /\ EditOK(task[a]) /\ task[a].pc = "commit"
      BY <1>6 DEF IInv, TaskInv, EditInv, AdminCommit
    <2> DEFINE k == task[a].key
               w == Merged(row[k], task[a].copy, task[a].new)
    <2>2. row' = [row EXCEPT ![k] = w] /\ row[k] \in Row /\ k \in Keys
      BY <1>6, <2>1 DEF AdminCommit, ChangeRows, Present, Task
    <2>3. w \in Row
      BY <2>1, <2>2, MergedType DEF TaskOK
    <2>4. w.expires = row[k].expires \/ w.expires = Never
      BY <2>1 DEF Merged, EditOK
    <2> HIDE DEF w
    <2>5. row[k].expires <= w.expires
      BY <1>1, <2>2, <2>4
    <2>6. QED
      BY <1>1, <2>2, <2>3, <2>5 DEF RowsLater
  <1>7. ASSUME NEW a \in Admins, Administer(a), ~AdminDelete(a), ~AdminCommit(a)
        PROVE  row' = row
    BY <1>7 DEF Administer, AdminBegin, AdminGet, AdminRotate, AdminRefresh, AdminInvalidate
  <1>8. ASSUME UNCHANGED vars \/ Tick \/ \E r \in Requests : Authenticate(r) PROVE row' = row
    BY <1>8 DEF vars, Tick, Authenticate, AuthHit, AuthMiss, AuthLookup, AuthLoadOwner,
                AuthFill, KeyHit, KeyMiss, KeyLookup, Finish
  <1>9. ASSUME NEW u \in Users, DeleteUser(u) \/ \E blocked \in BOOLEAN : BlockUser(u, blocked)
        PROVE  row' = row
    BY <1>9 DEF DeleteUser, BlockUser
  <1>10. QED
    BY <1>2, <1>3, <1>4, <1>5, <1>6, <1>7, <1>8, <1>9 DEF Next

\* ObjInv after a step of one request that leaves the table alone.
LEMMA RequestObjects ==
  ASSUME IInv, ObjInv, row' = row, NEW r \in Requests, NEW q,
         req' = [req EXCEPT ![r] = q],
         q.obj # NoObject => Older(q.obj),
         q.pc = "authed" /\ q.obj # NoObject => ~(q.obj.row.expires < q.at),
         \A h \in Hashes : cache'[h] # NoEntry => Older(cache'[h].obj)
  PROVE  ObjInv'
  <1>1. req'[r] = q /\ \A s \in Requests : s # r => req'[s] = req[s]
    BY DEF IInv, ReqInv
  <1>2. \A s \in Requests : req'[s].obj # NoObject => Older(req'[s].obj)
    BY <1>1 DEF ObjInv
  <1>3. \A s \in Requests :
          req'[s].pc = "authed" /\ req'[s].obj # NoObject => ~(req'[s].obj.row.expires < req'[s].at)
    BY <1>1 DEF ObjInv
  <1>4. QED
    BY <1>2, <1>3 DEF ObjInv, Older, Present

\* A decision is taken on an object that has not expired.
LEMMA DecidedObject ==
  ASSUME IInv, NEW r \in Requests, NEW h, NEW obj
  PROVE  LET q == Decided(r, h, obj) IN
         q.obj = obj /\ (q.pc = "authed" => ~(obj.row.expires < q.at))
  BY DEF Decided, Valid, IInv, ReqInv, Request

LEMMA RequestStep ==
  ASSUME IInv, ObjInv, NEW r \in Requests, Authenticate(r)
  PROVE  ObjInv'
  <1>1. row' = row
    BY DEF Authenticate, AuthHit, AuthMiss, AuthLookup, AuthLoadOwner, AuthFill,
           KeyHit, KeyMiss, KeyLookup, Finish
  <1>2. \A h \in Hashes : cache[h] # NoEntry => Older(cache[h].obj)
    BY DEF ObjInv
  <1>3. \A k \in Keys, h \in Hashes : Accepts(k, h) =>
          Older([key |-> k, row |-> row[k], owner |-> "unread", staleSince |-> Never])
    <2> SUFFICES ASSUME NEW k \in Keys, NEW h \in Hashes, Accepts(k, h)
                 PROVE  Older([key |-> k, row |-> row[k], owner |-> "unread", staleSince |-> Never])
      OBVIOUS
    <2>1. row[k] \in Row /\ row[k] # NoRow
      BY DEF Accepts, IInv, DbInv
    <2>2. row[k].expires \in Nat
      BY <2>1 DEF Row, Times
    <2>3. QED
      BY <2>1, <2>2 DEF Older
  <1>4. req[r] \in Request /\ (req[r].obj # NoObject => Older(req[r].obj))
    BY DEF IInv, ReqInv, ObjInv
  <1>5. ASSUME NEW h \in Hashes, AuthHit(r, h) PROVE ObjInv'
    <2>1. cache[h] # NoEntry /\ req' = [req EXCEPT ![r] = Decided(r, h, cache[h].obj)]
      BY <1>5 DEF AuthHit
    <2>2. cache' = cache
      BY <1>5 DEF AuthHit, AfterHit, IInv, CacheInv
    <2>3. PICK q : q = Decided(r, h, cache[h].obj)
      OBVIOUS
    <2>4. q.obj = cache[h].obj /\ (q.pc = "authed" => ~(q.obj.row.expires < q.at))
      BY <2>3, DecidedObject
    <2>5. QED
      BY <1>1, <1>2, <2>1, <2>2, <2>3, <2>4, RequestObjects
  <1>6. ASSUME NEW h \in Hashes, AuthMiss(r, h) PROVE ObjInv'
    <2> DEFINE q == [IdleRequest EXCEPT !.pc = "lookup", !.hash = h]
    <2>1. q.obj = NoObject
      BY DEF IdleRequest
    <2>2. req' = [req EXCEPT ![r] = q] /\ cache' = cache
      BY <1>6 DEF AuthMiss
    <2> HIDE DEF q
    <2>3. QED
      BY <1>1, <1>2, <2>1, <2>2, RequestObjects
  <1>7. CASE AuthLookup(r)
    <2>1. cache' = cache
      BY <1>7 DEF AuthLookup
    <2>2. ASSUME NEW k \in Keys, Accepts(k, req[r].hash),
                 req' = [req EXCEPT ![r].pc = "owner", ![r].readAt = now,
                       ![r].obj = [key |-> k, row |-> row[k], owner |-> "unread",
                                   staleSince |-> Never]]
          PROVE  ObjInv'
      <3> DEFINE o == [key |-> k, row |-> row[k], owner |-> "unread", staleSince |-> Never]
                 q == [req[r] EXCEPT !.pc = "owner", !.readAt = now, !.obj = o]
      <3>1. q.obj = o /\ q.pc = "owner"
        BY <1>4 DEF Request
      <3>2. Older(o)
        BY <1>3, <1>4, <2>2 DEF Request
      <3>3. req' = [req EXCEPT ![r] = q]
        BY <2>2 DEF IInv, ReqInv
      <3> HIDE DEF q, o
      <3>4. QED
        BY <1>1, <1>2, <2>1, <3>1, <3>2, <3>3, RequestObjects
    <2>3. CASE req' = [req EXCEPT ![r].pc = "refused", ![r].at = now]
      <3> DEFINE q == [req[r] EXCEPT !.pc = "refused", !.at = now]
      <3>1. q.obj = req[r].obj /\ q.pc = "refused"
        BY <1>4 DEF Request
      <3>2. req' = [req EXCEPT ![r] = q]
        BY <2>3 DEF IInv, ReqInv
      <3> HIDE DEF q
      <3>3. QED
        BY <1>1, <1>2, <1>4, <2>1, <3>1, <3>2, RequestObjects
    <2>4. QED
      BY <1>7, <2>2, <2>3 DEF AuthLookup
  <1>8. CASE AuthLoadOwner(r)
    <2> DEFINE o == [req[r].obj EXCEPT !.owner = user[Owner[req[r].obj.key]]]
               q == [req[r] EXCEPT !.pc = "fill", !.obj = o]
    <2>1. req[r].obj \in Object /\ req[r].obj \in Object \cup {NoObject}
      BY <1>4, <1>8 DEF AuthLoadOwner, IInv, ReqInv, RequestOK, Request
    <2>2. o.key = req[r].obj.key /\ o.row = req[r].obj.row
      BY <2>1 DEF Object
    <2>3. q.obj = o /\ q.pc = "fill"
      BY <1>4 DEF Request
    <2>4. req' = [req EXCEPT ![r] = q] /\ cache' = cache
      BY <1>8 DEF AuthLoadOwner, IInv, ReqInv
    <2> HIDE DEF q, o
    <2>5. Older(o)
      BY <1>4, <2>1, <2>2 DEF Older
    <2>6. QED
      BY <1>1, <1>2, <2>3, <2>4, <2>5, RequestObjects
  <1>9. CASE AuthFill(r)
    <2> DEFINE e == [obj |-> req[r].obj, filledAt |-> now, bornStale |-> req[r].obj.staleSince # Never]
    <2>1. /\ Store(req[r].hash, e)
          /\ req' = [req EXCEPT ![r] = Decided(r, req[r].hash, req[r].obj)]
      BY <1>9 DEF AuthFill
    <2>2. \A h \in Hashes : cache'[h] # NoEntry => cache'[h] = cache[h] \/ cache'[h] = e
      BY <2>1 DEF Store, IInv, CacheInv
    <2>3. e.obj = req[r].obj
      OBVIOUS
    <2> HIDE DEF e
    <2>4. PICK q : q = Decided(r, req[r].hash, req[r].obj)
      OBVIOUS
    <2>5. q.obj = req[r].obj /\ (q.pc = "authed" => ~(q.obj.row.expires < q.at))
      BY <2>4, DecidedObject
    <2>6. Older(req[r].obj)
      BY <1>4, <1>9 DEF AuthFill, IInv, ReqInv, RequestOK
    <2>7. \A h \in Hashes : cache'[h] # NoEntry => Older(cache'[h].obj)
      BY <1>2, <2>2, <2>3, <2>6
    <2>8. QED
      BY <1>1, <2>1, <2>4, <2>5, <2>6, <2>7, RequestObjects
  <1>10. CASE KeyHit(r)
    <2> DEFINE q == [req[r] EXCEPT !.pc = "served", !.obj = cache[req[r].hash].obj, !.at = now]
    <2>1. q.obj = cache[req[r].hash].obj /\ q.pc = "served"
      BY <1>4 DEF Request
    <2>2. req' = [req EXCEPT ![r] = q] /\ cache' = cache
      BY <1>10 DEF KeyHit, AfterHit, IInv, ReqInv, CacheInv
    <2>3. cache[req[r].hash] # NoEntry /\ req[r].hash \in Hashes
      BY <1>4, <1>10 DEF KeyHit, Request
    <2> HIDE DEF q
    <2>4. QED
      BY <1>1, <1>2, <2>1, <2>2, <2>3, RequestObjects
  <1>11. CASE KeyMiss(r)
    <2> DEFINE q == [req[r] EXCEPT !.pc = "key"]
    <2>1. q.obj = req[r].obj /\ q.pc = "key"
      BY <1>4 DEF Request
    <2>2. req' = [req EXCEPT ![r] = q] /\ cache' = cache
      BY <1>11 DEF KeyMiss, IInv, ReqInv
    <2> HIDE DEF q
    <2>3. QED
      BY <1>1, <1>2, <1>4, <2>1, <2>2, RequestObjects
  <1>12. CASE KeyLookup(r)
    <2>1. cache' = cache
      BY <1>12 DEF KeyLookup
    <2>2. ASSUME NEW o, o = NoObject \/ Older(o),
                 req' = [req EXCEPT ![r].pc = "served", ![r].at = now, ![r].obj = o]
          PROVE  ObjInv'
      <3> DEFINE q == [req[r] EXCEPT !.pc = "served", !.at = now, !.obj = o]
      <3>1. q.obj = o /\ q.pc = "served"
        BY <1>4 DEF Request
      <3>2. req' = [req EXCEPT ![r] = q]
        BY <2>2 DEF IInv, ReqInv
      <3> HIDE DEF q
      <3>3. QED
        BY <1>1, <1>2, <2>1, <2>2, <3>1, <3>2, RequestObjects
    <2>3. QED
      BY <1>3, <1>4, <1>12, <2>2 DEF KeyLookup, Request
  <1>13. CASE Finish(r)
    <2>1. IdleRequest.obj = NoObject
      BY DEF IdleRequest
    <2>2. req' = [req EXCEPT ![r] = IdleRequest] /\ cache' = cache
      BY <1>13 DEF Finish
    <2>3. QED
      BY <1>1, <1>2, <2>1, <2>2, RequestObjects
  <1>14. QED
    BY <1>5, <1>6, <1>7, <1>8, <1>9, <1>10, <1>11, <1>12, <1>13 DEF Authenticate

LEMMA ObjectStep ==
  ASSUME IInv, EditInv, ObjInv, [Next]_vars
  PROVE  ObjInv'
  <1>1. RowsLater
    BY RowsLaterStep
  <1>2. ASSUME row' = row, req' = req,
               \A h \in Hashes : cache'[h] = cache[h] \/ cache'[h] = NoEntry
        PROVE  ObjInv'
    BY <1>2 DEF ObjInv, Older, Present
  <1>3. ASSUME NEW r \in Requests, Authenticate(r) PROVE ObjInv'
    BY <1>3, RequestStep
  <1>4. ASSUME NEW a \in Admins, Administer(a) PROVE ObjInv'
    <2>1. CASE AdminCommit(a)
      <3>1. CASE UNCHANGED <<row, cache, req>>
        BY <1>2, <3>1
      <3>2. CASE ChangeRows([row EXCEPT ![task[a].key] = Merged(@, task[a].copy, task[a].new)])
        BY <1>1, <3>2, ChangeRowsObjects
      <3>3. QED
        BY <2>1, <3>1, <3>2 DEF AdminCommit
    <2>2. CASE AdminDelete(a)
      BY <1>1, <2>2, ChangeRowsObjects DEF AdminDelete
    <2>3. CASE (\E grace \in Graces : AdminRotate(a, grace)) \/ AdminInvalidate(a)
      BY <1>2, <2>3 DEF AdminRotate, AdminInvalidate, Invalidate, IInv, CacheInv
    <2>4. CASE \/ \E op \in Ops, k \in Keys : AdminBegin(a, op, k)
               \/ AdminGet(a) \/ AdminRefresh(a)
      BY <1>2, <2>4 DEF AdminBegin, AdminGet, AdminRefresh
    <2>5. QED
      BY <1>4, <2>1, <2>2, <2>3, <2>4 DEF Administer
  <1>5. ASSUME NEW k \in Keys, NEW limit \in Limits, NEW life \in Lifetimes \cup {Never},
               GenerateKey(k, limit, life)
        PROVE  ObjInv'
    BY <1>1, <1>5, ChangeRowsObjects DEF GenerateKey
  <1>6. ASSUME NEW ids \in SUBSET Keys, NEW limit \in Limits, BulkUpdate(ids, limit)
        PROVE  ObjInv'
    BY <1>1, <1>6, ChangeRowsObjects DEF BulkUpdate
  <1>7. ASSUME NEW u \in Users, DeleteUser(u) \/ \E blocked \in BOOLEAN : BlockUser(u, blocked)
        PROVE  ObjInv'
    BY <1>7, ChangeUserObjects DEF DeleteUser, BlockUser
  <1>8. CASE UNCHANGED vars
    BY <1>2, <1>8 DEF vars
  <1>10. CASE Tick
    <2>1. \A r \in Requests : /\ req'[r].pc = req[r].pc /\ req'[r].at = req[r].at
                              /\ req[r].obj = NoObject => req'[r].obj = NoObject
                              /\ Same(req[r].obj, req'[r].obj)
      BY <1>10, TickObjects, LapsedSame
    <2>2. ASSUME NEW h \in Hashes, cache'[h] # NoEntry
          PROVE  cache[h] # NoEntry /\ Same(cache[h].obj, cache'[h].obj)
      <3>1. /\ cache[h] \in Entry /\ cache[h] # NoEntry
            /\ cache'[h].obj = Lapsed(cache[h].obj, h, now + 1)
        BY <1>10, <2>2, TickObjects
      <3>2. cache[h].obj \in Object \cup {NoObject}
        BY <3>1 DEF Entry
      <3>3. QED
        BY <3>1, <3>2, LapsedSame
    <2>3. QED
      BY <1>1, <2>1, <2>2, AgedObjects
  <1>9. QED
    BY <1>3, <1>4, <1>5, <1>6, <1>7, <1>8, <1>10 DEF Next

(***************************************************************************)
(* The theorems.                                                           *)
(***************************************************************************)

LEMMA InitTInv == Init => EditInv /\ ObjInv
  <1> SUFFICES ASSUME Init PROVE EditInv /\ ObjInv
    OBVIOUS
  <1>1. \A a \in Admins : task[a].pc = "idle"
    BY DEF Init, IdleTask
  <1>2. \A r \in Requests : req[r].obj = NoObject
    BY DEF Init, IdleRequest
  <1>3. \A h \in Hashes : cache[h] = NoEntry
    BY DEF Init
  <1>4. QED
    BY <1>1, <1>2, <1>3 DEF EditInv, EditOK, ObjInv

LEMMA TInductive == Spec => []TInv
  <1>1. Init => TInv
    BY InitIInv, InitTInv DEF TInv
  <1>2. TInv /\ [Next]_vars => TInv'
    BY StepIInv, EditStep, ObjectStep DEF TInv
  <1>3. QED
    BY <1>1, <1>2, PTL DEF Spec

\* A blocked key is unblocked only by the commit of an operation that is meant
\* to, however many operators edit copies of its row at once.
THEOREM BlocksHold == Spec => BlockIsNotOverwritten
  <1>1. TInv /\ [Next]_vars => [NoStrayUnblock]_row
    BY BlockStep DEF TInv
  <1>2. Spec => [][NoStrayUnblock]_row
    BY <1>1, TInductive, PTL DEF Spec
  <1>3. QED
    BY <1>2 DEF BlockIsNotOverwritten, NoStrayUnblock

\* A request is never admitted on a key that has expired, cached or not.
THEOREM ExpiryHolds == Spec => []ExpiryIsImmediate
  <1>1. TInv => ExpiryIsImmediate
    <2> SUFFICES ASSUME TInv, NEW r \in Requests, req[r].pc = "authed",
                        req[r].obj # NoObject, Present(req[r].obj.key)
                 PROVE  row[req[r].obj.key].expires >= req[r].at
      BY DEF ExpiryIsImmediate
    <2>1. /\ ~(req[r].obj.row.expires < req[r].at)
          /\ req[r].obj.row.expires <= row[req[r].obj.key].expires
      BY DEF TInv, ObjInv, Older
    <2>2. req[r].obj.row.expires \in Nat /\ req[r].at \in Nat
      BY DEF TInv, IInv, ReqInv, Request, Object, Row, Times
    <2>3. row[req[r].obj.key].expires \in Nat
      BY DEF Present, Row, Times
    <2>4. QED
      BY <2>1, <2>2, <2>3
  <1>2. QED
    BY <1>1, TInductive, PTL

(***************************************************************************)
(* A block reaches the cache.                                              *)
(*                                                                         *)
(* Of every hash that was made known it is known whose it is: pub[k] are   *)
(* the hashes that the row of k has carried.  A rotation brings a hash     *)
(* that no key has had, no request can have been admitted by, and that the *)
(* cache cannot hold.                                                      *)
(***************************************************************************)
Carries(w, S) == w \in Row => w.hash \in S /\ (w.prev = NoHash \/ w.prev \in S)

Rekeys(t) == t.pc = "commit" /\ t.new.hash # t.copy.hash

PubKeys(pub) ==
  /\ pub \in [Keys -> SUBSET (1..issued)]
  /\ \A j, k \in Keys : j # k => pub[j] \cap pub[k] = {}

PubRows(pub) == \A k \in Keys : Carries(row[k], pub[k])

TaskPub(t, pub) ==
  /\ t.pc \in {"apply", "commit"} => Carries(t.copy, pub[t.key])
  /\ t.pc = "commit" => t.new.prev = NoHash \/ t.new.prev \in pub[t.key]
  /\ Rekeys(t) => \A k \in Keys : t.new.hash \notin pub[k]

PubTasks(pub) ==
  /\ \A a \in Admins : TaskPub(task[a], pub)
  /\ \A a \in Admins : Rekeys(task[a]) => task[a].new.hash \in 1..issued
  /\ \A a, b \in Admins :
       a # b /\ Rekeys(task[a]) /\ Rekeys(task[b]) => task[a].new.hash # task[b].new.hash

PubLoads(pub) ==
  \A r \in Requests : req[r].pc \in {"owner", "fill"} => req[r].hash \in pub[req[r].obj.key]

PubCache(pub) == \A h \in Hashes : cache[h] # NoEntry => \E k \in Keys : h \in pub[k]

PubOK(pub) == PubKeys(pub) /\ PubRows(pub) /\ PubTasks(pub) /\ PubLoads(pub) /\ PubCache(pub)

PubInv == \E pub : PubOK(pub)

\* An object on its way to the cache that has not changed since is the row.
CurrentInv ==
  \A r \in Requests :
    req[r].pc \in {"owner", "fill"} /\ req[r].obj.staleSince = Never =>
      Present(req[r].obj.key) /\ row[req[r].obj.key] = req[r].obj.row

\* An entry that does not admit, or that was out of date when it was stored.
Harmless(e) == e = NoEntry \/ e.obj.row.blocked \/ e.bornStale

\* An operation on k that is about to drop the entry of the hash h.
Clears(t, k, h) ==
  /\ t.key = k
  /\ \/ t.pc = "refresh" /\ t.op \in {"block", "unblock"}
     \/ t.pc = "invalidate" /\ t.copy.hash = h

Cleared(k) == Harmless(cache[row[k].hash]) \/ \E a \in Admins : Clears(task[a], k, row[k].hash)

BlockInv == \A k \in Keys : Present(k) /\ row[k].blocked => Cleared(k)

BlockEdit(t) ==
  t.pc = "commit" => t.op = "block" \/ t.new.blocked = t.copy.blocked \/ ~t.new.blocked

BlockEdits == \A a \in Admins : BlockEdit(task[a])

\* A step that ages what was loaded and drops what was cached, and does no more
\* to either.
Aging ==
  /\ \A r \in Requests :
       /\ req'[r].pc = req[r].pc /\ req'[r].hash = req[r].hash
       /\ req[r].pc \in {"owner", "fill"} =>
            /\ req'[r].obj.key = req[r].obj.key /\ req'[r].obj.row = req[r].obj.row
            /\ req'[r].obj.staleSince = Never =>
                 /\ req[r].obj.staleSince = Never
                 /\ row'[req[r].obj.key] = row[req[r].obj.key]
  /\ \A h \in Hashes :
       \/ cache'[h] = NoEntry
       \/ /\ cache[h] # NoEntry /\ cache'[h].bornStale = cache[h].bornStale
          /\ cache'[h].obj.row = cache[h].obj.row

LEMMA StillAges ==
  ASSUME row' = row, req' = req, \A h \in Hashes : cache'[h] = cache[h] \/ cache'[h] = NoEntry
  PROVE  Aging
  BY DEF Aging

\* An object that is not out of date after its history may have been closed
\* was not before, and its row is not among those that changed.
LEMMA OutdatedAging ==
  ASSUME IInv, NEW obj \in Object, NEW S, NEW u
  PROVE  /\ Outdated(obj, S).staleSince = Never => obj.staleSince = Never /\ obj.key \notin S
         /\ OutdatedByUser(obj, u).staleSince = Never => obj.staleSince = Never
  <1>1. now # Never /\ obj # NoObject
    BY NullAssumption DEF IInv, DbInv
  <1>2. [obj EXCEPT !.staleSince = now].staleSince = now
    BY DEF Object
  <1>3. QED
    BY <1>1, <1>2 DEF Outdated, OutdatedByUser

LEMMA RowsAge ==
  ASSUME IInv, NEW new, ChangeRows(new)
  PROVE  Aging
  <1> DEFINE S == {k \in Keys : new[k] # row[k]}
  <1>1. /\ req' = [r \in Requests |-> [req[r] EXCEPT !.obj = Outdated(@, S)]]
        /\ cache' = [h \in Hashes |-> IF cache[h] = NoEntry THEN NoEntry
                                      ELSE [cache[h] EXCEPT !.obj = Outdated(@, S)]]
        /\ row' = new
    BY DEF ChangeRows
  <1>2. \A k \in Keys : k \notin S => row'[k] = row[k]
    BY <1>1
  <1> HIDE DEF S
  <1>3. ASSUME NEW r \in Requests
        PROVE  /\ req'[r].pc = req[r].pc /\ req'[r].hash = req[r].hash
               /\ req[r].pc \in {"owner", "fill"} =>
                    /\ req'[r].obj.key = req[r].obj.key /\ req'[r].obj.row = req[r].obj.row
                    /\ req'[r].obj.staleSince = Never =>
                         /\ req[r].obj.staleSince = Never
                         /\ row'[req[r].obj.key] = row[req[r].obj.key]
    <2>1. req[r] \in Request
      BY DEF IInv, ReqInv
    <2>2. /\ req'[r].obj = Outdated(req[r].obj, S)
          /\ req'[r].pc = req[r].pc /\ req'[r].hash = req[r].hash
      BY <1>1, <2>1 DEF Request
    <2>3. ASSUME req[r].pc \in {"owner", "fill"}
          PROVE  /\ req'[r].obj.key = req[r].obj.key /\ req'[r].obj.row = req[r].obj.row
                 /\ req'[r].obj.staleSince = Never =>
                      /\ req[r].obj.staleSince = Never
                      /\ row'[req[r].obj.key] = row[req[r].obj.key]
      <3>1. req[r].obj \in Object /\ req[r].obj.key \in Keys
        BY <2>3 DEF IInv, ReqInv, RequestOK, Object
      <3>2. Same(req[r].obj, req'[r].obj)
        BY <2>2, <3>1, OutdatedSame
      <3>3. req'[r].obj.staleSince = Never =>
              req[r].obj.staleSince = Never /\ req[r].obj.key \notin S
        BY <2>2, <3>1, OutdatedAging
      <3>4. QED
        BY <1>2, <3>1, <3>2, <3>3 DEF Same
    <2>4. QED
      BY <2>2, <2>3
  <1>4. ASSUME NEW h \in Hashes, cache'[h] # NoEntry
        PROVE  /\ cache[h] # NoEntry /\ cache'[h].bornStale = cache[h].bornStale
               /\ cache'[h].obj.row = cache[h].obj.row
    <2>1. cache[h] # NoEntry
      BY <1>1, <1>4
    <2>2. cache[h] \in Entry /\ cache[h].obj \in Object \cup {NoObject}
      BY <2>1 DEF IInv, CacheInv, Entry
    <2>3. cache'[h].obj = Outdated(cache[h].obj, S) /\ cache'[h].bornStale = cache[h].bornStale
      BY <1>1, <2>1, <2>2 DEF Entry
    <2>4. Same(cache[h].obj, Outdated(cache[h].obj, S))
      BY <2>2, OutdatedSame
    <2>5. QED
      BY <2>1, <2>3, <2>4 DEF Same
  <1>5. QED
    BY <1>3, <1>4 DEF Aging

LEMMA UserAges ==
  ASSUME IInv, NEW u, NEW state, ChangeUser(u, state), row' = row
  PROVE  Aging
  <1>1. /\ req' = [r \in Requests |-> [req[r] EXCEPT !.obj = OutdatedByUser(@, u)]]
        /\ cache' = [h \in Hashes |-> IF cache[h] = NoEntry THEN NoEntry
                                      ELSE [cache[h] EXCEPT !.obj = OutdatedByUser(@, u)]]
    BY DEF ChangeUser
  <1>2. ASSUME NEW r \in Requests
        PROVE  /\ req'[r].pc = req[r].pc /\ req'[r].hash = req[r].hash
               /\ req[r].pc \in {"owner", "fill"} =>
                    /\ req'[r].obj.key = req[r].obj.key /\ req'[r].obj.row = req[r].obj.row
                    /\ req'[r].obj.staleSince = Never => req[r].obj.staleSince = Never
    <2>1. req[r] \in Request
      BY DEF IInv, ReqInv
    <2>2. /\ req'[r].obj = OutdatedByUser(req[r].obj, u)
          /\ req'[r].pc = req[r].pc /\ req'[r].hash = req[r].hash
      BY <1>1, <2>1 DEF Request
    <2>3. ASSUME req[r].pc \in {"owner", "fill"}
          PROVE  /\ req'[r].obj.key = req[r].obj.key /\ req'[r].obj.row = req[r].obj.row
                 /\ req'[r].obj.staleSince = Never => req[r].obj.staleSince = Never
      <3>1. req[r].obj \in Object
        BY <2>3 DEF IInv, ReqInv, RequestOK
      <3>2. Same(req[r].obj, req'[r].obj)
        BY <2>2, <3>1, OutdatedSame
      <3>3. QED
        BY <2>2, <3>1, <3>2, OutdatedAging DEF Same
    <2>4. QED
      BY <2>2, <2>3
  <1>3. ASSUME NEW h \in Hashes, cache'[h] # NoEntry
        PROVE  /\ cache[h] # NoEntry /\ cache'[h].bornStale = cache[h].bornStale
               /\ cache'[h].obj.row = cache[h].obj.row
    <2>1. cache[h] # NoEntry
      BY <1>1, <1>3
    <2>2. cache[h] \in Entry /\ cache[h].obj \in Object \cup {NoObject}
      BY <2>1 DEF IInv, CacheInv, Entry
    <2>3. /\ cache'[h].obj = OutdatedByUser(cache[h].obj, u)
          /\ cache'[h].bornStale = cache[h].bornStale
      BY <1>1, <2>1, <2>2 DEF Entry
    <2>4. Same(cache[h].obj, OutdatedByUser(cache[h].obj, u))
      BY <2>2, OutdatedSame
    <2>5. QED
      BY <2>1, <2>3, <2>4 DEF Same
  <1>4. QED
    BY <1>2, <1>3 DEF Aging

LEMMA TickAges ==
  ASSUME IInv, Tick
  PROVE  Aging
  <1>1. ASSUME NEW r \in Requests
        PROVE  /\ req'[r].pc = req[r].pc /\ req'[r].hash = req[r].hash
               /\ req[r].pc \in {"owner", "fill"} =>
                    /\ req'[r].obj.key = req[r].obj.key /\ req'[r].obj.row = req[r].obj.row
                    /\ req'[r].obj.staleSince = Never => req[r].obj.staleSince = Never
    <2>1. /\ req[r].obj \in Object \cup {NoObject} /\ now + 1 # Never
          /\ req'[r].pc = req[r].pc /\ req'[r].hash = req[r].hash
          /\ req'[r].obj = Lapsed(req[r].obj, req[r].hash, now + 1)
      BY TickObjects
    <2>2. /\ Same(req[r].obj, req'[r].obj)
          /\ req'[r].obj.staleSince = Never => req'[r].obj = req[r].obj
      BY <2>1, LapsedSame
    <2>3. QED
      BY <2>1, <2>2 DEF Same
  <1>2. ASSUME NEW h \in Hashes, cache'[h] # NoEntry
        PROVE  /\ cache[h] # NoEntry /\ cache'[h].bornStale = cache[h].bornStale
               /\ cache'[h].obj.row = cache[h].obj.row
    <2>1. /\ cache[h] \in Entry /\ cache[h] # NoEntry
          /\ cache'[h].bornStale = cache[h].bornStale
          /\ cache'[h].obj = Lapsed(cache[h].obj, h, now + 1)
      BY <1>2, TickObjects
    <2>2. cache[h].obj \in Object \cup {NoObject}
      BY <2>1 DEF Entry
    <2>3. QED
      BY <2>1, <2>2, LapsedSame DEF Same
  <1>3. row' = row
    BY TickObjects
  <1>4. QED
    BY <1>1, <1>2, <1>3 DEF Aging

LEMMA AgingKeeps ==
  ASSUME Aging
  PROVE  /\ CurrentInv => CurrentInv'
         /\ \A h \in Hashes : Harmless(cache[h]) => Harmless(cache'[h])
         /\ \A pub : PubCache(pub) => PubCache(pub)'
         /\ \A pub : PubLoads(pub) => PubLoads(pub)'
  <1>1. CurrentInv => CurrentInv'
    BY DEF Aging, CurrentInv, Present
  <1>2. \A h \in Hashes : Harmless(cache[h]) => Harmless(cache'[h])
    BY DEF Aging, Harmless
  <1>3. \A pub : PubCache(pub) => PubCache(pub)'
    BY DEF Aging, PubCache
  <1>4. \A pub : PubLoads(pub) => PubLoads(pub)'
    BY DEF Aging, PubLoads
  <1>5. QED
    BY <1>1, <1>2, <1>3, <1>4

\* No operation but a rotation touches the hashes, and only a block blocks.
LEMMA EditsKeep ==
  ASSUME NEW op \in Ops, NEW copy \in Row, NEW new \in Edits(op, copy)
  PROVE  /\ new.hash = copy.hash /\ new.prev = copy.prev /\ new.grace = copy.grace
         /\ op = "block" \/ new.blocked = copy.blocked \/ ~new.blocked
  <1>1. CASE op = "block"
    BY <1>1 DEF Edits, Row
  <1>2. CASE op = "unblock"
    BY <1>2 DEF Edits, Row
  <1>3. CASE op = "reactivate"
    BY <1>3 DEF Edits, Row
  <1>4. CASE op = "update"
    BY <1>4 DEF Edits, Row
  <1>5. CASE op \in {"delete", "rotate"}
    BY <1>5 DEF Edits
  <1>6. QED
    BY <1>1, <1>2, <1>3, <1>4, <1>5

\* A step of one operation that leaves the table alone.
LEMMA PubTask ==
  ASSUME IInv, NEW pub, PubOK(pub), NEW a \in Admins, NEW t,
         task' = [task EXCEPT ![a] = t], Aging, row' = row,
         issued' \in {issued, issued + 1},
         TaskPub(t, pub),
         Rekeys(t) => t.new.hash \in 1..issued',
         \A b \in Admins \ {a} : Rekeys(t) /\ Rekeys(task[b]) => t.new.hash # task[b].new.hash
  PROVE  PubOK(pub)'
  <1>1. task'[a] = t /\ \A b \in Admins : b # a => task'[b] = task[b]
    BY DEF IInv, TaskInv
  <1>2. issued \in Nat /\ 1..issued \subseteq 1..issued'
    BY DEF IInv, DbInv
  <1>3. PubKeys(pub)'
    BY <1>2 DEF PubOK, PubKeys
  <1>4. PubRows(pub)'
    BY DEF PubOK, PubRows
  <1>5. \A b \in Admins : TaskPub(task'[b], pub)
    BY <1>1 DEF PubOK, PubTasks
  <1>6. \A b \in Admins : Rekeys(task'[b]) => task'[b].new.hash \in 1..issued'
    BY <1>1, <1>2 DEF PubOK, PubTasks
  <1>7. \A b, c \in Admins :
          b # c /\ Rekeys(task'[b]) /\ Rekeys(task'[c]) => task'[b].new.hash # task'[c].new.hash
    <2> SUFFICES ASSUME NEW b \in Admins, NEW c \in Admins,
                        b # c, Rekeys(task'[b]), Rekeys(task'[c])
                 PROVE  task'[b].new.hash # task'[c].new.hash
      OBVIOUS
    <2>1. CASE b = a
      BY <1>1, <2>1
    <2>2. CASE c = a
      BY <1>1, <2>2
    <2>3. CASE b # a /\ c # a
      BY <1>1, <2>3 DEF PubOK, PubTasks
    <2>4. QED
      BY <2>1, <2>2, <2>3
  <1>8. PubTasks(pub)'
    BY <1>5, <1>6, <1>7 DEF PubTasks, Rekeys, TaskPub
  <1>9. QED
    BY <1>3, <1>4, <1>8, AgingKeeps DEF PubOK

\* A step of one request.
LEMMA PubRequest ==
  ASSUME IInv, NEW pub, PubOK(pub), NEW r \in Requests, NEW q,
         req' = [req EXCEPT ![r] = q], UNCHANGED <<row, issued, task>>,
         q.pc \in {"owner", "fill"} => q.hash \in pub[q.obj.key],
         \A h \in Hashes : cache'[h] # NoEntry =>
           cache[h] # NoEntry \/ \E k \in Keys : h \in pub[k]
  PROVE  PubOK(pub)'
  <1>1. req'[r] = q /\ \A s \in Requests : s # r => req'[s] = req[s]
    BY DEF IInv, ReqInv
  <1>2. PubKeys(pub)' /\ PubRows(pub)' /\ PubTasks(pub)'
    BY DEF PubOK, PubKeys, PubRows, PubTasks, Carries, TaskPub, Rekeys
  <1>3. PubLoads(pub)'
    BY <1>1 DEF PubOK, PubLoads
  <1>4. PubCache(pub)'
    BY DEF PubOK, PubCache
  <1>5. QED
    BY <1>2, <1>3, <1>4 DEF PubOK

\* A change of rows that makes no hash known.
LEMMA PubSame ==
  ASSUME IInv, NEW pub, PubOK(pub), Aging, issued' = issued,
         \A k \in Keys : Carries(row'[k], pub[k]),
         \A a \in Admins : task'[a] = task[a] \/ task'[a].pc \notin {"apply", "commit"}
  PROVE  PubOK(pub)'
  <1>1. PubKeys(pub)' /\ PubRows(pub)'
    BY DEF PubOK, PubKeys, PubRows
  <1>2. \A a \in Admins : TaskPub(task'[a], pub)
    BY DEF PubOK, PubTasks, TaskPub, Rekeys
  <1>3. \A a \in Admins : Rekeys(task'[a]) => task'[a] = task[a]
    BY DEF Rekeys
  <1>4. \A a \in Admins : Rekeys(task'[a]) => task'[a].new.hash \in 1..issued'
    BY <1>3 DEF PubOK, PubTasks
  <1>5. \A a, b \in Admins :
          a # b /\ Rekeys(task'[a]) /\ Rekeys(task'[b]) => task'[a].new.hash # task'[b].new.hash
    BY <1>3 DEF PubOK, PubTasks
  <1>6. PubTasks(pub)'
    BY <1>2, <1>4, <1>5 DEF PubTasks
  <1>7. QED
    BY <1>1, <1>6, AgingKeeps DEF PubOK

\* A change that makes the hash h known, as one of k's.
LEMMA PubGrows ==
  ASSUME IInv, NEW pub, PubOK(pub), Aging, issued' \in {issued, issued + 1},
         NEW k \in Keys, NEW h \in 1..issued', \A j \in Keys : h \notin pub[j],
         \A j \in Keys : j # k => row'[j] = row[j],
         Carries(row'[k], pub[k] \cup {h}),
         \A a \in Admins : task'[a] = task[a] \/ task'[a].pc \notin {"apply", "commit"},
         \A a \in Admins : Rekeys(task'[a]) => task'[a].new.hash # h
  PROVE  PubInv'
  <1> DEFINE more == [pub EXCEPT ![k] = pub[k] \cup {h}]
  <1>1. pub \in [Keys -> SUBSET (1..issued)] /\ issued \in Nat /\ 1..issued \subseteq 1..issued'
    BY DEF PubOK, PubKeys, IInv, DbInv
  <1>2. /\ more[k] = pub[k] \cup {h} /\ \A j \in Keys : j # k => more[j] = pub[j]
        /\ more \in [Keys -> SUBSET (1..issued')]
    BY <1>1
  <1>3. \A j \in Keys : pub[j] \subseteq more[j] /\ more[j] \subseteq pub[j] \cup {h}
    BY <1>2
  <1> HIDE DEF more
  <1>4. \A i, j \in Keys : i # j => more[i] \cap more[j] = {}
    <2> SUFFICES ASSUME NEW i \in Keys, NEW j \in Keys, i # j PROVE more[i] \cap more[j] = {}
      OBVIOUS
    <2>1. pub[i] \cap pub[j] = {} /\ h \notin pub[i] /\ h \notin pub[j]
      BY DEF PubOK, PubKeys
    <2>2. CASE i = k
      BY <1>2, <2>1, <2>2
    <2>3. CASE j = k
      BY <1>2, <2>1, <2>3
    <2>4. CASE i # k /\ j # k
      BY <1>2, <2>1, <2>4
    <2>5. QED
      BY <2>2, <2>3, <2>4
  <1>5. PubKeys(more)'
    BY <1>2, <1>4 DEF PubKeys
  <1>6. PubRows(more)'
    BY <1>2 DEF PubOK, PubRows, Carries
  <1>7. \A a \in Admins : task'[a].pc \in {"apply", "commit"} => task'[a] = task[a]
    OBVIOUS
  <1>8. \A a \in Admins : TaskPub(task'[a], more)
    <2> SUFFICES ASSUME NEW a \in Admins, task'[a].pc \in {"apply", "commit"}
                 PROVE  TaskPub(task'[a], more)
      BY DEF TaskPub, Rekeys
    <2>1. task'[a] = task[a] /\ task[a].key \in Keys /\ TaskPub(task[a], pub)
      BY <1>7 DEF IInv, TaskInv, Task, PubOK, PubTasks
    <2>2. pub[task[a].key] \subseteq more[task[a].key]
      BY <1>3, <2>1
    <2>3. Carries(task[a].copy, pub[task[a].key]) => Carries(task[a].copy, more[task[a].key])
      BY <2>2 DEF Carries
    <2>4. Rekeys(task[a]) => \A j \in Keys : task[a].new.hash \notin more[j]
      BY <1>3, <2>1 DEF TaskPub
    <2>5. QED
      BY <2>1, <2>2, <2>3, <2>4 DEF TaskPub
  <1>9. \A a \in Admins : Rekeys(task'[a]) => task'[a].new.hash \in 1..issued'
    BY <1>1, <1>7 DEF PubOK, PubTasks, Rekeys
  <1>10. \A a, b \in Admins :
          a # b /\ Rekeys(task'[a]) /\ Rekeys(task'[b]) => task'[a].new.hash # task'[b].new.hash
    BY <1>7 DEF PubOK, PubTasks, Rekeys
  <1>11. PubTasks(more)'
    BY <1>8, <1>9, <1>10 DEF PubTasks
  <1>12. PubLoads(more)'
    <2> SUFFICES ASSUME NEW r \in Requests, req'[r].pc \in {"owner", "fill"}
                 PROVE  req'[r].hash \in more[req'[r].obj.key]
      BY DEF PubLoads
    <2>1. /\ req'[r].hash = req[r].hash /\ req'[r].obj.key = req[r].obj.key
          /\ req[r].pc \in {"owner", "fill"}
      BY DEF Aging
    <2>2. req[r].hash \in pub[req[r].obj.key] /\ req[r].obj.key \in Keys
      BY <2>1 DEF PubOK, PubLoads, IInv, ReqInv, RequestOK, Object
    <2>3. QED
      BY <1>3, <2>1, <2>2
  <1>13. PubCache(more)'
    BY <1>3, AgingKeeps DEF PubOK, PubCache
  <1>14. QED
    BY <1>5, <1>6, <1>11, <1>12, <1>13 DEF PubInv, PubOK

LEMMA PubRequestStep ==
  ASSUME IInv, NEW pub, PubOK(pub), NEW r \in Requests, Authenticate(r)
  PROVE  PubOK(pub)'
  <1>1. /\ UNCHANGED <<row, issued, task>> /\ req[r] \in Request
        /\ req[r].pc \in {"owner", "fill"} => req[r].hash \in pub[req[r].obj.key]
    BY DEF Authenticate, AuthHit, AuthMiss, AuthLookup, AuthLoadOwner, AuthFill, KeyHit,
           KeyMiss, KeyLookup, Finish, IInv, ReqInv, PubOK, PubLoads
  <1>2. ASSUME NEW q, req' = [req EXCEPT ![r] = q], q.pc \notin {"owner", "fill"}, cache' = cache
        PROVE  PubOK(pub)'
    BY <1>1, <1>2, PubRequest
  <1>3. ASSUME NEW h \in Hashes, AuthHit(r, h) PROVE PubOK(pub)'
    <2>1. Decided(r, h, cache[h].obj).pc \notin {"owner", "fill"}
      BY <1>1 DEF Decided, Request
    <2>2. cache' = cache
      BY <1>3 DEF AuthHit, AfterHit, IInv, CacheInv
    <2>3. QED
      BY <1>2, <1>3, <2>1, <2>2 DEF AuthHit
  <1>4. ASSUME NEW h \in Hashes, AuthMiss(r, h) PROVE PubOK(pub)'
    <2>1. [IdleRequest EXCEPT !.pc = "lookup", !.hash = h].pc \notin {"owner", "fill"}
      BY DEF IdleRequest
    <2>2. QED
      BY <1>2, <1>4, <2>1 DEF AuthMiss
  <1>5. CASE AuthLookup(r)
    <2>1. cache' = cache
      BY <1>5 DEF AuthLookup
    <2>2. ASSUME NEW k \in Keys, Accepts(k, req[r].hash),
                 req' = [req EXCEPT ![r].pc = "owner", ![r].readAt = now,
                       ![r].obj = [key |-> k, row |-> row[k], owner |-> "unread",
                                   staleSince |-> Never]]
          PROVE  PubOK(pub)'
      <3> DEFINE o == [key |-> k, row |-> row[k], owner |-> "unread", staleSince |-> Never]
                 q == [req[r] EXCEPT !.pc = "owner", !.readAt = now, !.obj = o]
      <3>1. q.obj = o /\ q.hash = req[r].hash /\ o.key = k
        BY <1>1 DEF Request
      <3>2. req[r].hash \in pub[k]
        <4>1. row[k] \in Row /\ req[r].hash \in Hashes /\ Carries(row[k], pub[k])
          BY <1>1, <2>2 DEF Accepts, IInv, DbInv, Request, PubOK, PubRows
        <4>2. row[k].hash = req[r].hash \/ row[k].prev = req[r].hash
          BY <2>2 DEF Accepts
        <4>3. QED
          BY <4>1, <4>2, NullAssumption DEF Carries
      <3>3. req' = [req EXCEPT ![r] = q]
        BY <2>2 DEF IInv, ReqInv
      <3> HIDE DEF q, o
      <3>4. QED
        BY <1>1, <2>1, <3>1, <3>2, <3>3, PubRequest
    <2>3. CASE req' = [req EXCEPT ![r].pc = "refused", ![r].at = now]
      <3> DEFINE q == [req[r] EXCEPT !.pc = "refused", !.at = now]
      <3>1. q.pc = "refused" /\ req' = [req EXCEPT ![r] = q]
        BY <1>1, <2>3 DEF Request, IInv, ReqInv
      <3> HIDE DEF q
      <3>2. QED
        BY <1>2, <2>1, <3>1
    <2>4. QED
      BY <1>5, <2>2, <2>3 DEF AuthLookup
  <1>6. CASE AuthLoadOwner(r)
    <2> DEFINE o == [req[r].obj EXCEPT !.owner = user[Owner[req[r].obj.key]]]
               q == [req[r] EXCEPT !.pc = "fill", !.obj = o]
    <2>1. req[r].obj \in Object /\ req[r].pc = "owner"
      BY <1>6 DEF AuthLoadOwner, IInv, ReqInv, RequestOK
    <2>2. o.key = req[r].obj.key
      BY <2>1 DEF Object
    <2>3. q.obj = o /\ q.hash = req[r].hash
      BY <1>1 DEF Request
    <2>4. req' = [req EXCEPT ![r] = q] /\ cache' = cache
      BY <1>6 DEF AuthLoadOwner, IInv, ReqInv
    <2> HIDE DEF q, o
    <2>5. QED
      BY <1>1, <2>1, <2>2, <2>3, <2>4, PubRequest
  <1>7. CASE AuthFill(r)
    <2> DEFINE e == [obj |-> req[r].obj, filledAt |-> now, bornStale |-> req[r].obj.staleSince # Never]
    <2>1. Store(req[r].hash, e) /\ req' = [req EXCEPT ![r] = Decided(r, req[r].hash, req[r].obj)]
      BY <1>7 DEF AuthFill
    <2> HIDE DEF e
    <2>2. \A h \in Hashes : cache'[h] # NoEntry => cache[h] # NoEntry \/ h = req[r].hash
      BY <2>1 DEF Store, IInv, CacheInv
    <2>3. req[r].obj.key \in Keys /\ req[r].hash \in pub[req[r].obj.key]
      BY <1>1, <1>7 DEF AuthFill, IInv, ReqInv, RequestOK, Object
    <2>4. Decided(r, req[r].hash, req[r].obj).pc \notin {"owner", "fill"}
      BY <1>1 DEF Decided, Request
    <2>5. QED
      BY <1>1, <2>1, <2>2, <2>3, <2>4, PubRequest
  <1>8. CASE KeyHit(r)
    <2> DEFINE q == [req[r] EXCEPT !.pc = "served", !.obj = cache[req[r].hash].obj, !.at = now]
    <2>1. q.pc = "served" /\ req' = [req EXCEPT ![r] = q]
      BY <1>1, <1>8 DEF KeyHit, Request, IInv, ReqInv
    <2>2. cache' = cache
      BY <1>8 DEF KeyHit, AfterHit, IInv, CacheInv
    <2> HIDE DEF q
    <2>3. QED
      BY <1>2, <2>1, <2>2
  <1>9. CASE KeyMiss(r)
    <2> DEFINE q == [req[r] EXCEPT !.pc = "key"]
    <2>1. q.pc = "key" /\ req' = [req EXCEPT ![r] = q] /\ cache' = cache
      BY <1>1, <1>9 DEF KeyMiss, Request, IInv, ReqInv
    <2> HIDE DEF q
    <2>2. QED
      BY <1>2, <2>1
  <1>10. CASE KeyLookup(r)
    <2>1. PICK o : req' = [req EXCEPT ![r].pc = "served", ![r].at = now, ![r].obj = o]
      BY <1>10 DEF KeyLookup
    <2> DEFINE q == [req[r] EXCEPT !.pc = "served", !.at = now, !.obj = o]
    <2>2. q.pc = "served" /\ req' = [req EXCEPT ![r] = q]
      BY <1>1, <2>1 DEF Request, IInv, ReqInv
    <2>3. cache' = cache
      BY <1>10 DEF KeyLookup
    <2> HIDE DEF q
    <2>4. QED
      BY <1>2, <2>2, <2>3
  <1>11. CASE Finish(r)
    <2>1. IdleRequest.pc \notin {"owner", "fill"}
      BY DEF IdleRequest
    <2>2. QED
      BY <1>2, <1>11, <2>1 DEF Finish
  <1>12. QED
    BY <1>3, <1>4, <1>5, <1>6, <1>7, <1>8, <1>9, <1>10, <1>11 DEF Authenticate

LEMMA PubCommit ==
  ASSUME IInv, NEW pub, PubOK(pub), NEW a \in Admins, AdminCommit(a)
  PROVE  PubInv'
  <1> DEFINE t == task[a]
             k == task[a].key
             w == Merged(row[k], t.copy, t.new)
  <1>1. /\ t \in Task /\ k \in Keys /\ t.pc = "commit" /\ t.copy \in Row /\ t.new \in Row
        /\ TaskPub(t, pub) /\ issued' = issued
        /\ \A b \in Admins : b # a => task'[b] = task[b]
        /\ task'[a].pc \notin {"apply", "commit"}
    <2>1. task \in [Admins -> Task] /\ TaskOK(t) /\ TaskPub(t, pub)
      BY DEF IInv, TaskInv, PubOK, PubTasks
    <2>2. t \in Task /\ k \in Keys
      BY <2>1 DEF Task
    <2>3. t.pc = "commit" /\ issued' = issued
      BY DEF AdminCommit
    <2>4. PICK u : task' = [task EXCEPT ![a] = u] /\ u.pc \notin {"apply", "commit"}
      <3>1. /\ [IdleTask(k) EXCEPT !.pc = "refresh", !.op = t.op].pc \notin {"apply", "commit"}
            /\ IdleTask(k).pc \notin {"apply", "commit"}
        BY DEF IdleTask
      <3>2. \/ task' = [task EXCEPT ![a] = [IdleTask(k) EXCEPT !.pc = "refresh", !.op = t.op]]
            \/ task' = [task EXCEPT ![a] = IdleTask(k)]
        BY DEF AdminCommit
      <3>3. QED
        BY <3>1, <3>2
    <2>5. QED
      BY <2>1, <2>2, <2>3, <2>4 DEF TaskOK
  <1>2. \A j \in Keys : Carries(row[j], pub[j])
    BY DEF PubOK, PubRows
  <1>3. CASE UNCHANGED <<row, cache, req>>
    <2>1. Aging
      BY <1>3, StillAges
    <2>2. \A j \in Keys : Carries(row'[j], pub[j])
      BY <1>2, <1>3
    <2>3. QED
      BY <1>1, <2>1, <2>2, PubSame DEF PubInv
  <1>4. CASE Present(k) /\ ChangeRows([row EXCEPT ![k] = w])
    <2>1. Aging
      BY <1>4, RowsAge
    <2>2. row' = [row EXCEPT ![k] = w] /\ row[k] \in Row
      BY <1>4 DEF ChangeRows, Present
    <2>3. row'[k] = w /\ \A j \in Keys : j # k => row'[j] = row[j]
      BY <1>1, <2>2 DEF IInv, DbInv
    <2>4. /\ w.hash = IF t.new.hash # t.copy.hash THEN t.new.hash ELSE row[k].hash
          /\ w.prev = IF t.new.prev # t.copy.prev THEN t.new.prev ELSE row[k].prev
      BY DEF Merged
    <2>5. w.prev = NoHash \/ w.prev \in pub[k]
      BY <1>1, <1>2, <2>2, <2>4 DEF TaskPub, Carries
    <2>6. CASE t.new.hash = t.copy.hash
      <3>1. w.hash \in pub[k]
        BY <1>1, <1>2, <2>2, <2>4, <2>6 DEF Carries
      <3>2. \A j \in Keys : Carries(row'[j], pub[j])
        BY <1>2, <2>3, <2>5, <3>1 DEF Carries
      <3>3. QED
        BY <1>1, <2>1, <3>2, PubSame DEF PubInv
    <2>7. CASE t.new.hash # t.copy.hash
      <3>1. PICK h : h = t.new.hash
        OBVIOUS
      <3>2. Rekeys(t)
        BY <1>1, <2>7 DEF Rekeys
      <3>3. h \in 1..issued' /\ \A j \in Keys : h \notin pub[j]
        BY <1>1, <3>1, <3>2 DEF TaskPub, PubOK, PubTasks
      <3>4. w.hash = h
        BY <2>4, <2>7, <3>1
      <3>5. Carries(row'[k], pub[k] \cup {h})
        BY <2>3, <2>5, <3>4 DEF Carries
      <3>6. \A b \in Admins : Rekeys(task'[b]) => task'[b].new.hash # h
        BY <1>1, <3>1, <3>2 DEF Rekeys, PubOK, PubTasks
      <3> HIDE DEF t, k, w
      <3>7. QED
        BY <1>1, <2>1, <2>3, <3>3, <3>5, <3>6, PubGrows
    <2>8. QED
      BY <2>6, <2>7
  <1>5. QED
    BY <1>3, <1>4 DEF AdminCommit

LEMMA PubOperation ==
  ASSUME IInv, NEW pub, PubOK(pub), NEW a \in Admins, Administer(a)
  PROVE  PubInv'
  <1>1. /\ task[a] \in Task /\ TaskOK(task[a]) /\ TaskPub(task[a], pub) /\ task[a].key \in Keys
        /\ \A k \in Keys : Carries(row[k], pub[k])
        /\ issued \in Nat
    BY DEF IInv, DbInv, TaskInv, Task, PubOK, PubTasks, PubRows
  <1>2. ASSUME NEW t, t.pc \notin {"apply", "commit"}, task' = [task EXCEPT ![a] = t],
               Aging, row' = row, issued' = issued
        PROVE  PubInv'
    <2>1. TaskPub(t, pub) /\ ~Rekeys(t)
      BY <1>2 DEF TaskPub, Rekeys
    <2>2. QED
      BY <1>2, <2>1, PubTask DEF PubInv
  <1>3. \A k : IdleTask(k).pc \notin {"apply", "commit"}
    BY DEF IdleTask
  <1>4. ASSUME NEW op \in Ops, NEW k \in Keys, AdminBegin(a, op, k) PROVE PubInv'
    <2>1. [IdleTask(k) EXCEPT !.pc = "get", !.op = op].pc \notin {"apply", "commit"}
      BY DEF IdleTask
    <2>2. Aging
      BY <1>4, StillAges DEF AdminBegin
    <2>3. QED
      BY <1>2, <1>4, <2>1, <2>2 DEF AdminBegin
  <1>5. CASE AdminGet(a)
    <2>1. Aging /\ row' = row /\ issued' = issued
      BY <1>5, StillAges DEF AdminGet
    <2>2. CASE task' = [task EXCEPT ![a] = IdleTask(task[a].key)]
      BY <1>2, <1>3, <2>1, <2>2
    <2>3. ASSUME Present(task[a].key),
                 NEW new \in Edits(task[a].op, row[task[a].key]),
                 task' = [task EXCEPT ![a].copy = row[task[a].key], ![a].new = new,
                            ![a].pc = IF task[a].op = "rotate" THEN "apply" ELSE "commit"]
          PROVE  PubInv'
      <3> DEFINE copy == row[task[a].key]
                 t == [task[a] EXCEPT !.copy = copy, !.new = new,
                                      !.pc = IF task[a].op = "rotate" THEN "apply" ELSE "commit"]
      <3>1. copy \in Row /\ task[a].op \in Ops
        BY <1>1, <1>5, <2>3 DEF Present, TaskOK, AdminGet
      <3>2. new.hash = copy.hash /\ new.prev = copy.prev
        BY <2>3, <3>1, EditsKeep
      <3>3. t.copy = copy /\ t.new = new /\ t.key = task[a].key
        BY <1>1 DEF Task
      <3>4. task' = [task EXCEPT ![a] = t]
        BY <2>3 DEF IInv, TaskInv
      <3>5. Carries(copy, pub[task[a].key])
        BY <1>1
      <3> HIDE DEF t, copy
      <3>6. TaskPub(t, pub) /\ ~Rekeys(t)
        BY <3>1, <3>2, <3>3, <3>5 DEF TaskPub, Rekeys, Carries
      <3>7. QED
        BY <2>1, <3>4, <3>6, PubTask DEF PubInv
    <2>4. QED
      BY <1>5, <2>2, <2>3 DEF AdminGet
  <1>6. ASSUME NEW grace \in Graces, AdminRotate(a, grace) PROVE PubInv'
    <2> DEFINE new == Rotated(task[a].copy, issued + 1, grace)
               t == [task[a] EXCEPT !.pc = "commit", !.new = new]
    <2>1. task[a].copy \in Row /\ Carries(task[a].copy, pub[task[a].key])
      BY <1>1, <1>6 DEF AdminRotate, TaskOK, TaskPub
    <2>2. new.hash = issued + 1 /\ new.prev = task[a].copy.hash
      BY <2>1 DEF Rotated, Row
    <2>3. t.copy = task[a].copy /\ t.new = new /\ t.key = task[a].key
      BY <1>1 DEF Task
    <2>4. /\ task' = [task EXCEPT ![a] = t] /\ row' = row /\ issued' = issued + 1 /\ req' = req
          /\ \A h \in Hashes : cache'[h] = cache[h] \/ cache'[h] = NoEntry
      BY <1>6 DEF AdminRotate, Invalidate, IInv, TaskInv, CacheInv
    <2> HIDE DEF t, new
    <2>5. Aging
      BY <2>4, StillAges
    <2>6. \A k \in Keys : issued + 1 \notin pub[k]
      BY <1>1 DEF PubOK, PubKeys
    <2>7. TaskPub(t, pub)
      BY <2>1, <2>2, <2>3, <2>6 DEF TaskPub, Carries
    <2>8. t.new.hash \in 1..issued'
      BY <1>1, <2>2, <2>3, <2>4
    <2>9. \A b \in Admins : Rekeys(task[b]) => task[b].new.hash # issued + 1
      BY <1>1 DEF PubOK, PubTasks
    <2>10. \A b \in Admins \ {a} : Rekeys(t) /\ Rekeys(task[b]) => t.new.hash # task[b].new.hash
      BY <2>2, <2>3, <2>9
    <2>11. PubOK(pub)'
      BY <2>4, <2>5, <2>7, <2>8, <2>10, PubTask
    <2>12. QED
      BY <2>11 DEF PubInv
  <1>7. CASE AdminDelete(a)
    <2>1. Aging
      BY <1>7, RowsAge DEF AdminDelete
    <2>2. \A k \in Keys : row'[k] = row[k] \/ row'[k] = GoneRow
      BY <1>7 DEF AdminDelete, ChangeRows, IInv, DbInv
    <2>3. \A k \in Keys : Carries(row'[k], pub[k])
      BY <1>1, <2>2, NullAssumption DEF Carries
    <2>4. \A b \in Admins : task'[b] = task[b] \/ task'[b].pc \notin {"apply", "commit"}
      BY <1>3, <1>7 DEF AdminDelete, IInv, TaskInv
    <2>5. QED
      BY <1>7, <2>1, <2>3, <2>4, PubSame DEF PubInv, AdminDelete
  <1>8. CASE AdminRefresh(a)
    <2>1. Aging
      BY <1>8, StillAges DEF AdminRefresh
    <2>2. [task[a] EXCEPT !.pc = "invalidate", !.copy = row[task[a].key]].pc = "invalidate"
      BY <1>1 DEF Task
    <2>3. \/ task' = [task EXCEPT ![a] = [task[a] EXCEPT !.pc = "invalidate", !.copy = row[task[a].key]]]
          \/ task' = [task EXCEPT ![a] = IdleTask(task[a].key)]
      BY <1>8 DEF AdminRefresh
    <2>4. QED
      BY <1>2, <1>3, <1>8, <2>1, <2>2, <2>3 DEF AdminRefresh
  <1>9. CASE AdminInvalidate(a)
    <2>1. Aging
      BY <1>9, StillAges DEF AdminInvalidate, Invalidate, IInv, CacheInv
    <2>2. QED
      BY <1>2, <1>3, <1>9, <2>1 DEF AdminInvalidate
  <1>10. QED
    BY <1>4, <1>5, <1>6, <1>7, <1>8, <1>9, PubCommit DEF Administer

LEMMA PubStep ==
  ASSUME IInv, PubInv, [Next]_vars
  PROVE  PubInv'
  <1>1. PICK pub : PubOK(pub)
    BY DEF PubInv
  <1>2. \A k \in Keys : Carries(row[k], pub[k])
    BY <1>1 DEF PubOK, PubRows
  <1>3. ASSUME NEW k \in Keys, NEW limit \in Limits, NEW life \in Lifetimes \cup {Never},
               GenerateKey(k, limit, life)
        PROVE  PubInv'
    <2>1. Aging
      BY <1>3, RowsAge DEF GenerateKey
    <2>2. /\ issued \in Nat /\ issued' = issued + 1 /\ task' = task
          /\ row'[k].hash = issued + 1 /\ row'[k].prev = NoHash
          /\ \A j \in Keys : j # k => row'[j] = row[j]
      BY <1>3 DEF GenerateKey, ChangeRows, IInv, DbInv
    <2>3. PICK h : h = issued + 1
      OBVIOUS
    <2>4. h \in 1..issued' /\ \A j \in Keys : h \notin pub[j]
      BY <1>1, <2>2, <2>3 DEF PubOK, PubKeys
    <2>5. \A b \in Admins : Rekeys(task'[b]) => task'[b].new.hash # h
      BY <1>1, <2>2, <2>3 DEF PubOK, PubTasks
    <2>6. Carries(row'[k], pub[k] \cup {h})
      BY <2>2, <2>3 DEF Carries
    <2>7. QED
      BY <1>1, <2>1, <2>2, <2>4, <2>5, <2>6, PubGrows
  <1>4. ASSUME NEW ids \in SUBSET Keys, NEW limit \in Limits, BulkUpdate(ids, limit)
        PROVE  PubInv'
    <2>1. Aging /\ issued' = issued /\ task' = task
      BY <1>4, RowsAge DEF BulkUpdate
    <2>2. \A k \in Keys : \/ row'[k] = row[k]
                          \/ row[k] \in Row /\ row'[k] = [row[k] EXCEPT !.limit = limit]
      BY <1>4 DEF BulkUpdate, ChangeRows, Present
    <2>3. ASSUME NEW w \in Row PROVE LET v == [w EXCEPT !.limit = limit] IN
                                     v.hash = w.hash /\ v.prev = w.prev
      BY DEF Row
    <2>4. ASSUME NEW k \in Keys PROVE Carries(row'[k], pub[k])
      <3>1. CASE row'[k] = row[k]
        BY <1>2, <3>1
      <3>2. CASE row[k] \in Row /\ row'[k] = [row[k] EXCEPT !.limit = limit]
        <4>1. row'[k].hash = row[k].hash /\ row'[k].prev = row[k].prev
          BY <2>3, <3>2
        <4>2. QED
          BY <1>2, <3>2, <4>1 DEF Carries
      <3>3. QED
        BY <2>2, <3>1, <3>2
    <2>5. QED
      BY <1>1, <2>1, <2>4, PubSame DEF PubInv
  <1>5. ASSUME Aging, row' = row, issued' = issued, task' = task PROVE PubInv'
    BY <1>1, <1>2, <1>5, PubSame DEF PubInv
  <1>6. ASSUME NEW u \in Users, DeleteUser(u) \/ \E blocked \in BOOLEAN : BlockUser(u, blocked)
        PROVE  PubInv'
    <2>1. PICK state : ChangeUser(u, state)
      BY <1>6 DEF DeleteUser, BlockUser
    <2>2. row' = row /\ issued' = issued /\ task' = task
      BY <1>6 DEF DeleteUser, BlockUser
    <2>3. Aging
      BY <2>1, <2>2, UserAges
    <2>4. QED
      BY <1>5, <2>2, <2>3
  <1>7. CASE Tick \/ UNCHANGED vars
    <2>1. UNCHANGED <<row, issued, task>>
      BY <1>7 DEF Tick, vars
    <2>2. UNCHANGED vars => Aging
      BY StillAges DEF vars
    <2>3. QED
      BY <1>5, <1>7, <2>1, <2>2, TickAges
  <1>8. QED
    BY <1>1, <1>3, <1>4, <1>6, <1>7, PubRequestStep, PubOperation DEF Next, PubInv

\* What operations do to the table and the cache ages what is loaded.
LEMMA OperationAges ==
  ASSUME IInv, NEW a \in Admins, Administer(a)
  PROVE  Aging
  <1>1. CASE AdminCommit(a)
    BY <1>1, StillAges, RowsAge DEF AdminCommit
  <1>2. CASE AdminDelete(a)
    BY <1>2, RowsAge DEF AdminDelete
  <1>3. CASE ~AdminCommit(a) /\ ~AdminDelete(a)
    <2>1. /\ UNCHANGED <<row, req>>
          /\ \A h \in Hashes : cache'[h] = cache[h] \/ cache'[h] = NoEntry
      BY <1>3 DEF Administer, AdminBegin, AdminGet, AdminRotate, AdminRefresh,
                       AdminInvalidate, Invalidate, IInv, CacheInv
    <2>2. QED
      BY <2>1, StillAges
  <1>4. QED
    BY <1>1, <1>2, <1>3

\* Steps other than a request's age what is loaded.
LEMMA NextAges ==
  ASSUME IInv, [Next]_vars
  PROVE  Aging \/ \E r \in Requests : Authenticate(r)
  <1>1. ASSUME NEW a \in Admins, Administer(a) PROVE Aging
    BY <1>1, OperationAges
  <1>2. ASSUME NEW k \in Keys, NEW limit \in Limits, NEW life \in Lifetimes \cup {Never},
               GenerateKey(k, limit, life)
        PROVE  Aging
    BY <1>2, RowsAge DEF GenerateKey
  <1>3. ASSUME NEW ids \in SUBSET Keys, NEW limit \in Limits, BulkUpdate(ids, limit)
        PROVE  Aging
    BY <1>3, RowsAge DEF BulkUpdate
  <1>4. ASSUME NEW u \in Users, DeleteUser(u) \/ \E blocked \in BOOLEAN : BlockUser(u, blocked)
        PROVE  Aging
    BY <1>4, UserAges DEF DeleteUser, BlockUser
  <1>5. CASE Tick \/ UNCHANGED vars
    <2>1. UNCHANGED vars => Aging
      BY StillAges DEF vars
    <2>2. QED
      BY <1>5, <2>1, TickAges
  <1>6. QED
    BY <1>1, <1>2, <1>3, <1>4, <1>5 DEF Next

LEMMA CurrentStep ==
  ASSUME IInv, CurrentInv, [Next]_vars
  PROVE  CurrentInv'
  <1>1. ASSUME NEW r \in Requests, Authenticate(r) PROVE CurrentInv'
    <2>1. row' = row /\ req[r] \in Request /\ req \in [Requests -> Request]
      BY <1>1 DEF Authenticate, AuthHit, AuthMiss, AuthLookup, AuthLoadOwner, AuthFill, KeyHit,
                  KeyMiss, KeyLookup, Finish, IInv, ReqInv
    <2>2. ASSUME \A s \in Requests : s # r => req'[s] = req[s],
                 req'[r].pc \in {"owner", "fill"} /\ req'[r].obj.staleSince = Never =>
                   Present(req'[r].obj.key) /\ row[req'[r].obj.key] = req'[r].obj.row
          PROVE  CurrentInv'
      BY <2>1, <2>2 DEF CurrentInv, Present
    <2>3. CASE AuthLookup(r)
      <3>1. ASSUME NEW k \in Keys, Accepts(k, req[r].hash),
                   req' = [req EXCEPT ![r].pc = "owner", ![r].readAt = now,
                         ![r].obj = [key |-> k, row |-> row[k], owner |-> "unread",
                                     staleSince |-> Never]]
            PROVE  CurrentInv'
        <4>1. Present(k)
          BY <3>1 DEF Accepts, Present, IInv, DbInv
        <4>2. req'[r].obj.key = k /\ req'[r].obj.row = row[k]
          BY <2>1, <3>1 DEF Request
        <4>3. \A s \in Requests : s # r => req'[s] = req[s]
          BY <2>1, <3>1
        <4>4. QED
          BY <2>2, <4>1, <4>2, <4>3
      <3>2. CASE req' = [req EXCEPT ![r].pc = "refused", ![r].at = now]
        <4>1. req'[r].pc = "refused" /\ \A s \in Requests : s # r => req'[s] = req[s]
          BY <2>1, <3>2 DEF Request
        <4>2. QED
          BY <2>2, <4>1
      <3>3. QED
        BY <2>3, <3>1, <3>2 DEF AuthLookup
    <2>4. CASE AuthLoadOwner(r)
      <3> DEFINE o == [req[r].obj EXCEPT !.owner = user[Owner[req[r].obj.key]]]
      <3>1. req[r].obj \in Object /\ req[r].pc = "owner"
        BY <2>4 DEF AuthLoadOwner, IInv, ReqInv, RequestOK
      <3>2. o.key = req[r].obj.key /\ o.row = req[r].obj.row /\ o.staleSince = req[r].obj.staleSince
        BY <3>1 DEF Object
      <3>3. req'[r].obj = o /\ \A s \in Requests : s # r => req'[s] = req[s]
        BY <2>1, <2>4 DEF AuthLoadOwner, Request
      <3> HIDE DEF o
      <3>4. QED
        BY <2>2, <3>1, <3>2, <3>3 DEF CurrentInv
    <2>5. CASE ~AuthLookup(r) /\ ~AuthLoadOwner(r)
      <3>1. PICK q : req' = [req EXCEPT ![r] = q] /\ q.pc \notin {"owner", "fill"}
        <4>1. \A h, obj : Decided(r, h, obj).pc \notin {"owner", "fill"}
          BY <2>1 DEF Decided, Request
        <4>2. \A h : [IdleRequest EXCEPT !.pc = "lookup", !.hash = h].pc = "lookup"
          BY DEF IdleRequest
        <4>3. IdleRequest.pc = "idle"
          BY DEF IdleRequest
        <4>4. CASE (\E h \in Hashes : AuthHit(r, h) \/ AuthMiss(r, h)) \/ AuthFill(r) \/ Finish(r)
          <5>1. ASSUME NEW h \in Hashes, AuthHit(r, h)
                PROVE  req' = [req EXCEPT ![r] = Decided(r, h, cache[h].obj)]
            BY <5>1 DEF AuthHit
          <5>2. ASSUME NEW h \in Hashes, AuthMiss(r, h)
                PROVE  req' = [req EXCEPT ![r] = [IdleRequest EXCEPT !.pc = "lookup", !.hash = h]]
            BY <5>2 DEF AuthMiss
          <5>3. AuthFill(r) => req' = [req EXCEPT ![r] = Decided(r, req[r].hash, req[r].obj)]
            BY DEF AuthFill
          <5>4. Finish(r) => req' = [req EXCEPT ![r] = IdleRequest]
            BY DEF Finish
          <5>5. ASSUME NEW h \in Hashes, AuthMiss(r, h)
                PROVE  \E q : req' = [req EXCEPT ![r] = q] /\ q.pc \notin {"owner", "fill"}
            <6>1. PICK q : q = [IdleRequest EXCEPT !.pc = "lookup", !.hash = h]
              OBVIOUS
            <6>2. q.pc \notin {"owner", "fill"}
              BY <4>2, <6>1
            <6>3. QED
              BY <5>2, <5>5, <6>1, <6>2
          <5>6. QED
            BY <4>1, <4>3, <4>4, <5>1, <5>3, <5>4, <5>5
        <4>5. CASE KeyHit(r)
          <5> DEFINE q == [req[r] EXCEPT !.pc = "served", !.obj = cache[req[r].hash].obj, !.at = now]
          <5>1. q.pc = "served" /\ req' = [req EXCEPT ![r] = q]
            BY <2>1, <4>5 DEF KeyHit, Request
          <5> HIDE DEF q
          <5>2. QED
            BY <5>1
        <4>6. CASE KeyMiss(r)
          <5> DEFINE q == [req[r] EXCEPT !.pc = "key"]
          <5>1. q.pc = "key" /\ req' = [req EXCEPT ![r] = q]
            BY <2>1, <4>6 DEF KeyMiss, Request
          <5> HIDE DEF q
          <5>2. QED
            BY <5>1
        <4>7. CASE KeyLookup(r)
          <5>1. PICK o : req' = [req EXCEPT ![r].pc = "served", ![r].at = now, ![r].obj = o]
            BY <4>7 DEF KeyLookup
          <5> DEFINE q == [req[r] EXCEPT !.pc = "served", !.at = now, !.obj = o]
          <5>2. q.pc = "served" /\ req' = [req EXCEPT ![r] = q]
            BY <2>1, <5>1 DEF Request
          <5> HIDE DEF q
          <5>3. QED
            BY <5>2
        <4>8. QED
          BY <1>1, <2>5, <4>4, <4>5, <4>6, <4>7 DEF Authenticate
      <3>2. req'[r] = q /\ \A s \in Requests : s # r => req'[s] = req[s]
        BY <2>1, <3>1
      <3>3. QED
        BY <2>2, <3>1, <3>2
    <2>6. QED
      BY <2>3, <2>4, <2>5
  <1>2. QED
    BY <1>1, NextAges, AgingKeeps

\* Only block_key is about to block a row.
LEMMA BlockEditsStep ==
  ASSUME IInv, BlockEdits, [Next]_vars
  PROVE  BlockEdits'
  <1>1. CASE UNCHANGED task
    BY <1>1 DEF BlockEdits, BlockEdit
  <1>2. ASSUME NEW a \in Admins, NEW t, task' = [task EXCEPT ![a] = t], BlockEdit(t)
        PROVE  BlockEdits'
    BY <1>2 DEF BlockEdits, BlockEdit, IInv, TaskInv
  <1>3. ASSUME NEW a \in Admins, Administer(a) PROVE BlockEdits'
    <2>1. task[a] \in Task /\ TaskOK(task[a])
      BY DEF IInv, TaskInv
    <2>2. ASSUME NEW t, task' = [task EXCEPT ![a] = t], t.pc # "commit" PROVE BlockEdits'
      BY <1>2, <2>2 DEF BlockEdit
    <2>3. /\ \A k : IdleTask(k).pc # "commit"
          /\ \A k, op : [IdleTask(k) EXCEPT !.pc = "get", !.op = op].pc # "commit"
          /\ \A k, op : [IdleTask(k) EXCEPT !.pc = "refresh", !.op = op].pc # "commit"
          /\ \A w : [task[a] EXCEPT !.pc = "invalidate", !.copy = w].pc # "commit"
      BY <2>1 DEF IdleTask, Task
    <2>4. CASE \/ \E op \in Ops, k \in Keys : AdminBegin(a, op, k)
               \/ AdminCommit(a) \/ AdminDelete(a) \/ AdminInvalidate(a)
      <3>1. ASSUME NEW op \in Ops, NEW k \in Keys, AdminBegin(a, op, k) PROVE BlockEdits'
        BY <2>2, <2>3, <3>1 DEF AdminBegin
      <3>2. ASSUME AdminCommit(a) PROVE BlockEdits'
        <4>1. \/ task' = [task EXCEPT ![a] = [IdleTask(task[a].key) EXCEPT !.pc = "refresh",
                                                                         !.op = task[a].op]]
              \/ task' = [task EXCEPT ![a] = IdleTask(task[a].key)]
          BY <3>2 DEF AdminCommit
        <4>2. QED
          BY <2>2, <2>3, <4>1
      <3>3. ASSUME AdminDelete(a) \/ AdminInvalidate(a) PROVE BlockEdits'
        BY <2>2, <2>3, <3>3 DEF AdminDelete, AdminInvalidate
      <3>4. QED
        BY <2>4, <3>1, <3>2, <3>3
    <2>5. CASE AdminRefresh(a)
      <3>1. \/ task' = [task EXCEPT ![a] = [task[a] EXCEPT !.pc = "invalidate", !.copy = row[task[a].key]]]
            \/ task' = [task EXCEPT ![a] = IdleTask(task[a].key)]
        BY <2>5 DEF AdminRefresh
      <3>2. QED
        BY <2>2, <2>3, <3>1
    <2>6. CASE AdminGet(a)
      <3>1. CASE task' = [task EXCEPT ![a] = IdleTask(task[a].key)]
        BY <2>2, <2>3, <3>1
      <3>2. ASSUME Present(task[a].key),
                   NEW new \in Edits(task[a].op, row[task[a].key]),
                   task' = [task EXCEPT ![a].copy = row[task[a].key], ![a].new = new,
                              ![a].pc = IF task[a].op = "rotate" THEN "apply" ELSE "commit"]
            PROVE  BlockEdits'
        <4> DEFINE copy == row[task[a].key]
                   t == [task[a] EXCEPT !.copy = copy, !.new = new,
                                        !.pc = IF task[a].op = "rotate" THEN "apply" ELSE "commit"]
        <4>1. copy \in Row /\ task[a].op \in Ops
          BY <2>1, <2>6, <3>2 DEF Present, TaskOK, AdminGet
        <4>2. t.copy = copy /\ t.new = new /\ t.op = task[a].op
          BY <2>1 DEF Task
        <4>3. task' = [task EXCEPT ![a] = t]
          BY <3>2 DEF IInv, TaskInv
        <4>4. task[a].op = "block" \/ new.blocked = copy.blocked \/ ~new.blocked
          BY <3>2, <4>1, EditsKeep
        <4> HIDE DEF t, copy
        <4>5. BlockEdit(t)
          BY <4>2, <4>4 DEF BlockEdit
        <4>6. QED
          BY <1>2, <4>3, <4>5
      <3>3. QED
        BY <2>6, <3>1, <3>2 DEF AdminGet
    <2>7. ASSUME NEW grace \in Graces, AdminRotate(a, grace) PROVE BlockEdits'
      <3> DEFINE new == Rotated(task[a].copy, issued + 1, grace)
                 t == [task[a] EXCEPT !.pc = "commit", !.new = new]
      <3>1. task[a].copy \in Row
        BY <2>1, <2>7 DEF AdminRotate, TaskOK
      <3>2. new.blocked = task[a].copy.blocked
        BY <3>1 DEF Rotated, Row
      <3>3. t.copy = task[a].copy /\ t.new = new
        BY <2>1 DEF Task
      <3>4. task' = [task EXCEPT ![a] = t]
        BY <2>7 DEF AdminRotate, IInv, TaskInv
      <3> HIDE DEF t, new
      <3>5. BlockEdit(t)
        BY <3>2, <3>3 DEF BlockEdit
      <3>6. QED
        BY <1>2, <3>4, <3>5
    <2>8. QED
      BY <1>3, <2>4, <2>5, <2>6, <2>7 DEF Administer
  <1>4. CASE ~\E a \in Admins : Administer(a)
    BY <1>1, <1>4 DEF Next, vars, Tick, Authenticate, AuthHit, AuthMiss, AuthLookup,
       AuthLoadOwner, AuthFill, KeyHit, KeyMiss, KeyLookup, Finish, GenerateKey, BulkUpdate,
       DeleteUser, BlockUser
  <1>5. QED
    BY <1>3, <1>4

\* What a request stores under the hash of a blocked row is harmless.
LEMMA FillHarmless ==
  ASSUME IInv, PubInv, CurrentInv, NEW r \in Requests, AuthFill(r),
         NEW k \in Keys, Present(k), row[k].blocked, req[r].hash = row[k].hash
  PROVE  req[r].obj.row.blocked \/ req[r].obj.staleSince # Never
  <1> SUFFICES ASSUME req[r].obj.staleSince = Never PROVE req[r].obj.row.blocked
    OBVIOUS
  <1>1. PICK pub : PubOK(pub)
    BY DEF PubInv
  <1>2. req[r].pc = "fill" /\ req[r].obj.key \in Keys
    BY DEF AuthFill, IInv, ReqInv, RequestOK, Object
  <1>3. row[k].hash \in pub[req[r].obj.key]
    BY <1>1, <1>2 DEF PubOK, PubLoads
  <1>4. row[k].hash \in pub[k]
    BY <1>1 DEF PubOK, PubRows, Carries, Present
  <1>5. req[r].obj.key = k
    BY <1>1, <1>2, <1>3, <1>4 DEF PubOK, PubKeys
  <1>6. QED
    BY <1>2, <1>5 DEF CurrentInv

LEMMA RequestClears ==
  ASSUME IInv, PubInv, CurrentInv, BlockInv, NEW r \in Requests, Authenticate(r)
  PROVE  BlockInv'
  <1>1. row' = row /\ task' = task
    BY DEF Authenticate, AuthHit, AuthMiss, AuthLookup, AuthLoadOwner, AuthFill, KeyHit,
           KeyMiss, KeyLookup, Finish
  <1>2. ASSUME NEW k \in Keys, Present(k), row[k].blocked, Harmless(cache[row[k].hash])
        PROVE  Harmless(cache'[row[k].hash])
    <2>1. row[k].hash \in Hashes
      BY <1>2 DEF Present, Row
    <2>2. CASE cache' = cache
      BY <1>2, <2>2
    <2>3. CASE AuthFill(r)
      <3> DEFINE e == [obj |-> req[r].obj, filledAt |-> now,
                       bornStale |-> req[r].obj.staleSince # Never]
      <3>1. Store(req[r].hash, e)
        BY <2>3 DEF AuthFill
      <3>2. e.obj = req[r].obj /\ e.bornStale = (req[r].obj.staleSince # Never)
        OBVIOUS
      <3> HIDE DEF e
      <3>3. \A h \in Hashes : \/ cache'[h] = cache[h] \/ cache'[h] = NoEntry
                              \/ h = req[r].hash /\ cache'[h] = e
        BY <3>1 DEF Store, IInv, CacheInv
      <3>4. row[k].hash = req[r].hash => Harmless(e)
        BY <1>2, <2>3, <3>2, FillHarmless DEF Harmless
      <3>5. QED
        BY <1>2, <2>1, <3>3, <3>4 DEF Harmless
    <2>4. AuthFill(r) \/ cache' = cache
      <3>1. cache \in [Hashes -> Entry \cup {NoEntry}]
        BY DEF IInv, CacheInv
      <3>2. \A h : [cache EXCEPT ![h] = AfterHit(h)] = cache
        BY <3>1 DEF AfterHit
      <3>3. ASSUME NEW h \in Hashes, AuthHit(r, h) PROVE cache' = cache
        BY <3>2, <3>3 DEF AuthHit
      <3>4. KeyHit(r) => cache' = cache
        BY <3>2 DEF KeyHit
      <3>5. QED
        BY <3>3, <3>4 DEF Authenticate, AuthMiss, AuthLookup, AuthLoadOwner, KeyMiss, KeyLookup,
                         Finish
    <2>5. QED
      BY <2>2, <2>3, <2>4
  <1>3. ASSUME NEW k \in Keys, Present(k), row[k].blocked PROVE Cleared(k)'
    <2>1. CASE Harmless(cache[row[k].hash])
      BY <1>1, <1>2, <1>3, <2>1 DEF Cleared
    <2>2. CASE \E a \in Admins : Clears(task[a], k, row[k].hash)
      BY <1>1, <2>2 DEF Cleared
    <2>3. QED
      BY <1>3, <2>1, <2>2 DEF BlockInv, Cleared
  <1>4. QED
    BY <1>1, <1>3 DEF BlockInv, Present

\* A step that blocks no row and changes no hash of a blocked one.
LEMMA StillCleared ==
  ASSUME IInv, BlockInv, Aging,
         \A k \in Keys : Present(k)' /\ row'[k].blocked =>
            Present(k) /\ row[k].blocked /\ row'[k].hash = row[k].hash,
         \A k \in Keys, a \in Admins :
            Present(k) /\ Clears(task[a], k, row[k].hash) =>
              Clears(task'[a], k, row[k].hash) \/ Harmless(cache'[row[k].hash])
  PROVE  BlockInv'
  <1> SUFFICES ASSUME NEW k \in Keys, Present(k)', row'[k].blocked PROVE Cleared(k)'
    BY DEF BlockInv
  <1>1. Present(k) /\ row[k].blocked /\ row'[k].hash = row[k].hash
    OBVIOUS
  <1>2. row[k].hash \in Hashes /\ Cleared(k)
    BY <1>1 DEF Present, Row, BlockInv
  <1>3. CASE Harmless(cache[row[k].hash])
    BY <1>1, <1>2, <1>3, AgingKeeps DEF Cleared
  <1>4. ASSUME NEW a \in Admins, Clears(task[a], k, row[k].hash)
        PROVE  Cleared(k)'
    <2>1. Clears(task'[a], k, row[k].hash) \/ Harmless(cache'[row[k].hash])
      BY <1>1, <1>4
    <2>2. QED
      BY <1>1, <2>1 DEF Cleared
  <1>5. QED
    BY <1>2, <1>3, <1>4 DEF Cleared

LEMMA CommitClears ==
  ASSUME IInv, PubInv, BlockEdits, BlockInv, NEW a \in Admins, AdminCommit(a), Aging
  PROVE  BlockInv'
  <1>0. PICK k : k = task[a].key
    OBVIOUS
  <1> DEFINE t == task[a]
             w == Merged(row[k], t.copy, t.new)
             next == [IdleTask(k) EXCEPT !.pc = "refresh", !.op = t.op]
  <1>1. /\ k \in Keys /\ t.pc = "commit" /\ t.copy \in Row /\ t.new \in Row /\ BlockEdit(t)
    BY <1>0 DEF AdminCommit, IInv, TaskInv, TaskOK, Task, BlockEdits
  <1>2. \A b \in Admins : b # a => task'[b] = task[b]
    BY DEF AdminCommit, IInv, TaskInv
  <1>3. \A j, h : ~Clears(t, j, h)
    BY <1>1 DEF Clears
  <1>4. \A b \in Admins : \A j, h : Clears(task[b], j, h) => Clears(task'[b], j, h)
    BY <1>2, <1>3
  <1>5. CASE UNCHANGED <<row, cache, req>>
    BY <1>4, <1>5, StillCleared DEF Present
  <1>6. CASE /\ Present(k) /\ ChangeRows([row EXCEPT ![k] = w])
             /\ task' = [task EXCEPT ![a] = next]
    <2>1. row' = [row EXCEPT ![k] = w] /\ row[k] \in Row
      BY <1>6 DEF ChangeRows, Present
    <2>2. row'[k] = w /\ \A j \in Keys : j # k => row'[j] = row[j]
      BY <1>1, <2>1 DEF IInv, DbInv
    <2>3. /\ w.hash = IF t.new.hash # t.copy.hash THEN t.new.hash ELSE row[k].hash
          /\ w.blocked = IF t.new.blocked # t.copy.blocked THEN t.new.blocked ELSE row[k].blocked
      BY DEF Merged
    <2>4. CASE w.blocked /\ ~row[k].blocked
      <3>1. t.op = "block"
        BY <1>1, <2>1, <2>3, <2>4 DEF BlockEdit, Row
      <3>2. task'[a] = next /\ next.pc = "refresh" /\ next.op = t.op /\ next.key = k
        BY <1>6 DEF IInv, TaskInv, IdleTask
      <3> HIDE DEF next, t, w
      <3>3. \A h : Clears(task'[a], k, h)
        BY <3>1, <3>2 DEF Clears
      <3>4. Cleared(k)'
        BY <3>3 DEF Cleared
      <3>5. ASSUME NEW j \in Keys, j # k, Present(j)', row'[j].blocked PROVE Cleared(j)'
        <4>1. row'[j] = row[j] /\ Present(j) /\ row[j].hash \in Hashes /\ Cleared(j)
          BY <2>2, <3>5 DEF Present, BlockInv, Row
        <4>2. Harmless(cache[row[j].hash]) => Harmless(cache'[row[j].hash])
          BY <4>1, AgingKeeps
        <4>3. QED
          BY <1>4, <4>1, <4>2 DEF Cleared
      <3>6. QED
        BY <3>4, <3>5 DEF BlockInv
    <2>5. CASE t.new.hash # t.copy.hash /\ row[k].blocked
      <3>1. PICK pub : PubOK(pub)
        BY DEF PubInv
      <3>2. PICK h : h = t.new.hash
        OBVIOUS
      <3>3. h \in Hashes /\ \A j \in Keys : h \notin pub[j]
        BY <1>1, <2>5, <3>1, <3>2 DEF PubOK, PubTasks, TaskPub, Rekeys, Row
      <3>4. cache[h] = NoEntry
        BY <3>1, <3>3 DEF PubOK, PubCache
      <3>5. Harmless(cache'[h]) /\ row'[k].hash = h
        BY <2>2, <2>3, <2>5, <3>2, <3>3, <3>4, AgingKeeps DEF Harmless
      <3>6. Cleared(k)'
        BY <3>5 DEF Cleared
      <3>7. ASSUME NEW j \in Keys, j # k, Present(j)', row'[j].blocked PROVE Cleared(j)'
        <4>1. row'[j] = row[j] /\ Present(j) /\ row[j].hash \in Hashes /\ Cleared(j)
          BY <2>2, <3>7 DEF Present, BlockInv, Row
        <4>2. Harmless(cache[row[j].hash]) => Harmless(cache'[row[j].hash])
          BY <4>1, AgingKeeps
        <4>3. QED
          BY <1>4, <4>1, <4>2 DEF Cleared
      <3>8. QED
        BY <3>6, <3>7 DEF BlockInv
    <2>6. CASE ~w.blocked \/ (row[k].blocked /\ t.new.hash = t.copy.hash)
      <3>1. row'[k].blocked => row[k].blocked /\ row'[k].hash = row[k].hash
        BY <2>2, <2>3, <2>6
      <3>2. \A j \in Keys : Present(j)' /\ row'[j].blocked =>
              Present(j) /\ row[j].blocked /\ row'[j].hash = row[j].hash
        BY <1>6, <2>2, <3>1 DEF Present
      <3>3. QED
        BY <1>4, <3>2, StillCleared
    <2>7. QED
      BY <2>4, <2>5, <2>6
  <1>7. QED
    BY <1>0, <1>5, <1>6 DEF AdminCommit

LEMMA OperationClears ==
  ASSUME IInv, PubInv, BlockEdits, BlockInv, NEW a \in Admins, Administer(a), Aging
  PROVE  BlockInv'
  <1>1. /\ task[a] \in Task /\ \A j \in Keys : row[j] \in Row => row[j].hash \in Hashes
        /\ GoneRow \notin Row
    BY NullAssumption DEF IInv, TaskInv, Row
  <1>2. ASSUME NEW u, task' = [task EXCEPT ![a] = u], row' = row,
               \A k \in Keys : Present(k) /\ Clears(task[a], k, row[k].hash) =>
                 Clears(u, k, row[k].hash) \/ Harmless(cache'[row[k].hash])
        PROVE  BlockInv'
    <2>1. task'[a] = u /\ \A b \in Admins : b # a => task'[b] = task[b]
      BY <1>2 DEF IInv, TaskInv
    <2>2. QED
      BY <1>2, <2>1, StillCleared DEF Present
  <1>3. ASSUME task[a].pc \notin {"refresh", "invalidate"}, row' = row,
               NEW u, task' = [task EXCEPT ![a] = u]
        PROVE  BlockInv'
    BY <1>2, <1>3 DEF Clears
  <1>4. CASE \/ \E op \in Ops, k \in Keys : AdminBegin(a, op, k)
             \/ AdminGet(a) \/ \E grace \in Graces : AdminRotate(a, grace)
    <2>1. task[a].pc \notin {"refresh", "invalidate"} /\ row' = row
      BY <1>4 DEF AdminBegin, AdminGet, AdminRotate
    <2>2. \E u : task' = [task EXCEPT ![a] = u]
      <3>1. \A b \in Admins : b # a => task'[b] = task[b]
        BY <1>4 DEF AdminBegin, AdminGet, AdminRotate, IInv, TaskInv
      <3>2. task \in [Admins -> Task] /\ task' \in [Admins -> Task]
        BY StepIInv, <1>4 DEF IInv, TaskInv, Next, Administer
      <3>3. task' = [task EXCEPT ![a] = task'[a]]
        BY <3>1, <3>2
      <3>4. QED
        BY <3>3
    <2>3. QED
      BY <1>3, <2>1, <2>2
  <1>5. CASE AdminDelete(a)
    <2>1. row' = [row EXCEPT ![task[a].key] = GoneRow]
      BY <1>5 DEF AdminDelete, ChangeRows
    <2>2. \A k \in Keys : row'[k] = row[k] \/ row'[k] = GoneRow
      BY <2>1 DEF IInv, DbInv
    <2>3. \A k \in Keys : Present(k)' => Present(k) /\ row'[k] = row[k]
      BY <1>1, <2>2 DEF Present
    <2>4. \A b \in Admins : b # a => task'[b] = task[b]
      BY <1>5 DEF AdminDelete, IInv, TaskInv
    <2>5. \A j, h : ~Clears(task[a], j, h)
      BY <1>5 DEF Clears, AdminDelete
    <2>6. QED
      BY <2>3, <2>4, <2>5, StillCleared
  <1>6. CASE AdminRefresh(a)
    <2> DEFINE k == task[a].key
               u == [task[a] EXCEPT !.pc = "invalidate", !.copy = row[k]]
    <2>1. CASE Present(k) /\ task[a].op \in {"block", "unblock"}
      <3>1. task' = [task EXCEPT ![a] = u] /\ row' = row
        BY <1>6, <2>1 DEF AdminRefresh
      <3>2. u.key = k /\ u.pc = "invalidate" /\ u.copy = row[k]
        BY <1>1 DEF Task
      <3> HIDE DEF u
      <3>3. \A j \in Keys : Clears(task[a], j, row[j].hash) => Clears(u, j, row[j].hash)
        BY <3>2 DEF Clears
      <3>4. QED
        BY <1>2, <3>1, <3>3
    <2>2. CASE ~(Present(k) /\ task[a].op \in {"block", "unblock"})
      <3>1. task' = [task EXCEPT ![a] = IdleTask(k)] /\ row' = row
        BY <1>6, <2>2 DEF AdminRefresh
      <3>2. \A j \in Keys : Present(j) => ~Clears(task[a], j, row[j].hash)
        BY <1>6, <2>2 DEF AdminRefresh, Clears
      <3>3. QED
        BY <1>2, <3>1, <3>2
    <2>3. QED
      BY <2>1, <2>2
  <1>7. CASE AdminInvalidate(a)
    <2>1. /\ task' = [task EXCEPT ![a] = IdleTask(task[a].key)] /\ row' = row
          /\ task[a].pc = "invalidate" /\ cache' = [cache EXCEPT ![task[a].copy.hash] = NoEntry]
      BY <1>7 DEF AdminInvalidate, Invalidate
    <2>2. \A k \in Keys : Present(k) /\ Clears(task[a], k, row[k].hash) =>
            Harmless(cache'[row[k].hash])
      BY <1>1, <2>1 DEF Clears, Harmless, Present, IInv, CacheInv
    <2>3. QED
      BY <1>2, <2>1, <2>2
  <1>8. QED
    BY <1>4, <1>5, <1>6, <1>7, CommitClears DEF Administer

LEMMA ClearStep ==
  ASSUME IInv, PubInv, CurrentInv, BlockEdits, BlockInv, [Next]_vars
  PROVE  BlockInv'
  <1>1. ASSUME Aging, task' = task,
               \A k \in Keys : Present(k)' /\ row'[k].blocked =>
                 Present(k) /\ row[k].blocked /\ row'[k].hash = row[k].hash
        PROVE  BlockInv'
    BY <1>1, StillCleared
  <1>2. ASSUME NEW a \in Admins, Administer(a) PROVE BlockInv'
    BY <1>2, OperationAges, OperationClears
  <1>3. ASSUME NEW k \in Keys, NEW limit \in Limits, NEW life \in Lifetimes \cup {Never},
               GenerateKey(k, limit, life)
        PROVE  BlockInv'
    <2>1. Aging /\ task' = task
      BY <1>3, RowsAge DEF GenerateKey
    <2>2. ~row'[k].blocked /\ \A j \in Keys : j # k => row'[j] = row[j]
      BY <1>3 DEF GenerateKey, ChangeRows, IInv, DbInv
    <2>3. QED
      BY <1>1, <2>1, <2>2 DEF Present
  <1>4. ASSUME NEW ids \in SUBSET Keys, NEW limit \in Limits, BulkUpdate(ids, limit)
        PROVE  BlockInv'
    <2>1. Aging /\ task' = task
      BY <1>4, RowsAge DEF BulkUpdate
    <2>2. \A k \in Keys : \/ row'[k] = row[k]
                          \/ row[k] \in Row /\ row'[k] = [row[k] EXCEPT !.limit = limit]
      BY <1>4 DEF BulkUpdate, ChangeRows, Present
    <2>3. \A w \in Row : LET v == [w EXCEPT !.limit = limit] IN
                         v.hash = w.hash /\ v.blocked = w.blocked
      BY DEF Row
    <2>4. \A k \in Keys : Present(k)' /\ row'[k].blocked =>
            Present(k) /\ row[k].blocked /\ row'[k].hash = row[k].hash
      BY <2>2, <2>3 DEF Present
    <2>5. QED
      BY <1>1, <2>1, <2>4
  <1>5. ASSUME NEW u \in Users, DeleteUser(u) \/ \E blocked \in BOOLEAN : BlockUser(u, blocked)
        PROVE  BlockInv'
    <2>1. row' = row /\ task' = task /\ Aging
      BY <1>5, UserAges DEF DeleteUser, BlockUser
    <2>2. QED
      BY <1>1, <2>1 DEF Present
  <1>6. CASE Tick \/ UNCHANGED vars
    <2>3. UNCHANGED vars => Aging
      BY StillAges DEF vars
    <2>1. row' = row /\ task' = task /\ Aging
      BY <1>6, <2>3, TickAges DEF Tick, vars
    <2>2. QED
      BY <1>1, <2>1 DEF Present
  <1>7. QED
    BY <1>2, <1>3, <1>4, <1>5, <1>6, RequestClears DEF Next

LEMMA InitBlock == Init => PubInv /\ CurrentInv /\ BlockEdits /\ BlockInv
  <1> SUFFICES ASSUME Init PROVE PubInv /\ CurrentInv /\ BlockEdits /\ BlockInv
    OBVIOUS
  <1>1. /\ \A a \in Admins : task[a].pc = "idle"
        /\ \A r \in Requests : req[r].pc = "idle"
        /\ \A h \in Hashes : cache[h] = NoEntry
        /\ \A k \in Keys : row[k] \notin Row
        /\ issued = 0
    BY NullAssumption DEF Init, IdleTask, IdleRequest
  <1> DEFINE none == [k \in Keys |-> {}]
  <1>2. PubKeys(none)
    BY DEF PubKeys
  <1>3. PubRows(none) /\ PubTasks(none) /\ PubLoads(none) /\ PubCache(none)
    BY <1>1 DEF PubRows, Carries, PubTasks, TaskPub, Rekeys, PubLoads, PubCache
  <1>4. PubInv
    BY <1>2, <1>3 DEF PubInv, PubOK
  <1>5. CurrentInv /\ BlockEdits /\ BlockInv
    BY <1>1 DEF CurrentInv, BlockEdits, BlockEdit, BlockInv, Present
  <1>6. QED
    BY <1>4, <1>5

CInv == IInv /\ PubInv /\ CurrentInv /\ BlockEdits /\ BlockInv

LEMMA CInductive == Spec => []CInv
  <1>1. Init => CInv
    BY InitIInv, InitBlock DEF CInv
  <1>2. CInv /\ [Next]_vars => CInv'
    BY StepIInv, PubStep, CurrentStep, BlockEditsStep, ClearStep DEF CInv
  <1>3. QED
    BY <1>1, <1>2, PTL DEF Spec

\* A key that is blocked, with no operation under way, is admitted by no entry
\* of its current hash but one that a request stored late: block_key clears the
\* cache of what it has to, however rotations and lookups overlap it.
THEOREM BlocksReachTheCache == Spec => []BlockClearsCurrentHash
  <1>1. CInv => BlockClearsCurrentHash
    BY DEF CInv, BlockInv, Cleared, Harmless, Clears, BlockClearsCurrentHash, Pending
  <1>2. QED
    BY <1>1, CInductive, PTL

(***************************************************************************)
(* A rotated hash keeps its grace period.                                  *)
(*                                                                         *)
(* What an operation that has loaded the row w of its key knows of it: as  *)
(* long as the row carries the hash it loaded, it carries the previous     *)
(* hash and the grace period it loaded.                                    *)
(***************************************************************************)
KeepOK(t, w) ==
  /\ t.pc = "apply" => t.op = "rotate"
  /\ t.pc \in {"apply", "commit"} =>
       /\ t.copy.prev # t.copy.hash
       /\ w \in Row /\ w.hash = t.copy.hash => w.prev = t.copy.prev /\ w.grace = t.copy.grace
  /\ t.pc = "commit" =>
       IF t.op = "rotate" THEN t.new.prev = t.copy.hash /\ t.new.hash # t.copy.hash
       ELSE t.new.hash = t.copy.hash /\ t.new.prev = t.copy.prev /\ t.new.grace = t.copy.grace

TwoHashes(w) == w \in Row => w.prev # w.hash

KeepInv ==
  /\ \A k \in Keys : TwoHashes(row[k])
  /\ \A a \in Admins : KeepOK(task[a], row[task[a].key])

\* What a change may do to a row v that operations have loaded: nothing to its
\* hashes, or end it, or bring a hash that none of them loaded.
SameHashes(v, w) ==
  v \in Row /\ w \in Row /\ w.hash = v.hash /\ w.prev = v.prev /\ w.grace = v.grace

NewHash(k, w) ==
  /\ w \in Row /\ w.prev # w.hash
  /\ \A a \in Admins :
       task[a].pc \in {"apply", "commit"} /\ task[a].key = k => task[a].copy.hash # w.hash

Tame(k, w) == w = row[k] \/ w \notin Row \/ SameHashes(row[k], w) \/ NewHash(k, w)

\* A step that changes rows so, and starts no edit.
LEMMA TableKeeps ==
  ASSUME IInv, KeepInv, \A k \in Keys : Tame(k, row'[k]),
         \A a \in Admins : task'[a] = task[a] \/ task'[a].pc \notin {"apply", "commit"}
  PROVE  KeepInv'
  <1>1. ASSUME NEW k \in Keys PROVE TwoHashes(row'[k])
    BY <1>1 DEF KeepInv, TwoHashes, Tame, SameHashes, NewHash
  <1>2. ASSUME NEW a \in Admins PROVE KeepOK(task'[a], row'[task'[a].key])
    <2>1. CASE task'[a].pc \notin {"apply", "commit"}
      BY <2>1 DEF KeepOK
    <2>2. CASE task'[a] = task[a] /\ task[a].pc \in {"apply", "commit"}
      <3>1. PICK k \in Keys : k = task[a].key
        BY DEF IInv, TaskInv, Task
      <3>2. PICK t : t = task[a]
        OBVIOUS
      <3>3. PICK w : w = row'[k]
        OBVIOUS
      <3>4. KeepOK(t, row[k]) /\ Tame(k, w)
        BY <3>1, <3>2, <3>3 DEF KeepInv
      <3>5. NewHash(k, w) => t.copy.hash # w.hash
        BY <2>2, <3>1, <3>2 DEF NewHash
      <3>6. KeepOK(t, w)
        BY <3>4, <3>5 DEF KeepOK, Tame, SameHashes, NewHash
      <3>7. task'[a] = t /\ row'[task'[a].key] = w
        BY <2>2, <3>1, <3>2, <3>3
      <3>8. QED
        BY <3>6, <3>7
    <2>3. QED
      BY <2>1, <2>2
  <1>3. QED
    BY <1>1, <1>2 DEF KeepInv

\* A step of one operation that leaves the table alone.
LEMMA TaskKeeps ==
  ASSUME IInv, KeepInv, NEW a \in Admins, NEW t, KeepOK(t, row[t.key]),
         task' = [task EXCEPT ![a] = t], row' = row
  PROVE  KeepInv'
  <1>1. task'[a] = t /\ \A b \in Admins : b # a => task'[b] = task[b]
    BY DEF IInv, TaskInv
  <1>2. \A b \in Admins : KeepOK(task'[b], row[task'[b].key])
    BY <1>1 DEF KeepInv
  <1>3. QED
    BY <1>2 DEF KeepInv

\* The row that a commit leaves.
LEMMA MergedRow ==
  ASSUME NEW w \in Row, NEW copy \in Row, NEW new \in Row
  PROVE  LET m == Merged(w, copy, new)
         IN  /\ m \in Row
             /\ m.hash = IF new.hash # copy.hash THEN new.hash ELSE w.hash
             /\ m.prev = IF new.prev # copy.prev THEN new.prev ELSE w.prev
             /\ m.grace = IF new.grace # copy.grace THEN new.grace ELSE w.grace
  BY MergedType DEF Merged

\* A commit changes no row, or that of its key, which is present.
LEMMA CommitRow ==
  ASSUME IInv, NEW a \in Admins, AdminCommit(a)
  PROVE  /\ task[a].key \in Keys /\ task[a].pc = "commit"
         /\ task[a].copy \in Row /\ task[a].new \in Row
         /\ \A b \in Admins : task'[b] = task[b] \/ task'[b].pc \notin {"apply", "commit"}
         /\ \/ row' = row
            \/ /\ row[task[a].key] \in Row
               /\ row' = [row EXCEPT ![task[a].key] =
                                       Merged(row[task[a].key], task[a].copy, task[a].new)]
  <1>1. task[a] \in Task /\ TaskOK(task[a]) /\ task[a].pc = "commit" /\ task \in [Admins -> Task]
    BY DEF IInv, TaskInv, AdminCommit
  <1>2. task[a].key \in Keys /\ task[a].copy \in Row /\ task[a].new \in Row
    BY <1>1 DEF Task, TaskOK
  <1>3. /\ \A k : IdleTask(k).pc \notin {"apply", "commit"}
        /\ \A k, op : [IdleTask(k) EXCEPT !.pc = "refresh", !.op = op].pc \notin {"apply", "commit"}
    BY DEF IdleTask
  <1>4. \/ task' = [task EXCEPT ![a] = [IdleTask(task[a].key) EXCEPT !.pc = "refresh",
                                                                   !.op = task[a].op]]
        \/ task' = [task EXCEPT ![a] = IdleTask(task[a].key)]
    BY DEF AdminCommit
  <1>5. \A b \in Admins : task'[b] = task[b] \/ task'[b].pc \notin {"apply", "commit"}
    <2>1. PICK t : task' = [task EXCEPT ![a] = t] /\ t.pc \notin {"apply", "commit"}
      BY <1>3, <1>4
    <2>2. task'[a] = t /\ \A b \in Admins : b # a => task'[b] = task[b]
      BY <1>1, <2>1
    <2>3. QED
      BY <2>1, <2>2
  <1>6. \/ row' = row
        \/ /\ row[task[a].key] \in Row
           /\ row' = [row EXCEPT ![task[a].key] =
                                   Merged(row[task[a].key], task[a].copy, task[a].new)]
    BY DEF AdminCommit, ChangeRows, Present
  <1>7. QED
    BY <1>1, <1>2, <1>5, <1>6

LEMMA CommitKeeps ==
  ASSUME IInv, NEW pub, PubOK(pub), KeepInv, NEW a \in Admins, AdminCommit(a)
  PROVE  KeepInv'
  <1>1. PICK k \in Keys : k = task[a].key
    BY DEF IInv, TaskInv, Task
  <1>2. PICK w : w = row[k]
    OBVIOUS
  <1>3. PICK copy \in Row : copy = task[a].copy
    BY CommitRow
  <1>4. PICK new \in Row : new = task[a].new
    BY CommitRow
  <1>5. CASE row' = row
    BY <1>5, CommitRow, TableKeeps DEF Tame
  <1>6. CASE w \in Row /\ row' = [row EXCEPT ![k] = Merged(w, copy, new)]
    <2>1. PICK m : m = Merged(w, copy, new)
      OBVIOUS
    <2>2. /\ m \in Row
          /\ m.hash = IF new.hash # copy.hash THEN new.hash ELSE w.hash
          /\ m.prev = IF new.prev # copy.prev THEN new.prev ELSE w.prev
          /\ m.grace = IF new.grace # copy.grace THEN new.grace ELSE w.grace
      BY <1>6, <2>1, MergedRow
    <2>3. task[a].pc = "commit" /\ KeepOK(task[a], w)
      BY <1>1, <1>2, CommitRow DEF KeepInv
    <2>4. ASSUME task[a].op # "rotate" PROVE SameHashes(w, m)
      <3>1. new.hash = copy.hash /\ new.prev = copy.prev /\ new.grace = copy.grace
        BY <1>3, <1>4, <2>3, <2>4 DEF KeepOK
      <3>2. QED
        BY <1>6, <2>2, <3>1 DEF SameHashes
    <2>5. ASSUME task[a].op = "rotate" PROVE NewHash(k, m)
      <3>1. new.prev = copy.hash /\ new.hash # copy.hash /\ copy.prev # copy.hash
        BY <1>3, <1>4, <2>3, <2>5 DEF KeepOK
      <3>2. m.hash = new.hash /\ m.prev = copy.hash
        BY <2>2, <3>1
      <3>3. new.hash \notin pub[k]
        BY <1>1, <1>3, <1>4, <2>3, <3>1 DEF PubOK, PubTasks, TaskPub, Rekeys
      <3>4. ASSUME NEW b \in Admins, task[b].pc \in {"apply", "commit"}, task[b].key = k
            PROVE  task[b].copy.hash # m.hash
        <4>1. Carries(task[b].copy, pub[k])
          BY <3>4 DEF PubOK, PubTasks, TaskPub
        <4>2. task[b].copy \in Row
          BY <3>4 DEF IInv, TaskInv, TaskOK
        <4>3. QED
          BY <3>2, <3>3, <4>1, <4>2 DEF Carries
      <3>5. QED
        BY <2>2, <3>1, <3>2, <3>4 DEF NewHash
    <2>6. SameHashes(row[k], m) \/ NewHash(k, m)
      BY <1>2, <2>4, <2>5
    <2>7. \A j \in Keys : row'[j] = IF j = k THEN m ELSE row[j]
      BY <1>6, <2>1 DEF IInv, DbInv
    <2>8. \A j \in Keys : Tame(j, row'[j])
      BY <2>6, <2>7 DEF Tame
    <2>9. QED
      BY <2>8, CommitRow, TableKeeps
  <1>7. QED
    BY <1>1, <1>2, <1>3, <1>4, <1>5, <1>6, CommitRow

LEMMA OperationKeeps ==
  ASSUME IInv, NEW pub, PubOK(pub), KeepInv, NEW a \in Admins, Administer(a)
  PROVE  KeepInv'
  <1>1. /\ task[a] \in Task /\ TaskOK(task[a]) /\ task[a].key \in Keys
        /\ KeepOK(task[a], row[task[a].key]) /\ TaskPub(task[a], pub)
    BY DEF IInv, TaskInv, Task, KeepInv, PubOK, PubTasks
  <1>2. ASSUME NEW t, t.pc \notin {"apply", "commit"}, task' = [task EXCEPT ![a] = t], row' = row
        PROVE  KeepInv'
    <2>1. KeepOK(t, row[t.key])
      BY <1>2 DEF KeepOK
    <2>2. QED
      BY <1>2, <2>1, TaskKeeps
  <1>3. \A k : IdleTask(k).pc \notin {"apply", "commit"}
    BY DEF IdleTask
  <1>4. ASSUME NEW op \in Ops, NEW k \in Keys, AdminBegin(a, op, k) PROVE KeepInv'
    <2>1. [IdleTask(k) EXCEPT !.pc = "get", !.op = op].pc \notin {"apply", "commit"}
      BY DEF IdleTask
    <2>2. QED
      BY <1>2, <1>4, <2>1 DEF AdminBegin
  <1>5. CASE AdminGet(a)
    <2>1. CASE task' = [task EXCEPT ![a] = IdleTask(task[a].key)]
      BY <1>2, <1>3, <1>5, <2>1 DEF AdminGet
    <2>2. ASSUME Present(task[a].key),
                 NEW new \in Edits(task[a].op, row[task[a].key]),
                 task' = [task EXCEPT ![a].copy = row[task[a].key], ![a].new = new,
                            ![a].pc = IF task[a].op = "rotate" THEN "apply" ELSE "commit"]
          PROVE  KeepInv'
      <3> DEFINE copy == row[task[a].key]
                 t == [task[a] EXCEPT !.copy = copy, !.new = new,
                                      !.pc = IF task[a].op = "rotate" THEN "apply" ELSE "commit"]
      <3>1. copy \in Row /\ task[a].op \in Ops
        BY <1>1, <1>5, <2>2 DEF Present, TaskOK, AdminGet
      <3>2. new.hash = copy.hash /\ new.prev = copy.prev /\ new.grace = copy.grace
        BY <2>2, <3>1, EditsKeep
      <3>3. /\ t.copy = copy /\ t.new = new /\ t.key = task[a].key /\ t.op = task[a].op
            /\ t.pc = IF task[a].op = "rotate" THEN "apply" ELSE "commit"
        BY <1>1 DEF Task
      <3>4. task' = [task EXCEPT ![a] = t]
        BY <2>2 DEF IInv, TaskInv
      <3>5. copy.prev # copy.hash
        BY <1>1, <3>1 DEF KeepInv, TwoHashes
      <3>6. row[t.key] = copy
        BY <3>3
      <3>7. row' = row
        BY <1>5 DEF AdminGet
      <3> HIDE DEF t, copy
      <3>8. KeepOK(t, copy)
        BY <3>2, <3>3, <3>5 DEF KeepOK
      <3>9. QED
        BY <3>4, <3>6, <3>7, <3>8, TaskKeeps
    <2>3. QED
      BY <1>5, <2>1, <2>2 DEF AdminGet
  <1>6. ASSUME NEW grace \in Graces, AdminRotate(a, grace) PROVE KeepInv'
    <2> DEFINE new == Rotated(task[a].copy, issued + 1, grace)
               t == [task[a] EXCEPT !.pc = "commit", !.new = new]
    <2>1. /\ task[a].pc = "apply" /\ task[a].copy \in Row /\ row' = row
          /\ Carries(task[a].copy, pub[task[a].key])
      BY <1>1, <1>6 DEF AdminRotate, TaskOK, TaskPub
    <2>2. new.hash = issued + 1 /\ new.prev = task[a].copy.hash
      BY <2>1 DEF Rotated, Row
    <2>3. task[a].copy.hash # issued + 1
      <3>1. task[a].copy.hash \in pub[task[a].key]
        BY <2>1 DEF Carries
      <3>2. task[a].copy.hash \in 1..issued
        BY <1>1, <3>1 DEF PubOK, PubKeys
      <3>3. issued \in Nat
        BY DEF IInv, DbInv
      <3>4. QED
        BY <3>2, <3>3
    <2>4. /\ t.copy = task[a].copy /\ t.new = new /\ t.key = task[a].key /\ t.op = task[a].op
          /\ t.pc = "commit"
      BY <1>1 DEF Task
    <2>5. task' = [task EXCEPT ![a] = t]
      BY <1>6 DEF AdminRotate, IInv, TaskInv
    <2> HIDE DEF t, new
    <2>6. KeepOK(t, row[task[a].key])
      BY <1>1, <2>1, <2>2, <2>3, <2>4 DEF KeepOK
    <2>7. QED
      BY <2>1, <2>4, <2>5, <2>6, TaskKeeps
  <1>7. CASE AdminDelete(a)
    <2>1. \A k \in Keys : row'[k] = row[k] \/ row'[k] = GoneRow
      BY <1>7 DEF AdminDelete, ChangeRows, IInv, DbInv
    <2>2. \A k \in Keys : Tame(k, row'[k])
      BY <2>1 DEF Tame
    <2>3. \A b \in Admins : task'[b] = task[b] \/ task'[b].pc \notin {"apply", "commit"}
      BY <1>3, <1>7 DEF AdminDelete, IInv, TaskInv
    <2>4. QED
      BY <2>2, <2>3, TableKeeps
  <1>8. CASE AdminRefresh(a)
    <2>1. [task[a] EXCEPT !.pc = "invalidate", !.copy = row[task[a].key]].pc = "invalidate"
      BY <1>1 DEF Task
    <2>2. \/ task' = [task EXCEPT ![a] = [task[a] EXCEPT !.pc = "invalidate", !.copy = row[task[a].key]]]
          \/ task' = [task EXCEPT ![a] = IdleTask(task[a].key)]
      BY <1>8 DEF AdminRefresh
    <2>3. QED
      BY <1>2, <1>3, <1>8, <2>1, <2>2 DEF AdminRefresh
  <1>9. CASE AdminInvalidate(a)
    BY <1>2, <1>3, <1>9 DEF AdminInvalidate
  <1>10. QED
    BY <1>4, <1>5, <1>6, <1>7, <1>8, <1>9, CommitKeeps DEF Administer

\* What the steps of no operation do to the table: bring a key with a hash of
\* its own, or change limits.
LEMMA OthersTame ==
  ASSUME IInv, NEW pub, PubOK(pub), [Next]_vars, ~\E a \in Admins : Administer(a)
  PROVE  task' = task /\ \A k \in Keys : Tame(k, row'[k])
  <1>1. CASE row' = row /\ task' = task
    BY <1>1 DEF Tame
  <1>2. ASSUME NEW k \in Keys, NEW limit \in Limits, NEW life \in Lifetimes \cup {Never},
               GenerateKey(k, limit, life)
        PROVE  task' = task /\ \A j \in Keys : Tame(j, row'[j])
    <2>1. /\ task' = task /\ \A j \in Keys : j # k => row'[j] = row[j]
          /\ row'[k].hash = issued + 1 /\ row'[k].prev = NoHash /\ issued + 1 \in Hashes
      <3>1. /\ task' = task /\ \A j \in Keys : j # k => row'[j] = row[j]
            /\ row'[k].hash = issued + 1 /\ row'[k].prev = NoHash
        BY <1>2 DEF GenerateKey, ChangeRows, IInv, DbInv
      <3>2. issued + 1 \in Hashes
        BY <1>2 DEF GenerateKey, IInv, DbInv, Hashes
      <3>3. QED
        BY <3>1, <3>2
    <2>2. PICK w : w = row'[k]
      OBVIOUS
    <2>3. w.prev # w.hash
      BY <2>1, <2>2
    <2>4. ASSUME NEW a \in Admins, task[a].pc \in {"apply", "commit"}, task[a].key = k
          PROVE  task[a].copy.hash # w.hash
      <3>1. Carries(task[a].copy, pub[k]) /\ task[a].copy \in Row
        BY <2>4 DEF PubOK, PubTasks, TaskPub, IInv, TaskInv, TaskOK
      <3>2. task[a].copy.hash \in 1..issued
        BY <3>1 DEF Carries, PubOK, PubKeys
      <3>3. issued \in Nat
        BY DEF IInv, DbInv
      <3>4. QED
        BY <2>1, <2>2, <3>2, <3>3
    <2>5. Tame(k, w)
      BY <2>3, <2>4 DEF Tame, NewHash
    <2>6. QED
      BY <2>1, <2>2, <2>5 DEF Tame
  <1>3. ASSUME NEW ids \in SUBSET Keys, NEW limit \in Limits, BulkUpdate(ids, limit)
        PROVE  task' = task /\ \A k \in Keys : Tame(k, row'[k])
    <2>1. /\ task' = task
          /\ \A k \in Keys : \/ row'[k] = row[k]
                             \/ row[k] \in Row /\ row'[k] = [row[k] EXCEPT !.limit = limit]
      BY <1>3 DEF BulkUpdate, ChangeRows, Present
    <2>2. ASSUME NEW w \in Row PROVE SameHashes(w, [w EXCEPT !.limit = limit])
      BY DEF Row, SameHashes
    <2>3. QED
      BY <2>1, <2>2, Zenon DEF Tame
  <1>4. CASE ~(row' = row /\ task' = task)
    <2>1. ASSUME \/ UNCHANGED vars \/ Tick \/ \E r \in Requests : Authenticate(r)
                 \/ \E u \in Users : DeleteUser(u) \/ \E blocked \in BOOLEAN : BlockUser(u, blocked)
          PROVE  row' = row /\ task' = task
      BY <2>1 DEF vars, Tick, Authenticate, AuthHit, AuthMiss, AuthLookup, AuthLoadOwner,
                  AuthFill, KeyHit, KeyMiss, KeyLookup, Finish, DeleteUser, BlockUser
    <2>2. \/ \E k \in Keys, limit \in Limits, life \in Lifetimes \cup {Never} :
                GenerateKey(k, limit, life)
          \/ \E ids \in SUBSET Keys, limit \in Limits : BulkUpdate(ids, limit)
      BY <1>4, <2>1 DEF Next
    <2>3. QED
      BY <1>2, <1>3, <2>2
  <1>5. QED
    BY <1>1, <1>4

LEMMA KeepStep ==
  ASSUME IInv, PubInv, KeepInv, [Next]_vars
  PROVE  KeepInv'
  <1>1. PICK pub : PubOK(pub)
    BY DEF PubInv
  <1>2. CASE \E a \in Admins : Administer(a)
    BY <1>1, <1>2, OperationKeeps
  <1>3. CASE ~\E a \in Admins : Administer(a)
    BY <1>1, <1>3, OthersTame, TableKeeps
  <1>4. QED
    BY <1>2, <1>3

GraceStep ==
  \A k \in Keys, h \in Hashes :
    Accepts(k, h) /\ row'[k] # GoneRow =>
      \/ row'[k].hash = h
      \/ row'[k].prev = h /\ row'[k].grace > now
      \/ \E a \in Admins : Retires(task[a], k, h)

\* An accepted hash is in the row, with its grace period if it is the previous.
LEMMA AcceptedIsThere ==
  ASSUME IInv, NEW k \in Keys, NEW h \in Hashes, Accepts(k, h)
  PROVE  /\ row[k] \in Row
         /\ row[k].hash = h \/ (row[k].prev = h /\ row[k].grace > now)
  BY DEF IInv, DbInv, Accepts

LEMMA CommitGrace ==
  ASSUME IInv, KeepInv, NEW a \in Admins, AdminCommit(a)
  PROVE  GraceStep
  <1> SUFFICES ASSUME NEW k \in Keys, NEW h \in Hashes, Accepts(k, h), ~Retires(task[a], k, h)
               PROVE  row'[k].hash = h \/ (row'[k].prev = h /\ row'[k].grace > now)
    BY DEF GraceStep
  <1>1. row[k] \in Row /\ (row[k].hash = h \/ (row[k].prev = h /\ row[k].grace > now))
    BY AcceptedIsThere
  <1>2. CASE row'[k] = row[k]
    BY <1>1, <1>2
  <1>3. CASE row'[k] # row[k]
    <2>1. task[a].key = k /\ row'[k] = Merged(row[k], task[a].copy, task[a].new)
      BY <1>3, CommitRow DEF IInv, DbInv
    <2>2. PICK copy \in Row : copy = task[a].copy
      BY CommitRow
    <2>3. PICK new \in Row : new = task[a].new
      BY CommitRow
    <2>4. PICK w \in Row : w = row[k]
      BY <1>1
    <2>5. PICK m : m = row'[k]
      OBVIOUS
    <2>6. /\ m.hash = IF new.hash # copy.hash THEN new.hash ELSE w.hash
          /\ m.prev = IF new.prev # copy.prev THEN new.prev ELSE w.prev
          /\ m.grace = IF new.grace # copy.grace THEN new.grace ELSE w.grace
      BY <2>1, <2>2, <2>3, <2>4, <2>5, MergedRow
    <2>7. task[a].pc = "commit" /\ KeepOK(task[a], w)
      BY <2>1, <2>4, CommitRow DEF KeepInv
    <2>8. CASE task[a].op # "rotate"
      <3>1. new.hash = copy.hash /\ new.prev = copy.prev /\ new.grace = copy.grace
        BY <2>2, <2>3, <2>7, <2>8 DEF KeepOK
      <3>2. m.hash = w.hash /\ m.prev = w.prev /\ m.grace = w.grace
        BY <2>6, <3>1
      <3>3. QED
        BY <1>1, <2>4, <2>5, <3>2
    <2>9. CASE task[a].op = "rotate"
      <3>1. w.prev # h /\ copy.hash = w.hash /\ ~(new.grace <= now)
        BY <2>1, <2>2, <2>3, <2>4, <2>7, <2>9 DEF Retires
      <3>2. w.hash = h
        BY <1>1, <2>4, <3>1
      <3>3. copy.prev # copy.hash /\ w.grace = copy.grace /\ new.prev = copy.hash
        BY <2>2, <2>3, <2>7, <2>9, <3>1 DEF KeepOK
      <3>4. m.prev = h /\ m.grace = new.grace
        BY <2>6, <3>1, <3>2, <3>3
      <3>5. new.grace > now
        BY <3>1 DEF IInv, DbInv, Row, Times
      <3>6. QED
        BY <2>5, <3>4, <3>5
    <2>10. QED
      BY <2>8, <2>9
  <1>4. QED
    BY <1>2, <1>3

LEMMA NextGrace ==
  ASSUME IInv, PubInv, KeepInv, [Next]_vars
  PROVE  GraceStep
  <1>1. ASSUME NEW k \in Keys, NEW h \in Hashes, Accepts(k, h), row'[k] = row[k]
        PROVE  row'[k].hash = h \/ (row'[k].prev = h /\ row'[k].grace > now)
    BY <1>1, AcceptedIsThere
  <1>2. CASE row' = row
    BY <1>1, <1>2 DEF GraceStep
  <1>3. ASSUME NEW k \in Keys, NEW limit \in Limits, NEW life \in Lifetimes \cup {Never},
               GenerateKey(k, limit, life)
        PROVE  GraceStep
    <2>1. row[k] = NoRow /\ \A j \in Keys : j # k => row'[j] = row[j]
      BY <1>3 DEF GenerateKey, ChangeRows, IInv, DbInv
    <2>2. \A h : ~Accepts(k, h)
      BY <2>1 DEF Accepts
    <2>3. QED
      BY <1>1, <2>1, <2>2 DEF GraceStep
  <1>4. ASSUME NEW ids \in SUBSET Keys, NEW limit \in Limits, BulkUpdate(ids, limit)
        PROVE  GraceStep
    <2>1. \A k \in Keys : \/ row'[k] = row[k]
                          \/ row[k] \in Row /\ row'[k] = [row[k] EXCEPT !.limit = limit]
      BY <1>4 DEF BulkUpdate, ChangeRows, Present
    <2>2. ASSUME NEW w \in Row PROVE SameHashes(w, [w EXCEPT !.limit = limit])
      BY DEF Row, SameHashes
    <2>3. ASSUME NEW k \in Keys, NEW h \in Hashes, Accepts(k, h)
          PROVE  row'[k].hash = h \/ (row'[k].prev = h /\ row'[k].grace > now)
      <3>1. row'[k] = row[k] \/ SameHashes(row[k], row'[k])
        BY <2>1, <2>2
      <3>2. QED
        BY <1>1, <2>3, <3>1, AcceptedIsThere DEF SameHashes
    <2>4. QED
      BY <2>3 DEF GraceStep
  <1>5. ASSUME NEW a \in Admins, AdminDelete(a) PROVE GraceStep
    <2>1. \A k \in Keys : row'[k] = row[k] \/ row'[k] = GoneRow
      BY <1>5 DEF AdminDelete, ChangeRows, IInv, DbInv
    <2>2. QED
      BY <1>1, <2>1 DEF GraceStep
  <1>6. ASSUME NEW a \in Admins, Administer(a), ~AdminDelete(a), ~AdminCommit(a)
        PROVE  row' = row
    BY <1>6 DEF Administer, AdminBegin, AdminGet, AdminRotate, AdminRefresh, AdminInvalidate
  <1>7. ASSUME \/ UNCHANGED vars \/ Tick \/ \E r \in Requests : Authenticate(r)
               \/ \E u \in Users : DeleteUser(u) \/ \E blocked \in BOOLEAN : BlockUser(u, blocked)
        PROVE  row' = row
    BY <1>7 DEF vars, Tick, Authenticate, AuthHit, AuthMiss, AuthLookup, AuthLoadOwner,
                AuthFill, KeyHit, KeyMiss, KeyLookup, Finish, DeleteUser, BlockUser
  <1>8. QED
    BY <1>2, <1>3, <1>4, <1>5, <1>6, <1>7, CommitGrace DEF Next

\* What an operator's rotation replaces stays accepted for its grace period,
\* whatever other operators do to the key meanwhile, until a second rotation or
\* a deletion.
THEOREM GraceHolds == Spec => GraceIsKept
  <1>1. Init => KeepInv
    <2> SUFFICES ASSUME Init PROVE KeepInv
      OBVIOUS
    <2>1. /\ \A a \in Admins : task[a].pc = "idle"
          /\ \A k \in Keys : row[k] \notin Row
      BY NullAssumption DEF Init, IdleTask
    <2>2. QED
      BY <2>1 DEF KeepInv, KeepOK, TwoHashes
  <1>2. CInv /\ KeepInv /\ [Next]_vars => KeepInv'
    BY KeepStep DEF CInv
  <1>3. CInv /\ KeepInv /\ [Next]_vars => [GraceStep]_row
    BY NextGrace DEF CInv
  <1>4. QED
    BY <1>1, <1>2, <1>3, CInductive, PTL DEF Spec, GraceIsKept, GraceStep
=============================================================================
