---------------------------- MODULE SpendLedger ----------------------------
(***************************************************************************)
(* The spend ledger: log_spend, which writes one SpendLog row and adds to  *)
(* up to four daily aggregates in one transaction, and check_budget, which *)
(* reads the aggregates of a key before a call is let through.             *)
(*                                                                         *)
(*   src/src/app/services/spend_service.py   log_spend, _upsert_daily_*    *)
(*   src/src/app/services/proxy_guard.py     check_budget                  *)
(*   src/src/app/routes/proxy_routes.py      chat_completions, which calls *)
(*                                           both around the upstream call *)
(*                                                                         *)
(* Each call has a session of its own at PostgreSQL's READ COMMITTED: a    *)
(* SELECT sees what is committed, an UPDATE or INSERT waits for the row's  *)
(* lock and holds it until the transaction ends, an INSERT that finds its  *)
(* unique key taken raises IntegrityError.  A step is one statement.       *)
(*                                                                         *)
(* An aggregate row is the set of calls counted in it: total_spend, the    *)
(* token totals and request_count are sums over that set, and              *)
(* "row.total_spend += spend" writes the set that was read with the call   *)
(* added to it.                                                            *)
(***************************************************************************)
EXTENDS Integers, Sequences, FiniteSets

CONSTANTS
  Calls,        \* requests to /v1/chat/completions; request_id names one
  Entities,     \* key hashes, users, teams, organizations
  Models,
  Payers,       \* per call: <<key hash>> \o the user, team and org it names
  ModelOf,
  Cost,         \* usage.cost, in units; 0 when the model has no price
  Budget,       \* per key hash: max_budget, or NoBudget
  Streams,      \* the calls that asked for a stream
  MaxInFlight,  \* bound on the calls between admission and the end
  MaxLogging,   \* bound on the calls inside log_spend
  MaxDay,       \* bound on the calendar
  NoBudget, NoRow, Nobody

ASSUME LedgerAssumption ==
  /\ Payers \in [Calls -> Seq(Entities)]
  /\ \A c \in Calls : /\ Payers[c] # <<>>
                      /\ \A i, j \in DOMAIN Payers[c] : Payers[c][i] = Payers[c][j] => i = j
  /\ ModelOf \in [Calls -> Models]
  /\ Cost \in [Calls -> Nat]
  /\ Budget \in [Entities -> Nat \cup {NoBudget}] /\ NoBudget \notin Nat
  /\ MaxInFlight \in Nat /\ MaxLogging \in Nat /\ MaxDay \in Nat \ {0}
  /\ Nobody \notin Calls /\ \A S \in SUBSET Calls : NoRow # S

VARIABLES
  today,    \* date.today()
  logs,     \* spend_logs: the calls logged
  agg,      \* the daily_*_spend tables, as committed
  lock,     \* per aggregate row: the transaction that has written it
  draft,    \* and what it wrote
  call,     \* the calls
  overlap   \* history: whose log_spend ran while this one's did

vars == <<today, logs, agg, lock, draft, call, overlap>>

Rows == Entities \X Models \X (1..MaxDay)

Aggregate == (SUBSET Calls) \cup {NoRow}

Call == [pc : {"idle", "upstream", "select", "flush", "commit", "rollback",
               "done", "refused", "failed"},
         day   : 1..MaxDay,          \* today, as log_spend took it
         at    : Nat,                \* the aggregate being worked on
         dirty : SUBSET Calls,       \* the ORM object's new value
         fresh : BOOLEAN]            \* it is to be inserted

RowsOn(c, d) == {<<Payers[c][i], ModelOf[c], d>> : i \in DOMAIN Payers[c]}
RowsOf(c) == RowsOn(c, call[c].day)

\* A stream that went through its aggregates from the last to the first.
BugRowBackwards(c) ==
  <<Payers[c][IF c \in Streams THEN Len(Payers[c]) + 1 - call[c].at ELSE call[c].at],
    ModelOf[c], call[c].day>>

\* The aggregate that c is working on.
Row(c) == <<Payers[c][call[c].at], ModelOf[c], call[c].day>>

Logging(c) == call[c].pc \in {"select", "flush", "commit", "rollback"}
InFlight(c) == Logging(c) \/ call[c].pc = "upstream"

\* The sum of their costs: the number of units that they cost.
Sum(calls) == Cardinality(UNION {{c} \X (1..Cost[c]) : c \in calls})

\* What check_budget adds up: today's rows of the hash, over all models.
CountedIn(h, d) == UNION {agg[<<h, m, d>>] : m \in {n \in Models : agg[<<h, n, d>>] # NoRow}}

IdleCall == [pc |-> "idle", day |-> 1, at |-> 1, dirty |-> {}, fresh |-> FALSE]

Init ==
  /\ today = 1
  /\ logs = {}
  /\ agg = [r \in Rows |-> NoRow]
  /\ lock = [r \in Rows |-> Nobody]
  /\ draft = [r \in Rows |-> NoRow]
  /\ call = [c \in Calls |-> IdleCall]
  /\ overlap = [c \in Calls |-> {}]

(***************************************************************************)
(* An operator whose name begins with Bug is a wrong version of the one    *)
(* that follows it: the properties are tested against it and no            *)
(* specification uses it.                                                  *)
(***************************************************************************)
BugWithinBudgetInclusive(h) ==
  Budget[h] = NoBudget \/ Sum(CountedIn(h, today)) <= Budget[h]

WithinBudget(h) == Budget[h] = NoBudget \/ Sum(CountedIn(h, today)) < Budget[h]

\* check_budget, the last guard before dispatch.
CheckBudget(c) ==
  /\ call[c].pc = "idle"
  /\ Cardinality({d \in Calls : InFlight(d)}) < MaxInFlight
  /\ call' = [call EXCEPT ![c].pc = IF WithinBudget(Payers[c][1]) THEN "upstream" ELSE "refused"]
  /\ UNCHANGED <<today, logs, agg, lock, draft, overlap>>

\* acompletion raises: nothing is logged.
UpstreamError(c) ==
  /\ call[c].pc = "upstream"
  /\ call' = [call EXCEPT ![c].pc = "refused"]
  /\ UNCHANGED <<today, logs, agg, lock, draft, overlap>>

BugLogDayAhead == today + 1

\* date.today() when the aggregates are booked, not when the call began.
LogDay == today

\* The provider has answered, or the stream has ended: log_spend is called.
LogSpend(c) ==
  LET others == {d \in Calls : Logging(d)} IN
  /\ call[c].pc = "upstream"
  /\ Cardinality(others) < MaxLogging
  /\ call' = [call EXCEPT ![c].pc = "select", ![c].day = LogDay]
  /\ overlap' = [d \in Calls |-> IF d = c THEN others
                                 ELSE IF d \in others THEN overlap[d] \cup {c} ELSE overlap[d]]
  /\ UNCHANGED <<today, logs, agg, lock, draft>>

\* The aggregate after "+=", or the one to be inserted.
BugAddedAlone(old, c) == {c}

Added(old, c) == IF old = NoRow THEN {c} ELSE old \cup {c}

BugSelectRowAlwaysInserts(c) ==
  /\ call[c].pc = "select"
  /\ call' = [call EXCEPT ![c].pc = "flush", ![c].dirty = {c}, ![c].fresh = TRUE]
  /\ UNCHANGED <<today, logs, agg, lock, draft, overlap>>

\* The SELECT of _upsert_daily_*, and the edit of the object it returns.
SelectRow(c) ==
  LET row == Row(c) IN
  /\ call[c].pc = "select"
  /\ call' = [call EXCEPT ![c].pc = "flush", ![c].dirty = Added(agg[row], c),
                          ![c].fresh = (agg[row] = NoRow)]
  /\ UNCHANGED <<today, logs, agg, lock, draft, overlap>>

\* Autoflush before the next SELECT, or the flush of commit: the INSERT or
\* UPDATE of the aggregate just edited.
FlushRow(c) ==
  LET row == Row(c)
      last == call[c].at = Len(Payers[c])
  IN  /\ call[c].pc = "flush"
      /\ lock[row] = Nobody
      /\ ~(call[c].fresh /\ agg[row] # NoRow)
      /\ lock' = [lock EXCEPT ![row] = c]
      /\ draft' = [draft EXCEPT ![row] = call[c].dirty]
      /\ call' = [call EXCEPT ![c].pc = IF last THEN "commit" ELSE "select",
                              ![c].at = IF last THEN @ ELSE @ + 1]
      /\ UNCHANGED <<today, logs, agg, overlap>>

\* Another call has inserted the row in the meantime: IntegrityError.
FlushConflict(c) ==
  LET row == Row(c) IN
  /\ call[c].pc = "flush"
  /\ lock[row] = Nobody
  /\ call[c].fresh /\ agg[row] # NoRow
  /\ call' = [call EXCEPT ![c].pc = "rollback"]
  /\ UNCHANGED <<today, logs, agg, lock, draft, overlap>>

\* The locks of c are released and its drafts dropped.
Release(c) ==
  /\ lock' = [r \in Rows |-> IF lock[r] = c THEN Nobody ELSE lock[r]]
  /\ draft' = [r \in Rows |-> IF lock[r] = c THEN NoRow ELSE draft[r]]

BugCommitWithoutLog(c) ==
  /\ call[c].pc = "commit"
  /\ agg' = [r \in Rows |-> IF lock[r] = c THEN draft[r] ELSE agg[r]]
  /\ Release(c)
  /\ call' = [call EXCEPT ![c].pc = "done"]
  /\ UNCHANGED <<today, logs, overlap>>

Commit(c) ==
  /\ call[c].pc = "commit"
  /\ agg' = [r \in Rows |-> IF lock[r] = c THEN draft[r] ELSE agg[r]]
  /\ logs' = logs \cup {c}
  /\ Release(c)
  /\ call' = [call EXCEPT ![c].pc = "done"]
  /\ UNCHANGED <<today, overlap>>

\* The session is closed after an error; the SpendLog row goes with it.
Rollback(c) ==
  /\ call[c].pc = "rollback"
  /\ Release(c)
  /\ call' = [call EXCEPT ![c].pc = "failed"]
  /\ UNCHANGED <<today, logs, agg, overlap>>

\* The client of a stream goes away and the server cancels the generator,
\* which is then in its finally clause.
Cancel(c) ==
  /\ c \in Streams /\ call[c].pc \in {"select", "flush", "commit"}
  /\ call' = [call EXCEPT ![c].pc = "rollback"]
  /\ UNCHANGED <<today, logs, agg, lock, draft, overlap>>

Midnight ==
  /\ today < MaxDay
  /\ today' = today + 1
  /\ UNCHANGED <<logs, agg, lock, draft, call, overlap>>

Database(c) == SelectRow(c) \/ FlushRow(c) \/ FlushConflict(c) \/ Commit(c) \/ Rollback(c)

Next ==
  \/ \E c \in Calls :
        \/ CheckBudget(c) \/ UpstreamError(c) \/ LogSpend(c)
        \/ Database(c) \/ Cancel(c)
  \/ Midnight

Spec == Init /\ [][Next]_vars

\* The database executes a statement that can run.
FairSpec == Spec /\ \A c \in Calls : WF_vars(Database(c))
-----------------------------------------------------------------------------
(***************************************************************************)
(* Properties                                                              *)
(***************************************************************************)
TypeOK ==
  /\ today \in 1..MaxDay
  /\ logs \in SUBSET Calls
  /\ agg \in [Rows -> Aggregate]
  /\ lock \in [Rows -> Calls \cup {Nobody}]
  /\ draft \in [Rows -> Aggregate]
  /\ call \in [Calls -> Call]
  /\ overlap \in [Calls -> SUBSET Calls]

\* No aggregate reports spend that spend_logs does not account for: what a
\* row counts was committed, under that payer, model and day, with its log.
CountedCallsAreLogged ==
  \A r \in Rows : agg[r] # NoRow =>
    agg[r] # {} /\ \A c \in agg[r] : c \in logs /\ r \in RowsOf(c)

\* A call that was logged is missing from an aggregate only if the log_spend
\* of another logged call of the same aggregate overlapped its own: calls
\* that log one at a time are all counted.
LostOnlyToOverlap ==
  \A c \in logs : \A r \in RowsOf(c) :
    c \in agg[r] \/ \E d \in logs \cap overlap[c] : r \in RowsOf(d)

\* The log_spend of a call without a stream fails only against one that it
\* overlapped and shares an aggregate with.  A stream may be cancelled as well:
\* nothing is said of it here.
FailsOnlyToOverlap ==
  \A c \in Calls \ Streams :
    call[c].pc = "failed" => \E d \in logs \cap overlap[c] : RowsOf(c) \cap RowsOf(d) # {}

\* log_spend always ends: the aggregates are locked in one order by all.
LogSpendEnds == \A c \in Calls : Logging(c) ~> ~Logging(c)

\* What was logged of h on d, and those of its calls whose aggregate another
\* logged call wrote at the same time, so that it may not count them.
Booked(h, d) == {c \in logs : Payers[c][1] = h /\ call[c].day = d}
Clashed(h, d) ==
  {c \in Booked(h, d) : \E e \in logs \cap overlap[c] : <<h, ModelOf[c], d>> \in RowsOf(e)}

\* Spend can pass a key's budget only by what its calls in flight cost at the
\* moment the budget was reached, and by the calls whose log_spend overlapped
\* that of another: those are without a bound.
OverspendIsInFlight ==
  \A h \in Entities, d \in 1..MaxDay, most \in {Cost[c] : c \in Calls} :
    Budget[h] \in Nat \ {0} /\ (\A c \in Calls : Cost[c] <= most) =>
      Sum(Booked(h, d)) < Budget[h] + MaxInFlight * most + Sum(Clashed(h, d))

\* The aggregates say what the logs say, whenever nobody is writing.
AggregatesMatchLogs ==
  (\A c \in Calls : ~Logging(c)) =>
    \A c \in logs : \A r \in RowsOf(c) : c \in agg[r]

(***************************************************************************)
(* The tables are those of a ledger that changes all its rows at once, and *)
(* forgets what it had only between calls that log at the same time.       *)
(***************************************************************************)
Law == INSTANCE AtomicLedger WITH
         entries <- [c \in logs |-> RowsOf(c)],
         RowSets <- {RowsOn(c, d) : c \in Calls, d \in 1..MaxDay}

\* Every commit is one atomic addition to the log and to all its aggregates,
\* which may overwrite an aggregate only if a logged call overlapped it there.
ImplementsAtomicLedger == Law!Spec
=============================================================================
