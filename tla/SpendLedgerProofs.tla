------------------------- MODULE SpendLedgerProofs -------------------------
(***************************************************************************)
(* For every set of calls, payers, models and days, and any number of      *)
(* log_spend transactions at once: what the aggregates may count, what     *)
(* they may lose, when a transaction may fail, what kind of ledger they    *)
(* implement, and what a key may overspend.                                *)
(***************************************************************************)
EXTENDS SpendLedger, FiniteSetTheorems, TLAPS

USE LedgerAssumption

(***************************************************************************)
(* The inductive invariant says what a transaction knows of a row: the     *)
(* version it is about to write counts every logged call but those that    *)
(* overlapped it, or that had been lost to an overlap before.              *)
(***************************************************************************)

\* c has called log_spend.
Started(c) == Logging(c) \/ call[c].pc \in {"done", "failed"}

\* c was overwritten in r by a call it overlapped.
Excused(c, r) == \E d \in logs \cap overlap[c] : r \in RowsOf(d)

\* c overlapped a logged call that shares an aggregate with it.
Raced(c) == \E d \in logs \cap overlap[c] : RowsOf(c) \cap RowsOf(d) # {}

\* S is what c may write to r.
Version(S, r, c) ==
  /\ S \in SUBSET Calls /\ c \in S
  /\ \A d \in S : d = c \/ (d \in logs /\ r \in RowsOf(d))
  /\ \A d \in logs : r \in RowsOf(d) => d \in S \/ d \in overlap[c] \/ Excused(d, r)

\* Whoever logged in r after c looked there overlaps c.
NewerOverlap(r, c) == \A d \in logs : r \in RowsOf(d) => d \in overlap[c]

RowAt(c, i) == <<Payers[c][i], ModelOf[c], call[c].day>>

\* A transaction works on one of its rows, and starts at the first.
CallInv ==
  /\ call \in [Calls -> Call]
  /\ \A c \in Calls : call[c].at \in DOMAIN Payers[c]
  /\ \A c \in Calls : call[c].pc \in {"idle", "upstream"} => call[c].at = 1
  /\ \A c \in Calls : call[c].pc = "flush" =>
       /\ Version(call[c].dirty, Row(c), c)
       /\ call[c].fresh => NewerOverlap(Row(c), c)
  /\ \A c \in Calls \ Streams : call[c].pc \in {"rollback", "failed"} => Raced(c)

\* overlap relates the calls that have been in log_spend together.
OverlapInv ==
  /\ overlap \in [Calls -> SUBSET Calls]
  /\ \A c, d \in Calls : d \in overlap[c] => Started(c) /\ c \in overlap[d]
  /\ \A c, d \in Calls : c # d /\ Logging(c) /\ Logging(d) => d \in overlap[c]

\* The committed aggregate r counts the logged calls but those overwritten.
RowOK(r) ==
  /\ agg[r] = NoRow => \A d \in logs : r \notin RowsOf(d)
  /\ agg[r] # NoRow =>
       /\ agg[r] # {}
       /\ \A d \in agg[r] : d \in logs /\ r \in RowsOf(d)
       /\ \A d \in logs : r \in RowsOf(d) => d \in agg[r] \/ Excused(d, r)

TableInv ==
  /\ today \in 1..MaxDay
  /\ logs \in SUBSET Calls
  /\ \A c \in logs : call[c].pc = "done"
  /\ agg \in [Rows -> Aggregate]
  /\ \A r \in Rows : RowOK(r)

\* The owner of a lock may write the row, and a call that reaches commit owns
\* the locks of all its rows.
LockInv ==
  /\ lock \in [Rows -> Calls \cup {Nobody}]
  /\ draft \in [Rows -> Aggregate]
  /\ \A r \in Rows, c \in Calls : lock[r] = c =>
       Logging(c) /\ r \in RowsOf(c) /\ Version(draft[r], r, c)
  /\ \A c \in Calls : \A i \in DOMAIN Payers[c] :
       \/ call[c].pc \in {"select", "flush"} /\ i < call[c].at
       \/ call[c].pc = "commit"
       => lock[RowAt(c, i)] = c

IInv == CallInv /\ OverlapInv /\ TableInv /\ LockInv

LEMMA IInvImplies ==
  IInv => /\ TypeOK /\ CountedCallsAreLogged
          /\ LostOnlyToOverlap /\ FailsOnlyToOverlap
  <1> SUFFICES ASSUME IInv
               PROVE  /\ TypeOK /\ CountedCallsAreLogged
                      /\ LostOnlyToOverlap /\ FailsOnlyToOverlap
    OBVIOUS
  <1>1. TypeOK
    BY DEF IInv, CallInv, OverlapInv, TableInv, LockInv, TypeOK
  <1>2. CountedCallsAreLogged
    BY DEF IInv, TableInv, RowOK, CountedCallsAreLogged
  <1>3. LostOnlyToOverlap
    <2> SUFFICES ASSUME NEW c \in logs, NEW r \in RowsOf(c)
                 PROVE  c \in agg[r] \/ Excused(c, r)
      BY DEF LostOnlyToOverlap, Excused
    <2>1. r \in Rows
      BY DEF IInv, CallInv, TableInv, RowsOf, RowsOn, Rows, Call
    <2>2. QED
      BY <2>1 DEF IInv, TableInv, RowOK
  <1>4. FailsOnlyToOverlap
    BY DEF IInv, CallInv, Raced, FailsOnlyToOverlap
  <1>5. QED
    BY <1>1, <1>2, <1>3, <1>4

(***************************************************************************)
(* Lemmas: rows, and what keeps the facts about history.                   *)
(***************************************************************************)

\* The aggregates of a call are aggregates; the one it works on is its own.
LEMMA RowFacts ==
  ASSUME CallInv, NEW c \in Calls
  PROVE  /\ RowsOf(c) \in SUBSET Rows
         /\ \A i \in DOMAIN Payers[c] : RowAt(c, i) \in RowsOf(c)
         /\ Row(c) = RowAt(c, call[c].at)
         /\ Row(c) \in RowsOf(c) /\ Row(c) \in Rows
  BY DEF CallInv, RowsOf, RowsOn, RowAt, Row, Rows, Call

\* History only grows in a step that keeps the days of the calls that have
\* started, adds no log but those of calls in log_spend, and drops no overlap.
Grows ==
  /\ logs \subseteq logs'
  /\ \A d \in logs' : d \in logs \/ (d \in Calls /\ Logging(d))
  /\ \A d \in Calls : overlap[d] \subseteq overlap'[d]
  /\ \A d \in Calls : Started(d) => call'[d].day = call[d].day

LEMMA RowsOfKept ==
  ASSUME Grows, NEW c \in Calls, Started(c)
  PROVE  RowsOf(c)' = RowsOf(c)
  BY DEF Grows, RowsOf

LEMMA LoggedStarted ==
  ASSUME IInv, NEW c \in logs
  PROVE  c \in Calls /\ Started(c)
  BY DEF IInv, TableInv, Started

LEMMA NewLogStarted ==
  ASSUME IInv, Grows, NEW c \in logs'
  PROVE  c \in Calls /\ Started(c)
  BY LoggedStarted DEF Grows, Started

LEMMA ExcusedKept ==
  ASSUME IInv, Grows, NEW c \in Calls, NEW r, Excused(c, r)
  PROVE  Excused(c, r)'
  <1>1. PICK d \in logs \cap overlap[c] : r \in RowsOf(d)
    BY DEF Excused
  <1>2. d \in logs' /\ d \in overlap'[c]
    BY <1>1 DEF Grows
  <1>3. RowsOf(d)' = RowsOf(d)
    BY RowsOfKept, LoggedStarted
  <1>4. QED
    BY <1>1, <1>2, <1>3 DEF Excused

LEMMA RacedKept ==
  ASSUME IInv, Grows, NEW c \in Calls, Started(c), Raced(c)
  PROVE  Raced(c)'
  <1>1. PICK d \in logs \cap overlap[c] : RowsOf(c) \cap RowsOf(d) # {}
    BY DEF Raced
  <1>2. d \in logs' /\ d \in overlap'[c]
    BY <1>1 DEF Grows
  <1>3. RowsOf(d)' = RowsOf(d) /\ RowsOf(c)' = RowsOf(c)
    BY RowsOfKept, LoggedStarted
  <1>4. QED
    BY <1>1, <1>2, <1>3 DEF Raced

\* A call that logs while c is in log_spend overlaps c.
LEMMA NewOverlaps ==
  ASSUME IInv, Grows, NEW c \in Calls, Logging(c), c \notin logs',
         NEW d \in logs', d \notin logs
  PROVE  d \in overlap'[c]
  <1>1. d \in Calls /\ Logging(d) /\ d # c
    BY DEF Grows
  <1>2. d \in overlap[c]
    BY <1>1 DEF IInv, OverlapInv
  <1>3. QED
    BY <1>2 DEF Grows

LEMMA VersionKept ==
  ASSUME IInv, Grows, NEW c \in Calls, Logging(c), c \notin logs',
         NEW S, NEW r, Version(S, r, c)
  PROVE  Version(S, r, c)'
  <1>1. \A d \in S : d = c \/ (d \in logs' /\ r \in RowsOf(d)')
    BY RowsOfKept, LoggedStarted DEF Version, Grows
  <1>2. ASSUME NEW d \in logs', r \in RowsOf(d)'
        PROVE  d \in S \/ d \in overlap'[c] \/ Excused(d, r)'
    <2>1. r \in RowsOf(d) /\ d \in Calls
      BY <1>2, RowsOfKept, NewLogStarted
    <2>2. CASE d \in logs
      <3>1. d \in S \/ d \in overlap[c] \/ Excused(d, r)
        BY <2>1, <2>2 DEF Version
      <3>2. QED
        BY <2>1, <3>1, ExcusedKept DEF Grows
    <2>3. CASE d \notin logs
      BY <2>3, NewOverlaps
    <2>4. QED
      BY <2>2, <2>3
  <1>3. QED
    BY <1>1, <1>2 DEF Version

LEMMA NewerKept ==
  ASSUME IInv, Grows, NEW c \in Calls, Logging(c), c \notin logs',
         NEW r, NewerOverlap(r, c)
  PROVE  NewerOverlap(r, c)'
  <1> SUFFICES ASSUME NEW d \in logs', r \in RowsOf(d)'
               PROVE  d \in overlap'[c]
    BY DEF NewerOverlap
  <1>1. r \in RowsOf(d) /\ d \in Calls
    BY RowsOfKept, NewLogStarted
  <1>2. CASE d \in logs
    BY <1>1, <1>2 DEF NewerOverlap, Grows
  <1>3. CASE d \notin logs
    BY <1>3, NewOverlaps
  <1>4. QED
    BY <1>2, <1>3

\* A row that is neither written nor logged in stays right.
LEMMA RowKept ==
  ASSUME IInv, Grows, NEW r \in Rows, RowOK(r), agg'[r] = agg[r],
         \A d \in logs' : d \in logs \/ r \notin RowsOf(d)
  PROVE  RowOK(r)'
  <1>1. \A d \in logs' : RowsOf(d)' = RowsOf(d)
    BY RowsOfKept, NewLogStarted
  <1>2. \A d \in logs : d \in Calls
    BY LoggedStarted
  <1>3. \A d \in logs : Excused(d, r) => Excused(d, r)'
    BY <1>2, ExcusedKept
  <1>4. logs \subseteq logs'
    BY DEF Grows
  <1>5. QED
    BY <1>1, <1>3, <1>4 DEF RowOK

(***************************************************************************)
(* Steps that change the record of one call, and no more.                  *)
(***************************************************************************)

LEMMA CallStep ==
  ASSUME IInv, NEW c \in Calls, NEW x \in Call,
         call' = [call EXCEPT ![c] = x],
         UNCHANGED <<today, logs, agg, lock, draft, overlap>>,
         x.day = call[c].day, x.at = call[c].at,
         x.pc \notin {"done", "commit"}, call[c].pc # "done",
         x.pc \in {"idle", "upstream"} => call[c].pc \in {"idle", "upstream"},
         (x.pc \in {"select", "flush", "rollback"}) <=> Logging(c),
         (x.pc = "failed") <=> (call[c].pc = "failed"),
         x.pc \in {"select", "flush"} => call[c].pc \in {"select", "flush"},
         x.pc = "flush" => /\ Version(x.dirty, Row(c), c)
                           /\ x.fresh => NewerOverlap(Row(c), c),
         c \notin Streams /\ x.pc \in {"rollback", "failed"} => Raced(c)
  PROVE  IInv'
  <1>1. \A d \in Calls : call'[d] = IF d = c THEN x ELSE call[d]
    BY DEF IInv, CallInv
  <1>2. \A d \in Calls : call'[d].day = call[d].day /\ call'[d].at = call[d].at
    BY <1>1
  <1>3. \A d \in Calls : Logging(d)' = Logging(d)
    BY <1>1 DEF Logging
  <1>4. \A d \in Calls : Started(d) => Started(d)'
    BY <1>1, <1>3 DEF Started
  <1>5. Grows
    BY <1>2 DEF Grows
  <1>6. \A d \in Calls : RowsOf(d)' = RowsOf(d) /\ Row(d)' = Row(d)
    BY <1>2 DEF RowsOf, Row
  <1>7. \A d \in Calls : \A i \in DOMAIN Payers[d] : RowAt(d, i)' = RowAt(d, i)
    BY <1>2 DEF RowAt
  <1>8. \A d \in Calls : Logging(d) => d \notin logs'
    BY DEF IInv, TableInv, Logging
  <1>9. CallInv'
    <2>1. call' \in [Calls -> Call]
      BY DEF IInv, CallInv
    <2>2. \A d \in Calls : call'[d].at \in DOMAIN Payers[d]
      BY <1>2 DEF IInv, CallInv
    <2>3. \A d \in Calls : call'[d].pc \in {"idle", "upstream"} => call'[d].at = 1
      BY <1>1, <1>2 DEF IInv, CallInv
    <2>4. ASSUME NEW d \in Calls, call'[d].pc = "flush"
          PROVE  (/\ Version(call[d].dirty, Row(d), d)
                  /\ call[d].fresh => NewerOverlap(Row(d), d))'
      <3>1. Logging(d) /\ d \notin logs'
        BY <1>3, <1>8, <2>4 DEF Logging
      <3>2. PICK S, r : S = call'[d].dirty /\ r = Row(d)
        OBVIOUS
      <3>3. /\ Version(S, r, d)
            /\ call'[d].fresh => NewerOverlap(r, d)
        BY <1>1, <2>4, <3>2 DEF IInv, CallInv
      <3>4. /\ Version(S, r, d)'
            /\ call'[d].fresh => NewerOverlap(r, d)'
        BY <1>5, <3>1, <3>3, VersionKept, NewerKept
      <3>5. QED
        BY <1>6, <3>2, <3>4 DEF Version, NewerOverlap, Excused
    <2>5. ASSUME NEW d \in Calls \ Streams, call'[d].pc \in {"rollback", "failed"}
          PROVE  Raced(d)'
      <3>1. Raced(d)
        BY <1>1, <2>5 DEF IInv, CallInv
      <3>2. QED
        BY <1>6, <3>1, LoggedStarted DEF Raced
    <2>6. QED
      BY <2>1, <2>2, <2>3, <2>4, <2>5 DEF CallInv
  <1>10. OverlapInv'
    BY <1>3, <1>4 DEF IInv, OverlapInv
  <1>11. TableInv'
    <2>1. \A d \in logs' : call'[d].pc = "done"
      BY <1>1 DEF IInv, TableInv
    <2>2. \A r \in Rows : RowOK(r)'
      BY <1>5, RowKept DEF IInv, TableInv
    <2>3. QED
      BY <2>1, <2>2 DEF IInv, TableInv
  <1>12. LockInv'
    <2>1. ASSUME NEW r \in Rows, NEW d \in Calls, lock'[r] = d
          PROVE  (Logging(d) /\ r \in RowsOf(d) /\ Version(draft[r], r, d))'
      <3>1. PICK S : S = draft[r]
        OBVIOUS
      <3>2. Logging(d) /\ r \in RowsOf(d) /\ Version(S, r, d)
        BY <2>1, <3>1 DEF IInv, LockInv
      <3>3. Version(S, r, d)'
        BY <1>5, <1>8, <3>2, VersionKept
      <3>4. QED
        BY <1>3, <1>6, <3>1, <3>2, <3>3 DEF Version, Excused
    <2>2. ASSUME NEW d \in Calls, NEW i \in DOMAIN Payers[d],
                 \/ call'[d].pc \in {"select", "flush"} /\ i < call'[d].at
                 \/ call'[d].pc = "commit"
          PROVE  lock'[RowAt(d, i)'] = d
      BY <1>1, <1>2, <1>7, <2>2 DEF IInv, LockInv
    <2>3. QED
      BY <2>1, <2>2 DEF IInv, LockInv
  <1>13. QED
    BY <1>9, <1>10, <1>11, <1>12 DEF IInv

LEMMA CheckBudgetStep ==
  ASSUME IInv, NEW c \in Calls, CheckBudget(c)
  PROVE  IInv'
  <1> DEFINE x == [call[c] EXCEPT !.pc = IF WithinBudget(Payers[c][1]) THEN "upstream" ELSE "refused"]
  <1>1. call[c] \in Call /\ call[c].pc = "idle"
    BY DEF IInv, CallInv, CheckBudget
  <1>2. /\ x \in Call /\ x.pc \in {"upstream", "refused"}
        /\ x.day = call[c].day /\ x.at = call[c].at
    BY <1>1 DEF Call
  <1>3. call' = [call EXCEPT ![c] = x]
    BY DEF CheckBudget, IInv, CallInv
  <1>4. UNCHANGED <<today, logs, agg, lock, draft, overlap>>
    BY DEF CheckBudget
  <1> HIDE DEF x
  <1>5. QED
    BY <1>1, <1>2, <1>3, <1>4, CallStep DEF Logging

LEMMA UpstreamErrorStep ==
  ASSUME IInv, NEW c \in Calls, UpstreamError(c)
  PROVE  IInv'
  <1> DEFINE x == [call[c] EXCEPT !.pc = "refused"]
  <1>1. call[c] \in Call /\ call[c].pc = "upstream"
    BY DEF IInv, CallInv, UpstreamError
  <1>2. /\ x \in Call /\ x.pc = "refused"
        /\ x.day = call[c].day /\ x.at = call[c].at
    BY <1>1 DEF Call
  <1>3. call' = [call EXCEPT ![c] = x]
    BY DEF UpstreamError, IInv, CallInv
  <1>4. UNCHANGED <<today, logs, agg, lock, draft, overlap>>
    BY DEF UpstreamError
  <1> HIDE DEF x
  <1>5. QED
    BY <1>1, <1>2, <1>3, <1>4, CallStep DEF Logging

LEMMA AddedType ==
  ASSUME NEW S \in Aggregate, NEW c \in Calls
  PROVE  Added(S, c) \in SUBSET Calls
  <1>1. {c} \in SUBSET Calls
    OBVIOUS
  <1>2. ASSUME S # NoRow PROVE S \cup {c} \in SUBSET Calls
    <2>1. S \in SUBSET Calls
      BY <1>2 DEF Aggregate
    <2>2. \A d \in S \cup {c} : d \in Calls
      BY <2>1
    <2>3. QED
      BY <2>2, Zenon
  <1>3. Added(S, c) = {c} \/ (S # NoRow /\ Added(S, c) = S \cup {c})
    BY Zenon DEF Added
  <1>4. QED
    BY <1>1, <1>2, <1>3, Zenon

\* What is read is committed: it lacks only calls that were lost already.
LEMMA SelectRowStep ==
  ASSUME IInv, NEW c \in Calls, SelectRow(c)
  PROVE  IInv'
  <1> DEFINE row == Row(c)
             x == [call[c] EXCEPT !.pc = "flush", !.dirty = Added(agg[row], c),
                                  !.fresh = (agg[row] = NoRow)]
  <1>1. call[c] \in Call /\ call[c].pc = "select"
    BY DEF IInv, CallInv, SelectRow
  <1>2. row \in Rows /\ RowOK(row) /\ agg[row] \in Aggregate
    BY RowFacts DEF IInv, TableInv
  <1>3. Added(agg[row], c) \in SUBSET Calls
    BY <1>2, AddedType
  <1>4. Version(Added(agg[row], c), row, c)
    BY <1>2, <1>3 DEF Version, Added, RowOK
  <1>5. agg[row] = NoRow => NewerOverlap(row, c)
    BY <1>2 DEF RowOK, NewerOverlap
  <1>6. /\ x \in Call /\ x.pc = "flush"
        /\ x.day = call[c].day /\ x.at = call[c].at
        /\ x.dirty = Added(agg[row], c) /\ x.fresh = (agg[row] = NoRow)
    BY <1>1, <1>3 DEF Call
  <1>7. call' = [call EXCEPT ![c] = x]
    BY DEF SelectRow, IInv, CallInv
  <1>8. UNCHANGED <<today, logs, agg, lock, draft, overlap>>
    BY DEF SelectRow
  <1> HIDE DEF x
  <1>9. /\ Version(x.dirty, Row(c), c)
        /\ x.fresh => NewerOverlap(Row(c), c)
    BY <1>4, <1>5, <1>6
  <1>10. QED
    BY <1>1, <1>6, <1>7, <1>8, <1>9, CallStep DEF Logging

\* The row that was not there counts a logged call now: c overlapped it.
LEMMA FlushConflictStep ==
  ASSUME IInv, NEW c \in Calls, FlushConflict(c)
  PROVE  IInv'
  <1> DEFINE row == Row(c)
             x == [call[c] EXCEPT !.pc = "rollback"]
  <1>1. call[c] \in Call /\ call[c].pc = "flush"
    BY DEF IInv, CallInv, FlushConflict
  <1>2. row \in Rows /\ row \in RowsOf(c) /\ RowOK(row)
    BY RowFacts DEF IInv, TableInv
  <1>3. agg[row] # NoRow /\ NewerOverlap(row, c)
    BY <1>1 DEF IInv, CallInv, FlushConflict
  <1>4. PICK d \in agg[row] : d \in logs /\ row \in RowsOf(d)
    BY <1>2, <1>3 DEF RowOK
  <1>5. d \in overlap[c]
    BY <1>3, <1>4 DEF NewerOverlap
  <1>6. Raced(c)
    BY <1>2, <1>4, <1>5 DEF Raced
  <1>7. /\ x \in Call /\ x.pc = "rollback"
        /\ x.day = call[c].day /\ x.at = call[c].at
    BY <1>1 DEF Call
  <1>8. call' = [call EXCEPT ![c] = x]
    BY DEF FlushConflict, IInv, CallInv
  <1>9. UNCHANGED <<today, logs, agg, lock, draft, overlap>>
    BY DEF FlushConflict
  <1> HIDE DEF x
  <1>10. QED
    BY <1>1, <1>6, <1>7, <1>8, <1>9, CallStep DEF Logging

LEMMA CancelStep ==
  ASSUME IInv, NEW c \in Calls, Cancel(c)
  PROVE  IInv'
  <1> DEFINE x == [call[c] EXCEPT !.pc = "rollback"]
  <1>1. /\ call[c] \in Call /\ c \in Streams
        /\ call[c].pc \in {"select", "flush", "commit"}
    BY DEF IInv, CallInv, Cancel
  <1>2. /\ x \in Call /\ x.pc = "rollback"
        /\ x.day = call[c].day /\ x.at = call[c].at
    BY <1>1 DEF Call
  <1>3. call' = [call EXCEPT ![c] = x]
    BY DEF Cancel, IInv, CallInv
  <1>4. UNCHANGED <<today, logs, agg, lock, draft, overlap>>
    BY DEF Cancel
  <1> HIDE DEF x
  <1>5. QED
    BY <1>1, <1>2, <1>3, <1>4, CallStep DEF Logging

(***************************************************************************)
(* The steps that take, release or commit, and the one that starts.        *)
(***************************************************************************)

\* Facts about the calls other than c survive a step of c.
LEMMA OthersKept ==
  ASSUME IInv, Grows, NEW c \in Calls, NEW d \in Calls, d # c,
         call'[d] = call[d], d \notin logs' \/ ~Logging(d)
  PROVE  /\ Row(d)' = Row(d)
         /\ \A i \in DOMAIN Payers[d] : RowAt(d, i)' = RowAt(d, i)
         /\ call'[d].at \in DOMAIN Payers[d]
         /\ call'[d].pc \in {"idle", "upstream"} => call'[d].at = 1
         /\ (call[d].pc = "flush" => /\ Version(call[d].dirty, Row(d), d)
                                     /\ call[d].fresh => NewerOverlap(Row(d), d))'
         /\ (d \notin Streams /\ call[d].pc \in {"rollback", "failed"} => Raced(d))'
         /\ Logging(d)' = Logging(d)
         /\ Started(d)' = Started(d)
  <1>1. /\ Row(d)' = Row(d)
        /\ \A i \in DOMAIN Payers[d] : RowAt(d, i)' = RowAt(d, i)
        /\ call'[d].at \in DOMAIN Payers[d]
        /\ call'[d].pc \in {"idle", "upstream"} => call'[d].at = 1
    BY DEF Row, RowAt, IInv, CallInv
  <1>2. (call[d].pc = "flush" => /\ Version(call[d].dirty, Row(d), d)
                                 /\ call[d].fresh => NewerOverlap(Row(d), d))'
    <2> SUFFICES ASSUME call'[d].pc = "flush"
                 PROVE  (/\ Version(call[d].dirty, Row(d), d)
                         /\ call[d].fresh => NewerOverlap(Row(d), d))'
      OBVIOUS
    <2>1. Logging(d) /\ d \notin logs'
      BY DEF Logging
    <2>2. PICK S, r : S = call'[d].dirty /\ r = Row(d)
      OBVIOUS
    <2>3. /\ Version(S, r, d)
          /\ call'[d].fresh => NewerOverlap(r, d)
      BY <2>2 DEF IInv, CallInv
    <2>4. /\ Version(S, r, d)'
          /\ call'[d].fresh => NewerOverlap(r, d)'
      BY <2>1, <2>3, VersionKept, NewerKept
    <2>5. QED
      BY <1>1, <2>2, <2>4 DEF Version, NewerOverlap, Excused
  <1>3. (d \notin Streams /\ call[d].pc \in {"rollback", "failed"} => Raced(d))'
    <2> SUFFICES ASSUME d \notin Streams, call'[d].pc \in {"rollback", "failed"}
                 PROVE  Raced(d)'
      OBVIOUS
    <2>1. Raced(d) /\ Started(d)
      BY DEF IInv, CallInv, Started, Logging
    <2>2. QED
      BY <2>1, RacedKept
  <1>4. Logging(d)' = Logging(d) /\ Started(d)' = Started(d)
    BY DEF Logging, Started
  <1>5. QED
    BY <1>1, <1>2, <1>3, <1>4

\* CallInv after a step of c, once it is known of c.
LEMMA CallInvKept ==
  ASSUME IInv, Grows, NEW c \in Calls,
         call' \in [Calls -> Call],
         \A d \in Calls : d # c => call'[d] = call[d],
         \A d \in Calls : d # c => d \notin logs' \/ ~Logging(d),
         call'[c].at \in DOMAIN Payers[c],
         call'[c].pc \notin {"idle", "upstream", "flush"},
         c \in Streams \/ call'[c].pc \notin {"rollback", "failed"} \/ Raced(c)'
  PROVE  CallInv'
  <1>1. \A d \in Calls : call'[d].at \in DOMAIN Payers[d]
    BY OthersKept
  <1>2. \A d \in Calls : call'[d].pc \in {"idle", "upstream"} => call'[d].at = 1
    BY OthersKept
  <1>3. \A d \in Calls : (call[d].pc = "flush" =>
          /\ Version(call[d].dirty, Row(d), d)
          /\ call[d].fresh => NewerOverlap(Row(d), d))'
    <2> SUFFICES ASSUME NEW d \in Calls, call'[d].pc = "flush"
                 PROVE  (/\ Version(call[d].dirty, Row(d), d)
                         /\ call[d].fresh => NewerOverlap(Row(d), d))'
      OBVIOUS
    <2>1. d # c
      OBVIOUS
    <2>2. QED
      BY <2>1, OthersKept
  <1>4. \A d \in Calls \ Streams : call'[d].pc \in {"rollback", "failed"} => Raced(d)'
    <2> SUFFICES ASSUME NEW d \in Calls \ Streams, call'[d].pc \in {"rollback", "failed"}
                 PROVE  Raced(d)'
      OBVIOUS
    <2>1. CASE d = c
      BY <2>1
    <2>2. CASE d # c
      BY <2>2, OthersKept
    <2>3. QED
      BY <2>1, <2>2
  <1>5. QED
    BY <1>1, <1>2, <1>3, <1>4 DEF CallInv

LEMMA LogSpendStep ==
  ASSUME IInv, NEW c \in Calls, LogSpend(c)
  PROVE  IInv'
  <1> DEFINE others == {d \in Calls : Logging(d)}
             x == [call[c] EXCEPT !.pc = "select", !.day = LogDay]
  <1>1. call[c] \in Call /\ call[c].pc = "upstream" /\ call[c].at = 1
    BY DEF IInv, CallInv, LogSpend
  <1>2. x \in Call /\ x.pc = "select" /\ x.at = 1
    BY <1>1 DEF Call, LogDay, IInv, TableInv
  <1>3. call' = [call EXCEPT ![c] = x]
    BY DEF LogSpend, IInv, CallInv
  <1>4. /\ UNCHANGED <<today, logs, agg, lock, draft>>
        /\ overlap' = [d \in Calls |-> IF d = c THEN others
                         ELSE IF d \in others THEN overlap[d] \cup {c} ELSE overlap[d]]
    BY DEF LogSpend
  <1> HIDE DEF x
  <1>5. call'[c] = x /\ \A d \in Calls : d # c => call'[d] = call[d]
    BY <1>3 DEF IInv, CallInv
  <1>6. ~Logging(c) /\ ~Started(c) /\ c \notin logs /\ overlap[c] = {}
    <2>1. ~Logging(c) /\ ~Started(c) /\ c \notin logs
      BY <1>1 DEF Logging, Started, IInv, TableInv
    <2>2. QED
      BY <2>1 DEF IInv, OverlapInv
  <1>7. Grows
    <2>1. \A d \in Calls : overlap[d] \subseteq overlap'[d]
      BY <1>4, <1>6
    <2>2. \A d \in Calls : Started(d) => call'[d].day = call[d].day
      BY <1>5, <1>6
    <2>3. QED
      BY <1>4, <2>1, <2>2 DEF Grows
  <1>8. \A d \in Calls : Logging(d) => d \notin logs'
    BY <1>4 DEF IInv, TableInv, Logging
  <1>9. Logging(c)' /\ Started(c)'
    BY <1>2, <1>5 DEF Logging, Started
  <1>10. \A d \in Calls : d # c => Logging(d)' = Logging(d) /\ Started(d)' = Started(d)
    BY <1>5 DEF Logging, Started
  <1>11. CallInv'
    <2>1. call' \in [Calls -> Call]
      BY <1>2, <1>3 DEF IInv, CallInv
    <2>2. 1 \in DOMAIN Payers[c]
      BY <1>1 DEF IInv, CallInv
    <2>3. QED
      BY <1>2, <1>5, <1>7, <1>8, <2>1, <2>2, CallInvKept
  <1>12. OverlapInv'
    <2>1. overlap' \in [Calls -> SUBSET Calls]
      BY <1>4 DEF IInv, OverlapInv
    <2>2. ASSUME NEW a \in Calls, NEW b \in Calls, b \in overlap'[a]
          PROVE  Started(a)' /\ a \in overlap'[b]
      <3>1. CASE a = c
        BY <1>4, <1>6, <1>9, <2>2, <3>1
      <3>2. CASE a # c /\ b = c
        <4>1. Logging(a)
          BY <1>4, <1>6, <2>2, <3>2 DEF IInv, OverlapInv
        <4>2. QED
          BY <1>4, <1>10, <3>2, <4>1 DEF Started
      <3>3. CASE a # c /\ b # c
        <4>1. b \in overlap[a]
          BY <1>4, <2>2, <3>3
        <4>2. Started(a) /\ a \in overlap[b]
          BY <4>1 DEF IInv, OverlapInv
        <4>3. QED
          BY <1>4, <1>10, <3>3, <4>2
      <3>4. QED
        BY <3>1, <3>2, <3>3
    <2>3. ASSUME NEW a \in Calls, NEW b \in Calls, a # b, Logging(a)', Logging(b)'
          PROVE  b \in overlap'[a]
      <3>1. CASE a # c /\ b # c
        BY <1>7, <1>10, <2>3, <3>1 DEF IInv, OverlapInv, Grows
      <3>2. CASE a = c \/ b = c
        BY <1>4, <1>10, <2>3, <3>2
      <3>3. QED
        BY <3>1, <3>2
    <2>4. QED
      BY <2>1, <2>2, <2>3 DEF OverlapInv
  <1>13. TableInv'
    <2>1. \A d \in logs' : call'[d].pc = "done"
      BY <1>4, <1>5, <1>6, LoggedStarted DEF IInv, TableInv
    <2>2. \A r \in Rows : RowOK(r)'
      BY <1>4, <1>7, RowKept DEF IInv, TableInv
    <2>3. QED
      BY <1>4, <2>1, <2>2 DEF IInv, TableInv
  <1>14. LockInv'
    <2>1. ASSUME NEW r \in Rows, NEW d \in Calls, lock'[r] = d
          PROVE  (Logging(d) /\ r \in RowsOf(d) /\ Version(draft[r], r, d))'
      <3>1. PICK S : S = draft[r]
        OBVIOUS
      <3>2. Logging(d) /\ r \in RowsOf(d) /\ Version(S, r, d)
        BY <1>4, <2>1, <3>1 DEF IInv, LockInv
      <3>3. Version(S, r, d)' /\ RowsOf(d)' = RowsOf(d)
        BY <1>7, <1>8, <3>2, VersionKept, RowsOfKept DEF Started
      <3>4. QED
        BY <1>4, <1>6, <1>10, <3>1, <3>2, <3>3 DEF Version, Excused
    <2>2. ASSUME NEW d \in Calls, NEW i \in DOMAIN Payers[d],
                 \/ call'[d].pc \in {"select", "flush"} /\ i < call'[d].at
                 \/ call'[d].pc = "commit"
          PROVE  lock'[RowAt(d, i)'] = d
      <3>1. d # c
        BY <1>2, <1>5, <2>2
      <3>2. RowAt(d, i)' = RowAt(d, i)
        BY <1>5, <3>1 DEF RowAt
      <3>3. call'[d] = call[d] /\ lock' = lock
        BY <1>4, <1>5, <3>1
      <3>4. lock[RowAt(d, i)] = d
        BY <2>2, <3>3 DEF IInv, LockInv
      <3>5. QED
        BY <3>2, <3>3, <3>4
    <2>3. QED
      BY <1>4, <2>1, <2>2 DEF IInv, LockInv
  <1>15. QED
    BY <1>11, <1>12, <1>13, <1>14 DEF IInv

\* The written row is locked, and so is every row before it.
LEMMA FlushRowStep ==
  ASSUME IInv, NEW c \in Calls, FlushRow(c)
  PROVE  IInv'
  <1> DEFINE last == call[c].at = Len(Payers[c])
             x == [call[c] EXCEPT !.pc = IF last THEN "commit" ELSE "select",
                                  !.at = IF last THEN @ ELSE @ + 1]
  <1>1. call[c] \in Call /\ call[c].pc = "flush" /\ call[c].at \in DOMAIN Payers[c]
    BY DEF IInv, CallInv, FlushRow
  <1>2. DOMAIN Payers[c] = 1..Len(Payers[c]) /\ Len(Payers[c]) \in Nat
    OBVIOUS
  <1>3. call' = [call EXCEPT ![c] = x]
    BY DEF FlushRow, IInv, CallInv
  <1>4. /\ x \in Call /\ x.pc \in {"commit", "select"} /\ x.day = call[c].day
        /\ x.at \in DOMAIN Payers[c]
        /\ \A i \in DOMAIN Payers[c] :
             (x.pc = "select" /\ i < x.at) \/ x.pc = "commit" => i <= call[c].at
    <2>1. /\ x.pc = (IF last THEN "commit" ELSE "select")
          /\ x.at = (IF last THEN call[c].at ELSE call[c].at + 1)
          /\ x.day = call[c].day
      BY <1>1 DEF Call
    <2>2. call[c].at \in Nat /\ call[c].at >= 1 /\ call[c].at <= Len(Payers[c])
      BY <1>1, <1>2
    <2>3. x.at \in 1..Len(Payers[c])
      BY <1>2, <2>1, <2>2
    <2>4. x \in Call
      <3>1. (IF last THEN call[c].at ELSE call[c].at + 1) \in Nat
        BY <2>2
      <3>2. \A pc \in {"commit", "select"}, at \in Nat :
              [call[c] EXCEPT !.pc = pc, !.at = at] \in Call
        BY <1>1 DEF Call
      <3>3. (IF last THEN "commit" ELSE "select") \in {"commit", "select"}
        OBVIOUS
      <3>4. QED
        BY <3>1, <3>2, <3>3, Zenon
    <2>5. ASSUME NEW i \in DOMAIN Payers[c],
                 (x.pc = "select" /\ i < x.at) \/ x.pc = "commit"
          PROVE  i <= call[c].at
      BY <1>2, <2>1, <2>2, <2>5
    <2>6. QED
      BY <1>2, <2>1, <2>3, <2>4, <2>5
  <1>5. /\ UNCHANGED <<today, logs, agg, overlap>>
        /\ lock[Row(c)] = Nobody
        /\ lock' = [lock EXCEPT ![Row(c)] = c]
        /\ draft' = [draft EXCEPT ![Row(c)] = call[c].dirty]
    BY DEF FlushRow
  <1> HIDE DEF x, last
  <1>6. call'[c] = x /\ \A d \in Calls : d # c => call'[d] = call[d]
    BY <1>3 DEF IInv, CallInv
  <1>7. \A d \in Calls : call'[d].day = call[d].day
    BY <1>4, <1>6
  <1>8. Grows
    BY <1>5, <1>7 DEF Grows
  <1>9. \A d \in Calls : Logging(d) => d \notin logs'
    BY <1>5 DEF IInv, TableInv, Logging
  <1>10. Logging(c) /\ \A d \in Calls : Logging(d)' = Logging(d) /\ Started(d)' = Started(d)
    BY <1>1, <1>4, <1>6 DEF Logging, Started
  <1>11. CallInv'
    <2>1. call' \in [Calls -> Call]
      BY <1>3, <1>4 DEF IInv, CallInv
    <2>2. QED
      BY <1>4, <1>6, <1>8, <1>9, <2>1, CallInvKept
  <1>12. OverlapInv'
    BY <1>5, <1>10 DEF IInv, OverlapInv
  <1>13. TableInv'
    <2>1. \A d \in logs' : call'[d].pc = "done"
      BY <1>1, <1>5, <1>6, LoggedStarted DEF IInv, TableInv
    <2>2. \A r \in Rows : RowOK(r)'
      BY <1>5, <1>8, RowKept DEF IInv, TableInv
    <2>3. QED
      BY <1>5, <2>1, <2>2 DEF IInv, TableInv
  <1>14. LockInv'
    <2>1. Row(c) = RowAt(c, call[c].at) /\ Row(c) \in RowsOf(c) /\ Row(c) \in Rows
      BY RowFacts DEF IInv
    <2>2. Version(call[c].dirty, Row(c), c) /\ call[c].dirty \in SUBSET Calls
      BY <1>1 DEF IInv, CallInv, Version
    <2>3. /\ lock' \in [Rows -> Calls \cup {Nobody}]
          /\ draft' \in [Rows -> Aggregate]
      BY <1>5, <2>2 DEF IInv, LockInv, Aggregate
    <2>4. ASSUME NEW r \in Rows, NEW d \in Calls, lock'[r] = d
          PROVE  (Logging(d) /\ r \in RowsOf(d) /\ Version(draft[r], r, d))'
      <3>1. PICK S : S = draft'[r]
        OBVIOUS
      <3>2. Logging(d) /\ r \in RowsOf(d) /\ Version(S, r, d)
        <4>1. CASE r = Row(c)
          <5>1. d = c /\ S = call[c].dirty
            BY <1>5, <2>1, <2>4, <3>1, <4>1 DEF IInv, LockInv
          <5>2. QED
            BY <1>10, <2>1, <2>2, <4>1, <5>1
        <4>2. CASE r # Row(c)
          <5>1. lock[r] = d /\ S = draft[r]
            BY <1>5, <2>4, <3>1, <4>2 DEF IInv, LockInv
          <5>2. QED
            BY <5>1 DEF IInv, LockInv
        <4>3. QED
          BY <4>1, <4>2
      <3>3. Version(S, r, d)' /\ RowsOf(d)' = RowsOf(d)
        BY <1>8, <1>9, <3>2, VersionKept, RowsOfKept DEF Started
      <3>4. QED
        BY <1>10, <3>1, <3>2, <3>3 DEF Version, Excused
    <2>5. ASSUME NEW d \in Calls, NEW i \in DOMAIN Payers[d],
                 \/ call'[d].pc \in {"select", "flush"} /\ i < call'[d].at
                 \/ call'[d].pc = "commit"
          PROVE  lock'[RowAt(d, i)'] = d
      <3>1. RowAt(d, i)' = RowAt(d, i)
        BY <1>7 DEF RowAt
      <3>2. RowAt(d, i) \in Rows
        BY RowFacts DEF IInv
      <3>3. (d = c /\ i = call[c].at) \/ lock[RowAt(d, i)] = d
        <4>1. CASE d = c
          <5>1. i <= call[c].at
            BY <1>4, <1>6, <2>5, <4>1
          <5>2. i < call[c].at \/ i = call[c].at
            BY <1>1, <1>2, <4>1, <5>1
          <5>3. QED
            BY <1>1, <4>1, <5>2 DEF IInv, LockInv
        <4>2. CASE d # c
          <5>1. call'[d] = call[d]
            BY <1>6, <4>2
          <5>2. QED
            BY <2>5, <5>1 DEF IInv, LockInv
        <4>3. QED
          BY <4>1, <4>2
      <3>4. CASE d = c /\ i = call[c].at
        BY <1>5, <2>1, <3>1, <3>4 DEF IInv, LockInv
      <3>5. CASE lock[RowAt(d, i)] = d
        <4>1. RowAt(d, i) # Row(c)
          BY <1>5, <3>5
        <4>2. QED
          BY <1>5, <3>1, <3>2, <3>5, <4>1 DEF IInv, LockInv
      <3>6. QED
        BY <3>3, <3>4, <3>5
    <2>6. QED
      BY <2>3, <2>4, <2>5 DEF LockInv
  <1>15. QED
    BY <1>11, <1>12, <1>13, <1>14 DEF IInv

\* LockInv after c has released its locks and left log_spend.
LEMMA ReleaseStep ==
  ASSUME IInv, Grows, NEW c \in Calls, Release(c),
         \A d \in Calls : d # c => call'[d] = call[d],
         \A d \in Calls : d # c /\ Logging(d) => d \notin logs',
         call'[c].pc \in {"done", "failed"}
  PROVE  LockInv'
  <1>1. \A r \in Rows : /\ lock'[r] = (IF lock[r] = c THEN Nobody ELSE lock[r])
                         /\ draft'[r] = (IF lock[r] = c THEN NoRow ELSE draft[r])
    BY DEF Release
  <1>2. /\ lock' \in [Rows -> Calls \cup {Nobody}]
        /\ draft' \in [Rows -> Aggregate]
    BY DEF Release, IInv, LockInv, Aggregate
  <1>3. ASSUME NEW r \in Rows, NEW d \in Calls, lock'[r] = d
        PROVE  (Logging(d) /\ r \in RowsOf(d) /\ Version(draft[r], r, d))'
    <2>1. d # c /\ lock[r] = d /\ draft'[r] = draft[r]
      BY <1>1, <1>3
    <2>2. PICK S : S = draft'[r]
      OBVIOUS
    <2>3. Logging(d) /\ r \in RowsOf(d) /\ Version(S, r, d)
      BY <2>1, <2>2 DEF IInv, LockInv
    <2>4. Logging(d)'
      BY <2>1, <2>3 DEF Logging
    <2>5. Version(S, r, d)' /\ RowsOf(d)' = RowsOf(d)
      BY <2>1, <2>3, VersionKept, RowsOfKept DEF Started
    <2>6. QED
      BY <2>2, <2>3, <2>4, <2>5 DEF Version, Excused
  <1>4. ASSUME NEW d \in Calls, NEW i \in DOMAIN Payers[d],
               \/ call'[d].pc \in {"select", "flush"} /\ i < call'[d].at
               \/ call'[d].pc = "commit"
        PROVE  lock'[RowAt(d, i)'] = d
    <2>1. d # c
      BY <1>4
    <2>2. call'[d] = call[d] /\ RowAt(d, i)' = RowAt(d, i)
      BY <2>1 DEF RowAt
    <2>3. lock[RowAt(d, i)] = d
      BY <1>4, <2>2 DEF IInv, LockInv
    <2>4. RowAt(d, i) \in Rows
      BY RowFacts DEF IInv
    <2>5. QED
      BY <1>1, <2>1, <2>2, <2>3, <2>4
  <1>5. QED
    BY <1>2, <1>3, <1>4 DEF LockInv

LEMMA RollbackStep ==
  ASSUME IInv, NEW c \in Calls, Rollback(c)
  PROVE  IInv'
  <1> DEFINE x == [call[c] EXCEPT !.pc = "failed"]
  <1>1. call[c] \in Call /\ call[c].pc = "rollback" /\ call[c].at \in DOMAIN Payers[c]
    BY DEF IInv, CallInv, Rollback
  <1>2. x \in Call /\ x.pc = "failed" /\ x.day = call[c].day /\ x.at = call[c].at
    BY <1>1 DEF Call
  <1>3. call' = [call EXCEPT ![c] = x]
    BY DEF Rollback, IInv, CallInv
  <1>4. UNCHANGED <<today, logs, agg, overlap>> /\ Release(c)
    BY DEF Rollback
  <1> HIDE DEF x
  <1>5. call'[c] = x /\ \A d \in Calls : d # c => call'[d] = call[d]
    BY <1>3 DEF IInv, CallInv
  <1>6. Grows
    BY <1>2, <1>4, <1>5 DEF Grows
  <1>7. \A d \in Calls : Logging(d) => d \notin logs'
    BY <1>4 DEF IInv, TableInv, Logging
  <1>8. /\ \A d \in Calls : Started(d)' = Started(d)
        /\ \A d \in Calls : Logging(d)' => Logging(d)
    BY <1>1, <1>2, <1>5 DEF Logging, Started
  <1>9. CallInv'
    <2>1. call' \in [Calls -> Call]
      BY <1>2, <1>3 DEF IInv, CallInv
    <2>2. c \in Streams \/ Raced(c)'
      BY <1>1, <1>6, RacedKept DEF IInv, CallInv, Started, Logging
    <2>3. QED
      BY <1>1, <1>2, <1>5, <1>6, <1>7, <2>1, <2>2, CallInvKept
  <1>10. OverlapInv'
    BY <1>4, <1>8 DEF IInv, OverlapInv
  <1>11. TableInv'
    <2>1. \A d \in logs' : call'[d].pc = "done"
      BY <1>1, <1>4, <1>5, LoggedStarted DEF IInv, TableInv
    <2>2. \A r \in Rows : RowOK(r)'
      BY <1>4, <1>6, RowKept DEF IInv, TableInv
    <2>3. QED
      BY <1>4, <2>1, <2>2 DEF IInv, TableInv
  <1>12. LockInv'
    BY <1>2, <1>4, <1>5, <1>6, <1>7, ReleaseStep
  <1>13. QED
    BY <1>9, <1>10, <1>11, <1>12 DEF IInv

\* What c overwrites overlapped c, and c is logged from now on.
LEMMA CommitStep ==
  ASSUME IInv, NEW c \in Calls, Commit(c)
  PROVE  IInv'
  <1> DEFINE x == [call[c] EXCEPT !.pc = "done"]
  <1>1. call[c] \in Call /\ call[c].pc = "commit" /\ call[c].at \in DOMAIN Payers[c]
    BY DEF IInv, CallInv, Commit
  <1>2. x \in Call /\ x.pc = "done" /\ x.day = call[c].day /\ x.at = call[c].at
    BY <1>1 DEF Call
  <1>3. call' = [call EXCEPT ![c] = x]
    BY DEF Commit, IInv, CallInv
  <1>4. /\ UNCHANGED <<today, overlap>> /\ Release(c)
        /\ agg' = [r \in Rows |-> IF lock[r] = c THEN draft[r] ELSE agg[r]]
        /\ logs' = logs \cup {c}
    BY DEF Commit
  <1> HIDE DEF x
  <1>5. call'[c] = x /\ \A d \in Calls : d # c => call'[d] = call[d]
    BY <1>3 DEF IInv, CallInv
  <1>6. Logging(c)
    BY <1>1 DEF Logging
  <1>7. Grows
    BY <1>2, <1>4, <1>5, <1>6 DEF Grows
  <1>8. \A d \in Calls : d # c /\ Logging(d) => d \notin logs'
    BY <1>4 DEF IInv, TableInv, Logging
  <1>9. /\ \A d \in Calls : Started(d) => Started(d)'
        /\ \A d \in Calls : Logging(d)' => Logging(d)
    BY <1>1, <1>2, <1>5 DEF Logging, Started
  <1>10. CallInv'
    <2>1. call' \in [Calls -> Call]
      BY <1>2, <1>3 DEF IInv, CallInv
    <2>2. QED
      BY <1>1, <1>2, <1>5, <1>7, <1>8, <2>1, CallInvKept
  <1>11. OverlapInv'
    BY <1>4, <1>9 DEF IInv, OverlapInv
  <1>12. TableInv'
    <2>1. \A d \in logs' : call'[d].pc = "done"
      BY <1>2, <1>4, <1>5, LoggedStarted DEF IInv, TableInv
    <2>2. \A r \in Rows, d \in Calls : lock[r] = d => draft[r] \in SUBSET Calls
      BY DEF IInv, LockInv, Version
    <2>3. agg' \in [Rows -> Aggregate]
      BY <1>4, <2>2 DEF IInv, TableInv, Aggregate
    <2>4. logs' \in SUBSET Calls
      BY <1>4 DEF IInv, TableInv
    <2>5. ASSUME NEW r \in Rows PROVE RowOK(r)'
      <3>1. CASE lock[r] = c
        <4>1. PICK S : S = draft[r]
          OBVIOUS
        <4>2. agg'[r] = S
          BY <1>4, <3>1, <4>1
        <4>3. r \in RowsOf(c) /\ Version(S, r, c)
          BY <3>1, <4>1 DEF IInv, LockInv
        <4>4. S # NoRow /\ S # {}
          BY <4>3 DEF Version
        <4>5. \A d \in logs' : d \in Calls /\ RowsOf(d)' = RowsOf(d)
          BY <1>7, NewLogStarted, RowsOfKept
        <4>6. \A d \in S : d \in logs' /\ r \in RowsOf(d)'
          BY <1>4, <4>3, <4>5 DEF Version
        <4>7. ASSUME NEW d \in logs', r \in RowsOf(d)'
              PROVE  d \in S \/ Excused(d, r)'
          <5>1. d \in Calls /\ r \in RowsOf(d)
            BY <4>5, <4>7
          <5>2. CASE d = c \/ d \in S
            BY <4>3, <5>2 DEF Version
          <5>3. CASE d \in logs /\ d \in overlap[c]
            <6>1. c \in overlap'[d] /\ c \in logs'
              BY <1>4, <5>1, <5>3 DEF IInv, OverlapInv
            <6>2. r \in RowsOf(c)'
              BY <4>3, <4>5, <6>1
            <6>3. QED
              BY <6>1, <6>2 DEF Excused
          <5>4. CASE Excused(d, r)
            BY <1>7, <5>1, <5>4, ExcusedKept
          <5>5. QED
            BY <1>4, <4>3, <5>1, <5>2, <5>3, <5>4 DEF Version
        <4>8. QED
          BY <4>2, <4>4, <4>6, <4>7 DEF RowOK
      <3>2. CASE lock[r] # c
        <4>1. r \notin RowsOf(c)
          <5> SUFFICES ASSUME r \in RowsOf(c) PROVE FALSE
            OBVIOUS
          <5>1. PICK i \in DOMAIN Payers[c] : r = RowAt(c, i)
            BY DEF RowsOf, RowsOn, RowAt
          <5>2. lock[RowAt(c, i)] = c
            BY <1>1 DEF IInv, LockInv
          <5>3. QED
            BY <3>2, <5>1, <5>2
        <4>2. agg'[r] = agg[r] /\ RowOK(r)
          BY <1>4, <3>2 DEF IInv, TableInv
        <4>3. \A d \in logs' : d \in logs \/ r \notin RowsOf(d)
          BY <1>4, <4>1
        <4>4. QED
          BY <1>7, <4>2, <4>3, RowKept
      <3>3. QED
        BY <3>1, <3>2
    <2>6. QED
      BY <1>4, <2>1, <2>3, <2>4, <2>5 DEF IInv, TableInv
  <1>13. LockInv'
    BY <1>2, <1>4, <1>5, <1>7, <1>8, ReleaseStep
  <1>14. QED
    BY <1>10, <1>11, <1>12, <1>13 DEF IInv

(***************************************************************************)
(* The theorems.                                                           *)
(***************************************************************************)

LEMMA InitIInv == Init => IInv
  <1> SUFFICES ASSUME Init PROVE IInv
    OBVIOUS
  <1>1. \A c \in Calls : call[c] = IdleCall /\ overlap[c] = {}
    BY DEF Init
  <1>2. IdleCall \in Call /\ IdleCall.pc = "idle" /\ IdleCall.at = 1
    BY DEF IdleCall, Call
  <1>3. \A c \in Calls : ~Logging(c)
    BY <1>1, <1>2 DEF Logging
  <1>4. CallInv
    <2>1. call \in [Calls -> Call]
      BY <1>2 DEF Init
    <2>2. \A c \in Calls : 1 \in DOMAIN Payers[c]
      OBVIOUS
    <2>3. QED
      BY <1>1, <1>2, <2>1, <2>2 DEF CallInv
  <1>5. OverlapInv
    BY <1>3 DEF Init, OverlapInv
  <1>6. TableInv
    BY DEF Init, TableInv, RowOK, Aggregate
  <1>7. LockInv
    <2>1. \A r \in Rows : lock[r] = Nobody
      BY DEF Init
    <2>2. \A c \in Calls : call[c].pc \notin {"select", "flush", "commit"}
      BY <1>1, <1>2
    <2>3. QED
      BY <2>1, <2>2 DEF Init, LockInv, Aggregate
  <1>8. QED
    BY <1>4, <1>5, <1>6, <1>7 DEF IInv

LEMMA StepIInv == IInv /\ [Next]_vars => IInv'
  <1> SUFFICES ASSUME IInv, [Next]_vars PROVE IInv'
    OBVIOUS
  <1>1. ASSUME NEW c \in Calls,
               CheckBudget(c) \/ UpstreamError(c) \/ LogSpend(c) \/ Database(c) \/ Cancel(c)
        PROVE  IInv'
    BY <1>1, CheckBudgetStep, UpstreamErrorStep, LogSpendStep, SelectRowStep, FlushRowStep,
       FlushConflictStep, CommitStep, RollbackStep, CancelStep DEF Database
  <1>2. CASE Midnight \/ UNCHANGED vars
    <2>1. UNCHANGED <<logs, agg, lock, draft, call, overlap>> /\ today' \in 1..MaxDay
      BY <1>2 DEF Midnight, vars, IInv, TableInv
    <2>2. CallInv'
      BY <2>1 DEF IInv, CallInv, Version, NewerOverlap, Excused, Raced, RowsOf, Row
    <2>3. OverlapInv'
      BY <2>1 DEF IInv, OverlapInv, Started, Logging
    <2>4. LockInv'
      BY <2>1 DEF IInv, LockInv, Version, Excused, Logging, RowsOf, RowAt
    <2>5. TableInv'
      BY <2>1 DEF IInv, TableInv, RowOK, Excused, RowsOf
    <2>6. QED
      BY <2>2, <2>3, <2>4, <2>5 DEF IInv
  <1>3. QED
    BY <1>1, <1>2 DEF Next

LEMMA Inductive == Spec => []IInv
  BY InitIInv, StepIInv, PTL DEF Spec

\* Every variable keeps its type.
THEOREM TypeCorrect == Spec => []TypeOK
  BY Inductive, IInvImplies, PTL

\* However many log_spend transactions run at once, an aggregate never counts
\* a call that spend_logs does not hold, nor one of another payer, model or day.
THEOREM CountedAreLogged == Spec => []CountedCallsAreLogged
  BY Inductive, IInvImplies, PTL

\* The only way for a logged call to be missing from its aggregate is that a
\* call whose log_spend overlapped its own wrote the aggregate too.
THEOREM OnlyOverlapLoses == Spec => []LostOnlyToOverlap
  BY Inductive, IInvImplies, PTL

\* The only way for a log_spend that is not cancelled to fail is against
\* another that it overlapped and that shares an aggregate with it.
THEOREM OnlyOverlapFails == Spec => []FailsOnlyToOverlap
  BY Inductive, IInvImplies, PTL
-----------------------------------------------------------------------------
(***************************************************************************)
(* SpendLedger implements AtomicLedger, whatever the calls, their payers   *)
(* and the days.                                                           *)
(***************************************************************************)
\* Every step is one of history growing.
LEMMA StepGrows ==
  ASSUME IInv, [Next]_vars
  PROVE  Grows
  <1>1. ASSUME NEW c \in Calls, LogSpend(c) PROVE Grows
    <2>1. /\ logs' = logs /\ ~Started(c)
          /\ \A d \in Calls : d # c => call'[d] = call[d]
          /\ \A d \in Calls : overlap[d] \subseteq overlap'[d] \/ d = c
      BY <1>1 DEF LogSpend, Started, Logging, IInv, CallInv, OverlapInv
    <2>2. overlap[c] = {}
      BY <2>1 DEF IInv, OverlapInv
    <2>3. QED
      BY <2>1, <2>2 DEF Grows
  <1>2. ASSUME NEW c \in Calls,
               \/ CheckBudget(c) \/ UpstreamError(c) \/ SelectRow(c)
               \/ FlushRow(c) \/ FlushConflict(c) \/ Rollback(c) \/ Cancel(c)
        PROVE  Grows
    <2>1. logs' = logs /\ overlap' = overlap
      BY <1>2 DEF CheckBudget, UpstreamError, SelectRow, FlushRow, FlushConflict, Rollback, Cancel
    <2>2. ASSUME NEW d \in Calls PROVE call'[d].day = call[d].day
      <3>0. call \in [Calls -> Call] /\ call[c] \in Call
        BY DEF IInv, CallInv
      <3>1. CASE CheckBudget(c)
        <4>1. PICK pc : call' = [call EXCEPT ![c].pc = pc]
          BY <3>1 DEF CheckBudget
        <4>2. QED
          BY <3>0, <4>1 DEF Call
      <3>6. CASE UpstreamError(c)
        BY <3>0, <3>6 DEF UpstreamError, Call
      <3>2. CASE SelectRow(c)
        BY <3>0, <3>2 DEF SelectRow, Call
      <3>3. CASE FlushRow(c)
        BY <3>0, <3>3 DEF FlushRow, Call
      <3>4. CASE FlushConflict(c) \/ Rollback(c) \/ Cancel(c)
        <4>1. PICK pc : call' = [call EXCEPT ![c].pc = pc]
          BY <3>4 DEF FlushConflict, Rollback, Cancel
        <4>2. QED
          BY <3>0, <4>1 DEF Call
      <3>5. QED
        BY <1>2, <3>1, <3>2, <3>3, <3>4, <3>6
    <2>3. QED
      BY <2>1, <2>2 DEF Grows
  <1>3. ASSUME NEW c \in Calls, Commit(c) PROVE Grows
    <2>1. logs' = logs \cup {c} /\ overlap' = overlap /\ Logging(c)
      BY <1>3 DEF Commit, Logging
    <2>2. \A d \in Calls : call'[d].day = call[d].day
      BY <1>3 DEF Commit, IInv, CallInv, Call
    <2>3. QED
      BY <2>1, <2>2 DEF Grows
  <1>4. CASE Midnight \/ UNCHANGED vars
    BY <1>4 DEF Midnight, vars, Grows
  <1>5. QED
    BY <1>1, <1>2, <1>3, <1>4 DEF Next, Database

\* Unless a logged call has overlapped c in the row, the version of c is the
\* committed one with c added.
Current ==
  /\ \A c \in Calls : call[c].pc = "flush" =>
       call[c].dirty = Added(agg[Row(c)], c) \/ Excused(c, Row(c))
  /\ \A r \in Rows, c \in Calls : lock[r] = c =>
       draft[r] = Added(agg[r], c) \/ Excused(c, r)

LEMMA InitCurrent == Init => Current
  <1> SUFFICES ASSUME Init PROVE Current
    OBVIOUS
  <1>1. \A c \in Calls : call[c].pc = "idle"
    BY DEF Init, IdleCall
  <1>2. \A r \in Rows, c \in Calls : lock[r] # c
    BY DEF Init
  <1>3. QED
    BY <1>1, <1>2 DEF Current

\* A step that commits no row keeps what it does not touch current.
LEMMA CurrentKept ==
  ASSUME IInv, Current, Grows, agg' = agg,
         \A c \in Calls : call'[c].pc = "flush" =>
            \/ /\ call[c].pc = "flush" /\ Row(c)' = Row(c)
               /\ call'[c].dirty = call[c].dirty
            \/ (call[c].dirty = Added(agg[Row(c)], c))',
         \A r \in Rows, c \in Calls : lock'[r] = c =>
            \/ lock[r] = c /\ draft'[r] = draft[r]
            \/ /\ call[c].pc = "flush" /\ r = Row(c) /\ draft'[r] = call[c].dirty
  PROVE  Current'
  <1>1. ASSUME NEW c \in Calls, call'[c].pc = "flush"
        PROVE  (call[c].dirty = Added(agg[Row(c)], c) \/ Excused(c, Row(c)))'
    <2>1. CASE call[c].pc = "flush" /\ Row(c)' = Row(c) /\ call'[c].dirty = call[c].dirty
      <3>1. call[c].dirty = Added(agg[Row(c)], c) \/ Excused(c, Row(c))
        BY <2>1 DEF Current
      <3>2. PICK r : r = Row(c)
        OBVIOUS
      <3>3. Excused(c, r) => Excused(c, r)'
        BY ExcusedKept
      <3>4. QED
        BY <2>1, <3>1, <3>2, <3>3 DEF Excused
    <2>2. QED
      BY <1>1, <2>1
  <1>2. ASSUME NEW r \in Rows, NEW c \in Calls, lock'[r] = c
        PROVE  draft'[r] = Added(agg'[r], c) \/ Excused(c, r)'
    <2>1. draft'[r] = Added(agg[r], c) \/ Excused(c, r)
      <3>1. CASE lock[r] = c /\ draft'[r] = draft[r]
        BY <3>1 DEF Current
      <3>2. CASE call[c].pc = "flush" /\ r = Row(c) /\ draft'[r] = call[c].dirty
        BY <3>2 DEF Current
      <3>3. QED
        BY <1>2, <3>1, <3>2
    <2>2. QED
      BY <2>1, ExcusedKept
  <1>3. QED
    BY <1>1, <1>2 DEF Current, Excused

\* Whoever else is about to write a row of c overlaps c, which is logged now.
LEMMA CommitCurrent ==
  ASSUME IInv, Current, Grows, NEW c \in Calls, Commit(c)
  PROVE  Current'
  <1>1. /\ agg' = [r \in Rows |-> IF lock[r] = c THEN draft[r] ELSE agg[r]]
        /\ logs' = logs \cup {c} /\ Logging(c) /\ call'[c].pc = "done"
        /\ lock' = [r \in Rows |-> IF lock[r] = c THEN Nobody ELSE lock[r]]
        /\ draft' = [r \in Rows |-> IF lock[r] = c THEN NoRow ELSE draft[r]]
        /\ \A d \in Calls : d # c => call'[d] = call[d]
    BY DEF Commit, Release, IInv, CallInv, Call, Logging
  <1>2. ASSUME NEW d \in Calls, d # c, Logging(d), NEW r \in Rows,
               NEW S, S = Added(agg[r], d) \/ Excused(d, r)
        PROVE  S = Added(agg'[r], d) \/ Excused(d, r)'
    <2>1. CASE lock[r] = c
      <3>1. r \in RowsOf(c)
        BY <2>1 DEF IInv, LockInv
      <3>2. c \in logs' \cap overlap'[d]
        BY <1>1, <1>2 DEF IInv, OverlapInv, Grows
      <3>3. RowsOf(c)' = RowsOf(c)
        BY <1>1, RowsOfKept DEF Started
      <3>4. QED
        BY <3>1, <3>2, <3>3 DEF Excused
    <2>2. CASE lock[r] # c
      BY <1>1, <1>2, <2>2, ExcusedKept
    <2>3. QED
      BY <2>1, <2>2
  <1>3. ASSUME NEW d \in Calls, call'[d].pc = "flush"
        PROVE  (call[d].dirty = Added(agg[Row(d)], d) \/ Excused(d, Row(d)))'
    <2>1. d # c /\ call'[d] = call[d] /\ Row(d)' = Row(d) /\ Logging(d)
      BY <1>1, <1>3 DEF Row, Logging
    <2>2. PICK r \in Rows : r = Row(d)
      BY RowFacts DEF IInv
    <2>3. call[d].dirty = Added(agg[r], d) \/ Excused(d, r)
      BY <1>3, <2>1, <2>2 DEF Current
    <2>4. call[d].dirty = Added(agg'[r], d) \/ Excused(d, r)'
      BY <1>2, <2>1, <2>3
    <2>5. QED
      BY <2>1, <2>2, <2>4 DEF Excused
  <1>4. ASSUME NEW r \in Rows, NEW d \in Calls, lock'[r] = d
        PROVE  draft'[r] = Added(agg'[r], d) \/ Excused(d, r)'
    <2>1. d # c /\ lock[r] = d /\ draft'[r] = draft[r]
      BY <1>1, <1>4
    <2>2. Logging(d)
      BY <2>1 DEF IInv, LockInv
    <2>3. draft[r] = Added(agg[r], d) \/ Excused(d, r)
      BY <2>1 DEF Current
    <2>4. QED
      BY <1>2, <2>1, <2>2, <2>3
  <1>5. QED
    BY <1>3, <1>4 DEF Current, Excused

LEMMA StepCurrent ==
  ASSUME IInv, Current, [Next]_vars
  PROVE  Current'
  <1>0. Grows
    BY StepGrows
  <1>1. ASSUME NEW c \in Calls,
               \/ LogSpend(c) \/ CheckBudget(c) \/ UpstreamError(c)
               \/ FlushConflict(c) \/ Cancel(c)
        PROVE  Current'
    <2>1. /\ UNCHANGED <<agg, lock, draft>> /\ call'[c].pc # "flush"
          /\ \A d \in Calls : d # c => call'[d] = call[d]
      BY <1>1 DEF LogSpend, CheckBudget, UpstreamError, FlushConflict, Cancel, IInv, CallInv, Call
    <2>2. \A d \in Calls : d # c => Row(d)' = Row(d)
      BY <2>1 DEF Row
    <2>3. QED
      BY <1>0, <2>1, <2>2, CurrentKept
  <1>2. ASSUME NEW c \in Calls, SelectRow(c) PROVE Current'
    <2>1. /\ UNCHANGED <<agg, lock, draft>>
          /\ call'[c].dirty = Added(agg[Row(c)], c)
          /\ call'[c].at = call[c].at /\ call'[c].day = call[c].day
          /\ \A d \in Calls : d # c => call'[d] = call[d]
      BY <1>2 DEF SelectRow, IInv, CallInv, Call
    <2>2. \A d \in Calls : Row(d)' = Row(d)
      BY <2>1 DEF Row
    <2>3. QED
      BY <1>0, <2>1, <2>2, CurrentKept
  <1>3. ASSUME NEW c \in Calls, FlushRow(c) PROVE Current'
    <2>1. /\ agg' = agg
          /\ lock' = [lock EXCEPT ![Row(c)] = c]
          /\ draft' = [draft EXCEPT ![Row(c)] = call[c].dirty]
          /\ call[c].pc = "flush" /\ call'[c].pc # "flush"
          /\ \A d \in Calls : d # c => call'[d] = call[d]
      BY <1>3 DEF FlushRow, IInv, CallInv, Call
    <2>2. \A d \in Calls : d # c => Row(d)' = Row(d)
      BY <2>1 DEF Row
    <2>3. \A r \in Rows, d \in Calls : lock'[r] = d =>
            \/ lock[r] = d /\ draft'[r] = draft[r]
            \/ call[d].pc = "flush" /\ r = Row(d) /\ draft'[r] = call[d].dirty
      BY <2>1 DEF IInv, LockInv
    <2>4. QED
      BY <1>0, <2>1, <2>2, <2>3, CurrentKept
  <1>4. ASSUME NEW c \in Calls, Rollback(c) PROVE Current'
    <2>1. /\ agg' = agg /\ call'[c].pc # "flush"
          /\ lock' = [r \in Rows |-> IF lock[r] = c THEN Nobody ELSE lock[r]]
          /\ draft' = [r \in Rows |-> IF lock[r] = c THEN NoRow ELSE draft[r]]
          /\ \A d \in Calls : d # c => call'[d] = call[d]
      BY <1>4 DEF Rollback, Release, IInv, CallInv, Call
    <2>2. \A d \in Calls : d # c => Row(d)' = Row(d)
      BY <2>1 DEF Row
    <2>3. \A r \in Rows, d \in Calls : lock'[r] = d => lock[r] = d /\ draft'[r] = draft[r]
      BY <2>1
    <2>4. QED
      BY <1>0, <2>1, <2>2, <2>3, CurrentKept
  <1>5. ASSUME NEW c \in Calls, Commit(c) PROVE Current'
    BY <1>0, <1>5, CommitCurrent
  <1>6. CASE Midnight \/ UNCHANGED vars
    <2>1. UNCHANGED <<agg, lock, draft, call>>
      BY <1>6 DEF Midnight, vars
    <2>2. \A d \in Calls : Row(d)' = Row(d)
      BY <2>1 DEF Row
    <2>3. QED
      BY <1>0, <2>1, <2>2, CurrentKept
  <1>7. QED
    BY <1>1, <1>2, <1>3, <1>4, <1>5, <1>6 DEF Next, Database

(***************************************************************************)
(* The refinement, with the mapping of SpendLedger.                        *)
(***************************************************************************)
Entries == [c \in logs |-> RowsOf(c)]

LEMMA InitLaw == Init => Law!Init
  BY DEF Init, Law!Init

\* A commit is one addition to the log and to each of its aggregates.
LEMMA CommitRecords ==
  ASSUME IInv, Current, NEW c \in Calls, Commit(c)
  PROVE  Law!Next
  <1>1. /\ agg' = [r \in Rows |-> IF lock[r] = c THEN draft[r] ELSE agg[r]]
        /\ logs' = logs \cup {c} /\ call[c].pc = "commit"
        /\ \A d \in Calls : call'[d].day = call[d].day
    BY DEF Commit, IInv, CallInv, Call
  <1>2. c \notin logs
    BY <1>1 DEF IInv, TableInv
  <1>3. \A d \in Calls : RowsOf(d)' = RowsOf(d)
    BY <1>1 DEF RowsOf
  <1>4. Entries' = [d \in logs \cup {c} |-> IF d = c THEN RowsOf(c) ELSE Entries[d]]
    BY <1>1, <1>3 DEF Entries, IInv, TableInv
  <1>5. \A r \in Rows : lock[r] = c <=> r \in RowsOf(c)
    <2>1. \A r \in Rows : lock[r] = c => r \in RowsOf(c)
      BY DEF IInv, LockInv
    <2>2. ASSUME NEW r \in RowsOf(c) PROVE lock[r] = c
      <3>1. PICK i \in DOMAIN Payers[c] : r = RowAt(c, i)
        BY DEF RowsOf, RowsOn, RowAt
      <3>2. QED
        BY <1>1, <3>1 DEF IInv, LockInv
    <2>3. QED
      BY <2>1, <2>2
  <1>6. \A r \in Rows \ RowsOf(c) : agg'[r] = agg[r]
    BY <1>1, <1>5
  <1>7. ASSUME NEW r \in RowsOf(c)
        PROVE  Law!Add(c, r) \/ Law!Overwrite(c, r)
    <2>1. r \in Rows /\ lock[r] = c
      BY <1>5, RowFacts DEF IInv
    <2>2. agg'[r] = draft[r] /\ Version(draft[r], r, c)
      BY <1>1, <2>1 DEF IInv, LockInv
    <2>3. CASE Excused(c, r)
      <3>1. PICK d \in logs \cap overlap[c] : r \in RowsOf(d)
        BY <2>3 DEF Excused
      <3>2. Law!Counting(r) = {e \in logs : r \in RowsOf(e)}
        BY DEF Law!Counting
      <3>3. Law!Counting(r) \cap overlap[c] # {}
        BY <3>1, <3>2
      <3>4. c \in agg'[r] /\ agg'[r] \subseteq Law!Counting(r) \cup {c}
        BY <2>2, <3>2 DEF Version
      <3>5. QED
        BY <3>3, <3>4 DEF Law!Overwrite
    <2>4. CASE ~Excused(c, r)
      <3>1. draft[r] = Added(agg[r], c)
        BY <2>1, <2>4 DEF Current
      <3>2. QED
        BY <2>2, <3>1 DEF Added, Law!Add
    <2>5. QED
      BY <2>3, <2>4
  <1>8. RowsOf(c) \in {RowsOn(d, day) : d \in Calls, day \in 1..MaxDay}
    BY DEF RowsOf, IInv, CallInv, Call
  <1>9. DOMAIN Entries = logs
    BY DEF Entries
  <1>10. Law!Record(c, RowsOf(c))
    BY <1>2, <1>4, <1>6, <1>7, <1>9 DEF Law!Record, Entries
  <1>11. QED
    BY <1>8, <1>10 DEF Law!Next

\* Every other step leaves the logs and the aggregates as they are.
LEMMA StepLaw ==
  ASSUME IInv, Current, [Next]_vars
  PROVE  [Law!Next]_Law!ledger
  <1>1. ASSUME NEW c \in Calls, Commit(c) PROVE Law!Next
    BY <1>1, CommitRecords
  <1>2. CASE logs' = logs /\ agg' = agg /\ \A d \in logs : call'[d].day = call[d].day
    BY <1>2 DEF RowsOf, Law!ledger
  <1>3. ASSUME NEW c \in Calls,
               \/ CheckBudget(c) \/ UpstreamError(c) \/ LogSpend(c) \/ SelectRow(c)
               \/ FlushRow(c) \/ FlushConflict(c) \/ Rollback(c) \/ Cancel(c)
        PROVE  logs' = logs /\ agg' = agg /\ \A d \in logs : call'[d].day = call[d].day
    <2>1. logs' = logs /\ agg' = agg /\ c \notin logs
      BY <1>3 DEF CheckBudget, UpstreamError, LogSpend, SelectRow, FlushRow, FlushConflict,
                  Rollback, Cancel, IInv, TableInv
    <2>2. \A d \in Calls : d # c => call'[d] = call[d]
      BY <1>3 DEF CheckBudget, UpstreamError, LogSpend, SelectRow, FlushRow, FlushConflict,
                  Rollback, Cancel, IInv, CallInv
    <2>3. QED
      BY <2>1, <2>2 DEF IInv, TableInv
  <1>4. CASE Midnight \/ UNCHANGED vars
    BY <1>2, <1>4 DEF Midnight, vars
  <1>5. QED
    BY <1>1, <1>2, <1>3, <1>4 DEF Next, Database

\* Whatever overlaps, fails or is cancelled, the log and the aggregates are
\* changed as by one atomic statement per call, and an aggregate forgets
\* something only by a call that a logged one of that aggregate has overlapped.
THEOREM LedgerIsAtomic == Spec => ImplementsAtomicLedger
  <1>1. IInv /\ Current /\ [Next]_vars => Current'
    BY StepCurrent
  <1>2. IInv /\ Current /\ [Next]_vars => [Law!Next]_Law!ledger
    BY StepLaw
  <1>3. Spec => Law!Spec
    BY InitCurrent, InitLaw, <1>1, <1>2, Inductive, PTL DEF Spec, Law!Spec
  <1>4. QED
    BY <1>3 DEF ImplementsAtomicLedger
-----------------------------------------------------------------------------
(***************************************************************************)
(* Sums of costs, and what a key may overspend.                            *)
(***************************************************************************)
Units(calls) == UNION {{c} \X (1..Cost[c]) : c \in calls}

LEMMA UnitsAreFinite ==
  ASSUME NEW S, IsFiniteSet(S), S \subseteq Calls
  PROVE  IsFiniteSet(Units(S))
  <1> DEFINE U == {{c} \X (1..Cost[c]) : c \in S}
             f == [c \in S |-> {c} \X (1..Cost[c])]
  <1>1. f \in Surjection(S, U)
    BY DEF Surjection
  <1>2. IsFiniteSet(U)
    BY <1>1, FS_Surjection
  <1>3. ASSUME NEW c \in S PROVE IsFiniteSet({c} \X (1..Cost[c]))
    <2>1. Cost[c] \in Int
      OBVIOUS
    <2>2. IsFiniteSet(1..Cost[c])
      BY <2>1, FS_Interval
    <2>3. IsFiniteSet({c})
      BY FS_Singleton
    <2>4. QED
      BY <2>2, <2>3, FS_Product
  <1>4. \A T \in U : IsFiniteSet(T)
    BY <1>3
  <1> HIDE DEF U
  <1>5. IsFiniteSet(UNION U)
    BY <1>2, <1>4, FS_UNION
  <1>6. QED
    BY <1>5 DEF U, Units

\* A sum is a number, grows with the set, and is at most the sum of its parts.
LEMMA SumFacts ==
  ASSUME IsFiniteSet(Calls), NEW S \in SUBSET Calls, NEW T \in SUBSET Calls
  PROVE  /\ Sum(S) \in Nat
         /\ S \subseteq T => Sum(S) <= Sum(T)
         /\ Sum(S \cup T) <= Sum(S) + Sum(T)
  <1>1. IsFiniteSet(Units(S)) /\ IsFiniteSet(Units(T))
    BY FS_Subset, UnitsAreFinite
  <1>2. Sum(S) = Cardinality(Units(S)) /\ Sum(T) = Cardinality(Units(T))
        /\ Sum(S \cup T) = Cardinality(Units(S \cup T))
    BY DEF Sum, Units
  <1>3. Units(S \cup T) = Units(S) \cup Units(T) /\ (S \subseteq T => Units(S) \subseteq Units(T))
    BY DEF Units
  <1>4. S \subseteq T => Sum(S) <= Sum(T)
    BY <1>1, <1>2, <1>3, FS_Subset
  <1>5. Cardinality(Units(S) \cup Units(T)) =
          Cardinality(Units(S)) + Cardinality(Units(T)) - Cardinality(Units(S) \cap Units(T))
    BY <1>1, FS_Union
  <1>6. IsFiniteSet(Units(S) \cap Units(T))
    BY <1>1, FS_Subset
  <1>7. /\ Cardinality(Units(S)) \in Nat /\ Cardinality(Units(T)) \in Nat
        /\ Cardinality(Units(S) \cap Units(T)) \in Nat
    BY <1>1, <1>6, FS_CardinalityType
  <1>8. Cardinality(Units(S \cup T)) <= Cardinality(Units(S)) + Cardinality(Units(T))
    <2>1. Cardinality(Units(S \cup T)) = Cardinality(Units(S) \cup Units(T))
      BY <1>3
    <2>2. QED
      BY <1>5, <1>7, <2>1
  <1>9. QED
    BY <1>2, <1>4, <1>7, <1>8

\* Calls that cost at most `most' each.
LEMMA SumBound ==
  ASSUME IsFiniteSet(Calls), NEW S \in SUBSET Calls, NEW most \in Nat,
         \A c \in S : Cost[c] <= most, NEW n \in Nat, Cardinality(S) <= n
  PROVE  Sum(S) <= n * most
  <1>1. Units(S) \subseteq S \X (1..most)
    <2> SUFFICES ASSUME NEW c \in S, NEW i \in 1..Cost[c] PROVE <<c, i>> \in S \X (1..most)
      BY DEF Units
    <2>1. Cost[c] \in Nat /\ Cost[c] <= most
      OBVIOUS
    <2>2. QED
      BY <2>1
  <1>2. IsFiniteSet(S) /\ IsFiniteSet(1..most) /\ Cardinality(1..most) = most
    <2>1. IsFiniteSet(1..most) /\ Cardinality(1..most) = most
      BY FS_Interval
    <2>2. QED
      BY <2>1, FS_Subset
  <1>3. IsFiniteSet(S \X (1..most)) /\ Cardinality(S \X (1..most)) = Cardinality(S) * most
    BY <1>2, FS_Product
  <1>4. Cardinality(Units(S)) <= Cardinality(S) * most
    <2>1. Cardinality(Units(S)) <= Cardinality(S \X (1..most))
      BY <1>1, <1>3, FS_Subset
    <2>2. QED
      BY <1>3, <2>1
  <1>5. Cardinality(S) \in Nat /\ Cardinality(Units(S)) \in Nat
    BY <1>1, <1>2, <1>3, FS_Subset, FS_CardinalityType
  <1>6. Sum(S) = Cardinality(Units(S))
    BY DEF Sum, Units
  <1>7. \A a, b, m \in Nat : a <= b => a * m <= b * m /\ a * m \in Nat /\ b * m \in Nat
    OBVIOUS
  <1>8. PICK few, many : few = Cardinality(S) * most /\ many = n * most
    OBVIOUS
  <1>9. few <= many /\ few \in Nat /\ many \in Nat
    BY <1>5, <1>7, <1>8
  <1>10. Sum(S) <= few /\ Sum(S) \in Nat
    BY <1>4, <1>5, <1>6, <1>8
  <1>11. Sum(S) <= many
    BY <1>9, <1>10
  <1>12. QED
    BY <1>8, <1>11

\* No logged call has overlapped c in the aggregate of its key.
KeyRow(c) == <<Payers[c][1], ModelOf[c], call[c].day>>
Clear(c) == ~Excused(c, KeyRow(c))

LEMMA ClearBefore ==
  ASSUME IInv, Grows, NEW c \in Calls, Started(c), Clear(c)'
  PROVE  Clear(c)
  <1>1. PICK r : r = KeyRow(c)
    OBVIOUS
  <1>2. KeyRow(c)' = r
    BY <1>1 DEF KeyRow, Grows
  <1>3. Excused(c, r) => Excused(c, r)'
    BY ExcusedKept
  <1>4. QED
    BY <1>1, <1>2, <1>3 DEF Clear, Excused

\* The calls of h whose cost is, or will be if they are logged now, booked on
\* d, but for those that another has overlapped.
Owed(h, d) ==
  {c \in Calls : /\ Payers[c][1] = h
                 /\ \/ ((c \in logs /\ Clear(c)) \/ Logging(c)) /\ call[c].day = d
                    \/ call[c].pc = "upstream" /\ today = d}

InFlightBounded == Cardinality({c \in Calls : InFlight(c)}) <= MaxInFlight

DaysArePast == \A c \in Calls : c \in logs \/ Logging(c) => call[c].day <= today

\* What is owed passes the budget by less than what may be in flight at once.
OwedBounded ==
  \A h \in Entities, d \in 1..MaxDay, most \in Nat :
    Budget[h] \in Nat \ {0} /\ (\A c \in Calls : Cost[c] <= most) =>
      Sum(Owed(h, d)) < Budget[h] + MaxInFlight * most

OInv == InFlightBounded /\ DaysArePast /\ OwedBounded

LEMMA NothingInFlight == IsFiniteSet({}) /\ Cardinality({}) = 0
  BY FS_EmptySet

\* A step after which no more is owed on any day, and no more is in flight.
LEMMA OwedKept ==
  ASSUME IsFiniteSet(Calls), OInv, DaysArePast',
         \A c \in Calls : InFlight(c)' => InFlight(c),
         \A h \in Entities, d \in 1..MaxDay : Owed(h, d)' \subseteq Owed(h, d)
  PROVE  OInv'
  <1>1. InFlightBounded'
    <2> DEFINE before == {c \in Calls : InFlight(c)}
               after == {c \in Calls : InFlight(c)'}
    <2>1. after \subseteq before /\ IsFiniteSet(before)
      BY FS_Subset
    <2>2. Cardinality(after) <= Cardinality(before)
      BY <2>1, FS_Subset
    <2>3. Cardinality(after) \in Nat /\ Cardinality(before) \in Nat
      BY <2>1, FS_Subset, FS_CardinalityType
    <2>4. Cardinality(before) <= MaxInFlight
      BY DEF OInv, InFlightBounded
    <2>5. Cardinality(after) <= MaxInFlight
      BY <2>2, <2>3, <2>4
    <2>6. QED
      BY <2>5 DEF InFlightBounded
  <1>2. OwedBounded'
    <2> SUFFICES ASSUME NEW h \in Entities, NEW d \in 1..MaxDay, NEW most \in Nat,
                        Budget[h] \in Nat \ {0}, \A c \in Calls : Cost[c] <= most
                 PROVE  Sum(Owed(h, d)') < Budget[h] + MaxInFlight * most
      BY DEF OwedBounded
    <2>1. PICK S, T : S = Owed(h, d)' /\ T = Owed(h, d)
      OBVIOUS
    <2>2. S \subseteq T /\ S \in SUBSET Calls /\ T \in SUBSET Calls
      BY <2>1 DEF Owed
    <2>3. Sum(S) <= Sum(T) /\ Sum(S) \in Nat /\ Sum(T) \in Nat
      BY <2>2, SumFacts
    <2>4. Sum(T) < Budget[h] + MaxInFlight * most
      BY <2>1 DEF OInv, OwedBounded
    <2>5. \A m, n \in Nat : m * n \in Nat
      OBVIOUS
    <2>6. PICK room : room = Budget[h] + MaxInFlight * most /\ room \in Nat
      BY <2>5
    <2>7. Sum(S) < room
      BY <2>3, <2>4, <2>6
    <2>8. QED
      BY <2>1, <2>6, <2>7
  <1>3. QED
    BY <1>1, <1>2 DEF OInv

\* A sum of what is within the budget and of calls in flight.
LEMMA RoomInFlight ==
  ASSUME IsFiniteSet(Calls), NEW S \in SUBSET Calls, NEW F \in SUBSET Calls,
         Cardinality(F) <= MaxInFlight, NEW T \in SUBSET (S \cup F),
         NEW most \in Nat, \A c \in Calls : Cost[c] <= most,
         NEW limit \in Nat, Sum(S) < limit
  PROVE  Sum(T) < limit + MaxInFlight * most
  <1>1. Sum(S \cup F) <= Sum(S) + Sum(F)
    BY SumFacts
  <1>2. Sum(T) <= Sum(S \cup F)
    BY SumFacts
  <1>3. Sum(F) <= MaxInFlight * most
    BY SumBound
  <1>4. Sum(S) \in Nat /\ Sum(F) \in Nat /\ Sum(T) \in Nat /\ Sum(S \cup F) \in Nat
    BY SumFacts
  <1>5. \A m, n \in Nat : m * n \in Nat
    OBVIOUS
  <1>6. PICK room : room = MaxInFlight * most /\ room \in Nat
    BY <1>5
  <1>7. Sum(T) < limit + room
    BY <1>1, <1>2, <1>3, <1>4, <1>6
  <1>8. QED
    BY <1>6, <1>7

\* What nobody has overlapped is counted once it is logged.
LEMMA LoggedAreCounted ==
  ASSUME IInv, NEW h \in Entities, NEW d \in 1..MaxDay
  PROVE  {c \in logs : Payers[c][1] = h /\ call[c].day = d /\ Clear(c)} \subseteq CountedIn(h, d)
  <1> SUFFICES ASSUME NEW c \in logs, Payers[c][1] = h, call[c].day = d, Clear(c)
               PROVE  c \in CountedIn(h, d)
    OBVIOUS
  <1> DEFINE r == <<h, ModelOf[c], d>>
  <1>1. c \in Calls /\ ModelOf[c] \in Models /\ r \in Rows
    BY DEF IInv, TableInv, Rows
  <1>2. Payers[c] \in Seq(Entities) /\ Payers[c] # <<>>
    BY <1>1
  <1>3. 1 \in DOMAIN Payers[c]
    BY <1>2
  <1>4. r \in RowsOf(c)
    BY <1>3 DEF RowsOf, RowsOn
  <1>5. ~Excused(c, r)
    BY <1>1 DEF Clear, KeyRow
  <1>6. agg[r] # NoRow /\ c \in agg[r]
    BY <1>1, <1>4, <1>5 DEF IInv, TableInv, RowOK
  <1>7. QED
    BY <1>1, <1>6 DEF CountedIn

LEMMA CountedAreCalls ==
  ASSUME IInv, NEW h \in Entities, NEW d \in 1..MaxDay
  PROVE  CountedIn(h, d) \in SUBSET Calls
  <1>1. ASSUME NEW m \in Models, agg[<<h, m, d>>] # NoRow
        PROVE  agg[<<h, m, d>>] \subseteq Calls
    <2>1. <<h, m, d>> \in Rows
      BY DEF Rows
    <2>2. QED
      BY <1>1, <2>1 DEF IInv, TableInv, Aggregate
  <1>2. ASSUME NEW c \in CountedIn(h, d) PROVE c \in Calls
    <2>1. PICK m \in Models : agg[<<h, m, d>>] # NoRow /\ c \in agg[<<h, m, d>>]
      BY DEF CountedIn
    <2>2. QED
      BY <1>1, <2>1
  <1>3. QED
    BY <1>2

LEMMA AdmittedOwed ==
  ASSUME IsFiniteSet(Calls), IInv, OInv, NEW c \in Calls, CheckBudget(c),
         WithinBudget(Payers[c][1])
  PROVE  OInv'
  <1>1. /\ call[c].pc = "idle" /\ call'[c].pc = "upstream"
        /\ \A b \in Calls : b # c => call'[b] = call[b]
        /\ logs' = logs /\ today' = today /\ c \notin logs
        /\ Cardinality({b \in Calls : InFlight(b)}) < MaxInFlight
        /\ today \in 1..MaxDay
        /\ \A b \in Calls : call'[b].day = call[b].day
    BY DEF CheckBudget, IInv, CallInv, Call, TableInv
  <1>0. \A b \in Calls : Clear(b)' <=> Clear(b)
    BY <1>1 DEF CheckBudget, Clear, KeyRow, Excused, RowsOf, IInv, TableInv
  <1> DEFINE F == {b \in Calls : InFlight(b)}
             G == {b \in Calls : InFlight(b)'}
  <1>2. G = F \cup {c} /\ IsFiniteSet(F) /\ F \in SUBSET Calls /\ G \in SUBSET Calls
    BY <1>1, FS_Subset DEF InFlight, Logging
  <1>3. Cardinality(G) <= MaxInFlight
    <2> HIDE DEF F, G
    <2>1. Cardinality(F \cup {c}) <= Cardinality(F) + 1 /\ Cardinality(F) \in Nat
      <3>1. Cardinality(F) \in Nat
        BY <1>2, FS_CardinalityType
      <3>2. Cardinality(F \cup {c}) = IF c \in F THEN Cardinality(F) ELSE Cardinality(F) + 1
        BY <1>2, FS_AddElement
      <3>3. QED
        BY <3>1, <3>2
    <2>2. Cardinality(F) < MaxInFlight
      BY <1>1 DEF F
    <2>3. Cardinality(F \cup {c}) \in Nat
      <3>1. IsFiniteSet(F \cup {c})
        BY <1>2, FS_AddElement
      <3>2. QED
        BY <3>1, FS_CardinalityType
    <2>4. Cardinality(F \cup {c}) <= MaxInFlight
      BY <2>1, <2>2, <2>3
    <2>5. QED
      BY <1>2, <2>4
  <1>4. InFlightBounded'
    BY <1>3 DEF InFlightBounded
  <1>5. DaysArePast'
    BY <1>1 DEF OInv, DaysArePast, Logging
  <1>6. OwedBounded'
    <2> SUFFICES ASSUME NEW h \in Entities, NEW d \in 1..MaxDay, NEW most \in Nat,
                        Budget[h] \in Nat \ {0}, \A b \in Calls : Cost[b] <= most
                 PROVE  Sum(Owed(h, d)') < Budget[h] + MaxInFlight * most
      BY DEF OwedBounded
    <2>1. CASE Payers[c][1] = h /\ d = today
      <3> DEFINE S == {b \in logs : Payers[b][1] = h /\ call[b].day = d /\ Clear(b)}
      <3>1. PICK T : T = Owed(h, d)'
        OBVIOUS
      <3>2. S \in SUBSET Calls /\ \A b \in logs : call'[b] = call[b]
        BY <1>1 DEF IInv, TableInv
      <3>3. T \in SUBSET (S \cup G)
        BY <1>0, <1>1, <3>1, <3>2 DEF Owed, InFlight, Logging
      <3>4. Sum(CountedIn(h, d)) < Budget[h]
        BY <2>1, LedgerAssumption DEF WithinBudget
      <3>5. S \subseteq CountedIn(h, d) /\ CountedIn(h, d) \in SUBSET Calls
        BY LoggedAreCounted, CountedAreCalls
      <3> HIDE DEF S, G
      <3>6. Sum(S) <= Sum(CountedIn(h, d)) /\ Sum(S) \in Nat /\ Sum(CountedIn(h, d)) \in Nat
        BY <3>2, <3>5, SumFacts
      <3>7. Sum(S) < Budget[h]
        BY <3>4, <3>6
      <3>8. Sum(T) < Budget[h] + MaxInFlight * most
        BY <1>2, <1>3, <3>2, <3>3, <3>7, RoomInFlight
      <3>9. QED
        BY <3>1, <3>8
    <2>2. CASE ~(Payers[c][1] = h /\ d = today)
      <3>1. Owed(h, d)' = Owed(h, d)
        BY <1>0, <1>1, <2>2 DEF Owed, Logging
      <3>2. Sum(Owed(h, d)) < Budget[h] + MaxInFlight * most
        BY DEF OInv, OwedBounded
      <3>3. QED
        BY <3>1, <3>2
    <2>3. QED
      BY <2>1, <2>2
  <1>7. QED
    BY <1>4, <1>5, <1>6 DEF OInv

LEMMA MidnightOwed ==
  ASSUME IsFiniteSet(Calls), IInv, OInv, Midnight
  PROVE  OInv'
  <1>1. today' = today + 1 /\ today \in Nat /\ UNCHANGED <<call, logs>>
        /\ \A b \in Calls : call[b].day \in Nat
    BY DEF Midnight, IInv, TableInv, CallInv, Call
  <1>0. \A b \in Calls : Clear(b)' <=> Clear(b)
    BY DEF Midnight, Clear, KeyRow, Excused, RowsOf
  <1>2. InFlightBounded'
    BY <1>1 DEF OInv, InFlightBounded, InFlight, Logging
  <1>3. DaysArePast'
    BY <1>1 DEF OInv, DaysArePast, Logging
  <1>4. OwedBounded'
    <2> SUFFICES ASSUME NEW h \in Entities, NEW d \in 1..MaxDay, NEW most \in Nat,
                        Budget[h] \in Nat \ {0}, \A b \in Calls : Cost[b] <= most
                 PROVE  Sum(Owed(h, d)') < Budget[h] + MaxInFlight * most
      BY DEF OwedBounded
    <2> DEFINE F == {b \in Calls : InFlight(b)}
    <2>1. PICK S, T : S = Owed(h, d) /\ T = Owed(h, d)'
      OBVIOUS
    <2>2. Cardinality(F) <= MaxInFlight /\ F \in SUBSET Calls
      BY DEF OInv, InFlightBounded
    <2>3. CASE d = today + 1
      <3>1. T \in SUBSET ({} \cup F)
        BY <1>1, <2>1, <2>3 DEF Owed, InFlight, Logging, OInv, DaysArePast
      <3>2. Sum({}) = 0
        BY NothingInFlight DEF Sum
      <3> HIDE DEF F
      <3>3. {} \in SUBSET Calls /\ Sum({}) < Budget[h] /\ Budget[h] \in Nat
        BY <3>2
      <3>4. Sum(T) < Budget[h] + MaxInFlight * most
        BY <2>2, <3>1, <3>3, RoomInFlight
      <3>5. QED
        BY <2>1, <3>4
    <2>4. CASE d # today + 1
      <3>1. T \subseteq S /\ T \in SUBSET Calls /\ S \in SUBSET Calls
        BY <1>0, <1>1, <2>1, <2>4 DEF Owed, Logging
      <3>2. Sum(T) <= Sum(S) /\ Sum(T) \in Nat /\ Sum(S) \in Nat
        BY <3>1, SumFacts
      <3>3. Sum(S) < Budget[h] + MaxInFlight * most
        BY <2>1 DEF OInv, OwedBounded
      <3>4. \A m, n \in Nat : m * n \in Nat
        OBVIOUS
      <3>5. PICK room : room = Budget[h] + MaxInFlight * most /\ room \in Nat
        BY <3>4
      <3>6. Sum(T) < room
        BY <3>2, <3>3, <3>5
      <3>7. QED
        BY <2>1, <3>5, <3>6
    <2>5. QED
      BY <2>3, <2>4
  <1>5. QED
    BY <1>2, <1>3, <1>4 DEF OInv

LEMMA StepOwed ==
  ASSUME IsFiniteSet(Calls), IInv, OInv, [Next]_vars
  PROVE  OInv'
  <1>0. \A c \in Calls : Started(c) /\ Clear(c)' => Clear(c)
    BY StepGrows, ClearBefore
  <1>9. \A c \in logs : c \in Calls /\ Started(c)
    BY LoggedStarted
  <1>1. ASSUME NEW c \in Calls,
               \/ CheckBudget(c) /\ ~WithinBudget(Payers[c][1])
               \/ UpstreamError(c) \/ SelectRow(c) \/ FlushRow(c) \/ FlushConflict(c)
               \/ Rollback(c) \/ Cancel(c)
        PROVE  OInv'
    <2>1. /\ today' = today /\ logs' = logs /\ c \notin logs
          /\ \A b \in Calls : b # c => call'[b] = call[b]
      BY <1>1 DEF CheckBudget, UpstreamError, SelectRow, FlushRow, FlushConflict, Rollback,
                  Cancel, IInv, CallInv, TableInv
    <2>2. /\ call'[c].day = call[c].day
          /\ call'[c].pc # "upstream"
          /\ call'[c].pc \in {"select", "flush", "commit", "rollback"} => Logging(c)
      BY <1>1 DEF CheckBudget, UpstreamError, SelectRow, FlushRow, FlushConflict, Rollback,
                  Cancel, IInv, CallInv, Call, Logging
    <2>3. DaysArePast'
      BY <2>1, <2>2 DEF OInv, DaysArePast, Logging
    <2>4. \A b \in Calls : InFlight(b)' => InFlight(b)
      BY <2>1, <2>2 DEF InFlight, Logging
    <2>5. \A h \in Entities, d \in 1..MaxDay : Owed(h, d)' \subseteq Owed(h, d)
      BY <1>0, <1>9, <2>1, <2>2 DEF Owed, Logging
    <2>6. QED
      BY <2>3, <2>4, <2>5, OwedKept
  <1>2. ASSUME NEW c \in Calls, LogSpend(c) PROVE OInv'
    <2>1. /\ today' = today /\ logs' = logs /\ c \notin logs /\ today \in Nat
          /\ \A b \in Calls : b # c => call'[b] = call[b]
          /\ call[c].pc = "upstream" /\ call'[c].pc = "select" /\ call'[c].day = today
      BY <1>2 DEF LogSpend, LogDay, IInv, CallInv, Call, TableInv
    <2>2. DaysArePast'
      <3> SUFFICES ASSUME NEW b \in Calls, b \in logs' \/ Logging(b)' PROVE call'[b].day <= today
        BY <2>1 DEF DaysArePast
      <3>1. CASE b = c
        BY <2>1, <3>1
      <3>2. CASE b # c
        BY <2>1, <3>2 DEF OInv, DaysArePast, Logging
      <3>3. QED
        BY <3>1, <3>2
    <2>3. \A b \in Calls : InFlight(b)' => InFlight(b)
      BY <2>1 DEF InFlight, Logging
    <2>4. \A h \in Entities, d \in 1..MaxDay : Owed(h, d)' \subseteq Owed(h, d)
      BY <1>0, <1>9, <2>1 DEF Owed, Logging
    <2>5. QED
      BY <2>2, <2>3, <2>4, OwedKept
  <1>3. ASSUME NEW c \in Calls, Commit(c) PROVE OInv'
    <2>1. /\ today' = today /\ logs' = logs \cup {c} /\ Logging(c)
          /\ \A b \in Calls : b # c => call'[b] = call[b]
          /\ call'[c].pc = "done" /\ call'[c].day = call[c].day
      BY <1>3 DEF Commit, IInv, CallInv, Call, Logging
    <2>2. DaysArePast'
      BY <2>1 DEF OInv, DaysArePast, Logging
    <2>3. \A b \in Calls : InFlight(b)' => InFlight(b)
      BY <2>1 DEF InFlight, Logging
    <2>4. \A h \in Entities, d \in 1..MaxDay : Owed(h, d)' \subseteq Owed(h, d)
      BY <1>0, <1>9, <2>1 DEF Owed, Logging
    <2>5. QED
      BY <2>2, <2>3, <2>4, OwedKept
  <1>4. CASE UNCHANGED vars
    <2>1. DaysArePast' /\ \A c \in Calls : InFlight(c)' => InFlight(c)
      BY <1>4 DEF vars, OInv, DaysArePast, InFlight, Logging
    <2>2. \A h \in Entities, d \in 1..MaxDay : Owed(h, d)' \subseteq Owed(h, d)
      BY <1>0, <1>4, <1>9 DEF vars, Logging, Owed
    <2>3. QED
      BY <2>1, <2>2, OwedKept
  <1>5. ASSUME NEW c \in Calls, CheckBudget(c) PROVE OInv'
    BY <1>1, <1>5, AdmittedOwed
  <1>6. QED
    BY <1>1, <1>2, <1>3, <1>4, <1>5, MidnightOwed DEF Next, Database

LEMMA InitOwed ==
  ASSUME Init
  PROVE  OInv
  <1>1. \A c \in Calls : call[c].pc = "idle"
    BY DEF Init, IdleCall
  <1>2. logs = {}
    BY DEF Init
  <1>3. {c \in Calls : InFlight(c)} = {}
    BY <1>1 DEF InFlight, Logging
  <1>4. InFlightBounded
    <2>1. Cardinality({c \in Calls : InFlight(c)}) = 0
      BY <1>3, NothingInFlight
    <2>2. QED
      BY <2>1 DEF InFlightBounded
  <1>5. DaysArePast
    BY <1>1, <1>2 DEF DaysArePast, Logging
  <1>6. OwedBounded
    <2> SUFFICES ASSUME NEW h \in Entities, NEW d \in 1..MaxDay, NEW most \in Nat,
                        Budget[h] \in Nat \ {0}, \A c \in Calls : Cost[c] <= most
                 PROVE  Sum(Owed(h, d)) < Budget[h] + MaxInFlight * most
      BY DEF OwedBounded
    <2>1. Owed(h, d) = {}
      BY <1>1, <1>2 DEF Owed, Logging
    <2>2. Sum({}) = 0
      BY NothingInFlight DEF Sum
    <2>3. \A m, n \in Nat : m * n \in Nat
      OBVIOUS
    <2>4. 0 < Budget[h] + MaxInFlight * most
      <3>1. PICK room \in Nat : room = MaxInFlight * most
        BY <2>3
      <3>2. 0 < Budget[h] + room
        OBVIOUS
      <3>3. QED
        BY <3>1, <3>2
    <2>5. QED
      BY <2>1, <2>2, <2>4
  <1>7. QED
    BY <1>4, <1>5, <1>6 DEF OInv

\* What is booked but not owed has been overlapped.
LEMMA BookedFacts ==
  ASSUME IInv, NEW h \in Entities, NEW d \in 1..MaxDay
  PROVE  /\ Booked(h, d) \in SUBSET Calls /\ Clashed(h, d) \in SUBSET Calls
         /\ Booked(h, d) \subseteq Owed(h, d) \cup Clashed(h, d)
  <1>1. Booked(h, d) \in SUBSET Calls /\ Clashed(h, d) \in SUBSET Calls
    BY DEF Booked, Clashed, IInv, TableInv
  <1>2. ASSUME NEW c \in Booked(h, d), c \notin Owed(h, d) PROVE c \in Clashed(h, d)
    <2>1. c \in Calls /\ c \in logs /\ Payers[c][1] = h /\ call[c].day = d
      BY <1>1 DEF Booked
    <2>2. Excused(c, <<h, ModelOf[c], d>>)
      BY <1>2, <2>1 DEF Owed, Clear, KeyRow
    <2>3. QED
      BY <2>2 DEF Excused, Clashed
  <1>3. QED
    BY <1>1, <1>2

\* However many log_spend calls overlap, what a key has logged on a day passes
\* its budget by less than the cost of as many calls as may be in flight at
\* once, and the cost of those that another logged call of the key overlapped.
THEOREM OverspendBounded == IsFiniteSet(Calls) => (Spec => []OverspendIsInFlight)
  <1> SUFFICES ASSUME IsFiniteSet(Calls) PROVE Spec => []OverspendIsInFlight
    OBVIOUS
  <1>1. Init => OInv
    BY InitOwed
  <1>2. IInv /\ OInv /\ [Next]_vars => OInv'
    BY StepOwed
  <1>3. IInv /\ OInv => OverspendIsInFlight
    <2> SUFFICES ASSUME IInv, OInv,
                        NEW h \in Entities, NEW d \in 1..MaxDay, NEW most \in {Cost[c] : c \in Calls},
                        Budget[h] \in Nat \ {0}, \A c \in Calls : Cost[c] <= most
                 PROVE  Sum(Booked(h, d)) < Budget[h] + MaxInFlight * most + Sum(Clashed(h, d))
      BY DEF OverspendIsInFlight
    <2>1. most \in Nat
      OBVIOUS
    <2>2. PICK B, C, S : B = Booked(h, d) /\ C = Clashed(h, d) /\ S = Owed(h, d)
      OBVIOUS
    <2>3. /\ B \in SUBSET Calls /\ C \in SUBSET Calls /\ S \in SUBSET Calls
          /\ B \subseteq S \cup C
      BY <2>2, BookedFacts DEF Owed
    <2>4. Sum(B) <= Sum(S \cup C) /\ Sum(B) \in Nat /\ Sum(S \cup C) \in Nat
      BY <2>3, SumFacts
    <2>5. Sum(S \cup C) <= Sum(S) + Sum(C) /\ Sum(S) \in Nat /\ Sum(C) \in Nat
      BY <2>3, SumFacts
    <2>6. Sum(S) < Budget[h] + MaxInFlight * most
      BY <2>1, <2>2 DEF OInv, OwedBounded
    <2>7. \A m, n \in Nat : m * n \in Nat
      OBVIOUS
    <2>8. PICK room : room = Budget[h] + MaxInFlight * most /\ room \in Nat
      BY <2>1, <2>7
    <2>9. Sum(B) < room + Sum(C)
      BY <2>4, <2>5, <2>6, <2>8
    <2>10. QED
      BY <2>2, <2>8, <2>9
  <1>4. QED
    BY Inductive, <1>1, <1>2, <1>3, PTL DEF Spec
=============================================================================
