------------------------- MODULE RateLimiterProofs -------------------------
(***************************************************************************)
(* What RateLimiter guarantees for every set of keys, limits, increments,  *)
(* and every window length and bound.                                      *)
(***************************************************************************)
EXTENDS RateLimiter, FiniteSetTheorems, WellFoundedInduction, TLAPS

USE WindowAssumption

(***************************************************************************)
(* Lemmas on the operators of the model.                                   *)
(***************************************************************************)

\* The fields of an event are numbers.
LEMMA EventFields ==
  ASSUME NEW e \in Event
  PROVE  e.ts \in Nat /\ e.inc \in Nat
  <1>1. e.ts \in 0..MaxTime /\ e.inc \in Increments
    BY DEF Event
  <1>2. e.inc \in Nat
    BY <1>1
  <1>3. \A t \in 0..MaxTime : t \in Nat
    OBVIOUS
  <1>4. QED
    BY <1>1, <1>2, <1>3, Zenon

\* The units of the empty set of events.
LEMMA UnitsEmpty == IsFiniteSet(Units({})) /\ Usage({}) = 0
  BY FS_EmptySet DEF Units, Usage

\* Adding an event adds its increment to the usage, and keeps the number of
\* units finite.
LEMMA UnitsAdd ==
  ASSUME NEW S \in SUBSET Event, NEW e \in Event, e \notin S,
         IsFiniteSet(Units(S))
  PROVE  /\ IsFiniteSet(Units(S \cup {e}))
         /\ Usage(S) \in Nat
         /\ Usage(S \cup {e}) = Usage(S) + e.inc
  <1> DEFINE U == {e} \X (1..e.inc)
  <1>1. e.inc \in Nat
    BY DEF Event
  <1>2. /\ IsFiniteSet(1..e.inc)
        /\ Cardinality(1..e.inc) = e.inc
    BY <1>1, FS_Interval
  <1>3. IsFiniteSet(U) /\ Cardinality(U) = e.inc
    <2> DEFINE f == [i \in 1..e.inc |-> <<e, i>>]
    <2>1. f \in Bijection(1..e.inc, U)
      BY DEF Bijection, Injection, Surjection, IsInjective
    <2>2. QED
      BY <1>2, <2>1, FS_Bijection DEF ExistsBijection
  <1>4. Units(S \cup {e}) = Units(S) \cup U
    BY DEF Units
  <1>5. Units(S) \cap U = {}
    BY DEF Units
  <1>6. Cardinality(Units(S) \cap U) = 0
    BY <1>5, FS_EmptySet
  <1> HIDE DEF U
  <1>7. Cardinality(Units(S)) \in Nat
    BY FS_CardinalityType
  <1>8. /\ IsFiniteSet(Units(S) \cup U)
        /\ Cardinality(Units(S) \cup U) = Cardinality(Units(S)) + Cardinality(U) - 0
    BY <1>3, <1>6, FS_Union
  <1>9. Cardinality(Units(S \cup {e})) = Cardinality(Units(S)) + e.inc
    <2>1. \A a, b, c \in Nat : c = a + b - 0 => c = a + b
      OBVIOUS
    <2>2. Cardinality(Units(S) \cup U) \in Nat
      BY <1>8, FS_CardinalityType
    <2>3. Cardinality(Units(S) \cup U) = Cardinality(Units(S)) + e.inc
      BY <1>1, <1>3, <1>7, <1>8, <2>1, <2>2
    <2>4. QED
      BY <1>4, <2>3, Zenon
  <1>10. QED
    BY <1>4, <1>7, <1>8, <1>9, Zenon DEF Usage

\* A part of a set of events uses no more than the whole.
LEMMA UsageMonotone ==
  ASSUME NEW S, NEW T \in SUBSET S, IsFiniteSet(Units(S))
  PROVE  IsFiniteSet(Units(T)) /\ Usage(T) <= Usage(S)
  <1>1. Units(T) \in SUBSET Units(S)
    BY DEF Units
  <1>2. QED
    BY <1>1, FS_Subset DEF Usage

\* The oldest timestamp of a nonempty set of events is one of them.
LEMMA MinIsMember ==
  ASSUME NEW T \in SUBSET Nat, T # {}
  PROVE  Min(T) \in T /\ \A t \in T : Min(T) <= t
  <1> DEFINE R == {p \in Nat \X Nat : p[1] < p[2]}
  <1>1. IsWellFoundedOn(R, Nat)
    BY NatLessThanWellFounded DEF OpToRel
  <1>5. \A x, y \in Nat : <<x, y>> \in R <=> x < y
    OBVIOUS
  <1> HIDE DEF R
  <1>2. \E m \in T : \A t \in T : ~ <<t, m>> \in R
    BY <1>1, WFMin
  <1>3. \E m \in T : \A t \in T : m <= t
    <2>1. PICK m \in T : \A t \in T : ~ <<t, m>> \in R
      BY <1>2
    <2>2. ASSUME NEW t \in T
          PROVE  m <= t
      <3>1. m \in Nat /\ t \in Nat
        OBVIOUS
      <3>2. ~ (t < m)
        BY <1>5, <2>1, <3>1, Zenon
      <3>3. QED
        BY <3>1, <3>2
    <2>3. QED
      BY <2>2
  <1>4. QED
    BY <1>3 DEF Min

LEMMA MaxOfTwo ==
  ASSUME NEW x \in Int
  PROVE  Max({0, x}) = IF x > 0 THEN x ELSE 0
  <1>1. \E m \in {0, x} : \A y \in {0, x} : m >= y
    OBVIOUS
  <1>2. Max({0, x}) \in {0, x} /\ \A y \in {0, x} : Max({0, x}) >= y
    BY <1>1 DEF Max
  <1>3. QED
    BY <1>2

(***************************************************************************)
(* The inductive invariant.  That the kept entries are among those         *)
(* granted, and that every granted event still in the window is kept, is   *)
(* what makes one call's pruning harmless to the next; that the events     *)
(* carry the numbers of past calls makes a new event new; that the units   *)
(* are finitely many makes their number a number.                          *)
(***************************************************************************)
KeptAreGranted == \A k \in Keys : windows[k] \subseteq granted[k]

LiveAreKept ==
  \A k \in Keys : \A e \in granted[k] : e.ts > now - Window => e \in windows[k]

EventsArePast ==
  \A k \in Keys : \A e \in granted[k] : e.ts <= now /\ e.id <= calls

UnitsAreFinite == \A k \in Keys : IsFiniteSet(Units(granted[k]))

IInv ==
  /\ TypeOK
  /\ KeptAreGranted
  /\ LiveAreKept
  /\ EventsArePast
  /\ UnitsAreFinite
  /\ EveryWindowWithinLimit

\* The pruned list holds exactly the granted events of the current window.
LEMMA PrunedIsLive ==
  ASSUME IInv, NEW k \in Keys
  PROVE  /\ Pruned(windows[k], now - Window) = Live(granted[k], now)
         /\ Live(windows[k], now) = Live(granted[k], now)
         /\ Pruned(windows[k], now - Window) \in SUBSET granted[k]
  <1>1. /\ windows[k] \subseteq granted[k]
        /\ \A e \in granted[k] : e.ts > now - Window => e \in windows[k]
        /\ \A e \in granted[k] : e.ts <= now
        /\ granted[k] \subseteq Event
        /\ now \in Nat
    BY DEF IInv, TypeOK, KeptAreGranted, LiveAreKept, EventsArePast
  <1>2. \A e \in granted[k] : e.ts \in Nat /\ (e.ts > now - Window <=> now - Window < e.ts)
    BY <1>1 DEF Event
  <1>3. QED
    BY <1>1, <1>2 DEF Pruned, Live

\* Usage of the entries a call looks at is a number.
LEMMA UsageIsNat ==
  ASSUME IInv, NEW k \in Keys, NEW S \in SUBSET granted[k]
  PROVE  IsFiniteSet(Units(S)) /\ Usage(S) \in Nat
  <1>1. IsFiniteSet(Units(S))
    BY UsageMonotone DEF IInv, UnitsAreFinite
  <1>2. QED
    BY <1>1, FS_CardinalityType DEF Usage

LEMMA InitIInv == Init => IInv
  <1> SUFFICES ASSUME Init PROVE IInv
    OBVIOUS
  <1>1. TypeOK
    BY DEF Init, TypeOK
  <1>2. KeptAreGranted /\ LiveAreKept /\ EventsArePast
    BY DEF Init, KeptAreGranted, LiveAreKept, EventsArePast
  <1>3. UnitsAreFinite
    BY UnitsEmpty DEF Init, UnitsAreFinite
  <1>4. EveryWindowWithinLimit
    BY DEF Init, EveryWindowWithinLimit, Live
  <1>5. QED
    BY <1>1, <1>2, <1>3, <1>4 DEF IInv

\* A granted call: the new event is new, in the window, and within the limit.
LEMMA AllowedIInv ==
  ASSUME IInv, NEW k \in Keys, NEW limit \in Limits, NEW inc \in Increments,
         CheckAllowed(k, limit, inc)
  PROVE  IInv'
  <1> DEFINE entries == Pruned(windows[k], now - Window)
             event   == [ts |-> now, inc |-> inc, id |-> calls + 1]
  <1>1. /\ calls < MaxCalls
        /\ Usage(entries) + inc <= limit
        /\ windows' = [windows EXCEPT ![k] = entries \cup {event}]
        /\ granted' = [granted EXCEPT ![k] = granted[k] \cup {event}]
        /\ calls' = calls + 1
        /\ answer' = [key |-> k, limit |-> limit, inc |-> inc, allowed |-> TRUE,
                      remaining |-> limit - Usage(entries) - inc, retryAfter |-> 0]
        /\ now' = now
    BY DEF CheckAllowed, Fits
  <1>2. TypeOK /\ now \in 0..MaxTime /\ calls \in 0..MaxCalls
    BY DEF IInv, TypeOK
  <1>3. entries = Live(granted[k], now) /\ entries \in SUBSET granted[k]
    BY PrunedIsLive
  <1>4. IsFiniteSet(Units(entries)) /\ Usage(entries) \in Nat
    BY <1>3, UsageIsNat
  <1>5. event \in Event
    BY <1>1, <1>2 DEF Event
  <1>6. event \notin granted[k]
    <2>1. \A e \in granted[k] : e.id <= calls
      BY DEF IInv, EventsArePast
    <2>2. ~ (event.id <= calls)
      BY <1>2
    <2>3. QED
      BY <2>1, <2>2
  <1>7. limit \in Int /\ inc \in Nat
    OBVIOUS
  <1> HIDE DEF entries, event
  <1>8. limit - Usage(entries) - inc \in Nat
    BY <1>1, <1>4, <1>7
  <1>9. windows' \in [Keys -> SUBSET Event] /\ granted' \in [Keys -> SUBSET Event]
    BY <1>1, <1>2, <1>3, <1>5 DEF TypeOK
  <1>10. TypeOK'
    <2>1. answer' \in Answer
      BY <1>1, <1>8 DEF Answer
    <2>2. QED
      BY <1>1, <1>2, <1>9, <2>1 DEF TypeOK
  <1>11. KeptAreGranted'
    BY <1>1, <1>2, <1>3 DEF IInv, TypeOK, KeptAreGranted
  <1>12. LiveAreKept'
    <2> SUFFICES ASSUME NEW j \in Keys, NEW e \in granted'[j], e.ts > now - Window
                 PROVE  e \in windows'[j]
      BY <1>1 DEF LiveAreKept
    <2>1. CASE j # k
      BY <1>1, <1>2, <2>1 DEF IInv, TypeOK, LiveAreKept
    <2>2. CASE j = k
      <3>1. e \in granted[k] \cup {event}
        BY <1>1, <1>2, <2>2 DEF TypeOK
      <3>2. e \in granted[k] => e \in entries
        BY DEF IInv, LiveAreKept, entries, Pruned
      <3>3. windows'[j] = entries \cup {event}
        BY <1>1, <1>2, <2>2 DEF TypeOK
      <3>4. QED
        BY <3>1, <3>2, <3>3
    <2>3. QED
      BY <2>1, <2>2
  <1>13. EventsArePast'
    <2> SUFFICES ASSUME NEW j \in Keys, NEW e \in granted'[j]
                 PROVE  e.ts <= now /\ e.id <= calls + 1
      BY <1>1 DEF EventsArePast
    <2>1. e \in granted[j] \/ e = event
      BY <1>1, <1>2 DEF TypeOK
    <2>2. CASE e \in granted[j]
      <3>1. e \in Event /\ e.ts <= now /\ e.id <= calls
        BY <1>2, <2>2 DEF IInv, TypeOK, EventsArePast
      <3>2. QED
        BY <1>2, <3>1 DEF Event
    <2>3. CASE e = event
      BY <1>2, <2>3 DEF event
    <2>4. QED
      BY <2>1, <2>2, <2>3
  <1>14. UnitsAreFinite'
    <2>1. IsFiniteSet(Units(granted[k] \cup {event}))
      BY <1>2, <1>5, <1>6, UnitsAdd DEF IInv, UnitsAreFinite, TypeOK
    <2>2. QED
      BY <1>1, <1>2, <2>1 DEF IInv, UnitsAreFinite, TypeOK
  <1>15. EveryWindowWithinLimit'
    <2> SUFFICES ASSUME NEW j \in Keys, NEW t \in 0..MaxTime, Live(granted'[j], t) # {}
                 PROVE  \E l \in Limits : Usage(Live(granted'[j], t)) <= l
      BY DEF EveryWindowWithinLimit
    <2>1. CASE j # k
      BY <1>1, <1>2, <2>1 DEF IInv, TypeOK, EveryWindowWithinLimit
    <2>2. CASE j = k /\ now \in (t - Window + 1)..t
      \* The window holds the new event, hence no more than the entries and it.
      <3>1. granted'[j] = granted[k] \cup {event}
        BY <1>1, <1>2, <2>2 DEF TypeOK
      <3>2. Live(granted'[j], t) \in SUBSET (entries \cup {event})
        <4>1. ASSUME NEW e \in granted[k], t - Window < e.ts
              PROVE  now - Window < e.ts /\ e.ts <= now
          <5>1. e \in Event /\ e.ts <= now
            BY <1>2 DEF IInv, TypeOK, EventsArePast
          <5>2. QED
            BY <1>2, <2>2, <4>1, <5>1 DEF Event
        <4>2. QED
          BY <1>3, <3>1, <4>1 DEF Live
      <3>3. /\ IsFiniteSet(Units(entries \cup {event}))
            /\ Usage(entries \cup {event}) = Usage(entries) + event.inc
        BY <1>2, <1>3, <1>4, <1>5, <1>6, UnitsAdd DEF TypeOK
      <3>4. Usage(entries \cup {event}) <= limit
        <4>1. event.inc = inc
          BY DEF event
        <4>2. QED
          BY <1>1, <3>3, <4>1
      <3>5. /\ Usage(Live(granted'[j], t)) <= Usage(entries \cup {event})
            /\ IsFiniteSet(Units(Live(granted'[j], t)))
        BY <3>2, <3>3, UsageMonotone
      <3>6. Usage(Live(granted'[j], t)) \in Nat /\ Usage(entries \cup {event}) \in Nat
        BY <3>3, <3>5, FS_CardinalityType DEF Usage
      <3>7. QED
        BY <1>7, <3>4, <3>5, <3>6
    <2>3. CASE j = k /\ now \notin (t - Window + 1)..t
      \* The new event is outside the window, which is what it was.
      <3>1. granted'[j] = granted[k] \cup {event}
        BY <1>1, <1>2, <2>3 DEF TypeOK
      <3>2. ~ (t - Window < event.ts /\ event.ts <= t)
        BY <1>2, <2>3 DEF event
      <3>3. Live(granted'[j], t) = Live(granted[k], t)
        BY <3>1, <3>2 DEF Live
      <3>4. QED
        BY <3>3 DEF IInv, EveryWindowWithinLimit
    <2>4. QED
      BY <2>1, <2>2, <2>3
  <1>16. QED
    BY <1>10, <1>11, <1>12, <1>13, <1>14, <1>15 DEF IInv

\* A refused call only drops entries that the window no longer covers.
LEMMA DeniedIInv ==
  ASSUME IInv, NEW k \in Keys, NEW limit \in Limits, NEW inc \in Increments,
         CheckDenied(k, limit, inc)
  PROVE  IInv'
  <1> DEFINE entries == Pruned(windows[k], now - Window)
  <1>1. /\ calls < MaxCalls
        /\ windows' = [windows EXCEPT ![k] = entries]
        /\ calls' = calls + 1
        /\ answer' = [key |-> k, limit |-> limit, inc |-> inc, allowed |-> FALSE,
                      remaining |-> Max({0, limit - Usage(entries)}),
                      retryAfter |-> RetryAfter(entries, now - Window)]
        /\ now' = now
        /\ granted' = granted
    BY DEF CheckDenied
  <1>2. TypeOK /\ now \in 0..MaxTime /\ calls \in 0..MaxCalls
    BY DEF IInv, TypeOK
  <1>3. entries \in SUBSET granted[k] /\ entries \in SUBSET windows[k]
    BY PrunedIsLive DEF Pruned
  <1>4. Usage(entries) \in Nat
    BY <1>3, UsageIsNat
  <1>5. Max({0, limit - Usage(entries)}) \in Nat
    BY <1>4, MaxOfTwo
  <1>6. RetryAfter(entries, now - Window) \in 0..Window
    <2> DEFINE times == {e.ts : e \in entries}
    <2>1. CASE entries = {}
      BY <2>1 DEF RetryAfter
    <2>2. CASE entries # {}
      <3>1. times \in SUBSET Nat /\ times # {}
        BY <1>2, <1>3, <2>2 DEF TypeOK, Event
      <3>2. Min(times) \in times
        BY <3>1, MinIsMember
      <3>3. PICK e \in entries : Min(times) = e.ts
        BY <3>2
      <3>4. e.ts \in Nat /\ e.ts <= now /\ e.ts > now - Window
        BY <1>2, <1>3 DEF IInv, TypeOK, EventsArePast, Event, Pruned
      <3>5. Max({0, Min(times) - (now - Window)}) \in 0..Window
        BY <1>2, <3>3, <3>4, MaxOfTwo
      <3>6. QED
        BY <2>2, <3>5 DEF RetryAfter
    <2>3. QED
      BY <2>1, <2>2
  <1>7. TypeOK'
    <2> HIDE DEF entries
    <2>1. answer' \in Answer
      BY <1>1, <1>5, <1>6 DEF Answer
    <2>2. windows' \in [Keys -> SUBSET Event]
      BY <1>1, <1>2, <1>3 DEF TypeOK
    <2>3. QED
      BY <1>1, <1>2, <2>1, <2>2 DEF TypeOK
  <1>8. KeptAreGranted'
    BY <1>1, <1>2, <1>3 DEF IInv, TypeOK, KeptAreGranted
  <1>9. LiveAreKept'
    BY <1>1, <1>2 DEF IInv, TypeOK, LiveAreKept, Pruned
  <1>10. EventsArePast'
    BY <1>1, <1>2 DEF IInv, TypeOK, EventsArePast, Event
  <1>11. UnitsAreFinite' /\ EveryWindowWithinLimit'
    BY <1>1 DEF IInv, UnitsAreFinite, EveryWindowWithinLimit
  <1>12. QED
    BY <1>7, <1>8, <1>9, <1>10, <1>11 DEF IInv

LEMMA ResetIInv ==
  ASSUME IInv, NEW k \in Keys, Reset(k)
  PROVE  IInv'
  <1>1. TypeOK /\ TypeOK'
    BY DEF IInv, TypeOK, Reset
  <1>2. KeptAreGranted' /\ LiveAreKept' /\ EventsArePast'
    BY <1>1 DEF IInv, TypeOK, Reset, KeptAreGranted, LiveAreKept, EventsArePast
  <1>3. UnitsAreFinite'
    BY <1>1, UnitsEmpty DEF IInv, TypeOK, Reset, UnitsAreFinite
  <1>4. EveryWindowWithinLimit'
    BY <1>1 DEF IInv, TypeOK, Reset, EveryWindowWithinLimit, Live
  <1>5. QED
    BY <1>1, <1>2, <1>3, <1>4 DEF IInv

LEMMA TickIInv ==
  ASSUME IInv, Tick
  PROVE  IInv'
  <1>1. TypeOK /\ TypeOK' /\ now \in Nat /\ now' = now + 1
    BY DEF IInv, TypeOK, Tick
  <1>2. KeptAreGranted' /\ UnitsAreFinite' /\ EveryWindowWithinLimit'
    BY DEF IInv, Tick, KeptAreGranted, UnitsAreFinite, EveryWindowWithinLimit
  <1>3. LiveAreKept' /\ EventsArePast'
    <2>1. ASSUME NEW k \in Keys, NEW e \in granted[k]
          PROVE  e.ts \in Nat /\ e.ts <= now /\ e.id <= calls
      BY <1>1 DEF IInv, TypeOK, EventsArePast, Event
    <2>2. QED
      BY <1>1, <2>1 DEF IInv, Tick, LiveAreKept, EventsArePast
  <1>4. QED
    BY <1>1, <1>2, <1>3 DEF IInv

LEMMA StepIInv == IInv /\ [Next]_vars => IInv'
  <1> SUFFICES ASSUME IInv, [Next]_vars PROVE IInv'
    OBVIOUS
  <1>1. ASSUME NEW k \in Keys, NEW limit \in Limits, NEW inc \in Increments,
               CheckAllowed(k, limit, inc)
        PROVE  IInv'
    BY <1>1, AllowedIInv
  <1>2. ASSUME NEW k \in Keys, NEW limit \in Limits, NEW inc \in Increments,
               CheckDenied(k, limit, inc)
        PROVE  IInv'
    BY <1>2, DeniedIInv
  <1>3. ASSUME NEW k \in Keys, Reset(k)
        PROVE  IInv'
    BY <1>3, ResetIInv
  <1>4. CASE Tick
    BY <1>4, TickIInv
  <1>5. CASE UNCHANGED vars
    BY <1>5 DEF vars, IInv, TypeOK, KeptAreGranted, LiveAreKept, EventsArePast,
                UnitsAreFinite, EveryWindowWithinLimit
  <1>6. QED
    BY <1>1, <1>2, <1>3, <1>4, <1>5 DEF Next

LEMMA Inductive == Spec => []IInv
  BY InitIInv, StepIInv, PTL DEF Spec

(***************************************************************************)
(* What a refused caller is told.  As long as its refusal is the last      *)
(* answer, its key's list is the one the refusal left, or was reset, so    *)
(* that waiting retry_after always drops an entry.                         *)
(***************************************************************************)
WaitingFreesAnEntry ==
  (answer # NoAnswer /\ ~answer.allowed) =>
    \/ windows[answer.key] = {}
    \/ \E e \in windows[answer.key] : e.ts <= now + answer.retryAfter - Window

\* Right after a refusal: retry_after is when the oldest entry leaves.
LEMMA DeniedFrees ==
  ASSUME IInv, NEW k \in Keys, NEW limit \in Limits, NEW inc \in Increments,
         CheckDenied(k, limit, inc)
  PROVE  WaitingFreesAnEntry'
  <1> DEFINE entries == Pruned(windows[k], now - Window)
             times   == {e.ts : e \in entries}
  <1>1. /\ windows' = [windows EXCEPT ![k] = entries]
        /\ answer'.key = k
        /\ answer'.retryAfter = RetryAfter(entries, now - Window)
        /\ now' = now
    BY DEF CheckDenied
  <1>2. windows \in [Keys -> SUBSET Event] /\ now \in Nat
    BY DEF IInv, TypeOK
  <1>3. windows'[answer'.key] = entries
    BY <1>1, <1>2
  <1>4. ASSUME entries # {}
        PROVE  \E e \in entries : e.ts <= now + RetryAfter(entries, now - Window) - Window
    <2>1. times \in SUBSET Nat /\ times # {}
      BY <1>2, <1>4 DEF Pruned, Event
    <2>2. Min(times) \in times
      BY <2>1, MinIsMember
    <2>3. PICK e \in entries : Min(times) = e.ts
      BY <2>2
    <2>4. e.ts \in Nat /\ e.ts > now - Window
      BY <1>2 DEF Pruned, Event
    <2>5. Max({0, Min(times) - (now - Window)}) = e.ts - (now - Window)
      BY <1>2, <2>3, <2>4, MaxOfTwo
    <2>6. RetryAfter(entries, now - Window) = e.ts - (now - Window)
      BY <1>4, <2>5 DEF RetryAfter
    <2>7. e.ts <= now + RetryAfter(entries, now - Window) - Window
      BY <1>2, <2>4, <2>6
    <2>8. QED
      BY <2>7
  <1> HIDE DEF entries
  <1>5. QED
    BY <1>1, <1>3, <1>4 DEF WaitingFreesAnEntry

LEMMA StepFrees == IInv /\ WaitingFreesAnEntry /\ [Next]_vars => WaitingFreesAnEntry'
  <1> SUFFICES ASSUME IInv, WaitingFreesAnEntry, [Next]_vars
               PROVE  WaitingFreesAnEntry'
    OBVIOUS
  <1>0. /\ now \in Nat /\ windows \in [Keys -> SUBSET Event]
        /\ answer \in Answer \cup {NoAnswer}
    BY DEF IInv, TypeOK
  <1>1. ASSUME NEW k \in Keys, NEW limit \in Limits, NEW inc \in Increments,
               CheckAllowed(k, limit, inc)
        PROVE  WaitingFreesAnEntry'
    BY <1>1 DEF CheckAllowed, WaitingFreesAnEntry
  <1>2. ASSUME NEW k \in Keys, NEW limit \in Limits, NEW inc \in Increments,
               CheckDenied(k, limit, inc)
        PROVE  WaitingFreesAnEntry'
    BY <1>2, DeniedFrees
  <1>3. ASSUME NEW k \in Keys, Reset(k)
        PROVE  WaitingFreesAnEntry'
    <2> SUFFICES ASSUME answer # NoAnswer, ~answer.allowed
                 PROVE  \/ windows'[answer.key] = {}
                        \/ \E e \in windows'[answer.key] :
                              e.ts <= now + answer.retryAfter - Window
      BY <1>3 DEF Reset, WaitingFreesAnEntry
    <2>1. windows' = [windows EXCEPT ![k] = {}] /\ answer.key \in Keys
      BY <1>0, <1>3 DEF Reset, Answer
    <2>2. CASE answer.key = k
      BY <1>0, <2>1, <2>2
    <2>3. CASE answer.key # k
      <3>1. windows'[answer.key] = windows[answer.key]
        BY <1>0, <2>1, <2>3
      <3>2. QED
        BY <3>1 DEF WaitingFreesAnEntry
    <2>4. QED
      BY <2>2, <2>3
  <1>4. CASE Tick
    <2> SUFFICES ASSUME answer # NoAnswer, ~answer.allowed, windows[answer.key] # {}
                 PROVE  \E e \in windows[answer.key] :
                           e.ts <= now + 1 + answer.retryAfter - Window
      BY <1>4 DEF Tick, WaitingFreesAnEntry
    <2>1. PICK e \in windows[answer.key] : e.ts <= now + answer.retryAfter - Window
      BY DEF WaitingFreesAnEntry
    <2>2. e.ts \in Nat /\ answer.retryAfter \in Nat
      BY <1>0 DEF Answer, Event
    <2>3. e.ts <= now + 1 + answer.retryAfter - Window
      BY <1>0, <2>1, <2>2
    <2>4. QED
      BY <2>3
  <1>5. CASE UNCHANGED vars
    BY <1>5 DEF vars, WaitingFreesAnEntry
  <1>6. QED
    BY <1>1, <1>2, <1>3, <1>4, <1>5 DEF Next

\* The entry that is dropped makes the room that was missing.
LEMMA FreedIsEnough == IInv /\ WaitingFreesAnEntry => RetryAfterSuffices
  <1> DEFINE k    == answer.key
             kept == windows[k]
             left == Pruned(kept, now + answer.retryAfter - Window)
  <1> SUFFICES ASSUME IInv, WaitingFreesAnEntry, Refused(answer),
                      Usage(kept) <= answer.limit,
                      \A e \in kept : answer.inc <= e.inc
               PROVE  Usage(left) + answer.inc <= answer.limit
    BY DEF RetryAfterSuffices, FitsLater, Fits
  <1>1. answer # NoAnswer /\ ~answer.allowed /\ answer.inc <= answer.limit
    BY DEF Refused, NoAnswer
  <1>2. /\ k \in Keys /\ answer.retryAfter \in Nat
        /\ answer.inc \in Nat /\ answer.limit \in Int
    <2>1. answer \in Answer
      BY <1>1 DEF IInv, TypeOK
    <2>2. answer.key \in Keys /\ answer.limit \in Limits /\ answer.inc \in Increments
      BY <2>1 DEF Answer
    <2>3. answer.retryAfter \in Nat
      BY <2>1 DEF Answer
    <2>4. QED
      BY <2>2, <2>3
  <1>3. now \in Nat /\ kept \in SUBSET Event /\ kept \in SUBSET granted[k]
    BY <1>2 DEF IInv, TypeOK, KeptAreGranted
  <1>4. IsFiniteSet(Units(kept)) /\ Usage(kept) \in Nat
    BY <1>2, <1>3, UsageIsNat
  <1>5. left \in SUBSET kept
    BY DEF Pruned
  <1>6. CASE kept = {}
    <2>1. left = {}
      BY <1>5, <1>6
    <2>2. Usage(left) = 0
      BY <2>1, UnitsEmpty
    <2>3. QED
      BY <1>1, <1>2, <2>2
  <1>7. CASE kept # {}
    <2>1. PICK e \in kept : e.ts <= now + answer.retryAfter - Window
      BY <1>1, <1>7 DEF WaitingFreesAnEntry
    <2>2. e \in Event /\ e.ts \in Nat /\ e.inc \in Nat
      <3>1. e \in Event
        BY <1>3, <2>1
      <3>2. QED
        BY <3>1, EventFields
    <2>3. e \notin left
      BY <1>2, <1>3, <2>1, <2>2 DEF Pruned
    <2> HIDE DEF left, kept
    <2>4. IsFiniteSet(Units(left)) /\ left \in SUBSET Event
      BY <1>3, <1>4, <1>5, UsageMonotone
    <2>5. Usage(left) \in Nat /\ Usage(left \cup {e}) = Usage(left) + e.inc
      BY <2>2, <2>3, <2>4, UnitsAdd
    <2>6. left \cup {e} \in SUBSET kept
      BY <1>5
    <2>7. Usage(left \cup {e}) <= Usage(kept)
      BY <1>4, <2>6, UsageMonotone
    <2>8. answer.inc <= e.inc
      OBVIOUS
    <2>9. QED
      BY <1>2, <1>4, <2>2, <2>5, <2>7, <2>8
  <1>8. QED
    BY <1>6, <1>7

(***************************************************************************)
(* The theorems.                                                           *)
(***************************************************************************)

\* Every result is well formed: remaining is never negative and retry_after
\* is between zero and the window, for every limit, also a negative one.
THEOREM TypeCorrect == Spec => []TypeOK
  <1>1. IInv => TypeOK
    BY DEF IInv
  <1>2. QED
    BY <1>1, Inductive, PTL

\* Dropping expired entries never changes what a later call sees.
THEOREM PruningCorrect == Spec => []PruningIsExact
  <1>1. IInv => PruningIsExact
    BY PrunedIsLive DEF PruningIsExact
  <1>2. QED
    BY <1>1, Inductive, PTL

\* The limit bounds every window, whatever increments the callers pass.
THEOREM LimitRespected == Spec => []EveryWindowWithinLimit
  <1>1. IInv => EveryWindowWithinLimit
    BY DEF IInv
  <1>2. QED
    BY <1>1, Inductive, PTL

\* A refused caller that asks for no more than any kept entry holds, under a
\* limit that was not lowered below what is kept, has room after retry_after.
THEOREM WaitingSuffices == Spec => []RetryAfterSuffices
  <1>1. Init => WaitingFreesAnEntry
    BY DEF Init, WaitingFreesAnEntry
  <1>2. QED
    BY <1>1, Inductive, StepFrees, FreedIsEnough, PTL DEF Spec

(***************************************************************************)
(* RateLimiter implements SlidingWindow.                                   *)
(***************************************************************************)
LEMMA InitImplements == Init => Law!Init
  BY DEF Init, Law!Init, NoAnswer, Law!NoVerdict

LEMMA StepImplements == IInv /\ [Next]_vars => [Law!Next]_(Law!specVars)
  <1> SUFFICES ASSUME IInv, [Next]_vars PROVE [Law!Next]_(Law!specVars)
    OBVIOUS
  <1>1. ASSUME NEW k \in Keys, NEW limit \in Limits, NEW inc \in Increments
        PROVE  Law!HasRoom(k, limit, inc) <=> Fits(Pruned(windows[k], now - Window), limit, inc)
    <2>1. \A S : Law!Units(S) = Units(S)
      BY DEF Law!Units, Units
    <2>2. \A S : Law!Cardinality(S) = Cardinality(S)
      BY DEF Law!Cardinality, Cardinality
    <2>3. Law!Live(granted[k], now) = Pruned(windows[k], now - Window)
      BY PrunedIsLive DEF Law!Live, Live
    <2>4. Law!Usage(Law!Live(granted[k], now)) = Usage(Pruned(windows[k], now - Window))
      BY <2>1, <2>2, <2>3, Zenon DEF Law!Usage, Usage
    <2>5. QED
      BY <2>4, Zenon DEF Law!HasRoom, Fits
  <1>2. ASSUME NEW k \in Keys, NEW limit \in Limits, NEW inc \in Increments,
               CheckAllowed(k, limit, inc)
        PROVE  Law!Next
    <2>1. calls + 1 \in 1..MaxCalls
      BY <1>2 DEF CheckAllowed, IInv, TypeOK
    <2>2. Law!HasRoom(k, limit, inc)
      BY <1>1, <1>2 DEF CheckAllowed
    <2>3. Law!Grant(k, limit, inc, calls + 1)
      BY <1>2, <2>2 DEF CheckAllowed, Law!Grant, NoAnswer
    <2>4. QED
      BY <2>1, <2>3 DEF Law!Next
  <1>3. ASSUME NEW k \in Keys, NEW limit \in Limits, NEW inc \in Increments,
               CheckDenied(k, limit, inc)
        PROVE  Law!Next
    <2>1. ~ Law!HasRoom(k, limit, inc)
      BY <1>1, <1>3 DEF CheckDenied
    <2>2. Law!Refuse(k, limit, inc)
      BY <1>3, <2>1 DEF CheckDenied, Law!Refuse, NoAnswer
    <2>3. QED
      BY <2>2 DEF Law!Next
  <1>4. ASSUME NEW k \in Keys, Reset(k)
        PROVE  Law!Next
    BY <1>4 DEF Reset, Law!Next, Law!Forget
  <1>5. CASE Tick
    BY <1>5 DEF Tick, Law!Next, Law!Pass
  <1>6. CASE UNCHANGED vars
    BY <1>6 DEF vars, Law!specVars
  <1>7. QED
    BY <1>2, <1>3, <1>4, <1>5, <1>6 DEF Next

\* Every step of the code's limiter is a step of the decision rule on the
\* whole history.
THEOREM Refinement == Spec => ImplementsLaw
  <1>1. IInv /\ [Next]_vars => [Law!Next]_(Law!specVars)
    BY StepImplements
  <1>2. QED
    BY <1>1, InitImplements, Inductive, PTL DEF Spec, ImplementsLaw, Law!Spec
=============================================================================
