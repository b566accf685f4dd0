--------------------------- MODULE RetentionProofs ---------------------------
(***************************************************************************)
(* An active channel keeps its record, for every retention, interval, gap  *)
(* and number of faults that fit together.                                 *)
(***************************************************************************)
EXTENDS Retention, TLAPS

\* The cost of the faults so far.
Spent == faults * Cost

\* Costs are numbers that add up.
LEMMA CostAdds ==
  /\ Cost \in Nat /\ Gap + Interval <= Cost /\ Interval <= Cost
  /\ \A f \in Nat : f * Cost \in Nat /\ (f + 1) * Cost = f * Cost + Cost
<1>1. Cost \in Nat /\ Gap + Interval <= Cost /\ Interval <= Cost
  BY PeriodsAreNat DEF Cost
<1>2. \A c, f \in Nat : f * c \in Nat /\ (f + 1) * c = f * c + c
  OBVIOUS
<1> QED BY <1>1, <1>2

\* No number of faults within the bound costs the whole retention.
LEMMA CostFits ==
  ASSUME TypeOK
  PROVE  Spent \in Nat /\ Spent + Cost < Retention
<1>1. \A c, f, g \in Nat : f <= g => (f + 1) * c <= (g + 1) * c
  OBVIOUS
<1>2. faults \in Nat /\ faults <= MaxFaults
  BY PeriodsAreNat DEF TypeOK
<1>3. (faults + 1) * Cost <= (MaxFaults + 1) * Cost
  BY <1>1, <1>2, CostAdds, PeriodsAreNat
<1>4. Spent \in Nat /\ (faults + 1) * Cost = Spent + Cost
  BY <1>2, CostAdds DEF Spent
<1>5. (MaxFaults + 1) * Cost \in Nat
  BY CostAdds, PeriodsAreNat
<1> HIDE DEF Spent
<1> QED BY <1>3, <1>4, <1>5, RetentionIsLong, CostAdds, PeriodsAreNat

-----------------------------------------------------------------------------
(* The inductive invariant *)

\* No message and no round is overdue.
OnTime ==
  /\ now <= posted + Gap
  /\ loop = "on" => now <= lastRound + Interval

\* Without an entry in the map: the date lags behind the last round by what
\* the faults cost.
LagUnknown == memory = Unknown => stored >= lastRound - Spent

\* With an entry that has no date: the entry was made at a round k, and no
\* message came since.
LagUndated ==
  memory = 0 => \E k \in Nat :
    posted <= k /\ k <= lastRound /\ stored >= k - Interval - Spent

\* With a date: it is the last message's, and what a round wrote before is
\* from the time of the message before or of the entry.
LagDated ==
  memory \notin {Unknown, 0} =>
    memory = posted /\ stored >= lastRound - Gap - Interval - Spent

Lag == LagUnknown /\ LagUndated /\ LagDated

IInv ==
  /\ TypeOK
  /\ OnTime
  /\ loop = "off" => gaveUp = TRUE
  /\ present = TRUE /\ gaveUp = FALSE => Lag
  /\ present = TRUE \/ gaveUp = TRUE

\* The invariant bounds how far the stored date lags behind.
LEMMA LagIsBounded ==
  ASSUME IInv, present = TRUE, gaveUp = FALSE
  PROVE  now - stored <= Spent + Cost
<1>1. Lag /\ loop = "on" /\ OnTime /\ Spent \in Nat
  BY CostFits DEF IInv, TypeOK
<1>2. /\ now \in Nat /\ stored \in Nat /\ posted \in Nat /\ lastRound \in Nat
      /\ now <= posted + Gap /\ now <= lastRound + Interval
  BY <1>1 DEF IInv, TypeOK, OnTime
<1>3. Gap \in Nat /\ Interval \in Nat /\ Cost = Gap + 2 * Interval
  BY PeriodsAreNat DEF Cost
<1> HIDE DEF Spent
<1>4. CASE memory = Unknown
  BY <1>1, <1>2, <1>3, <1>4 DEF Lag, LagUnknown
<1>5. CASE memory = 0
  BY <1>1, <1>2, <1>3, <1>5 DEF Lag, LagUndated
<1>6. CASE memory \notin {Unknown, 0}
  BY <1>1, <1>2, <1>3, <1>6 DEF Lag, LagDated
<1> QED BY <1>4, <1>5, <1>6

\* The first state satisfies the invariant.
LEMMA InitInv == Init => IInv
<1> SUFFICES ASSUME Init PROVE IInv
  OBVIOUS
<1>1. TypeOK /\ OnTime
  <2>1. faults \in 0 .. MaxFaults
    BY PeriodsAreNat DEF Init
  <2>2. OnTime
    BY PeriodsAreNat DEF Init, OnTime
  <2>3. present \in BOOLEAN /\ gaveUp \in BOOLEAN
    BY DEF Init
  <2>4. memory \in {Unknown} \union Nat /\ loop \in {"on", "off"}
    BY DEF Init
  <2>5. now = 0 /\ posted = 0 /\ stored = 0 /\ lastRound = 0 /\ started = 0
    BY DEF Init
  <2> QED BY <2>1, <2>2, <2>3, <2>4, <2>5 DEF TypeOK
<1>2. Spent \in Nat
  BY <1>1, CostFits
<1> HIDE DEF Spent
<1>3. Lag
  BY <1>2 DEF Init, Lag, LagUnknown, LagUndated, LagDated, Unknown
<1> QED BY <1>1, <1>3 DEF Init, IInv

-----------------------------------------------------------------------------
(* Steps *)

\* Every step keeps the types, and nothing gets overdue.
LEMMA TypeStep == TypeOK /\ [Next]_vars => TypeOK'
<1> SUFFICES ASSUME TypeOK, [Next]_vars PROVE TypeOK'
  OBVIOUS
<1> USE PeriodsAreNat DEF TypeOK
<1>1. CASE Tick
  BY <1>1 DEF Tick
<1>2. CASE Post
  BY <1>2 DEF Post
<1>3. CASE Expire
  BY <1>3 DEF Expire
<1>4. CASE Visit
  BY <1>4 DEF Visit
<1>5. CASE VisitFails
  BY <1>5 DEF VisitFails
<1>6. CASE RoundFails
  <2>1. gaveUp' \in BOOLEAN
    BY <1>6 DEF RoundFails
  <2>2. loop' \in {"on", "off"}
    BY <1>6 DEF RoundFails
  <2> QED BY <1>6, <2>1, <2>2 DEF RoundFails
<1>7. CASE VisitNone
  BY <1>7 DEF VisitNone
<1>8. CASE Restart
  BY <1>8 DEF Restart
<1>9. CASE UNCHANGED vars
  BY <1>9 DEF vars
<1> QED BY <1>1, <1>2, <1>3, <1>4, <1>5, <1>6, <1>7, <1>8, <1>9 DEF Next

LEMMA OnTimeStep == TypeOK /\ OnTime /\ [Next]_vars => OnTime'
<1> SUFFICES ASSUME TypeOK, OnTime, [Next]_vars PROVE OnTime'
  OBVIOUS
<1> USE PeriodsAreNat DEF TypeOK, OnTime
<1>1. CASE Tick
  BY <1>1 DEF Tick
<1>2. CASE Post
  BY <1>2 DEF Post
<1>3. CASE Expire \/ Visit \/ VisitFails \/ VisitNone \/ Restart
  BY <1>3 DEF Expire, Visit, VisitFails, VisitNone, Restart
<1>4. CASE RoundFails
  BY <1>4 DEF RoundFails
<1>5. CASE UNCHANGED vars
  BY <1>5 DEF vars
<1> QED BY <1>1, <1>2, <1>3, <1>4, <1>5 DEF Next

\* A fault costs Cost more.
LEMMA FaultSpent ==
  ASSUME TypeOK, faults' = faults + 1
  PROVE  Spent' = Spent + Cost
BY CostAdds, PeriodsAreNat DEF Spent, TypeOK, Cost

\* Messages and visits keep the lag, which nothing has been spent on.
LEMMA VisitStep ==
  ASSUME IInv, present = TRUE, gaveUp = FALSE, Tick \/ Post \/ Visit
  PROVE  Lag'
<1>1. /\ Lag /\ Spent \in Nat /\ OnTime /\ loop = "on"
      /\ Gap \in Nat /\ Interval \in Nat
  BY CostFits, PeriodsAreNat DEF IInv, TypeOK
<1>2. Spent' = Spent
  BY DEF Tick, Post, Visit, Spent, Cost
<1>3. /\ now \in Nat /\ posted \in Nat /\ stored \in Nat /\ lastRound \in Nat
      /\ posted <= now /\ lastRound <= now
      /\ now <= posted + Gap /\ now <= lastRound + Interval
  BY <1>1 DEF IInv, TypeOK, OnTime
<1> USE DEF Lag, LagUnknown, LagUndated, LagDated, Unknown
<1> HIDE DEF Spent
<1>4. CASE Tick
  BY <1>1, <1>2, <1>3, <1>4 DEF Tick
<1>5. CASE Post
  <2>1. CASE memory = Unknown
    BY <1>1, <1>2, <1>3, <1>5, <2>1 DEF Post
  <2>2. CASE memory = 0
    BY <1>1, <1>2, <1>3, <1>5, <2>2 DEF Post
  <2>3. CASE memory \notin {Unknown, 0}
    BY <1>1, <1>2, <1>3, <1>5, <2>3 DEF Post
  <2> QED BY <2>1, <2>2, <2>3
<1>6. CASE Visit
  <2>1. CASE memory = Unknown
    <3>1. /\ memory' = 0 /\ lastRound' = now /\ posted' = posted
          /\ stored' >= now - Interval - Spent
      BY <1>1, <1>2, <1>3, <1>6, <2>1 DEF Visit
    <3> QED BY <3>1, <1>2, <1>3
  <2>2. CASE memory = 0
    BY <1>1, <1>2, <1>3, <1>6, <2>2 DEF Visit
  <2>3. CASE memory \notin {Unknown, 0}
    BY <1>1, <1>2, <1>3, <1>6, <2>3 DEF Visit
  <2> QED BY <2>1, <2>2, <2>3
<1> QED BY <1>4, <1>5, <1>6

\* A failed visit or round that is tried again, and a restart, spend a cost.
LEMMA FaultStep ==
  ASSUME IInv, present = TRUE, gaveUp = FALSE, VisitFails \/ RoundFails \/ Restart
  PROVE  Lag'
<1>1. /\ Lag /\ Spent \in Nat /\ Cost \in Nat /\ OnTime /\ loop = "on"
      /\ Gap \in Nat /\ Interval \in Nat /\ Gap + Interval <= Cost
      /\ Interval <= Cost
  BY CostFits, CostAdds, PeriodsAreNat DEF IInv, TypeOK
<1>2. Spent' = Spent + Cost
  BY FaultSpent DEF VisitFails, RoundFails, Restart, IInv
<1>3. /\ now \in Nat /\ posted \in Nat /\ stored \in Nat /\ lastRound \in Nat
      /\ posted <= now /\ lastRound <= now
      /\ now <= posted + Gap /\ now <= lastRound + Interval
  BY <1>1 DEF IInv, TypeOK, OnTime
<1>4. now - stored <= Spent + Cost
  BY LagIsBounded
<1>5. /\ lastRound' = now /\ UNCHANGED <<posted, stored>>
      /\ memory' = memory \/ memory' = Unknown
  BY DEF VisitFails, RoundFails, Restart
<1> HIDE DEF Spent, Cost
<1>6. LagUnknown'
  BY <1>1, <1>2, <1>3, <1>4, <1>5 DEF LagUnknown
<1>7. LagUndated'
  <2> SUFFICES ASSUME memory' = 0
               PROVE  \E k \in Nat : posted <= k /\ k <= now
                                     /\ stored >= k - Interval - Spent'
    BY <1>5 DEF LagUndated
  <2>1. memory = 0
    BY <1>5 DEF Unknown
  <2>2. PICK k \in Nat : posted <= k /\ k <= lastRound /\ stored >= k - Interval - Spent
    BY <1>1, <2>1 DEF Lag, LagUndated
  <2> QED BY <1>1, <1>2, <1>3, <2>2
<1>8. LagDated'
  <2> SUFFICES ASSUME memory' \notin {Unknown, 0}
               PROVE  memory' = posted /\ stored >= now - Gap - Interval - Spent'
    BY <1>5 DEF LagDated
  <2> QED BY <1>1, <1>2, <1>3, <1>5 DEF Lag, LagDated
<1> QED BY <1>6, <1>7, <1>8 DEF Lag

\* Every step keeps the invariant; only a record that is due expires.
LEMMA InvStep == IInv /\ [Next]_vars => IInv'
<1> SUFFICES ASSUME IInv, [Next]_vars PROVE IInv'
  OBVIOUS
<1>1. TypeOK' /\ OnTime'
  BY TypeStep, OnTimeStep DEF IInv
<1>2. CASE Tick \/ Post \/ Visit
  <2>1. UNCHANGED <<present, gaveUp, loop>>
    BY <1>2 DEF Tick, Post, Visit
  <2> QED BY <1>1, <1>2, <2>1, VisitStep DEF IInv
<1>3. CASE VisitFails \/ Restart
  <2>1. UNCHANGED <<present, gaveUp>> /\ loop' = "on"
    BY <1>3 DEF VisitFails, Restart
  <2> QED BY <1>1, <1>3, <2>1, FaultStep DEF IInv
<1>4. CASE RoundFails
  <2>1. present' = present
    BY <1>4 DEF RoundFails
  <2>2. \/ loop' = "off" /\ gaveUp' = TRUE
        \/ loop' = "on" /\ gaveUp' = gaveUp
    BY <1>4 DEF RoundFails, IInv, TypeOK
  <2> QED BY <1>1, <1>4, <2>1, <2>2, FaultStep DEF IInv, TypeOK
<1>5. CASE Expire
  <2>1. gaveUp = TRUE
    <3> SUFFICES ASSUME gaveUp = FALSE PROVE FALSE
      BY DEF IInv, TypeOK
    <3>1. now - stored <= Spent + Cost
      BY <1>5, LagIsBounded DEF Expire
    <3>2. Spent \in Nat /\ Cost \in Nat /\ Spent + Cost < Retention
      BY CostFits, CostAdds DEF IInv
    <3>3. now \in Nat /\ stored \in Nat /\ Retention \in Nat /\ now >= stored + Retention
      BY <1>5, PeriodsAreNat DEF Expire, IInv, TypeOK
    <3> HIDE DEF Spent, Cost
    <3> QED BY <3>1, <3>2, <3>3
  <2> QED BY <1>1, <1>5, <2>1 DEF Expire, IInv
<1>6. CASE VisitNone
  BY <1>1, <1>6 DEF VisitNone, IInv
<1>7. CASE UNCHANGED vars
  BY <1>1, <1>7 DEF vars, IInv, Lag, LagUnknown, LagUndated, LagDated, Spent
<1> QED BY <1>2, <1>3, <1>4, <1>5, <1>6, <1>7 DEF Next

\* The invariant holds throughout.
LEMMA Invariant == Spec => []IInv
BY InitInv, InvStep, PTL DEF Spec

-----------------------------------------------------------------------------
(* The results *)

\* Type correctness: time, dates and the faults that the loop can bear.
THEOREM TypeCorrect == Spec => []TypeOK
<1>1. IInv => TypeOK
  BY DEF IInv
<1> QED BY <1>1, Invariant, PTL

\* How far the stored date lags behind, for all periods and any number of
\* faults.
THEOREM LagStaysBounded == Spec => []LagBounded
<1>1. IInv => LagBounded
  <2> SUFFICES ASSUME IInv, present, ~gaveUp
               PROVE  now - stored <= (faults + 1) * Cost
    BY DEF LagBounded
  <2>1. present = TRUE /\ gaveUp = FALSE
    BY DEF IInv, TypeOK
  <2>2. (faults + 1) * Cost = Spent + Cost
    BY CostAdds, PeriodsAreNat DEF IInv, TypeOK, Spent
  <2> QED BY <2>1, <2>2, LagIsBounded
<1> QED BY <1>1, Invariant, PTL

\* An active channel keeps its record while the loop has not given up,
\* whatever restarts and failed rounds the retention is long enough for.
THEOREM ActiveRecordKept == Spec => []ActiveKept
<1>1. IInv => ActiveKept
  BY DEF IInv, ActiveKept
<1> QED BY <1>1, Invariant, PTL
=============================================================================
