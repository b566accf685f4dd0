----------------------------- MODULE Retention -----------------------------
(***************************************************************************)
(* The retention of one active channel's record against time: the database *)
(* removes a record whose `last` is older than the retention period        *)
(* (storage_mongo.go), messages put their date in memory (handler.go), and *)
(* each round of the refresh loop writes the date from memory to the       *)
(* record (service.go), unless it fails, the process restarts, or the loop *)
(* gave up (main.go).                                                      *)
(*                                                                         *)
(* Time is in units of which Interval and Gap are small multiples.  A      *)
(* message is handled and a round done in no time; Interval includes what  *)
(* a round and the backoff take.                                           *)
(***************************************************************************)
EXTENDS Integers

CONSTANTS
  Retention,  \* the retention period
  Interval,   \* the longest time between two rounds of a loop that goes on
  Gap,        \* the longest silence of the channel
  GiveUpAge,  \* the process age at which the loop does not retry any more
  MaxFaults,  \* bound: failed visits and restarts
  MaxTime     \* bound: the time

ASSUME PeriodsAreNat ==
  /\ Retention \in Nat /\ Interval \in Nat /\ Gap \in Nat
  /\ GiveUpAge \in Nat /\ MaxFaults \in Nat /\ MaxTime \in Nat

\* What one fault may cost: a round, the next message, and the round after it.
Cost == Gap + 2 * Interval

ASSUME RetentionIsLong == Retention > (MaxFaults + 1) * Cost

VARIABLES
  now,
  posted,     \* when the channel last posted
  present,    \* whether the record is there
  stored,     \* the record's `last`
  memory,     \* the date in chansJoined, 0 for none, Unknown without an entry
  loop,       \* the refresh loop: on or off
  lastRound,  \* when it last came to the channel, or started
  started,    \* when the process started
  faults,
  gaveUp      \* history: the loop has been off

vars == <<now, posted, present, stored, memory, loop, lastRound, started, faults,
          gaveUp>>

Unknown == -1

TypeOK ==
  /\ now \in Nat
  /\ posted \in Nat /\ posted <= now
  /\ present \in BOOLEAN
  /\ stored \in Nat
  /\ memory \in {Unknown} \union Nat
  /\ loop \in {"on", "off"}
  /\ lastRound \in Nat /\ lastRound <= now
  /\ started \in Nat
  /\ faults \in 0 .. MaxFaults
  /\ gaveUp \in BOOLEAN

\* Create gives the record its first date.
Init ==
  /\ now = 0
  /\ posted = 0
  /\ present = TRUE
  /\ stored = 0
  /\ memory = Unknown
  /\ loop = "on"
  /\ lastRound = 0
  /\ started = 0
  /\ faults = 0
  /\ gaveUp = FALSE

-----------------------------------------------------------------------------

\* Time goes on as long as no message and no round is overdue.
Tick ==
  /\ now < MaxTime
  /\ now < posted + Gap
  /\ loop = "on" => now < lastRound + Interval
  /\ now' = now + 1
  /\ UNCHANGED <<posted, present, stored, memory, loop, lastRound, started, faults,
                 gaveUp>>

\* The channel posts. The handler knows the channel by its entry in the map.
Post ==
  /\ posted < now
  /\ posted' = now
  /\ memory' = IF memory = Unknown THEN memory ELSE now
  /\ UNCHANGED <<now, present, stored, loop, lastRound, started, faults, gaveUp>>

\* Seeded fault: the retention index is on `created`.
ExpireByCreation ==
  /\ present
  /\ now >= Retention
  /\ present' = FALSE
  /\ UNCHANGED <<now, posted, stored, memory, loop, lastRound, started, faults,
                 gaveUp>>

\* The database's monitor removes a record that is due, sooner or later.
Expire ==
  /\ present
  /\ now >= stored + Retention
  /\ present' = FALSE
  /\ UNCHANGED <<now, posted, stored, memory, loop, lastRound, started, faults,
                 gaveUp>>

\* Seeded fault: a date is written only when the record has none.
VisitOnce ==
  /\ loop = "on" /\ present
  /\ lastRound' = now
  /\ memory' = IF memory = Unknown THEN 0 ELSE memory
  /\ stored' = IF memory \in {Unknown, 0} \/ stored # 0 THEN stored ELSE memory
  /\ UNCHANGED <<now, posted, present, loop, started, faults, gaveUp>>

\* Seeded fault: the time of the next round is kept in place of the last.
VisitAhead ==
  /\ loop = "on" /\ present
  /\ lastRound' = now + Interval
  /\ memory' = IF memory = Unknown THEN 0 ELSE memory
  /\ stored' = IF memory \in {Unknown, 0} THEN stored ELSE memory
  /\ UNCHANGED <<now, posted, present, loop, started, faults, gaveUp>>

\* A round comes to the channel: the entry is made, without a date as pages
\* have none, or the date it has is written.
Visit ==
  /\ loop = "on" /\ present
  /\ lastRound' = now
  /\ memory' = IF memory = Unknown THEN 0 ELSE memory
  /\ stored' = IF memory \in {Unknown, 0} THEN stored ELSE memory
  /\ UNCHANGED <<now, posted, present, loop, started, faults, gaveUp>>

\* A round does not get to the channel or fails to write: joining it, the
\* update, or a page cut short.
VisitFails ==
  /\ loop = "on" /\ present
  /\ faults < MaxFaults
  /\ faults' = faults + 1
  /\ lastRound' = now
  /\ UNCHANGED <<now, posted, present, stored, memory, loop, started, gaveUp>>

\* A round ends with an error, of GetChats or GetPage. The backoff starts the
\* loop again, or gives up when the process is old enough.
RoundFails ==
  /\ loop = "on"
  /\ faults < MaxFaults
  /\ faults' = faults + 1
  /\ lastRound' = now
  /\ loop' = IF now - started >= GiveUpAge THEN "off" ELSE "on"
  /\ gaveUp' = (gaveUp \/ now - started >= GiveUpAge)
  /\ UNCHANGED <<now, posted, present, stored, memory, started>>

\* A round after the record has gone does nothing here.
VisitNone ==
  /\ loop = "on" /\ ~present
  /\ lastRound' = now
  /\ UNCHANGED <<now, posted, present, stored, memory, loop, started, faults, gaveUp>>

\* The process ends and starts again: the map is empty.
Restart ==
  /\ faults < MaxFaults
  /\ faults' = faults + 1
  /\ memory' = Unknown
  /\ loop' = "on"
  /\ lastRound' = now /\ started' = now
  /\ UNCHANGED <<now, posted, present, stored, gaveUp>>

Next ==
  \/ Tick
  \/ Post
  \/ Expire
  \/ Visit
  \/ VisitFails
  \/ RoundFails
  \/ VisitNone
  \/ Restart

Spec == Init /\ [][Next]_vars

-----------------------------------------------------------------------------
(* Properties *)

\* The stored date lags behind by a bounded time for each fault so far, as
\* long as the loop has not given up: dates lost with memory, messages dropped
\* before the entry is there and failed updates are all made good.
LagBounded == present /\ ~gaveUp => now - stored <= (faults + 1) * Cost

\* An active channel keeps its record, restarts and failed rounds included,
\* until the loop gives up.
ActiveKept == present \/ gaveUp
=============================================================================
