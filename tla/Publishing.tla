----------------------------- MODULE Publishing -----------------------------
(***************************************************************************)
(* One channel's messages on their way to the writer: the handler puts the *)
(* date in memory and publishes under the lock, attempt by attempt         *)
(* (handler.go, pub/service.go), next to the refresh loop that writes the  *)
(* date from memory to the store under the same lock (service.go), with    *)
(* requests that arrive late or never, and crashes.                        *)
(*                                                                         *)
(* Messages are numbered in the order of their dates and stand for them.   *)
(* An event is known by its place in the order the handler made events,    *)
(* as the code gives each a new id; the messages of the channel are        *)
(* handed over in order, and what a crash interrupts may come again.       *)
(***************************************************************************)
EXTENDS Integers, Sequences, FiniteSets

CONSTANTS
  LastMsg,      \* bound: the number of messages
  Blank,        \* the messages without data, which are not published
  MaxAttempts,  \* the attempts that fit the retry's 10 seconds, 2 at least
  MaxCopies,    \* bound: the copies the writer takes
  MaxCrashes    \* bound: crashes of the process

ASSUME NumbersAreNat ==
  LastMsg \in Nat /\ MaxAttempts \in Nat /\ MaxCopies \in Nat /\ MaxCrashes \in Nat
ASSUME RetryTriesAtOnce == MaxAttempts >= 2

VARIABLES
  next,     \* the message Telegram hands over next
  phase,    \* the handler: idle, lock, send, wait or backoff
  tries,    \* its attempts on the event in hand
  lock,     \* chansJoinedLock: free, handler or loop
  memory,   \* the entry's date in chansJoined, or Unknown without an entry
  stored,   \* the record's date in the store
  network,  \* requests under way to the writer: event and attempt
  arrived,  \* the writer has taken the current request
  log,      \* the copies the writer took
  msgOf,    \* each event's message
  fate,     \* what became of each event
  crashes

vars == <<next, phase, tries, lock, memory, stored, network, arrived, log,
          msgOf, fate, crashes>>

Unknown == -1
Fates == {"busy", "delivered", "failed", "lost"}
Events == DOMAIN msgOf

TypeOK ==
  /\ next \in 1 .. LastMsg + 1
  /\ phase \in {"idle", "lock", "send", "wait", "backoff"}
  /\ tries \in 0 .. MaxAttempts
  /\ lock \in {"free", "handler", "loop"}
  /\ memory \in {Unknown} \union Nat
  /\ stored \in Nat
  /\ msgOf \in Seq(Nat)
  /\ fate \in Seq(Fates)
  /\ network \subseteq Events \X (1 .. MaxAttempts)
  /\ arrived \in BOOLEAN
  /\ log \in Seq(Events)
  /\ crashes \in 0 .. MaxCrashes

\* The event in hand: the last one made.
evt == Len(msgOf)

Init ==
  /\ next = 1
  /\ phase = "idle"
  /\ tries = 0
  /\ lock = "free"
  /\ memory = Unknown
  /\ stored = 0
  /\ network = {}
  /\ arrived = FALSE
  /\ log = <<>>
  /\ msgOf = <<>>
  /\ fate = <<>>
  /\ crashes = 0

-----------------------------------------------------------------------------
(* The handler *)

\* Handle and convertToEvent: an event with an id of its own.
Receive ==
  /\ phase = "idle"
  /\ next <= LastMsg
  /\ phase' = "lock"
  /\ msgOf' = Append(msgOf, next)
  /\ fate' = Append(fate, "busy")
  /\ UNCHANGED <<next, tries, lock, memory, stored, network, arrived, log, crashes>>

\* Seeded fault: the attempts of all events are counted together.
FinishKeepingTries(f) ==
  /\ fate' = [fate EXCEPT ![evt] = f]
  /\ phase' = "idle"
  /\ lock' = "free"
  /\ next' = next + 1
  /\ arrived' = FALSE
  /\ UNCHANGED tries

\* updateChannelAndPublish returns and the deferred Unlock runs.
Finish(f) ==
  /\ fate' = [fate EXCEPT ![evt] = f]
  /\ phase' = "idle"
  /\ lock' = "free"
  /\ next' = next + 1
  /\ tries' = 0
  /\ arrived' = FALSE

\* No entry in the map, or nothing to publish.
HandleUnpublished ==
  /\ phase = "lock" /\ lock = "free"
  /\ memory = Unknown \/ next \in Blank
  /\ memory' = IF memory = Unknown THEN memory ELSE next
  /\ Finish("failed")
  /\ UNCHANGED <<stored, network, log, msgOf, crashes>>

\* Seeded fault: the lock is let go before publishing.
HandleKnownUnlocked ==
  /\ phase = "lock" /\ lock = "free"
  /\ memory # Unknown /\ next \notin Blank
  /\ memory' = next
  /\ phase' = "send"
  /\ UNCHANGED <<next, tries, lock, stored, network, arrived, log, msgOf, fate, crashes>>

\* The date goes to memory before the event is published.
HandleKnown ==
  /\ phase = "lock" /\ lock = "free"
  /\ memory # Unknown /\ next \notin Blank
  /\ lock' = "handler"
  /\ memory' = next
  /\ phase' = "send"
  /\ UNCHANGED <<next, tries, stored, network, arrived, log, msgOf, fate, crashes>>

\* Seeded fault: every attempt makes its event anew.
SendAnew ==
  /\ phase = "send"
  /\ phase' = "wait"
  /\ tries' = tries + 1
  /\ arrived' = FALSE
  /\ msgOf' = IF tries = 0 THEN msgOf ELSE Append(msgOf, next)
  /\ fate' = IF tries = 0 THEN fate ELSE Append([fate EXCEPT ![evt] = "failed"], "busy")
  /\ network' = network \union {<<Len(msgOf'), tries + 1>>}
  /\ UNCHANGED <<next, lock, memory, stored, log, crashes>>

\* Publish: an attempt. All attempts send the same event.
Send ==
  /\ phase = "send"
  /\ phase' = "wait"
  /\ tries' = tries + 1
  /\ arrived' = FALSE
  /\ network' = network \union {<<evt, tries + 1>>}
  /\ UNCHANGED <<next, lock, memory, stored, log, msgOf, fate, crashes>>

\* Seeded fault: the acknowledged count is not looked at.
AckedUnchecked ==
  /\ phase = "wait"
  /\ Finish("delivered")
  /\ UNCHANGED <<memory, stored, network, log, msgOf, crashes>>

\* An answer with an acknowledged count of 1 or more, which the writer gives
\* to what it took.
Acked ==
  /\ phase = "wait"
  /\ arrived
  /\ Finish("delivered")
  /\ UNCHANGED <<memory, stored, network, log, msgOf, crashes>>

\* ErrNoAck: status 503 or 408, or an acknowledged count of 0. The first
\* attempt is followed by another at once, a later one by a pause.
NoAck ==
  /\ phase = "wait"
  /\ phase' = IF tries = 1 THEN "send" ELSE "backoff"
  /\ UNCHANGED <<next, tries, lock, memory, stored, network, arrived, log, msgOf,
                 fate, crashes>>

\* Any other error: a broken connection, 401, 400, 429, an unreadable body.
\* It ends the first attempt for good and is retried on the later ones.
OtherError ==
  /\ phase = "wait"
  /\ \/ /\ tries = 1
        /\ Finish("failed")
        /\ UNCHANGED <<memory, stored, network, log, msgOf, crashes>>
     \/ /\ tries > 1
        /\ phase' = "backoff"
        /\ UNCHANGED <<next, tries, lock, memory, stored, network, arrived, log,
                       msgOf, fate, crashes>>

\* The backoff's pause is over and its 10 seconds are not.
Retry ==
  /\ phase = "backoff"
  /\ tries < MaxAttempts
  /\ phase' = "send"
  /\ UNCHANGED <<next, tries, lock, memory, stored, network, arrived, log, msgOf,
                 fate, crashes>>

\* Seeded fault: the retries have no time limit.
GiveUpNever == FALSE /\ UNCHANGED vars

\* The 10 seconds are over: the event is dropped with a log message.
GiveUp ==
  /\ phase = "backoff"
  /\ Finish("failed")
  /\ UNCHANGED <<memory, stored, network, log, msgOf, crashes>>

-----------------------------------------------------------------------------
(* The refresh loop's visit to the channel *)

\* updateJoined takes the lock.
LoopLock ==
  /\ lock = "free"
  /\ lock' = "loop"
  /\ UNCHANGED <<next, phase, tries, memory, stored, network, arrived, log, msgOf,
                 fate, crashes>>

\* updateJoined puts the channel in the map, or writes the date it has there
\* to the store; the zero date is not written.
LoopWrite ==
  /\ lock = "loop"
  /\ lock' = "free"
  /\ memory' = IF memory = Unknown THEN 0 ELSE memory
  /\ stored' = IF memory \in {Unknown, 0} THEN stored ELSE memory
  /\ UNCHANGED <<next, phase, tries, network, arrived, log, msgOf, fate, crashes>>

\* The store fails.
LoopFails ==
  /\ lock = "loop"
  /\ memory \notin {Unknown, 0}
  /\ lock' = "free"
  /\ UNCHANGED <<next, phase, tries, memory, stored, network, arrived, log, msgOf,
                 fate, crashes>>

-----------------------------------------------------------------------------
(* The writer and crashes *)

\* The writer takes a request, in time or late.
Take(r) ==
  /\ r \in network
  /\ Len(log) < MaxCopies
  /\ network' = network \ {r}
  /\ log' = Append(log, r[1])
  /\ arrived' = (arrived \/ (phase = "wait" /\ r = <<evt, tries>>))
  /\ UNCHANGED <<next, phase, tries, lock, memory, stored, msgOf, fate, crashes>>

\* The process ends and starts again; the message in hand comes again or not.
Crash ==
  /\ crashes < MaxCrashes
  /\ crashes' = crashes + 1
  /\ phase' = "idle" /\ lock' = "free"
  /\ tries' = 0 /\ arrived' = FALSE
  /\ memory' = Unknown
  /\ fate' = IF phase = "idle" THEN fate ELSE [fate EXCEPT ![evt] = "lost"]
  /\ next' \in {next} \union IF phase = "idle" THEN {} ELSE {next + 1}
  /\ UNCHANGED <<stored, network, log, msgOf>>

-----------------------------------------------------------------------------

Handling == HandleUnpublished \/ HandleKnown

Next ==
  \/ Receive
  \/ HandleUnpublished
  \/ HandleKnown
  \/ Send
  \/ Acked
  \/ NoAck
  \/ OtherError
  \/ Retry
  \/ GiveUp
  \/ LoopLock
  \/ LoopWrite
  \/ LoopFails
  \/ \E r \in network : Take(r)
  \/ Crash

\* The handler runs, the mutex goes to who waits longest, the loop lets it
\* go. Nothing is said of Answer: the client has no timeout, so a request may
\* never end.
Fairness ==
  /\ WF_vars(Send \/ GiveUp)
  /\ SF_vars(Handling)
  /\ WF_vars(LoopWrite)

Spec == Init /\ [][Next]_vars /\ Fairness

-----------------------------------------------------------------------------
(* Properties *)

\* Each event's first copy at the writer comes before anything of the events
\* made after it, if publish has reported success for it: late copies are
\* only ever repetitions, or of events whose publish failed.
InboxOrder ==
  \A i \in DOMAIN log, e \in Events :
    fate[e] = "delivered" /\ e < log[i] => \E j \in 1 .. i : log[j] = e

\* The date in the store is of a message whose handling came to its end,
\* never of one still being published or interrupted by a crash, although
\* the date is put in memory first.
StoredFinished ==
  stored # 0 =>
    \E e \in Events : msgOf[e] = stored /\ fate[e] \in {"delivered", "failed"}

\* The writer can tell repetitions by the id: two events of one message reach
\* it only when a crash interrupted the first.
RepeatsHaveOneId ==
  \A i, j \in DOMAIN log :
    log[i] < log[j] /\ msgOf[log[i]] = msgOf[log[j]] => fate[log[i]] = "lost"

Delivery ==
  INSTANCE EventDelivery WITH
    fate <- [e \in Events |->
               IF fate[e] \in {"busy", "delivered"} THEN fate[e] ELSE "over"]

\* Publishing with its retries is at-least-once delivery, one event after the
\* other: what is called delivered was taken.
DeliversEvents == Delivery!Spec

\* The handler comes back for the next message again and again, whatever the
\* answers, unless one request to the writer hangs for good: no answer, no
\* retry and no wait for the lock is a second place where it could stop.
HandlerReturns == []<>(phase = "idle") \/ <>[](phase = "wait")
=============================================================================
