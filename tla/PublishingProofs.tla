-------------------------- MODULE PublishingProofs --------------------------
(***************************************************************************)
(* Publishing for any number of messages, attempts, copies and crashes:    *)
(* the order of copies, the store's date, the ids of repetitions, and that *)
(* publishing implements EventDelivery.                                    *)
(***************************************************************************)
EXTENDS Publishing, TLAPS

-----------------------------------------------------------------------------
(* The inductive invariant *)

\* Types, with a fate for each event.
Types ==
  /\ next \in Nat
  /\ phase \in {"idle", "lock", "send", "wait", "backoff"}
  /\ tries \in Nat
  /\ lock \in {"free", "handler", "loop"}
  /\ memory \in {Unknown} \union Nat
  /\ stored \in Nat
  /\ msgOf \in Seq(Nat)
  /\ fate \in Seq(Fates) /\ Len(fate) = Len(msgOf)
  /\ \A r \in network : r[1] \in Events
  /\ arrived \in BOOLEAN
  /\ log \in Seq(Nat) /\ \A i \in DOMAIN log : log[i] \in Events

\* The event in hand is the last one made, and the only busy one.
InHand ==
  /\ phase # "idle" => evt \in Events /\ fate[evt] = "busy" /\ msgOf[evt] = next
  /\ \A e \in Events : fate[e] = "busy" => phase # "idle" /\ e = evt

\* The handler publishes under the lock, the date being in memory.
Locked ==
  /\ lock = "handler" <=> phase \in {"send", "wait", "backoff"}
  /\ lock = "handler" => memory = next

Taken(e) == \E i \in DOMAIN log : log[i] = e

\* A request that arrived left a copy; what is called delivered was taken.
ArrivedTaken ==
  /\ arrived = TRUE => phase # "idle" /\ Taken(evt)
  /\ \A e \in Events : fate[e] = "delivered" => Taken(e)

Finished(m) == \E e \in Events : msgOf[e] = m /\ fate[e] \in {"delivered", "failed"}

\* Outside the handler's critical section a date in memory is of a message
\* whose handling came to its end.
MemoryFinished == lock # "handler" /\ memory \notin {Unknown, 0} => Finished(memory)

\* Of two events of one message the first was lost, and the next message has
\* no event but lost ones and the one in hand.
EarlierLost ==
  /\ \A a, b \in Events : a < b /\ msgOf[a] = msgOf[b] => fate[a] = "lost"
  /\ \A a \in Events :
       /\ msgOf[a] <= next
       /\ msgOf[a] = next => fate[a] = "lost" \/ (phase # "idle" /\ a = evt)

IInv ==
  /\ Types
  /\ InHand
  /\ Locked
  /\ ArrivedTaken
  /\ MemoryFinished
  /\ EarlierLost
  /\ InboxOrder
  /\ StoredFinished

\* The events are the places of the sequence of their messages.
LEMMA EventNumbers ==
  ASSUME Types
  PROVE  /\ Events = 1 .. evt /\ evt \in Nat
         /\ DOMAIN fate = Events
         /\ \A e \in Events : e \in Nat /\ e <= evt /\ fate[e] \in Fates
         /\ DOMAIN log = 1 .. Len(log) /\ Len(log) \in Nat
BY DEF Types, Events, evt

\* The first state satisfies the invariant.
LEMMA InitInv == Init => IInv
<1> SUFFICES ASSUME Init PROVE IInv
  OBVIOUS
<1>1. Events = {} /\ evt = 0 /\ DOMAIN log = {}
  BY DEF Init, Events, evt
<1>2. Types
  <2>1. /\ msgOf \in Seq(Nat) /\ fate \in Seq(Fates) /\ log \in Seq(Nat)
        /\ Len(fate) = Len(msgOf)
    BY DEF Init
  <2> QED BY <1>1, <2>1 DEF Init, Types
<1>3. InHand /\ Locked
  BY <1>1 DEF Init, InHand, Locked
<1>4. ArrivedTaken /\ EarlierLost
  BY <1>1 DEF Init, ArrivedTaken, EarlierLost
<1>5. MemoryFinished /\ InboxOrder /\ StoredFinished
  BY <1>1 DEF Init, MemoryFinished, InboxOrder, StoredFinished, Unknown
<1> QED BY <1>2, <1>3, <1>4, <1>5 DEF IInv

-----------------------------------------------------------------------------
(* Steps that leave the events, their fates and the log alone *)

Quiet == UNCHANGED <<next, log, msgOf, fate>>

\* Neither copies nor fates change: the properties of both stay.
LEMMA QuietStep ==
  ASSUME IInv, Quiet
  PROVE  /\ InboxOrder'
         /\ \A m : Finished(m)' <=> Finished(m)
         /\ \A e : Taken(e)' <=> Taken(e)
         /\ Events' = Events /\ evt' = evt
BY DEF Quiet, IInv, InboxOrder, Finished, Taken, Events, evt

\* The lock is taken, an attempt is sent or fails and is followed by another.
LEMMA HandlerQuietStep ==
  ASSUME IInv, HandleKnown \/ Send \/ NoAck \/ Retry \/ (OtherError /\ tries > 1)
  PROVE  IInv'
<1>1. Quiet /\ stored' = stored
  BY DEF IInv, Types, HandleKnown, Send, NoAck, Retry, OtherError, Quiet
<1>2. Events' = Events /\ evt' = evt /\ InboxOrder'
  BY <1>1, QuietStep
<1>7. arrived' = arrived \/ arrived' = FALSE
  BY DEF IInv, Types, HandleKnown, Send, NoAck, Retry, OtherError
<1>3. /\ phase # "idle" /\ phase' \in {"send", "wait", "backoff"}
      /\ lock' = "handler" /\ memory' = next
  BY DEF IInv, Types, Locked, HandleKnown, Send, NoAck, Retry, OtherError
<1>4. evt \in Events
  BY <1>3 DEF IInv, InHand
<1>5. Types'
  <2>1. tries' \in Nat
    BY DEF IInv, Types, HandleKnown, Send, NoAck, Retry, OtherError
  <2>2. arrived' \in BOOLEAN
    BY <1>7 DEF IInv, Types
  <2>3. \A r \in network' : r[1] \in Events
    BY <1>4 DEF IInv, Types, HandleKnown, Send, NoAck, Retry, OtherError
  <2> QED BY <1>1, <1>2, <1>3, <2>1, <2>2, <2>3 DEF IInv, Types, Quiet
<1>6. InHand' /\ EarlierLost' /\ Locked'
  BY <1>1, <1>2, <1>3 DEF IInv, InHand, EarlierLost, Locked, Quiet
<1>8. ArrivedTaken'
  BY <1>7, <1>1, <1>2, <1>3, QuietStep DEF IInv, ArrivedTaken, Quiet
<1>9. MemoryFinished' /\ StoredFinished'
  BY <1>1, <1>2, <1>3, QuietStep DEF IInv, MemoryFinished, StoredFinished, Quiet
<1> QED BY <1>2, <1>5, <1>6, <1>8, <1>9 DEF IInv

\* The loop takes the lock, writes or fails: what it stores was finished.
LEMMA LoopStep ==
  ASSUME IInv, LoopLock \/ LoopWrite \/ LoopFails
  PROVE  IInv'
<1>1. Quiet /\ phase' = phase /\ arrived' = arrived /\ network' = network
  BY DEF LoopLock, LoopWrite, LoopFails, Quiet
<1>2. Events' = Events /\ evt' = evt /\ InboxOrder'
  BY <1>1, QuietStep
<1>3. /\ lock # "handler" /\ lock' # "handler" /\ lock' \in {"free", "loop"}
      /\ memory' = memory \/ (memory = Unknown /\ memory' = 0)
      /\ stored' = stored \/ (stored' = memory /\ memory \notin {Unknown, 0})
  BY DEF LoopLock, LoopWrite, LoopFails
<1>4. Types'
  BY <1>1, <1>2, <1>3 DEF IInv, Types, Quiet, LoopLock, LoopWrite, LoopFails
<1>5. InHand' /\ EarlierLost' /\ Locked'
  BY <1>1, <1>2, <1>3 DEF IInv, InHand, EarlierLost, Locked, Quiet
<1>6. ArrivedTaken'
  BY <1>1, <1>2, QuietStep DEF IInv, ArrivedTaken, Quiet
<1>7. MemoryFinished'
  BY <1>1, <1>3, QuietStep DEF IInv, MemoryFinished
<1>8. StoredFinished'
  <2>1. CASE stored' = stored
    BY <2>1, <1>1, <1>2 DEF IInv, StoredFinished, Quiet
  <2>2. CASE stored' = memory /\ memory \notin {Unknown, 0}
    <3>1. Finished(memory)
      BY <2>2, <1>3 DEF IInv, MemoryFinished
    <3> QED BY <3>1, <2>2, <1>1, <1>2 DEF StoredFinished, Finished, Quiet
  <2> QED BY <2>1, <2>2, <1>3
<1> QED BY <1>2, <1>4, <1>5, <1>6, <1>7, <1>8 DEF IInv

-----------------------------------------------------------------------------
(* Steps of the events, their fates and the log *)

\* A new event joins as the last one.
LEMMA ReceiveStep ==
  ASSUME IInv, Receive
  PROVE  IInv'
<1> USE EventNumbers DEF IInv
<1>1. /\ evt' = evt + 1 /\ Events' = Events \union {evt + 1}
      /\ fate' \in Seq(Fates) /\ Len(fate') = Len(msgOf')
      /\ msgOf' \in Seq(Nat)
      /\ \A e \in Events : msgOf'[e] = msgOf[e] /\ fate'[e] = fate[e]
      /\ msgOf'[evt + 1] = next /\ fate'[evt + 1] = "busy"
  BY DEF Receive, Types, Events, evt, Fates
<1>2. Types'
  BY <1>1 DEF Receive, Types
<1>3. InHand'
  BY <1>1 DEF Receive, InHand
<1>4. Locked'
  BY DEF Receive, Locked
<1>5. ArrivedTaken'
  BY <1>1 DEF Receive, ArrivedTaken, Taken, Types
<1>6. MemoryFinished' /\ StoredFinished'
  <2>1. \A m : Finished(m) => Finished(m)'
    BY <1>1 DEF Finished
  <2>2. UNCHANGED <<lock, memory, stored>>
    BY DEF Receive
  <2>3. MemoryFinished'
    BY <2>1, <2>2 DEF MemoryFinished
  <2>4. StoredFinished'
    BY <2>1, <2>2 DEF StoredFinished, Finished
  <2> QED BY <2>3, <2>4
<1>7. EarlierLost'
  BY <1>1 DEF Receive, EarlierLost, Types
<1>8. InboxOrder'
  BY <1>1 DEF Receive, InboxOrder, Types
<1> QED BY <1>2, <1>3, <1>4, <1>5, <1>6, <1>7, <1>8

\* The handling of the event in hand ends, by an answer, a limit or a crash.
\* `next` moves on, or stays when the event was lost.
LEMMA EndingStep ==
  ASSUME IInv, NEW f \in Fates \ {"busy"},
         phase # "idle", phase' = "idle", lock' # "handler",
         Types', fate' = [fate EXCEPT ![evt] = f],
         UNCHANGED <<msgOf, log, stored>>, arrived' = FALSE,
         next' = next + 1 \/ (next' = next /\ f = "lost"),
         f = "delivered" => Taken(evt),
         memory' \notin {Unknown, 0} =>
           \/ memory' = next /\ f # "lost"
           \/ memory' = memory /\ lock # "handler"
  PROVE  IInv'
<1> USE EventNumbers DEF IInv
<1>1. /\ Events' = Events /\ evt' = evt
      /\ evt \in Events /\ fate[evt] = "busy" /\ msgOf[evt] = next
      /\ fate'[evt] = f
      /\ \A e \in Events : e # evt => fate'[e] = fate[e]
  BY DEF InHand, Events, evt
<1>2. InHand'
  BY <1>1 DEF InHand
<1>3. Locked'
  BY DEF Locked
<1>4. ArrivedTaken'
  BY <1>1 DEF ArrivedTaken, Taken
<1>5. \A m : Finished(m) => Finished(m)'
  BY <1>1 DEF Finished
<1>6. MemoryFinished'
  <2> SUFFICES ASSUME memory' \notin {Unknown, 0} PROVE Finished(memory)'
    BY DEF MemoryFinished
  <2>1. CASE memory' = next /\ f # "lost"
    BY <2>1, <1>1 DEF Finished, Fates
  <2>2. CASE memory' = memory /\ lock # "handler"
    BY <2>2, <1>5 DEF MemoryFinished
  <2> QED BY <2>1, <2>2
<1>7. StoredFinished'
  BY <1>5 DEF StoredFinished, Finished
<1>8. EarlierLost'
  <2>1. \A a \in Events : fate[a] = "lost" => fate'[a] = "lost"
    BY <1>1
  <2>2. \A a, b \in Events : a < b /\ msgOf[a] = msgOf[b] => fate'[a] = "lost"
    BY <2>1 DEF EarlierLost
  <2>3. \A a \in Events : msgOf[a] <= next' /\ (msgOf[a] = next' => fate'[a] = "lost")
    BY <1>1, <2>1 DEF EarlierLost, Types
  <2> QED BY <1>1, <2>2, <2>3 DEF EarlierLost
<1>9. InboxOrder'
  <2> SUFFICES ASSUME NEW i \in DOMAIN log, NEW e \in Events,
                      fate'[e] = "delivered", e < log[i]
               PROVE  \E j \in 1 .. i : log[j] = e
    BY <1>1 DEF InboxOrder
  <2>1. e # evt
    BY EventNumbers DEF Types
  <2> QED BY <2>1, <1>1 DEF InboxOrder
<1> QED BY <1>2, <1>3, <1>4, <1>6, <1>7, <1>8, <1>9

\* updateChannelAndPublish returns, whichever way.
LEMMA FinishStep ==
  ASSUME IInv, HandleUnpublished \/ Acked \/ GiveUp \/ (OtherError /\ ~(tries > 1))
  PROVE  IInv'
<1>1. PICK f \in {"delivered", "failed"} :
        /\ Finish(f) /\ UNCHANGED <<stored, network, log, msgOf>>
        /\ f = "delivered" => phase = "wait" /\ arrived = TRUE
  BY DEF HandleUnpublished, Acked, GiveUp, OtherError, IInv, Types
<1>2. /\ phase # "idle"
      /\ memory' = next \/ (memory' = memory /\ (lock = "handler" \/ memory = Unknown))
  BY DEF HandleUnpublished, Acked, GiveUp, OtherError, IInv, Locked
<1>3. evt \in Events /\ Events' = Events
  BY <1>1, <1>2 DEF IInv, InHand, Events
<1>4. Types'
  <2>1. fate' \in Seq(Fates) /\ Len(fate') = Len(fate)
    BY <1>1, <1>3, EventNumbers DEF Finish, IInv, Types, Fates
  <2>2. next' \in Nat /\ tries' \in Nat /\ phase' = "idle" /\ lock' = "free"
    BY <1>1 DEF Finish, IInv, Types
  <2>3. memory' \in {Unknown} \union Nat /\ stored' \in Nat
    BY <1>1, <1>2 DEF IInv, Types
  <2>4. /\ log' \in Seq(Nat) /\ \A i \in DOMAIN log' : log'[i] \in Events
        /\ \A r \in network' : r[1] \in Events
        /\ msgOf' \in Seq(Nat) /\ Len(fate') = Len(msgOf')
    BY <1>1, <2>1 DEF IInv, Types
  <2>5. arrived' \in BOOLEAN
    BY <1>1 DEF Finish
  <2> QED BY <1>3, <2>1, <2>2, <2>3, <2>4, <2>5 DEF Types
<1>5. f = "delivered" => Taken(evt)
  BY <1>1 DEF IInv, ArrivedTaken
<1>6. memory' \notin {Unknown, 0} => memory' = next
  BY <1>2 DEF IInv, Locked
<1>7. f \in Fates \ {"busy"} /\ f # "lost"
  BY DEF Fates
<1> HIDE DEF Events, evt
<1> QED BY <1>1, <1>2, <1>4, <1>5, <1>6, <1>7, EndingStep DEF Finish

\* A crash loses the event in hand.
LEMMA CrashStep ==
  ASSUME IInv, Crash
  PROVE  IInv'
<1>1. /\ UNCHANGED <<stored, network, log, msgOf>>
      /\ phase' = "idle" /\ lock' = "free" /\ memory' = Unknown /\ arrived' = FALSE
      /\ tries' = 0 /\ next' \in {next, next + 1}
  BY DEF Crash
<1>2. Events' = Events /\ evt' = evt
  BY <1>1 DEF Events, evt
<1>3. CASE phase = "idle"
  <2>1. fate' = fate /\ next' = next
    BY <1>3 DEF Crash
  <2>2. Types'
    BY <1>1, <1>2, <2>1 DEF IInv, Types
  <2>3. InHand' /\ Locked' /\ EarlierLost'
    BY <1>1, <1>2, <1>3, <2>1 DEF IInv, InHand, Locked, EarlierLost
  <2>4. Quiet
    BY <1>1, <2>1 DEF Quiet
  <2>5. ArrivedTaken'
    BY <1>1, <1>2, <2>1, <2>4, QuietStep DEF IInv, ArrivedTaken
  <2>6. MemoryFinished' /\ InboxOrder'
    BY <1>1, <2>4, QuietStep DEF MemoryFinished
  <2>7. StoredFinished'
    BY <1>1, <1>2, <2>1 DEF IInv, StoredFinished
  <2> QED BY <2>2, <2>3, <2>5, <2>6, <2>7 DEF IInv
<1>4. CASE phase # "idle"
  <2>1. fate' = [fate EXCEPT ![evt] = "lost"]
    BY <1>4 DEF Crash
  <2>2. evt \in Events
    BY <1>4 DEF IInv, InHand
  <2>3. fate' \in Seq(Fates) /\ Len(fate') = Len(fate)
    BY <2>1, <2>2, EventNumbers DEF IInv, Types, Fates
  <2>4. Types'
    <3>1. next' \in Nat /\ tries' \in Nat
      BY <1>1 DEF IInv, Types
    <3>2. arrived' \in BOOLEAN
      BY <1>1
    <3>3. /\ log' \in Seq(Nat) /\ \A i \in DOMAIN log' : log'[i] \in Events
          /\ \A r \in network' : r[1] \in Events
          /\ msgOf' \in Seq(Nat) /\ Len(fate') = Len(msgOf') /\ stored' \in Nat
      BY <1>1, <2>3 DEF IInv, Types
    <3> QED BY <1>1, <1>2, <2>3, <3>1, <3>2, <3>3 DEF Types
  <2>5. "lost" \in Fates \ {"busy"}
    BY DEF Fates
  <2> QED BY <1>1, <1>4, <2>1, <2>4, <2>5, EndingStep
<1> QED BY <1>3, <1>4

\* The writer takes a copy: what is delivered by then left one before.
LEMMA TakeStep ==
  ASSUME IInv, NEW r \in network, Take(r)
  PROVE  IInv'
<1> USE EventNumbers DEF IInv
<1>1. /\ log' = Append(log, r[1]) /\ r[1] \in Events
      /\ UNCHANGED <<next, phase, tries, lock, memory, stored, msgOf, fate>>
      /\ Events' = Events /\ evt' = evt
  BY DEF Take, Types, Events, evt
<1>2. /\ log' \in Seq(Nat) /\ DOMAIN log' = DOMAIN log \union {Len(log) + 1}
      /\ \A i \in DOMAIN log : log'[i] = log[i]
      /\ log'[Len(log) + 1] = r[1]
  BY <1>1 DEF Types
<1>3. arrived' \in BOOLEAN /\ (arrived' = TRUE => arrived = TRUE \/ (phase = "wait" /\ r[1] = evt))
  BY DEF Take, Types
<1>4. Types'
  BY <1>1, <1>2, <1>3 DEF Take, Types
<1>5. InHand' /\ Locked' /\ EarlierLost' /\ MemoryFinished' /\ StoredFinished'
  BY <1>1 DEF InHand, Locked, EarlierLost, MemoryFinished, StoredFinished, Finished
<1>6. \A e : Taken(e) => Taken(e)'
  BY <1>2 DEF Taken
<1>7. Taken(r[1])'
  BY <1>2 DEF Taken
<1>8. ArrivedTaken'
  BY <1>1, <1>3, <1>6, <1>7 DEF ArrivedTaken
<1>9. InboxOrder'
  <2> SUFFICES ASSUME NEW i \in DOMAIN log', NEW e \in Events,
                      fate[e] = "delivered", e < log'[i]
               PROVE  \E j \in 1 .. i : log'[j] = e
    BY <1>1 DEF InboxOrder
  <2>1. CASE i \in DOMAIN log
    BY <2>1, <1>2 DEF InboxOrder
  <2>2. CASE i = Len(log) + 1
    <3>1. PICK j \in DOMAIN log : log[j] = e
      BY DEF ArrivedTaken, Taken
    <3> QED BY <3>1, <2>2, <1>2
  <2> QED BY <2>1, <2>2, <1>2
<1> QED BY <1>4, <1>5, <1>8, <1>9

-----------------------------------------------------------------------------
(* The results *)

\* Every step keeps the invariant.
LEMMA InvStep == IInv /\ [Next]_vars => IInv'
<1> SUFFICES ASSUME IInv, [Next]_vars PROVE IInv'
  OBVIOUS
<1>1. CASE Receive
  BY <1>1, ReceiveStep
<1>2. CASE HandleUnpublished \/ Acked \/ GiveUp
  BY <1>2, FinishStep
<1>3. CASE HandleKnown \/ Send \/ NoAck \/ Retry
  BY <1>3, HandlerQuietStep
<1>4. CASE OtherError
  BY <1>4, FinishStep, HandlerQuietStep
<1>5. CASE LoopLock \/ LoopWrite \/ LoopFails
  BY <1>5, LoopStep
<1>6. ASSUME NEW r \in network, Take(r) PROVE IInv'
  BY <1>6, TakeStep
<1>7. CASE Crash
  BY <1>7, CrashStep
<1>8. CASE UNCHANGED vars
  <2>1. Quiet
    BY <1>8 DEF vars, Quiet
  <2>2. Events' = Events /\ evt' = evt
    BY <2>1, QuietStep
  <2>3. Types' /\ InHand' /\ Locked' /\ EarlierLost' /\ StoredFinished'
    BY <1>8, <2>2 DEF vars, IInv, Types, InHand, Locked, EarlierLost, StoredFinished
  <2>4. ArrivedTaken' /\ MemoryFinished' /\ InboxOrder'
    BY <1>8, <2>1, <2>2, QuietStep DEF vars, IInv, ArrivedTaken, MemoryFinished
  <2> QED BY <2>3, <2>4 DEF IInv
<1> QED BY <1>1, <1>2, <1>3, <1>4, <1>5, <1>6, <1>7, <1>8 DEF Next

\* The invariant holds throughout.
LEMMA Invariant == Spec => []IInv
BY InitInv, InvStep, PTL DEF Spec

\* The bounds of the counters: the handler has a message in hand while it is at
\* work, and sends while there are attempts left.
Bounds ==
  /\ next >= 1 /\ next <= LastMsg + 1
  /\ phase # "idle" => next <= LastMsg
  /\ tries <= MaxAttempts
  /\ phase \in {"idle", "lock"} => tries = 0
  /\ phase = "send" => tries < MaxAttempts
  /\ \A r \in network : r \in Events \X (1 .. MaxAttempts)
  /\ crashes \in 0 .. MaxCrashes

\* Numbers of events stay numbers of events.
LEMMA EventsStay ==
  ASSUME IInv, IInv', [Next]_vars
  PROVE  Events \subseteq Events'
<1>1. msgOf' = msgOf \/ msgOf' = Append(msgOf, next)
  BY DEF Next, Receive, HandleUnpublished, HandleKnown, Send, Acked, NoAck, OtherError,
         Retry, GiveUp, LoopLock, LoopWrite, LoopFails, Take, Crash, vars
<1>2. msgOf \in Seq(Nat) /\ next \in Nat
  BY DEF IInv, Types
<1> QED BY <1>1, <1>2 DEF Events

LEMMA BoundsStep ==
  ASSUME IInv, IInv', Bounds, [Next]_vars
  PROVE  Bounds'
<1> USE NumbersAreNat, RetryTriesAtOnce DEF Bounds
<1>1. /\ next \in Nat /\ tries \in Nat /\ crashes \in Nat
      /\ phase \in {"idle", "lock", "send", "wait", "backoff"}
      /\ Events \subseteq Events'
  BY EventsStay DEF IInv, Types
<1>2. CASE Receive
  BY <1>1, <1>2 DEF Receive
<1>3. CASE \/ HandleUnpublished \/ Acked \/ GiveUp \/ (OtherError /\ ~(tries > 1))
  <2>1. /\ phase # "idle" /\ phase' = "idle" /\ tries' = 0 /\ next' = next + 1
        /\ UNCHANGED <<network, crashes>>
    BY <1>3 DEF HandleUnpublished, Acked, GiveUp, OtherError, Finish
  <2> QED BY <1>1, <2>1
<1>4. CASE Send
  <2>1. phase = "send" /\ evt \in Events
    BY <1>4 DEF Send, IInv, InHand
  <2>2. <<evt, tries + 1>> \in Events' \X (1 .. MaxAttempts)
    BY <1>1, <2>1
  <2>3. \A r \in network' : r \in Events' \X (1 .. MaxAttempts)
    BY <1>1, <1>4, <2>2 DEF Send
  <2> QED BY <1>1, <1>4, <2>1, <2>3 DEF Send
<1>5. CASE HandleKnown \/ NoAck \/ Retry \/ (OtherError /\ tries > 1)
  <2>1. UNCHANGED <<next, tries, network, crashes>> /\ phase # "idle"
    BY <1>5 DEF HandleKnown, NoAck, Retry, OtherError
  <2>2. phase' = "send" => tries < MaxAttempts
    BY <1>1, <1>5 DEF HandleKnown, NoAck, Retry, OtherError
  <2>3. phase' \in {"send", "backoff"}
    BY <1>5 DEF HandleKnown, NoAck, Retry, OtherError
  <2> QED BY <1>1, <2>1, <2>2, <2>3
<1>6. CASE LoopLock \/ LoopWrite \/ LoopFails \/ UNCHANGED vars
  <2>1. UNCHANGED <<next, phase, tries, network, crashes>>
    BY <1>6 DEF LoopLock, LoopWrite, LoopFails, vars
  <2> QED BY <1>1, <2>1
<1>7. ASSUME NEW r \in network, Take(r) PROVE Bounds'
  BY <1>1, <1>7 DEF Take
<1>8. CASE Crash
  <2>1. /\ phase' = "idle" /\ tries' = 0 /\ network' = network /\ crashes' \in 0 .. MaxCrashes
        /\ next' = next \/ (next' = next + 1 /\ phase # "idle")
    BY <1>1, <1>8 DEF Crash
  <2> QED BY <1>1, <2>1
<1> QED BY <1>2, <1>3, <1>4, <1>5, <1>6, <1>7, <1>8 DEF Next

\* Type correctness: attempts, copies and requests under way stay within their
\* bounds for any number of messages, crashes and late requests.
THEOREM TypeCorrect == Spec => []TypeOK
<1>1. Init => Bounds
  BY NumbersAreNat, RetryTriesAtOnce DEF Init, Bounds
<1>2. IInv /\ IInv' /\ Bounds /\ [Next]_vars => Bounds'
  BY BoundsStep
<1>3. IInv /\ Bounds => TypeOK
  <2> SUFFICES ASSUME IInv, Bounds PROVE TypeOK
    OBVIOUS
  <2>1. log \in Seq(Events)
    BY DEF IInv, Types
  <2>2. next \in 1 .. LastMsg + 1 /\ tries \in 0 .. MaxAttempts
    BY NumbersAreNat DEF IInv, Types, Bounds
  <2>3. network \subseteq Events \X (1 .. MaxAttempts)
    BY DEF Bounds
  <2> QED BY <2>1, <2>2, <2>3 DEF IInv, Types, Bounds, TypeOK
<1>4. Spec => Init /\ [][Next]_vars
  BY DEF Spec
<1> QED BY <1>1, <1>2, <1>3, <1>4, Invariant, PTL

\* A delivered event's first copy comes before all copies of later events,
\* however late requests arrive, for any number of attempts and crashes.
THEOREM CopiesInOrder == Spec => []InboxOrder
<1>1. IInv => InboxOrder
  BY DEF IInv
<1> QED BY <1>1, Invariant, PTL

\* The store's date claims only messages whose handling ended, for any number
\* of messages, attempts and crashes.
THEOREM StoreClaimsFinished == Spec => []StoredFinished
<1>1. IInv => StoredFinished
  BY DEF IInv
<1> QED BY <1>1, Invariant, PTL

\* Repetitions have one id unless a crash came between.
THEOREM OneIdPerMessage == Spec => []RepeatsHaveOneId
<1>1. IInv => RepeatsHaveOneId
  BY EventNumbers DEF IInv, RepeatsHaveOneId, EarlierLost, Types
<1> QED BY <1>1, Invariant, PTL

-----------------------------------------------------------------------------
(* Refinement *)

\* The fates as EventDelivery tells them.
Told == [e \in Events |->
           IF fate[e] \in {"busy", "delivered"} THEN fate[e] ELSE "over"]

\* The end of the handling of the event in hand is told as its end.
LEMMA ToldEnding ==
  ASSUME IInv, phase # "idle", NEW f \in Fates, UNCHANGED <<msgOf, log>>,
         fate' = [fate EXCEPT ![evt] = f], f # "busy", f = "delivered" => Taken(evt)
  PROVE  Delivery!Next
<1> USE EventNumbers DEF IInv
<1>1. evt \in Events /\ fate[evt] = "busy" /\ Events' = Events
  BY DEF InHand, Events
<1>0. PICK e \in Events : e = evt
  BY <1>1
<1>2. DOMAIN Told = Events /\ Told[evt] = "busy"
  BY <1>1 DEF Told
<1>3. Told' = [Told EXCEPT ![evt] = IF f = "delivered" THEN f ELSE "over"]
  BY <1>1 DEF Told, Types
<1>4. CASE f = "delivered"
  <2>1. Told' = [Told EXCEPT ![evt] = "delivered"]
    BY <1>3, <1>4
  <2>2. \E i \in DOMAIN log : log[i] = evt
    BY <1>4 DEF Taken
  <2>3. evt \in DOMAIN Told /\ log' = log
    BY <1>1, <1>2
  <2>4. Delivery!Deliver(e)
    BY <1>0, <1>2, <2>1, <2>2, <2>3 DEF Delivery!Deliver, Delivery!Busy, Told
  <2> QED BY <2>4 DEF Delivery!Next
<1>5. CASE f # "delivered"
  <2>1. Told' = [Told EXCEPT ![evt] = "over"]
    BY <1>3, <1>5
  <2>2. evt \in DOMAIN Told /\ log' = log
    BY <1>1, <1>2
  <2>3. Delivery!GiveUp(e)
    BY <1>0, <1>2, <2>1, <2>2 DEF Delivery!GiveUp, Delivery!Busy, Told
  <2> QED BY <2>3 DEF Delivery!Next
<1> QED BY <1>4, <1>5

\* A new event begins when none is busy.
LEMMA ToldBeginning ==
  ASSUME IInv, Receive
  PROVE  Delivery!Begin
<1> USE EventNumbers DEF IInv
<1>1. /\ Events = 1 .. evt /\ Events' = 1 .. (evt + 1) /\ evt \in Nat
      /\ \A e \in Events : fate'[e] = fate[e] /\ fate[e] # "busy"
      /\ fate'[evt + 1] = "busy"
  BY DEF Receive, Types, InHand, Events, evt
<1>2. Told \in Seq({"busy", "delivered", "over"}) /\ Len(Told) = evt
  BY <1>1 DEF Told
<1>3. Told' = Append(Told, "busy")
  BY <1>1, <1>2 DEF Told
<1>4. \A e \in DOMAIN Told : Told[e] # "busy"
  BY <1>1 DEF Told
<1> QED BY <1>3, <1>4 DEF Receive, Delivery!Begin, Delivery!Busy, Told

\* Every step is a step of EventDelivery or changes nothing it sees.
LEMMA DeliveryStep ==
  ASSUME IInv, [Next]_vars
  PROVE  Delivery!Next \/ UNCHANGED <<Told, log>>
<1>1. CASE Receive
  BY <1>1, ToldBeginning DEF Delivery!Next
<1>2. CASE HandleUnpublished \/ GiveUp \/ Acked \/ (OtherError /\ ~(tries > 1))
  <2>1. PICK f \in {"delivered", "failed"} :
          /\ fate' = [fate EXCEPT ![evt] = f] /\ UNCHANGED <<log, msgOf>>
          /\ f = "delivered" => arrived = TRUE
    BY <1>2 DEF HandleUnpublished, Acked, GiveUp, OtherError, Finish, IInv, Types
  <2>2. phase # "idle"
    BY <1>2 DEF HandleUnpublished, Acked, GiveUp, OtherError
  <2>3. f = "delivered" => Taken(evt)
    BY <2>1 DEF IInv, ArrivedTaken
  <2>4. f \in Fates /\ f # "busy"
    BY DEF Fates
  <2> QED BY <2>1, <2>2, <2>3, <2>4, ToldEnding
<1>3. ASSUME NEW r \in network, Take(r) PROVE Delivery!Next
  <2>1. r[1] \in Events
    BY DEF IInv, Types
  <2>2. Delivery!Take(r[1])
    BY <1>3, <2>1 DEF Take, Delivery!Take, Events
  <2> QED BY <2>1, <2>2 DEF Delivery!Next
<1>4. CASE Crash /\ phase # "idle"
  BY <1>4, ToldEnding DEF Crash, Fates
<1>5. CASE \/ Crash /\ phase = "idle"
           \/ HandleKnown \/ Send \/ NoAck \/ Retry \/ (OtherError /\ tries > 1)
           \/ LoopLock \/ LoopWrite \/ LoopFails \/ UNCHANGED vars
  <2>1. UNCHANGED <<fate, msgOf, log>>
    BY <1>5 DEF Crash, HandleKnown, Send, NoAck, Retry, OtherError, LoopLock,
                LoopWrite, LoopFails, vars
  <2> QED BY <2>1 DEF Told, Events
<1> QED BY <1>1, <1>2, <1>3, <1>4, <1>5 DEF Next

\* Publishing implements EventDelivery: whatever the writer answers and
\* whenever requests arrive, events come one after the other and what is
\* called delivered was taken.
THEOREM AtLeastOnce == Spec => DeliversEvents
<1>1. Init => Delivery!Init
  BY DEF Init, Delivery!Init, Events
<1>2. IInv /\ [Next]_vars => [Delivery!Next]_<<Told, log>>
  BY DeliveryStep
<1>3. Spec => Init /\ [][Next]_vars
  BY DEF Spec
<1> QED BY <1>1, <1>2, <1>3, Invariant, PTL DEF DeliversEvents, Delivery!Spec, Told
=============================================================================
