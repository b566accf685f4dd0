------------------------------ MODULE Interests ------------------------------
(***************************************************************************)
(* The consumers of the interests-created and interests-updated queues     *)
(* (main.consumeQueue, queue.ReceiveMessages) and what they do with an     *)
(* event (service.HandleInterestChange): a public interest gets a Telegram *)
(* channel with a name made from its id, the bot becomes an administrator  *)
(* there and the interest is started in it.                                *)
(*                                                                         *)
(* The two consumers run at once and know nothing of each other; what they *)
(* share is Telegram.  Every step is one request that may fail.  The error *)
(* of an event is dropped and its batch acknowledged all the same; an      *)
(* event that was not acknowledged when the process or the stream ended is *)
(* delivered again.                                                        *)
(***************************************************************************)
EXTENDS Integers, Sequences, FiniteSets

CONSTANTS
  Consumers,  \* one per queue
  Events,     \* the events in the queues
  Backlog,    \* for each consumer, its queue's events in order
  Interests,  \* interest ids
  InterestOf, \* the interest an event is about
  Public,     \* the events of a group that have the public flag
  Names,      \* public channel names
  NameOf,     \* the name made from an interest's id
  BatchSize,  \* the most events of one response
  Faults,     \* the kinds of failure that may happen
  MaxChats,   \* bound: channels created
  MaxCrashes  \* bound: restarts of the process

ASSUME BacklogIsQueues == Backlog \in [Consumers -> Seq(Events)]
ASSUME EventsHaveInterests == InterestOf \in [Events -> Interests]
ASSUME InterestsHaveNames == NameOf \in [Interests -> Names]
ASSUME BatchIsPositive == BatchSize \in Nat \ {0}
ASSUME FinitelyMany == IsFiniteSet(Consumers) /\ IsFiniteSet(Names)

VARIABLES
  queue,   \* for each consumer, the events not acknowledged
  worker,  \* for each consumer, where it is
  chats,   \* the channels created at Telegram
  handled, \* history: events whose handling came to an end
  crashes  \* number of restarts

vars == <<queue, worker, chats, handled, crashes>>

NoChat == 0
NoName == "none"

ASSUME NoNameIsNone == NoName \notin Names
ASSUME ChatsAreBounded == MaxChats \in Nat

Steps == {"receive", "each", "search", "create", "username", "logo", "admin",
          "start", "ack"}

\* `batch` events were received, `done` of them are handled.
Worker == [step: Steps, batch: Nat, done: Nat, chat: Nat, err: BOOLEAN]

\* A channel; its id is its place in `chats`.
Chat == [name: Names \union {NoName}, bot: BOOLEAN, started: SUBSET Interests]

NewChat == [name |-> NoName, bot |-> FALSE, started |-> {}]

Waiting == [step |-> "receive", batch |-> 0, done |-> 0, chat |-> NoChat,
            err |-> FALSE]

Init ==
  /\ queue = Backlog
  /\ worker = [c \in Consumers |-> Waiting]
  /\ chats = <<>> /\ handled = {} /\ crashes = 0

At(c, step) == worker[c].step = step
Event(c) == queue[c][worker[c].done + 1]
Name(c)  == NameOf[InterestOf[Event(c)]]
Goto(c, step) == worker' = [worker EXCEPT ![c].step = step]

\* Seeded fault: the loop over the batch ends one event early.
FinishEventEarly(c) ==
  /\ handled' = handled \union {Event(c)}
  /\ LET w == worker[c] IN
       worker' = [worker EXCEPT ![c] =
         [w EXCEPT !.step = IF w.done + 2 >= w.batch THEN "ack" ELSE "each",
                   !.done = w.done + 1, !.chat = NoChat, !.err = FALSE]]

\* Seeded fault: the loop over the batch runs past its end.
FinishEventLate(c) ==
  /\ handled' = handled \union {Event(c)}
  /\ LET w == worker[c] IN
       worker' = [worker EXCEPT ![c] =
         [w EXCEPT !.step = IF w.done = w.batch THEN "ack" ELSE "each",
                   !.done = w.done + 1, !.chat = NoChat, !.err = FALSE]]

\* The event is done with, well or not: the error goes no further.
FinishEvent(c) ==
  /\ handled' = handled \union {Event(c)}
  /\ LET w == worker[c] IN
       worker' = [worker EXCEPT ![c] =
         [w EXCEPT !.step = IF w.done + 1 = w.batch THEN "ack" ELSE "each",
                   !.done = w.done + 1, !.chat = NoChat, !.err = FALSE]]

NameTaken(n) == \E id \in DOMAIN chats : chats[id].name = n

-----------------------------------------------------------------------------

\* Recv: the first events of the queue, at least one.
Receive(c) ==
  /\ At(c, "receive")
  /\ \E n \in 1 .. BatchSize :
       /\ n <= Len(queue[c])
       /\ worker' = [worker EXCEPT ![c].step = "each", ![c].batch = n]
  /\ UNCHANGED <<queue, chats, handled, crashes>>

\* HandleInterestChange: no group or no public flag, nothing to do.
Skip(c) ==
  /\ At(c, "each") /\ Event(c) \notin Public
  /\ FinishEvent(c)
  /\ UNCHANGED <<queue, chats, crashes>>

HandlePublic(c) ==
  /\ At(c, "each") /\ Event(c) \in Public
  /\ Goto(c, "search")
  /\ UNCHANGED <<queue, chats, handled, crashes>>

\* Seeded fault: no search, every event creates a channel.
FoundNever(c) ==
  /\ At(c, "search")
  /\ Goto(c, "create")
  /\ UNCHANGED <<queue, chats, handled, crashes>>

\* getPublicChan.  A search that fails is taken for a channel that is missing.
Found(c) ==
  /\ At(c, "search")
  /\ \E id \in DOMAIN chats :
       /\ chats[id].name = Name(c)
       /\ worker' = [worker EXCEPT ![c].step = "admin", ![c].chat = id]
  /\ UNCHANGED <<queue, chats, handled, crashes>>

Missing(c) ==
  /\ At(c, "search")
  /\ \/ ~NameTaken(Name(c))
     \/ "search" \in Faults
  /\ Goto(c, "create")
  /\ UNCHANGED <<queue, chats, handled, crashes>>

\* createChan: a channel without a name.
CreateChan(c) ==
  /\ At(c, "create") /\ Len(chats) < MaxChats
  /\ chats' = Append(chats, NewChat)
  /\ worker' = [worker EXCEPT ![c].step = "username", ![c].chat = Len(chats) + 1]
  /\ UNCHANGED <<queue, handled, crashes>>

\* An error ends the event, although the channel may be there.
CreateChanFails(c) ==
  /\ At(c, "create") /\ "create" \in Faults
  /\ \/ UNCHANGED chats
     \/ Len(chats) < MaxChats /\ chats' = Append(chats, NewChat)
  /\ FinishEvent(c)
  /\ UNCHANGED <<queue, crashes>>

GiveName(c) == chats' = [chats EXCEPT ![worker[c].chat].name = Name(c)]

\* setChanPublic: Telegram gives a name to one channel only.
SetChanPublic(c) ==
  /\ At(c, "username")
  /\ ~NameTaken(Name(c))
  /\ GiveName(c)
  /\ Goto(c, "logo")
  /\ UNCHANGED <<queue, handled, crashes>>

\* Seeded fault: the error of setChanPublic is not looked at.
SetChanPublicUnchecked(c) ==
  /\ At(c, "username")
  /\ NameTaken(Name(c)) \/ "username" \in Faults
  /\ Goto(c, "logo")
  /\ UNCHANGED <<queue, chats, handled, crashes>>

\* The name is taken, or the request fails, and may have had its effect.
SetChanPublicFails(c) ==
  /\ At(c, "username")
  /\ \/ NameTaken(Name(c)) /\ UNCHANGED chats
     \/ /\ "username" \in Faults
        /\ \/ UNCHANGED chats
           \/ ~NameTaken(Name(c)) /\ GiveName(c)
  /\ worker' = [worker EXCEPT ![c].step = "logo", ![c].err = TRUE]
  /\ UNCHANGED <<queue, handled, crashes>>

\* Seeded fault: with the name and the logo set, the event is done with.
SetChanLogoLast(c) ==
  /\ At(c, "logo")
  /\ FinishEvent(c)
  /\ UNCHANGED <<queue, chats, crashes>>

\* setChanLogo runs even after setChanPublic failed; either error ends the
\* event.
SetChanLogo(c) ==
  /\ At(c, "logo")
  /\ \/ ~worker[c].err /\ Goto(c, "admin") /\ UNCHANGED handled
     \/ (worker[c].err \/ "logo" \in Faults) /\ FinishEvent(c)
  /\ UNCHANGED <<queue, chats, crashes>>

\* setChanAdminBot; its error does not keep the interest from being started.
SetChanAdminBot(c) ==
  /\ At(c, "admin")
  /\ chats' = [chats EXCEPT ![worker[c].chat].bot = TRUE]
  /\ Goto(c, "start")
  /\ UNCHANGED <<queue, handled, crashes>>

\* With its effect it is SetChanAdminBot, as nothing looks at the error.
SetChanAdminBotFails(c) ==
  /\ At(c, "admin") /\ "admin" \in Faults
  /\ Goto(c, "start")
  /\ UNCHANGED <<queue, chats, handled, crashes>>

\* subscribeChan: "/start <interest>" in the channel.
SubscribeChan(c) ==
  /\ At(c, "start")
  /\ chats' = [chats EXCEPT ![worker[c].chat].started =
                 @ \union {InterestOf[Event(c)]}]
  /\ FinishEvent(c)
  /\ UNCHANGED <<queue, crashes>>

\* With its effect it is SubscribeChan, for the same reason.
SubscribeChanFails(c) ==
  /\ At(c, "start") /\ "start" \in Faults
  /\ FinishEvent(c)
  /\ UNCHANGED <<queue, chats, crashes>>

\* Seeded fault: the count of the acknowledgement is one too small.
AckShort(c) ==
  /\ At(c, "ack")
  /\ queue' = [queue EXCEPT ![c] =
                 SubSeq(queue[c], worker[c].batch, Len(queue[c]))]
  /\ worker' = [worker EXCEPT ![c] = Waiting]
  /\ UNCHANGED <<chats, handled, crashes>>

\* The whole batch is acknowledged, whatever became of its events.
Ack(c) ==
  /\ At(c, "ack")
  /\ queue' = [queue EXCEPT ![c] =
                 SubSeq(queue[c], worker[c].batch + 1, Len(queue[c]))]
  /\ worker' = [worker EXCEPT ![c] = Waiting]
  /\ UNCHANGED <<chats, handled, crashes>>

\* The stream ends with the acknowledgement on its way; the next stream gets
\* the batch again.
AckLost(c) ==
  /\ At(c, "ack") /\ "ack" \in Faults
  /\ worker' = [worker EXCEPT ![c] = Waiting]
  /\ UNCHANGED <<queue, chats, handled, crashes>>

\* A crash, or an error of either stream, which panics and takes the other
\* consumer along.
Crash ==
  /\ crashes < MaxCrashes
  /\ crashes' = crashes + 1
  /\ worker' = [c \in Consumers |-> Waiting]
  /\ UNCHANGED <<queue, chats, handled>>

-----------------------------------------------------------------------------

Step(c) ==
  \/ Receive(c) \/ Skip(c) \/ HandlePublic(c)
  \/ Found(c) \/ Missing(c)
  \/ CreateChan(c) \/ CreateChanFails(c)
  \/ SetChanPublic(c) \/ SetChanPublicFails(c)
  \/ SetChanLogo(c)
  \/ SetChanAdminBot(c) \/ SetChanAdminBotFails(c)
  \/ SubscribeChan(c) \/ SubscribeChanFails(c)
  \/ Ack(c) \/ AckLost(c)

Next == Crash \/ \E c \in Consumers : Step(c)

Spec == Init /\ [][Next]_vars

\* Each consumer is a goroutine that runs; an acknowledgement gets through
\* once in a while.
Fairness ==
  \A c \in Consumers : WF_vars(Step(c)) /\ SF_vars(Ack(c))

FairSpec == Spec /\ Fairness

-----------------------------------------------------------------------------
(* Properties.                                                             *)

\* The type of every variable.
TypeOK ==
  /\ queue \in [Consumers -> Seq(Events)]
  /\ worker \in [Consumers -> Worker]
  /\ chats \in Seq(Chat)
  /\ handled \subseteq Events
  /\ crashes \in Nat
  /\ \A c \in Consumers :
       /\ worker[c].batch <= Len(queue[c])
       /\ worker[c].step \notin {"receive", "ack"} =>
            worker[c].done < worker[c].batch
       /\ worker[c].step \in {"username", "logo", "admin", "start"} =>
            worker[c].chat \in DOMAIN chats

\* At least once: an event leaves its queue only after the consumer has come to
\* the end of it, although the acknowledgement is for a number of events and
\* not for any in particular, and a restart or the end of the stream delivers
\* a batch again (ReceiveMessages, consumeQueue).
AckedHandled ==
  \A c \in Consumers : \A k \in DOMAIN Backlog[c] :
    \/ Backlog[c][k] \in handled
    \/ \E j \in DOMAIN queue[c] : queue[c][j] = Backlog[c][k]

\* What the channels tell of names and interests.
OwnerIn(ch) ==
  [n \in Names |->
     IF \E id \in DOMAIN ch : ch[id].name = n
     THEN CHOOSE id \in DOMAIN ch : ch[id].name = n
     ELSE NoChat]

StartedIn(ch) == {p \in Interests \X DOMAIN ch : p[1] \in ch[p[2]].started}

\* The promise of the consumers: a name is never moved and an interest is
\* started in the channel of its name only, although both consumers may find
\* the channel missing at once and events are delivered again.
Registry ==
  INSTANCE InterestRegistry WITH
    Chats <- 1 .. MaxChats,
    owner <- OwnerIn(chats),
    started <- StartedIn(chats)

ImplementsRegistry == Registry!Spec

\* When no request fails, channels without a name stay few: two consumers that
\* miss the same channel create one each, and a restart may leave one per
\* consumer behind.
FewOrphans ==
  Faults = {} =>
    Len(chats) <= Cardinality(Consumers) * (Cardinality(Names) + crashes)

\* Every event is handled and acknowledged in the end, whatever fails: an
\* event that cannot be handled does not block the ones behind it.
QueuesDrain == <>[](\A c \in Consumers : queue[c] = <<>>)

\* The channel with the name has the bot and an interest of that name.
Served(n) ==
  \E id \in DOMAIN chats :
    /\ chats[id].name = n /\ chats[id].bot
    /\ \E i \in chats[id].started : NameOf[i] = n

\* When no request fails, every name of a public interest becomes a channel
\* where the bot is an administrator and the interest is started, although a
\* restart may come between any two requests and the consumers may race for
\* the name (handlePublicInterestChange).  Two interests whose names are cut to
\* the same one and that race may leave one of them not started.
PublicServed ==
  \A n \in {NameOf[InterestOf[e]] : e \in Public} : []<>Served(n)
=============================================================================
