-------------------------- MODULE InterestsProofs --------------------------
(***************************************************************************)
(* The interest consumers, for any number of queues, events and failures:  *)
(* nothing is acknowledged unhandled, and they implement the registry.     *)
(***************************************************************************)
EXTENDS Interests, SequenceTheorems, FiniteSetTheorems, TLAPS

-----------------------------------------------------------------------------
(* The inductive invariant *)

Typed ==
  /\ queue \in [Consumers -> Seq(Events)]
  /\ worker \in [Consumers -> Worker]
  /\ chats \in Seq(Chat)
  /\ handled \subseteq Events
  /\ crashes \in Nat

\* How far a consumer is in its batch, and what it knows of the channel it is
\* at: a channel it just created has no name, and where it starts an interest
\* has the interest's name.
Place(c) ==
  /\ worker[c].batch <= Len(queue[c])
  /\ worker[c].step = "receive" => worker[c].done = 0
  /\ worker[c].step = "ack" => worker[c].done = worker[c].batch
  /\ worker[c].step \notin {"receive", "ack"} => worker[c].done < worker[c].batch
  /\ worker[c].step \in {"username", "logo", "admin", "start"} =>
       worker[c].chat \in 1 .. Len(chats)
  /\ worker[c].step = "username" => chats[worker[c].chat].name = NoName
  /\ worker[c].step \in {"admin", "start"}
       \/ (worker[c].step = "logo" /\ worker[c].err = FALSE) =>
         chats[worker[c].chat].name = Name(c)

\* Two consumers never name one channel.
Apart ==
  \A c, d \in Consumers :
    At(c, "username") /\ At(d, "username") /\ worker[c].chat = worker[d].chat => c = d

UniqueNames ==
  \A x, y \in 1 .. Len(chats) :
    chats[x].name = chats[y].name /\ chats[x].name # NoName => x = y

\* The queue is what is left of the backlog; what is gone from it, and what
\* the batch at hand is past, is handled.
Gone(c) == Len(Backlog[c]) - Len(queue[c])

Accounted(c) ==
  /\ Len(queue[c]) <= Len(Backlog[c])
  /\ \A j \in 1 .. Len(queue[c]) : queue[c][j] = Backlog[c][Gone(c) + j]
  /\ \A k \in 1 .. Gone(c) + worker[c].done : Backlog[c][k] \in handled

IInv ==
  /\ Typed
  /\ Len(chats) <= MaxChats
  /\ \A c \in Consumers : Place(c) /\ Accounted(c)
  /\ Apart /\ UniqueNames

LEMMA InitInv == Init => IInv
<1> SUFFICES ASSUME Init PROVE IInv
  OBVIOUS
<1>1. Waiting \in Worker /\ Waiting.step = "receive" /\ Waiting.done = 0 /\ Waiting.batch = 0
  BY DEF Waiting, Worker, Steps, NoChat
<1>2. \A c \in Consumers : worker[c] = Waiting
  BY DEF Init
<1>3. chats = <<>> /\ Len(chats) = 0 /\ chats \in Seq(Chat)
  BY DEF Init
<1>4. Typed
  BY <1>1, <1>3, BacklogIsQueues DEF Init, Typed
<1>5. ASSUME NEW c \in Consumers PROVE Place(c) /\ Accounted(c)
  <2>1. queue[c] = Backlog[c] /\ Len(Backlog[c]) \in Nat
    BY BacklogIsQueues DEF Init
  <2>2. Place(c)
    BY <1>1, <1>2, <2>1 DEF Place
  <2>3. Accounted(c)
    BY <1>1, <1>2, <2>1 DEF Accounted, Gone
  <2> QED BY <2>2, <2>3
<1>6. Apart /\ UniqueNames
  BY <1>1, <1>2, <1>3 DEF Apart, UniqueNames, At
<1> QED BY <1>3, <1>4, <1>5, <1>6, ChatsAreBounded DEF IInv

-----------------------------------------------------------------------------
(* Steps of a consumer *)

\* The event at hand is one of the queue's.
LEMMA EventTyped ==
  ASSUME IInv, NEW c \in Consumers, worker[c].step \notin {"receive", "ack"}
  PROVE  /\ worker[c].done \in Nat /\ worker[c].batch \in Nat
         /\ worker[c].done + 1 \in 1 .. Len(queue[c])
         /\ Event(c) \in Events /\ Name(c) \in Names
         /\ Event(c) = Backlog[c][Gone(c) + worker[c].done + 1]
<1>1. worker[c] \in Worker /\ queue[c] \in Seq(Events) /\ Place(c) /\ Accounted(c)
  BY DEF IInv, Typed
<1>2. /\ worker[c].done \in Nat /\ worker[c].batch \in Nat /\ Len(queue[c]) \in Nat
      /\ worker[c].done < worker[c].batch /\ worker[c].batch <= Len(queue[c])
  BY <1>1 DEF Worker, Place
<1>3. worker[c].done + 1 \in 1 .. Len(queue[c])
  BY <1>2
<1>4. Event(c) \in Events
  BY <1>1, <1>3, ElementOfSeq DEF Event
<1>5. Event(c) = Backlog[c][Gone(c) + (worker[c].done + 1)]
  BY <1>1, <1>3 DEF Accounted, Event
<1>6. Gone(c) + (worker[c].done + 1) = Gone(c) + worker[c].done + 1
  BY <1>2, BacklogIsQueues DEF Gone
<1> QED BY <1>2, <1>3, <1>4, <1>5, <1>6, EventsHaveInterests, InterestsHaveNames DEF Name

\* What a consumer may do to the channels: names go only where it is naming.
ChatsGrow(c) ==
  /\ chats' \in Seq(Chat) /\ Len(chats) <= Len(chats') /\ Len(chats') <= MaxChats
  /\ \A x \in 1 .. Len(chats) :
       \/ chats'[x].name = chats[x].name
       \/ At(c, "username") /\ x = worker[c].chat

\* A consumer's step keeps what the others know.
LEMMA OthersKept ==
  ASSUME IInv, NEW c \in Consumers, ChatsGrow(c), NEW d \in Consumers \ {c},
         worker'[d] = worker[d], queue'[d] = queue[d], handled \subseteq handled'
  PROVE  Place(d)' /\ Accounted(d)'
<1>1. Place(d) /\ Accounted(d) /\ Len(chats) \in Nat /\ Len(chats') \in Nat
  BY DEF IInv, Typed, ChatsGrow
<1>2. Name(d)' = Name(d) /\ Gone(d)' = Gone(d)
  BY DEF Name, Event, Gone
<1>3. Accounted(d)'
  BY <1>1, <1>2 DEF Accounted
<1>4. Place(d)'
  <2>1. ASSUME worker[d].step \in {"username", "logo", "admin", "start"},
               worker[d].step = "username" \/ chats[worker[d].chat].name # NoName
        PROVE  chats'[worker[d].chat].name = chats[worker[d].chat].name
    <3>1. ~(At(c, "username") /\ worker[d].chat = worker[c].chat)
      BY <2>1 DEF IInv, Place, Apart, At
    <3> QED BY <1>1, <2>1, <3>1 DEF ChatsGrow, Place
  <2>2. worker[d].step \notin {"receive", "ack"} => Name(d) # NoName
    BY EventTyped, NoNameIsNone
  <2>3. worker[d].step \in {"admin", "start"}
          \/ (worker[d].step = "logo" /\ worker[d].err = FALSE) =>
             chats'[worker[d].chat].name = Name(d)
    BY <1>1, <2>1, <2>2 DEF Place
  <2>4. worker[d].step \in {"username", "logo", "admin", "start"} =>
          worker[d].chat \in 1 .. Len(chats')
    BY <1>1 DEF Place, ChatsGrow
  <2>5. worker[d].step = "username" => chats'[worker[d].chat].name = NoName
    BY <1>1, <2>1 DEF Place
  <2>6. /\ worker[d].batch <= Len(queue[d])
        /\ worker[d].step = "receive" => worker[d].done = 0
        /\ worker[d].step = "ack" => worker[d].done = worker[d].batch
        /\ worker[d].step \notin {"receive", "ack"} => worker[d].done < worker[d].batch
    BY <1>1 DEF Place
  <2> QED BY <1>2, <2>3, <2>4, <2>5, <2>6 DEF Place
<1> QED BY <1>3, <1>4

\* A step of one consumer that keeps its queue.
LEMMA Moved ==
  ASSUME IInv, NEW c \in Consumers, NEW w \in Worker,
         worker' = [worker EXCEPT ![c] = w], queue' = queue, crashes' = crashes,
         ChatsGrow(c), UniqueNames',
         handled \subseteq handled', handled' \subseteq Events,
         Place(c)', Accounted(c)',
         w.step = "username" => \A d \in Consumers \ {c} :
           At(d, "username") => worker[d].chat # w.chat
  PROVE  IInv'
<1>1. worker'[c] = w /\ \A d \in Consumers \ {c} : worker'[d] = worker[d]
  BY DEF IInv, Typed
<1>2. Typed'
  BY DEF IInv, Typed, ChatsGrow
<1>3. \A d \in Consumers \ {c} : Place(d)' /\ Accounted(d)'
  BY <1>1, OthersKept
<1>4. Apart'
  BY <1>1 DEF IInv, Apart, At
<1> QED BY <1>2, <1>3, <1>4 DEF IInv, ChatsGrow

\* Nothing happens to the channels.
LEMMA ChatsSame ==
  ASSUME IInv, UNCHANGED chats, NEW c \in Consumers
  PROVE  ChatsGrow(c) /\ UniqueNames'
BY DEF IInv, Typed, ChatsGrow, UniqueNames

\* The end of an event.
LEMMA Finished ==
  ASSUME IInv, NEW c \in Consumers, worker[c].step \notin {"receive", "ack"},
         FinishEvent(c), UNCHANGED <<queue, crashes>>, ChatsGrow(c), UniqueNames'
  PROVE  IInv'
<1> DEFINE s == IF worker[c].done + 1 = worker[c].batch THEN "ack" ELSE "each"
<1> DEFINE w == [worker[c] EXCEPT
                   !.step = s,
                   !.done = worker[c].done + 1, !.chat = NoChat, !.err = FALSE]
<1>1. /\ worker[c] \in Worker /\ Place(c) /\ Accounted(c)
      /\ worker[c].done \in Nat /\ worker[c].batch \in Nat
      /\ worker[c].done < worker[c].batch
  BY EventTyped DEF IInv, Typed, Place
<1>2. /\ w \in Worker /\ w.done = worker[c].done + 1 /\ w.batch = worker[c].batch
      /\ w.step = s
  <2>1. s \in Steps
    BY DEF Steps
  <2>2. NoChat \in Nat /\ worker[c].done + 1 \in Nat
    BY <1>1 DEF NoChat
  <2> HIDE DEF s
  <2> QED BY <1>1, <2>1, <2>2 DEF Worker
<1>3. worker' = [worker EXCEPT ![c] = w] /\ handled' = handled \union {Event(c)}
  BY DEF FinishEvent
<1>4. worker'[c] = w
  BY <1>3 DEF IInv, Typed
<1> HIDE DEF w
<1>5. Place(c)'
  BY <1>1, <1>2, <1>4 DEF Place
<1>6. Accounted(c)'
  <2>1. Gone(c)' = Gone(c) /\ Gone(c) \in Int
    BY BacklogIsQueues DEF Gone, IInv, Typed
  <2>2. Backlog[c][Gone(c) + worker[c].done + 1] \in handled'
    BY <1>3, EventTyped
  <2>3. \A k \in 1 .. Gone(c) + (worker[c].done + 1) : Backlog[c][k] \in handled'
    <3> SUFFICES ASSUME NEW k \in 1 .. Gone(c) + (worker[c].done + 1)
                 PROVE  Backlog[c][k] \in handled'
      OBVIOUS
    <3>1. k \in 1 .. Gone(c) + worker[c].done \/ k = Gone(c) + worker[c].done + 1
      BY <1>1, <2>1
    <3> QED BY <1>1, <1>3, <2>2, <3>1 DEF Accounted
  <2> QED BY <1>1, <1>2, <1>4, <2>1, <2>3 DEF Accounted
<1>7. handled' \subseteq Events
  BY <1>3, EventTyped DEF IInv, Typed
<1> QED BY <1>2, <1>3, <1>5, <1>6, <1>7, Moved

\* A step that goes on to another place of the same event.
LEMMA GoesOn ==
  ASSUME IInv, NEW c \in Consumers, worker[c].step \notin {"receive", "ack"},
         NEW place \in Steps \ {"receive", "ack", "username"},
         NEW chat \in Nat, NEW err \in BOOLEAN,
         worker' = [worker EXCEPT ![c] =
                      [worker[c] EXCEPT !.step = place, !.chat = chat, !.err = err]],
         UNCHANGED <<queue, handled, crashes>>, ChatsGrow(c), UniqueNames',
         place \in {"logo", "admin", "start"} => chat \in 1 .. Len(chats'),
         place \in {"admin", "start"} \/ (place = "logo" /\ err = FALSE) =>
           chats'[chat].name = Name(c)
  PROVE  IInv'
<1> DEFINE w == [worker[c] EXCEPT !.step = place, !.chat = chat, !.err = err]
<1>1. worker[c] \in Worker /\ Place(c) /\ Accounted(c)
  BY DEF IInv, Typed
<1>2. /\ w \in Worker /\ w.done = worker[c].done /\ w.batch = worker[c].batch
      /\ w.step = place /\ w.chat = chat /\ w.err = err
  BY <1>1 DEF Worker
<1>3. worker' = [worker EXCEPT ![c] = w]
  OBVIOUS
<1>4. worker'[c] = w
  BY <1>3 DEF IInv, Typed
<1> HIDE DEF w
<1>5. Name(c)' = Name(c) /\ Gone(c)' = Gone(c)
  BY <1>2, <1>4 DEF Name, Event, Gone
<1>6. Place(c)'
  BY <1>1, <1>2, <1>4, <1>5 DEF Place, Steps
<1>7. Accounted(c)'
  BY <1>1, <1>2, <1>4, <1>5 DEF Accounted
<1> QED BY <1>2, <1>3, <1>6, <1>7, Moved DEF IInv, Typed

\* Goto is such a step.
LEMMA GotoIs ==
  ASSUME IInv, NEW c \in Consumers, NEW place \in Steps, Goto(c, place)
  PROVE  worker' = [worker EXCEPT ![c] =
           [worker[c] EXCEPT !.step = place, !.chat = worker[c].chat,
                             !.err = worker[c].err]]
<1>1. worker[c] \in Worker
  BY DEF IInv, Typed
<1>2. [worker[c] EXCEPT !.step = place]
        = [worker[c] EXCEPT !.step = place, !.chat = worker[c].chat, !.err = worker[c].err]
  BY <1>1 DEF Worker
<1> QED BY <1>2 DEF Goto

LEMMA WorkerTyped ==
  ASSUME IInv, NEW c \in Consumers
  PROVE  /\ worker[c].chat \in Nat /\ worker[c].err \in BOOLEAN
         /\ worker[c].batch \in Nat /\ worker[c].done \in Nat
BY DEF IInv, Typed, Worker

\* Receiving a batch.
LEMMA ReceiveStep ==
  ASSUME IInv, NEW c \in Consumers, Receive(c)
  PROVE  IInv'
<1>1. PICK n \in 1 .. BatchSize :
        /\ n <= Len(queue[c])
        /\ worker' = [worker EXCEPT ![c] = [worker[c] EXCEPT !.step = "each", !.batch = n]]
  BY DEF Receive
<1> DEFINE w == [worker[c] EXCEPT !.step = "each", !.batch = n]
<1>2. n \in Nat \ {0} /\ worker[c] \in Worker /\ Place(c) /\ Accounted(c) /\ worker[c].done = 0
  BY BatchIsPositive DEF IInv, Typed, Place, Receive, At
<1>3. w \in Worker /\ w.done = 0 /\ w.batch = n /\ w.step = "each"
  BY <1>2 DEF Worker, Steps
<1>4. worker' = [worker EXCEPT ![c] = w]
  BY <1>1
<1>5. worker'[c] = w
  BY <1>4 DEF IInv, Typed
<1> HIDE DEF w
<1>6. UNCHANGED <<queue, chats, handled, crashes>>
  BY DEF Receive
<1>7. Place(c)'
  BY <1>1, <1>2, <1>3, <1>5, <1>6 DEF Place
<1>8. Accounted(c)'
  BY <1>2, <1>3, <1>5, <1>6 DEF Accounted, Gone
<1>9. ChatsGrow(c) /\ UniqueNames' /\ handled \subseteq Events
  BY <1>6, ChatsSame DEF IInv, Typed
<1> QED BY <1>3, <1>4, <1>6, <1>7, <1>8, <1>9, Moved

\* The steps before a channel is at hand.
LEMMA EarlyStep ==
  ASSUME IInv, NEW c \in Consumers,
         Skip(c) \/ HandlePublic(c) \/ Found(c) \/ Missing(c)
  PROVE  IInv'
<1>1. /\ worker[c].step \notin {"receive", "ack"} /\ UNCHANGED <<queue, chats, crashes>>
      /\ ChatsGrow(c) /\ UniqueNames'
  BY ChatsSame DEF Skip, HandlePublic, Found, Missing, At
<1>2. CASE Skip(c)
  BY <1>1, <1>2, Finished DEF Skip
<1>3. CASE HandlePublic(c)
  <2>1. /\ "search" \in Steps \ {"receive", "ack", "username"}
        /\ Goto(c, "search") /\ handled' = handled
    BY <1>3 DEF HandlePublic, Steps
  <2>2. worker' = [worker EXCEPT ![c] =
          [worker[c] EXCEPT !.step = "search", !.chat = worker[c].chat,
                            !.err = worker[c].err]]
    BY <2>1, GotoIs
  <2> QED BY <1>1, <2>1, <2>2, WorkerTyped, GoesOn
<1>4. CASE Missing(c)
  <2>1. /\ "create" \in Steps \ {"receive", "ack", "username"}
        /\ Goto(c, "create") /\ handled' = handled
    BY <1>4 DEF Missing, Steps
  <2>2. worker' = [worker EXCEPT ![c] =
          [worker[c] EXCEPT !.step = "create", !.chat = worker[c].chat,
                            !.err = worker[c].err]]
    BY <2>1, GotoIs
  <2> QED BY <1>1, <2>1, <2>2, WorkerTyped, GoesOn
<1>5. CASE Found(c)
  <2>1. PICK id \in DOMAIN chats :
          /\ chats[id].name = Name(c)
          /\ worker' = [worker EXCEPT ![c] = [worker[c] EXCEPT !.step = "admin", !.chat = id]]
    BY <1>5 DEF Found
  <2>2. [worker[c] EXCEPT !.step = "admin", !.chat = id]
          = [worker[c] EXCEPT !.step = "admin", !.chat = id, !.err = worker[c].err]
    BY DEF IInv, Typed, Worker
  <2>3. id \in 1 .. Len(chats) /\ id \in Nat
    BY DEF IInv, Typed
  <2> QED BY <1>1, <1>5, <2>1, <2>2, <2>3, WorkerTyped, GoesOn DEF Found, Steps
<1> QED BY <1>2, <1>3, <1>4, <1>5

\* A channel changes, its id and all others stay.
LEMMA ChatChanged ==
  ASSUME IInv, NEW x \in 1 .. Len(chats), NEW chat \in Chat,
         chats' = [chats EXCEPT ![x] = chat]
  PROVE  /\ chats' \in Seq(Chat) /\ Len(chats') = Len(chats)
         /\ chats'[x] = chat
         /\ \A y \in 1 .. Len(chats) : y # x => chats'[y] = chats[y]
BY DEF IInv, Typed

\* A channel that keeps its name.
LEMMA ChatKeepsName ==
  ASSUME IInv, NEW c \in Consumers, NEW x \in 1 .. Len(chats), NEW chat \in Chat,
         chats' = [chats EXCEPT ![x] = chat], chat.name = chats[x].name
  PROVE  /\ ChatsGrow(c) /\ UniqueNames' /\ Len(chats') = Len(chats)
         /\ \A y \in 1 .. Len(chats) : chats'[y].name = chats[y].name
<1>1. /\ chats' \in Seq(Chat) /\ Len(chats') = Len(chats)
      /\ chats'[x] = chat
      /\ \A y \in 1 .. Len(chats) : y # x => chats'[y] = chats[y]
  BY ChatChanged
<1>2. \A y \in 1 .. Len(chats) : chats'[y].name = chats[y].name
  BY <1>1
<1>3. Len(chats) \in Nat /\ Len(chats) <= MaxChats
  BY DEF IInv, Typed
<1> QED BY <1>1, <1>2, <1>3 DEF IInv, ChatsGrow, UniqueNames

\* The chat at hand.
LEMMA ChatTyped ==
  ASSUME IInv, NEW c \in Consumers, worker[c].step \in {"username", "logo", "admin", "start"}
  PROVE  /\ worker[c].chat \in 1 .. Len(chats) /\ chats[worker[c].chat] \in Chat
<1>1. worker[c].chat \in 1 .. Len(chats) /\ chats \in Seq(Chat)
  BY DEF IInv, Typed, Place
<1> QED BY <1>1, ElementOfSeq

\* A new channel takes no name and moves no other.
LEMMA ChatAppended ==
  ASSUME IInv, NEW c \in Consumers, Len(chats) < MaxChats,
         chats' = Append(chats, NewChat)
  PROVE  /\ ChatsGrow(c) /\ UniqueNames'
         /\ NewChat.name = NoName /\ NewChat.started = {}
         /\ Len(chats) \in Nat /\ Len(chats') = Len(chats) + 1
         /\ chats'[Len(chats) + 1] = NewChat
         /\ \A x \in 1 .. Len(chats) : chats'[x] = chats[x]
<1>1. /\ NewChat \in Chat /\ NewChat.name = NoName /\ NewChat.started = {}
      /\ chats \in Seq(Chat) /\ Len(chats) \in Nat
  BY DEF NewChat, Chat, IInv, Typed
<1>2. /\ chats' \in Seq(Chat) /\ Len(chats') = Len(chats) + 1
      /\ \A x \in 1 .. Len(chats) : chats'[x] = chats[x]
      /\ chats'[Len(chats) + 1] = NewChat
  BY <1>1, AppendProperties
<1>3. ChatsGrow(c)
  BY <1>1, <1>2, ChatsAreBounded DEF ChatsGrow
<1>4. UniqueNames'
  <2> SUFFICES ASSUME NEW x \in 1 .. Len(chats) + 1, NEW y \in 1 .. Len(chats) + 1,
                      chats'[x].name = chats'[y].name, chats'[x].name # NoName
               PROVE  x = y
    BY <1>2 DEF UniqueNames
  <2>1. x # Len(chats) + 1 /\ y # Len(chats) + 1
    BY <1>1, <1>2
  <2>2. x \in 1 .. Len(chats) /\ y \in 1 .. Len(chats)
    BY <1>1, <2>1
  <2> QED BY <1>2, <2>2 DEF IInv, UniqueNames
<1> QED BY <1>1, <1>2, <1>3, <1>4

\* createChan
LEMMA CreateChanStep ==
  ASSUME IInv, NEW c \in Consumers, CreateChan(c)
  PROVE  IInv'
<1>1. /\ worker[c].step = "create" /\ Len(chats) < MaxChats
      /\ chats' = Append(chats, NewChat)
      /\ worker' = [worker EXCEPT ![c] =
                      [worker[c] EXCEPT !.step = "username", !.chat = Len(chats) + 1]]
      /\ UNCHANGED <<queue, handled, crashes>>
  BY DEF CreateChan, At
<1>2. NewChat.name = NoName /\ Len(chats) \in Nat
  BY <1>1, ChatAppended
<1>3. /\ Len(chats') = Len(chats) + 1 /\ chats'[Len(chats) + 1] = NewChat
      /\ \A x \in 1 .. Len(chats) : chats'[x] = chats[x]
  BY <1>1, ChatAppended
<1>4. ChatsGrow(c) /\ UniqueNames'
  BY <1>1, ChatAppended
<1> DEFINE w == [worker[c] EXCEPT !.step = "username", !.chat = Len(chats) + 1]
<1>6. worker[c] \in Worker /\ Place(c) /\ Accounted(c)
  BY DEF IInv, Typed
<1>7. /\ w \in Worker /\ w.step = "username" /\ w.chat = Len(chats) + 1
      /\ w.done = worker[c].done /\ w.batch = worker[c].batch
  <2>1. "username" \in Steps /\ Len(chats) + 1 \in Nat
    BY <1>2 DEF Steps
  <2> QED BY <1>6, <2>1 DEF Worker
<1>8. worker' = [worker EXCEPT ![c] = w]
  BY <1>1
<1>9. worker'[c] = w
  BY <1>8 DEF IInv, Typed
<1> HIDE DEF w
<1>10. Place(c)'
  BY <1>1, <1>2, <1>3, <1>6, <1>7, <1>9 DEF Place
<1>11. Accounted(c)'
  BY <1>1, <1>6, <1>7, <1>9 DEF Accounted, Gone
<1>12. \A d \in Consumers \ {c} : At(d, "username") => worker[d].chat # w.chat
  BY <1>2, <1>7 DEF IInv, Place, At
<1>13. handled' = handled /\ handled \subseteq Events
  BY <1>1 DEF IInv, Typed
<1> QED BY <1>1, <1>4, <1>7, <1>8, <1>10, <1>11, <1>12, <1>13, Moved

\* A request to create a channel that fails, with its effect or without.
LEMMA CreateChanFailsStep ==
  ASSUME IInv, NEW c \in Consumers, CreateChanFails(c)
  PROVE  IInv'
<1>1. /\ worker[c].step \notin {"receive", "ack"} /\ UNCHANGED <<queue, crashes>>
      /\ FinishEvent(c)
  BY DEF CreateChanFails, At
<1>2. ChatsGrow(c) /\ UniqueNames'
  BY ChatsSame, ChatAppended DEF CreateChanFails
<1> QED BY <1>1, <1>2, Finished

\* A free name is given to a channel that had none.
LEMMA ChatNamed ==
  ASSUME IInv, NEW c \in Consumers, At(c, "username"), ~NameTaken(Name(c)), GiveName(c)
  PROVE  /\ ChatsGrow(c) /\ UniqueNames' /\ Len(chats') = Len(chats)
         /\ chats'[worker[c].chat].name = Name(c)
<1> DEFINE x == worker[c].chat
           chat == [chats[x] EXCEPT !.name = Name(c)]
<1>1. worker[c].step = "username" /\ chats' = [chats EXCEPT ![x] = chat]
  BY DEF GiveName, At
<1>2. x \in 1 .. Len(chats) /\ chats[x] \in Chat /\ Name(c) \in Names
  BY <1>1, ChatTyped, EventTyped
<1>3. chat \in Chat /\ chat.name = Name(c)
  BY <1>2 DEF Chat
<1> HIDE DEF chat
<1>5. /\ chats' \in Seq(Chat) /\ Len(chats') = Len(chats)
      /\ chats'[x] = chat
      /\ \A y \in 1 .. Len(chats) : y # x => chats'[y] = chats[y]
  BY <1>1, <1>2, <1>3, ChatChanged
<1>6. ChatsGrow(c)
  BY <1>1, <1>5 DEF ChatsGrow, At, IInv, Typed
<1>7. \A y \in 1 .. Len(chats) : chats[y].name # Name(c)
  BY DEF NameTaken, IInv, Typed
<1>8. UniqueNames'
  BY <1>3, <1>5, <1>7 DEF IInv, UniqueNames
<1> QED BY <1>3, <1>5, <1>6, <1>8

\* setChanPublic: the name was free and the channel had none.
LEMMA SetChanPublicStep ==
  ASSUME IInv, NEW c \in Consumers, SetChanPublic(c)
  PROVE  IInv'
<1>1. /\ worker[c].step = "username" /\ Goto(c, "logo") /\ "logo" \in Steps
      /\ UNCHANGED <<queue, handled, crashes>>
  BY DEF SetChanPublic, At, Steps
<1>2. worker[c].chat \in 1 .. Len(chats)
  BY <1>1, ChatTyped
<1>3. /\ ChatsGrow(c) /\ UniqueNames' /\ Len(chats') = Len(chats)
      /\ chats'[worker[c].chat].name = Name(c)
  BY ChatNamed DEF SetChanPublic
<1>4. worker' = [worker EXCEPT ![c] =
          [worker[c] EXCEPT !.step = "logo", !.chat = worker[c].chat, !.err = worker[c].err]]
  BY <1>1, GotoIs
<1> QED BY <1>1, <1>2, <1>3, <1>4, WorkerTyped, GoesOn

\* The other steps with a channel at hand.
LEMMA LateStep ==
  ASSUME IInv, NEW c \in Consumers,
         \/ SetChanPublicFails(c) \/ SetChanLogo(c)
         \/ SetChanAdminBot(c) \/ SetChanAdminBotFails(c)
         \/ SubscribeChan(c) \/ SubscribeChanFails(c)
  PROVE  IInv'
<1>1. worker[c].step \in {"username", "logo", "admin", "start"}
  BY DEF SetChanPublicFails, SetChanLogo, SetChanAdminBot, SetChanAdminBotFails,
         SubscribeChan, SubscribeChanFails, At
<1>2. worker[c].chat \in 1 .. Len(chats) /\ chats[worker[c].chat] \in Chat /\ Place(c)
  BY <1>1, ChatTyped DEF IInv
<1>3. CASE SetChanPublicFails(c)
  <2>1. /\ worker' = [worker EXCEPT ![c] = [worker[c] EXCEPT !.step = "logo", !.err = TRUE]]
        /\ UNCHANGED <<queue, handled, crashes>>
    BY <1>3 DEF SetChanPublicFails
  <2>2. [worker[c] EXCEPT !.step = "logo", !.err = TRUE]
          = [worker[c] EXCEPT !.step = "logo", !.chat = worker[c].chat, !.err = TRUE]
    BY DEF IInv, Typed, Worker
  <2>3. "logo" \in Steps \ {"receive", "ack", "username"} /\ TRUE \in BOOLEAN
    BY DEF Steps
  <2>4. ChatsGrow(c) /\ UniqueNames' /\ Len(chats') = Len(chats)
    BY <1>3, ChatsSame, ChatNamed DEF SetChanPublicFails
  <2> QED BY <1>1, <1>2, <2>1, <2>2, <2>3, <2>4, WorkerTyped, GoesOn
<1>4. CASE SetChanLogo(c)
  <2>1. UNCHANGED <<queue, chats, crashes>> /\ worker[c].step = "logo"
    BY <1>4 DEF SetChanLogo, At
  <2>2. ChatsGrow(c) /\ UniqueNames'
    BY <2>1, ChatsSame
  <2>3. CASE ~worker[c].err /\ Goto(c, "admin") /\ UNCHANGED handled
    <3>1. "admin" \in Steps \ {"receive", "ack", "username"}
      BY DEF Steps
    <3>2. worker' = [worker EXCEPT ![c] =
            [worker[c] EXCEPT !.step = "admin", !.chat = worker[c].chat,
                              !.err = worker[c].err]]
      BY <2>3, <3>1, GotoIs
    <3>3. worker[c].err = FALSE
      BY <2>3, WorkerTyped
    <3>4. chats'[worker[c].chat].name = Name(c)
      BY <1>2, <2>1, <3>3 DEF Place
    <3> QED BY <1>1, <1>2, <2>1, <2>2, <2>3, <3>1, <3>2, <3>4, WorkerTyped, GoesOn
  <2>4. CASE FinishEvent(c)
    BY <1>1, <2>1, <2>2, <2>4, Finished
  <2> QED BY <1>4, <2>3, <2>4 DEF SetChanLogo
<1>5. CASE SetChanAdminBotFails(c) \/ SetChanAdminBot(c)
  <2>1. /\ Goto(c, "start") /\ "start" \in Steps \ {"receive", "ack", "username"}
        /\ UNCHANGED <<queue, handled, crashes>> /\ worker[c].step = "admin"
    BY <1>5 DEF SetChanAdminBotFails, SetChanAdminBot, At, Steps
  <2>2. worker' = [worker EXCEPT ![c] =
          [worker[c] EXCEPT !.step = "start", !.chat = worker[c].chat,
                            !.err = worker[c].err]]
    BY <2>1, GotoIs
  <2>3. /\ ChatsGrow(c) /\ UniqueNames' /\ Len(chats') = Len(chats)
        /\ chats'[worker[c].chat].name = chats[worker[c].chat].name
    <3>1. CASE chats' = chats
      BY <3>1, ChatsSame
    <3>2. CASE chats' = [chats EXCEPT ![worker[c].chat] = [chats[worker[c].chat] EXCEPT !.bot = TRUE]]
      <4>1. /\ [chats[worker[c].chat] EXCEPT !.bot = TRUE] \in Chat
            /\ [chats[worker[c].chat] EXCEPT !.bot = TRUE].name = chats[worker[c].chat].name
        BY <1>2 DEF Chat
      <4> QED BY <1>2, <3>2, <4>1, ChatKeepsName
    <3> QED BY <1>5, <3>1, <3>2 DEF SetChanAdminBotFails, SetChanAdminBot
  <2>4. chats[worker[c].chat].name = Name(c)
    BY <1>2, <2>1 DEF Place
  <2> QED BY <1>1, <1>2, <2>1, <2>2, <2>3, <2>4, WorkerTyped, GoesOn
<1>6. CASE SubscribeChanFails(c)
  <2>1. FinishEvent(c) /\ UNCHANGED <<queue, chats, crashes>>
    BY <1>6 DEF SubscribeChanFails
  <2> QED BY <1>1, <2>1, ChatsSame, Finished
<1>7. CASE SubscribeChan(c)
  <2> DEFINE chat == [chats[worker[c].chat] EXCEPT !.started = @ \union {InterestOf[Event(c)]}]
  <2>1. FinishEvent(c) /\ UNCHANGED <<queue, crashes>>
        /\ chats' = [chats EXCEPT ![worker[c].chat] = chat]
    BY <1>7 DEF SubscribeChan
  <2>2. InterestOf[Event(c)] \in Interests
    BY <1>1, EventTyped, EventsHaveInterests
  <2>3. chat \in Chat /\ chat.name = chats[worker[c].chat].name
    BY <1>2, <2>2 DEF Chat
  <2> HIDE DEF chat
  <2>4. ChatsGrow(c) /\ UniqueNames'
    BY <1>2, <2>1, <2>3, ChatKeepsName
  <2> QED BY <1>1, <2>1, <2>4, Finished
<1> QED BY <1>3, <1>4, <1>5, <1>6, <1>7

\* A consumer at rest, with the part of its queue that is left.
LEMMA RestIs ==
  ASSUME IInv, NEW c \in Consumers, worker'[c] = Waiting,
         Len(queue'[c]) \in Nat, Accounted(c)'
  PROVE  Place(c)' /\ Accounted(c)'
BY DEF Place, Waiting

LEMMA WaitingTyped == Waiting \in Worker /\ Waiting.done = 0 /\ Waiting.step = "receive"
BY DEF Waiting, Worker, Steps, NoChat

\* What is left behind the first b elements.
LEMMA LeftBehind ==
  ASSUME NEW S, NEW q \in Seq(S), NEW b \in Nat, b <= Len(q)
  PROVE  /\ SubSeq(q, b + 1, Len(q)) \in Seq(S)
         /\ Len(SubSeq(q, b + 1, Len(q))) = Len(q) - b
         /\ \A j \in 1 .. Len(q) - b :
              b + j \in 1 .. Len(q) /\ SubSeq(q, b + 1, Len(q))[j] = q[b + j]
<1>1. /\ b + 1 \in Int /\ Len(q) \in Int
      /\ \A i \in b + 1 .. Len(q) : q[i] \in S
  BY ElementOfSeq
<1>2. /\ SubSeq(q, b + 1, Len(q)) \in Seq(S)
      /\ Len(SubSeq(q, b + 1, Len(q)))
           = IF b + 1 <= Len(q) THEN Len(q) - (b + 1) + 1 ELSE 0
      /\ \A i \in 1 .. Len(q) - (b + 1) + 1 :
           SubSeq(q, b + 1, Len(q))[i] = q[b + 1 + i - 1]
  BY <1>1, SubSeqProperties
<1>3. ASSUME NEW j \in 1 .. Len(q) - b
      PROVE  b + j \in 1 .. Len(q) /\ SubSeq(q, b + 1, Len(q))[j] = q[b + j]
  <2>1. j \in 1 .. Len(q) - (b + 1) + 1 /\ b + 1 + j - 1 = b + j /\ b + j \in 1 .. Len(q)
    BY <1>1
  <2> QED BY <1>2, <2>1
<1>4. Len(SubSeq(q, b + 1, Len(q))) = Len(q) - b
  BY <1>1, <1>2
<1> QED BY <1>2, <1>3, <1>4

\* The acknowledgement takes the handled batch off the queue.
LEMMA AckStep ==
  ASSUME IInv, NEW c \in Consumers, Ack(c)
  PROVE  IInv'
<1> DEFINE b == worker[c].batch
           q == queue[c]
<1>1. /\ worker[c].step = "ack" /\ worker' = [worker EXCEPT ![c] = Waiting]
      /\ queue' = [queue EXCEPT ![c] = SubSeq(q, b + 1, Len(q))]
      /\ UNCHANGED <<chats, handled, crashes>>
  BY DEF Ack, At
<1>2. /\ Place(c) /\ Accounted(c) /\ q \in Seq(Events) /\ Len(q) \in Nat
      /\ b \in Nat /\ b <= Len(q) /\ worker[c].done = b
  <2>1. Place(c) /\ Accounted(c) /\ q \in Seq(Events)
    BY DEF IInv, Typed
  <2>2. b \in Nat
    BY WorkerTyped
  <2> QED BY <1>1, <2>1, <2>2 DEF Place
<1>3. /\ SubSeq(q, b + 1, Len(q)) \in Seq(Events)
      /\ Len(SubSeq(q, b + 1, Len(q))) = Len(q) - b
      /\ \A j \in 1 .. Len(q) - b :
           b + j \in 1 .. Len(q) /\ SubSeq(q, b + 1, Len(q))[j] = q[b + j]
  BY <1>2, LeftBehind
<1>4. /\ worker'[c] = Waiting /\ queue'[c] = SubSeq(q, b + 1, Len(q))
      /\ \A d \in Consumers \ {c} : worker'[d] = worker[d] /\ queue'[d] = queue[d]
  BY <1>1 DEF IInv, Typed
<1>5. Accounted(c)'
  <2>1. /\ Gone(c) \in Int /\ Gone(c)' = Gone(c) + b /\ Len(Backlog[c]) \in Nat
        /\ Len(q) <= Len(Backlog[c])
    <3>1. Len(Backlog[c]) \in Nat /\ Len(q) <= Len(Backlog[c])
      BY <1>2, BacklogIsQueues DEF Accounted
    <3>2. Len(queue'[c]) = Len(q) - b
      BY <1>3, <1>4
    <3>3. Gone(c) = Len(Backlog[c]) - Len(q) /\ Gone(c)' = Len(Backlog[c]) - Len(queue'[c])
      BY DEF Gone
    <3> HIDE DEF b, q
    <3> QED BY <1>2, <3>1, <3>2, <3>3
  <2>2. Len(queue'[c]) = Len(q) - b /\ Len(queue'[c]) <= Len(Backlog[c])
    <3>1. Len(queue'[c]) = Len(q) - b
      BY <1>3, <1>4
    <3> HIDE DEF b, q
    <3> QED BY <1>2, <2>1, <3>1
  <2>3. ASSUME NEW j \in 1 .. Len(queue'[c])
        PROVE  queue'[c][j] = Backlog[c][Gone(c)' + j]
    <3>1. j \in 1 .. Len(q) - b /\ b + j \in 1 .. Len(q)
      BY <1>3, <2>2
    <3>2. queue'[c][j] = q[b + j]
      BY <1>3, <1>4, <3>1
    <3>3. q[b + j] = Backlog[c][Gone(c) + (b + j)]
      BY <1>2, <3>1 DEF Accounted
    <3>4. Gone(c) + (b + j) = Gone(c)' + j
      <4> HIDE DEF b, q
      <4> QED BY <1>2, <2>1, <3>1
    <3> QED BY <3>2, <3>3, <3>4
  <2>4. ASSUME NEW k \in 1 .. Gone(c)' + worker'[c].done
        PROVE  Backlog[c][k] \in handled'
    <3>1. k \in 1 .. Gone(c) + worker[c].done
      BY <1>2, <1>4, <2>1, WaitingTyped
    <3> QED BY <1>1, <1>2, <3>1 DEF Accounted
  <2> QED BY <2>2, <2>3, <2>4 DEF Accounted
<1>6. Place(c)'
  BY <1>2, <1>3, <1>4, <1>5, RestIs
<1>7. ChatsGrow(c) /\ UniqueNames' /\ handled \subseteq handled'
  BY <1>1, ChatsSame
<1>8. \A d \in Consumers \ {c} : Place(d)' /\ Accounted(d)'
  BY <1>4, <1>7, OthersKept
<1>9. Apart'
  BY <1>1, <1>4, WaitingTyped DEF IInv, Apart, At
<1>10. Typed'
  BY <1>1, <1>3, WaitingTyped DEF IInv, Typed
<1> QED BY <1>5, <1>6, <1>7, <1>8, <1>9, <1>10 DEF IInv, ChatsGrow

\* A batch that is delivered again.
LEMMA RestStep ==
  ASSUME IInv, UNCHANGED <<queue, chats, handled>>,
         worker' \in [Consumers -> Worker],
         \A c \in Consumers : worker'[c] \in {Waiting, worker[c]},
         crashes' \in Nat
  PROVE  IInv'
<1>1. Typed' /\ Len(chats') <= MaxChats /\ UniqueNames'
  BY WaitingTyped DEF IInv, Typed, UniqueNames
<1>2. ASSUME NEW c \in Consumers PROVE Place(c)' /\ Accounted(c)'
  <2>1. Place(c) /\ Accounted(c) /\ Gone(c)' = Gone(c) /\ Gone(c) \in Int
        /\ Len(queue'[c]) \in Nat /\ worker[c].done \in Nat
    BY WorkerTyped, BacklogIsQueues DEF IInv, Typed, Gone
  <2>2. CASE worker'[c] = Waiting
    <3>1. Accounted(c)'
      BY <2>1, <2>2, WaitingTyped DEF Accounted
    <3> QED BY <2>1, <2>2, <3>1, RestIs
  <2>3. CASE worker'[c] = worker[c]
    <3>1. Name(c)' = Name(c)
      BY <2>3 DEF Name, Event
    <3> QED BY <2>1, <2>3, <3>1 DEF Place, Accounted
  <2> QED BY <2>2, <2>3
<1>3. Apart'
  BY WaitingTyped DEF IInv, Apart, At
<1> QED BY <1>1, <1>2, <1>3 DEF IInv

LEMMA InvStep == IInv /\ [Next]_vars => IInv'
<1> SUFFICES ASSUME IInv, [Next]_vars PROVE IInv'
  OBVIOUS
<1>1. CASE Crash
  <2>1. worker' \in [Consumers -> Worker] /\ \A c \in Consumers : worker'[c] = Waiting
    BY <1>1, WaitingTyped DEF Crash
  <2>2. UNCHANGED <<queue, chats, handled>> /\ crashes' \in Nat
    BY <1>1 DEF Crash, IInv, Typed
  <2> QED BY <2>1, <2>2, RestStep
<1>2. ASSUME NEW c \in Consumers, Step(c) PROVE IInv'
  <2>1. CASE AckLost(c)
    <3>1. worker' \in [Consumers -> Worker]
          /\ \A d \in Consumers : worker'[d] \in {Waiting, worker[d]}
      BY <2>1, WaitingTyped DEF AckLost, IInv, Typed
    <3>2. UNCHANGED <<queue, chats, handled>> /\ crashes' \in Nat
      BY <2>1 DEF AckLost, IInv, Typed
    <3> QED BY <3>1, <3>2, RestStep
  <2>2. CASE Skip(c) \/ HandlePublic(c) \/ Found(c) \/ Missing(c)
    BY <2>2, EarlyStep
  <2>3. CASE \/ SetChanPublicFails(c) \/ SetChanLogo(c)
             \/ SetChanAdminBot(c) \/ SetChanAdminBotFails(c)
             \/ SubscribeChan(c) \/ SubscribeChanFails(c)
    BY <2>3, LateStep
  <2>4. CASE Receive(c) \/ CreateChan(c) \/ CreateChanFails(c) \/ SetChanPublic(c) \/ Ack(c)
    BY <2>4, ReceiveStep, CreateChanStep, CreateChanFailsStep, SetChanPublicStep, AckStep
  <2> QED BY <1>2, <2>1, <2>2, <2>3, <2>4 DEF Step
<1>3. CASE UNCHANGED vars
  <2>1. worker' \in [Consumers -> Worker] /\ \A c \in Consumers : worker'[c] = worker[c]
    BY <1>3 DEF vars, IInv, Typed
  <2>2. UNCHANGED <<queue, chats, handled>> /\ crashes' \in Nat
    BY <1>3 DEF vars, IInv, Typed
  <2> QED BY <2>1, <2>2, RestStep
<1> QED BY <1>1, <1>2, <1>3 DEF Next

LEMMA Offset ==
  ASSUME NEW g \in Int, NEW l \in Nat, NEW q \in Nat, g = l - q,
         NEW k \in 1 .. l, ~(k <= g)
  PROVE  k - g \in 1 .. q /\ g + (k - g) = k
OBVIOUS

LEMMA Invariant == Spec => []IInv
BY InitInv, InvStep, PTL DEF Spec

-----------------------------------------------------------------------------
(* The registry in the channels *)

\* Channels with a name of their own each, if they have one.
Named(ch) ==
  /\ ch \in Seq(Chat)
  /\ \A x, y \in 1 .. Len(ch) : ch[x].name = ch[y].name /\ ch[x].name # NoName => x = y

LEMMA OwnerTaken ==
  ASSUME NEW ch, Named(ch), NEW n \in Names, NEW x \in 1 .. Len(ch), ch[x].name = n
  PROVE  OwnerIn(ch)[n] = x
<1>1. n # NoName /\ DOMAIN ch = 1 .. Len(ch)
  BY NoNameIsNone DEF Named
<1>2. \A y \in DOMAIN ch : ch[y].name = n => y = x
  BY <1>1 DEF Named
<1>3. \E y \in DOMAIN ch : ch[y].name = n
  BY <1>1
<1>4. (CHOOSE id \in DOMAIN ch : ch[id].name = n) = x
  BY <1>2, <1>3
<1>5. OwnerIn(ch)[n] = CHOOSE id \in DOMAIN ch : ch[id].name = n
  BY <1>3 DEF OwnerIn
<1> QED BY <1>4, <1>5

LEMMA OwnerFree ==
  ASSUME NEW ch, NEW n \in Names, \A x \in DOMAIN ch : ch[x].name # n
  PROVE  OwnerIn(ch)[n] = NoChat
BY DEF OwnerIn

LEMMA OwnerFcn ==
  ASSUME NEW ch, NEW f, DOMAIN f = Names, f = [n \in DOMAIN f |-> f[n]],
         \A n \in Names : OwnerIn(ch)[n] = f[n]
  PROVE  OwnerIn(ch) = f
<1> DEFINE g(n) == IF \E id \in DOMAIN ch : ch[id].name = n
                   THEN CHOOSE id \in DOMAIN ch : ch[id].name = n
                   ELSE NoChat
<1>1. OwnerIn(ch) = [n \in Names |-> g(n)]
  BY DEF OwnerIn
<1> HIDE DEF g
<1> QED BY <1>1

LEMMA OwnerIsFcn ==
  ASSUME NEW ch
  PROVE  DOMAIN OwnerIn(ch) = Names
         /\ OwnerIn(ch) = [n \in DOMAIN OwnerIn(ch) |-> OwnerIn(ch)[n]]
<1> DEFINE g(n) == IF \E id \in DOMAIN ch : ch[id].name = n
                   THEN CHOOSE id \in DOMAIN ch : ch[id].name = n
                   ELSE NoChat
<1>1. OwnerIn(ch) = [n \in Names |-> g(n)]
  BY DEF OwnerIn
<1> HIDE DEF g
<1> QED BY <1>1

\* Channels keep their names, new ones have none.
LEMMA OwnersSame ==
  ASSUME NEW ch, NEW dh, Named(ch), Named(dh), Len(ch) <= Len(dh),
         \A x \in 1 .. Len(ch) : dh[x].name = ch[x].name,
         \A x \in 1 .. Len(dh) : x \in 1 .. Len(ch) \/ dh[x].name = NoName
  PROVE  OwnerIn(dh) = OwnerIn(ch)
<1>1. /\ DOMAIN ch = 1 .. Len(ch) /\ DOMAIN dh = 1 .. Len(dh)
      /\ Len(ch) \in Nat /\ Len(dh) \in Nat
  BY DEF Named
<1>2. ASSUME NEW n \in Names PROVE OwnerIn(dh)[n] = OwnerIn(ch)[n]
  <2>1. CASE \E x \in 1 .. Len(ch) : ch[x].name = n
    <3>1. PICK x \in 1 .. Len(ch) : ch[x].name = n
      BY <2>1
    <3>2. x \in 1 .. Len(dh) /\ dh[x].name = n
      BY <1>1, <3>1
    <3> QED BY <3>1, <3>2, OwnerTaken
  <2>2. CASE \A x \in 1 .. Len(ch) : ch[x].name # n
    <3>1. \A x \in DOMAIN dh : dh[x].name # n
      BY <1>1, <2>2, NoNameIsNone
    <3>2. OwnerIn(dh)[n] = NoChat
      BY <3>1, OwnerFree
    <3>3. OwnerIn(ch)[n] = NoChat
      BY <1>1, <2>2, OwnerFree
    <3> QED BY <3>2, <3>3
  <2> QED BY <2>1, <2>2
<1> QED BY <1>2, OwnerFcn, OwnerIsFcn

\* A channel without a name gets one that was free.
LEMMA OwnerClaimed ==
  ASSUME NEW ch, NEW dh, Named(ch), Named(dh), Len(ch) = Len(dh),
         NEW x \in 1 .. Len(ch), NEW n \in Names,
         ch[x].name = NoName, dh[x].name = n,
         \A y \in 1 .. Len(ch) : ch[y].name # n,
         \A y \in 1 .. Len(ch) : y # x => dh[y].name = ch[y].name
  PROVE  /\ OwnerIn(ch)[n] = NoChat
         /\ \A m \in Names : OwnerIn(ch)[m] # x
         /\ OwnerIn(dh) = [OwnerIn(ch) EXCEPT ![n] = x]
<1>1. /\ DOMAIN ch = 1 .. Len(ch) /\ DOMAIN dh = 1 .. Len(ch)
      /\ Len(ch) \in Nat
  BY DEF Named
<1>2. OwnerIn(ch)[n] = NoChat
  BY <1>1, OwnerFree
<1>3. ASSUME NEW m \in Names
      PROVE  OwnerIn(ch)[m] # x /\ OwnerIn(dh)[m] = IF m = n THEN x ELSE OwnerIn(ch)[m]
  <2>1. OwnerIn(dh)[n] = x
    BY OwnerTaken
  <2>2. CASE \E y \in 1 .. Len(ch) : ch[y].name = m
    <3>1. PICK y \in 1 .. Len(ch) : ch[y].name = m
      BY <2>2
    <3>2. y # x /\ m # n /\ dh[y].name = m
      BY <3>1, NoNameIsNone
    <3>3. OwnerIn(ch)[m] = y
      BY <3>1, OwnerTaken
    <3>4. OwnerIn(dh)[m] = y
      BY <3>2, OwnerTaken
    <3> QED BY <3>2, <3>3, <3>4
  <2>3. CASE \A y \in 1 .. Len(ch) : ch[y].name # m
    <3>1. OwnerIn(ch)[m] = NoChat /\ x # NoChat
      BY <1>1, <2>3, OwnerFree DEF NoChat
    <3>2. m # n => OwnerIn(dh)[m] = NoChat
      <4> SUFFICES ASSUME m # n PROVE OwnerIn(dh)[m] = NoChat
        OBVIOUS
      <4>1. \A y \in DOMAIN dh : dh[y].name # m
        BY <1>1, <2>3
      <4> QED BY <4>1, OwnerFree
    <3> QED BY <2>1, <3>1, <3>2
  <2> QED BY <2>2, <2>3
<1> DEFINE f == [OwnerIn(ch) EXCEPT ![n] = x]
<1>4. DOMAIN f = Names /\ f = [m \in DOMAIN f |-> f[m]] /\ \A m \in Names : OwnerIn(dh)[m] = f[m]
  BY <1>3, OwnerIsFcn
<1> HIDE DEF f
<1>5. OwnerIn(dh) = f
  BY <1>4, OwnerFcn
<1> QED BY <1>2, <1>3, <1>5 DEF f

LEMMA StartedSame ==
  ASSUME NEW ch, NEW dh, Named(ch), Named(dh), Len(ch) <= Len(dh),
         \A x \in 1 .. Len(ch) : dh[x].started = ch[x].started,
         \A x \in 1 .. Len(dh) : x \in 1 .. Len(ch) \/ dh[x].started = {}
  PROVE  StartedIn(dh) = StartedIn(ch)
<1>1. /\ DOMAIN ch = 1 .. Len(ch) /\ DOMAIN dh = 1 .. Len(dh)
      /\ Len(ch) \in Nat /\ Len(dh) \in Nat
  BY DEF Named
<1>2. \A x \in 1 .. Len(ch) : x \in 1 .. Len(dh)
  BY <1>1
<1> QED BY <1>1, <1>2 DEF StartedIn

LEMMA StartedMore ==
  ASSUME NEW ch, NEW dh, Named(ch), Named(dh), Len(ch) = Len(dh),
         NEW x \in 1 .. Len(ch), NEW i \in Interests,
         dh[x].started = ch[x].started \union {i},
         \A y \in 1 .. Len(ch) : y # x => dh[y].started = ch[y].started
  PROVE  StartedIn(dh) = StartedIn(ch) \union {<<i, x>>}
<1>1. DOMAIN ch = 1 .. Len(ch) /\ DOMAIN dh = 1 .. Len(ch)
  BY DEF Named
<1>2. ASSUME NEW j \in Interests, NEW y \in 1 .. Len(ch)
      PROVE  <<j, y>> \in StartedIn(dh) <=> <<j, y>> \in StartedIn(ch) \/ (j = i /\ y = x)
  BY <1>1 DEF StartedIn
<1>3. StartedIn(dh) \subseteq Interests \X (1 .. Len(ch))
      /\ StartedIn(ch) \subseteq Interests \X (1 .. Len(ch))
  BY <1>1 DEF StartedIn
<1> QED BY <1>2, <1>3

\* What a step is to the registry.
RegistryStep == [Registry!Next]_<<OwnerIn(chats), StartedIn(chats)>>

LEMMA Unseen ==
  ASSUME IInv, IInv', Len(chats) <= Len(chats'),
         \A x \in 1 .. Len(chats) :
           chats'[x].name = chats[x].name /\ chats'[x].started = chats[x].started,
         \A x \in 1 .. Len(chats') :
           x \in 1 .. Len(chats) \/ (chats'[x].name = NoName /\ chats'[x].started = {})
  PROVE  RegistryStep
<1>1. PICK ch : ch = chats
  OBVIOUS
<1>2. PICK dh : dh = chats'
  OBVIOUS
<1>3. Named(ch) /\ Named(dh)
  BY <1>1, <1>2 DEF IInv, Typed, UniqueNames, Named
<1>4. /\ Len(ch) <= Len(dh)
      /\ \A x \in 1 .. Len(ch) : dh[x].name = ch[x].name /\ dh[x].started = ch[x].started
      /\ \A x \in 1 .. Len(dh) :
           x \in 1 .. Len(ch) \/ (dh[x].name = NoName /\ dh[x].started = {})
  BY <1>1, <1>2
<1>5. OwnerIn(dh) = OwnerIn(ch) /\ StartedIn(dh) = StartedIn(ch)
  BY <1>3, <1>4, OwnersSame, StartedSame
<1>6. OwnerIn(chats)' = OwnerIn(dh) /\ StartedIn(chats)' = StartedIn(dh)
  BY <1>2 DEF OwnerIn, StartedIn
<1> QED BY <1>1, <1>5, <1>6 DEF RegistryStep

LEMMA ClaimStep ==
  ASSUME IInv, IInv', NEW c \in Consumers, At(c, "username"),
         ~NameTaken(Name(c)), GiveName(c)
  PROVE  RegistryStep
<1> DEFINE x == worker[c].chat
<1>1. /\ worker[c].step = "username" /\ ~NameTaken(Name(c))
      /\ chats' = [chats EXCEPT ![x] = [chats[x] EXCEPT !.name = Name(c)]]
  BY DEF GiveName, At
<1>2. /\ x \in 1 .. Len(chats) /\ chats[x] \in Chat /\ Name(c) \in Names
      /\ chats[x].name = NoName
  BY <1>1, ChatTyped, EventTyped DEF IInv, Place
<1>3. PICK ch : ch = chats
  OBVIOUS
<1>4. PICK dh : dh = chats'
  OBVIOUS
<1>5. PICK n \in Names : n = Name(c)
  BY <1>2
<1>6. PICK id : id = x
  OBVIOUS
<1>7. Named(ch) /\ Named(dh)
  BY <1>3, <1>4 DEF IInv, Typed, UniqueNames, Named
<1>8. \A y \in 1 .. Len(ch) : ch[y].name # n
  BY <1>1, <1>3, <1>5 DEF NameTaken, IInv, Typed
<1>9. /\ Len(ch) = Len(dh) /\ id \in 1 .. Len(ch) /\ ch[id].name = NoName
      /\ dh[id].name = n /\ dh[id].started = ch[id].started
      /\ \A y \in 1 .. Len(ch) : y # id => dh[y] = ch[y]
  <2>1. chats[x].started = [chats[x] EXCEPT !.name = Name(c)].started
        /\ [chats[x] EXCEPT !.name = Name(c)].name = Name(c)
        /\ [chats[x] EXCEPT !.name = Name(c)] \in Chat
    BY <1>2 DEF Chat
  <2>2. /\ Len(chats') = Len(chats)
        /\ chats'[x] = [chats[x] EXCEPT !.name = Name(c)]
        /\ \A y \in 1 .. Len(chats) : y # x => chats'[y] = chats[y]
    BY <1>1, <1>2, <2>1, ChatChanged
  <2> QED BY <1>2, <1>3, <1>4, <1>5, <1>6, <2>1, <2>2
<1>10. /\ OwnerIn(ch)[n] = NoChat
       /\ \A m \in Names : OwnerIn(ch)[m] # id
       /\ OwnerIn(dh) = [OwnerIn(ch) EXCEPT ![n] = id]
  BY <1>7, <1>8, <1>9, OwnerClaimed
<1>11. StartedIn(dh) = StartedIn(ch)
  <2>1. /\ Len(ch) <= Len(dh) /\ \A y \in 1 .. Len(ch) : dh[y].started = ch[y].started
        /\ \A y \in 1 .. Len(dh) : y \in 1 .. Len(ch)
    BY <1>7, <1>9 DEF Named
  <2> QED BY <1>7, <2>1, StartedSame
<1>12. OwnerIn(chats)' = OwnerIn(dh) /\ StartedIn(chats)' = StartedIn(dh)
  BY <1>4 DEF OwnerIn, StartedIn
<1>13. id \in 1 .. MaxChats
  BY <1>3, <1>9, ChatsAreBounded DEF IInv, Typed
<1>14. Registry!Claim(n, id)
  BY <1>3, <1>10, <1>11, <1>12 DEF Registry!Claim
<1> QED BY <1>13, <1>14 DEF RegistryStep, Registry!Next

LEMMA StartStep ==
  ASSUME IInv, IInv', NEW c \in Consumers, SubscribeChan(c)
  PROVE  RegistryStep
<1> DEFINE x == worker[c].chat
           chat == [chats[x] EXCEPT !.started = @ \union {InterestOf[Event(c)]}]
<1>1. worker[c].step = "start" /\ chats' = [chats EXCEPT ![x] = chat]
  BY DEF SubscribeChan, At
<1>2. /\ x \in 1 .. Len(chats) /\ chats[x] \in Chat
      /\ chats[x].name = Name(c) /\ Name(c) \in Names
  BY <1>1, ChatTyped, EventTyped DEF IInv, Place
<1>3. InterestOf[Event(c)] \in Interests
  BY <1>1, EventTyped, EventsHaveInterests
<1>4. /\ chat \in Chat /\ chat.name = chats[x].name
      /\ chat.started = chats[x].started \union {InterestOf[Event(c)]}
  BY <1>2, <1>3 DEF Chat
<1>5. PICK ch : ch = chats
  OBVIOUS
<1>6. PICK dh : dh = chats'
  OBVIOUS
<1>7. PICK i \in Interests : i = InterestOf[Event(c)]
  BY <1>3
<1>8. PICK id : id = x
  OBVIOUS
<1>9. Named(ch) /\ Named(dh)
  BY <1>5, <1>6 DEF IInv, Typed, UniqueNames, Named
<1> HIDE DEF chat
<1>10. /\ Len(ch) = Len(dh) /\ id \in 1 .. Len(ch)
       /\ ch[id].name = NameOf[i] /\ NameOf[i] \in Names
       /\ dh[id].name = ch[id].name /\ dh[id].started = ch[id].started \union {i}
       /\ \A y \in 1 .. Len(ch) : y # id => dh[y] = ch[y]
  <2>1. /\ Len(chats') = Len(chats) /\ chats'[x] = chat
        /\ \A y \in 1 .. Len(chats) : y # x => chats'[y] = chats[y]
    BY <1>1, <1>2, <1>4, ChatChanged
  <2>2. Name(c) = NameOf[i]
    BY <1>7 DEF Name
  <2> QED BY <1>2, <1>4, <1>5, <1>6, <1>7, <1>8, <2>1, <2>2
<1>11. OwnerIn(ch)[NameOf[i]] = id
  BY <1>9, <1>10, OwnerTaken
<1>12. StartedIn(dh) = StartedIn(ch) \union {<<i, id>>}
  BY <1>9, <1>10, StartedMore
<1>13. OwnerIn(dh) = OwnerIn(ch)
  <2>1. /\ Len(ch) <= Len(dh) /\ \A y \in 1 .. Len(ch) : dh[y].name = ch[y].name
        /\ \A y \in 1 .. Len(dh) : y \in 1 .. Len(ch)
    BY <1>9, <1>10 DEF Named
  <2> QED BY <1>9, <2>1, OwnersSame
<1>14. OwnerIn(chats)' = OwnerIn(dh) /\ StartedIn(chats)' = StartedIn(dh)
  BY <1>6 DEF OwnerIn, StartedIn
<1>15. id # NoChat
  BY <1>9, <1>10 DEF NoChat, Named
<1>16. Registry!Start(i)
  BY <1>5, <1>11, <1>12, <1>13, <1>14, <1>15 DEF Registry!Start
<1> QED BY <1>16 DEF RegistryStep, Registry!Next

LEMMA StepOfRegistry == IInv /\ IInv' /\ [Next]_vars => RegistryStep
<1> SUFFICES ASSUME IInv, IInv', [Next]_vars PROVE RegistryStep
  OBVIOUS
<1>1. ASSUME chats' = chats PROVE RegistryStep
  BY <1>1, Unseen DEF IInv, Typed
<1>2. CASE Crash \/ UNCHANGED vars
  BY <1>1, <1>2 DEF Crash, vars
<1>3. ASSUME NEW c \in Consumers, Step(c) PROVE RegistryStep
  <2>1. CASE Len(chats) < MaxChats /\ chats' = Append(chats, NewChat)
    <3>1. NewChat.name = NoName /\ NewChat.started = {} /\ Len(chats) \in Nat
      BY <2>1, ChatAppended
    <3>2. /\ Len(chats') = Len(chats) + 1 /\ chats'[Len(chats) + 1] = NewChat
          /\ \A x \in 1 .. Len(chats) : chats'[x] = chats[x]
      BY <2>1, ChatAppended
    <3>3. \A x \in 1 .. Len(chats') :
            x \in 1 .. Len(chats) \/ (chats'[x].name = NoName /\ chats'[x].started = {})
      BY <3>1, <3>2
    <3>4. Len(chats) <= Len(chats')
      BY <3>1, <3>2
    <3> QED BY <3>2, <3>3, <3>4, Unseen
  <2>2. CASE SetChanAdminBot(c)
    <3> DEFINE x == worker[c].chat
               chat == [chats[x] EXCEPT !.bot = TRUE]
    <3>1. worker[c].step = "admin" /\ chats' = [chats EXCEPT ![x] = chat]
      BY <2>2 DEF SetChanAdminBot, At
    <3>2. x \in 1 .. Len(chats) /\ chats[x] \in Chat
      BY <3>1, ChatTyped
    <3>3. chat \in Chat /\ chat.name = chats[x].name /\ chat.started = chats[x].started
      BY <3>2 DEF Chat
    <3> HIDE DEF chat
    <3>4. /\ Len(chats') = Len(chats) /\ chats'[x] = chat
          /\ \A y \in 1 .. Len(chats) : y # x => chats'[y] = chats[y]
      BY <3>1, <3>2, <3>3, ChatChanged
    <3>5. \A y \in 1 .. Len(chats) :
            chats'[y].name = chats[y].name /\ chats'[y].started = chats[y].started
      BY <3>3, <3>4
    <3>6. /\ Len(chats) <= Len(chats')
          /\ \A y \in 1 .. Len(chats') : y \in 1 .. Len(chats)
      BY <3>4 DEF IInv, Typed
    <3> QED BY <3>5, <3>6, Unseen
  <2>3. CASE SetChanPublic(c) \/ SetChanPublicFails(c)
    BY <1>1, <2>3, ClaimStep DEF SetChanPublic, SetChanPublicFails
  <2>4. CASE SubscribeChan(c)
    BY <2>4, StartStep
  <2>5. CASE CreateChan(c) \/ CreateChanFails(c)
    BY <1>1, <2>1, <2>5 DEF CreateChan, CreateChanFails
  <2>6. CASE \/ Receive(c) \/ Skip(c) \/ HandlePublic(c) \/ Found(c) \/ Missing(c)
             \/ SetChanLogo(c) \/ SetChanAdminBotFails(c) \/ SubscribeChanFails(c)
             \/ Ack(c) \/ AckLost(c)
    BY <1>1, <2>6
       DEF Receive, Skip, HandlePublic, Found, Missing, SetChanLogo,
           SetChanAdminBotFails, SubscribeChanFails, Ack, AckLost
  <2> QED BY <1>3, <2>2, <2>3, <2>4, <2>5, <2>6 DEF Step
<1> QED BY <1>2, <1>3 DEF Next

LEMMA StartOfRegistry == Init => Registry!Init
<1> SUFFICES ASSUME Init PROVE Registry!Init
  OBVIOUS
<1>1. DOMAIN chats = {}
  BY DEF Init
<1> QED BY <1>1 DEF Registry!Init, OwnerIn, StartedIn

-----------------------------------------------------------------------------
(* How many channels there are when no request fails                       *)

\* A name that is taken has cost every consumer one channel at most, a restart
\* too.  A consumer about to create a channel for a name that was taken
\* meanwhile has still to spend its one; a consumer that is about to set a name
\* that is free has spent one on account of the name.
Taken   == {n \in Names : NameTaken(n)}
Pending == {c \in Consumers : At(c, "create") /\ NameTaken(Name(c))}
Racing  == {c \in Consumers : At(c, "username") /\ ~NameTaken(Name(c))}

ChannelsCounted ==
  Len(chats) + Cardinality(Pending) <=
    Cardinality(Consumers) * (Cardinality(Taken) + crashes) + Cardinality(Racing)

LEMMA Finite ==
  /\ Cardinality(Consumers) \in Nat /\ Cardinality(Names) \in Nat
  /\ \A S \in SUBSET Consumers :
       /\ IsFiniteSet(S) /\ Cardinality(S) \in Nat
       /\ Cardinality(S) <= Cardinality(Consumers)
  /\ \A S \in SUBSET Names :
       /\ IsFiniteSet(S) /\ Cardinality(S) \in Nat
       /\ Cardinality(S) <= Cardinality(Names)
BY FinitelyMany, FS_Subset, FS_CardinalityType

LEMMA Times ==
  ASSUME NEW k \in Nat
  PROVE  /\ \A x \in Nat : k * x \in Nat /\ k * (x + 1) = k * x + k
         /\ \A x, y \in Nat : x <= y => k * x <= k * y
<1>1. \A x \in Nat : k * x \in Nat /\ k * (x + 1) = k * x + k
  OBVIOUS
<1>2. \A x, y \in Nat : x <= y => k * x <= k * y
  OBVIOUS
<1> QED BY <1>1, <1>2

LEMMA UnionBound ==
  ASSUME NEW R \in SUBSET Consumers, NEW S \in SUBSET Consumers,
         NEW T \in SUBSET Consumers, R \subseteq S \union T
  PROVE  Cardinality(R) <= Cardinality(S) + Cardinality(T)
<1>1. /\ IsFiniteSet(S) /\ IsFiniteSet(T) /\ S \union T \in SUBSET Consumers
      /\ S \intersect T \in SUBSET Consumers
  BY Finite
<1>2. Cardinality(S \union T) = Cardinality(S) + Cardinality(T) - Cardinality(S \intersect T)
  BY <1>1, FS_Union
<1>3. Cardinality(R) <= Cardinality(S \union T)
  BY <1>1, Finite, FS_Subset
<1>4. /\ Cardinality(R) \in Nat /\ Cardinality(S) \in Nat /\ Cardinality(T) \in Nat
      /\ Cardinality(S \intersect T) \in Nat /\ Cardinality(S \union T) \in Nat
  BY <1>1, Finite
<1> QED BY <1>2, <1>3, <1>4

\* Names stay as they are.
NamesKept == \A n \in Names : NameTaken(n)' = NameTaken(n)

LEMMA NamesSame ==
  ASSUME IInv, Len(chats') >= Len(chats), chats' \in Seq(Chat),
         \A x \in 1 .. Len(chats) : chats'[x].name = chats[x].name,
         \A x \in 1 .. Len(chats') : x \in 1 .. Len(chats) \/ chats'[x].name = NoName
  PROVE  NamesKept /\ Taken' = Taken
<1>1. /\ DOMAIN chats = 1 .. Len(chats) /\ DOMAIN chats' = 1 .. Len(chats')
      /\ Len(chats) \in Nat /\ Len(chats') \in Nat
  BY DEF IInv, Typed
<1>2. ASSUME NEW n \in Names PROVE NameTaken(n)' = NameTaken(n)
  BY <1>1, NoNameIsNone DEF NameTaken
<1> QED BY <1>2 DEF NamesKept, Taken

\* A consumer that does not move stays counted as it was.
LEMMA OtherCounted ==
  ASSUME IInv, NamesKept, NEW d \in Consumers,
         worker'[d] = worker[d], queue'[d] = queue[d]
  PROVE  (d \in Pending' <=> d \in Pending) /\ (d \in Racing' <=> d \in Racing)
<1>1. Name(d)' = Name(d) /\ (\A place : At(d, place)' = At(d, place))
  BY DEF Name, Event, At
<1>2. At(d, "create") \/ At(d, "username") => Name(d) \in Names
  BY EventTyped DEF At
<1>3. At(d, "create") \/ At(d, "username") => NameTaken(Name(d))' = NameTaken(Name(d))
  BY <1>1, <1>2 DEF NamesKept, NameTaken
<1> QED BY <1>1, <1>3 DEF Pending, Racing

\* A step of c that makes no channel and takes no name.
LEMMA QuietCounted ==
  ASSUME IInv, IInv', ChannelsCounted, NEW c \in Consumers, NamesKept, Taken' = Taken,
         \A d \in Consumers \ {c} : worker'[d] = worker[d] /\ queue'[d] = queue[d],
         crashes' = crashes, Len(chats') = Len(chats),
         c \notin Pending', c \notin Racing
  PROVE  ChannelsCounted'
<1>1. Pending' \subseteq Pending /\ Racing \subseteq Racing'
  BY OtherCounted DEF Pending, Racing
<1>2. Pending \in SUBSET Consumers /\ Racing' \in SUBSET Consumers
  BY DEF Pending, Racing
<1>3. Cardinality(Pending') <= Cardinality(Pending) /\ Cardinality(Racing) <= Cardinality(Racing')
  BY <1>1, <1>2, Finite, FS_Subset
<1>4. /\ Cardinality(Pending) \in Nat /\ Cardinality(Pending') \in Nat
      /\ Cardinality(Racing) \in Nat /\ Cardinality(Racing') \in Nat
      /\ Taken \in SUBSET Names /\ Cardinality(Taken) \in Nat /\ Cardinality(Consumers) \in Nat
      /\ crashes \in Nat /\ Len(chats) \in Nat
  BY <1>1, <1>2, Finite DEF Taken, IInv, Typed
<1>5. PICK sum \in Nat : sum = Cardinality(Consumers) * (Cardinality(Taken) + crashes)
  BY <1>4, Times
<1>6. Len(chats) + Cardinality(Pending) <= sum + Cardinality(Racing)
  BY <1>5 DEF ChannelsCounted
<1>7. Len(chats') + Cardinality(Pending') <= sum + Cardinality(Racing')
  BY <1>3, <1>4, <1>6
<1> QED BY <1>5, <1>7 DEF ChannelsCounted

\* A new channel is paid for at once, or by the name that was taken before.
LEMMA CreateCounted ==
  ASSUME IInv, IInv', ChannelsCounted, NEW c \in Consumers, CreateChan(c)
  PROVE  ChannelsCounted'
<1>1. /\ NewChat.name = NoName /\ chats \in Seq(Chat) /\ Len(chats) \in Nat
      /\ chats' = Append(chats, NewChat) /\ chats' \in Seq(Chat)
  BY DEF CreateChan, NewChat, IInv, Typed
<1>2. /\ Len(chats') = Len(chats) + 1
      /\ \A x \in 1 .. Len(chats) : chats'[x] = chats[x]
      /\ \A x \in 1 .. Len(chats') : x \in 1 .. Len(chats) \/ chats'[x].name = NoName
  BY <1>1, AppendProperties
<1>3. NamesKept /\ Taken' = Taken
  BY <1>1, <1>2, NamesSame
<1>4. /\ At(c, "create") /\ At(c, "username")' /\ crashes' = crashes /\ queue' = queue
      /\ worker'[c].done = worker[c].done
      /\ \A d \in Consumers \ {c} : worker'[d] = worker[d] /\ queue'[d] = queue[d]
  BY DEF CreateChan, At, IInv, Typed, Worker
<1>5. NameTaken(Name(c))' = NameTaken(Name(c))
  <2>1. Name(c)' = Name(c) /\ Name(c) \in Names
    BY <1>4, EventTyped DEF Name, Event, At
  <2> QED BY <1>3, <2>1 DEF NamesKept, NameTaken
<1>6. \A d \in Consumers \ {c} :
        (d \in Pending' <=> d \in Pending) /\ (d \in Racing' <=> d \in Racing)
  BY <1>3, <1>4, OtherCounted
<1>7. c \notin Pending' /\ c \notin Racing
  BY <1>4 DEF Pending, Racing, At
<1>8. /\ Pending \in SUBSET Consumers /\ Racing \in SUBSET Consumers
      /\ Pending' \in SUBSET Consumers /\ Racing' \in SUBSET Consumers
      /\ Taken \in SUBSET Names
  BY DEF Pending, Racing, Taken
<1>9. Cardinality(Racing') - Cardinality(Pending') = Cardinality(Racing) - Cardinality(Pending) + 1
  <2>1. CASE c \in Pending
    <3>1. Pending' = Pending \ {c} /\ Racing' = Racing
      BY <1>4, <1>5, <1>6, <1>7, <1>8, <2>1 DEF Pending, Racing
    <3>2. Cardinality(Pending \ {c}) = Cardinality(Pending) - 1
      BY <1>8, <2>1, Finite, FS_RemoveElement
    <3> QED BY <1>8, <3>1, <3>2, Finite
  <2>2. CASE c \notin Pending
    <3>1. Pending' = Pending /\ Racing' = Racing \union {c}
      BY <1>4, <1>5, <1>6, <1>7, <1>8, <2>2 DEF Pending, Racing
    <3>2. Cardinality(Racing \union {c}) = Cardinality(Racing) + 1
      BY <1>7, <1>8, Finite, FS_AddElement
    <3> QED BY <1>8, <3>1, <3>2, Finite
  <2> QED BY <2>1, <2>2
<1>10. /\ Cardinality(Pending) \in Nat /\ Cardinality(Pending') \in Nat
       /\ Cardinality(Racing) \in Nat /\ Cardinality(Racing') \in Nat
       /\ Cardinality(Taken) \in Nat /\ Cardinality(Consumers) \in Nat /\ crashes \in Nat
  BY <1>8, Finite DEF IInv, Typed
<1>11. PICK sum \in Nat : sum = Cardinality(Consumers) * (Cardinality(Taken) + crashes)
  BY <1>10, Times
<1>12. Len(chats) + Cardinality(Pending) <= sum + Cardinality(Racing)
  BY <1>11 DEF ChannelsCounted
<1>13. Len(chats) + 1 + Cardinality(Pending') <= sum + Cardinality(Racing')
  BY <1>1, <1>9, <1>10, <1>12
<1> QED BY <1>2, <1>3, <1>4, <1>11, <1>13 DEF ChannelsCounted

\* A name that is taken pays for the consumers that were racing for it and for
\* those that have still to create a channel in vain.
LEMMA TakeCounted ==
  ASSUME IInv, IInv', ChannelsCounted, NEW c \in Consumers, SetChanPublic(c)
  PROVE  ChannelsCounted'
<1> DEFINE x == worker[c].chat
           chat == [chats[x] EXCEPT !.name = Name(c)]
<1>1. /\ At(c, "username") /\ ~NameTaken(Name(c)) /\ crashes' = crashes /\ queue' = queue
      /\ chats' = [chats EXCEPT ![x] = chat] /\ worker'[c].step = "logo"
      /\ \A d \in Consumers \ {c} : worker'[d] = worker[d] /\ queue'[d] = queue[d]
  BY DEF SetChanPublic, GiveName, Goto, IInv, Typed, Worker
<1>2. /\ x \in 1 .. Len(chats) /\ chats[x] \in Chat /\ Name(c) \in Names
      /\ chats[x].name = NoName
  BY <1>1, ChatTyped, EventTyped DEF IInv, Place, At
<1>3. chat \in Chat /\ chat.name = Name(c)
  BY <1>2 DEF Chat
<1> HIDE DEF chat
<1>4. /\ Len(chats') = Len(chats) /\ chats'[x] = chat /\ chats' \in Seq(Chat)
      /\ \A y \in 1 .. Len(chats) : y # x => chats'[y] = chats[y]
  BY <1>1, <1>2, <1>3, ChatChanged
<1>5. PICK n \in Names : n = Name(c)
  BY <1>2
<1>6. \A m \in Names : NameTaken(m)' <=> NameTaken(m) \/ m = n
  <2>1. /\ DOMAIN chats = 1 .. Len(chats) /\ DOMAIN chats' = 1 .. Len(chats)
    BY <1>4 DEF IInv, Typed
  <2> QED BY <1>2, <1>3, <1>4, <1>5, <2>1, NoNameIsNone DEF NameTaken
<1>7. Taken' = Taken \union {n} /\ n \notin Taken
  BY <1>1, <1>5, <1>6 DEF Taken
<1> DEFINE Creating == {d \in Consumers : At(d, "create") /\ Name(d) = n}
           Naming == {d \in Consumers : At(d, "username") /\ Name(d) = n}
<1>8. \A d \in Consumers \ {c} :
        /\ Name(d)' = Name(d)
        /\ At(d, "create")' = At(d, "create") /\ At(d, "username")' = At(d, "username")
        /\ At(d, "create") \/ At(d, "username") =>
             (NameTaken(Name(d))' <=> NameTaken(Name(d)) \/ Name(d) = n)
  <2> SUFFICES ASSUME NEW d \in Consumers \ {c}
               PROVE  /\ Name(d)' = Name(d)
                      /\ At(d, "create")' = At(d, "create")
                      /\ At(d, "username")' = At(d, "username")
                      /\ At(d, "create") \/ At(d, "username") =>
                           (NameTaken(Name(d))' <=> NameTaken(Name(d)) \/ Name(d) = n)
    OBVIOUS
  <2>1. Name(d)' = Name(d) /\ (\A place : At(d, place)' = At(d, place))
    BY <1>1 DEF Name, Event, At
  <2>2. At(d, "create") \/ At(d, "username") => Name(d) \in Names
    BY EventTyped DEF At
  <2> QED BY <1>6, <2>1, <2>2 DEF NameTaken
<1>9. Pending' \subseteq Pending \union Creating
  BY <1>1, <1>8 DEF Pending, At
<1>10. Racing \subseteq Racing' \union Naming
  BY <1>1, <1>5, <1>8 DEF Racing
<1>11. Creating \intersect Naming = {} /\ Creating \union Naming \in SUBSET Consumers
  BY DEF At
<1>12. /\ Pending \in SUBSET Consumers /\ Racing \in SUBSET Consumers
       /\ Pending' \in SUBSET Consumers /\ Racing' \in SUBSET Consumers
       /\ Creating \in SUBSET Consumers /\ Naming \in SUBSET Consumers
       /\ Taken \in SUBSET Names
  BY DEF Pending, Racing, Taken
<1> HIDE DEF Creating, Naming
<1>13. Cardinality(Pending') <= Cardinality(Pending) + Cardinality(Creating)
  BY <1>9, <1>12, UnionBound
<1>14. Cardinality(Racing) <= Cardinality(Racing') + Cardinality(Naming)
  BY <1>10, <1>12, UnionBound
<1>15. Cardinality(Creating) + Cardinality(Naming) <= Cardinality(Consumers)
  <2>1. Cardinality(Creating \union Naming)
          = Cardinality(Creating) + Cardinality(Naming) - Cardinality(Creating \intersect Naming)
    BY <1>12, Finite, FS_Union
  <2>2. Cardinality(Creating \intersect Naming) = 0
    BY <1>11, FS_EmptySet
  <2> QED BY <1>11, <1>12, <2>1, <2>2, Finite
<1>16. Cardinality(Taken') = Cardinality(Taken) + 1
  BY <1>7, <1>12, Finite, FS_AddElement
<1>17. /\ Cardinality(Pending) \in Nat /\ Cardinality(Pending') \in Nat
       /\ Cardinality(Racing) \in Nat /\ Cardinality(Racing') \in Nat
       /\ Cardinality(Creating) \in Nat /\ Cardinality(Naming) \in Nat
       /\ Cardinality(Taken) \in Nat /\ Cardinality(Consumers) \in Nat /\ crashes \in Nat
       /\ Len(chats) \in Nat
  BY <1>12, Finite DEF IInv, Typed
<1>18. PICK sum \in Nat : sum = Cardinality(Consumers) * (Cardinality(Taken) + crashes)
  BY <1>17, Times
<1>19. Cardinality(Consumers) * (Cardinality(Taken') + crashes') = sum + Cardinality(Consumers)
  <2>1. Cardinality(Taken') + crashes' = (Cardinality(Taken) + crashes) + 1
    BY <1>1, <1>16, <1>17
  <2> QED BY <1>17, <1>18, <2>1, Times
<1>20. Len(chats) + Cardinality(Pending) <= sum + Cardinality(Racing)
  BY <1>18 DEF ChannelsCounted
<1>21. Len(chats) + Cardinality(Pending')
         <= (sum + Cardinality(Consumers)) + Cardinality(Racing')
  BY <1>13, <1>14, <1>15, <1>17, <1>20
<1> QED BY <1>4, <1>19, <1>21 DEF ChannelsCounted

\* A restart pays for the consumers it interrupts.
LEMMA CrashCounted ==
  ASSUME IInv, IInv', ChannelsCounted, Crash
  PROVE  ChannelsCounted'
<1>1. /\ crashes' = crashes + 1 /\ chats' = chats
      /\ \A d \in Consumers : worker'[d].step = "receive"
  BY DEF Crash, Waiting
<1>2. Pending' = {} /\ Racing' = {} /\ Taken' = Taken
  BY <1>1 DEF Pending, Racing, At, Taken, NameTaken
<1>3. Cardinality(Pending') = 0 /\ Cardinality(Racing') = 0
  BY <1>2, FS_EmptySet
<1>4. /\ Pending \in SUBSET Consumers /\ Racing \in SUBSET Consumers
      /\ Taken \in SUBSET Names
  BY DEF Pending, Racing, Taken
<1>5. /\ Cardinality(Pending) \in Nat /\ Cardinality(Racing) \in Nat
      /\ Cardinality(Racing) <= Cardinality(Consumers)
      /\ Cardinality(Taken) \in Nat /\ Cardinality(Consumers) \in Nat /\ crashes \in Nat
      /\ Len(chats) \in Nat
  BY <1>4, Finite DEF IInv, Typed
<1>6. PICK sum \in Nat : sum = Cardinality(Consumers) * (Cardinality(Taken) + crashes)
  BY <1>5, Times
<1>7. Cardinality(Consumers) * (Cardinality(Taken') + crashes') = sum + Cardinality(Consumers)
  <2>1. Cardinality(Taken') + crashes' = (Cardinality(Taken) + crashes) + 1
    BY <1>1, <1>2, <1>5
  <2> QED BY <1>5, <1>6, <2>1, Times
<1>8. Len(chats) + Cardinality(Pending) <= sum + Cardinality(Racing)
  BY <1>6 DEF ChannelsCounted
<1>9. Len(chats) + 0 <= (sum + Cardinality(Consumers)) + 0
  BY <1>5, <1>8
<1> QED BY <1>1, <1>3, <1>7, <1>9 DEF ChannelsCounted

\* A step that leaves the names as they are, when no request fails.
LEMMA NamesStay ==
  ASSUME IInv, NEW c \in Consumers, Step(c), ~CreateChan(c), ~SetChanPublic(c),
         Faults = {}
  PROVE  NamesKept /\ Taken' = Taken /\ Len(chats') = Len(chats)
<1>1. ASSUME chats' = chats PROVE NamesKept /\ Taken' = Taken /\ Len(chats') = Len(chats)
  BY <1>1 DEF NamesKept, NameTaken, Taken
<1>2. ASSUME NEW chat \in Chat, NEW x \in 1 .. Len(chats),
             chats' = [chats EXCEPT ![x] = chat], chat.name = chats[x].name
      PROVE  NamesKept /\ Taken' = Taken /\ Len(chats') = Len(chats)
  <2>1. /\ ChatsGrow(c) /\ Len(chats') = Len(chats)
        /\ \A y \in 1 .. Len(chats) : chats'[y].name = chats[y].name
    BY <1>2, ChatKeepsName
  <2>2. chats' \in Seq(Chat) /\ Len(chats) \in Nat /\ Len(chats') >= Len(chats)
    BY <2>1 DEF ChatsGrow, IInv, Typed
  <2> QED BY <2>1, <2>2, NamesSame
<1>3. CASE SetChanAdminBot(c)
  <2> DEFINE chat == [chats[worker[c].chat] EXCEPT !.bot = TRUE]
  <2>1. worker[c].chat \in 1 .. Len(chats) /\ chats[worker[c].chat] \in Chat
    BY <1>3, ChatTyped DEF SetChanAdminBot, At
  <2>2. chat \in Chat /\ chat.name = chats[worker[c].chat].name
    BY <2>1 DEF Chat
  <2>3. chats' = [chats EXCEPT ![worker[c].chat] = chat]
    BY <1>3 DEF SetChanAdminBot
  <2> HIDE DEF chat
  <2> QED BY <1>2, <2>1, <2>2, <2>3
<1>4. CASE SubscribeChan(c)
  <2> DEFINE chat == [chats[worker[c].chat] EXCEPT !.started =
                        @ \union {InterestOf[Event(c)]}]
  <2>1. worker[c].chat \in 1 .. Len(chats) /\ chats[worker[c].chat] \in Chat
    BY <1>4, ChatTyped DEF SubscribeChan, At
  <2>2. InterestOf[Event(c)] \in Interests
    BY <1>4, EventTyped, EventsHaveInterests DEF SubscribeChan, At
  <2>3. chat \in Chat /\ chat.name = chats[worker[c].chat].name
    BY <2>1, <2>2 DEF Chat
  <2>4. chats' = [chats EXCEPT ![worker[c].chat] = chat]
    BY <1>4 DEF SubscribeChan
  <2> HIDE DEF chat
  <2> QED BY <1>2, <2>1, <2>3, <2>4
<1>5. CASE \/ Receive(c) \/ Skip(c) \/ HandlePublic(c) \/ Found(c) \/ Missing(c)
           \/ CreateChanFails(c) \/ SetChanPublicFails(c) \/ SetChanLogo(c)
           \/ SetChanAdminBotFails(c) \/ SubscribeChanFails(c) \/ Ack(c) \/ AckLost(c)
  BY <1>1, <1>5
     DEF Receive, Skip, HandlePublic, Found, Missing, CreateChanFails, SetChanPublicFails,
         SetChanLogo, SetChanAdminBotFails, SubscribeChanFails, Ack, AckLost
<1> QED BY <1>3, <1>4, <1>5 DEF Step

\* The others do not move, and there is no restart.
LEMMA OthersStay ==
  ASSUME IInv, NEW c \in Consumers, Step(c)
  PROVE  /\ crashes' = crashes
         /\ \A d \in Consumers \ {c} : worker'[d] = worker[d] /\ queue'[d] = queue[d]
<1>1. worker \in [Consumers -> Worker] /\ queue \in [Consumers -> Seq(Events)]
  BY DEF IInv, Typed
<1>2. CASE Receive(c) \/ Ack(c) \/ AckLost(c) \/ Found(c) \/ CreateChan(c)
  BY <1>1, <1>2 DEF Receive, Ack, AckLost, Found, CreateChan
<1>3. CASE \/ HandlePublic(c) \/ Missing(c) \/ SetChanPublic(c) \/ SetChanPublicFails(c)
           \/ SetChanAdminBot(c) \/ SetChanAdminBotFails(c)
  BY <1>1, <1>3
     DEF HandlePublic, Missing, SetChanPublic, SetChanPublicFails, SetChanAdminBot,
         SetChanAdminBotFails, Goto
<1>4. CASE \/ Skip(c) \/ CreateChanFails(c) \/ SetChanLogo(c)
           \/ SubscribeChan(c) \/ SubscribeChanFails(c)
  BY <1>1, <1>4
     DEF Skip, CreateChanFails, SetChanLogo, SubscribeChan, SubscribeChanFails,
         FinishEvent, Goto
<1> QED BY <1>2, <1>3, <1>4 DEF Step

\* When no request fails, a consumer goes to create a channel only where the
\* name is free, and fails to set a name only where it is taken.
LEMMA NotCounted ==
  ASSUME IInv, NEW c \in Consumers, Step(c), ~CreateChan(c), ~SetChanPublic(c),
         Faults = {}
  PROVE  c \notin Pending' /\ c \notin Racing
<1>1. worker \in [Consumers -> Worker]
  BY DEF IInv, Typed
<1>2. CASE Missing(c)
  <2>1. /\ At(c, "search") /\ ~NameTaken(Name(c)) /\ chats' = chats /\ queue' = queue
        /\ worker'[c].done = worker[c].done
    BY <1>1, <1>2 DEF Missing, Goto, Worker
  <2>2. Name(c)' = Name(c)
    BY <2>1 DEF Name, Event
  <2> QED BY <2>1, <2>2 DEF Pending, Racing, NameTaken, At
<1>3. CASE SetChanPublicFails(c)
  <2>1. NameTaken(Name(c)) /\ worker'[c].step = "logo"
    BY <1>1, <1>3 DEF SetChanPublicFails, Worker
  <2> QED BY <2>1 DEF Pending, Racing, At
<1>4. CASE Receive(c) \/ Ack(c) \/ AckLost(c) \/ Found(c)
  <2>1. ~At(c, "username")
    BY <1>4 DEF Receive, Ack, AckLost, Found, At
  <2>2. worker'[c].step \in {"each", "receive", "admin"}
    BY <1>1, <1>4 DEF Receive, Ack, AckLost, Found, Waiting, Worker
  <2> QED BY <2>1, <2>2 DEF Pending, Racing, At
<1>5. CASE HandlePublic(c) \/ SetChanAdminBot(c) \/ SetChanAdminBotFails(c)
  <2>1. ~At(c, "username")
    BY <1>5 DEF HandlePublic, SetChanAdminBot, SetChanAdminBotFails, At
  <2>2. worker'[c].step \in {"search", "start"}
    BY <1>1, <1>5 DEF HandlePublic, SetChanAdminBot, SetChanAdminBotFails, Goto, Worker
  <2> QED BY <2>1, <2>2 DEF Pending, Racing, At
<1>6. CASE \/ Skip(c) \/ CreateChanFails(c) \/ SetChanLogo(c)
           \/ SubscribeChan(c) \/ SubscribeChanFails(c)
  <2>1. ~At(c, "username")
    BY <1>6 DEF Skip, CreateChanFails, SetChanLogo, SubscribeChan, SubscribeChanFails, At
  <2>2. FinishEvent(c) => worker'[c].step \in {"ack", "each"}
    BY <1>1 DEF FinishEvent, Worker
  <2>3. Goto(c, "admin") => worker'[c].step = "admin"
    BY <1>1 DEF Goto, Worker
  <2>4. FinishEvent(c) \/ Goto(c, "admin")
    BY <1>6 DEF Skip, CreateChanFails, SetChanLogo, SubscribeChan, SubscribeChanFails
  <2> QED BY <2>1, <2>2, <2>3, <2>4 DEF Pending, Racing, At
<1> QED BY <1>2, <1>3, <1>4, <1>5, <1>6 DEF Step

LEMMA CountStep ==
  ASSUME IInv, IInv', [Next]_vars, Faults = {}, ChannelsCounted
  PROVE  ChannelsCounted'
<1>1. CASE Crash
  BY <1>1, CrashCounted
<1>2. ASSUME NEW c \in Consumers, Step(c) PROVE ChannelsCounted'
  <2>1. CASE CreateChan(c)
    BY <2>1, CreateCounted
  <2>2. CASE SetChanPublic(c)
    BY <2>2, TakeCounted
  <2>3. CASE ~CreateChan(c) /\ ~SetChanPublic(c)
    <3>1. NamesKept /\ Taken' = Taken /\ Len(chats') = Len(chats)
      BY <1>2, <2>3, NamesStay
    <3>2. c \notin Pending' /\ c \notin Racing
      BY <1>2, <2>3, NotCounted
    <3> QED BY <1>2, <3>1, <3>2, OthersStay, QuietCounted
  <2> QED BY <2>1, <2>2, <2>3
<1>3. CASE UNCHANGED vars
  BY <1>3 DEF vars, ChannelsCounted, Pending, Racing, Taken, NameTaken, Name, Event, At
<1> QED BY <1>1, <1>2, <1>3 DEF Next

LEMMA CountStart == Init => ChannelsCounted
<1> SUFFICES ASSUME Init PROVE ChannelsCounted
  OBVIOUS
<1>1. /\ chats = <<>> /\ Len(chats) = 0 /\ DOMAIN chats = {} /\ crashes = 0
      /\ \A c \in Consumers : worker[c].step = "receive"
  BY DEF Init, Waiting
<1>2. Pending = {} /\ Racing = {} /\ Taken = {}
  BY <1>1 DEF Pending, Racing, At, Taken, NameTaken
<1>3. /\ Cardinality(Pending) = 0 /\ Cardinality(Racing) = 0 /\ Cardinality(Taken) = 0
  BY <1>2, FS_EmptySet
<1>4. PICK k \in Nat : k = Cardinality(Consumers)
  BY Finite
<1>5. k * (0 + 0) = 0
  BY <1>4
<1> QED BY <1>1, <1>3, <1>4, <1>5 DEF ChannelsCounted

\* The consumers that are racing do so for a name that is not taken.
LEMMA CountBounds ==
  ASSUME IInv, ChannelsCounted
  PROVE  Len(chats) <= Cardinality(Consumers) * (Cardinality(Names) + crashes)
<1>1. /\ Taken \in SUBSET Names /\ Racing \in SUBSET Consumers /\ Pending \in SUBSET Consumers
  BY DEF Taken, Racing, Pending
<1>2. /\ Cardinality(Taken) \in Nat /\ Cardinality(Racing) \in Nat
      /\ Cardinality(Pending) \in Nat /\ Cardinality(Consumers) \in Nat
      /\ Cardinality(Names) \in Nat /\ crashes \in Nat /\ Len(chats) \in Nat
      /\ Cardinality(Racing) <= Cardinality(Consumers)
      /\ Cardinality(Taken) <= Cardinality(Names)
  BY <1>1, Finite DEF IInv, Typed
<1>3. PICK sum \in Nat : sum = Cardinality(Consumers) * (Cardinality(Taken) + crashes)
  BY <1>2, Times
<1>4. Len(chats) + Cardinality(Pending) <= sum + Cardinality(Racing)
  BY <1>3 DEF ChannelsCounted
<1>5. PICK most \in Nat : most = Cardinality(Consumers) * (Cardinality(Names) + crashes)
  BY <1>2, Times
<1>6. CASE Racing = {}
  <2>1. Cardinality(Racing) = 0
    BY <1>6, FS_EmptySet
  <2>2. Cardinality(Taken) + crashes <= Cardinality(Names) + crashes
    BY <1>2
  <2>3. Cardinality(Taken) + crashes \in Nat /\ Cardinality(Names) + crashes \in Nat
    BY <1>2
  <2>4. sum <= most
    BY <1>2, <1>3, <1>5, <2>2, <2>3, Times
  <2> QED BY <1>2, <1>4, <1>5, <2>1, <2>4
<1>7. CASE Racing # {}
  <2>1. PICK d \in Consumers : At(d, "username") /\ ~NameTaken(Name(d))
    BY <1>7 DEF Racing
  <2>2. Name(d) \in Names /\ Name(d) \notin Taken
    BY <2>1, EventTyped DEF At, Taken
  <2>3. Cardinality(Taken) + 1 <= Cardinality(Names)
    <3>1. Taken \union {Name(d)} \in SUBSET Names
      BY <1>1, <2>2
    <3>2. Cardinality(Taken \union {Name(d)}) = Cardinality(Taken) + 1
      BY <1>1, <2>2, Finite, FS_AddElement
    <3>3. Cardinality(Taken \union {Name(d)}) <= Cardinality(Names)
      BY <3>1, Finite
    <3> QED BY <3>2, <3>3
  <2>4. Cardinality(Consumers) * ((Cardinality(Taken) + crashes) + 1) = sum + Cardinality(Consumers)
    BY <1>2, <1>3, Times
  <2>5. (Cardinality(Taken) + crashes) + 1 <= Cardinality(Names) + crashes
    BY <1>2, <2>3
  <2>6. /\ (Cardinality(Taken) + crashes) + 1 \in Nat
        /\ Cardinality(Names) + crashes \in Nat
    BY <1>2
  <2>7. Cardinality(Consumers) * ((Cardinality(Taken) + crashes) + 1) <= most
    BY <1>2, <1>5, <2>5, <2>6, Times
  <2> QED BY <1>2, <1>4, <1>5, <2>4, <2>7
<1> QED BY <1>6, <1>7

-----------------------------------------------------------------------------
(* Theorems *)

\* Every variable keeps its type; a worker is inside its batch, and where it
\* has a channel at hand the channel exists (HandleInterestChange).
THEOREM TypeCorrect == Spec => []TypeOK
<1>1. IInv => TypeOK
  <2> SUFFICES ASSUME IInv PROVE TypeOK
    OBVIOUS
  <2>1. DOMAIN chats = 1 .. Len(chats)
    BY DEF IInv, Typed
  <2> QED BY <2>1 DEF IInv, Typed, TypeOK, Place
<1> QED BY <1>1, Invariant, PTL

\* At least once: what is gone from a queue was handled, for any batch sizes
\* and any restarts (ReceiveMessages, consumeQueue).
THEOREM AcknowledgedWereHandled == Spec => []AckedHandled
<1>1. IInv => AckedHandled
  <2> SUFFICES ASSUME IInv, NEW c \in Consumers, NEW k \in DOMAIN Backlog[c],
                      Backlog[c][k] \notin handled
               PROVE  \E j \in DOMAIN queue[c] : queue[c][j] = Backlog[c][k]
    BY DEF AckedHandled
  <2>1. /\ Accounted(c) /\ worker[c].done \in Nat /\ Len(queue[c]) \in Nat
        /\ DOMAIN queue[c] = 1 .. Len(queue[c]) /\ Len(Backlog[c]) \in Nat
        /\ k \in 1 .. Len(Backlog[c]) /\ Gone(c) \in Int
    BY WorkerTyped, BacklogIsQueues DEF IInv, Typed, Gone
  <2>2. ~(k <= Gone(c))
    BY <2>1 DEF Accounted
  <2>3. k - Gone(c) \in 1 .. Len(queue[c]) /\ Gone(c) + (k - Gone(c)) = k
    <3>1. Gone(c) = Len(Backlog[c]) - Len(queue[c])
      BY DEF Gone
    <3>2. PICK g \in Int : g = Gone(c)
      BY <2>1
    <3>3. PICK l \in Nat : l = Len(Backlog[c])
      BY <2>1
    <3>4. PICK q \in Nat : q = Len(queue[c])
      BY <2>1
    <3>5. k \in 1 .. l /\ ~(k <= g) /\ g = l - q
      BY <2>1, <2>2, <3>1, <3>2, <3>3, <3>4
    <3>6. k - g \in 1 .. q /\ g + (k - g) = k
      BY <3>5, Offset
    <3> QED BY <3>2, <3>4, <3>6
  <2>4. queue[c][k - Gone(c)] = Backlog[c][Gone(c) + (k - Gone(c))]
    BY <2>1, <2>3 DEF Accounted
  <2> QED BY <2>1, <2>3, <2>4
<1> QED BY <1>1, Invariant, PTL

\* When no request fails, channels without a name stay few, for any number of
\* consumers, names, events and restarts: the consumers that find a name's
\* channel missing create one each, and so may those that a restart interrupts
\* (getPublicChan, createChan, setChanPublic).
THEOREM OrphansBounded == Spec => []FewOrphans
<1> DEFINE Counted == Faults = {} => ChannelsCounted
<1>1. Init => Counted
  BY CountStart
<1>2. IInv /\ IInv' /\ Counted /\ [Next]_vars => Counted'
  BY CountStep
<1>3. IInv /\ Counted => FewOrphans
  BY CountBounds DEF FewOrphans
<1> HIDE DEF Counted
<1> QED BY <1>1, <1>2, <1>3, Invariant, PTL DEF Spec

\* A name is given once and stays where it is, and an interest is started
\* nowhere but in the channel of its name, however the consumers race for names
\* and whatever fails (getPublicChan, createChan, setChanPublic, subscribeChan).
THEOREM RegistryKept == Spec => ImplementsRegistry
<1>1. IInv /\ IInv' /\ [Next]_vars => [Registry!Next]_<<OwnerIn(chats), StartedIn(chats)>>
  BY StepOfRegistry DEF RegistryStep
<1> QED BY <1>1, StartOfRegistry, Invariant, PTL
        DEF Spec, ImplementsRegistry, Registry!Spec
=============================================================================
