------------------------ MODULE JoinedChannelsProofs ------------------------
(***************************************************************************)
(* Theorems about JoinedChannels for every set of chats, links, users and  *)
(* requests, every kind of fault and every bound.                          *)
(***************************************************************************)
EXTENDS JoinedChannels, StorageProofs, SequenceTheorems

-----------------------------------------------------------------------------
(* The map.                                                                *)

\* The type that TypeOK gives to the map.
MapType(m) == DOMAIN m \subseteq Ids /\ m \in [DOMAIN m -> Entry]

\* The empty map is a map.
LEMMA EmptyMapType == MapType(EmptyMap)
BY DEF MapType, EmptyMap

\* An assignment adds the key and changes no other entry.
LEMMA AssignLemma ==
  ASSUME MapType(chansJoined), NEW i \in Ids, NEW e \in Entry
  PROVE  /\ MapType(Assign(i, e))
         /\ DOMAIN Assign(i, e) = DOMAIN chansJoined \union {i}
         /\ Assign(i, e)[i] = e
         /\ \A j \in DOMAIN chansJoined : j # i => Assign(i, e)[j] = chansJoined[j]
BY DEF MapType, Assign

\* A new date in an entry keeps the map's keys, registrations and type.
LEMMA SetLastLemma ==
  ASSUME MapType(chansJoined), NEW i \in DOMAIN chansJoined, NEW d \in Nat,
         NEW m, m = [chansJoined EXCEPT ![i].last = d]
  PROVE  /\ MapType(m)
         /\ DOMAIN m = DOMAIN chansJoined
         /\ \A j \in DOMAIN chansJoined : m[j].reg = chansJoined[j].reg
         /\ \A j \in DOMAIN chansJoined : j # i => m[j] = chansJoined[j]
         /\ m[i].last = d
<1>1. DOMAIN m = DOMAIN chansJoined
  OBVIOUS
<1>2. m[i] = [chansJoined[i] EXCEPT !.last = d]
  OBVIOUS
<1>3. \A j \in DOMAIN chansJoined : j # i => m[j] = chansJoined[j]
  OBVIOUS
<1>4. chansJoined[i] \in Entry
  BY DEF MapType
<1>5. m[i] \in Entry /\ m[i].reg = chansJoined[i].reg /\ m[i].last = d
  BY <1>2, <1>4 DEF Entry
<1>6. \A j \in DOMAIN m : m[j] \in Entry
  BY <1>1, <1>3, <1>5 DEF MapType
<1>7. m = [j \in DOMAIN m |-> m[j]]
  OBVIOUS
<1>8. MapType(m)
  BY <1>1, <1>6, <1>7 DEF MapType
<1> QED BY <1>1, <1>3, <1>5, <1>8

-----------------------------------------------------------------------------
(* The inductive invariant.                                                *)

\* The channels of a page have links of their own, so one is the next.
PageOrdered == \A p, q \in page : p.link = q.link => p = q

\* The loop assigns a key only when the map lacks it, and updates the store
\* only from an entry it has.
WritesNew    == refresh = "write"  => \A q \in page : IsNext(q) => ~Joined(q.id)
UpdatesKnown ==
  refresh = "update" =>
    \A q \in page :
      IsNext(q) => Joined(q.id) /\ chansJoined[q.id].last # 0

\* The channel of the event being published stays in the map.
PublishesKnown == handler = "publish" => Joined(evt.id)

\* What is stored, paged or mapped was registered; the page and the map hold
\* channels of this replica, each under its own id.
Registered ==
  /\ \A r \in coll : r.reg \in ever
  /\ \A q \in page : q \in ever /\ q.label = MyLabel
  /\ \A i \in DOMAIN chansJoined :
       /\ chansJoined[i].reg \in ever
       /\ chansJoined[i].reg.id = i
       /\ chansJoined[i].reg.label = MyLabel

\* A source read without the lock is that of the map's entry, or of the entry
\* the loop is about to complete.
SourceAgrees ==
  handler # "idle" /\ evt.src # NoLink =>
    \/ Joined(evt.id) /\ evt.src = chansJoined[evt.id].reg.link
    \/ /\ refresh = "write"
       /\ \E q \in page : IsNext(q) /\ q.id = evt.id /\ q.link = evt.src

\* Every message in the queue was posted, so was the one the handler has, with
\* the body it has, and every date in the map is of a message of that chat.
DatesPosted ==
  /\ \A k \in 1 .. Len(updates) : updates[k] \in posted
  /\ handler # "idle" =>
       \E m \in posted : m.id = evt.id /\ m.date = evt.date /\ m.body = evt.body
  /\ \A i \in DOMAIN chansJoined :
       \/ chansJoined[i].last = 0
       \/ \E m \in posted : m.id = i /\ m.date = chansJoined[i].last

\* What carries the tag or no data is not on its way to the writer.
TextPublished == handler = "publish" => evt.body = "text"

IInv ==
  /\ TypeOK /\ LockProtocol /\ OneRecordPerKey
  /\ PageOrdered /\ WritesNew /\ UpdatesKnown /\ PublishesKnown
  /\ Registered /\ SourceAgrees /\ EventsOfOneRegistration
  /\ DatesPosted /\ LastAccounted

-----------------------------------------------------------------------------
(* Type correctness.                                                       *)

\* The initial state is well typed.
LEMMA InitType == Init => TypeOK
<1> SUFFICES ASSUME Init PROVE TypeOK
  OBVIOUS
<1>1. MapType(chansJoined)
  BY EmptyMapType DEF Init
<1>2. updates \in Seq(Post)
  BY EmptySeq DEF Init
<1> QED BY <1>1, <1>2 DEF Init, TypeOK, MapType

\* A step of a client keeps the types.
LEMMA ClientsType == TypeOK /\ Clients => TypeOK'
<1> SUFFICES ASSUME TypeOK, Clients PROVE TypeOK'
  OBVIOUS
<1> USE RequestsAreRegistrations
<1>1. CASE \E q \in Requests : CreateCheck(q)
  BY <1>1 DEF TypeOK, CreateCheck, telegram, loop, handling
<1>2. ASSUME NEW q \in Requests, CreateInsert(q) PROVE TypeOK'
  <2>1. coll' \subseteq Channel
    BY <1>2, InsertOneType DEF TypeOK, CreateInsert
  <2> QED BY <1>2, <2>1 DEF TypeOK, CreateInsert, telegram, loop, handling
<1>3. CASE \E q \in Requests : CreateFails(q)
  BY <1>3 DEF TypeOK, CreateFails, telegram, loop, handling
<1>4. ASSUME NEW link \in Removals, RemoveRecord(link) PROVE TypeOK'
  <2>1. coll' \subseteq Channel
    BY <1>4, DeleteOneSubset DEF TypeOK, RemoveRecord
  <2> QED BY <1>4, <2>1 DEF TypeOK, RemoveRecord, telegram, loop, handling
<1> QED BY <1>1, <1>2, <1>3, <1>4 DEF Clients

\* A step of Telegram keeps the types.
LEMMA TelegramType == TypeOK /\ Telegram => TypeOK'
<1> SUFFICES ASSUME TypeOK, NEW i \in Ids,
                    \/ \E body \in Contents : PostMessage(i, body)
                    \/ ToggleTag(i)
                    \/ Expel(i)
             PROVE  TypeOK'
  BY DEF Telegram
<1>1. ASSUME NEW body \in Contents, PostMessage(i, body) PROVE TypeOK'
  <2> DEFINE m == [id |-> i, date |-> clock + 1, body |-> body]
  <2>1. m \in Post
    BY ContentsAreBodies DEF Post, Bodies, TypeOK
  <2>2. updates' \in Seq(Post)
    BY <1>1, <2>1, AppendProperties DEF PostMessage, TypeOK
  <2>3. posted' \subseteq Post
    BY <1>1, <2>1 DEF PostMessage, TypeOK
  <2> QED BY <1>1, <2>2, <2>3 DEF TypeOK, PostMessage, store, loop, handling
<1>2. CASE ToggleTag(i)
  BY <1>2 DEF TypeOK, ToggleTag, store, loop, handling
<1>3. CASE Expel(i)
  BY <1>3 DEF TypeOK, Expel, store, loop, handling
<1> QED BY <1>1, <1>2, <1>3

\* A step of the refresh loop keeps the types.
LEMMA RefreshLoopType == TypeOK /\ UpdatesKnown /\ RefreshLoop => TypeOK'
<1> SUFFICES ASSUME TypeOK, UpdatesKnown, RefreshLoop PROVE TypeOK'
  OBVIOUS
<1>1. CASE ListChats
  BY <1>1 DEF TypeOK, ListChats, store, telegram, handling
<1>2. CASE ListChannels
  <2>1. \A n : LabelPage(coll, MyLabel, n) \subseteq Registration
    BY LabelPageRegs DEF TypeOK, Channel
  <2>2. page' \subseteq Registration
    BY <1>2, <2>1 DEF ListChannels
  <2> QED BY <1>2, <2>2 DEF TypeOK, ListChannels, store, telegram, handling
<1>3. CASE RoundFails
  BY <1>3 DEF TypeOK, RoundFails, store, telegram, handling
<1>4. CASE EndRound
  BY <1>4 DEF TypeOK, EndRound, store, telegram, handling
<1>5. ASSUME NEW q \in page, Handle(q) PROVE TypeOK'
  <2>1. q \in Registration /\ q.id \in Ids
    BY DEF TypeOK, Registration
  <2>2. CASE JoinChat(q) \/ JoinFails(q)
    BY <2>1, <2>2 DEF TypeOK, JoinChat, JoinFails, store, handling
  <2>3. CASE TagFound(q) \/ NoTagFound(q)
    BY <2>3 DEF TypeOK, TagFound, NoTagFound, store, telegram, handling
  <2>4. CASE DeleteTagged(q)
    <3>1. coll' \subseteq Channel
      BY <2>4, DeleteOneSubset DEF DeleteTagged, TypeOK
    <3> QED BY <2>4, <3>1 DEF TypeOK, DeleteTagged, telegram, handling
  <2>5. CASE DeleteTaggedFails(q)
    BY <2>5 DEF TypeOK, DeleteTaggedFails, store, telegram, handling
  <2>6. CASE RefreshLock(q)
    BY <2>6 DEF TypeOK, RefreshLock, store, telegram, handling
  <2>7. CASE RefreshWrite(q)
    <3>1. [reg |-> q, last |-> 0] \in Entry
      BY <2>1 DEF Entry
    <3>2. MapType(chansJoined')
      BY <2>1, <2>7, <3>1, AssignLemma DEF RefreshWrite, TypeOK, MapType
    <3> QED BY <2>7, <3>2
            DEF TypeOK, MapType, RefreshWrite, store, telegram, handling
  <2>8. CASE RefreshUpdate(q)
    <3>1. chansJoined[q.id].last \in Nat
      BY <2>8 DEF RefreshUpdate, UpdatesKnown, TypeOK, Joined, Entry
    <3>2. coll' \subseteq Channel
      BY <2>8, <3>1, UpdateLastType DEF TypeOK, RefreshUpdate
    <3> QED BY <2>8, <3>2 DEF TypeOK, RefreshUpdate, telegram, handling
  <2>9. CASE RefreshUpdateFails(q)
    BY <2>9 DEF TypeOK, RefreshUpdateFails, store, telegram, handling
  <2> QED BY <1>5, <2>2, <2>3, <2>4, <2>5, <2>6, <2>7, <2>8, <2>9 DEF Handle
<1> QED BY <1>1, <1>2, <1>3, <1>4, <1>5 DEF RefreshLoop

\* A step of the message handler keeps the types.
LEMMA MessageHandlerType ==
  TypeOK /\ PublishesKnown /\ MessageHandler => TypeOK'
<1> SUFFICES ASSUME TypeOK, PublishesKnown, MessageHandler PROVE TypeOK'
  OBVIOUS
<1>1. CASE Convert
  <2> DEFINE m == Head(updates)
  <2>1. m \in Post /\ updates' \in Seq(Post)
    BY <1>1, HeadTailProperties DEF Convert, TypeOK
  <2>2. SourcesSeen(m.id) \subseteq Links \union {NoLink}
    BY DEF SourcesSeen, TypeOK, Joined, Entry, Registration
  <2>3. /\ handler' \in {"idle", "lock"}
        /\ evt' \in Event \union {NoEvent}
        /\ handler' # "idle" => evt' \in Event
    <3>1. CASE m.body = "nobot"
      BY <1>1, <3>1 DEF Convert, TypeOK
    <3>2. CASE m.body # "nobot"
      <4>1. PICK src \in SourcesSeen(m.id) :
              evt' = [id |-> m.id, date |-> m.date, body |-> m.body,
                      src |-> src]
        BY <1>1, <3>2 DEF Convert
      <4>2. evt' \in Event
        BY <2>1, <2>2, <4>1 DEF Post, Event
      <4> QED BY <1>1, <3>2, <4>2 DEF Convert
    <3> QED BY <3>1, <3>2
  <2> QED BY <1>1, <2>1, <2>3 DEF TypeOK, Convert, store, telegram, loop
<1>2. CASE HandleUnknown
  BY <1>2 DEF TypeOK, HandleUnknown, Idle, store, telegram, loop
<1>3. CASE HandleKnown
  <2>1. evt \in Event /\ evt.date \in Nat
    BY <1>3 DEF HandleKnown, TypeOK, Event
  <2>2. MapType(chansJoined')
    BY <1>3, <2>1, SetLastLemma DEF HandleKnown, TypeOK, MapType, Joined
  <2> QED BY <1>3, <2>1, <2>2
          DEF TypeOK, MapType, HandleKnown, Idle, store, telegram, loop
<1>4. CASE PublishDone
  <2>1. evt \in Event /\ Joined(evt.id)
    BY <1>4 DEF PublishDone, TypeOK, PublishesKnown
  <2>2. UserOf(chansJoined[evt.id].reg) \in Users \union Links
    BY <2>1 DEF TypeOK, Joined, Entry, Registration, UserOf
  <2>3. published' \subseteq Output
    BY <1>4, <2>1, <2>2 DEF PublishDone, TypeOK, Event, Output
  <2> QED BY <1>4, <2>3 DEF TypeOK, PublishDone, Idle, store, telegram, loop
<1>5. CASE PublishFails
  BY <1>5 DEF TypeOK, PublishFails, Idle, store, telegram, loop
<1> QED BY <1>1, <1>2, <1>3, <1>4, <1>5 DEF MessageHandler

\* A restart keeps the types.
LEMMA RestartType == TypeOK /\ Restart => TypeOK'
<1> SUFFICES ASSUME TypeOK, Restart PROVE TypeOK'
  OBVIOUS
<1>1. MapType(chansJoined')
  BY EmptyMapType DEF Restart, MapType, EmptyMap
<1>2. updates' \in Seq(Post)
  <2>1. PICK n \in 0 .. Len(updates) :
          updates' = SubSeq(updates, n + 1, Len(updates))
    BY DEF Restart
  <2>2. updates \in Seq(Post) /\ Len(updates) \in Nat
    BY LenProperties DEF TypeOK
  <2>3. CASE n = Len(updates)
    BY <2>1, <2>2, <2>3, SubSeqProperties, EmptySeq
  <2>4. CASE n < Len(updates)
    BY <2>1, <2>2, <2>4, SubSeqProperties
  <2> QED BY <2>2, <2>3, <2>4
<1> QED BY <1>1, <1>2
        DEF TypeOK, MapType, Restart, Idle, telegram

\* A stuttering step keeps the types.
LEMMA StutterType == TypeOK /\ UNCHANGED vars => TypeOK'
BY DEF TypeOK, vars, store, telegram, loop, handling

\* Every step keeps the types.
LEMMA NextType ==
  TypeOK /\ UpdatesKnown /\ PublishesKnown /\ [Next]_vars => TypeOK'
BY ClientsType, TelegramType, RefreshLoopType, MessageHandlerType,
   RestartType, StutterType DEF Next, MapRace, Crash

-----------------------------------------------------------------------------
(* Which steps touch what.                                                 *)

\* The refresh loop's steps for one channel.
LEMMA HandleFrame ==
  ASSUME NEW q \in page, Handle(q)
  PROVE  /\ IsNext(q)
         /\ refresh \in {"each", "check", "delete", "lock", "write", "update"}
         /\ \/ page' = page \ {q} /\ refresh' = "each"
            \/ page' = page /\ refresh' \in {"check", "delete", "lock"}
            \/ page' = page /\ RefreshLock(q)
         /\ chansJoined' = chansJoined \/ RefreshWrite(q)
         /\ \/ coll' = coll
            \/ DeleteTagged(q)
            \/ RefreshUpdate(q)
         /\ ever' = ever /\ posted' = posted /\ updates' = updates
         /\ handler' = handler /\ evt' = evt /\ published' = published
         /\ crashes' = crashes
<1> USE DEF store, telegram, handling
<1>1. CASE JoinChat(q)
  BY <1>1 DEF JoinChat
<1>2. CASE JoinFails(q)
  BY <1>2 DEF JoinFails
<1>3. CASE TagFound(q) \/ NoTagFound(q)
  BY <1>3 DEF TagFound, NoTagFound, AtTagCheck
<1>4. CASE DeleteTagged(q)
  BY <1>4 DEF DeleteTagged
<1>5. CASE DeleteTaggedFails(q)
  BY <1>5 DEF DeleteTaggedFails
<1>6. CASE RefreshLock(q)
  BY <1>6 DEF RefreshLock
<1>7. CASE RefreshWrite(q)
  BY <1>7 DEF RefreshWrite
<1>8. CASE RefreshUpdate(q)
  BY <1>8 DEF RefreshUpdate
<1>9. CASE RefreshUpdateFails(q)
  BY <1>9 DEF RefreshUpdateFails
<1> QED BY <1>1, <1>2, <1>3, <1>4, <1>5, <1>6, <1>7, <1>8, <1>9 DEF Handle

\* The map changes when the loop assigns an entry, when the handler sets a
\* date, and in a restart.
LEMMA MapFrame ==
  ASSUME [Next]_vars
  PROVE  \/ chansJoined' = chansJoined
         \/ \E q \in page : RefreshWrite(q)
         \/ HandleKnown
         \/ Restart
<1>1. CASE Clients
  BY <1>1 DEF Clients, CreateCheck, CreateInsert, CreateFails, RemoveRecord
<1>2. CASE Telegram
  BY <1>2 DEF Telegram, PostMessage, ToggleTag, Expel
<1>3. CASE RefreshLoop
  BY <1>3, HandleFrame
     DEF RefreshLoop, ListChats, ListChannels, RoundFails, EndRound
<1>4. CASE MessageHandler
  BY <1>4 DEF MessageHandler, Convert, HandleUnknown, PublishDone, PublishFails
<1>5. CASE UNCHANGED vars
  BY <1>5 DEF vars
<1> QED BY <1>1, <1>2, <1>3, <1>4, <1>5 DEF Next, MapRace, Crash

\* The loop's place and page change by the loop and in a restart only.
LEMMA LoopFrame ==
  ASSUME [Next]_vars
  PROVE  (refresh' = refresh /\ page' = page) \/ RefreshLoop \/ Restart
<1> USE DEF loop
<1>1. CASE Clients
  BY <1>1 DEF Clients, CreateCheck, CreateInsert, CreateFails, RemoveRecord
<1>2. CASE Telegram
  BY <1>2 DEF Telegram, PostMessage, ToggleTag, Expel
<1>3. CASE MessageHandler
  BY <1>3 DEF MessageHandler, Convert, HandleUnknown, HandleKnown, PublishDone,
              PublishFails
<1>4. CASE UNCHANGED vars
  BY <1>4 DEF vars
<1> QED BY <1>1, <1>2, <1>3, <1>4 DEF Next, MapRace, Crash

\* The collection changes by an insert, a delete or an update.
LEMMA CollFrame ==
  ASSUME [Next]_vars
  PROVE  \/ coll' = coll
         \/ \E q \in Requests : CreateInsert(q)
         \/ \E link : coll' = DeleteOne(coll, link)
         \/ \E q \in page : RefreshUpdate(q)
<1> USE DEF store
<1>1. CASE Clients
  BY <1>1 DEF Clients, CreateCheck, CreateFails, RemoveRecord
<1>2. CASE Telegram
  BY <1>2 DEF Telegram, PostMessage, ToggleTag, Expel
<1>3. CASE RefreshLoop
  BY <1>3, HandleFrame
     DEF RefreshLoop, ListChats, ListChannels, RoundFails, EndRound, DeleteTagged
<1>4. CASE MessageHandler
  BY <1>4 DEF MessageHandler, Convert, HandleUnknown, HandleKnown, PublishDone,
              PublishFails
<1>5. CASE UNCHANGED vars
  BY <1>5 DEF vars
<1> QED BY <1>1, <1>2, <1>3, <1>4, <1>5 DEF Next, MapRace, Crash, Restart

\* The history of registrations changes by an insert only.
LEMMA EverFrame ==
  ASSUME [Next]_vars
  PROVE  ever' = ever \/ \E q \in Requests : CreateInsert(q)
<1> USE DEF store
<1>1. CASE Clients
  BY <1>1 DEF Clients, CreateCheck, CreateFails, RemoveRecord
<1>2. CASE Telegram
  BY <1>2 DEF Telegram, PostMessage, ToggleTag, Expel
<1>3. CASE RefreshLoop
  BY <1>3, HandleFrame
     DEF RefreshLoop, ListChats, ListChannels, RoundFails, EndRound
<1>4. CASE MessageHandler
  BY <1>4 DEF MessageHandler, Convert, HandleUnknown, HandleKnown, PublishDone,
              PublishFails
<1>5. CASE UNCHANGED vars
  BY <1>5 DEF vars
<1> QED BY <1>1, <1>2, <1>3, <1>4, <1>5 DEF Next, MapRace, Crash, Restart

\* The handler's state changes by the handler and in a restart only.
LEMMA HandlerFrame ==
  ASSUME [Next]_vars
  PROVE  UNCHANGED <<handler, evt, published>> \/ MessageHandler \/ Restart
<1> USE DEF handling
<1>1. CASE Clients
  BY <1>1 DEF Clients, CreateCheck, CreateInsert, CreateFails, RemoveRecord
<1>2. CASE Telegram
  BY <1>2 DEF Telegram, PostMessage, ToggleTag, Expel
<1>3. CASE RefreshLoop
  BY <1>3, HandleFrame
     DEF RefreshLoop, ListChats, ListChannels, RoundFails, EndRound
<1>4. CASE UNCHANGED vars
  BY <1>4 DEF vars
<1> QED BY <1>1, <1>2, <1>3, <1>4 DEF Next, MapRace, Crash

-----------------------------------------------------------------------------
(* The steps preserve the invariant, part by part.                         *)

\* The steps keep the lock with its holder.
LEMMA NextLock == LockProtocol /\ [Next]_vars => LockProtocol'
<1> SUFFICES ASSUME LockProtocol, [Next]_vars PROVE LockProtocol'
  OBVIOUS
<1> USE DEF LockProtocol, loop, handling
<1>1. CASE Clients
  BY <1>1 DEF Clients, CreateCheck, CreateInsert, CreateFails, RemoveRecord
<1>2. CASE Telegram
  BY <1>2 DEF Telegram, PostMessage, ToggleTag, Expel
<1>3. CASE ListChats \/ ListChannels \/ RoundFails \/ EndRound
  BY <1>3 DEF ListChats, ListChannels, RoundFails, EndRound
<1>4. ASSUME NEW q \in page, Handle(q) PROVE LockProtocol'
  <2>1. CASE JoinChat(q) \/ JoinFails(q)
    BY <2>1 DEF JoinChat, JoinFails
  <2>2. CASE TagFound(q) \/ NoTagFound(q)
    BY <2>2 DEF TagFound, NoTagFound, AtTagCheck
  <2>3. CASE DeleteTagged(q) \/ DeleteTaggedFails(q)
    BY <2>3 DEF DeleteTagged, DeleteTaggedFails
  <2>4. CASE RefreshLock(q)
    BY <2>4 DEF RefreshLock
  <2>5. CASE RefreshWrite(q)
    BY <2>5 DEF RefreshWrite
  <2>6. CASE RefreshUpdate(q) \/ RefreshUpdateFails(q)
    BY <2>6 DEF RefreshUpdate, RefreshUpdateFails
  <2> QED BY <1>4, <2>1, <2>2, <2>3, <2>4, <2>5, <2>6 DEF Handle
<1>5. CASE Convert
  BY <1>5 DEF Convert
<1>6. CASE HandleUnknown \/ HandleKnown
  BY <1>6 DEF HandleUnknown, HandleKnown, Idle
<1>7. CASE PublishDone \/ PublishFails
  BY <1>7 DEF PublishDone, PublishFails, Idle
<1>8. CASE Restart
  BY <1>8 DEF Restart, Idle
<1>9. CASE UNCHANGED vars
  BY <1>9 DEF vars
<1> QED BY <1>1, <1>2, <1>3, <1>4, <1>5, <1>6, <1>7, <1>8, <1>9
        DEF Next, RefreshLoop, MessageHandler, MapRace, Crash

\* The steps keep the keys unique.
LEMMA NextUnique ==
  TypeOK /\ UpdatesKnown /\ OneRecordPerKey /\ [Next]_vars => OneRecordPerKey'
<1> SUFFICES ASSUME TypeOK, UpdatesKnown, OneRecordPerKey, [Next]_vars
             PROVE  OneRecordPerKey'
  OBVIOUS
<1> USE DEF OneRecordPerKey
<1>1. CASE coll' = coll
  BY <1>1
<1>2. ASSUME NEW q \in Requests, CreateInsert(q) PROVE OneRecordPerKey'
  BY <1>2, InsertOneUnique, RequestsAreRegistrations DEF CreateInsert, TypeOK
<1>3. CASE \E link : coll' = DeleteOne(coll, link)
  BY <1>3, DeleteOneSubset, UniqueKeysSubset
<1>4. ASSUME NEW q \in page, RefreshUpdate(q) PROVE OneRecordPerKey'
  <2>1. chansJoined[q.id].last \in Nat
    BY <1>4 DEF RefreshUpdate, UpdatesKnown, TypeOK, Joined, Entry
  <2> QED BY <1>4, <2>1, UpdateLastUnique DEF RefreshUpdate, TypeOK
<1> QED BY <1>1, <1>2, <1>3, <1>4, CollFrame

\* The steps keep the page in order.
LEMMA NextOrdered ==
  OneRecordPerKey /\ PageOrdered /\ [Next]_vars => PageOrdered'
<1> SUFFICES ASSUME OneRecordPerKey, PageOrdered, [Next]_vars
             PROVE  PageOrdered'
  OBVIOUS
<1> USE DEF PageOrdered
<1>1. CASE page' = page
  BY <1>1
<1>2. CASE ListChannels
  BY <1>2, LabelPageUnique DEF ListChannels, OneRecordPerKey
<1>3. CASE ListChats \/ RoundFails \/ EndRound
  BY <1>3 DEF ListChats, RoundFails, EndRound
<1>4. CASE \E q \in page : Handle(q)
  BY <1>4, HandleFrame
<1>5. CASE Restart
  BY <1>5 DEF Restart
<1> QED BY <1>1, <1>2, <1>3, <1>4, <1>5, LoopFrame DEF RefreshLoop

\* In an ordered page at most one channel is next.
LEMMA OneNext ==
  ASSUME TypeOK, PageOrdered, NEW p \in page, NEW q \in page,
         IsNext(p), IsNext(q)
  PROVE  p = q
<1>1. p.link \in Nat /\ q.link \in Nat
  BY LinksAreOrdered DEF TypeOK, Registration
<1>2. p.link = q.link
  BY <1>1 DEF IsNext
<1> QED BY <1>2 DEF PageOrdered

\* Outside a restart the map keeps its keys and their registrations.
LEMMA MapGrows ==
  ASSUME TypeOK, PageOrdered, WritesNew, [Next]_vars, ~Restart
  PROVE  \A i \in DOMAIN chansJoined :
           i \in DOMAIN chansJoined' /\ chansJoined'[i].reg = chansJoined[i].reg
<1>1. CASE chansJoined' = chansJoined
  BY <1>1
<1>2. ASSUME NEW q \in page, RefreshWrite(q)
      PROVE  \A i \in DOMAIN chansJoined :
               i \in DOMAIN chansJoined' /\ chansJoined'[i] = chansJoined[i]
  BY <1>2 DEF RefreshWrite, WritesNew, Joined, Assign
<1>3. CASE HandleKnown
  <2>1. evt.date \in Nat /\ MapType(chansJoined)
    BY <1>3 DEF HandleKnown, TypeOK, Event, MapType
  <2> QED BY <1>3, <2>1, SetLastLemma DEF HandleKnown, Joined
<1> QED BY <1>1, <1>2, <1>3, MapFrame

\* A step of the loop ends at "write" or "update" only by taking the lock.
LEMMA ReachesCritical ==
  ASSUME RefreshLoop, refresh' \in {"write", "update"}
  PROVE  \E q \in page : RefreshLock(q)
BY HandleFrame DEF RefreshLoop, ListChats, ListChannels, RoundFails, EndRound

\* The steps keep the loop from overwriting an entry.
LEMMA NextWritesNew ==
  TypeOK /\ LockProtocol /\ PageOrdered /\ WritesNew /\ [Next]_vars => WritesNew'
<1> SUFFICES ASSUME TypeOK, LockProtocol, PageOrdered, WritesNew, [Next]_vars,
                    refresh' = "write", NEW p \in page', IsNext(p)'
             PROVE  ~Joined(p.id)'
  BY DEF WritesNew
<1>1. CASE RefreshLoop
  <2>1. PICK q \in page : RefreshLock(q)
    BY <1>1, ReachesCritical
  <2>2. page' = page /\ chansJoined' = chansJoined /\ ~Joined(q.id) /\ IsNext(q)
    BY <2>1 DEF RefreshLock
  <2>3. p = q
    BY <2>2, OneNext DEF IsNext
  <2> QED BY <2>2, <2>3 DEF Joined
<1>2. CASE refresh' = refresh /\ page' = page /\ ~RefreshLoop
  <2>1. ~Joined(p.id)
    BY <1>2 DEF WritesNew, IsNext
  <2>2. lock # "free"
    BY <1>2 DEF LockProtocol
  <2>3. ~HandleKnown /\ ~Restart
    BY <2>2 DEF HandleKnown, Restart
  <2>4. \A q \in page : ~RefreshWrite(q)
    BY <1>2 DEF RefreshLoop, Handle
  <2> QED BY <2>1, <2>3, <2>4, MapFrame DEF Joined
<1>3. CASE Restart
  BY <1>3 DEF Restart
<1> QED BY <1>1, <1>2, <1>3, LoopFrame

\* The steps keep the entry that an update is made from.
LEMMA NextUpdatesKnown ==
  /\ TypeOK /\ LockProtocol /\ PageOrdered /\ UpdatesKnown
  /\ [Next]_vars
  => UpdatesKnown'
<1> SUFFICES ASSUME TypeOK, LockProtocol, PageOrdered, UpdatesKnown,
                    [Next]_vars,
                    refresh' = "update", NEW p \in page', IsNext(p)'
             PROVE  (Joined(p.id) /\ chansJoined[p.id].last # 0)'
  BY DEF UpdatesKnown
<1>1. CASE RefreshLoop
  <2>1. PICK q \in page : RefreshLock(q)
    BY <1>1, ReachesCritical
  <2>2. /\ page' = page /\ chansJoined' = chansJoined /\ IsNext(q)
        /\ Joined(q.id) /\ chansJoined[q.id].last # 0
    BY <2>1 DEF RefreshLock
  <2>3. p = q
    BY <2>2, OneNext DEF IsNext
  <2> QED BY <2>2, <2>3 DEF Joined
<1>2. CASE refresh' = refresh /\ page' = page /\ ~RefreshLoop
  <2>1. Joined(p.id) /\ chansJoined[p.id].last # 0
    BY <1>2 DEF UpdatesKnown, IsNext
  <2>2. lock # "free"
    BY <1>2 DEF LockProtocol
  <2>3. ~HandleKnown /\ ~Restart
    BY <2>2 DEF HandleKnown, Restart
  <2>4. \A q \in page : ~RefreshWrite(q)
    BY <1>2 DEF RefreshWrite
  <2> QED BY <2>1, <2>3, <2>4, MapFrame DEF Joined
<1>3. CASE Restart
  BY <1>3 DEF Restart
<1> QED BY <1>1, <1>2, <1>3, LoopFrame

\* The steps keep the entry that an event is published from.
LEMMA NextPublishesKnown ==
  TypeOK /\ PageOrdered /\ WritesNew /\ PublishesKnown /\ [Next]_vars
  => PublishesKnown'
<1> SUFFICES ASSUME TypeOK, PageOrdered, WritesNew, PublishesKnown, [Next]_vars,
                    handler' = "publish"
             PROVE  Joined(evt.id)'
  BY DEF PublishesKnown
<1>1. ~Restart
  BY DEF Restart, Idle
<1>2. evt' = evt /\ Joined(evt.id)
  <2>1. CASE MessageHandler
    BY <2>1 DEF MessageHandler, Convert, HandleUnknown, HandleKnown, PublishDone,
                PublishFails, Idle
  <2>2. CASE UNCHANGED <<handler, evt, published>>
    BY <2>2 DEF PublishesKnown
  <2> QED BY <1>1, <2>1, <2>2, HandlerFrame
<1> QED BY <1>1, <1>2, MapGrows DEF Joined

\* The steps keep everything stored, paged and mapped registered.
LEMMA NextRegistered ==
  /\ TypeOK /\ PageOrdered /\ WritesNew /\ UpdatesKnown /\ Registered
  /\ [Next]_vars
  => Registered'
<1> SUFFICES ASSUME TypeOK, PageOrdered, WritesNew, UpdatesKnown, Registered,
                    [Next]_vars
             PROVE  Registered'
  OBVIOUS
<1>1. ever \subseteq ever'
  BY EverFrame DEF CreateInsert
<1>2. \A r \in coll' : r.reg \in ever'
  <2>1. CASE coll' = coll
    BY <1>1, <2>1 DEF Registered
  <2>2. ASSUME NEW q \in Requests, CreateInsert(q)
        PROVE  \A r \in coll' : r.reg \in ever'
    BY <1>1, <2>2, InsertOneRegs DEF Registered, CreateInsert
  <2>3. CASE \E link : coll' = DeleteOne(coll, link)
    BY <1>1, <2>3, DeleteOneSubset DEF Registered
  <2>4. ASSUME NEW q \in page, RefreshUpdate(q)
        PROVE  \A r \in coll' : r.reg \in ever'
    <3>1. chansJoined[q.id].last \in Nat
      BY <2>4 DEF RefreshUpdate, UpdatesKnown, TypeOK, Joined, Entry
    <3>2. /\ coll \in SUBSET Channel
          /\ coll' = UpdateLast(coll, q.link, chansJoined[q.id].last)
      BY <2>4 DEF RefreshUpdate, TypeOK
    <3>3. \A r \in coll' : \E s \in coll : r.reg = s.reg
      BY <3>1, <3>2, UpdateLastOrigin
    <3> QED BY <1>1, <3>3 DEF Registered
  <2> QED BY <2>1, <2>2, <2>3, <2>4, CollFrame
<1>3. \A q \in page' : q \in ever' /\ q.label = MyLabel
  <2>1. CASE page' \subseteq page
    BY <1>1, <2>1 DEF Registered
  <2>2. CASE ListChannels
    BY <1>1, <2>2, LabelPageRegs DEF ListChannels, Registered
  <2>3. CASE RefreshLoop /\ ~ListChannels
    <3>1. page' \subseteq page
      BY <2>3, HandleFrame DEF RefreshLoop, ListChats, RoundFails, EndRound
    <3> QED BY <2>1, <3>1
  <2>4. CASE Restart
    BY <2>4 DEF Restart
  <2> QED BY <2>1, <2>2, <2>3, <2>4, LoopFrame
<1>4. ASSUME NEW i \in DOMAIN chansJoined'
      PROVE  /\ chansJoined'[i].reg \in ever'
             /\ chansJoined'[i].reg.id = i
             /\ chansJoined'[i].reg.label = MyLabel
  <2>1. CASE chansJoined' = chansJoined
    BY <1>1, <2>1 DEF Registered
  <2>2. ASSUME NEW q \in page, RefreshWrite(q)
        PROVE  /\ chansJoined'[i].reg \in ever'
               /\ chansJoined'[i].reg.id = i
               /\ chansJoined'[i].reg.label = MyLabel
    BY <1>1, <2>2 DEF RefreshWrite, Assign, Registered
  <2>3. CASE HandleKnown
    <3>1. evt.date \in Nat /\ MapType(chansJoined)
      BY <2>3 DEF HandleKnown, TypeOK, Event, MapType
    <3> QED BY <1>1, <2>3, <3>1, SetLastLemma DEF HandleKnown, Joined, Registered
  <2>4. CASE Restart
    BY <2>4 DEF Restart, EmptyMap
  <2> QED BY <2>1, <2>2, <2>3, <2>4, MapFrame
<1> QED BY <1>2, <1>3, <1>4 DEF Registered

\* The steps keep the source of the event in hand that of its entry.
LEMMA NextSource ==
  /\ TypeOK /\ LockProtocol /\ PageOrdered /\ WritesNew /\ SourceAgrees
  /\ [Next]_vars
  => SourceAgrees'
<1> SUFFICES ASSUME TypeOK, LockProtocol, PageOrdered, WritesNew, SourceAgrees,
                    [Next]_vars,
                    handler' # "idle", evt'.src # NoLink
             PROVE  \/ /\ Joined(evt.id)'
                       /\ evt'.src = chansJoined'[evt'.id].reg.link
                    \/ /\ refresh' = "write"
                       /\ \E q \in page' : /\ IsNext(q)'
                                           /\ q.id = evt'.id
                                           /\ q.link = evt'.src
  BY DEF SourceAgrees
<1>1. ~Restart
  BY DEF Restart, Idle
<1>2. \A i : Joined(i) => /\ Joined(i)'
                          /\ chansJoined'[i].reg = chansJoined[i].reg
  BY <1>1, MapGrows DEF Joined
<1>3. CASE Convert
  <2> DEFINE i == Head(updates).id
  <2>1. evt'.id = i /\ evt'.src \in SourcesSeen(i)
    BY <1>3 DEF Convert
  <2>2. UNCHANGED <<chansJoined, refresh, page>>
    BY <1>3 DEF Convert, loop
  <2> QED BY <2>1, <2>2 DEF SourcesSeen, Joined, IsNext
<1>4. CASE ~Convert
  <2>1. evt' = evt /\ handler # "idle"
    <3>1. CASE MessageHandler
      BY <1>4, <3>1 DEF MessageHandler, HandleUnknown, HandleKnown, PublishDone,
                        PublishFails, Idle
    <3>2. CASE UNCHANGED <<handler, evt, published>>
      BY <3>2
    <3> QED BY <1>1, <3>1, <3>2, HandlerFrame
  <2>2. CASE Joined(evt.id) /\ evt.src = chansJoined[evt.id].reg.link
    BY <1>2, <2>1, <2>2 DEF Joined
  <2>3. ASSUME refresh = "write",
               NEW q \in page, IsNext(q), q.id = evt.id, q.link = evt.src
        PROVE  \/ /\ Joined(evt.id)'
                  /\ evt'.src = chansJoined'[evt'.id].reg.link
               \/ /\ refresh' = "write"
                  /\ \E p \in page' : /\ IsNext(p)'
                                      /\ p.id = evt'.id
                                      /\ p.link = evt'.src
    <3>1. CASE UNCHANGED <<refresh, page>>
      BY <2>1, <2>3, <3>1 DEF IsNext
    <3>2. CASE RefreshLoop
      <4>1. PICK p \in page : RefreshWrite(p)
        BY <2>3, <3>2
           DEF RefreshLoop, ListChats, ListChannels, RoundFails, EndRound, Handle,
               JoinChat, JoinFails, TagFound, NoTagFound, AtTagCheck,
               DeleteTagged, DeleteTaggedFails, RefreshLock, RefreshUpdate,
               RefreshUpdateFails
      <4>2. p = q
        BY <2>3, <4>1, OneNext DEF RefreshWrite
      <4>3. chansJoined' = Assign(q.id, [reg |-> q, last |-> 0])
        BY <4>1, <4>2 DEF RefreshWrite
      <4> QED BY <2>1, <2>3, <4>3 DEF Assign, Joined
    <3> QED BY <1>1, <3>1, <3>2, LoopFrame
  <2> QED BY <2>1, <2>2, <2>3 DEF SourceAgrees
<1> QED BY <1>3, <1>4

\* The steps keep every event one registration's.
LEMMA NextEvents ==
  /\ TypeOK /\ LockProtocol /\ PublishesKnown /\ Registered /\ SourceAgrees
  /\ EventsOfOneRegistration /\ [Next]_vars
  => EventsOfOneRegistration'
<1> SUFFICES ASSUME TypeOK, LockProtocol, PublishesKnown, Registered,
                    SourceAgrees, EventsOfOneRegistration, [Next]_vars,
                    NEW p \in published'
             PROVE  \E q \in ever' :
                      /\ q.id = p.id /\ q.label = MyLabel
                      /\ p.user = UserOf(q)
                      /\ p.src \in {NoLink, q.link}
  BY DEF EventsOfOneRegistration
<1>1. ever \subseteq ever'
  BY EverFrame DEF CreateInsert
<1>2. CASE p \in published
  BY <1>1, <1>2 DEF EventsOfOneRegistration
<1>3. CASE PublishDone /\ p \notin published
  <2> DEFINE q == chansJoined[evt.id].reg
  <2>1. /\ p.id = evt.id /\ p.src = evt.src
        /\ p.user = UserOf(q)
    BY <1>3 DEF PublishDone
  <2>2. Joined(evt.id)
    BY <1>3 DEF PublishDone, PublishesKnown
  <2>3. q \in ever /\ q.id = evt.id /\ q.label = MyLabel
    BY <2>2 DEF Registered, Joined
  <2>4. refresh # "write"
    BY <1>3 DEF LockProtocol, PublishDone
  <2>5. evt.src \in {NoLink, q.link}
    BY <1>3, <2>4 DEF SourceAgrees, PublishDone
  <2> QED BY <1>1, <2>1, <2>3, <2>5
<1>4. CASE ~PublishDone
  <2>1. published' = published
    <3>1. CASE MessageHandler
      BY <1>4, <3>1 DEF MessageHandler, Convert, HandleUnknown, HandleKnown,
                        PublishFails
    <3>2. CASE Restart
      BY <3>2 DEF Restart
    <3> QED BY <3>1, <3>2, HandlerFrame
  <2> QED BY <1>2, <2>1
<1> QED BY <1>2, <1>3, <1>4

\* The history of messages only grows, with the queue it feeds.
LEMMA PostedFrame ==
  ASSUME TypeOK, [Next]_vars, \A k \in 1 .. Len(updates) : updates[k] \in posted
  PROVE  /\ posted \subseteq posted'
         /\ \A k \in 1 .. Len(updates') : updates'[k] \in posted'
<1> USE DEF telegram
<1>1. CASE Clients
  BY <1>1 DEF Clients, CreateCheck, CreateInsert, CreateFails, RemoveRecord
<1>2. ASSUME NEW i \in Ids, NEW body \in Contents, PostMessage(i, body)
      PROVE  /\ posted \subseteq posted'
             /\ \A k \in 1 .. Len(updates') : updates'[k] \in posted'
  <2> DEFINE m == [id |-> i, date |-> clock + 1, body |-> body]
  <2>1. posted' = posted \union {m} /\ updates' = Append(updates, m)
    BY <1>2 DEF PostMessage
  <2>2. updates \in Seq(Post)
    BY DEF TypeOK
  <2> QED BY <2>1, <2>2, AppendProperties, LenProperties
<1>3. CASE \E i \in Ids : ToggleTag(i) \/ Expel(i)
  BY <1>3 DEF ToggleTag, Expel
<1>4. CASE RefreshLoop
  <2>1. posted' = posted /\ updates' = updates
    BY <1>4, HandleFrame
       DEF RefreshLoop, ListChats, ListChannels, RoundFails, EndRound
  <2> QED BY <2>1
<1>5. CASE Convert
  <2>1. posted' = posted /\ updates' = Tail(updates) /\ updates # <<>>
    BY <1>5 DEF Convert
  <2>2. updates \in Seq(Post)
    BY DEF TypeOK
  <2> QED BY <2>1, <2>2, HeadTailProperties, LenProperties
<1>6. CASE MessageHandler /\ ~Convert
  BY <1>6 DEF MessageHandler, HandleUnknown, HandleKnown, PublishDone,
              PublishFails
<1>7. CASE Restart
  <2>1. posted' = posted
    BY <1>7 DEF Restart
  <2>2. PICK n \in 0 .. Len(updates) :
          updates' = SubSeq(updates, n + 1, Len(updates))
    BY <1>7 DEF Restart
  <2>3. updates \in Seq(Post) /\ Len(updates) \in Nat
    BY LenProperties DEF TypeOK
  <2>4. CASE n = Len(updates)
    <3>1. updates' = <<>>
      BY <2>2, <2>3, <2>4, SubSeqProperties
    <3> QED BY <2>1, <3>1
  <2>5. CASE n < Len(updates)
    <3>1. /\ Len(updates') = Len(updates) - n
          /\ \A k \in 1 .. Len(updates) - n : updates'[k] = updates[n + k]
      BY <2>2, <2>3, <2>5, SubSeqProperties
    <3> QED BY <2>1, <2>3, <2>5, <3>1
  <2> QED BY <2>3, <2>4, <2>5
<1>8. CASE UNCHANGED vars
  BY <1>8 DEF vars
<1> QED BY <1>1, <1>2, <1>3, <1>4, <1>5, <1>6, <1>7, <1>8
        DEF Next, Telegram, MapRace, Crash

\* The steps keep every date that of a message posted.
LEMMA NextDates == TypeOK /\ DatesPosted /\ [Next]_vars => DatesPosted'
<1> SUFFICES ASSUME TypeOK, DatesPosted, [Next]_vars PROVE DatesPosted'
  OBVIOUS
<1>1. /\ posted \subseteq posted'
      /\ \A k \in 1 .. Len(updates') : updates'[k] \in posted'
  BY PostedFrame DEF DatesPosted
<1>2. ASSUME handler' # "idle"
      PROVE  \E m \in posted' :
               m.id = evt'.id /\ m.date = evt'.date /\ m.body = evt'.body
  <2>1. CASE Convert
    <3>1. /\ evt'.id = Head(updates).id /\ evt'.date = Head(updates).date
          /\ evt'.body = Head(updates).body /\ updates # <<>>
      BY <1>2, <2>1 DEF Convert, DatesPosted
    <3>2. Head(updates) \in posted
      BY <3>1, HeadTailProperties, LenProperties DEF DatesPosted, TypeOK
    <3> QED BY <1>1, <3>1, <3>2
  <2>2. CASE MessageHandler /\ ~Convert
    BY <1>1, <1>2, <2>2
       DEF MessageHandler, HandleUnknown, HandleKnown, PublishDone, PublishFails,
           Idle, DatesPosted
  <2>3. CASE UNCHANGED <<handler, evt, published>>
    BY <1>1, <1>2, <2>3 DEF DatesPosted
  <2> QED BY <1>2, <2>1, <2>2, <2>3, HandlerFrame DEF Restart, Idle
<1>3. ASSUME NEW i \in DOMAIN chansJoined'
      PROVE  \/ chansJoined'[i].last = 0
             \/ \E m \in posted' : m.id = i /\ m.date = chansJoined'[i].last
  <2>1. CASE chansJoined' = chansJoined
    BY <1>1, <2>1 DEF DatesPosted
  <2>2. ASSUME NEW q \in page, RefreshWrite(q)
        PROVE  \/ chansJoined'[i].last = 0
               \/ \E m \in posted' : m.id = i /\ m.date = chansJoined'[i].last
    BY <1>1, <2>2 DEF RefreshWrite, Assign, DatesPosted
  <2>3. CASE HandleKnown
    <3>1. /\ evt.date \in Nat /\ MapType(chansJoined)
          /\ evt.id \in DOMAIN chansJoined
          /\ chansJoined' = [chansJoined EXCEPT ![evt.id].last = evt.date]
      BY <2>3 DEF HandleKnown, TypeOK, Event, MapType, Joined
    <3>2. /\ DOMAIN chansJoined' = DOMAIN chansJoined
          /\ \A j \in DOMAIN chansJoined :
               j # evt.id => chansJoined'[j] = chansJoined[j]
          /\ chansJoined'[evt.id].last = evt.date
      BY <3>1, SetLastLemma
    <3>3. \E m \in posted : m.id = evt.id /\ m.date = evt.date
      BY <2>3 DEF HandleKnown, DatesPosted
    <3> QED BY <1>1, <3>2, <3>3 DEF DatesPosted
  <2>4. CASE Restart
    BY <2>4 DEF Restart, EmptyMap
  <2> QED BY <2>1, <2>2, <2>3, <2>4, MapFrame
<1> QED BY <1>1, <1>2, <1>3 DEF DatesPosted

\* The steps keep every stored date accounted for.
LEMMA NextAccounted ==
  /\ TypeOK /\ UpdatesKnown /\ Registered /\ DatesPosted /\ LastAccounted
  /\ [Next]_vars
  => LastAccounted'
<1> SUFFICES ASSUME TypeOK, UpdatesKnown, Registered, DatesPosted, LastAccounted,
                    [Next]_vars, NEW r \in coll'
             PROVE  \/ r.last = r.created
                    \/ \E m \in posted' : \E q \in ever' :
                         /\ m.date = r.last
                         /\ q.id = m.id /\ q.link = r.reg.link
  BY DEF LastAccounted
<1>1. posted \subseteq posted' /\ ever \subseteq ever'
  BY PostedFrame, EverFrame DEF DatesPosted, CreateInsert
<1>2. CASE r \in coll
  BY <1>1, <1>2 DEF LastAccounted
<1>3. ASSUME NEW q \in Requests, CreateInsert(q), r \notin coll
      PROVE  r.last = r.created
  BY <1>3, InsertOneRegs DEF CreateInsert
<1>4. ASSUME NEW q \in page, RefreshUpdate(q), r \notin coll
      PROVE  \E m \in posted' : \E p \in ever' :
               /\ m.date = r.last
               /\ p.id = m.id /\ p.link = r.reg.link
  <2> DEFINE last == chansJoined[q.id].last
  <2>1. Joined(q.id) /\ last # 0 /\ last \in Nat
    BY <1>4 DEF RefreshUpdate, UpdatesKnown, TypeOK, Joined, Entry
  <2>2. coll' = UpdateLast(coll, q.link, last) /\ coll \in SUBSET Channel
    BY <1>4 DEF RefreshUpdate, TypeOK
  <2>3. r.reg.link = q.link /\ r.last = last
    <3> HIDE DEF last
    <3>1. \E s \in coll : r = s \/ (r.reg.link = q.link /\ r.last = last)
      BY <2>1, <2>2, UpdateLastOrigin
    <3> QED BY <1>4, <3>1
  <2>4. \E m \in posted : m.id = q.id /\ m.date = last
    BY <2>1 DEF DatesPosted, Joined
  <2>5. q \in ever
    BY DEF Registered
  <2> QED BY <1>1, <2>3, <2>4, <2>5
<1> QED BY <1>2, <1>3, <1>4, CollFrame, DeleteOneSubset

-----------------------------------------------------------------------------
(* The order of the dates.                                                 *)

\* No message still to come is older than d.
NotAhead(d) == d <= clock /\ \A k \in 1 .. Len(updates) : d <= updates[k].date

\* ... nor is the one the handler has yet to put in memory.
NotYounger(d) == NotAhead(d) /\ (handler = "lock" => d <= evt.date)

\* TDLib's queue is in the order of the dates, the handler's event is not
\* younger than the queue, and no date in memory is younger than what the
\* handler has still to put there.
DatesInOrder ==
  /\ \A j, k \in 1 .. Len(updates) : j <= k => updates[j].date <= updates[k].date
  /\ \A k \in 1 .. Len(updates) : updates[k].date <= clock
  /\ handler # "idle" => NotAhead(evt.date)
  /\ \A i \in DOMAIN chansJoined : NotYounger(chansJoined[i].last)

\* What is left of the queue is its end.
Suffix ==
  /\ clock' = clock
  /\ \E n \in 0 .. Len(updates) :
       /\ Len(updates') = Len(updates) - n
       /\ \A k \in 1 .. Len(updates) - n : updates'[k] = updates[n + k]

\* The queue gets a message at its end, or loses some at its head.
LEMMA QueueFrame ==
  ASSUME TypeOK, [Next]_vars
  PROVE  Suffix \/ \E i \in Ids, body \in Contents : PostMessage(i, body)
<1> USE DEF telegram
<1>1. updates \in Seq(Post) /\ Len(updates) \in Nat
  BY LenProperties DEF TypeOK
<1>2. ASSUME updates' = updates, clock' = clock PROVE Suffix
  <2>1. 0 \in 0 .. Len(updates) /\ Len(updates') = Len(updates) - 0
    BY <1>1, <1>2
  <2>2. \A k \in 1 .. Len(updates) - 0 : updates'[k] = updates[0 + k]
    BY <1>1, <1>2
  <2> QED BY <1>2, <2>1, <2>2 DEF Suffix
<1>3. CASE Clients
  BY <1>2, <1>3 DEF Clients, CreateCheck, CreateInsert, CreateFails, RemoveRecord
<1>4. CASE \E i \in Ids : ToggleTag(i) \/ Expel(i)
  BY <1>2, <1>4 DEF ToggleTag, Expel
<1>5. CASE RefreshLoop
  <2>1. CASE ListChats \/ ListChannels \/ RoundFails \/ EndRound
    BY <1>2, <2>1 DEF ListChats, ListChannels, RoundFails, EndRound
  <2>2. ASSUME NEW q \in page, Handle(q) PROVE Suffix
    BY <1>2, <2>2
       DEF Handle, JoinChat, JoinFails, TagFound, NoTagFound, DeleteTagged,
           DeleteTaggedFails, RefreshLock, RefreshWrite, RefreshUpdate,
           RefreshUpdateFails
  <2> QED BY <1>5, <2>1, <2>2 DEF RefreshLoop
<1>6. CASE MessageHandler /\ ~Convert
  BY <1>2, <1>6 DEF MessageHandler, HandleUnknown, HandleKnown, PublishDone,
                    PublishFails
<1>7. CASE Convert
  <2>1. updates # <<>> /\ updates' = Tail(updates) /\ clock' = clock
    BY <1>7 DEF Convert
  <2>2. /\ Len(updates') = Len(updates) - 1 /\ 1 \in 0 .. Len(updates)
        /\ \A k \in 1 .. Len(updates) - 1 : updates'[k] = updates[1 + k]
    BY <1>1, <2>1, HeadTailProperties
  <2> QED BY <2>1, <2>2 DEF Suffix
<1>8. CASE Restart
  <2>1. PICK n \in 0 .. Len(updates) :
          updates' = SubSeq(updates, n + 1, Len(updates))
    BY <1>8 DEF Restart
  <2>2. /\ Len(updates') = Len(updates) - n
        /\ \A k \in 1 .. Len(updates) - n : updates'[k] = updates[n + k]
    BY <1>1, <2>1
  <2> QED BY <1>8, <2>2 DEF Restart, Suffix
<1>9. CASE UNCHANGED vars
  BY <1>2, <1>9 DEF vars
<1> QED BY <1>3, <1>4, <1>5, <1>6, <1>7, <1>8, <1>9
        DEF Next, Telegram, MapRace, Crash

LEMMA PostDates ==
  ASSUME NEW u \in Seq(Post)
  PROVE  \A k \in 1 .. Len(u) : u[k].date \in Nat
<1> SUFFICES ASSUME NEW k \in 1 .. Len(u) PROVE u[k].date \in Nat
  OBVIOUS
<1>1. u[k] \in Post
  BY ElementOfSeq
<1> QED BY <1>1 DEF Post

\* No date gets ahead of the queue by a step.
LEMMA NotAheadKept ==
  ASSUME TypeOK, [Next]_vars, NEW d \in Nat, NotAhead(d)
  PROVE  NotAhead(d)'
<1>1. updates \in Seq(Post) /\ Len(updates) \in Nat /\ clock \in Nat
  BY LenProperties DEF TypeOK
<1>2. CASE Suffix
  BY <1>1, <1>2 DEF Suffix, NotAhead
<1>3. ASSUME NEW i \in Ids, NEW body \in Contents, PostMessage(i, body)
      PROVE  NotAhead(d)'
  <2> DEFINE m == [id |-> i, date |-> clock + 1, body |-> body]
  <2>1. clock' = clock + 1 /\ updates' = Append(updates, m)
    BY <1>3 DEF PostMessage
  <2>2. /\ Len(updates') = Len(updates) + 1 /\ updates'[Len(updates) + 1].date = clock + 1
        /\ \A k \in 1 .. Len(updates) : updates'[k] = updates[k]
    BY <1>1, <2>1, AppendProperties
  <2> QED BY <1>1, <2>1, <2>2 DEF NotAhead
<1> QED BY <1>2, <1>3, QueueFrame

\* Nor ahead of what the handler has.
LEMMA NotYoungerKept ==
  ASSUME TypeOK, [Next]_vars, NEW d \in Nat, NotYounger(d)
  PROVE  NotYounger(d)'
<1>1. NotAhead(d) /\ NotAhead(d)'
  BY NotAheadKept DEF NotYounger
<1>2. handler' = "lock" => d <= evt'.date
  <2>1. CASE Convert
    <3>1. /\ updates # <<>> /\ updates \in Seq(Post)
          /\ handler' = "lock" => evt'.date = Head(updates).date
      BY <2>1 DEF Convert, TypeOK
    <3>2. Head(updates) = updates[1] /\ 1 \in 1 .. Len(updates)
      BY <3>1, HeadTailProperties, EmptySeq, LenProperties
    <3> QED BY <1>1, <3>1, <3>2 DEF NotAhead
  <2>2. CASE ~Convert
    <3>1. handler' = "lock" => handler = "lock" /\ evt' = evt
      BY <2>2, HandlerFrame
         DEF MessageHandler, HandleUnknown, HandleKnown, PublishDone,
             PublishFails, Restart, Idle
    <3> QED BY <3>1 DEF NotYounger
  <2> QED BY <2>1, <2>2
<1> QED BY <1>1, <1>2 DEF NotYounger

\* The steps keep the dates in order.
LEMMA NextDatesInOrder ==
  TypeOK /\ DatesInOrder /\ [Next]_vars => DatesInOrder'
<1> SUFFICES ASSUME TypeOK, DatesInOrder, [Next]_vars PROVE DatesInOrder'
  OBVIOUS
<1>1. updates \in Seq(Post) /\ Len(updates) \in Nat /\ clock \in Nat
  BY LenProperties DEF TypeOK
<1>2. /\ \A j, k \in 1 .. Len(updates') : j <= k => updates'[j].date <= updates'[k].date
      /\ \A k \in 1 .. Len(updates') : updates'[k].date <= clock'
  <2>1. CASE Suffix
    <3>1. PICK n \in 0 .. Len(updates) :
            /\ Len(updates') = Len(updates) - n
            /\ \A k \in 1 .. Len(updates) - n : updates'[k] = updates[n + k]
      BY <2>1 DEF Suffix
    <3>2. \A k \in 1 .. Len(updates') :
            n + k \in 1 .. Len(updates) /\ updates'[k] = updates[n + k]
      BY <1>1, <3>1
    <3>3. \A j, k \in 1 .. Len(updates') : j <= k => n + j <= n + k
      BY <1>1, <3>1
    <3> QED BY <2>1, <3>2, <3>3 DEF Suffix, DatesInOrder
  <2>2. ASSUME NEW i \in Ids, NEW body \in Contents, PostMessage(i, body)
        PROVE  <1>2!1 /\ <1>2!2
    <3> DEFINE m == [id |-> i, date |-> clock + 1, body |-> body]
    <3>1. clock' = clock + 1 /\ updates' = Append(updates, m)
      BY <2>2 DEF PostMessage
    <3>2. /\ Len(updates') = Len(updates) + 1
          /\ updates'[Len(updates) + 1].date = clock + 1
          /\ \A k \in 1 .. Len(updates) : updates'[k] = updates[k]
      BY <1>1, <3>1, AppendProperties
    <3>3. \A k \in 1 .. Len(updates) : updates[k].date \in Nat
      BY <1>1, PostDates
    <3>4. \A k \in 1 .. Len(updates') :
            k \in 1 .. Len(updates) \/ k = Len(updates) + 1
      BY <1>1, <3>2
    <3> QED BY <1>1, <3>1, <3>2, <3>3, <3>4 DEF DatesInOrder
  <2> QED BY <2>1, <2>2, QueueFrame
<1>3. ASSUME handler' # "idle"
      PROVE  NotAhead(evt.date)'
  <2>1. CASE Convert
    <3>1. /\ updates # <<>> /\ updates' = Tail(updates) /\ clock' = clock
          /\ evt'.date = Head(updates).date
      BY <1>3, <2>1 DEF Convert, telegram
    <3>2. /\ Len(updates') = Len(updates) - 1 /\ Head(updates) = updates[1]
          /\ \A k \in 1 .. Len(updates) - 1 : updates'[k] = updates[1 + k]
      BY <1>1, <3>1, HeadTailProperties
    <3>3. Len(updates) >= 1
      BY <1>1, <3>1, EmptySeq
    <3> QED BY <1>1, <3>1, <3>2, <3>3 DEF NotAhead, DatesInOrder
  <2>2. CASE handler # "idle" /\ evt' = evt
    <3>1. evt.date \in Nat /\ NotAhead(evt.date)
      BY <2>2 DEF TypeOK, Event, DatesInOrder
    <3>2. \A d \in Nat : NotAhead(d) => NotAhead(d)'
      BY NotAheadKept
    <3> QED BY <2>2, <3>1, <3>2 DEF NotAhead
  <2>3. CASE MessageHandler /\ ~Convert
    BY <1>3, <2>2, <2>3 DEF MessageHandler, HandleUnknown, HandleKnown, PublishDone,
                           PublishFails, Idle
  <2> QED BY <1>3, <2>1, <2>2, <2>3, HandlerFrame DEF Restart, Idle
<1>4. ASSUME NEW i \in DOMAIN chansJoined'
      PROVE  NotYounger(chansJoined[i].last)'
  <2>1. \A d \in Nat : NotYounger(d) => NotYounger(d)'
    BY NotYoungerKept
  <2>2. \A j \in DOMAIN chansJoined :
          chansJoined[j].last \in Nat /\ NotYounger(chansJoined[j].last)
    BY DEF TypeOK, Entry, DatesInOrder, NotYounger
  <2>3. CASE i \in DOMAIN chansJoined /\ chansJoined'[i].last = chansJoined[i].last
    BY <2>1, <2>2, <2>3 DEF NotYounger, NotAhead
  <2>4. ASSUME NEW q \in page, RefreshWrite(q), chansJoined'[i].last = 0
        PROVE  NotYounger(chansJoined[i].last)'
    <3>1. \A k \in 1 .. Len(updates) : updates[k].date \in Nat
      BY <1>1, PostDates
    <3>2. NotYounger(0)
      BY <1>1, <3>1 DEF NotYounger, NotAhead, TypeOK, Event
    <3>3. 0 \in Nat
      OBVIOUS
    <3> QED BY <2>1, <2>4, <3>2, <3>3 DEF NotYounger, NotAhead
  <2>5. CASE HandleKnown /\ chansJoined'[i].last = evt.date
    <3>1. evt.date \in Nat /\ NotYounger(evt.date)
      BY <2>5 DEF HandleKnown, TypeOK, Event, DatesInOrder, NotYounger
    <3> QED BY <2>1, <2>5, <3>1 DEF NotYounger, NotAhead
  <2>6. CASE chansJoined' = chansJoined
    BY <2>3, <2>6
  <2>7. ASSUME NEW q \in page, RefreshWrite(q)
        PROVE  \/ i \in DOMAIN chansJoined /\ chansJoined'[i].last = chansJoined[i].last
               \/ chansJoined'[i].last = 0
    BY <2>7 DEF RefreshWrite, Assign
  <2>8. ASSUME HandleKnown
        PROVE  \/ i \in DOMAIN chansJoined /\ chansJoined'[i].last = chansJoined[i].last
               \/ chansJoined'[i].last = evt.date
    <3>1. /\ evt.date \in Nat /\ MapType(chansJoined) /\ evt.id \in DOMAIN chansJoined
          /\ chansJoined' = [chansJoined EXCEPT ![evt.id].last = evt.date]
      BY <2>8 DEF HandleKnown, TypeOK, Event, MapType, Joined
    <3> QED BY <3>1, SetLastLemma
  <2>9. CASE Restart
    BY <2>9 DEF Restart, EmptyMap
  <2> QED BY <2>3, <2>4, <2>5, <2>6, <2>7, <2>8, <2>9, MapFrame DEF NotYounger
<1> QED BY <1>2, <1>3, <1>4 DEF DatesInOrder, NotYounger

-----------------------------------------------------------------------------
(* The theorems.                                                           *)

\* The invariant holds initially.
LEMMA InitInv == Init => IInv
<1> SUFFICES ASSUME Init PROVE IInv
  OBVIOUS
<1>1. TypeOK
  BY InitType
<1>2. LockProtocol
  BY DEF Init, LockProtocol
<1>3. OneRecordPerKey /\ PageOrdered /\ WritesNew /\ UpdatesKnown
  BY DEF Init, OneRecordPerKey, UniqueKeys, PageOrdered, WritesNew, UpdatesKnown
<1>4. PublishesKnown /\ Registered /\ SourceAgrees
  BY DEF Init, PublishesKnown, Registered, SourceAgrees, EmptyMap
<1>5. EventsOfOneRegistration /\ LastAccounted
  BY DEF Init, EventsOfOneRegistration, LastAccounted
<1>6. DatesPosted
  BY DEF Init, DatesPosted, EmptyMap
<1> QED BY <1>1, <1>2, <1>3, <1>4, <1>5, <1>6 DEF IInv

\* Every step preserves it.
LEMMA NextInv == IInv /\ [Next]_vars => IInv'
BY NextType, NextLock, NextUnique, NextOrdered, NextWritesNew, NextUpdatesKnown,
   NextPublishesKnown, NextRegistered, NextSource, NextEvents, NextDates,
   NextAccounted DEF IInv

\* It holds in every reachable state.
LEMMA Invariant == Spec => []IInv
BY InitInv, NextInv, PTL DEF Spec

\* The variables keep their types (chansJoined always maps ids to entries, the
\* handler at work has an event in hand).
THEOREM TypeCorrect == Spec => []TypeOK
BY Invariant, PTL DEF IInv

\* chansJoinedLock is held exactly between the code's Lock and Unlock.
THEOREM LockHeldInside == Spec => []LockProtocol
BY Invariant, PTL DEF IInv

\* No two records share an id or a link, whatever Create calls race.
THEOREM KeysUnique == Spec => []OneRecordPerKey
BY Invariant, PTL DEF IInv

\* Every event published is one registration's of this replica: its source,
\* read without the lock, and its user, read under it, never mix.
THEOREM EventsConsistent == Spec => []EventsOfOneRegistration
BY Invariant, PTL DEF IInv

\* No stored date is anything but the creation time or the date of a message
\* from a chat registered under the record's link.
THEOREM DatesAccounted == Spec => []LastAccounted
BY Invariant, PTL DEF IInv

\* A removed record comes back by a Create call only, never by the loop.
THEOREM RemovedStaysRemoved == Spec => NoResurrection
<1> DEFINE A == \A r \in coll' : r.reg \in {s.reg : s \in coll} \union creating
<1>1. ASSUME IInv, [Next]_vars, NEW r \in coll'
      PROVE  r.reg \in {s.reg : s \in coll} \union creating
  <2>1. CASE r \in coll
    BY <2>1
  <2>2. ASSUME NEW q \in Requests, CreateInsert(q), r \notin coll
        PROVE  r.reg \in creating
    BY <2>2, InsertOneRegs DEF CreateInsert
  <2>3. ASSUME NEW q \in page, RefreshUpdate(q)
        PROVE  r.reg \in {s.reg : s \in coll}
    <3>1. chansJoined[q.id].last \in Nat
      BY <1>1, <2>3
         DEF IInv, RefreshUpdate, UpdatesKnown, TypeOK, Joined, Entry
    <3>2. /\ coll \in SUBSET Channel
          /\ coll' = UpdateLast(coll, q.link, chansJoined[q.id].last)
      BY <1>1, <2>3 DEF IInv, RefreshUpdate, TypeOK
    <3>3. \E s \in coll : r.reg = s.reg
      BY <3>1, <3>2, UpdateLastOrigin
    <3> QED BY <3>3
  <2> QED BY <1>1, <2>1, <2>2, <2>3, CollFrame, DeleteOneSubset
<1>2. IInv /\ [Next]_vars => [A]_vars
  BY <1>1
<1>3. Spec => [][A]_vars
  BY <1>2, Invariant, PTL DEF Spec
<1> QED BY <1>3 DEF NoResurrection

\* The dates are in order initially and stay so.
LEMMA OrderInvariant == Spec => []DatesInOrder
<1>1. Init => DatesInOrder
  BY DEF Init, DatesInOrder, EmptyMap
<1>2. IInv /\ DatesInOrder /\ [Next]_vars => DatesInOrder'
  BY NextDatesInOrder DEF IInv
<1> QED BY <1>1, <1>2, Invariant, PTL DEF Spec

\* Until a restart no entry leaves the map or is replaced, and no date in it
\* goes back: the handler takes messages in the order of their dates, and the
\* loop writes where nothing is (updateJoined, updateChannelAndPublish).
THEOREM MemoryStays == Spec => MemoryKept
<1> DEFINE A == crashes' = crashes =>
                  \A i \in DOMAIN chansJoined :
                    /\ i \in DOMAIN chansJoined'
                    /\ chansJoined'[i].reg = chansJoined[i].reg
                    /\ chansJoined'[i].last >= chansJoined[i].last
<1>1. ASSUME IInv, DatesInOrder, [Next]_vars, crashes' = crashes,
             NEW i \in DOMAIN chansJoined
      PROVE  /\ i \in DOMAIN chansJoined'
             /\ chansJoined'[i].reg = chansJoined[i].reg
             /\ chansJoined'[i].last >= chansJoined[i].last
  <2>1. chansJoined[i].last \in Nat /\ crashes \in Nat
    BY <1>1 DEF IInv, TypeOK, Entry
  <2>2. ~Restart
    BY <1>1, <2>1 DEF Restart
  <2>3. i \in DOMAIN chansJoined' /\ chansJoined'[i].reg = chansJoined[i].reg
    BY <1>1, <2>2, MapGrows DEF IInv
  <2>4. chansJoined'[i].last >= chansJoined[i].last
    <3>1. CASE chansJoined' = chansJoined
      BY <2>1, <3>1
    <3>2. ASSUME NEW q \in page, RefreshWrite(q)
          PROVE  chansJoined'[i].last >= chansJoined[i].last
      BY <1>1, <2>1, <3>2 DEF RefreshWrite, IInv, WritesNew, Joined, Assign
    <3>3. CASE HandleKnown
      <4>1. /\ evt.date \in Nat /\ MapType(chansJoined) /\ evt.id \in DOMAIN chansJoined
            /\ chansJoined' = [chansJoined EXCEPT ![evt.id].last = evt.date]
        BY <1>1, <3>3 DEF HandleKnown, IInv, TypeOK, Event, MapType, Joined
      <4>2. /\ chansJoined'[evt.id].last = evt.date
            /\ i # evt.id => chansJoined'[i] = chansJoined[i]
        BY <4>1, SetLastLemma
      <4>3. chansJoined[i].last <= evt.date
        BY <1>1, <3>3 DEF DatesInOrder, NotYounger, HandleKnown
      <4> QED BY <2>1, <4>1, <4>2, <4>3
    <3> QED BY <1>1, <2>2, <3>1, <3>2, <3>3, MapFrame
  <2> QED BY <2>3, <2>4
<1>2. IInv /\ DatesInOrder /\ [Next]_vars => [A]_vars
  BY <1>1
<1>3. Spec => [][A]_vars
  BY <1>2, Invariant, OrderInvariant, PTL DEF Spec
<1> QED BY <1>3 DEF MemoryKept

-----------------------------------------------------------------------------
(* The dates of the records.                                               *)

\* Every message has a date of its own.
DatesUnique ==
  /\ \A m \in posted : m.date <= clock
  /\ \A m, p \in posted : m.date = p.date => m = p

\* What is known of a record that got its date from memory: no message still
\* to come is older, nor is a date that memory has for its chat now.
RecordInOrder(r) ==
  /\ r.last <= clock
  /\ r.last # r.created =>
       /\ NotYounger(r.last)
       /\ OwnDate(r.reg.id, r.last) /\ Joined(r.reg.id)
            /\ chansJoined[r.reg.id].last # 0
          => r.last <= chansJoined[r.reg.id].last

RecordsInOrder == DatesUnique /\ \A r \in coll : RecordInOrder(r)

\* Messages are posted with the clock.
LEMMA ClockFrame ==
  ASSUME [Next]_vars
  PROVE  \/ clock' = clock /\ posted' = posted
         \/ \E i \in Ids, body \in Contents : PostMessage(i, body)
<1> USE DEF telegram
<1>1. CASE Clients
  BY <1>1 DEF Clients, CreateCheck, CreateInsert, CreateFails, RemoveRecord
<1>2. CASE Telegram
  BY <1>2 DEF Telegram, ToggleTag, Expel
<1>3. CASE ListChats \/ ListChannels \/ RoundFails \/ EndRound
  BY <1>3 DEF ListChats, ListChannels, RoundFails, EndRound
<1>4. ASSUME NEW q \in page, Handle(q) PROVE clock' = clock /\ posted' = posted
  BY <1>4
     DEF Handle, JoinChat, JoinFails, TagFound, NoTagFound, DeleteTagged,
         DeleteTaggedFails, RefreshLock, RefreshWrite, RefreshUpdate,
         RefreshUpdateFails
<1>5. CASE MessageHandler
  BY <1>5 DEF MessageHandler, Convert, HandleUnknown, HandleKnown, PublishDone,
              PublishFails
<1>6. CASE UNCHANGED vars
  BY <1>6 DEF vars
<1> QED BY <1>1, <1>2, <1>3, <1>4, <1>5, <1>6
        DEF Next, RefreshLoop, MapRace, Crash, Restart

\* The date of a new message is new, and no date there was is of another
\* chat's than before.
LEMMA NextDatesUnique ==
  ASSUME TypeOK, DatesUnique, [Next]_vars
  PROVE  /\ DatesUnique' /\ clock <= clock'
         /\ \A i, d : d <= clock => (OwnDate(i, d)' <=> OwnDate(i, d))
<1>1. clock \in Nat /\ \A m \in posted : m.date \in Nat
  BY DEF TypeOK, Post
<1>2. CASE clock' = clock /\ posted' = posted
  BY <1>1, <1>2 DEF DatesUnique, OwnDate
<1>3. ASSUME NEW i \in Ids, NEW body \in Contents, PostMessage(i, body)
      PROVE  /\ DatesUnique' /\ clock <= clock'
             /\ \A j, d : d <= clock => (OwnDate(j, d)' <=> OwnDate(j, d))
  <2>1. PICK m : /\ m.date = clock + 1
                 /\ clock' = clock + 1 /\ posted' = posted \union {m}
    BY <1>3 DEF PostMessage
  <2>2. \A p \in posted : p.date <= clock + 1 /\ p.date # clock + 1
    BY <1>1 DEF DatesUnique
  <2>3. DatesUnique' /\ clock <= clock'
    BY <1>1, <2>1, <2>2 DEF DatesUnique
  <2>4. ASSUME NEW j, NEW d, d <= clock
        PROVE  OwnDate(j, d)' <=> OwnDate(j, d)
    <3>1. m.date # d
      BY <1>1, <2>1, <2>4
    <3> QED BY <2>1, <3>1 DEF OwnDate
  <2> QED BY <2>3, <2>4
<1> QED BY <1>2, <1>3, ClockFrame

\* A date that memory has for one chat is no other chat's own.
LEMMA OneChatPerDate ==
  ASSUME TypeOK, DatesPosted, DatesUnique, NEW i, Joined(i), chansJoined[i].last # 0,
         NEW j, OwnDate(j, chansJoined[i].last)
  PROVE  i = j
<1>1. PICK m \in posted : m.id = i /\ m.date = chansJoined[i].last
  BY DEF DatesPosted, Joined
<1>2. PICK p \in posted : p.id = j /\ p.date = chansJoined[i].last
  BY DEF OwnDate
<1> QED BY <1>1, <1>2 DEF DatesUnique

\* A record that a step leaves alone stays in order: the handler takes up what
\* is not older, and the loop's new entries have no date.
LEMMA RecordKept ==
  ASSUME IInv, DatesInOrder, DatesUnique, [Next]_vars,
         NEW r \in Channel, RecordInOrder(r)
  PROVE  RecordInOrder(r)'
<1>1. /\ r.last \in Nat /\ clock \in Nat /\ clock' \in Nat /\ r.last <= clock
      /\ TypeOK /\ TypeOK'
  BY NextInv DEF IInv, TypeOK, Channel, RecordInOrder
<1>2. r.last <= clock' /\ (OwnDate(r.reg.id, r.last)' <=> OwnDate(r.reg.id, r.last))
  BY <1>1, NextDatesUnique
<1>3. ASSUME r.last # r.created
      PROVE  NotYounger(r.last) /\ NotYounger(r.last)'
  <2>1. NotYounger(r.last)
    BY <1>3 DEF RecordInOrder
  <2>2. \A d \in Nat : NotYounger(d) => NotYounger(d)'
    BY <1>1, NotYoungerKept
  <2> QED BY <1>1, <2>1, <2>2 DEF NotYounger, NotAhead
<1>4. ASSUME r.last # r.created, OwnDate(r.reg.id, r.last),
             Joined(r.reg.id)', chansJoined'[r.reg.id].last # 0
      PROVE  r.last <= chansJoined'[r.reg.id].last
  <2> DEFINE i == r.reg.id
  <2>1. CASE Joined(i) /\ chansJoined'[i].last = chansJoined[i].last
    BY <1>4, <2>1 DEF RecordInOrder
  <2>2. CASE chansJoined' = chansJoined
    BY <1>4, <2>1, <2>2 DEF Joined
  <2>3. ASSUME NEW q \in page, RefreshWrite(q)
        PROVE  r.last <= chansJoined'[i].last
    <3>1. \/ Joined(i) /\ chansJoined'[i].last = chansJoined[i].last
          \/ chansJoined'[i].last = 0
      BY <1>4, <2>3 DEF RefreshWrite, Assign, Joined
    <3> QED BY <1>4, <2>1, <3>1
  <2>4. CASE HandleKnown
    <3>1. /\ evt.date \in Nat /\ MapType(chansJoined) /\ evt.id \in DOMAIN chansJoined
          /\ chansJoined' = [chansJoined EXCEPT ![evt.id].last = evt.date]
      BY <1>1, <2>4 DEF HandleKnown, TypeOK, Event, MapType, Joined
    <3>2. /\ DOMAIN chansJoined' = DOMAIN chansJoined
          /\ chansJoined'[evt.id].last = evt.date
          /\ i \in DOMAIN chansJoined /\ i # evt.id => chansJoined'[i] = chansJoined[i]
      BY <3>1, SetLastLemma
    <3>3. r.last <= evt.date
      BY <1>3, <1>4, <2>4 DEF NotYounger, HandleKnown
    <3> QED BY <1>4, <2>1, <3>2, <3>3 DEF Joined
  <2>5. CASE Restart
    BY <1>4, <2>5 DEF Restart, EmptyMap, Joined
  <2> QED BY <2>2, <2>3, <2>4, <2>5, MapFrame
<1> QED BY <1>2, <1>3, <1>4 DEF RecordInOrder, NotYounger, NotAhead, OwnDate

\* The steps keep the records in order.
LEMMA NextRecordsInOrder ==
  IInv /\ DatesInOrder /\ RecordsInOrder /\ [Next]_vars => RecordsInOrder'
<1> SUFFICES ASSUME IInv, DatesInOrder, RecordsInOrder, [Next]_vars, NEW r \in coll'
             PROVE  RecordInOrder(r)'
  BY NextDatesUnique DEF RecordsInOrder, IInv
<1>1. TypeOK /\ TypeOK' /\ DatesUnique /\ coll \in SUBSET Channel /\ r \in Channel
  BY NextInv DEF IInv, TypeOK, RecordsInOrder
<1>2. CASE r \in coll
  BY <1>1, <1>2, RecordKept DEF RecordsInOrder
<1>3. ASSUME NEW q \in Requests, CreateInsert(q), r \notin coll
      PROVE  RecordInOrder(r)'
  <2>1. r.last = clock /\ r.created = clock /\ clock' = clock /\ clock \in Nat
    BY <1>1, <1>3, InsertOneRegs DEF CreateInsert, telegram, TypeOK
  <2> QED BY <2>1 DEF RecordInOrder
<1>4. ASSUME NEW q \in page, RefreshUpdate(q), r \notin coll
      PROVE  RecordInOrder(r)'
  <2>1. PICK d : d = chansJoined[q.id].last
    OBVIOUS
  <2>2. Joined(q.id) /\ d # 0 /\ d \in Nat
    BY <1>4, <2>1 DEF RefreshUpdate, IInv, UpdatesKnown, TypeOK, Joined, Entry
  <2>3. coll' = UpdateLast(coll, q.link, d) /\ chansJoined' = chansJoined
    BY <1>4, <2>1 DEF RefreshUpdate
  <2>4. r.last = d
    <3>1. \E s \in coll : r = s \/ (r.reg.link = q.link /\ r.last = d)
      BY <1>1, <2>2, <2>3, UpdateLastOrigin
    <3> QED BY <1>4, <3>1
  <2>5. NotYounger(d)
    BY <2>1, <2>2 DEF DatesInOrder, Joined, NotYounger, NotAhead
  <2>6. NotYounger(d)' /\ d <= clock'
    <3>1. \A e \in Nat : NotYounger(e) => NotYounger(e)'
      BY <1>1, NotYoungerKept
    <3> QED BY <2>2, <2>5, <3>1 DEF NotYounger, NotAhead
  <2>7. OwnDate(r.reg.id, d)' => r.reg.id = q.id
    <3>1. d <= clock
      BY <2>5 DEF NotYounger, NotAhead
    <3>2. OwnDate(r.reg.id, d)' <=> OwnDate(r.reg.id, d)
      BY <1>1, <3>1, NextDatesUnique
    <3>3. OwnDate(r.reg.id, d) => r.reg.id = q.id
      BY <1>1, <2>1, <2>2, OneChatPerDate DEF IInv
    <3> QED BY <3>2, <3>3
  <2> QED BY <2>1, <2>2, <2>3, <2>4, <2>6, <2>7
          DEF RecordInOrder, NotYounger, NotAhead, OwnDate
<1> QED BY <1>2, <1>3, <1>4, CollFrame, DeleteOneSubset

\* The records are in order initially and stay so.
LEMMA RecordInvariant == Spec => []RecordsInOrder
<1>1. Init => RecordsInOrder
  BY DEF Init, RecordsInOrder, DatesUnique
<1> QED BY <1>1, NextRecordsInOrder, Invariant, OrderInvariant, PTL DEF Spec

\* A record's date from its own chat is never taken back to an earlier one of
\* that chat, over restarts, stale pages and records created anew (Update in
\* updateJoined): memory starts again without a date, and the first date it
\* then gets is of a message later than all that were handled.
THEOREM DatesKeepAdvancing == Spec => DatesAdvance
<1> DEFINE A == \A r \in coll, s \in coll' :
                  /\ r.reg = s.reg /\ r.last # r.created
                  /\ OwnDate(r.reg.id, r.last) /\ OwnDate(r.reg.id, s.last)
                  => r.last <= s.last
<1>1. ASSUME IInv, RecordsInOrder, [Next]_vars, NEW r \in coll, NEW s \in coll',
             r.reg = s.reg, r.last # r.created,
             OwnDate(r.reg.id, r.last), OwnDate(r.reg.id, s.last)
      PROVE  r.last <= s.last
  <2>1. /\ coll \in SUBSET Channel /\ r.last \in Nat /\ RecordInOrder(r)
        /\ TypeOK /\ DatesPosted /\ DatesUnique
        /\ \A t \in coll : t.reg = r.reg => t = r
    BY <1>1 DEF IInv, TypeOK, Channel, RecordsInOrder, OneRecordPerKey, UniqueKeys
  <2>2. CASE s \in coll
    BY <1>1, <2>1, <2>2
  <2>3. ASSUME NEW q \in Requests, CreateInsert(q), s \notin coll
        PROVE  FALSE
    BY <1>1, <2>3, InsertOneRegs DEF CreateInsert, Conflict
  <2>4. ASSUME NEW q \in page, RefreshUpdate(q), s \notin coll
        PROVE  r.last <= s.last
    <3>1. PICK d : d = chansJoined[q.id].last
      OBVIOUS
    <3>2. Joined(q.id) /\ d # 0 /\ d \in Nat
      BY <1>1, <2>4, <3>1 DEF RefreshUpdate, IInv, UpdatesKnown, TypeOK, Joined, Entry
    <3>3. s.last = d
      <4>1. s \in UpdateLast(coll, q.link, d)
        BY <2>4, <3>1 DEF RefreshUpdate
      <4>2. coll \in SUBSET Channel /\ d \in Nat
        BY <2>1, <3>2
      <4>3. \E t \in coll : s = t \/ (s.reg.link = q.link /\ s.last = d)
        BY <4>1, <4>2, UpdateLastOrigin
      <4> QED BY <2>4, <4>3
    <3>4. r.reg.id = q.id
      BY <1>1, <2>1, <3>1, <3>2, <3>3, OneChatPerDate
    <3> QED BY <1>1, <2>1, <3>1, <3>2, <3>3, <3>4 DEF RecordInOrder
  <2> QED BY <1>1, <2>2, <2>3, <2>4, CollFrame, DeleteOneSubset
<1>2. IInv /\ RecordsInOrder /\ [Next]_vars => [A]_vars
  BY <1>1
<1>3. Spec => [][A]_vars
  BY <1>2, Invariant, RecordInvariant, PTL DEF Spec
<1> QED BY <1>3 DEF DatesAdvance

-----------------------------------------------------------------------------
(* The refinement of Following.                                            *)

PromisedStep == [Promised!Next]_(Promised!vars)

\* The operators on the collection are the same on both sides.
LEMMA SameStorage ==
  /\ \A c, q : Promised!Conflict(c, q) = Conflict(c, q)
  /\ \A c, q, n : Promised!InsertOne(c, q, n) = InsertOne(c, q, n)
  /\ \A c, l, d : Promised!UpdateLast(c, l, d) = UpdateLast(c, l, d)
  /\ \A c, l : Promised!DeleteOne(c, l) = DeleteOne(c, l)
  /\ Promised!NoLink = NoLink
BY DEF Promised!Conflict, Promised!InsertOne, Promised!UpdateLast,
       Promised!DeleteOne, Promised!NoLink,
       Conflict, InsertOne, UpdateLast, DeleteOne, NoLink

\* A step that changes nothing the promise is about.
LEMMA PromisedStutter ==
  ASSUME UNCHANGED <<creating, coll, ever, clock, posted, published>>
  PROVE  PromisedStep
BY DEF PromisedStep, Promised!vars

\* A delete is a removal, or finds nothing.
LEMMA PromisedDelete ==
  ASSUME NEW link, coll' = DeleteOne(coll, link),
         UNCHANGED <<creating, ever, clock, posted, published>>
  PROVE  PromisedStep
<1>1. CASE \E r \in coll : r.reg.link = link
  <2>1. PICK r \in coll : r.reg.link = link
    BY <1>1
  <2>2. Promised!Remove(r.reg.link)
    BY <2>1, SameStorage DEF Promised!Remove
  <2> QED BY <2>2 DEF PromisedStep, Promised!Next
<1>2. CASE \A r \in coll : r.reg.link # link
  <2>1. coll' = coll
    BY <1>2 DEF DeleteOne
  <2> QED BY <2>1, PromisedStutter
<1> QED BY <1>1, <1>2

\* Clients ask, are refused or register.
LEMMA PromisedClients == Clients => PromisedStep
<1> SUFFICES ASSUME Clients PROVE PromisedStep
  OBVIOUS
<1> USE DEF telegram, handling
<1>1. ASSUME NEW q \in Requests, CreateCheck(q) PROVE PromisedStep
  <2>1. Promised!Ask(q)
    BY <1>1 DEF CreateCheck, Promised!Ask
  <2> QED BY <2>1 DEF PromisedStep, Promised!Next
<1>2. ASSUME NEW q, q \in creating, creating' = creating \ {q},
             UNCHANGED <<coll, ever, clock, posted, published>>
      PROVE  PromisedStep
  <2>1. Promised!Withdraw
    BY <1>2 DEF Promised!Withdraw
  <2> QED BY <2>1 DEF PromisedStep, Promised!Next
<1>3. ASSUME NEW q \in Requests, CreateInsert(q) PROVE PromisedStep
  <2>1. CASE Conflict(coll, q)
    BY <1>2, <1>3, <2>1 DEF CreateInsert, InsertOne
  <2>2. CASE ~Conflict(coll, q)
    <3>1. q \in creating /\ Promised!Register(q)
      BY <1>3, <2>2, SameStorage DEF CreateInsert, Promised!Register
    <3> QED BY <3>1 DEF PromisedStep, Promised!Next
  <2> QED BY <2>1, <2>2
<1>4. ASSUME NEW q \in Requests, CreateFails(q) PROVE PromisedStep
  BY <1>2, <1>4 DEF CreateFails
<1>5. ASSUME NEW link \in Removals, RemoveRecord(link) PROVE PromisedStep
  BY <1>5, PromisedDelete DEF RemoveRecord
<1> QED BY <1>1, <1>3, <1>4, <1>5 DEF Clients

\* Telegram posts.
LEMMA PromisedTelegram == Telegram => PromisedStep
<1> SUFFICES ASSUME NEW i \in Ids,
                    \/ \E body \in Contents : PostMessage(i, body)
                    \/ ToggleTag(i)
                    \/ Expel(i)
             PROVE  PromisedStep
  BY DEF Telegram
<1> USE DEF store, handling
<1>1. ASSUME NEW body \in Contents, PostMessage(i, body) PROVE PromisedStep
  <2>1. body \in Bodies
    BY ContentsAreBodies DEF Bodies
  <2>2. Promised!Post(i, body)
    BY <1>1 DEF PostMessage, Promised!Post
  <2> QED BY <2>1, <2>2 DEF PromisedStep, Promised!Next
<1>2. CASE ToggleTag(i) \/ Expel(i)
  BY <1>2, PromisedStutter DEF ToggleTag, Expel
<1> QED BY <1>1, <1>2

\* The loop removes, and dates records as messages were.
LEMMA PromisedLoop == IInv /\ RefreshLoop => PromisedStep
<1> SUFFICES ASSUME IInv, RefreshLoop PROVE PromisedStep
  OBVIOUS
<1> USE DEF store, telegram, handling
<1>1. CASE ListChats \/ ListChannels \/ RoundFails \/ EndRound
  BY <1>1, PromisedStutter DEF ListChats, ListChannels, RoundFails, EndRound
<1>2. ASSUME NEW q \in page, Handle(q) PROVE PromisedStep
  <2>1. CASE DeleteTagged(q)
    BY <2>1, PromisedDelete DEF DeleteTagged
  <2>2. CASE RefreshUpdate(q)
    <3> DEFINE last == chansJoined[q.id].last
    <3>1. Joined(q.id) /\ last # 0 /\ q \in ever
      BY <2>2 DEF IInv, RefreshUpdate, UpdatesKnown, Registered
    <3>2. PICK m \in posted : m.id = q.id /\ m.date = last
      BY <3>1 DEF IInv, DatesPosted, Joined
    <3>3. Promised!Redate(q, m)
      BY <2>2, <3>2, SameStorage DEF RefreshUpdate, Promised!Redate
    <3> QED BY <3>1, <3>3 DEF PromisedStep, Promised!Next
  <2>3. CASE \/ JoinChat(q) \/ JoinFails(q) \/ TagFound(q) \/ NoTagFound(q)
             \/ DeleteTaggedFails(q) \/ RefreshLock(q) \/ RefreshWrite(q)
             \/ RefreshUpdateFails(q)
    BY <2>3, PromisedStutter
       DEF JoinChat, JoinFails, TagFound, NoTagFound, DeleteTaggedFails,
           RefreshLock, RefreshWrite, RefreshUpdateFails
  <2> QED BY <1>2, <2>1, <2>2, <2>3 DEF Handle
<1> QED BY <1>1, <1>2 DEF RefreshLoop

\* The handler publishes what was posted as text, for a channel of its map.
LEMMA PromisedHandler == IInv /\ TextPublished /\ MessageHandler => PromisedStep
<1> SUFFICES ASSUME IInv, TextPublished, MessageHandler PROVE PromisedStep
  OBVIOUS
<1> USE DEF store, telegram
<1>1. CASE PublishDone
  <2> DEFINE q == chansJoined[evt.id].reg
  <2>1. Joined(evt.id) /\ evt.body = "text"
    BY <1>1 DEF PublishDone, IInv, PublishesKnown, TextPublished
  <2>2. q \in ever /\ q.id = evt.id /\ q.label = MyLabel
    BY <2>1 DEF IInv, Registered, Joined
  <2>3. refresh # "write"
    BY <1>1 DEF IInv, LockProtocol, PublishDone
  <2>4. evt.src \in {NoLink, q.link}
    BY <1>1, <2>3 DEF IInv, SourceAgrees, PublishDone
  <2>5. PICK m \in posted : m.id = evt.id /\ m.date = evt.date /\ m.body = evt.body
    BY <1>1 DEF PublishDone, IInv, DatesPosted
  <2>6. Promised!Publish(q, m)
    BY <1>1, <2>1, <2>2, <2>4, <2>5, SameStorage
       DEF PublishDone, Promised!Publish, UserOf
  <2> QED BY <2>2, <2>6 DEF PromisedStep, Promised!Next
<1>2. CASE ~PublishDone
  BY <1>2, PromisedStutter
     DEF MessageHandler, Convert, HandleUnknown, HandleKnown, PublishFails
<1> QED BY <1>1, <1>2

\* A restart drops the calls under way.
LEMMA PromisedRestart == Restart => PromisedStep
<1> SUFFICES ASSUME Restart PROVE PromisedStep
  OBVIOUS
<1>1. Promised!Withdraw
  BY DEF Restart, telegram, Promised!Withdraw
<1> QED BY <1>1 DEF PromisedStep, Promised!Next

\* Only text is on its way to the writer.
LEMMA TextInvariant == Spec => []TextPublished
<1>1. Init => TextPublished
  BY DEF Init, TextPublished
<1>2. TextPublished /\ [Next]_vars => TextPublished'
  BY HandlerFrame
     DEF TextPublished, MessageHandler, Convert, HandleUnknown, HandleKnown,
         PublishDone, PublishFails, Restart, Idle
<1> QED BY <1>1, <1>2, PTL DEF Spec

\* The replica does to records and events nothing but what Following allows,
\* however its loop, its handler, its clients and its restarts interleave.
THEOREM FollowingKept == Spec => ImplementsFollowing
<1>1. Init => Promised!Init
  BY DEF Init, Promised!Init
<1>2. IInv /\ TextPublished /\ [Next]_vars => [Promised!Next]_(Promised!vars)
  <2>1. UNCHANGED vars => PromisedStep
    BY PromisedStutter DEF vars, store, telegram, handling
  <2> QED BY <2>1, PromisedClients, PromisedTelegram, PromisedLoop,
             PromisedHandler, PromisedRestart
          DEF Next, MapRace, Crash, PromisedStep
<1> QED BY <1>1, <1>2, Invariant, TextInvariant, PTL
        DEF Spec, ImplementsFollowing, Promised!Spec
=============================================================================
