--------------------------- MODULE JoinedChannels ---------------------------
(***************************************************************************)
(* The heart of one replica: which Telegram channels it follows and what   *)
(* it publishes from them.  Four kinds of actor interleave here:           *)
(*                                                                         *)
(*  - clients of the gRPC API, who register channels and remove them;      *)
(*  - Telegram, whose channels post messages, carry or lose the #nobot tag *)
(*    and expel the account;                                               *)
(*  - the refresh loop (service.RefreshJoinedLoop), which reads the        *)
(*    registered channels page, joins them, copies them into the map       *)
(*    chansJoined and writes the date of the last message back;            *)
(*  - the message handler (message.msgHandler), which turns a message of a *)
(*    known channel into an event and publishes it.                        *)
(*                                                                         *)
(* The loop and the handler share the map under the mutex chansJoinedLock, *)
(* except for one read: convertToEvent takes the source of the event from  *)
(* the map before anything is locked.  A crash empties the map; the        *)
(* collection and the account's chats survive it.                          *)
(***************************************************************************)
EXTENDS Storage, Sequences

CONSTANTS
  Requests,   \* the registrations clients ask for
  Removals,   \* the links that clients remove or that retention expires
  MyLabel,    \* the label of the channels this replica follows
  ListLimit,  \* the most channels one page holds
  Taggable,   \* the chats whose owners use the #nobot tag
  Contents,   \* the kinds of message that channels post
  Faults,     \* the kinds of failure that may happen
  MaxClock,   \* bound: messages posted
  MaxQueue,   \* bound: messages waiting for the handler
  MaxCreating,\* bound: Create calls in flight
  MaxCrashes  \* bound: restarts of the process

ASSUME RequestsAreRegistrations == Requests \subseteq Registration
ASSUME ContentsAreBodies == Contents \subseteq {"text", "nobot", "nodata"}
ASSUME LimitIsNatural == ListLimit \in Nat

VARIABLES
  coll,        \* the stored channel records
  creating,    \* Create calls past the tag check, not yet in the store
  ever,        \* history: every registration that reached the store
  tgChats,     \* the chats the account has joined
  tagged,      \* chats with #nobot in the description
  clock,       \* date of the latest message
  posted,      \* history: every message posted
  updates,     \* messages Telegram has yet to hand to the handler
  chansJoined, \* the map from chat id to channel, shared under the lock
  lock,        \* holder of chansJoinedLock
  refresh,     \* where the refresh loop is
  chats,       \* the loop's GetChats snapshot
  page,        \* the loop's channels still to handle, in the order of links
  handler,     \* where the message handler is
  evt,         \* the event the handler is working on
  published,   \* events the writer acknowledged
  crashes      \* number of restarts

store    == <<coll, creating, ever>>
telegram == <<tgChats, tagged, clock, posted>>
loop     == <<refresh, chats, page>>
handling == <<handler, evt, published>>
vars == <<store, telegram, updates, chansJoined, lock, loop, handling, crashes>>

-----------------------------------------------------------------------------

\* Text with or without #nobot in it; a location or unsupported content.
Bodies  == {"text", "nobot", "nodata"}
Post    == [id: Ids, date: Nat, body: Bodies]
Entry   == [reg: Registration, last: Nat]
Event   == [id: Ids, date: Nat, body: Bodies, src: Links \union {NoLink}]
Output  == [id: Ids, date: Nat, src: Links \union {NoLink},
            user: Users \union Links]
NoEvent == [id |-> 0, date |-> 0, body |-> "none", src |-> NoLink]

EmptyMap  == [i \in {} |-> NoEvent]
Joined(i) == i \in DOMAIN chansJoined

\* chansJoined[i] = entry
Assign(i, entry) ==
  [j \in DOMAIN chansJoined \union {i} |->
     IF j = i THEN entry ELSE chansJoined[j]]

\* The channel the loop is at: the first of the page.
IsNext(q) == q \in page /\ \A p \in page : q.link <= p.link

\* The user an event is published as: the channel's, or else its link.
UserOf(q) == IF q.user = NoUser THEN q.link ELSE q.user

\* A new deployment: an empty store, an account that may be in chats already.
Init ==
  /\ coll = {} /\ creating = {} /\ ever = {}
  /\ tgChats \in SUBSET Ids /\ tagged = {} /\ clock = 1 /\ posted = {}
  /\ updates = <<>>
  /\ chansJoined = EmptyMap
  /\ lock = "free"
  /\ refresh = "start" /\ chats = {} /\ page = {}
  /\ handler = "idle" /\ evt = NoEvent /\ published = {}
  /\ crashes = 0

-----------------------------------------------------------------------------
(* Clients.                                                                *)

\* Create up to the tag check, which passes when the lookup fails.
CreateCheck(q) ==
  /\ q \notin creating
  /\ Cardinality(creating) < MaxCreating
  /\ q.id \notin tagged \/ "lookup" \in Faults
  /\ creating' = creating \union {q}
  /\ UNCHANGED <<coll, ever, telegram, updates, chansJoined, lock, loop,
                 handling, crashes>>

\* The rest of Create: the insert, rejected when a key is taken.
CreateInsert(q) ==
  /\ q \in creating
  /\ creating' = creating \ {q}
  /\ coll' = InsertOne(coll, q, clock)
  /\ ever' = IF Conflict(coll, q) THEN ever ELSE ever \union {q}
  /\ UNCHANGED <<telegram, updates, chansJoined, lock, loop, handling,
                 crashes>>

CreateFails(q) ==
  /\ "store" \in Faults
  /\ q \in creating
  /\ creating' = creating \ {q}
  /\ UNCHANGED <<coll, ever, telegram, updates, chansJoined, lock, loop,
                 handling, crashes>>

\* A client's Delete, or the retention index: either drops the record only.
RemoveRecord(link) ==
  /\ \E r \in coll : r.reg.link = link
  /\ coll' = DeleteOne(coll, link)
  /\ UNCHANGED <<creating, ever, telegram, updates, chansJoined, lock, loop,
                 handling, crashes>>

-----------------------------------------------------------------------------
(* Telegram.                                                               *)

\* A joined chat gets a message; TDLib queues it for the listener.
PostMessage(i, body) ==
  /\ clock < MaxClock
  /\ Len(updates) < MaxQueue
  /\ i \in tgChats
  /\ clock' = clock + 1
  /\ posted' = posted \union {[id |-> i, date |-> clock + 1, body |-> body]}
  /\ updates' = Append(updates, [id |-> i, date |-> clock + 1, body |-> body])
  /\ UNCHANGED <<store, tgChats, tagged, chansJoined, lock, loop, handling,
                 crashes>>

\* The owner adds #nobot to the description, or takes it out.
ToggleTag(i) ==
  /\ tagged' = IF i \in tagged THEN tagged \ {i} ELSE tagged \union {i}
  /\ UNCHANGED <<store, tgChats, clock, posted, updates, chansJoined, lock,
                 loop, handling, crashes>>

Expel(i) ==
  /\ "expel" \in Faults
  /\ i \in tgChats
  /\ tgChats' = tgChats \ {i}
  /\ UNCHANGED <<store, tagged, clock, posted, updates, chansJoined, lock,
                 loop, handling, crashes>>

-----------------------------------------------------------------------------
(* The refresh loop.                                                       *)

ListChats ==
  /\ refresh = "start"
  /\ chats' = tgChats
  /\ refresh' = "page"
  /\ UNCHANGED <<store, telegram, updates, chansJoined, lock, page, handling,
                 crashes>>

\* GetPage.  A cursor that breaks off is not noticed: the page is then a
\* prefix of the matching channels.
ListChannels ==
  /\ refresh = "page"
  /\ \/ page' = LabelPage(coll, MyLabel, ListLimit)
     \/ /\ "cursor" \in Faults
        /\ \E n \in 0 .. Cardinality(coll) :
             /\ n < ListLimit
             /\ page' = LabelPage(coll, MyLabel, n)
  /\ refresh' = "each"
  /\ UNCHANGED <<store, telegram, updates, chansJoined, lock, chats, handling,
                 crashes>>

\* GetChats or GetPage returns an error.  The retry around the loop starts it
\* again, unless the process is older than the backoff's 15 minutes: then the
\* retry gives up and nothing starts the loop again.
RoundFails ==
  /\ refresh \in {"start", "page"}
  /\ "list" \in Faults
  /\ chats' = {}
  /\ \/ refresh' = "start"
     \/ "giveup" \in Faults /\ refresh' = "stopped"
  /\ UNCHANGED <<store, telegram, updates, chansJoined, lock, page, handling,
                 crashes>>

\* The account is not in the chat: JoinChat, which may do its work and still
\* report an error.  The channel is then skipped for this round.
JoinChat(q) ==
  /\ refresh = "each" /\ IsNext(q) /\ q.id \notin chats
  /\ tgChats' = tgChats \union {q.id}
  /\ refresh' = "check"
  /\ UNCHANGED <<store, tagged, clock, posted, updates, chansJoined, lock,
                 chats, page, handling, crashes>>

JoinFails(q) ==
  /\ "join" \in Faults
  /\ refresh = "each" /\ IsNext(q) /\ q.id \notin chats
  /\ tgChats' \in {tgChats, tgChats \union {q.id}}
  /\ page' = page \ {q}
  /\ UNCHANGED <<store, tagged, clock, posted, updates, chansJoined, lock,
                 refresh, chats, handling, crashes>>

AtTagCheck(q) ==
  /\ IsNext(q)
  /\ \/ refresh = "check"
     \/ refresh = "each" /\ q.id \in chats

\* chatContainsNoBotTag: a lookup that fails counts as no tag.
TagFound(q) ==
  /\ AtTagCheck(q) /\ q.id \in tagged
  /\ refresh' = "delete"
  /\ UNCHANGED <<store, telegram, updates, chansJoined, lock, chats, page,
                 handling, crashes>>

NoTagFound(q) ==
  /\ AtTagCheck(q) /\ (q.id \notin tagged \/ "lookup" \in Faults)
  /\ refresh' = "lock"
  /\ UNCHANGED <<store, telegram, updates, chansJoined, lock, chats, page,
                 handling, crashes>>

\* Seeded fault: the request names a key no record has, and deletes nothing.
DeleteTaggedByNoKey(q) ==
  /\ refresh = "delete" /\ IsNext(q)
  /\ page' = page \ {q} /\ refresh' = "each"
  /\ UNCHANGED <<store, telegram, updates, chansJoined, lock, chats, handling,
                 crashes>>

\* The tagged channel's record is deleted by link; an error is ignored and
\* the map keeps its entry.
DeleteTagged(q) ==
  /\ refresh = "delete" /\ IsNext(q)
  /\ coll' = DeleteOne(coll, q.link)
  /\ page' = page \ {q} /\ refresh' = "each"
  /\ UNCHANGED <<creating, ever, telegram, updates, chansJoined, lock, chats,
                 handling, crashes>>

DeleteTaggedFails(q) ==
  /\ "store" \in Faults
  /\ refresh = "delete" /\ IsNext(q)
  /\ page' = page \ {q} /\ refresh' = "each"
  /\ UNCHANGED <<store, telegram, updates, chansJoined, lock, chats, handling,
                 crashes>>

\* Seeded fault: the entry is written whether or not there is one.
RefreshLockOverwriting(q) ==
  /\ refresh = "lock" /\ IsNext(q) /\ lock = "free"
  /\ lock' = "refresh" /\ refresh' = "write"
  /\ UNCHANGED <<store, telegram, updates, chansJoined, chats, page, handling,
                 crashes>>

\* Seeded fault: the two dates are compared the wrong way round.
RefreshLockOlder(q) ==
  /\ refresh = "lock" /\ IsNext(q) /\ lock = "free"
  /\ \/ /\ ~Joined(q.id)
        /\ lock' = "refresh" /\ refresh' = "write"
        /\ UNCHANGED page
     \/ /\ Joined(q.id)
        /\ page' = page \ {q} /\ refresh' = "each"
        /\ UNCHANGED lock
  /\ UNCHANGED <<store, telegram, updates, chansJoined, chats, handling,
                 crashes>>

\* updateJoined takes the lock.  The page carries no dates, so any date in
\* memory counts as newer.
RefreshLock(q) ==
  /\ refresh = "lock" /\ IsNext(q) /\ lock = "free"
  /\ \/ /\ ~Joined(q.id)
        /\ lock' = "refresh" /\ refresh' = "write"
        /\ UNCHANGED page
     \/ /\ Joined(q.id) /\ chansJoined[q.id].last > 0
        /\ lock' = "refresh" /\ refresh' = "update"
        /\ UNCHANGED page
     \/ /\ Joined(q.id) /\ chansJoined[q.id].last = 0
        /\ page' = page \ {q} /\ refresh' = "each"
        /\ UNCHANGED lock
  /\ UNCHANGED <<store, telegram, updates, chansJoined, chats, handling,
                 crashes>>

\* The map assignment ends.  Between RefreshLock and this step the map is
\* being written.
RefreshWrite(q) ==
  /\ refresh = "write" /\ IsNext(q)
  /\ chansJoined' = Assign(q.id, [reg |-> q, last |-> 0])
  /\ lock' = "free" /\ page' = page \ {q} /\ refresh' = "each"
  /\ UNCHANGED <<store, telegram, updates, chats, handling, crashes>>

\* Seeded fault: the update inserts a record when none has the link.
RefreshUpdateUpsert(q) ==
  /\ refresh = "update" /\ IsNext(q)
  /\ LET last == chansJoined[q.id].last IN
       coll' = InsertOne(UpdateLast(coll, q.link, last), q, last)
  /\ lock' = "free" /\ page' = page \ {q} /\ refresh' = "each"
  /\ UNCHANGED <<creating, ever, telegram, updates, chansJoined, chats,
                 handling, crashes>>

\* The last date goes to the record with this link, if there is one.
RefreshUpdate(q) ==
  /\ refresh = "update" /\ IsNext(q)
  /\ coll' = UpdateLast(coll, q.link, chansJoined[q.id].last)
  /\ lock' = "free" /\ page' = page \ {q} /\ refresh' = "each"
  /\ UNCHANGED <<creating, ever, telegram, updates, chansJoined, chats,
                 handling, crashes>>

\* Seeded fault: the error path returns without the unlock.
RefreshUpdateFailsLocked(q) ==
  /\ "store" \in Faults
  /\ refresh = "update" /\ IsNext(q)
  /\ page' = page \ {q} /\ refresh' = "each"
  /\ UNCHANGED <<store, telegram, updates, chansJoined, lock, chats, handling,
                 crashes>>

RefreshUpdateFails(q) ==
  /\ "store" \in Faults
  /\ refresh = "update" /\ IsNext(q)
  /\ lock' = "free" /\ page' = page \ {q} /\ refresh' = "each"
  /\ UNCHANGED <<store, telegram, updates, chansJoined, chats, handling,
                 crashes>>

\* The round is over; after the interval the next one starts.
EndRound ==
  /\ refresh = "each" /\ page = {}
  /\ refresh' = "start" /\ chats' = {}
  /\ UNCHANGED <<store, telegram, updates, chansJoined, lock, page, handling,
                 crashes>>

-----------------------------------------------------------------------------
(* The message handler.                                                    *)

\* What the unlocked map read in convertToEvent may return.  While the loop
\* assigns the channel it may be seen already or not yet.
SourcesSeen(i) ==
  {IF Joined(i) THEN chansJoined[i].reg.link ELSE NoLink} \union
  {q.link : q \in {p \in page : refresh = "write" /\ IsNext(p) /\ p.id = i}}

\* Seeded fault: the event is let go, the handler does not go back to wait.
IdleWithoutWaiting ==
  evt' = NoEvent /\ UNCHANGED handler

Idle ==
  handler' = "idle" /\ evt' = NoEvent

\* Seeded fault: the text is not searched for #nobot.
ConvertUnsearched ==
  /\ handler = "idle" /\ updates # <<>>
  /\ updates' = Tail(updates) /\ handler' = "lock"
  /\ LET m == Head(updates) IN
       \E src \in SourcesSeen(m.id) :
         evt' = [id |-> m.id, date |-> m.date, src |-> src,
                 body |-> IF m.body = "nobot" THEN "text" ELSE m.body]
  /\ UNCHANGED <<store, telegram, chansJoined, lock, loop, published, crashes>>

\* Seeded fault: the latest message is taken up first.
ConvertLatest ==
  /\ handler = "idle" /\ updates # <<>>
  /\ updates' = SubSeq(updates, 1, Len(updates) - 1)
  /\ LET m == updates[Len(updates)] IN
       \/ m.body = "nobot" /\ UNCHANGED <<handler, evt>>
       \/ /\ m.body # "nobot"
          /\ handler' = "lock"
          /\ \E src \in SourcesSeen(m.id) :
               evt' = [id |-> m.id, date |-> m.date, body |-> m.body,
                       src |-> src]
  /\ UNCHANGED <<store, telegram, chansJoined, lock, loop, published, crashes>>

\* convertToEvent.  A message whose text has #nobot is dropped here.
Convert ==
  /\ handler = "idle" /\ updates # <<>>
  /\ updates' = Tail(updates)
  /\ LET m == Head(updates) IN
       \/ m.body = "nobot" /\ UNCHANGED <<handler, evt>>
       \/ /\ m.body # "nobot"
          /\ handler' = "lock"
          /\ \E src \in SourcesSeen(m.id) :
               evt' = [id |-> m.id, date |-> m.date, body |-> m.body,
                       src |-> src]
  /\ UNCHANGED <<store, telegram, chansJoined, lock, loop, published, crashes>>

\* updateChannelAndPublish finds no channel under the lock.
HandleUnknown ==
  /\ handler = "lock" /\ lock = "free" /\ ~Joined(evt.id)
  /\ Idle
  /\ UNCHANGED <<store, telegram, updates, chansJoined, lock, loop, published,
                 crashes>>

\* Seeded fault: the date stored is the time of handling, not the message's.
HandleKnownNow ==
  /\ handler = "lock" /\ lock = "free" /\ Joined(evt.id)
  /\ chansJoined' = [chansJoined EXCEPT ![evt.id].last = clock]
  /\ \/ evt.body = "nodata" /\ Idle /\ UNCHANGED lock
     \/ /\ evt.body = "text"
        /\ handler' = "publish" /\ lock' = "handler"
        /\ UNCHANGED evt
  /\ UNCHANGED <<store, telegram, updates, loop, published, crashes>>

\* It finds one: the date goes to memory; an event with no data (a location
\* or an unsupported content) is not published, any other is, with the lock
\* held.
HandleKnown ==
  /\ handler = "lock" /\ lock = "free" /\ Joined(evt.id)
  /\ chansJoined' = [chansJoined EXCEPT ![evt.id].last = evt.date]
  /\ \/ evt.body = "nodata" /\ Idle /\ UNCHANGED lock
     \/ /\ evt.body = "text"
        /\ handler' = "publish" /\ lock' = "handler"
        /\ UNCHANGED evt
  /\ UNCHANGED <<store, telegram, updates, loop, published, crashes>>

\* The writer acknowledges the event, published as the channel's user.
PublishDone ==
  /\ handler = "publish"
  /\ published' = published \union
       {[id |-> evt.id, date |-> evt.date, src |-> evt.src,
         user |-> UserOf(chansJoined[evt.id].reg)]}
  /\ lock' = "free" /\ Idle
  /\ UNCHANGED <<store, telegram, updates, chansJoined, loop, crashes>>

\* Seeded fault: the error path returns without the unlock.
PublishFailsLocked ==
  /\ "publish" \in Faults
  /\ handler = "publish"
  /\ Idle
  /\ UNCHANGED <<store, telegram, updates, chansJoined, lock, loop, published,
                 crashes>>

\* An error, or the backoff's 10 seconds are over: the event is logged and
\* dropped.
PublishFails ==
  /\ "publish" \in Faults
  /\ handler = "publish"
  /\ lock' = "free" /\ Idle
  /\ UNCHANGED <<store, telegram, updates, chansJoined, loop, published,
                 crashes>>

-----------------------------------------------------------------------------
(* Crashes.                                                                *)

\* Everything in memory is gone; TDLib delivers what it had not handed over,
\* or the later part of it.
Restart ==
  /\ crashes < MaxCrashes
  /\ crashes' = crashes + 1
  /\ chansJoined' = EmptyMap
  /\ creating' = {}
  /\ lock' = "free"
  /\ refresh' = "start" /\ chats' = {} /\ page' = {}
  /\ Idle
  /\ \E n \in 0 .. Len(updates) :
       updates' = SubSeq(updates, n + 1, Len(updates))
  /\ UNCHANGED <<coll, ever, telegram, published>>

\* The Go runtime ends a process that reads a map while it is written.
MapRace == refresh = "write" /\ handler = "idle" /\ updates # <<>> /\ Restart

Crash == "crash" \in Faults /\ Restart

-----------------------------------------------------------------------------

Clients ==
  \/ \E q \in Requests : CreateCheck(q) \/ CreateInsert(q) \/ CreateFails(q)
  \/ \E link \in Removals : RemoveRecord(link)

Telegram ==
  \E i \in Ids :
    \/ \E body \in Contents : PostMessage(i, body)
    \/ i \in Taggable /\ ToggleTag(i)
    \/ Expel(i)

Handle(q) ==
  \/ JoinChat(q) \/ JoinFails(q)
  \/ TagFound(q) \/ NoTagFound(q)
  \/ DeleteTagged(q) \/ DeleteTaggedFails(q)
  \/ RefreshLock(q) \/ RefreshWrite(q)
  \/ RefreshUpdate(q) \/ RefreshUpdateFails(q)

RefreshLoop ==
  \/ ListChats \/ ListChannels \/ RoundFails \/ EndRound
  \/ \E q \in page : Handle(q)

MessageHandler ==
  Convert \/ HandleUnknown \/ HandleKnown \/ PublishDone \/ PublishFails

Next ==
  Clients \/ Telegram \/ RefreshLoop \/ MessageHandler \/ MapRace \/ Crash

Spec == Init /\ [][Next]_vars

-----------------------------------------------------------------------------
(* Safety.                                                                 *)

\* The type of every variable.
TypeOK ==
  /\ coll \subseteq Channel
  /\ creating \subseteq Requests
  /\ ever \subseteq Requests
  /\ tgChats \subseteq Ids /\ tagged \subseteq Ids
  /\ clock \in Nat \ {0}
  /\ posted \subseteq Post
  /\ updates \in Seq(Post)
  /\ DOMAIN chansJoined \subseteq Ids
  /\ chansJoined \in [DOMAIN chansJoined -> Entry]
  /\ lock \in {"free", "refresh", "handler"}
  /\ refresh \in {"start", "page", "each", "check", "delete", "lock", "write",
                 "update", "stopped"}
  /\ chats \subseteq Ids
  /\ page \subseteq Registration
  /\ handler \in {"idle", "lock", "publish"}
  /\ evt \in Event \union {NoEvent}
  /\ handler # "idle" => evt \in Event
  /\ published \subseteq Output
  /\ crashes \in Nat

\* chansJoinedLock has the holder whose code is between Lock and Unlock, and
\* no other: the loop never holds it across a round, the handler never keeps
\* it after a publish that failed (updateJoined, updateChannelAndPublish).
LockProtocol ==
  /\ lock = "refresh" <=> refresh \in {"write", "update"}
  /\ lock = "handler" <=> handler = "publish"

\* However Create calls, removals and refreshes interleave, no two records
\* share an id or a link (the unique indices that Create relies on, having no
\* check of its own between the lookup and the insert).
OneRecordPerKey == UniqueKeys(coll)

\* Every event is published for one registration this replica was given: its
\* chat, its user and its source (when it has one) belong together.  The
\* source is read without the lock and the user under it, the channel may be
\* removed and registered anew under another link or user in between, and
\* still the two never mix.
EventsOfOneRegistration ==
  \A p \in published :
    \E q \in ever :
      /\ q.id = p.id /\ q.label = MyLabel
      /\ p.user = UserOf(q)
      /\ p.src \in {NoLink, q.link}

\* The stored date of the last message is the time the record was created, or
\* the date of a message really posted in a chat registered under that link:
\* no refresh writes a date of nobody's, through a stale page, an entry of a
\* removed channel or a record created meanwhile.
LastAccounted ==
  \A r \in coll :
    \/ r.last = r.created
    \/ \E m \in posted : \E q \in ever :
         m.date = r.last /\ q.id = m.id /\ q.link = r.reg.link

\* A record that was removed comes back only through a Create call: the loop,
\* still holding the removed channel in its page or in memory, updates
\* nothing and inserts nothing.
NoResurrection ==
  [][\A r \in coll' :
       r.reg \in {s.reg : s \in coll} \union creating]_vars

\* Until a restart the loop never takes a channel out of the map or replaces
\* its entry, so no date the handler has put there is lost or goes back.
MemoryKept ==
  [][crashes' = crashes =>
       \A i \in DOMAIN chansJoined :
         /\ i \in DOMAIN chansJoined'
         /\ chansJoined'[i].reg = chansJoined[i].reg
         /\ chansJoined'[i].last >= chansJoined[i].last]_vars

\* The date is one of a message of the chat.
OwnDate(i, d) == \E m \in posted : m.id = i /\ m.date = d

\* Once a record has the date of a message of its own chat, no refresh takes it
\* back to an earlier one of them, although every round writes the date from
\* memory whatever the record has, a restart forgets that date, and a link may
\* pass to another chat and back.  What may go back is the date of creation,
\* when memory is older than a record created anew, and what is lost is an own
\* date that a stale page overwrites with another chat's, for it may be later.
DatesAdvance ==
  [][\A r \in coll, s \in coll' :
       /\ r.reg = s.reg /\ r.last # r.created
       /\ OwnDate(r.reg.id, r.last) /\ OwnDate(r.reg.id, s.last)
       => r.last <= s.last]_vars

\* "Channel contains the #nobot tag in the description, removing": a channel
\* whose record is removed while it has the tag is not known to the handler
\* either, so that a message taken up afterwards is not published.
TaggedSilenced ==
  [][/\ handler = "idle" /\ handler' = "lock"
     /\ evt'.id \in tagged
     /\ \A r \in coll : r.reg.id # evt'.id
     => ~Joined(evt'.id)]_vars

\* All of it together: the loop, the handler, the clients and the restarts do
\* nothing to records and events but what Following allows.  A message that
\* carries the tag or no data is not published, one that was never posted
\* neither, and no record is inserted or dated but for a request or a message.
Promised ==
  INSTANCE Following WITH
    asked <- creating, records <- coll, now <- clock,
    messages <- posted, events <- published

ImplementsFollowing == Promised!Spec

-----------------------------------------------------------------------------
(* Liveness.                                                               *)

\* The process runs both goroutines.  A Go mutex hands itself to a waiter
\* that has waited for long, and a request that is repeated every round
\* succeeds in some round.  Of a publish nothing is assumed, neither that it
\* succeeds nor that it ends: its request has no timeout.
Fairness ==
  /\ WF_vars(RefreshLoop)
  /\ WF_vars(Convert)
  /\ SF_vars(\E q \in page : RefreshLock(q))
  /\ SF_vars(HandleUnknown \/ HandleKnown)
  /\ WF_vars(ListChats)
  /\ SF_vars(ListChannels)
  /\ \A i \in Ids :
       /\ SF_vars(\E q \in page : q.id = i /\ JoinChat(q))
       /\ SF_vars(\E q \in page : q.id = i /\ TagFound(q))
       /\ SF_vars(\E q \in page : q.id = i /\ NoTagFound(q))
       /\ SF_vars(\E q \in page : q.id = i /\ DeleteTagged(q))
       /\ SF_vars(\E q \in page : q.id = i /\ RefreshUpdate(q))

FairSpec == Spec /\ Fairness

\* The replica has a record of the chat to follow.
Follows(i) == \E r \in coll : r.reg.id = i /\ r.reg.label = MyLabel

\* A publish never ends: the handler keeps the lock from the loop for good.
WriterHangs == <>[](handler = "publish")

\* A text message that waits for the handler, from a channel in the map, is
\* handed to publish under the lock, whatever became of the messages before
\* it, unless the process restarts or an earlier publish hangs for good.  What
\* becomes of it there, published or dropped, is the subject of Publishing.
KnownTextHandedOn ==
  \/ WriterHangs
  \/ \A i \in Ids, d \in 2 .. MaxClock, c \in 0 .. MaxCrashes :
       /\ \E k \in DOMAIN updates :
            updates[k] = [id |-> i, date |-> d, body |-> "text"]
       /\ Joined(i)
       /\ crashes = c
       ~> \/ handler = "publish" /\ evt.id = i /\ evt.date = d
          \/ crashes # c

\* The date of a channel's last message reaches its record, unless the
\* record is removed, the process restarts, the loop has given up or a
\* publish hangs for good: no error leaves the lock taken, and no round that
\* fails loses the date.
LastReachesStore ==
  \/ WriterHangs
  \/ \A i \in Ids, d \in 2 .. MaxClock, c \in 0 .. MaxCrashes :
       /\ Joined(i) /\ chansJoined[i].last = d
       /\ Follows(i)
       /\ crashes = c
       ~> \/ \E r \in coll : r.reg.id = i /\ r.last >= d
          \/ ~Follows(i)
          \/ refresh = "stopped"
          \/ crashes # c

\* A followed channel whose owner adds #nobot loses its record, although
\* lookups of the tag and deletes fail, unless the tag goes away again, the
\* loop has given up or a publish hangs for good.
TaggedRemoved ==
  \/ WriterHangs
  \/ \A i \in Ids :
       Follows(i) /\ i \in tagged
       ~> ~Follows(i) \/ i \notin tagged \/ refresh = "stopped"
=============================================================================
