# source-telegram in TLA+

source-telegram follows public Telegram channels and publishes their messages
as events to Awakari. A deployment has several replicas; each logs in to
Telegram as one account, follows the channels labelled with its index and, on
one of the replicas, also creates Telegram channels for public interests. This
directory holds a specification of the service, the configurations that
model-check it and the theorems proved about it.

Paths below are relative to `src/`.

## Inventory

### Refresh loop (`service/service.go`: RefreshJoinedLoop, refreshJoined, updateJoined)
- State: the map `chansJoined` (chat id to channel with the date of its last
  message), shared with the message handler under `chansJoinedLock`; within a
  round, the account's chats and the page of registered channels.
- Operations: every round lists the account's chats, reads the page of the
  replica's channels, joins those it is not in, removes the ones whose
  description has `#nobot`, and puts the others in the map or, when they are
  there already, writes the date from memory to the store.
- Interacts with Telegram (TDLib calls), the store, and the handler through
  the map. `main.go` starts it again after an error, with a backoff that gives
  up 15 minutes after the process started.
- Hard: the page and the list of chats are stale by the time they are used;
  the map is keyed by chat id, the store's requests by link; a page carries no
  dates; lookups fail open; entries never leave the map.
- Right when: the lock has one holder and is let go on every path; a stale
  page never brings a removed record back or gives a record a date that is not
  its own; memory is never lost or replaced while the process lives; tagged
  channels lose their record; dates reach the store.

### Message handler (`handler/message/handler.go`, `handler/update/handler.go`)
- State: the queue of updates in TDLib's listener; the event in hand.
- Operations: one update at a time is converted into an event (text with
  `#nobot` is dropped) and, when the channel is in the map, the date goes to
  memory and an event with data is published, with retries, all under the lock.
- Hard: the source of the event is read from the map before the lock is taken,
  while the loop may be assigning to the map (the Go runtime may end the
  process); the lock is held across HTTP requests and a 10 s retry.
- Right when: source, user and chat of a published event belong together; a
  text of a known channel is handed to publish, whatever failed before it.

### Channel storage (`storage/storage_mongo.go`) and registration (`service.go`: Create, Delete)
- State: one MongoDB collection with unique indices on id and link and a
  retention index.
- Operations: single-document insert, update of `last`, delete, and pages
  filtered by label, user, subscription and pattern, with cursor and order.
- Hard: Create checks the tag and inserts in two requests; the error of the
  page's cursor is never read; a page is read document by document while
  channels come and go; a descending walk from the empty cursor is empty; the
  retention index removes by `last`, which only the refresh loop renews.
- Right when: no two records share a key whatever Create calls race; a walk
  over the pages meets every channel that was there in time, once; an active
  channel keeps its record.

### Local cache (`storage/cache.go`)
- State: up to 1000 channels by link, for a minute each.
- Hard: Create, Update and Delete maintain the cache on the error branch only,
  so it holds channels whose insert failed and keeps channels that were removed.
- Right when: Read returns what the store has or had during the call. It does
  not; what holds is that anything else is a channel for which Create answered
  an error less than a cache entry's life ago.

### Interest consumers (`main.go`: consumeQueue; `api/grpc/queue/service.go`; `service.go`: HandleInterestChange)
- State: two queues (interests created, interests updated) with what is not
  acknowledged; the channels at Telegram.
- Operations: a batch is received; for each event of a public interest, the
  channel with the interest's name is searched for or created, named and given
  a logo, the bot becomes its administrator and is told to start the interest;
  then the batch is acknowledged by its length.
- Hard: both consumers may miss the same channel at once; every request may
  fail half-way through an event and its error is dropped; a batch that was not
  acknowledged comes again; an error of one stream ends the process.
- Right when: nothing is acknowledged unhandled; a name stays with its channel
  and interests start only there; orphaned channels stay few; public interests
  get served; one bad event does not block the queue.

### Publisher (`api/http/pub/service.go`)
- Stateless: a POST per event; status codes and the acknowledged count become
  errors, one of which (ErrNoAck) the handler retries.
- Hard: an event taken by the writer whose answer is lost is sent again; a
  request may arrive after its sender gave up; the client has no timeout and is
  called under the lock.
- Right when: what is reported as published was taken, in order; copies of one
  message have one id; the date in the store claims no unfinished message.

### Search and registration of many (`service.go`: SearchAndAdd)
- Looks at up to `limit` chats of a search and stores the channels among them
  that have a name and members enough; errors of single chats are joined.
- Hard: what the returned number counts (`countAdded` in
  `api/grpc/service.proto`), and that it is lost with an error;
  other clients register and remove the same links meanwhile.
- Right when: an answer without an error means that what qualifies is stored.

### Startup, login, gRPC API (`main.go`, `api/grpc/controller.go`)
- State: the code channel to TDLib's authorizer; the controller's service,
  nil until the client has logged in.
- Hard: a code offered while nobody receives is refused; a wrong one may end
  the process; the service is set without synchronisation; every failure of a
  request is a panic; the signal handler is installed after Listen ends.
- Right when: every call is answered; what is accepted was asked for; calls are
  served only by a complete service; the replica comes up in the end.

### The rest
Configuration is read once; the logging decorators pass calls through; mocks,
helpers, the charts and the build files hold no state of the program.

## Modules

| module | what it is |
|---|---|
| `Storage` | the collection: each database request as an operator from collection to collection |
| `JoinedChannels` | one replica: clients, Telegram, refresh loop, message handler, crashes; implements `Following` |
| `Following` | abstract: records come, go and change their date only for a request or a message of a chat registered under the link; only posted texts become events |
| `MCJoined` | instances of `JoinedChannels` for TLC |
| `StorageProofs` | lemmas about the operators of `Storage` |
| `JoinedChannelsProofs` | the inductive invariant of `JoinedChannels`, the theorems and the refinement of `Following` |
| `Publishing` | one channel's messages on their way to the writer, attempt by attempt, and the lock shared with the loop; implements `EventDelivery` |
| `EventDelivery` | abstract: events one after the other, delivered only when taken |
| `PublishingProofs` | its invariant, theorems and the refinement |
| `Paging`, `MCPaging` | a client's walk over the pages of List while others register and remove |
| `PagingProofs` | order and completeness of a walk |
| `Retention`, `RetentionProofs` | an active channel's record against time |
| `CachedStore` | the collection behind the local cache, for several callers |
| `SearchAndAdd`, `MCSearch` | a search that registers, on top of `CachedStore` |
| `SearchProofs` | what reads and searches answer |
| `Boot`, `BootProofs` | start, login, assembly, calls all the while, restarts |
| `InterestRegistry` | abstract: names are claimed once, interests start in the channel of their name |
| `Interests` | the two queue consumers and the channels they create; implements `InterestRegistry` |
| `MCInterests` | instances of `Interests` for TLC |
| `InterestsProofs` | types, acknowledgements, the number of channels, and the refinement of `InterestRegistry` |

Composition: `JoinedChannels`, `Paging` and `CachedStore` all stand on the
collection of `Storage`; `SearchAndAdd` extends `CachedStore` and makes its
insert there, so a search and other clients share store and cache. `Publishing`
and `Retention` take one step of `JoinedChannels` apart: a publish into its
attempts, a round into its time.

### From code to JoinedChannels
- `coll` is the collection. A record is a registration (id, link, user, label,
  fields the code never rewrites) with `created` and `last`. `user` stands for
  the group and user ids, which are stored and published as a pair.
- `creating` holds Create calls between the tag check and the insert: the
  check and the insert are two actions, so calls race as they do in the code.
- `refresh`, `chats`, `page` are the loop's program counter and locals; each
  request to Telegram or the store is one action, with an action next to it
  for its failure. The lock is taken in `RefreshLock` and let go in the action
  that leaves `updateJoined`.
- `handler`, `evt`, `updates` are the same for the handler. `Convert` is
  convertToEvent with its unlocked read: while the loop is inside its map
  assignment (`refresh = "write"`) the read may see the entry or not, or end the
  process (`MapRace`).
- `HandleKnown`, `PublishDone` and `PublishFails` are updateChannelAndPublish:
  lock, date, publish, unlock. The attempts of one publish are one step with
  two outcomes.
- `Restart` clears what is in memory; the updates TDLib had queued come again
  or not.
- A date is the number of the message: `clock` counts posts, so dates of
  different messages differ, where Telegram's have a second's resolution. The zero time of a page entry is 0.
- `ever`, `posted` and `published` are histories, written and never read by
  the actions.
- `ImplementsFollowing` maps the replica to `Following`: `asked` is `creating`,
  `records` is `coll`, `now` is `clock`, `messages` and `events` are `posted` and
  `published`. The loop, the handler, the map, the lock and the queue are gone:
  their steps are stutters except where a request reaches the store (Register,
  Remove, Redate) or the writer (Publish). A restart is a Withdraw.

### From code to Interests
- `queue[c]` is what queue `c` has not been told is done; `worker[c]` is the
  consumer's place in its batch and in handlePublicInterestChange; `chats` are
  the channels at Telegram with name, bot and the interests started in them.
- Every TDLib call is one action with its failure next to it. The error that
  setChanPublic leaves behind is `worker[c].err`: setChanLogo still runs. A
  request that fails may have had its effect: the channel may be there, or have
  its name (`GiveName`). For the last two requests, the bot's rights and the
  start of the interest, failing with the effect is the same as success, because
  nothing looks at their errors.
- `NameOf` is the construction of the name from the interest's id: any
  function, because the code cuts and merges ids.
- `handled` is a history for AckedHandled.

### From code to Publishing
- `phase`, `tries` are the handler's place in updateChannelAndPublish and in
  publish; `network` has the requests that were sent and not answered for, so a
  request may be taken late, or after its sender gave up.
- `Acked`, `NoAck` and `OtherError` are the outcomes of one attempt: the status
  codes and the acknowledged count. The first attempt is retried on NoAck only,
  later ones on any error, as in the code; `GiveUp` is the end of the 10 s.
- An event is the number of its creation (its id is made in convertToEvent);
  `msgOf` has its message. `log` is what the writer took, `fate` a history.

### From code to Paging
- `req`, `page`, `pos` are one List call: its request, the documents read, the
  place of the database cursor. `NextDocument` reads one document at a time.
- `got` and `from` belong to the client that walks; `due` is the history of
  what the walk must meet: what was there at its start or was registered ahead
  of the cursor, and not removed since.
- `CursorBreaks` is a cursor that fails without anyone asking: a short or
  empty page. `CallFails` is an error the client sees.
- Names and subscriptions are a function `Profile` of the registration; a
  pattern is a set of texts it matches.

### From code to Retention
- Time goes by in `Tick`, never past an overdue message or round. `Visit` is
  updateJoined for the channel: the first visit makes the entry without a date,
  later ones write the date from memory.
- A fault is a failed visit, a failed round or a restart. `RoundFails` ends the
  loop when the process is older than `GiveUpAge`, the backoff's 15 minutes.

### From code to CachedStore and SearchAndAdd
- A call is a step on the store, then one on the cache (read: the other way
  round). Each store request may fail with or without effect. The cache is
  changed in the error branch only, as in `storage/cache.go`.
- `seen[p]` collects what was stored during caller p's call; `refused` what
  Create answered an error for, until the cache entry of its link goes: by its
  time, by the cache's size, or after a failed Update or Delete. Both are
  histories.
- `SearchAndAdd` goes chat by chat: GetChat, tag, kind, GetSupergroup, insert.
  What is no supergroup, has no name or too few members is counted without
  being stored; groups are passed over; every other failure joins the error.

### From code to Boot
- `main` is the place in main.go; `svc` is the interface value, half written
  for a moment because nothing synchronises SetService with the handlers.
- `auth` and `session` are TDLib; a login is `EnterCode` or `EnterWrongCode`, then
  `Hand` when the provider receives, `Refuse` otherwise.
- `Die` clears the process; `Restart` is Kubernetes.

## Runs

| run | instance | checks |
|---|---|---|
| `joined_reuse` | two chats, two links, three registrations that share ids and links, two Creates in flight; store and publish failures | TypeOK, OneRecordPerKey, EventsOfOneRegistration, LastAccounted, DatesAdvance |
| `joined_faults` | one chat, labels of two replicas, every failure, one restart, the tag | LockProtocol, NoResurrection, MemoryKept, ImplementsFollowing |
| `joined_live` | one channel; lookups, joins, lists, store requests and publishes fail, the loop may give up | KnownTextHandedOn, LastReachesStore, TaggedRemoved |
| `joined_nobot` | one channel, no failure | TaggedSilenced, which is violated |
| `publishing_retries` | three messages, one without data, three attempts, three copies, one crash | TypeOK, InboxOrder, StoredFinished, RepeatsHaveOneId, DeliversEvents, HandlerReturns |
| `paging_walk` | four chats over three links, three filters, both orders, limits 0 to 2, two starts | TypeOK, NoSkip, WalkComplete, InOrder, WalkEnds |
| `retention_lag` | retention 19, interval 2, silence 2, two faults, time 40 | TypeOK, LagBounded, ActiveKept |
| `registering` | a search over five chats, one client, two links, four calls | TypeOK, ReadsFresh, SuccessStoresAll |
| `cached_refused` | the same with three calls | ReadsStored, which is violated |
| `boot_login` | two operators, one client, three faults | TypeOK, AcceptedWasAsked, ServedWhenReady, CallsEnd, ComesUp |
| `interests_race` | two consumers, five events, three interests, two names, one restart, no failing request | TypeOK, FewOrphans, PublicServed |
| `interests_faults` | two consumers, three events, every failure, one restart | AckedHandled, ImplementsRegistry, QueuesDrain |

What they show:
- Records keep unique keys and no event mixes two registrations, although
  source and user are read at different times under different protection:
  within one process a map entry is never replaced, and a missing one yields
  no source at all.
- A stored date is the record's creation or a message of a chat that was
  registered under the record's link. It need not be a message of the chat the
  record has now: updateJoined finds the entry by id and the record by link.
- A record that has the date of a message of its own chat is not taken back to
  an earlier one of them (DatesAdvance), although every round writes from memory
  without knowing what the record has. Three things are excepted, since the code
  does them: a foreign chat's date may come over a link that changed hands; a
  record created anew may get an older date than that of its creation; and a
  foreign date may replace an own one, being later.
- In `joined_live` lookups, joins, lists, store requests and publishes may fail. A text that waits for the handler is
  handed to publish, dates reach the store and tagged channels lose their
  records, whatever failed before; what the code gives up on purpose is
  excepted, a text whose publish failed and a loop past its 15 minutes, and one
  thing it does not provide for: a publish that never ends, which keeps the lock
  and stops both goroutines.
- A replica keeps what `Following` promises through every failure and a restart:
  whatever it read before, it only removes records, gives them the date of a
  message that was posted in a chat registered under their link, and publishes
  posted texts, each with source and user of one registration of its own. In
  particular no message with the tag and none without data is
  published, although convertToEvent and the publish are apart.
- `joined_nobot` shows a disagreement of code and log message: the loop
  announces that it is removing a tagged channel, deletes the record, and leaves
  the map entry; the handler goes on publishing. The same holds for records
  removed through the API or by retention.
- `publishing_retries`: publishing is at-least-once delivery. What publish
  reports as done was taken, and before anything later; late copies repeat.
  Repetitions carry one id unless a crash came between. The stored date may be
  of a message whose publish failed (the code drops it), never of one that is
  still in hand or was cut short, because the lock spans date and publish.
  The handler comes back for the next message or hangs in a request the writer
  never answers; nothing else stops it, as the retries come to an end.
- `paging_walk`: each page moves the cursor, so walks end, meet channels in the
  order of their links and never twice, and miss none that was there in time. A
  broken cursor only shortens a page; the exception is an empty page from a
  cursor that broke before its first document, which looks like the end.
  A descending walk needs a start above all links; from the empty cursor it is
  empty at once.
- `retention_lag`: as long as the loop has not given up, the stored date lags by
  at most the silence and two intervals for each fault and once more, so the
  retention period must exceed that. After the loop gives up nothing holds.
- `registering`: an answer without an error means that everything within the
  limit that qualifies was stored. A Read gives what is stored at the moment of
  its answer, or a channel for which Create answered an error within the life of a
  cache entry. The second is not only a channel that was never stored: after
  Create, Create again (a conflict, so the channel is cached) and Delete (which
  succeeds, so the entry stays) the removed channel is read for up to a minute, and
  so it is when an insert failed after its effect. A channel created once and
  without an error is never read when it is gone.
- `cached_refused` shows a disagreement of code and test: the cache takes in a
  channel whose Create failed, and a Read of its link answers with it, where
  `storage/storage_mongo_test.go` expects ErrNotFound.
- The number a search answers with is of the chats that met no error, although
  `api/grpc/service.proto` calls it `countAdded`: a private chat, a channel without
  a name and one with too few members are in it and were not added; groups are not
  in it. The model counts as the code does, and no property is stated of it.
- `boot_login`: no Login waits, no code is accepted that was not asked for, and
  although the service is set without a lock, a call is served by a complete
  service, answered "unavailable", or ends the process; the replica comes up when
  faults stop.
- The race of the two consumers leaves channels without a name behind: when no
  request fails, there is at most one channel per name and consumer and one more
  per consumer for each restart. It never moves a name nor starts an interest in a foreign channel. Two interests whose
  ids are cut to one name share a channel, and when they race for it one of
  them is not started; PublicServed is therefore stated for names.

### Bounds
- `MaxClock` 3: two messages after the initial time; enough for a date in
  memory to be older, equal or newer than a stored one and for messages before
  and after a removal. `MaxQueue` 1 or 2: a message waiting while another is in
  hand. `MaxCreating` 2 in `joined_reuse`: of three registrations that share ids
  and links, two have passed the check and race for the id or the link, next to the
  loop and the handler. Elsewhere it is 1, a Create next to the loop; the theorem
  KeysUnique has any number.
- `MaxCrashes` 1: everything before and after a restart.
- Two ids and two links are what a reused link or id needs. `ListLimit` 2 holds
  all of them; shorter pages come from the `cursor` failure.
- `MaxChats` 7 in `interests_race` is above what FewOrphans allows, so the bound
  never stands in for the property; 3 in `interests_faults` leaves room for two
  orphans besides a named channel, and a consumer that cannot create any more
  takes the failing branch, which is possible at any time there.
- `publishing_retries`: three attempts are one of each kind (first, retried,
  last); three copies let a late one come behind a later event's.
- `paging_walk`: two chats want one link, so a link may pass to another channel
  within a walk; link 4 is nobody's and serves as the start of a descending walk;
  limits 1 and 2 make walks of several pages, 0 is a single one.
- `retention_lag`: `Retention` 19 is the least that `RetentionIsLong` admits for two
  faults; 40 is twice that.
- `registering`: one chat of each kind; the first and the last can be stored, with
  the links the client uses too. Limit 1 ends within the list, 5 with it.
- `boot_login`: three faults are a wrong code, a failed request and an end in
  every order; two operators race for one code.
- No symmetry is used: links are ordered and the instances are small.
- Deadlock is not checked: a replica without messages to handle and with its
  bounds used up stops, and so do consumers of finite queues.

### Fairness
- `JoinedChannels!Fairness`: both goroutines run (weak fairness). Waiting for the
  mutex is strongly fair, because a Go mutex in starvation mode hands itself to
  the longest waiter. Requests the loop repeats every round succeed in some
  round (strong fairness on the successful outcome of joining, checking the
  tag, deleting and updating); nothing is assumed of requests made once, such
  as a client's Create. Nothing is assumed of a publish either: not that it
  succeeds, nor that it ends, as the HTTP client has no timeout. So each liveness
  property of the replica allows for a publish that hangs for good
  (`WriterHangs`), and those of the store for a loop that gave up.
- `Interests!Fairness`: each consumer runs, and an acknowledgement gets
  through once in a while. No request of an event is assumed to succeed.

- `Paging`: the walk goes on (weak fairness of its steps); nothing is assumed
  of the clients that register and remove.
- `Publishing!Fairness`: the handler goes on when it is not waiting for an answer,
  the loop leaves its critical section, and the mutex is strongly fair. That a
  request is ever answered is not assumed, so HandlerReturns has the one
  alternative of waiting for good.
- `Boot!Fairness`: main, the API server's goroutines, TDLib and Kubernetes go on;
  an operator who is asked for codes again and again enters one in the end
  (strong fairness). Faults are bounded, as nothing comes up while they go on.

## Proofs

Eight modules hold proofs. The first two are about the replica:

`JoinedChannelsProofs` proves for all constants that satisfy the four named
assumptions (requests are registrations, contents are message bodies, the limit
is a natural number, links are positive numbers in their order):

| theorem | property |
|---|---|
| TypeCorrect | TypeOK |
| LockHeldInside | LockProtocol |
| KeysUnique | OneRecordPerKey |
| EventsConsistent | EventsOfOneRegistration |
| DatesAccounted | LastAccounted |
| DatesKeepAdvancing | DatesAdvance |
| RemovedStaysRemoved | NoResurrection |
| MemoryStays | MemoryKept |
| FollowingKept | ImplementsFollowing |

None of the properties is inductive alone; `IInv` adds what the code relies on
without saying so:
- `PageOrdered`: a page has one channel per link, so "the next one" is unique.
  It rests on the unique index at the moment the page was read.
- `WritesNew`, `UpdatesKnown`, `PublishesKnown`: what was found under the lock
  still holds when it is used, because the other side cannot have the lock and
  because entries never leave the map. They are what makes the entries that
  `RefreshUpdate` and `PublishDone` look up exist.
- `Registered`: the store, the page and the map hold registrations of this
  replica, each map entry under its own id.
- `SourceAgrees`: an event's source is empty or the link of the entry it will be
  published from. The case of interest is the unlocked read while the loop
  writes the entry: the value seen is the one being written.
- `DatesPosted`: dates in memory are of messages posted in that chat, and so
  is the event in hand, with the body it was converted from.
- `DatesInOrder`: dates grow from memory over the event in hand and the queue to
  the clock, so a date in memory is only replaced by a later one (MemoryKept). It
  rests on Telegram's order of messages and on the queue being first in, first
  out.
- `TextPublished`: what is in hand while publish runs is a text.

DatesAdvance rests on an invariant of its own, `RecordsInOrder`: one date is of
messages of one chat only; and a record's date, unless it is that of its creation,
is not later than anything still in hand or queued, nor, when it is of the record's
own chat and memory has a date for that chat, than memory. So an update, which
writes from memory, moves an own date forward. The invariant has to speak of the
queue because a restart empties the map: the next date memory gets comes from there.

FollowingKept goes through the actions: `PromisedStep` has one case for each that
touches the store, the requests, the posts or the events, and the conjuncts
above give the registration and the message that `Redate` and `Publish` ask for.

Frame lemmas say which steps can touch the map, the loop, the collection, the
histories and the handler; the lemma for each conjunct then treats only those.
`StorageProofs` has what insert, update, delete and page preserve.

The others prove, for all constants under the named assumptions of the
modules:

| module | theorem | property |
|---|---|---|
| `InterestsProofs` | TypeCorrect | TypeOK |
| | AcknowledgedWereHandled | AckedHandled |
| | OrphansBounded | FewOrphans |
| | RegistryKept | ImplementsRegistry |
| `PublishingProofs` | TypeCorrect | TypeOK |
| | CopiesInOrder | InboxOrder |
| | StoreClaimsFinished | StoredFinished |
| | OneIdPerMessage | RepeatsHaveOneId |
| | AtLeastOnce | DeliversEvents |
| `PagingProofs` | TypeCorrect | TypeOK |
| | WalkSkipsNothing | NoSkip |
| | EndedWalkComplete | WalkComplete |
| | PagesInOrder | InOrder |
| `RetentionProofs` | TypeCorrect | TypeOK |
| | LagStaysBounded | LagBounded |
| | ActiveRecordKept | ActiveKept |
| `SearchProofs` | TypeCorrect | TypeOK |
| | ReadsAreFresh | ReadsFresh |
| | SearchStores | SuccessStoresAll |
| `BootProofs` | TypeCorrect | TypeOK |
| | AcceptedOncePerAsk | AcceptedWasAsked |
| | ServedByReady | ServedWhenReady |

What each invariant adds to the properties:
- `InterestsProofs`: the queue is the end of the backlog, and what is gone from
  it, plus what the batch is past, is handled (`Accounted`). A consumer about to
  name a channel is alone with it (`Apart`) and the channel has no name; one about
  to start an interest is at a channel with the interest's name (`Place`); names are
  unique. From these every step is a Claim, a Start or a stutter of the registry.
  `ChannelsCounted` is what FewOrphans rests on: there are at most as many channels
  as consumers for each name that is taken and each restart, and one more for each
  consumer about to name a channel with a free name; a consumer about to create a
  channel whose name is taken meanwhile counts as if it had. So a name that gets taken
  turns the consumers racing for it into the share of that name.
- `PublishingProofs`: the event in hand is the last and only busy one, the lock is
  held exactly while it is published with its date in memory, and outside of that
  a date in memory is of a finished message. `Bounds` relates the counters to
  the phase: attempts stay within `MaxAttempts` because an attempt is only sent while
  there are some left.
- `PagingProofs`: the page and the earlier pages lie on the near side of the
  cursor's place, and whatever is due there is in one of them.
- `RetentionProofs`: with no entry, an entry without a date, or one with a date,
  how far the stored date may lie behind the last round.
- `SearchProofs`: what is cached was refused within the life of its entry, and
  `refused` forgets a link only together with its entry; what a call under way has stored is in
  its `seen`; without an error, what qualified so far is stored.
- `BootProofs`: main's place tells what is ready, the service is only set behind it,
  and while a code is asked for one login is still open. `AsksCounted` bounds how
  often a code is asked for: each time but the first costs a fault, and a wrong code
  under way is a fault spent whose question is still to come.

Assumptions: requests and found chats are well typed (`RequestsAreRegistrations`,
`FoundAreChats`, `SomeLink`, `NoUserIsUser`, `BacklogIsQueues`, `NoNameIsNone`, ...);
bounds are numbers; consumers and names are finitely many (`FinitelyMany`: there
are two streams, and channels are counted by name); `MaxAttempts` is at least 2
(`RetryTriesAtOnce`: after a first NoAck the backoff makes its first attempt
before it looks at the time). The one of substance is `RetentionIsLong`: the
retention period exceeds what the faults cost.

Every invariant, action property and refinement of the passing runs is a
theorem. Model-checked only are the liveness properties, because temporal
reasoning under fairness is out of the prover's reach here: KnownTextHandedOn,
LastReachesStore, TaggedRemoved, PublicServed, QueuesDrain, WalkEnds,
HandlerReturns, CallsEnd and ComesUp. ReadsStored
and TaggedSilenced do not hold.

## Not modelled
- The content of messages and the attributes of events, except whether there is
  data and whether the text has `#nobot`.
- Time, outside `Retention`: the interval, backoff delays and the cache's expiry
  appear as steps that may come at any time.
- Several replicas over one store, and who labels records: nothing in the
  repository changes a label.
- The group id apart from the user id: a filter looks at the group only together
  with a user.
- The effects of SetConsumer at the queue service, and updates TDLib delivers
  before GetListener.
- Stop of the Telegram client on a signal: the handler for it is installed when
  the program has ended.
- Messages out of order: the model's Telegram hands messages over in the order of
  their dates. MemoryKept, DatesAdvance and LastReachesStore depend on it.
- A name that somebody outside the service holds: to the consumers it is a
  search, a naming or an administrator request that fails, all of which the
  faults include.
- Those under "The rest".

## Plan
In this order, the most important first:
1. done: `Storage`, `JoinedChannels` with their proofs.
2. done: `Interests` and its refinement of `InterestRegistry`.
3. done: `Publishing` and its refinement of `EventDelivery`.
4. done: `Paging`, `Retention`.
5. done: `CachedStore` and `SearchAndAdd` on top of it.
6. done: `Boot`.
7. done: the proofs of all of these, with both refinements.
8. done: MemoryKept and FewOrphans as theorems, `Following` and the proof that the
   replica implements it, the type invariants in full.
9. left: two replicas over one store with relabelled records.
