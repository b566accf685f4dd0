----------------------------- MODULE Following -----------------------------
(***************************************************************************)
(* What a replica promises, without its loop, its handler and its memory:  *)
(* channels are registered by those who ask, under keys nobody has; a      *)
(* record's date is changed to that of a message of a chat registered      *)
(* under its link; an event is of a text message that was posted, for a    *)
(* registration of the replica's own.                                      *)
(***************************************************************************)
EXTENDS Storage

CONSTANTS
  Requests, \* the registrations clients ask for
  MyLabel,  \* the label of the channels the replica follows
  Bodies    \* the kinds of message

VARIABLES
  asked,    \* registrations asked for and not answered
  records,  \* the stored channels
  ever,     \* every registration there was
  now,      \* date of the latest message
  messages, \* what was posted
  events    \* what was published

vars == <<asked, records, ever, now, messages, events>>

Init ==
  /\ asked = {} /\ records = {} /\ ever = {}
  /\ now = 1 /\ messages = {} /\ events = {}

Ask(q) ==
  /\ asked' = asked \union {q}
  /\ UNCHANGED <<records, ever, now, messages, events>>

Withdraw ==
  /\ asked' \in SUBSET asked
  /\ UNCHANGED <<records, ever, now, messages, events>>

Register(q) ==
  /\ ~Conflict(records, q)
  /\ asked' = asked \ {q}
  /\ records' = InsertOne(records, q, now)
  /\ ever' = ever \union {q}
  /\ UNCHANGED <<now, messages, events>>

Remove(link) ==
  /\ records' = DeleteOne(records, link)
  /\ UNCHANGED <<asked, ever, now, messages, events>>

Redate(q, m) ==
  /\ q.id = m.id
  /\ records' = UpdateLast(records, q.link, m.date)
  /\ UNCHANGED <<asked, ever, now, messages, events>>

Post(i, body) ==
  /\ now' = now + 1
  /\ messages' = messages \union {[id |-> i, date |-> now + 1, body |-> body]}
  /\ UNCHANGED <<asked, records, ever, events>>

\* The source may be missing, the user is the link when there is none.
Publish(q, m) ==
  /\ q.id = m.id /\ q.label = MyLabel
  /\ m.body = "text"
  /\ \E src \in {NoLink, q.link} :
       events' = events \union
         {[id |-> m.id, date |-> m.date, src |-> src,
           user |-> IF q.user = NoUser THEN q.link ELSE q.user]}
  /\ UNCHANGED <<asked, records, ever, now, messages>>

Next ==
  \/ Withdraw
  \/ \E q \in Requests : Ask(q)
  \/ \E q \in asked : Register(q)
  \/ \E r \in records : Remove(r.reg.link)
  \/ \E i \in Ids, body \in Bodies : Post(i, body)
  \/ \E q \in ever, m \in messages : Redate(q, m) \/ Publish(q, m)

Spec == Init /\ [][Next]_vars
=============================================================================
