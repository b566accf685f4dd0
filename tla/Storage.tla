------------------------------ MODULE Storage ------------------------------
(***************************************************************************)
(* The collection of channel records kept in MongoDB (storage_mongo.go)    *)
(* and the effect of each single-document operation on it.  Every          *)
(* operation is one atomic request to the database, so each is an operator *)
(* from a collection to a collection; the modules that own a `coll`        *)
(* variable decide when one runs and what the caller sees of it.           *)
(*                                                                         *)
(* A record is [reg, created, last].  `reg` is what a client registered:   *)
(* the chat id, the link, the user (standing for the group and user ids)   *)
(* and the replica label.  The code never rewrites these fields, so a      *)
(* registration travels through pages and memory as one value.             *)
(***************************************************************************)
EXTENDS Integers, FiniteSets

CONSTANTS
  Ids,     \* chat ids
  Links,   \* channel links, ordered as the database sorts them
  Users,   \* user ids, NoUser among them
  NoUser,  \* the empty user id
  Labels   \* replica labels, the empty label of replica 0 among them

ASSUME LinksAreOrdered == Links \subseteq Nat \ {0}

NoLink == 0

Registration == [id: Ids, link: Links, user: Users, label: Labels]

Channel == [reg: Registration, created: Nat, last: Nat]

\* The two unique indices: no insert may share an id or a link with a record.
Conflict(coll, q) ==
  \E r \in coll : r.reg.id = q.id \/ r.reg.link = q.link

\* Seeded fault: the unique index on the link is missing.
InsertOneIdIndexOnly(coll, q, now) ==
  IF \E r \in coll : r.reg.id = q.id
  THEN coll
  ELSE coll \union {[reg |-> q, created |-> now, last |-> now]}

InsertOne(coll, q, now) ==
  IF Conflict(coll, q)
  THEN coll
  ELSE coll \union {[reg |-> q, created |-> now, last |-> now]}

\* $set of `last` on the document with the link; no upsert.
UpdateLast(coll, link, last) ==
  {IF r.reg.link = link THEN [r EXCEPT !.last = last] ELSE r : r \in coll}

DeleteOne(coll, link) == {r \in coll : r.reg.link # link}

\* Seeded fault: the filter leaves the label out.
LabelPageUnfiltered(coll, label, limit) ==
  LET matching == {r.reg : r \in coll}
  IN {q \in matching : Cardinality({p \in matching : p.link < q.link}) < limit}

\* The label filter, an ascending sort by link and a limit.  A page carries
\* no dates: GetPage copies neither `created` nor `last` out of the record.
LabelPage(coll, label, limit) ==
  LET matching == {r.reg : r \in {s \in coll : s.reg.label = label}}
  IN {q \in matching : Cardinality({p \in matching : p.link < q.link}) < limit}

UniqueKeys(coll) ==
  \A r, s \in coll : r.reg.id = s.reg.id \/ r.reg.link = s.reg.link => r = s
=============================================================================
