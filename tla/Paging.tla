------------------------------- MODULE Paging -------------------------------
(***************************************************************************)
(* A client's walk over the registered channels, page by page (List in     *)
(* controller.go, GetPage in storage_mongo.go), while other clients        *)
(* register and remove channels.                                           *)
(*                                                                         *)
(* The pages come from a database cursor that moves along the index on the *)
(* link: each document is read at a time of its own, not in one snapshot.  *)
(* The client asks for the next page with the last link it was given and   *)
(* stops at an empty page, which is all the API tells it about the end.    *)
(***************************************************************************)
EXTENDS Storage

CONSTANTS
  Requests,  \* the registrations clients may ask for
  Filters,   \* the filters clients may walk with
  Limits,    \* the page limits they may ask for, 0 among them
  Starts,    \* the cursors they may start from
  Profile,   \* a registration's subscription and name, which never change
  Matches,   \* the pairs of a pattern and a text it matches
  NoSub,     \* the empty subscription of a filter
  AnyLabel   \* the filter without a label

ASSUME RequestsAreRegistrations == Requests \subseteq Registration
ASSUME LimitsAreNumbers == Limits \subseteq Nat
ASSUME StartsAreLinks == Starts \subseteq Links \union {NoLink}

VARIABLES
  coll,  \* the collection
  call,  \* the client's call: none, find, cursor or ended
  req,   \* its request: filter, order, limit and cursor
  pos,   \* the link the database cursor has reached
  page,  \* the channels read for this page
  got,   \* the channels of the walk's earlier pages
  from,  \* the cursor the walk started with
  due,   \* history: the channels the walk must not miss
  broke  \* history: a page came back empty because its cursor broke off

vars == <<coll, call, req, pos, page, got, from, due, broke>>

Orders == {"asc", "desc"}
Request == [filter: Filters, order: Orders, limit: Limits,
            cursor: Links \union {NoLink}]

TypeOK ==
  /\ coll \subseteq Channel
  /\ call \in {"none", "find", "cursor", "ended"}
  /\ req \in Request
  /\ pos \in Links \union {NoLink}
  /\ page \subseteq Registration
  /\ got \subseteq Registration
  /\ from \in Links \union {NoLink}
  /\ due \subseteq Registration
  /\ broke \in BOOLEAN

Regs == {r.reg : r \in coll}

-----------------------------------------------------------------------------
(* What a page selects *)

\* The empty user, subscription and pattern select everything; so does a
\* filter without a label, while the empty label selects what has none.
Selects(f, q) ==
  /\ f.label = AnyLabel \/ q.label = f.label
  /\ f.user = NoUser \/ q.user = f.user
  /\ f.sub = NoSub \/ Profile[q].sub = f.sub
  /\ \/ <<f.pattern, q.link>> \in Matches
     \/ <<f.pattern, Profile[q].name>> \in Matches

\* $lt in descending order, $gt in ascending order.
Beyond(order, link, cursor) ==
  IF order = "desc" THEN link < cursor ELSE link > cursor

\* Seeded fault: $gte and $lte, the cursor's own channel comes again.
AheadOrAt ==
  {q \in Regs : ~Beyond(req.order, pos, q.link) /\ Selects(req.filter, q)}

Ahead == {q \in Regs : Beyond(req.order, q.link, pos) /\ Selects(req.filter, q)}

\* Seeded fault: the sort is left out, documents come in any order.
NearestUnsorted(qs) == qs

\* The next documents in the order of the sort: one, as links are unique.
Nearest(qs) ==
  {q \in qs : \A p \in qs : p = q \/ Beyond(req.order, p.link, q.link)}

\* Seeded fault: a limit of 0 lets nothing through.
FullZero == Cardinality(page) >= req.limit

\* The database takes a limit of 0 for none.
Full == req.limit # 0 /\ Cardinality(page) >= req.limit

-----------------------------------------------------------------------------
(* The walk *)

Init ==
  /\ coll = {}
  /\ call = "none"
  /\ req \in [filter: Filters, order: {"asc"}, limit: Limits, cursor: {NoLink}]
  /\ pos = NoLink /\ from = NoLink
  /\ page = {} /\ got = {} /\ due = {}
  /\ broke = FALSE

\* The first List of a walk.
StartWalk ==
  /\ call \in {"none", "ended"}
  /\ \E f \in Filters, o \in Orders, l \in Limits, s \in Starts :
       /\ req' = [filter |-> f, order |-> o, limit |-> l, cursor |-> s]
       /\ from' = s /\ pos' = s
  /\ call' = "find"
  /\ page' = {} /\ got' = {}
  /\ due' = Regs
  /\ broke' = FALSE
  /\ UNCHANGED coll

\* GetPage: the query is sent and its cursor opened.
Find ==
  /\ call = "find"
  /\ call' = "cursor"
  /\ pos' = req.cursor
  /\ page' = {}
  /\ UNCHANGED <<coll, req, got, from, due, broke>>

\* Seeded fault: the page takes the documents themselves.
NextDocumentRaw ==
  /\ call = "cursor"
  /\ ~Full
  /\ \E q \in Nearest(Ahead) :
       /\ page' = page \union {r \in coll : r.reg = q}
       /\ pos' = q.link
  /\ UNCHANGED <<coll, call, req, got, from, due, broke>>

\* cur.Next and Decode: one document joins the page.
NextDocument ==
  /\ call = "cursor"
  /\ ~Full
  /\ \E q \in Nearest(Ahead) :
       /\ page' = page \union {q}
       /\ pos' = q.link
  /\ UNCHANGED <<coll, call, req, got, from, due, broke>>

\* The page is answered; the client asks for the next one, or stops.
Answer ==
  /\ got' = got \union page
  /\ call' = IF page = {} THEN "ended" ELSE "find"
  /\ req' = [req EXCEPT !.cursor = pos]
  /\ page' = {}
  /\ UNCHANGED <<coll, pos, from, due>>

\* cur.Next has no more documents.
CursorEnds ==
  /\ call = "cursor"
  /\ Full \/ Ahead = {}
  /\ Answer
  /\ UNCHANGED broke

\* cur.Next fails. Nothing asks the cursor for its error: what there is of
\* the page is answered as a page.
CursorBreaks ==
  /\ call = "cursor"
  /\ ~Full /\ Ahead # {}
  /\ Answer
  /\ broke' = (page = {})

\* Find or Decode fails: an error is answered, with it the server sends no
\* page, and the client gives the walk up.
CallFails ==
  /\ call \in {"find", "cursor"}
  /\ call' = "none"
  /\ page' = {} /\ got' = {} /\ due' = {}
  /\ UNCHANGED <<coll, req, pos, from, broke>>

-----------------------------------------------------------------------------
(* Other clients *)

\* Another client's Create. The walk is to meet a channel registered at a
\* place its cursor has not passed yet.
Create(q) ==
  /\ ~Conflict(coll, q)
  /\ coll' = InsertOne(coll, q, 0)
  /\ due' = IF call \in {"find", "cursor"} /\ Beyond(req.order, q.link, pos)
            THEN due \union {q}
            ELSE due
  /\ UNCHANGED <<call, req, pos, page, got, from, broke>>

\* Another client's Delete.
Delete(link) ==
  /\ coll' = DeleteOne(coll, link)
  /\ coll' # coll
  /\ due' = {q \in due : q.link # link}
  /\ UNCHANGED <<call, req, pos, page, got, from, broke>>

-----------------------------------------------------------------------------

Walk == Find \/ NextDocument \/ CursorEnds

Next ==
  \/ StartWalk
  \/ Find
  \/ NextDocument
  \/ CursorEnds
  \/ CursorBreaks
  \/ CallFails
  \/ \E q \in Requests : Create(q)
  \/ \E l \in Links : Delete(l)

\* The goroutine that serves the call runs. Nothing is assumed of clients.
Spec == Init /\ [][Next]_vars /\ WF_vars(Walk)

-----------------------------------------------------------------------------
(* Properties *)

Wanted(q) == Selects(req.filter, q) /\ Beyond(req.order, q.link, from)

\* Whatever breaks off and whatever is registered or removed meanwhile, a
\* channel the walk has gone past and that was there in time was given to the
\* client: GetPage's sort, its cursor clause and the broken-off prefix agree.
NoSkip ==
  \A q \in due :
    Wanted(q) /\ ~Beyond(req.order, q.link, pos) => q \in got \union page

\* A walk that ended met every channel that was there in time, unless the
\* empty page it ended with came from a cursor that broke off.
WalkComplete ==
  call = "ended" /\ ~broke => \A q \in due : Wanted(q) => q \in got

\* No channel is given twice, and none before one that sorts behind it, over
\* all pages of a walk and although channels come and go between them.
InOrder ==
  [][\A q \in page' \ page : \A p \in got \union page :
       Beyond(req.order, q.link, p.link)]_vars

\* Every walk ends, however fast channels are registered and removed: each
\* page moves the cursor.
WalkEnds == []<>(call \in {"none", "ended"})
=============================================================================
