---------------------------- MODULE PagingProofs ----------------------------
(***************************************************************************)
(* The walk over the pages, for every collection, filter, limit and start: *)
(* types, order, and that nothing is skipped.                              *)
(***************************************************************************)
EXTENDS Paging, StorageProofs, FiniteSetTheorems

-----------------------------------------------------------------------------
(* Operators *)

\* The records of the next document's registration are in the collection.
LEMMA AheadRegistered ==
  ASSUME TypeOK
  PROVE  Ahead \subseteq Regs /\ Regs \subseteq Registration
BY DEF TypeOK, Ahead, Regs, Channel

\* In the order of either sort, links are compared like numbers.
LEMMA BeyondOrder ==
  ASSUME NEW o, NEW a \in Nat, NEW b \in Nat, NEW c \in Nat
  PROVE  /\ ~Beyond(o, a, a)
         /\ Beyond(o, a, b) \/ Beyond(o, b, a) \/ a = b
         /\ Beyond(o, a, b) /\ Beyond(o, b, c) => Beyond(o, a, c)
         /\ Beyond(o, a, b) => ~Beyond(o, b, a)
BY DEF Beyond

\* Links and the empty cursor are numbers.
LEMMA LinksAreNumbers ==
  /\ Links \union {NoLink} \subseteq Nat
  /\ \A q \in Registration : q.link \in Links
BY LinksAreOrdered DEF NoLink, Registration

\* Registrations with one link are the same registration when keys are unique.
LEMMA OneRegPerLink ==
  ASSUME UniqueKeys(coll), NEW p \in Regs, NEW q \in Regs, p.link = q.link
  PROVE  p = q
BY DEF Regs, UniqueKeys

\* An insert without a conflict adds the registration, a delete keeps those
\* under other links.
LEMMA RegsInserted ==
  ASSUME NEW q, ~Conflict(coll, q), coll' = InsertOne(coll, q, 0)
  PROVE  Regs' = Regs \union {q}
<1> DEFINE new == [reg |-> q, created |-> 0, last |-> 0]
<1>1. coll' = coll \union {new} /\ new.reg = q
  BY DEF InsertOne
<1> HIDE DEF new
<1> QED BY <1>1 DEF Regs

LEMMA RegsDeleted ==
  ASSUME NEW l, coll' = DeleteOne(coll, l)
  PROVE  Regs' = {q \in Regs : q.link # l}
BY DEF Regs, DeleteOne

-----------------------------------------------------------------------------
(* Types *)

\* The type invariant's step for what other clients do.
LEMMA TypeOthers ==
  ASSUME TypeOK, (\E q \in Requests : Create(q)) \/ (\E l \in Links : Delete(l))
  PROVE  TypeOK'
<1>1. ASSUME NEW q \in Requests, Create(q) PROVE TypeOK'
  <2>1. q \in Registration
    BY RequestsAreRegistrations
  <2>2. coll' \subseteq Channel
    BY <1>1, <2>1, InsertOneType DEF Create, TypeOK
  <2>3. due' \subseteq Registration
    BY <1>1, <2>1 DEF Create, TypeOK
  <2> QED BY <1>1, <2>2, <2>3 DEF Create, TypeOK
<1>2. ASSUME NEW l \in Links, Delete(l) PROVE TypeOK'
  BY <1>2, DeleteOneSubset DEF Delete, TypeOK
<1> QED BY <1>1, <1>2

\* The type invariant's step.
LEMMA TypeStep == TypeOK /\ [Next]_vars => TypeOK'
<1> SUFFICES ASSUME TypeOK, [Next]_vars PROVE TypeOK'
  OBVIOUS
<1>1. CASE StartWalk
  <2>1. PICK f \in Filters, o \in Orders, l \in Limits, s \in Starts :
          /\ req' = [filter |-> f, order |-> o, limit |-> l, cursor |-> s]
          /\ from' = s /\ pos' = s
    BY <1>1 DEF StartWalk
  <2>2. s \in Links \union {NoLink}
    BY StartsAreLinks
  <2>3. req' \in Request
    BY <2>1, <2>2 DEF Request
  <2>4. Regs \subseteq Registration
    BY AheadRegistered
  <2> QED BY <1>1, <2>1, <2>2, <2>3, <2>4 DEF StartWalk, TypeOK
<1>2. CASE Find
  BY <1>2 DEF Find, TypeOK, Request
<1>3. CASE NextDocument
  <2>1. PICK q \in Ahead : page' = page \union {q} /\ pos' = q.link
    BY <1>3 DEF NextDocument, Nearest
  <2>2. q \in Registration /\ q.link \in Links
    BY AheadRegistered, LinksAreNumbers
  <2> QED BY <1>3, <2>1, <2>2 DEF NextDocument, TypeOK
<1>4. CASE CursorEnds
  BY <1>4 DEF CursorEnds, Answer, TypeOK, Request
<1>5. CASE CursorBreaks
  BY <1>5 DEF CursorBreaks, Answer, TypeOK, Request
<1>6. CASE CallFails
  BY <1>6 DEF CallFails, TypeOK
<1>7. CASE (\E q \in Requests : Create(q)) \/ (\E l \in Links : Delete(l))
  BY <1>7, TypeOthers
<1>8. CASE UNCHANGED vars
  BY <1>8 DEF vars, TypeOK
<1> QED BY <1>1, <1>2, <1>3, <1>4, <1>5, <1>6, <1>7, <1>8 DEF Next

\* Every variable keeps its type (the walk of List and GetPage).
THEOREM TypeCorrect == Spec => []TypeOK
<1>1. Init => TypeOK
  BY DEF Init, TypeOK, Request, Orders
<1> QED BY <1>1, TypeStep, PTL DEF Spec

-----------------------------------------------------------------------------
(* The inductive invariant *)

\* While a request is under way its cursor is where the scan stands.
AtCursor == call = "find" => pos = req.cursor /\ page = {}

\* What the walk must not miss is still registered.
DueRegistered == due \subseteq Regs

\* Nothing the client has sorts behind the cursor's place.
Behind == \A q \in got \union page : ~Beyond(req.order, q.link, pos)

IInv ==
  /\ TypeOK
  /\ UniqueKeys(coll)
  /\ AtCursor
  /\ DueRegistered
  /\ Behind
  /\ NoSkip
  /\ WalkComplete

\* The first states satisfy the invariant.
LEMMA InitInv == Init => IInv
BY DEF Init, IInv, TypeOK, UniqueKeys, AtCursor, DueRegistered, Behind, NoSkip,
       WalkComplete, Request, Orders, Regs

\* One document read: it is the next wanted one, so nothing is passed over.
LEMMA DocumentStep ==
  ASSUME IInv, NextDocument
  PROVE  /\ Behind' /\ NoSkip'
         /\ \A q \in page' \ page : \A p \in got \union page :
              Beyond(req.order, q.link, p.link)
<1>1. PICK q \in Nearest(Ahead) : page' = page \union {q} /\ pos' = q.link
  BY DEF NextDocument
<1>2. UNCHANGED <<coll, call, req, got, from, due, broke>>
  BY DEF NextDocument
<1>3. /\ q \in Regs /\ q \in Registration
      /\ Beyond(req.order, q.link, pos) /\ Selects(req.filter, q)
      /\ \A p \in Ahead : p = q \/ Beyond(req.order, p.link, q.link)
  BY <1>1, AheadRegistered DEF Nearest, Ahead, IInv
<1>4. /\ pos \in Nat /\ q.link \in Nat /\ \A p \in got \union page : p.link \in Nat
      /\ \A d \in due : d.link \in Nat
  BY <1>3, LinksAreNumbers DEF IInv, TypeOK
<1>5. \A p \in got \union page : Beyond(req.order, q.link, p.link)
  <2> SUFFICES ASSUME NEW p \in got \union page
               PROVE  Beyond(req.order, q.link, p.link)
    OBVIOUS
  <2>1. ~Beyond(req.order, p.link, pos)
    BY DEF IInv, Behind
  <2> QED BY <1>3, <1>4, <2>1 DEF Beyond
<1>6. Behind'
  <2> SUFFICES ASSUME NEW p \in got \union page'
               PROVE  ~Beyond(req.order, p.link, q.link)
    BY <1>1, <1>2 DEF Behind
  <2>1. CASE p = q
    BY <2>1, <1>4, BeyondOrder
  <2>2. CASE p \in got \union page
    BY <2>2, <1>5, <1>4, BeyondOrder
  <2> QED BY <2>1, <2>2, <1>1
<1>7. NoSkip'
  <2> SUFFICES ASSUME NEW d \in due, Wanted(d), ~Beyond(req.order, d.link, q.link)
               PROVE  d \in got \union page \union {q}
    BY <1>1, <1>2 DEF NoSkip, Wanted
  <2>1. CASE ~Beyond(req.order, d.link, pos)
    BY <2>1 DEF IInv, NoSkip
  <2>2. CASE Beyond(req.order, d.link, pos)
    <3>1. d \in Ahead
      BY <2>2 DEF IInv, DueRegistered, Ahead, Wanted
    <3> QED BY <3>1, <1>3
  <2> QED BY <2>1, <2>2
<1> QED BY <1>1, <1>5, <1>6, <1>7

\* The page is answered: what was read for it is given to the client.
LEMMA AnswerStep ==
  ASSUME IInv, Answer
  PROVE  AtCursor' /\ DueRegistered' /\ Behind' /\ NoSkip'
<1>1. AtCursor'
  BY DEF Answer, AtCursor, IInv, TypeOK, Request
<1>2. DueRegistered'
  BY DEF Answer, DueRegistered, IInv, Regs
<1>3. req'.order = req.order /\ req'.filter = req.filter
  BY DEF Answer, IInv, TypeOK, Request
<1>4. Behind'
  BY <1>3 DEF Answer, Behind, IInv
<1>5. NoSkip'
  BY <1>3 DEF Answer, NoSkip, Wanted, IInv
<1> QED BY <1>1, <1>2, <1>4, <1>5

\* A cursor that has no more ends the walk only with nothing left ahead.
LEMMA EndStep ==
  ASSUME IInv, CursorEnds
  PROVE  WalkComplete'
<1> SUFFICES ASSUME call' = "ended", ~broke', NEW d \in due, Wanted(d)
             PROVE  d \in got
  <2>1. req'.order = req.order /\ req'.filter = req.filter
    BY DEF CursorEnds, Answer, IInv, TypeOK, Request
  <2> QED BY <2>1 DEF CursorEnds, Answer, WalkComplete, Wanted
<1>1. page = {}
  BY DEF CursorEnds, Answer
<1>2. ~Full
  <2>1. Cardinality(page) = 0 /\ req.limit \in Nat
    BY <1>1, FS_EmptySet, LimitsAreNumbers DEF IInv, TypeOK, Request
  <2> QED BY <2>1 DEF Full
<1>3. Ahead = {}
  BY <1>2 DEF CursorEnds
<1>4. ~Beyond(req.order, d.link, pos)
  BY <1>3 DEF IInv, DueRegistered, Ahead, Wanted
<1> QED BY <1>1, <1>4 DEF IInv, NoSkip

\* Another client's Create: the walk owes what is registered ahead of it.
LEMMA CreateStep ==
  ASSUME IInv, NEW q \in Requests, Create(q)
  PROVE  UniqueKeys(coll)' /\ AtCursor' /\ DueRegistered' /\ Behind' /\ NoSkip'
         /\ WalkComplete'
<1>1. UniqueKeys(coll')
  BY RequestsAreRegistrations, InsertOneUnique DEF Create, IInv, TypeOK
<1>2. Regs' = Regs \union {q}
  BY RegsInserted DEF Create
<1>3. AtCursor' /\ Behind'
  BY DEF Create, AtCursor, Behind, IInv
<1>4. DueRegistered'
  BY <1>2 DEF Create, DueRegistered, IInv
<1>5. NoSkip'
  BY DEF Create, NoSkip, Wanted, IInv
<1>6. WalkComplete'
  BY DEF Create, WalkComplete, Wanted, IInv
<1> QED BY <1>1, <1>3, <1>4, <1>5, <1>6

\* Another client's Delete: the walk owes nothing for it any more.
LEMMA DeleteStep ==
  ASSUME IInv, NEW l \in Links, Delete(l)
  PROVE  UniqueKeys(coll)' /\ AtCursor' /\ DueRegistered' /\ Behind' /\ NoSkip'
         /\ WalkComplete'
<1>1. UniqueKeys(coll')
  BY DeleteOneSubset, UniqueKeysSubset DEF Delete, IInv
<1>2. DueRegistered'
  BY RegsDeleted DEF Delete, DueRegistered, IInv
<1>3. AtCursor' /\ Behind' /\ NoSkip' /\ WalkComplete'
  BY DEF Delete, AtCursor, Behind, NoSkip, WalkComplete, Wanted, IInv
<1> QED BY <1>1, <1>2, <1>3

\* A walk begins with all there is to meet and nothing met.
LEMMA StartStep ==
  ASSUME IInv, StartWalk
  PROVE  AtCursor' /\ DueRegistered' /\ Behind' /\ NoSkip' /\ WalkComplete'
<1>1. PICK f \in Filters, o \in Orders, l \in Limits, s \in Starts :
        /\ req' = [filter |-> f, order |-> o, limit |-> l, cursor |-> s]
        /\ from' = s /\ pos' = s
  BY DEF StartWalk
<1>2. AtCursor' /\ DueRegistered' /\ Behind' /\ WalkComplete'
  BY <1>1 DEF StartWalk, AtCursor, DueRegistered, Behind, WalkComplete, Regs
<1>3. NoSkip'
  BY <1>1 DEF StartWalk, NoSkip, Wanted
<1> QED BY <1>2, <1>3

\* Every step keeps the invariant.
LEMMA InvStep == IInv /\ [Next]_vars => IInv'
<1> SUFFICES ASSUME IInv, [Next]_vars PROVE IInv'
  OBVIOUS
<1>0. TypeOK'
  BY TypeStep DEF IInv
<1> DEFINE Rest == AtCursor /\ DueRegistered /\ Behind /\ NoSkip /\ WalkComplete
<1>1. CASE StartWalk
  <2>1. UniqueKeys(coll')
    BY <1>1 DEF StartWalk, IInv
  <2> QED BY <1>0, <1>1, <2>1, StartStep DEF IInv
<1>2. CASE Find
  BY <1>0, <1>2 DEF Find, IInv, AtCursor, DueRegistered, Behind, NoSkip, WalkComplete,
                    Wanted, Regs
<1>3. CASE NextDocument
  <2>1. UniqueKeys(coll') /\ AtCursor' /\ DueRegistered' /\ WalkComplete'
    BY <1>3 DEF NextDocument, IInv, AtCursor, DueRegistered, WalkComplete, Regs
  <2> QED BY <1>0, <1>3, <2>1, DocumentStep DEF IInv
<1>4. CASE CursorEnds
  <2>1. UniqueKeys(coll') /\ Answer
    BY <1>4 DEF CursorEnds, Answer, IInv
  <2> QED BY <1>0, <1>4, <2>1, AnswerStep, EndStep DEF IInv
<1>5. CASE CursorBreaks
  <2>1. UniqueKeys(coll') /\ Answer
    BY <1>5 DEF CursorBreaks, Answer, IInv
  <2>2. WalkComplete'
    BY <1>5 DEF CursorBreaks, Answer, WalkComplete
  <2> QED BY <1>0, <2>1, <2>2, AnswerStep DEF IInv
<1>6. CASE CallFails
  BY <1>0, <1>6 DEF CallFails, IInv, AtCursor, DueRegistered, Behind, NoSkip,
                    WalkComplete, Regs
<1>7. ASSUME NEW q \in Requests, Create(q) PROVE IInv'
  BY <1>0, <1>7, CreateStep DEF IInv
<1>8. ASSUME NEW l \in Links, Delete(l) PROVE IInv'
  BY <1>0, <1>8, DeleteStep DEF IInv
<1>9. CASE UNCHANGED vars
  BY <1>0, <1>9 DEF vars, IInv, AtCursor, DueRegistered, Behind, NoSkip, WalkComplete,
                    Wanted, Regs
<1> QED BY <1>1, <1>2, <1>3, <1>4, <1>5, <1>6, <1>7, <1>8, <1>9 DEF Next

\* The invariant holds throughout.
LEMMA Invariant == Spec => []IInv
BY InitInv, InvStep, PTL DEF Spec

-----------------------------------------------------------------------------
(* The results *)

\* A walk skips nothing it has gone past: whatever the collection, filter,
\* order and limit, with documents read one at a time and pages cut short.
THEOREM WalkSkipsNothing == Spec => []NoSkip
<1>1. IInv => NoSkip
  BY DEF IInv
<1> QED BY <1>1, Invariant, PTL

\* A walk that ended is complete, unless its last cursor broke off.
THEOREM EndedWalkComplete == Spec => []WalkComplete
<1>1. IInv => WalkComplete
  BY DEF IInv
<1> QED BY <1>1, Invariant, PTL

\* Channels come in order over all pages of a walk, none of them twice.
THEOREM PagesInOrder == Spec => InOrder
<1> DEFINE Ordered == \A q \in page' \ page : \A p \in got \union page :
                        Beyond(req.order, q.link, p.link)
<1>1. IInv /\ [Next]_vars => [Ordered]_vars
  <2> SUFFICES ASSUME IInv, Next PROVE Ordered
    OBVIOUS
  <2>1. CASE NextDocument
    BY <2>1, DocumentStep
  <2>2. CASE ~NextDocument
    <3>1. page' = {} \/ page' = page
      BY <2>2 DEF Next, StartWalk, Find, CursorEnds, CursorBreaks, Answer, CallFails,
                  Create, Delete
    <3> QED BY <3>1
  <2> QED BY <2>1, <2>2
<1> QED BY <1>1, Invariant, PTL DEF Spec, InOrder
=============================================================================
