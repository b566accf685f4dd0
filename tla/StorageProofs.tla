--------------------------- MODULE StorageProofs ---------------------------
(***************************************************************************)
(* What the single-document operations of Storage return and preserve.     *)
(***************************************************************************)
EXTENDS Storage, TLAPS

\* An insert keeps the collection's type.
LEMMA InsertOneType ==
  ASSUME NEW coll \in SUBSET Channel, NEW q \in Registration, NEW now \in Nat
  PROVE  InsertOne(coll, q, now) \in SUBSET Channel
BY DEF InsertOne, Channel

\* An insert keeps the keys unique: the server rejects a second use of either.
LEMMA InsertOneUnique ==
  ASSUME NEW coll \in SUBSET Channel, NEW q \in Registration, NEW now \in Nat,
         UniqueKeys(coll)
  PROVE  UniqueKeys(InsertOne(coll, q, now))
<1>1. CASE Conflict(coll, q)
  BY <1>1 DEF InsertOne
<1>2. CASE ~Conflict(coll, q)
  <2> DEFINE new == [reg |-> q, created |-> now, last |-> now]
  <2>1. InsertOne(coll, q, now) = coll \union {new}
    BY <1>2 DEF InsertOne
  <2>2. \A r \in coll : r.reg.id # new.reg.id /\ r.reg.link # new.reg.link
    BY <1>2 DEF Conflict
  <2> QED BY <2>1, <2>2 DEF UniqueKeys
<1> QED BY <1>1, <1>2

\* An insert adds at most the registration inserted.
LEMMA InsertOneRegs ==
  ASSUME NEW coll, NEW q, NEW now, NEW r \in InsertOne(coll, q, now)
  PROVE  \/ r \in coll
         \/ ~Conflict(coll, q) /\ r.reg = q /\ r.last = now /\ r.created = now
BY DEF InsertOne

\* An update keeps the collection's type.
LEMMA UpdateLastType ==
  ASSUME NEW coll \in SUBSET Channel, NEW link, NEW last \in Nat
  PROVE  UpdateLast(coll, link, last) \in SUBSET Channel
<1> SUFFICES ASSUME NEW r \in coll
             PROVE  (IF r.reg.link = link THEN [r EXCEPT !.last = last] ELSE r)
                      \in Channel
  BY DEF UpdateLast
<1> QED BY DEF Channel

\* A record after an update stems from one before: the same registration and
\* creation time, and either the same date or, under the link, the new one.
LEMMA UpdateLastOrigin ==
  ASSUME NEW coll \in SUBSET Channel, NEW link, NEW last \in Nat,
         NEW r \in UpdateLast(coll, link, last)
  PROVE  \E s \in coll :
           /\ r.reg = s.reg /\ r.created = s.created
           /\ r = s \/ (r.reg.link = link /\ r.last = last)
           /\ r = IF s.reg.link = link THEN [s EXCEPT !.last = last] ELSE s
<1>1. PICK s \in coll :
        r = IF s.reg.link = link THEN [s EXCEPT !.last = last] ELSE s
  BY DEF UpdateLast
<1>2. s \in Channel
  OBVIOUS
<1>3. r.reg = s.reg /\ r.created = s.created
  BY <1>1, <1>2 DEF Channel
<1>4. r = s \/ (r.reg.link = link /\ r.last = last)
  BY <1>1, <1>2 DEF Channel
<1> QED BY <1>1, <1>3, <1>4

\* An update keeps the keys unique.
LEMMA UpdateLastUnique ==
  ASSUME NEW coll \in SUBSET Channel, NEW link, NEW last \in Nat,
         UniqueKeys(coll)
  PROVE  UniqueKeys(UpdateLast(coll, link, last))
<1> SUFFICES ASSUME NEW r1 \in UpdateLast(coll, link, last),
                    NEW r2 \in UpdateLast(coll, link, last),
                    r1.reg.id = r2.reg.id \/ r1.reg.link = r2.reg.link
             PROVE  r1 = r2
  BY DEF UniqueKeys
<1>1. PICK s1 \in coll :
        /\ r1.reg = s1.reg
        /\ r1 = IF s1.reg.link = link THEN [s1 EXCEPT !.last = last] ELSE s1
  BY UpdateLastOrigin
<1>2. PICK s2 \in coll :
        /\ r2.reg = s2.reg
        /\ r2 = IF s2.reg.link = link THEN [s2 EXCEPT !.last = last] ELSE s2
  BY UpdateLastOrigin
<1>3. s1 = s2
  BY <1>1, <1>2 DEF UniqueKeys
<1> QED BY <1>1, <1>2, <1>3

\* A delete only takes records away.
LEMMA DeleteOneSubset ==
  ASSUME NEW coll, NEW link
  PROVE  DeleteOne(coll, link) \subseteq coll
BY DEF DeleteOne

\* Keys stay unique in fewer records.
LEMMA UniqueKeysSubset ==
  ASSUME NEW coll, UniqueKeys(coll), NEW few \in SUBSET coll
  PROVE  UniqueKeys(few)
BY DEF UniqueKeys

\* A page holds registrations of the collection, all with the label asked for.
LEMMA LabelPageRegs ==
  ASSUME NEW coll, NEW label, NEW limit, NEW q \in LabelPage(coll, label, limit)
  PROVE  \E r \in coll : q = r.reg /\ r.reg.label = label
BY DEF LabelPage

\* No two channels of a page share a link when no two records do.
LEMMA LabelPageUnique ==
  ASSUME NEW coll, NEW label, NEW limit, UniqueKeys(coll),
         NEW p \in LabelPage(coll, label, limit),
         NEW q \in LabelPage(coll, label, limit),
         p.link = q.link
  PROVE  p = q
BY LabelPageRegs DEF UniqueKeys
=============================================================================
