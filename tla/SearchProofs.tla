---------------------------- MODULE SearchProofs ----------------------------
(***************************************************************************)
(* What readers of the cache and callers of a search may rely on, for any  *)
(* number of callers and any chats found.                                  *)
(***************************************************************************)
EXTENDS SearchAndAdd, StorageProofs

-----------------------------------------------------------------------------
(* The calls: the inductive invariant *)

\* A call under way has seen what is stored now, and a Create what it stored.
CallOK(p) ==
  /\ op[p].at # "idle" => Regs \subseteq seen[p]
  /\ op[p].at # "idle" /\ op[p].kind = "create" =>
       op[p].reg \in Registration /\ op[p].reg.link = op[p].link
  /\ op[p].kind = "create" /\ op[p].at \in {"cache", "done"} /\ op[p].err = "ok" =>
       op[p].reg \in seen[p]
  /\ op[p].at \in {"cache", "store"} => op[p].ans = NoReg

\* Only registrations refused within the life of the entry are cached, each
\* under its own link.
CachedRefused ==
  \A l \in Links : cache[l] # NoReg => cache[l] \in refused /\ cache[l].link = l

StoreInv == StoreTypeOK /\ CachedRefused /\ \A p \in Callers : CallOK(p)

\* What the calls see of a step: histories grow, and what is stored is seen.
Grows ==
  \A p \in Callers : op[p].at # "idle" =>
    seen[p] \subseteq seen'[p] /\ Regs' \subseteq seen'[p]

\* What is stored is of registrations.
LEMMA RegsTyped == StoreTypeOK => Regs \subseteq Registration
BY DEF StoreTypeOK, Regs, Channel

\* A call that a step does not move stays right.
LEMMA CallKept ==
  ASSUME NEW p \in Callers, CallOK(p), Grows, op'[p] = op[p]
  PROVE  CallOK(p)'
BY DEF CallOK, Grows, At

\* A step that keeps the collection and what was seen of it.
LEMMA GrowsSame ==
  ASSUME StoreInv, UNCHANGED <<coll, seen>>
  PROVE  Grows
BY DEF StoreInv, CallOK, Grows, Regs

\* A request to the store shows every call under way its result.
LEMMA StoreShows ==
  ASSUME StoreTypeOK, NEW new \in SUBSET Channel, Store(new)
  PROVE  /\ Grows
         /\ coll' \subseteq Channel
         /\ seen' \in [Callers -> SUBSET Registration]
<1>1. coll' = new /\ Regs' = {r.reg : r \in new}
  BY DEF Store, Regs
<1>2. {r.reg : r \in new} \subseteq Registration
  BY DEF Channel
<1>3. seen' \in [Callers -> SUBSET Registration]
  <2>1. \A p \in Callers :
          (IF op[p].at = "idle" THEN {} ELSE seen[p] \union {r.reg : r \in new})
            \in SUBSET Registration
    BY <1>2 DEF StoreTypeOK
  <2> QED BY <2>1 DEF Store
<1>4. \A p \in Callers : op[p].at # "idle" => seen'[p] = seen[p] \union Regs'
  BY <1>1 DEF Store
<1> QED BY <1>1, <1>3, <1>4 DEF Grows

-----------------------------------------------------------------------------
(* The calls: their steps *)

\* The moved call is typed.
LEMMA GoTyped ==
  ASSUME StoreTypeOK, NEW p \in Callers, NEW place \in {"cache", "done"},
         NEW err \in Errors, Go(p, place, err)
  PROVE  /\ op' \in [Callers -> Op]
         /\ op'[p] = [op[p] EXCEPT !.at = place, !.err = err]
         /\ \A q \in Callers \ {p} : op'[q] = op[q]
<1>1. op[p] \in Op
  BY DEF StoreTypeOK
<1>2. [op[p] EXCEPT !.at = place, !.err = err] \in Op
  BY <1>1 DEF Op
<1>3. op' = [op EXCEPT ![p] = [op[p] EXCEPT !.at = place, !.err = err]]
  BY DEF Go
<1> QED BY <1>2, <1>3 DEF StoreTypeOK

\* The end of a request to the store.
LEMMA RequestStep ==
  ASSUME StoreInv, NEW p \in Callers, op[p].at = "store",
         NEW new \in SUBSET Channel, Store(new),
         NEW place \in {"cache", "done"}, NEW err \in Errors, Go(p, place, err),
         op[p].kind # "read",
         op[p].kind = "create" /\ err = "ok" => op[p].reg \in {r.reg : r \in new},
         UNCHANGED <<cache, refused>>
  PROVE  StoreInv'
<1>1. StoreTypeOK
  BY DEF StoreInv
<1>2. Grows /\ coll' \subseteq Channel /\ seen' \in [Callers -> SUBSET Registration]
  BY <1>1, StoreShows
<1>3. /\ op' \in [Callers -> Op]
      /\ op'[p] = [op[p] EXCEPT !.at = place, !.err = err]
      /\ \A q \in Callers \ {p} : op'[q] = op[q]
  BY <1>1, GoTyped
<1>4. StoreTypeOK' /\ CachedRefused'
  BY <1>1, <1>2, <1>3 DEF StoreInv, StoreTypeOK, CachedRefused
<1>5. \A q \in Callers \ {p} : CallOK(q)'
  BY <1>2, <1>3, CallKept DEF StoreInv
<1>6. CallOK(p)'
  <2>1. op[p] \in Op /\ CallOK(p)
    BY <1>1 DEF StoreTypeOK, StoreInv
  <2>2. /\ op'[p].at = place /\ op'[p].err = err /\ op'[p].kind = op[p].kind
        /\ op'[p].reg = op[p].reg /\ op'[p].ans = op[p].ans
        /\ op'[p].link = op[p].link
    BY <1>3, <2>1 DEF Op
  <2>3. Regs' = {r.reg : r \in new} /\ Regs' \subseteq seen'[p]
    BY <1>2 DEF Store, Regs, Grows
  <2> QED BY <2>1, <2>2, <2>3 DEF CallOK, At
<1> QED BY <1>4, <1>5, <1>6 DEF StoreInv

\* A step of one call that leaves the store alone.
LEMMA LocalStep ==
  ASSUME StoreInv, NEW p \in Callers, NEW o \in Op, op' = [op EXCEPT ![p] = o],
         UNCHANGED <<coll, seen>>, CachedRefused', StoreTypeOK', CallOK(p)'
  PROVE  StoreInv'
<1>1. Grows
  BY GrowsSame
<1>2. \A q \in Callers \ {p} : op'[q] = op[q]
  BY DEF StoreInv, StoreTypeOK
<1> QED BY <1>1, <1>2, CallKept DEF StoreInv

\* The insert, refused or not.
LEMMA StoreCreateStep ==
  ASSUME StoreInv, NEW p \in Callers, StoreCreate(p)
  PROVE  StoreInv'
<1>1. /\ coll \in SUBSET Channel /\ op[p].at = "store" /\ op[p].kind = "create"
      /\ op[p].reg \in Registration
      /\ UNCHANGED <<cache, refused>>
  BY DEF StoreInv, StoreTypeOK, CallOK, StoreCreate, At
<1>2. InsertOne(coll, op[p].reg, 0) \in SUBSET Channel
  BY <1>1, InsertOneType
<1>3. CASE /\ ~Conflict(coll, op[p].reg)
           /\ Store(InsertOne(coll, op[p].reg, 0))
           /\ Go(p, "cache", "ok")
  <2>1. op[p].reg \in {r.reg : r \in InsertOne(coll, op[p].reg, 0)}
    <3>1. [reg |-> op[p].reg, created |-> 0, last |-> 0] \in InsertOne(coll, op[p].reg, 0)
      BY <1>3 DEF InsertOne
    <3> QED BY <3>1
  <2> QED BY <1>1, <1>2, <1>3, <2>1, RequestStep DEF Errors
<1>4. CASE Store(coll) /\ Go(p, "cache", "conflict")
  BY <1>1, <1>4, RequestStep DEF Errors
<1>5. CASE /\ \E new \in {coll, InsertOne(coll, op[p].reg, 0)} : Store(new)
           /\ Go(p, "cache", "internal")
  BY <1>1, <1>2, <1>5, RequestStep DEF Errors
<1> QED BY <1>3, <1>4, <1>5 DEF StoreCreate

\* Update and Delete at the store.
LEMMA StoreChangeStep ==
  ASSUME StoreInv, NEW p \in Callers, StoreUpdate(p) \/ StoreDelete(p)
  PROVE  StoreInv'
<1>1. coll \in SUBSET Channel /\ op[p].at = "store" /\ op[p].kind \in {"update", "delete"}
  BY DEF StoreInv, StoreTypeOK, StoreUpdate, StoreDelete, At
<1>2. PICK new \in SUBSET Channel : StoreChange(p, new)
  <2>1. UpdateLast(coll, op[p].link, 0) \in SUBSET Channel
    BY <1>1, UpdateLastType
  <2>2. DeleteOne(coll, op[p].link) \in SUBSET Channel
    BY <1>1, DeleteOneSubset
  <2> QED BY <2>1, <2>2 DEF StoreUpdate, StoreDelete
<1>3. UNCHANGED <<cache, refused>>
  BY <1>2 DEF StoreChange
<1>4. PICK c \in {coll, new}, err \in Errors : Store(c) /\ Go(p, "cache", err)
  BY <1>2 DEF StoreChange, Errors
<1> QED BY <1>1, <1>2, <1>3, <1>4, RequestStep

\* An entry goes: what the cache keeps was refused under other links.
LEMMA ForgetStep ==
  ASSUME StoreTypeOK, CachedRefused, NEW link \in Links, Forget(link)
  PROVE  /\ CachedRefused' /\ refused' \subseteq Registration
         /\ cache' \in [Links -> Registration \union {NoReg}]
BY DEF Forget, StoreTypeOK, CachedRefused

\* The cache after a Create or a change: what it keeps was refused.
LEMMA CacheStep ==
  ASSUME StoreInv, NEW p \in Callers, CacheCreate(p) \/ CacheRemove(p)
  PROVE  StoreInv'
<1>1. op[p] \in Op /\ op[p].at = "cache" /\ op[p].kind # "read" /\ CallOK(p)
  BY DEF StoreInv, StoreTypeOK, CacheCreate, CacheRemove, At
<1>2. Go(p, "done", op[p].err) /\ op[p].err \in Errors /\ UNCHANGED <<coll, seen>>
  BY <1>1 DEF CacheCreate, CacheRemove, Op
<1>3. CachedRefused'
      /\ cache' \in [Links -> Registration \union {NoReg}]
      /\ refused' \subseteq Registration
  <2>1. CASE CacheRemove(p)
    BY <1>1, <2>1, ForgetStep DEF CacheRemove, StoreInv, StoreTypeOK, CachedRefused, Op
  <2>2. CASE CacheCreate(p)
    <3>1. op[p].reg \in Registration /\ op[p].reg.link = op[p].link
      BY <1>1, <2>2 DEF CacheCreate, At, CallOK
    <3> QED BY <2>2, <3>1 DEF CacheCreate, StoreInv, StoreTypeOK, CachedRefused
  <2> QED BY <2>1, <2>2
<1>4. /\ op' \in [Callers -> Op]
      /\ op'[p] = [op[p] EXCEPT !.at = "done", !.err = op[p].err]
      /\ \A q \in Callers \ {p} : op'[q] = op[q]
  BY <1>2, GoTyped DEF StoreInv
<1>5. StoreTypeOK'
  BY <1>2, <1>3, <1>4 DEF StoreInv, StoreTypeOK
<1>6. Grows
  BY <1>2, GrowsSame
<1>7. CallOK(p)'
  <2>1. /\ op'[p].at = "done" /\ op'[p].err = op[p].err /\ op'[p].kind = op[p].kind
        /\ op'[p].reg = op[p].reg /\ op'[p].link = op[p].link
    BY <1>1, <1>4 DEF Op
  <2> QED BY <1>1, <1>2, <1>6, <2>1 DEF CallOK, Grows, At
<1>8. \A q \in Callers \ {p} : CallOK(q)'
  BY <1>4, <1>6, CallKept DEF StoreInv
<1> QED BY <1>3, <1>5, <1>7, <1>8 DEF StoreInv

\* A read that is answered.
LEMMA DoneTyped ==
  ASSUME NEW c \in Op, NEW q \in Registration, c.kind = "read"
  PROVE  /\ [c EXCEPT !.at = "done", !.ans = q] \in Op
         /\ [c EXCEPT !.at = "done", !.ans = q].kind = "read"
         /\ [c EXCEPT !.at = "done", !.ans = q].at = "done"
         /\ [c EXCEPT !.at = "done", !.ans = q].ans = q
BY DEF Op

\* Read, from the cache or the store.
LEMMA ReadStep ==
  ASSUME StoreInv, NEW p \in Callers, CacheRead(p) \/ StoreRead(p)
  PROVE  StoreInv'
<1>1. /\ op[p] \in Op /\ op[p].at # "idle" /\ op[p].kind = "read"
      /\ Regs \subseteq seen[p] /\ Regs \subseteq Registration
      /\ UNCHANGED <<coll, cache, refused, seen>>
  BY RegsTyped DEF StoreInv, StoreTypeOK, CacheRead, StoreRead, At, CallOK
<1>2. PICK o \in Op :
        /\ op' = [op EXCEPT ![p] = o] /\ o.kind = "read" /\ o.at # "idle"
        /\ o.at \in {"cache", "store"} => o.ans = NoReg
  <2> USE <1>1
  <2>1. CASE CacheRead(p) /\ cache[op[p].link] = NoReg
    <3>1. op' = [op EXCEPT ![p] = [op[p] EXCEPT !.at = "store"]]
      BY <2>1 DEF CacheRead
    <3>2. op[p].ans = NoReg
      BY <2>1 DEF CacheRead, At, StoreInv, CallOK
    <3>3. /\ [op[p] EXCEPT !.at = "store"] \in Op
          /\ [op[p] EXCEPT !.at = "store"].kind = "read"
          /\ [op[p] EXCEPT !.at = "store"].at = "store"
          /\ [op[p] EXCEPT !.at = "store"].ans = NoReg
      BY <3>2 DEF Op
    <3> QED BY <3>1, <3>3
  <2>2. CASE CacheRead(p) /\ cache[op[p].link] # NoReg
    <3>1. op' = [op EXCEPT ![p] = [op[p] EXCEPT !.at = "done", !.ans = cache[op[p].link]]]
      BY <2>2 DEF CacheRead
    <3>2. cache[op[p].link] \in Registration
      BY <1>1, <2>2 DEF StoreInv, StoreTypeOK, CachedRefused, Op
    <3>3. /\ [op[p] EXCEPT !.at = "done", !.ans = cache[op[p].link]] \in Op
          /\ [op[p] EXCEPT !.at = "done", !.ans = cache[op[p].link]].kind = "read"
          /\ [op[p] EXCEPT !.at = "done", !.ans = cache[op[p].link]].at = "done"
          /\ [op[p] EXCEPT !.at = "done", !.ans = cache[op[p].link]].ans = cache[op[p].link]
      BY <3>2, DoneTyped
    <3> HIDE <1>1
    <3> QED BY <3>1, <3>2, <3>3
  <2>3. CASE \E q \in Under(op[p].link) :
               op' = [op EXCEPT ![p].at = "done", ![p].ans = q]
    <3>1. PICK q \in Under(op[p].link) :
            op' = [op EXCEPT ![p] = [op[p] EXCEPT !.at = "done", !.ans = q]]
      BY <2>3
    <3>2. q \in Registration
      BY <1>1 DEF Under
    <3>3. /\ [op[p] EXCEPT !.at = "done", !.ans = q] \in Op
          /\ [op[p] EXCEPT !.at = "done", !.ans = q].kind = "read"
          /\ [op[p] EXCEPT !.at = "done", !.ans = q].at = "done"
          /\ [op[p] EXCEPT !.at = "done", !.ans = q].ans = q
      BY <3>2, DoneTyped
    <3> HIDE <1>1
    <3> QED BY <3>1, <3>2, <3>3
  <2>4. CASE StoreRead(p) /\ \E err \in {"notfound", "internal"} : Go(p, "done", err)
    <3>1. PICK err \in {"notfound", "internal"} :
            op' = [op EXCEPT ![p] = [op[p] EXCEPT !.at = "done", !.err = err]]
      BY <2>4 DEF Go
    <3>2. op[p].ans = NoReg
      BY <2>4 DEF StoreRead, At, StoreInv, CallOK
    <3>3. /\ [op[p] EXCEPT !.at = "done", !.err = err] \in Op
          /\ [op[p] EXCEPT !.at = "done", !.err = err].kind = "read"
          /\ [op[p] EXCEPT !.at = "done", !.err = err].at = "done"
          /\ [op[p] EXCEPT !.at = "done", !.err = err].ans = NoReg
      BY <3>2 DEF Op, Errors
    <3> QED BY <3>1, <3>3
  <2> QED BY <2>1, <2>2, <2>3, <2>4 DEF StoreRead
<1>3. StoreTypeOK' /\ CachedRefused' /\ op'[p] = o
  BY <1>1, <1>2 DEF StoreInv, StoreTypeOK, CachedRefused
<1>4. CallOK(p)'
  <2>1. seen' = seen /\ refused' = refused /\ Regs' = Regs
    BY <1>1 DEF Regs
  <2> QED BY <1>1, <1>2, <1>3, <2>1 DEF CallOK, At
<1> QED BY <1>1, <1>2, <1>3, <1>4, LocalStep

\* A new call, which has seen what is stored.
LEMMA NewCallStep ==
  ASSUME StoreInv, NEW p \in Callers, NEW kind \in Kinds,
         NEW q \in Registration \union {NoReg}, NEW link \in Links,
         kind = "create" => q \in Registration /\ q.link = link,
         Call(p, kind, q, link)
  PROVE  StoreInv'
<1>1. PICK place \in {"cache", "store"} :
        /\ place = "cache" => kind = "read"
        /\ op' = [op EXCEPT ![p] = [kind |-> kind, reg |-> q, link |-> link,
                                    at |-> place, err |-> "ok", ans |-> NoReg]]
  BY DEF Call
<1>2. [kind |-> kind, reg |-> q, link |-> link, at |-> place, err |-> "ok",
       ans |-> NoReg] \in Op
  BY DEF Op, Errors
<1>3. /\ UNCHANGED <<coll, cache, refused>> /\ seen' = [seen EXCEPT ![p] = Regs]
      /\ Regs \subseteq Registration /\ Regs' = Regs
  BY RegsTyped DEF Call, StoreInv, Regs
<1>4. StoreTypeOK' /\ CachedRefused'
  BY <1>1, <1>2, <1>3 DEF StoreInv, StoreTypeOK, CachedRefused
<1>5. CallOK(p)'
  <2>1. /\ op'[p].at = place /\ op'[p].kind = kind /\ op'[p].reg = q
        /\ op'[p].link = link /\ op'[p].ans = NoReg /\ seen'[p] = Regs'
    BY <1>1, <1>3 DEF StoreInv, StoreTypeOK
  <2> QED BY <1>1, <2>1 DEF CallOK, At
<1>6. ASSUME NEW r \in Callers \ {p} PROVE CallOK(r)'
  BY <1>1, <1>3 DEF StoreInv, StoreTypeOK, CallOK, At
<1> QED BY <1>4, <1>5, <1>6 DEF StoreInv

\* The answer ends the call.
LEMMA ReturnStep ==
  ASSUME StoreInv, NEW p \in Callers, Return(p)
  PROVE  StoreInv'
<1>1. NoOp \in Op /\ NoOp.at = "idle" /\ NoOp.kind = "read"
  BY SomeLink DEF NoOp, Op, Kinds, Errors
<1>2. /\ op' = [op EXCEPT ![p] = NoOp] /\ seen' = [seen EXCEPT ![p] = {}]
      /\ UNCHANGED <<coll, cache, refused>> /\ Regs' = Regs
  BY DEF Return, Regs
<1>3. StoreTypeOK' /\ CachedRefused'
  BY <1>1, <1>2 DEF StoreInv, StoreTypeOK, CachedRefused
<1>4. op'[p] = NoOp /\ \A r \in Callers \ {p} : op'[r] = op[r] /\ seen'[r] = seen[r]
  BY <1>2 DEF StoreInv, StoreTypeOK
<1>5. CallOK(p)'
  BY <1>1, <1>4 DEF CallOK, At
<1>6. ASSUME NEW r \in Callers \ {p} PROVE CallOK(r)'
  BY <1>2, <1>4 DEF StoreInv, CallOK, At
<1> QED BY <1>3, <1>5, <1>6 DEF StoreInv

\* An entry goes.
LEMMA EvictStep ==
  ASSUME StoreInv, NEW link \in Links, Evict(link)
  PROVE  StoreInv'
<1>1. /\ CachedRefused' /\ refused' \subseteq Registration
      /\ cache' \in [Links -> Registration \union {NoReg}]
  BY ForgetStep DEF Evict, StoreInv
<1> QED BY <1>1 DEF Evict, StoreInv, StoreTypeOK, CallOK, At, Regs

LEMMA ServeStep ==
  ASSUME StoreInv, NEW p \in Callers, Serve(p)
  PROVE  StoreInv'
BY StoreCreateStep, StoreChangeStep, CacheStep, ReadStep DEF Serve

\* A client's call.
LEMMA ClientCallStep ==
  ASSUME StoreInv, NEW p \in Callers, ClientCall(p)
  PROVE  StoreInv'
<1>1. CASE \E q \in Requests : Call(p, "create", q, q.link)
  BY <1>1, NewCallStep, RequestsAreRegistrations DEF Kinds, Registration
<1>2. CASE \E k \in {"read", "update", "delete"}, l \in Links : Call(p, k, NoReg, l)
  BY <1>2, NewCallStep DEF Kinds
<1> QED BY <1>1, <1>2 DEF ClientCall

LEMMA StoreStarts == StoreInit => StoreInv
<1> SUFFICES ASSUME StoreInit PROVE StoreInv
  OBVIOUS
<1>1. NoOp \in Op /\ NoOp.at = "idle" /\ NoOp.kind = "read"
  BY SomeLink DEF NoOp, Op, Kinds, Errors
<1>2. \A p \in Callers : op[p] = NoOp
  BY DEF StoreInit
<1>3. StoreTypeOK /\ CachedRefused
  BY <1>1 DEF StoreInit, StoreTypeOK, CachedRefused
<1> QED BY <1>1, <1>2, <1>3 DEF StoreInv, CallOK, At

-----------------------------------------------------------------------------
(* The search: the inductive invariant *)

\* The searcher's call is the Create of the chat at hand, or none.
SearcherAt ==
  IF at = "store"
  THEN /\ op[Searcher].kind = "create" /\ op[Searcher].reg = RegOf(chat)
       /\ op[Searcher].at \in {"store", "cache", "done"}
  ELSE op[Searcher].at = "idle"

\* What is known of the chat at hand.
InChat ==
  at \in {"tag", "group", "store"} =>
    /\ i < Len(Found) /\ i < limit
    /\ at = "tag" => chat.kind # "private"
    /\ at = "group" => chat.kind = "channel"

\* Only chats looked at are counted.
Counts == n <= i

\* Without an error, what qualified so far is stored.
StoredSoFar ==
  ~failed => \A k \in 1 .. i : Qualifies(Found[k]) => RegOf(Found[k]) \in added

\* An answer without an error comes when no chat within the limit is left.
Ended == at = "answered" /\ ~failed => ~More

SearchTypeOK ==
  /\ at \in {"idle", "chat", "tag", "group", "store", "answered"}
  /\ i \in 0 .. Len(Found) /\ limit \in Nat /\ n \in 0 .. Len(Found)
  /\ failed \in BOOLEAN /\ added \subseteq Registration

SearchInv ==
  /\ SearchTypeOK
  /\ SearcherAt /\ InChat /\ Counts /\ StoredSoFar /\ Ended

IInv == StoreInv /\ SearchInv /\ calls \in 0 .. MaxCalls

\* The chat at hand is one of those found.
LEMMA ChatTyped ==
  ASSUME SearchTypeOK, i < Len(Found)
  PROVE  /\ Len(Found) \in Nat /\ i \in Nat /\ i + 1 \in 1 .. Len(Found)
         /\ chat.kind \in {"channel", "group", "private"}
         /\ chat.named \in BOOLEAN /\ chat.big \in BOOLEAN /\ chat.tagged \in BOOLEAN
         /\ RegOf(chat) \in Registration /\ RegOf(chat).link = chat.link
         /\ chat.link \in Links
<1>1. Len(Found) \in Nat /\ i \in Nat /\ i + 1 \in 1 .. Len(Found)
  BY FoundAreChats DEF SearchTypeOK
<1>2. chat \in [id: Ids, link: Links, label: Labels,
                kind: {"channel", "group", "private"},
                named: BOOLEAN, big: BOOLEAN, tagged: BOOLEAN]
  <2>1. \A S : \A s \in Seq(S) : \A k \in 1 .. Len(s) : s[k] \in S
    OBVIOUS
  <2> QED BY <1>1, <2>1, FoundAreChats DEF chat
<1> QED BY <1>1, <1>2, NoUserIsUser DEF RegOf, Registration

\* No search is typed.
LEMMA NoSearch ==
  /\ 0 \in 0 .. Len(Found) /\ 0 \in Nat /\ {} \subseteq Registration
  /\ TRUE \in BOOLEAN /\ FALSE \in BOOLEAN
<1>1. Len(Found) \in Nat
  BY FoundAreChats
<1> QED BY <1>1

LEMMA SearchStarts == Init => IInv
<1> SUFFICES ASSUME Init PROVE IInv
  OBVIOUS
<1>1. StoreInv /\ op[Searcher].at = "idle"
  BY StoreStarts, SearcherIsCaller DEF Init, StoreInit, NoOp
<1>4. Counts
  BY DEF Init, Counts
<1>5. SearchTypeOK /\ SearcherAt /\ InChat
  <2>1. SearchTypeOK
    BY NoSearch DEF Init, SearchTypeOK
  <2>2. SearcherAt /\ InChat
    BY <1>1 DEF Init, SearcherAt, InChat
  <2> QED BY <2>1, <2>2
<1>6. StoredSoFar /\ Ended
  BY DEF Init, StoredSoFar, Ended
<1> QED BY <1>1, <1>4, <1>5, <1>6, LimitsAreNumbers DEF Init, IInv, SearchInv

-----------------------------------------------------------------------------
(* The search: its steps *)

\* The chat is done with: a qualifying chat is stored unless its error is
\* joined.
LEMMA NextChat ==
  ASSUME SearchInv, i < Len(Found), i < limit,
         at' = "chat", i' = i + 1, limit' = limit, op'[Searcher].at = "idle",
         n' = n \/ n' = n + 1,
         added' \subseteq Registration, added \subseteq added',
         failed' \in BOOLEAN, failed => failed',
         ~failed' /\ Qualifies(chat) => RegOf(chat) \in added'
  PROVE  SearchInv'
<1>1. Len(Found) \in Nat /\ i \in Nat /\ n \in Nat /\ limit \in Nat /\ n <= i
  BY ChatTyped DEF SearchInv, SearchTypeOK, Counts
<1>2. SearchTypeOK' /\ Counts'
  BY <1>1 DEF SearchInv, SearchTypeOK, Counts
<1>3. StoredSoFar'
  <2> SUFFICES ASSUME ~failed', NEW k \in 1 .. i + 1, Qualifies(Found[k])
               PROVE  RegOf(Found[k]) \in added'
    BY DEF StoredSoFar
  <2>1. CASE k \in 1 .. i
    BY <2>1 DEF SearchInv, StoredSoFar
  <2>2. CASE k = i + 1
    BY <2>2 DEF chat
  <2> QED BY <1>1, <2>1, <2>2
<1> QED BY <1>2, <1>3 DEF SearchInv, SearcherAt, InChat, Ended

\* Within a chat nothing is counted or stored.
LEMMA SameChat ==
  ASSUME SearchInv, i < Len(Found), i < limit,
         UNCHANGED <<i, limit, n, failed, added>>,
         at' \in {"tag", "group", "store"}, SearcherAt', InChat'
  PROVE  SearchInv'
BY DEF SearchInv, SearchTypeOK, Counts, StoredSoFar, Ended

LEMMA StoreIdle ==
  ASSUME StoreInv, UNCHANGED storeVars
  PROVE  StoreInv' /\ op' = op
BY DEF storeVars, StoreInv, StoreTypeOK, CachedRefused, CallOK, At, Regs

\* What More says.
LEMMA MoreIs == More <=> i < Len(Found) /\ i < limit
BY DEF More

LEMMA GetChatStep ==
  ASSUME IInv, GetChat
  PROVE  StoreInv' /\ SearchInv'
<1>1. /\ i < Len(Found) /\ i < limit /\ at = "chat" /\ StoreInv /\ SearchInv
      /\ op[Searcher].at = "idle"
  BY MoreIs DEF IInv, GetChat, SearchInv, SearcherAt
<1>2. StoreInv' /\ op' = op /\ limit' = limit /\ added' = added
  BY <1>1, StoreIdle DEF GetChat
<1>3. added \subseteq Registration
  BY <1>1 DEF SearchInv, SearchTypeOK
<1>4. CASE ErrorJoined
  BY <1>1, <1>2, <1>3, <1>4, NextChat DEF ErrorJoined
<1>5. CASE chat.kind = "private" /\ Counted
  <2>1. ~Qualifies(chat)
    BY <1>5 DEF Qualifies
  <2>2. failed' = failed /\ failed \in BOOLEAN
    BY <1>1, <1>2, <1>3, <1>5 DEF Counted, SearchInv, SearchTypeOK
  <2> QED BY <1>1, <1>2, <1>3, <1>5, <2>1, <2>2, NextChat DEF Counted
<1>6. CASE chat.kind # "private" /\ at' = "tag" /\ UNCHANGED <<i, n, failed>>
  <2>1. InChat' /\ SearcherAt'
    BY <1>1, <1>2, <1>6 DEF InChat, SearcherAt, chat
  <2> QED BY <1>1, <1>2, <1>6, <2>1, SameChat
<1> QED BY <1>4, <1>5, <1>6 DEF GetChat

LEMMA CheckTagStep ==
  ASSUME IInv, CheckTag
  PROVE  StoreInv' /\ SearchInv'
<1>1. /\ i < Len(Found) /\ i < limit /\ at = "tag" /\ StoreInv /\ SearchInv
      /\ op[Searcher].at = "idle"
  BY DEF IInv, CheckTag, SearchInv, SearcherAt, InChat
<1>2. StoreInv' /\ op' = op /\ limit' = limit /\ added' = added
  BY <1>1, StoreIdle DEF CheckTag
<1>3. added \subseteq Registration
  BY <1>1 DEF SearchInv, SearchTypeOK
<1>4. CASE ErrorJoined
  BY <1>1, <1>2, <1>3, <1>4, NextChat DEF ErrorJoined
<1>5. CASE chat.kind = "group" /\ PassedOver
  <2>1. ~Qualifies(chat)
    BY <1>5 DEF Qualifies
  <2>2. failed' = failed /\ failed \in BOOLEAN
    BY <1>1, <1>5 DEF PassedOver, SearchInv, SearchTypeOK
  <2> QED BY <1>1, <1>2, <1>3, <1>5, <2>1, <2>2, NextChat DEF PassedOver
<1>6. CASE chat.kind = "channel" /\ at' = "group"
           /\ UNCHANGED <<i, n, failed>>
  <2>1. InChat' /\ SearcherAt'
    BY <1>1, <1>2, <1>6 DEF InChat, SearcherAt, chat
  <2> QED BY <1>1, <1>2, <1>6, <2>1, SameChat
<1> QED BY <1>4, <1>5, <1>6 DEF CheckTag

LEMMA GetSupergroupStep ==
  ASSUME IInv, GetSupergroup
  PROVE  StoreInv' /\ SearchInv'
<1>1. /\ i < Len(Found) /\ i < limit /\ at = "group" /\ StoreInv /\ SearchInv
      /\ op[Searcher].at = "idle" /\ chat.kind = "channel"
      /\ limit' = limit /\ added' = added
  BY DEF IInv, GetSupergroup, SearchInv, SearcherAt, InChat
<1>2. added \subseteq Registration
  BY <1>1 DEF SearchInv, SearchTypeOK
<1>3. CASE ErrorJoined /\ UNCHANGED storeVars
  BY <1>1, <1>2, <1>3, StoreIdle, NextChat DEF ErrorJoined
<1>4. CASE ~(chat.named /\ chat.big) /\ Counted /\ UNCHANGED storeVars
  <2>1. ~Qualifies(chat)
    BY <1>4 DEF Qualifies
  <2>2. failed' = failed /\ failed \in BOOLEAN
    BY <1>1, <1>2, <1>4 DEF Counted, SearchInv, SearchTypeOK
  <2> QED BY <1>1, <1>2, <1>4, <2>1, <2>2, StoreIdle, NextChat DEF Counted
<1>5. CASE /\ chat.named /\ chat.big
           /\ Call(Searcher, "create", RegOf(chat), chat.link)
           /\ at' = "store"
           /\ UNCHANGED <<i, n, failed>>
  <2>1. /\ RegOf(chat) \in Registration /\ RegOf(chat).link = chat.link
        /\ chat.link \in Links
    BY <1>1, ChatTyped DEF SearchInv
  <2>2. StoreInv'
    BY <1>1, <1>5, <2>1, SearcherIsCaller, NewCallStep DEF Kinds
  <2>3. /\ op'[Searcher].kind = "create" /\ op'[Searcher].reg = RegOf(chat)
        /\ op'[Searcher].at = "store"
    BY <1>1, <1>5, SearcherIsCaller DEF Call, StoreInv, StoreTypeOK
  <2>4. chat' = chat
    BY <1>5 DEF chat
  <2>5. SearcherAt'
    BY <1>5, <2>3, <2>4 DEF SearcherAt, RegOf
  <2>6. InChat'
    BY <1>1, <1>5, <2>4 DEF InChat
  <2> QED BY <1>1, <1>5, <2>2, <2>5, <2>6, SameChat
<1> QED BY <1>3, <1>4, <1>5 DEF GetSupergroup

LEMMA CreatedStep ==
  ASSUME IInv, Created
  PROVE  StoreInv' /\ SearchInv'
<1>1. /\ i < Len(Found) /\ i < limit /\ at = "store" /\ StoreInv /\ SearchInv
      /\ op[Searcher].kind = "create" /\ op[Searcher].reg = RegOf(chat)
      /\ limit' = limit /\ Return(Searcher)
  BY DEF IInv, Created, SearchInv, SearcherAt, InChat
<1>2. StoreInv'
  BY <1>1, SearcherIsCaller, ReturnStep
<1>3. op'[Searcher].at = "idle"
  BY <1>1, SearcherIsCaller DEF Return, NoOp, StoreInv, StoreTypeOK
<1>4. added \subseteq Registration
  BY <1>1 DEF SearchInv, SearchTypeOK
<1>5. CASE /\ op[Searcher].err = "ok"
           /\ Counted
           /\ added' = added \union ({RegOf(chat)} \cap seen[Searcher])
  <2>1. RegOf(chat) \in seen[Searcher]
    BY <1>1, <1>5, SearcherIsCaller DEF StoreInv, CallOK, Return
  <2>2. added' = added \union {RegOf(chat)}
    BY <1>5, <2>1
  <2>3. RegOf(chat) \in Registration
    BY <1>1, ChatTyped DEF SearchInv
  <2>5. failed' = failed /\ failed \in BOOLEAN
    BY <1>1, <1>5 DEF Counted, SearchInv, SearchTypeOK
  <2>6. added' \subseteq Registration /\ added \subseteq added' /\ RegOf(chat) \in added'
    BY <1>4, <2>2, <2>3
  <2> QED BY <1>1, <1>2, <1>3, <1>5, <2>5, <2>6, NextChat DEF Counted
<1>6. CASE ErrorJoined /\ UNCHANGED added
  BY <1>1, <1>2, <1>3, <1>4, <1>6, NextChat DEF ErrorJoined
<1> QED BY <1>5, <1>6 DEF Created

\* A new search, its end and its answer.
LEMMA EndsStep ==
  ASSUME IInv, (\E l \in Limits : Search(l)) \/ End \/ Answer
  PROVE  StoreInv' /\ SearchInv'
<1>1. StoreInv /\ SearchInv /\ at # "store" /\ op[Searcher].at = "idle"
  BY DEF IInv, SearchInv, SearcherAt, Search, End, Answer
<1>2. StoreInv' /\ op' = op
  BY <1>1, StoreIdle DEF Search, End, Answer
<1>4. CASE \E l \in Limits : Search(l)
  <2>1. PICK l \in Limits : Search(l)
    BY <1>4
  <2>2. l \in Nat /\ limit' = l /\ i' = 0 /\ n' = 0 /\ added' = {}
        /\ \/ at' = "chat" /\ failed' = FALSE
           \/ at' = "answered" /\ failed' = TRUE
    BY <2>1, LimitsAreNumbers DEF Search
  <2>3. Counts'
    BY <2>2 DEF Counts
  <2>4. SearchTypeOK' /\ SearcherAt' /\ InChat'
    <3>1. SearchTypeOK'
      BY NoSearch, <2>2 DEF SearchTypeOK
    <3>2. SearcherAt' /\ InChat'
      BY <1>1, <1>2, <2>2 DEF SearcherAt, InChat
    <3> QED BY <3>1, <3>2
  <2>5. StoredSoFar' /\ Ended'
    BY <2>2 DEF StoredSoFar, Ended
  <2> QED BY <1>2, <2>3, <2>4, <2>5 DEF SearchInv
<1>5. CASE End
  BY <1>1, <1>2, <1>5
     DEF End, More, SearchInv, SearchTypeOK, SearcherAt, InChat, Counts, StoredSoFar, Ended
<1>6. CASE Answer
  <2>1. Counts'
    BY <1>6 DEF Answer, Counts
  <2>2. SearchTypeOK' /\ SearcherAt' /\ InChat'
    <3>1. SearchTypeOK'
      BY <1>6, NoSearch DEF Answer, SearchTypeOK
    <3>2. SearcherAt' /\ InChat'
      BY <1>1, <1>2, <1>6 DEF Answer, SearcherAt, InChat
    <3> QED BY <3>1, <3>2
  <2>3. StoredSoFar' /\ Ended'
    BY <1>6 DEF Answer, StoredSoFar, Ended
  <2> QED BY <1>2, <2>1, <2>2, <2>3 DEF SearchInv
<1> QED BY <1>4, <1>5, <1>6

\* A step of a call keeps what the call is about.
LEMMA ServeKeeps ==
  ASSUME StoreTypeOK, NEW p \in Callers, Serve(p)
  PROVE  /\ op[p].at # "idle" /\ op'[p].at \in {"store", "cache", "done"}
         /\ op'[p].kind = op[p].kind /\ op'[p].reg = op[p].reg
         /\ \A q \in Callers \ {p} : op'[q] = op[q]
<1>1. op[p] \in Op /\ op[p].at # "idle"
  BY DEF StoreTypeOK, Serve, StoreCreate, CacheCreate, CacheRead, StoreRead,
         StoreUpdate, StoreDelete, CacheRemove, At
<1>2. PICK o :
        /\ op' = [op EXCEPT ![p] = o] /\ o.at \in {"store", "cache", "done"}
        /\ o.kind = op[p].kind /\ o.reg = op[p].reg
  <2>1. CASE \E place \in {"cache", "done"}, err \in Errors : Go(p, place, err)
    <3>1. PICK place \in {"cache", "done"}, err \in Errors : Go(p, place, err)
      BY <2>1
    <3> DEFINE o == [op[p] EXCEPT !.at = place, !.err = err]
    <3>2. o.at = place /\ o.kind = op[p].kind /\ o.reg = op[p].reg
      BY <1>1 DEF Op
    <3>3. op' = [op EXCEPT ![p] = o]
      BY <3>1 DEF Go
    <3> HIDE DEF o
    <3> QED BY <3>2, <3>3
  <2>2. CASE \E ans : op' = [op EXCEPT ![p].at = "done", ![p].ans = ans]
    <3>1. PICK ans : op' = [op EXCEPT ![p].at = "done", ![p].ans = ans]
      BY <2>2
    <3> DEFINE o == [op[p] EXCEPT !.at = "done", !.ans = ans]
    <3>2. o.at = "done" /\ o.kind = op[p].kind /\ o.reg = op[p].reg
      BY <1>1 DEF Op
    <3>3. op' = [op EXCEPT ![p] = o]
      BY <3>1
    <3> HIDE DEF o
    <3> QED BY <3>2, <3>3
  <2>3. CASE op' = [op EXCEPT ![p].at = "store"]
    <3> DEFINE o == [op[p] EXCEPT !.at = "store"]
    <3>1. o.at = "store" /\ o.kind = op[p].kind /\ o.reg = op[p].reg
      BY <1>1 DEF Op
    <3>2. op' = [op EXCEPT ![p] = o]
      BY <2>3
    <3> HIDE DEF o
    <3> QED BY <3>1, <3>2
  <2>4. op[p].err \in Errors
    BY <1>1 DEF Op
  <2> QED BY <2>1, <2>2, <2>3, <2>4
       DEF Serve, StoreCreate, CacheCreate, CacheRead, StoreRead, StoreUpdate,
           StoreDelete, StoreChange, CacheRemove, Errors
<1> QED BY <1>1, <1>2 DEF StoreTypeOK

\* What only others do leaves the search as it is.
LEMMA SearchKept ==
  ASSUME SearchInv, UNCHANGED searchVars, SearcherAt'
  PROVE  SearchInv'
<1>1. at' = at /\ i' = i /\ limit' = limit /\ n' = n /\ failed' = failed /\ added' = added
  BY DEF searchVars
<1>2. chat' = chat /\ (More <=> More')
  BY <1>1 DEF chat, More
<1> QED BY <1>1, <1>2 DEF SearchInv, SearchTypeOK, InChat, Counts, StoredSoFar, Ended

\* The steps of other callers and of the store's side of the searcher's.
LEMMA CallsStep ==
  ASSUME IInv, UNCHANGED searchVars,
         \/ \E p \in Callers : Serve(p)
         \/ \E p \in Callers \ {Searcher} : ClientCall(p) \/ Return(p)
         \/ \E l \in Links : Evict(l)
  PROVE  StoreInv' /\ SearchInv'
<1>1. StoreInv /\ StoreTypeOK
  BY DEF IInv, StoreInv
<1>2. StoreInv'
  BY <1>1, ServeStep, ClientCallStep, ReturnStep, EvictStep
<1>3. CASE op'[Searcher] = op[Searcher]
  <2>1. SearcherAt'
    BY <1>3 DEF searchVars, IInv, SearchInv, SearcherAt, chat
  <2> QED BY <1>2, <2>1, SearchKept DEF IInv
<1>4. CASE Serve(Searcher)
  <2>1. /\ op[Searcher].at # "idle" /\ op'[Searcher].at \in {"store", "cache", "done"}
        /\ op'[Searcher].kind = op[Searcher].kind /\ op'[Searcher].reg = op[Searcher].reg
    BY <1>1, <1>4, SearcherIsCaller, ServeKeeps
  <2>2. SearcherAt'
    BY <2>1 DEF searchVars, IInv, SearchInv, SearcherAt, chat
  <2> QED BY <1>2, <2>2, SearchKept DEF IInv
<1>5. ASSUME NEW p \in Callers \ {Searcher}, Serve(p)
      PROVE  op'[Searcher] = op[Searcher]
  BY <1>1, <1>5, SearcherIsCaller, ServeKeeps
<1>6. ASSUME NEW p \in Callers \ {Searcher}, ClientCall(p) \/ Return(p)
      PROVE  op'[Searcher] = op[Searcher]
  BY <1>1, <1>6, SearcherIsCaller DEF ClientCall, Call, Return, StoreTypeOK
<1>7. ASSUME NEW l \in Links, Evict(l)
      PROVE  op'[Searcher] = op[Searcher]
  BY <1>7 DEF Evict
<1> QED BY <1>2, <1>3, <1>4, <1>5, <1>6, <1>7

LEMMA InvStep == IInv /\ [Next]_vars => IInv'
<1> SUFFICES ASSUME IInv, [Next]_vars PROVE IInv'
  OBVIOUS
<1>1. (calls \in 0 .. MaxCalls)'
  BY LimitsAreNumbers DEF IInv, Next, Search, Other, vars
<1>2. StoreInv' /\ SearchInv'
  <2>1. CASE (\E l \in Limits : Search(l)) \/ Look
    BY <2>1, EndsStep, GetChatStep, CheckTagStep, GetSupergroupStep, CreatedStep DEF Look
  <2>2. CASE /\ UNCHANGED searchVars
             /\ \/ \E p \in Callers : Serve(p)
                \/ \E p \in Callers \ {Searcher} : ClientCall(p) \/ Return(p)
                \/ \E l \in Links : Evict(l)
    BY <2>2, CallsStep
  <2>3. CASE UNCHANGED vars
    <3>1. StoreInv' /\ op' = op
      BY <2>3, StoreIdle DEF vars, IInv
    <3>2. SearcherAt' /\ UNCHANGED searchVars
      BY <2>3, <3>1 DEF vars, searchVars, IInv, SearchInv, SearcherAt, chat
    <3> QED BY <3>1, <3>2, SearchKept DEF IInv
  <2> QED BY <2>1, <2>2, <2>3 DEF Next, Other
<1> QED BY <1>1, <1>2 DEF IInv

\* The invariant holds throughout.
LEMMA Invariant == Spec => []IInv
BY SearchStarts, InvStep, PTL DEF Spec

-----------------------------------------------------------------------------
(* The results *)

\* Type correctness, for any chats, callers and requests.
THEOREM TypeCorrect == Spec => []TypeOK
<1>1. IInv => TypeOK
  BY DEF IInv, StoreInv, SearchInv, SearchTypeOK, TypeOK
<1> QED BY <1>1, Invariant, PTL

\* What a Read can answer, seen from each step.
LEMMA ReadAnswers ==
  ASSUME IInv, [Next]_vars, NEW p \in Callers,
         op[p].kind = "read", op[p].at # "done",
         op'[p].at = "done", op'[p].ans # NoReg
  PROVE  op'[p].ans \in Regs \union refused
<1>1. StoreTypeOK /\ CachedRefused /\ op[p] \in Op
  BY DEF IInv, StoreInv, StoreTypeOK
<1>2. CASE CacheRead(p) \/ StoreRead(p)
  <2>1. CASE CacheRead(p)
    <3>1. cache[op[p].link] # NoReg /\ op'[p].ans = cache[op[p].link]
      BY <1>1, <2>1 DEF CacheRead, StoreTypeOK, Op
    <3> QED BY <1>1, <3>1 DEF CachedRefused, Op
  <2>2. CASE StoreRead(p)
    <3>1. op[p].ans = NoReg
      BY <2>2 DEF StoreRead, At, IInv, StoreInv, CallOK
    <3>2. CASE \E err \in {"notfound", "internal"} : Go(p, "done", err)
      BY <1>1, <3>1, <3>2 DEF Go, StoreTypeOK, Op
    <3>3. CASE \E q \in Under(op[p].link) :
                 op' = [op EXCEPT ![p].at = "done", ![p].ans = q]
      BY <1>1, <3>3 DEF Under, StoreTypeOK, Op
    <3> QED BY <2>2, <3>2, <3>3 DEF StoreRead
  <2> QED BY <1>2, <2>1, <2>2
<1>3. CASE ~(CacheRead(p) \/ StoreRead(p))
  <2>1. CASE \E q \in Callers : Serve(q)
    <3>1. PICK q \in Callers : Serve(q)
      BY <2>1
    <3>2. CASE q = p
      BY <1>3, <3>1, <3>2
         DEF Serve, StoreCreate, CacheCreate, StoreUpdate, StoreDelete, CacheRemove, At
    <3>3. CASE q # p
      BY <1>1, <3>1, <3>3, ServeKeeps
    <3> QED BY <3>2, <3>3
  <2>2. CASE \E q \in Callers : ClientCall(q)
    BY <1>1, <2>2 DEF ClientCall, Call, StoreTypeOK
  <2>3. CASE \E q \in Callers : Return(q)
    BY <1>1, <2>3 DEF Return, StoreTypeOK, NoOp
  <2>4. CASE op' = op
    BY <2>4
  <2>5. CASE GetSupergroup
    BY <1>1, <2>5, SearcherIsCaller
       DEF GetSupergroup, storeVars, Call, StoreTypeOK
  <2>6. CASE (\E l \in Limits : Search(l)) \/ GetChat \/ CheckTag \/ End \/ Answer
             \/ (\E l \in Links : Evict(l)) \/ UNCHANGED vars
    BY <2>4, <2>6 DEF Search, GetChat, CheckTag, End, Answer, Evict, vars, storeVars
  <2>7. CASE Created
    BY <2>3, <2>7, SearcherIsCaller DEF Created
  <2> QED BY <2>1, <2>2, <2>3, <2>5, <2>6, <2>7 DEF Next, Look, Other
<1> QED BY <1>2, <1>3

\* Read answers with what is stored at that moment, or with a registration
\* whose Create answered an error within the life of the cache entry.
THEOREM ReadsAreFresh == Spec => ReadsFresh
<1>1. IInv /\ [Next]_vars =>
        [\A p \in Callers :
           /\ op[p].kind = "read" /\ op[p].at # "done"
           /\ op'[p].at = "done" /\ op'[p].ans # NoReg
           => op'[p].ans \in Regs \union refused]_storeVars
  BY ReadAnswers
<1> QED BY <1>1, Invariant, PTL DEF Spec, ReadsFresh

\* A search without an error has stored all that qualifies.
THEOREM SearchStores == Spec => []SuccessStoresAll
<1>1. IInv => SuccessStoresAll
  <2> SUFFICES ASSUME IInv, at = "answered", ~failed, NEW k \in 1 .. Len(Found),
                      k <= limit, Qualifies(Found[k])
               PROVE  RegOf(Found[k]) \in added
    BY DEF SuccessStoresAll
  <2>1. ~(i < Len(Found) /\ i < limit) /\ i \in Nat /\ limit \in Nat /\ Len(Found) \in Nat
    BY FoundAreChats, MoreIs DEF IInv, SearchInv, SearchTypeOK, Ended
  <2>2. k \in 1 .. i
    BY <2>1
  <2> QED BY <2>2 DEF IInv, SearchInv, StoredSoFar
<1> QED BY <1>1, Invariant, PTL
=============================================================================
