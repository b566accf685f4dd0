---------------------------- MODULE CachedStore ----------------------------
(***************************************************************************)
(* The collection behind the local cache (cache.go), used by several       *)
(* callers at once.  Every call is a request to the store and a step on    *)
(* the cache with other callers between; the cache is maintained on the    *)
(* error branch only, as in the code.                                      *)
(***************************************************************************)
EXTENDS Storage

CONSTANTS
  Callers,   \* the goroutines that serve calls
  Requests,  \* the registrations clients ask for
  NoReg      \* no registration

ASSUME RequestsAreRegistrations == Requests \subseteq Registration
ASSUME SomeLink == Links # {}

VARIABLES
  coll,     \* the collection
  cache,    \* the registration cached under each link, NoReg if none
  op,       \* each caller's call
  refused,  \* history: registrations whose Create answered an error, until
            \* the cache's entry for the link goes
  seen      \* history: what was stored at some time during each caller's call

storeVars == <<coll, cache, op, refused, seen>>

Kinds == {"create", "read", "update", "delete"}
Errors == {"ok", "conflict", "notfound", "internal"}

Op == [kind: Kinds, at: {"idle", "store", "cache", "done"},
       reg: Registration \union {NoReg}, link: Links, err: Errors,
       ans: Registration \union {NoReg}]

StoreTypeOK ==
  /\ coll \subseteq Channel
  /\ cache \in [Links -> Registration \union {NoReg}]
  /\ op \in [Callers -> Op]
  /\ refused \subseteq Registration
  /\ seen \in [Callers -> SUBSET Registration]

Regs == {r.reg : r \in coll}
Under(link) == {q \in Regs : q.link = link}

NoOp == [kind |-> "read", at |-> "idle", reg |-> NoReg,
         link |-> CHOOSE l \in Links : TRUE, err |-> "ok", ans |-> NoReg]

StoreInit ==
  /\ coll = {}
  /\ cache = [l \in Links |-> NoReg]
  /\ op = [p \in Callers |-> NoOp]
  /\ refused = {}
  /\ seen = [p \in Callers |-> {}]

-----------------------------------------------------------------------------
(* A call *)

\* A read starts at the cache, the others at the store.
Call(p, kind, q, link) ==
  /\ op[p].at = "idle"
  /\ op' = [op EXCEPT ![p] = [kind |-> kind, reg |-> q, link |-> link,
                              at |-> IF kind = "read" THEN "cache" ELSE "store",
                              err |-> "ok", ans |-> NoReg]]
  /\ seen' = [seen EXCEPT ![p] = Regs]
  /\ UNCHANGED <<coll, cache, refused>>

At(p, kind, place) == op[p].kind = kind /\ op[p].at = place

\* The step at hand is over with an error or none.
Go(p, place, err) == op' = [op EXCEPT ![p].at = place, ![p].err = err]

\* What is stored is seen by the calls under way.
Store(new) ==
  /\ coll' = new
  /\ seen' = [p \in Callers |->
                IF op[p].at = "idle" THEN {} ELSE seen[p] \union {r.reg : r \in new}]

-----------------------------------------------------------------------------
(* Create *)

\* The insert, which an index may refuse and an error may hide.
StoreCreate(p) ==
  /\ At(p, "create", "store")
  /\ \/ /\ ~Conflict(coll, op[p].reg)
        /\ Store(InsertOne(coll, op[p].reg, 0))
        /\ Go(p, "cache", "ok")
     \/ /\ Conflict(coll, op[p].reg)
        /\ Store(coll)
        /\ Go(p, "cache", "conflict")
     \/ /\ \E new \in {coll, InsertOne(coll, op[p].reg, 0)} : Store(new)
        /\ Go(p, "cache", "internal")
  /\ UNCHANGED <<cache, refused>>

\* Seeded fault: what was stored is cached, what was removed stays so.
CacheCreateStored(p) ==
  /\ At(p, "create", "cache")
  /\ cache' = IF op[p].err = "ok" THEN [cache EXCEPT ![op[p].link] = op[p].reg]
                                  ELSE cache
  /\ refused' = IF op[p].err = "ok" THEN refused ELSE refused \union {op[p].reg}
  /\ Go(p, "done", op[p].err)
  /\ UNCHANGED <<coll, seen>>

\* The channel is cached when the store answered an error.
CacheCreate(p) ==
  /\ At(p, "create", "cache")
  /\ cache' = IF op[p].err = "ok" THEN cache
                                  ELSE [cache EXCEPT ![op[p].link] = op[p].reg]
  /\ refused' = IF op[p].err = "ok" THEN refused ELSE refused \union {op[p].reg}
  /\ Go(p, "done", op[p].err)
  /\ UNCHANGED <<coll, seen>>

-----------------------------------------------------------------------------
(* Read *)

\* What the cache has is the answer; what it has not is read from the store.
CacheRead(p) ==
  /\ At(p, "read", "cache")
  /\ op' = IF cache[op[p].link] = NoReg
           THEN [op EXCEPT ![p].at = "store"]
           ELSE [op EXCEPT ![p].at = "done", ![p].ans = cache[op[p].link]]
  /\ UNCHANGED <<coll, cache, refused, seen>>

\* FindOne by the link.
StoreRead(p) ==
  /\ At(p, "read", "store")
  /\ \/ \E q \in Under(op[p].link) :
          op' = [op EXCEPT ![p].at = "done", ![p].ans = q]
     \/ Under(op[p].link) = {} /\ Go(p, "done", "notfound")
     \/ Go(p, "done", "internal")
  /\ UNCHANGED <<coll, cache, refused, seen>>

-----------------------------------------------------------------------------
(* Update and Delete *)

\* A request about the document with the link, by its effect when it is there.
StoreChange(p, new) ==
  /\ \/ Under(op[p].link) # {} /\ Store(new) /\ Go(p, "cache", "ok")
     \/ Under(op[p].link) = {} /\ Store(coll) /\ Go(p, "cache", "notfound")
     \/ (\E c \in {coll, new} : Store(c)) /\ Go(p, "cache", "internal")
  /\ UNCHANGED <<cache, refused>>

\* Dates play no part here: all are 0.
StoreUpdate(p) ==
  At(p, "update", "store") /\ StoreChange(p, UpdateLast(coll, op[p].link, 0))

StoreDelete(p) ==
  At(p, "delete", "store") /\ StoreChange(p, DeleteOne(coll, op[p].link))

\* The entry of the link goes, and with it what was refused under the link.
Forget(link) ==
  /\ cache' = [cache EXCEPT ![link] = NoReg]
  /\ refused' = {q \in refused : q.link # link}

\* The entry is removed when the store answered an error.
CacheRemove(p) ==
  /\ At(p, "update", "cache") \/ At(p, "delete", "cache")
  /\ IF op[p].err = "ok" THEN UNCHANGED <<cache, refused>> ELSE Forget(op[p].link)
  /\ Go(p, "done", op[p].err)
  /\ UNCHANGED <<coll, seen>>

-----------------------------------------------------------------------------

\* A minute is over, or a thousand other links came.
Evict(link) ==
  /\ cache[link] # NoReg
  /\ Forget(link)
  /\ UNCHANGED <<coll, op, seen>>

\* The answer goes back to a client.
Return(p) ==
  /\ op[p].at = "done"
  /\ op' = [op EXCEPT ![p] = NoOp]
  /\ seen' = [seen EXCEPT ![p] = {}]
  /\ UNCHANGED <<coll, cache, refused>>

\* The calls of a gRPC client, and the refresh loop's Update.
ClientCall(p) ==
  \/ \E q \in Requests : Call(p, "create", q, q.link)
  \/ \E k \in {"read", "update", "delete"}, l \in Links : Call(p, k, NoReg, l)

Serve(p) ==
  \/ StoreCreate(p) \/ CacheCreate(p)
  \/ CacheRead(p) \/ StoreRead(p)
  \/ StoreUpdate(p) \/ StoreDelete(p) \/ CacheRemove(p)

-----------------------------------------------------------------------------
(* Properties *)

\* At the moment it is answered a Read gives what is stored, or else a
\* registration for which Create answered an error within the life of a cache
\* entry. So only such an error makes a channel outlive its removal: after
\* Create, Create again and Delete of one channel it is read for up to a
\* minute more, as Delete does not take it out; a channel that was created
\* once and without an error is never read when it is gone.
ReadsFresh ==
  [][\A p \in Callers :
       /\ op[p].kind = "read" /\ op[p].at # "done"
       /\ op'[p].at = "done" /\ op'[p].ans # NoReg
       => op'[p].ans \in Regs \union refused]_storeVars

\* What storage_mongo_test.go says of Read: a link that is not stored is
\* ErrNotFound.
ReadsStored ==
  \A p \in Callers :
    At(p, "read", "done") /\ op[p].ans # NoReg => op[p].ans \in seen[p]
=============================================================================
