---------------------------- MODULE SearchAndAdd ----------------------------
(***************************************************************************)
(* A search for chats and the registration of the channels among them      *)
(* (SearchAndAdd in service.go and controller.go), chat by chat, next to   *)
(* clients of the same store and cache.                                    *)
(***************************************************************************)
EXTENDS CachedStore, Sequences

CONSTANTS
  Searcher,  \* the caller that serves the search
  Found,     \* the chats Telegram finds, in order
  Limits,    \* the limits clients may set
  MaxCalls   \* bound: the calls of clients, searches included

ASSUME SearcherIsCaller == Searcher \in Callers
ASSUME FoundAreChats ==
  Found \in Seq([id: Ids, link: Links, label: Labels,
                 kind: {"channel", "group", "private"},
                 named: BOOLEAN, big: BOOLEAN, tagged: BOOLEAN])
ASSUME NoUserIsUser == NoUser \in Users
ASSUME LimitsAreNumbers == Limits \subseteq Nat /\ MaxCalls \in Nat

VARIABLES
  at,      \* the search: idle, chat, tag, group, store or answered
  i,       \* the chats looked at
  limit,
  n,       \* the count that is answered
  failed,  \* err, joined over all chats
  added,   \* history: what the call stored
  calls

searchVars == <<at, i, limit, n, failed, added>>
vars == <<storeVars, searchVars, calls>>

TypeOK ==
  /\ StoreTypeOK
  /\ at \in {"idle", "chat", "tag", "group", "store", "answered"}
  /\ i \in 0 .. Len(Found)
  /\ limit \in Nat
  /\ n \in 0 .. Len(Found)
  /\ failed \in BOOLEAN
  /\ added \subseteq Registration
  /\ calls \in 0 .. MaxCalls

Init ==
  /\ StoreInit
  /\ at = "idle"
  /\ i = 0 /\ limit = 0 /\ n = 0
  /\ failed = FALSE
  /\ added = {}
  /\ calls = 0

\* The chat at hand.
chat == Found[i + 1]

\* What is stored for a chat: no user and no label.
RegOf(c) == [id |-> c.id, link |-> c.link, user |-> NoUser, label |-> c.label]

Qualifies(c) == c.kind = "channel" /\ c.named /\ c.big /\ ~c.tagged

-----------------------------------------------------------------------------

\* SearchPublicChats. An error of it is the answer.
Search(l) ==
  /\ at = "idle"
  /\ calls < MaxCalls
  /\ calls' = calls + 1
  /\ limit' = l
  /\ i' = 0 /\ n' = 0
  /\ added' = {}
  /\ \/ at' = "chat" /\ failed' = FALSE
     \/ at' = "answered" /\ failed' = TRUE
  /\ UNCHANGED storeVars

More == i < Len(Found) /\ i < limit

\* Seeded fault: a chat is counted and looked at again.
CountedInPlace ==
  /\ n' = n + 1 /\ at' = "chat"
  /\ UNCHANGED <<i, failed>>

\* On to the next chat: counted, passed over, or with an error to join.
Counted ==
  /\ n' = n + 1 /\ i' = i + 1 /\ at' = "chat"
  /\ UNCHANGED failed
PassedOver ==
  /\ i' = i + 1 /\ at' = "chat"
  /\ UNCHANGED <<n, failed>>

\* Seeded fault: the error of a chat is dropped.
ErrorDropped ==
  /\ i' = i + 1 /\ at' = "chat"
  /\ UNCHANGED <<n, failed>>

ErrorJoined ==
  /\ i' = i + 1 /\ at' = "chat" /\ failed' = TRUE
  /\ UNCHANGED n

\* GetChat: a chat that is no supergroup is counted without being stored.
GetChat ==
  /\ at = "chat" /\ More
  /\ \/ ErrorJoined
     \/ chat.kind = "private" /\ Counted
     \/ /\ chat.kind # "private"
        /\ at' = "tag"
        /\ UNCHANGED <<i, n, failed>>
  /\ UNCHANGED <<storeVars, limit, added>>

\* The tag ends it for the chat; a check that fails finds none. Groups are
\* passed over.
CheckTag ==
  /\ at = "tag"
  /\ \/ chat.tagged /\ ErrorJoined
     \/ chat.kind = "group" /\ PassedOver
     \/ /\ chat.kind = "channel"
        /\ at' = "group"
        /\ UNCHANGED <<i, n, failed>>
  /\ UNCHANGED <<storeVars, limit, added>>

\* GetSupergroup: a channel without a name or with few members is counted
\* without being stored.
GetSupergroup ==
  /\ at = "group"
  /\ \/ ErrorJoined /\ UNCHANGED storeVars
     \/ ~(chat.named /\ chat.big) /\ Counted /\ UNCHANGED storeVars
     \/ /\ chat.named /\ chat.big
        /\ Call(Searcher, "create", RegOf(chat), chat.link)
        /\ at' = "store"
        /\ UNCHANGED <<i, n, failed>>
  /\ UNCHANGED <<limit, added>>

\* The store, behind its cache, answered.
Created ==
  /\ at = "store"
  /\ Return(Searcher)
  /\ \/ /\ op[Searcher].err = "ok"
        /\ Counted
        /\ added' = added \union ({RegOf(chat)} \cap seen[Searcher])
     \/ /\ op[Searcher].err # "ok"
        /\ ErrorJoined
        /\ UNCHANGED added
  /\ UNCHANGED limit

End ==
  /\ at = "chat" /\ ~More
  /\ at' = "answered"
  /\ UNCHANGED <<storeVars, i, limit, n, failed, added>>

\* The controller answers: the count, or the error without it.
Answer ==
  /\ at = "answered"
  /\ at' = "idle"
  /\ i' = 0 /\ limit' = 0 /\ n' = 0 /\ failed' = FALSE /\ added' = {}
  /\ UNCHANGED storeVars

-----------------------------------------------------------------------------

Look == GetChat \/ CheckTag \/ GetSupergroup \/ Created \/ End \/ Answer

\* Another client's call.
Other(p) ==
  /\ calls < MaxCalls
  /\ calls' = calls + 1
  /\ ClientCall(p)

Next ==
  \/ \E l \in Limits : Search(l)
  \/ Look /\ UNCHANGED calls
  \/ \E p \in Callers : Serve(p) /\ UNCHANGED <<searchVars, calls>>
  \/ \E p \in Callers \ {Searcher} :
       \/ Other(p) /\ UNCHANGED searchVars
       \/ Return(p) /\ UNCHANGED <<searchVars, calls>>
  \/ \E l \in Links : Evict(l) /\ UNCHANGED <<searchVars, calls>>

Spec == Init /\ [][Next]_vars

-----------------------------------------------------------------------------
(* Properties *)

\* A search answered without an error stored every channel that qualifies
\* among the chats within the limit, whatever the clients did to the store
\* and its cache meanwhile: no chat's error is lost.
SuccessStoresAll ==
  at = "answered" /\ ~failed =>
    \A k \in 1 .. Len(Found) :
      k <= limit /\ Qualifies(Found[k]) => RegOf(Found[k]) \in added
=============================================================================
