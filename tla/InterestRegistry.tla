-------------------------- MODULE InterestRegistry --------------------------
(***************************************************************************)
(* What the interest consumers promise, whatever fails and however they    *)
(* interleave: a public name is given to a channel once and stays with it, *)
(* and an interest is started only in the channel that has its name.       *)
(***************************************************************************)
CONSTANTS
  Interests, \* interest ids
  Names,     \* public channel names
  Chats,     \* channel ids
  NoChat,    \* none of them
  NameOf     \* the name made from an interest's id

VARIABLES
  owner,   \* the channel that has a name, NoChat if none
  started  \* pairs <<i, c>>: interest i was started in channel c

Init == owner = [n \in Names |-> NoChat] /\ started = {}

\* A name nobody has goes to a channel that has none.
Claim(n, c) ==
  /\ owner[n] = NoChat
  /\ \A m \in Names : owner[m] # c
  /\ owner' = [owner EXCEPT ![n] = c]
  /\ UNCHANGED started

Start(i) ==
  /\ owner[NameOf[i]] # NoChat
  /\ started' = started \union {<<i, owner[NameOf[i]]>>}
  /\ UNCHANGED owner

Next ==
  \/ \E n \in Names, c \in Chats : Claim(n, c)
  \/ \E i \in Interests : Start(i)

Spec == Init /\ [][Next]_<<owner, started>>
=============================================================================
