------------------------------ MODULE MCJoined ------------------------------
(***************************************************************************)
(* Small instances of JoinedChannels.                                      *)
(***************************************************************************)
EXTENDS JoinedChannels

CONSTANTS u1, noUser, mine, other

MCUsers  == {u1, noUser}
MCLabels == {mine, other}

\* Two chats, one of them registered in turn under two links and two users,
\* the second link reused by the other chat.
MCReuse ==
  {[id |-> 1, link |-> 1, user |-> u1,     label |-> mine],
   [id |-> 1, link |-> 2, user |-> noUser, label |-> mine],
   [id |-> 2, link |-> 2, user |-> u1,     label |-> mine]}
\* One chat, registered with this replica or with another.
MCOneChat ==
  {[id |-> 1, link |-> 1, user |-> u1, label |-> mine],
   [id |-> 1, link |-> 2, user |-> u1, label |-> other]}

\* One channel to follow.
MCOneChannel == {[id |-> 1, link |-> 1, user |-> noUser, label |-> mine]}
=============================================================================
