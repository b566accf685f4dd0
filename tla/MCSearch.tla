------------------------------ MODULE MCSearch ------------------------------
(***************************************************************************)
(* A search over five chats next to one client.                            *)
(***************************************************************************)
EXTENDS SearchAndAdd

CONSTANTS u1, noUser, noLabel, c1, s1

MCCallers == {s1, c1}

MCUsers  == {u1, noUser}
MCLabels == {noLabel}

\* Only the first and the last chat come so far that their links are used.
Chat(id, kind, tagged, big) ==
  [id |-> id, link |-> IF id = 1 THEN 1 ELSE 2, kind |-> kind, named |-> TRUE,
   big |-> big, tagged |-> tagged, label |-> noLabel]

\* A channel with the tag, a private chat, a group, a channel that is too
\* small, and one that qualifies.
MCFound ==
  <<Chat(1, "channel", TRUE, TRUE), Chat(2, "private", FALSE, TRUE),
    Chat(3, "group", FALSE, TRUE), Chat(4, "channel", FALSE, FALSE),
    Chat(5, "channel", FALSE, TRUE)>>

\* The client registers the first channel for a user, under its own link and
\* under the last one's.
MCRequests ==
  {[id |-> 1, link |-> 1, user |-> u1, label |-> noLabel],
   [id |-> 1, link |-> 2, user |-> u1, label |-> noLabel]}
=============================================================================
