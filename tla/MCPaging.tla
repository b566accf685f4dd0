------------------------------ MODULE MCPaging ------------------------------
(***************************************************************************)
(* A small instance of Paging.                                             *)
(***************************************************************************)
EXTENDS Paging

CONSTANTS u1, noUser, mine, s1, noSub, all, some, n1, n2, anyLabel

MCUsers  == {u1, noUser}
MCLabels == {mine}

\* Four chats; the second link is wanted by two of them, the fourth by none:
\* a descending walk can start from it.
MCRequests ==
  {[id |-> 1, link |-> 1, user |-> u1,     label |-> mine],
   [id |-> 2, link |-> 2, user |-> noUser, label |-> mine],
   [id |-> 3, link |-> 2, user |-> u1,     label |-> mine],
   [id |-> 4, link |-> 3, user |-> u1,     label |-> mine]}

MCProfile ==
  [q \in Registration |->
     [sub |-> IF q.id = 4 THEN noSub ELSE s1, name |-> IF q.id = 1 THEN n1 ELSE n2]]

\* The empty pattern matches every text, the other one link and one name.
MCMatches == ({all} \X (Links \union {n1, n2})) \union {<<some, 2>>, <<some, n1>>}

MCFilters ==
  {[user |-> noUser, sub |-> noSub, pattern |-> all,  label |-> anyLabel],
   [user |-> u1,     sub |-> noSub, pattern |-> all,  label |-> mine],
   [user |-> noUser, sub |-> s1,    pattern |-> some, label |-> anyLabel]}
=============================================================================
