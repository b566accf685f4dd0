----------------------------- MODULE MCInterests -----------------------------
(***************************************************************************)
(* Small instances of Interests: one interest in both queues, and two      *)
(* interests whose names are cut to the same one.                          *)
(***************************************************************************)
EXTENDS Interests, TLC

CONSTANTS created, updated, e1, e2, e3, e4, e5, i1, i2, i3, n1, n2

MCConsumers == {created, updated}

MCShortBacklog == created :> <<e1, e2>> @@ updated :> <<e3>>

MCBacklog == created :> <<e1, e2>> @@ updated :> <<e3, e4, e5>>

MCInterestOf == e1 :> i1 @@ e2 :> i2 @@ e3 :> i3 @@ e4 :> i2 @@ e5 :> i1

MCNameOf == i1 :> n1 @@ i2 :> n2 @@ i3 :> n1
=============================================================================
