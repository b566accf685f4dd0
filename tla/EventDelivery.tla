---------------------------- MODULE EventDelivery ----------------------------
(***************************************************************************)
(* What publishing promises, abstractly: events are worked on one after    *)
(* the other; the writer may take an event any number of times from then   *)
(* on, also late; an event is called delivered only when it was taken.     *)
(* An event is known by its place in the order of their beginning.         *)
(***************************************************************************)
EXTENDS Integers, Sequences

VARIABLES
  fate,  \* what became of each event: busy, delivered or over
  log    \* the copies the writer took, in the order of taking

Init == fate = <<>> /\ log = <<>>

Busy(e) == e \in DOMAIN fate /\ fate[e] = "busy"

Begin ==
  /\ \A e \in DOMAIN fate : ~Busy(e)
  /\ fate' = Append(fate, "busy")
  /\ UNCHANGED log

Take(e) ==
  /\ e \in DOMAIN fate
  /\ log' = Append(log, e)
  /\ UNCHANGED fate

Deliver(e) ==
  /\ Busy(e)
  /\ \E i \in DOMAIN log : log[i] = e
  /\ fate' = [fate EXCEPT ![e] = "delivered"]
  /\ UNCHANGED log

GiveUp(e) ==
  /\ Busy(e)
  /\ fate' = [fate EXCEPT ![e] = "over"]
  /\ UNCHANGED log

Next ==
  \/ Begin
  \/ \E e \in DOMAIN fate : Take(e) \/ Deliver(e) \/ GiveUp(e)

Spec == Init /\ [][Next]_<<fate, log>>
=============================================================================
