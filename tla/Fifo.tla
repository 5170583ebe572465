--------------------------------- MODULE Fifo ---------------------------------
(***************************************************************************)
(* A bounded first-in first-out queue and the answer of its last call.     *)
(***************************************************************************)
EXTENDS Naturals, Sequences

CONSTANTS
  Jobs,
  Capacity

VARIABLES items, answer

Refused == [ok |-> FALSE, job |-> <<>>]
Accepted == [ok |-> TRUE, job |-> <<>>]
Given(job) == [ok |-> TRUE, job |-> <<job>>]

Init == items = <<>> /\ answer = Refused

Push(job) ==
  \/ /\ Len(items) < Capacity
     /\ items' = Append(items, job)
     /\ answer' = Accepted
  \/ /\ Len(items) = Capacity
     /\ UNCHANGED items
     /\ answer' = Refused

Pop ==
  \/ /\ items # <<>>
     /\ items' = Tail(items)
     /\ answer' = Given(Head(items))
  \/ /\ items = <<>>
     /\ UNCHANGED items
     /\ answer' = Refused

Clear == items' = <<>> /\ UNCHANGED answer

Next == (\E job \in Jobs : Push(job)) \/ Pop \/ Clear

Spec == Init /\ [][Next]_<<items, answer>>
==============================================================================
