------------------------------ MODULE SlotPool ------------------------------
(***************************************************************************)
(* What the download ledger promises the rest of the system: downloads     *)
(* hold one of Capacity slots (MAX_INFLIGHT), taken and given back one at  *)
(* a time.                                                                 *)
(***************************************************************************)
EXTENDS Integers, FiniteSets

CONSTANTS Items, Capacity
VARIABLE held

Init == held = {}

Acquire(i) ==
  /\ i \notin held /\ Cardinality(held) < Capacity
  /\ held' = held \cup {i}

Release(i) == i \in held /\ held' = held \ {i}

Next == \E i \in Items : Acquire(i) \/ Release(i)

Spec == Init /\ [][Next]_held
=============================================================================
