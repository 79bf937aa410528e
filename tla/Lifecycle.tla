----------------------------- MODULE Lifecycle -----------------------------
(***************************************************************************)
(* What the work queue promises the workers of a kind (music-api/src/      *)
(* work.rs, "Lifecycle"): an item goes queued -> running -> done | failed, *)
(* or back to queued; it is claimed before it is worked on, by one worker, *)
(* which alone settles it; no more than Capacity run; and only an item     *)
(* that no worker holds is recovered.                                      *)
(***************************************************************************)
EXTENDS Integers, FiniteSets

CONSTANTS Items, Capacity

VARIABLES state,   \* of each item; "none": it has no row
          held     \* items a worker has claimed and not settled

Init == state = [i \in Items |-> "none"] /\ held = {}

InState(s) == {i \in Items : state[i] = s}
Becomes(i, s) == state' = [state EXCEPT ![i] = s]

Ask(i) ==
  /\ state[i] \in {"none", "done", "failed"} /\ Becomes(i, "queued")
  /\ UNCHANGED held

Take(i) ==
  /\ state[i] = "queued" /\ i \notin held
  /\ Cardinality(InState("running")) < Capacity
  /\ Becomes(i, "running") /\ held' = held \cup {i}

Settle(i) ==
  /\ i \in held /\ state[i] = "running"
  /\ \E s \in {"queued", "done", "failed"} : Becomes(i, s)
  /\ held' = held \ {i}

\* Workers die, or leave an item to its recovery.
Lose == held' \in SUBSET held /\ UNCHANGED state

Recover(S) ==
  /\ state' = [i \in Items |-> IF i \in S THEN "queued" ELSE state[i]]
  /\ UNCHANGED held

Next ==
  \/ Lose
  \/ \E i \in Items : Ask(i) \/ Take(i) \/ Settle(i)
  \/ \E S \in SUBSET (InState("running") \ held) : Recover(S)

Spec == Init /\ [][Next]_<<state, held>>
=============================================================================
