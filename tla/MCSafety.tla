------------------------------ MODULE MCSafety ------------------------------
(***************************************************************************)
(* Orders, Analysis and the paid callers of Features for TLC, where only   *)
(* safety is asked.  They share no state: part says which of them a        *)
(* behaviour is one of, the others stay at their initial states.  All      *)
(* identities but the refs are interchangeable.                            *)
(***************************************************************************)
EXTENDS Orders, MCFeatures, FiniteSets, TLC

CONSTANTS Refs, MaxTries, MaxRunning, StaleTicks, Prios, Recovers,
          Jobs, Batch, MaxCalls

VARIABLES part,
          qstate, tries, held, age, prio, born, phase, slots, batch,
          ready, essentia, analyzing, got, task, blocked, calls, anCrashes

anVars == <<qstate, tries, held, age, prio, born, phase, slots, batch,
            ready, essentia, analyzing, got, task, blocked, calls, anCrashes>>

An == INSTANCE Analysis WITH crashes <- anCrashes

\* What Analysis and WorkQueue assume of their constants.
ASSUME AnAssumption ==
  /\ {MaxTries, MaxRunning, StaleTicks, Batch} \subseteq Nat \ {0}
  /\ Prios \subseteq Nat /\ IsFiniteSet(Refs)

MCInit ==
  /\ part \in {"orders", "analysis", "features"} /\ Init /\ An!Init /\ Fe!Init
  /\ part # "features" => keyed

MCNext ==
  /\ UNCHANGED part
  /\ \/ part = "orders"   /\ Next /\ UNCHANGED <<anVars, feVars>>
     \/ part = "analysis" /\ An!Next /\ UNCHANGED <<vars, feVars>>
     \/ part = "features" /\ Fe!Next /\ UNCHANGED <<vars, anVars>>

MCSpec == MCInit /\ [][MCNext]_<<part, vars, anVars, feVars>>

SafetySymmetry ==
  Permutations(Tracks) \cup Permutations(OrderIds) \cup Permutations(Procs)
    \cup Permutations(Jobs) \cup Permutations(Handlers) \cup Permutations(Songs)

-----------------------------------------------------------------------------

\* See Analysis: the guard is held exactly by the tasks.
GuardExact == An!GuardExact
=============================================================================
