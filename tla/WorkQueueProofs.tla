-------------------------- MODULE WorkQueueProofs --------------------------
(***************************************************************************)
(* What every kind of work item shares: the types of the rows and of the   *)
(* loop, and the cap.  RunningCap alone is not inductive: the slots are    *)
(* counted before the items are read and claimed.  CapInv adds what the    *)
(* loop still intends to claim.  Only a claim makes an item run, so any    *)
(* other statement keeps CapInv (Shrinks), whoever executes it.            *)
(***************************************************************************)
EXTENDS WorkQueue, FiniteSetTheorems, TLAPS

CapInv ==
  /\ Cardinality(Running) <= MaxRunning
  /\ phase = "next"  => Cardinality(Running) + slots <= MaxRunning
  /\ phase = "claim" => Cardinality(Running) + Cardinality(batch) <= MaxRunning

-----------------------------------------------------------------------------
(* Types. *)

\* Each statement on the rows keeps their types.
LEMMA RowTypes ==
  ASSUME QueueTypeOK, NEW i \in Refs, UNCHANGED drainVars
  PROVE  /\ \A p \in Nat : Insert(i, p) => QueueTypeOK'
         /\ \A p \in Nat : Rearm(i, p) => QueueTypeOK'
         /\ \A p \in Nat : Enqueue(i, p) => QueueTypeOK'
         /\ Finish(i) => QueueTypeOK'
         /\ Fail(i) => QueueTypeOK'
         /\ Requeue(i) => QueueTypeOK'
<1>1. Cardinality(Known) \in Nat
  BY RefsAssumption, FS_Subset, FS_CardinalityType DEF Known
<1> USE <1>1, StaleAssumption DEF QueueTypeOK, QStates, drainVars
<1>2. \A p \in Nat : Insert(i, p) => QueueTypeOK'
  BY DEF Insert
<1>3. \A p \in Nat : Rearm(i, p) => QueueTypeOK'
  <2> SUFFICES ASSUME NEW p \in Nat, Rearm(i, p) PROVE QueueTypeOK'
    OBVIOUS
  <2>1. prio' \in [Refs -> Nat] /\ age' \in [Refs -> 0..StaleTicks] /\ born' = born
    BY DEF Rearm
  <2>2. /\ qstate' \in [Refs -> QStates] /\ tries' \in [Refs -> Nat]
        /\ held' \in [Refs -> BOOLEAN]
    <3>1. CASE qstate[i] \in {"done", "failed"}
      <4>1. /\ qstate' = [qstate EXCEPT ![i] = "queued"]
            /\ tries' = [tries EXCEPT ![i] = 0]
            /\ held' = [held EXCEPT ![i] = FALSE]
        BY <3>1 DEF Rearm
      <4> QED
        BY <4>1
    <3>2. CASE qstate[i] \notin {"done", "failed"}
      BY <3>2 DEF Rearm
    <3> QED
      BY <3>1, <3>2
  <2> QED
    BY <2>1, <2>2
<1>4. \A p \in Nat : Enqueue(i, p) => QueueTypeOK'
  BY <1>2, <1>3 DEF Enqueue
<1>5. ASSUME NEW s \in QStates, NEW h \in BOOLEAN, Settle(i, s, h)
      PROVE  QueueTypeOK'
  <2>1. held' \in [Refs -> BOOLEAN]
    BY <1>5 DEF Settle
  <2>2. qstate' \in [Refs -> QStates]
    BY <1>5 DEF Settle
  <2> QED
    BY <1>5, <2>1, <2>2 DEF Settle
<1>6. held[i] \in BOOLEAN
  OBVIOUS
<1>7. /\ Finish(i) => QueueTypeOK'
      /\ Fail(i) => QueueTypeOK'
      /\ Requeue(i) => QueueTypeOK'
  BY <1>5, <1>6 DEF Finish, Fail, Requeue
<1> QED
  BY <1>2, <1>3, <1>4, <1>7

\* So does each step of the loop.
LEMMA LoopTypes ==
  ASSUME QueueTypeOK
  PROVE  /\ \A S, then : Wake(S, then) /\ then \in {"seed", "count"} => QueueTypeOK'
         /\ CountSlots => QueueTypeOK'
         /\ NextItems => QueueTypeOK'
         /\ \A i \in Refs : Claim(i) /\ UNCHANGED phase => QueueTypeOK'
         /\ \A i \in Refs : SkipClaimed(i) => QueueTypeOK'
         /\ DrainDone => QueueTypeOK'
         /\ \A i \in Refs : HoldElapses(i) => QueueTypeOK'
<1> USE StaleAssumption DEF QueueTypeOK, QStates, queueVars, drainVars
<1>1. \A S, then : Wake(S, then) /\ then \in {"seed", "count"} => QueueTypeOK'
  <2> SUFFICES ASSUME NEW S, NEW then \in {"seed", "count"}, Wake(S, then)
               PROVE  QueueTypeOK'
    OBVIOUS
  <2>1. qstate' \in [Refs -> QStates]
    BY DEF Wake
  <2>2. held' \in [Refs -> BOOLEAN]
    BY DEF Wake
  <2>3. age' \in [Refs -> 0..StaleTicks]
    BY DEF Wake
  <2> QED
    BY <2>1, <2>2, <2>3 DEF Wake
<1>2. CountSlots => QueueTypeOK'
  <2> SUFFICES ASSUME CountSlots PROVE QueueTypeOK'
    OBVIOUS
  <2>1. Cardinality(Running) \in Nat
    BY RefsAssumption, FS_Subset, FS_CardinalityType DEF Running
  <2>2. FreeSlots \in 0..MaxRunning
    BY <2>1, RunningAssumption DEF FreeSlots
  <2> QED
    BY <2>2 DEF CountSlots
<1>3. NextItems => QueueTypeOK'
  BY RunningAssumption DEF NextItems, Due
<1>4. \A i \in Refs : Claim(i) /\ UNCHANGED phase => QueueTypeOK'
  BY TriesAssumption DEF Claim, ClaimRow
<1>5. /\ \A i \in Refs : SkipClaimed(i) => QueueTypeOK'
      /\ DrainDone => QueueTypeOK'
      /\ \A i \in Refs : HoldElapses(i) => QueueTypeOK'
  BY DEF SkipClaimed, DrainDone, HoldElapses
<1> QED
  BY <1>1, <1>2, <1>3, <1>4, <1>5

-----------------------------------------------------------------------------
(* The cap. *)

\* A subset of the items is finite and no larger.
LEMMA Sizes ==
  ASSUME NEW S \in SUBSET Refs, NEW T \in SUBSET S
  PROVE  /\ Cardinality(S) \in Nat /\ Cardinality(T) \in Nat
         /\ Cardinality(T) <= Cardinality(S)
  BY RefsAssumption, FS_Subset, FS_CardinalityType

\* A step after which no more items run, and which does not bring the loop to
\* a claim, keeps the cap.
LEMMA Shrinks ==
  ASSUME QueueTypeOK, CapInv, Running' \subseteq Running,
         \/ UNCHANGED drainVars
         \/ phase' \notin {"next", "claim"}
  PROVE  CapInv'
<1>1. Running \subseteq Refs
  BY DEF Running
<1>2. /\ Cardinality(Running) \in Nat /\ Cardinality(Running)' \in Nat
      /\ Cardinality(Running)' <= Cardinality(Running)
  BY <1>1, Sizes
<1>3. Cardinality(batch) \in Nat
  BY Sizes DEF QueueTypeOK
<1> QED
  BY <1>2, <1>3, RunningAssumption DEF CapInv, QueueTypeOK, drainVars

\* Only a claim makes an item run.
LEMMA OnlyClaimRuns ==
  ASSUME QueueTypeOK, NEW i \in Refs
  PROVE  /\ \A p \in Nat : Enqueue(i, p) => Running' \subseteq Running
         /\ Finish(i) => Running' \subseteq Running
         /\ Fail(i) => Running' \subseteq Running
         /\ Requeue(i) => Running' \subseteq Running
         /\ \A S, then : Wake(S, then) => Running' \subseteq Running
         /\ HoldElapses(i) => Running' \subseteq Running
         /\ UNCHANGED queueVars => Running' \subseteq Running
<1> USE DEF QueueTypeOK, Running
<1>1. \A p \in Nat : Enqueue(i, p) => Running' \subseteq Running
  BY DEF Enqueue, Insert, Rearm
<1>2. /\ Finish(i) => Running' \subseteq Running
      /\ Fail(i) => Running' \subseteq Running
      /\ Requeue(i) => Running' \subseteq Running
  BY DEF Finish, Fail, Requeue, Settle
<1>3. \A S, then : Wake(S, then) => Running' \subseteq Running
  BY DEF Wake
<1>4. /\ HoldElapses(i) => Running' \subseteq Running
      /\ UNCHANGED queueVars => Running' \subseteq Running
  BY DEF HoldElapses, queueVars
<1> QED
  BY <1>1, <1>2, <1>3, <1>4

\* The steps of the loop that lead to a claim.
LEMMA LoopCap ==
  ASSUME QueueTypeOK, CapInv
  PROVE  /\ CountSlots => CapInv'
         /\ NextItems => CapInv'
         /\ \A i \in Refs : Claim(i) /\ UNCHANGED phase => CapInv'
         /\ \A i \in Refs : SkipClaimed(i) => CapInv'
         /\ DrainDone => CapInv'
<1>1. Running \subseteq Refs /\ batch \subseteq Refs /\ Due \subseteq Refs
  BY DEF Running, QueueTypeOK, Due
<1>2. Cardinality(Running) \in Nat /\ Cardinality(batch) \in Nat
  BY <1>1, Sizes
<1>3. ASSUME CountSlots PROVE CapInv'
  <2>1. Running' = Running
    BY <1>3 DEF CountSlots, queueVars, Running
  <2>2. Cardinality(Running) + FreeSlots <= MaxRunning
    BY <1>2, RunningAssumption DEF CapInv, FreeSlots
  <2> QED
    BY <1>3, <2>1, <2>2 DEF CountSlots, CapInv
<1>4. ASSUME NextItems PROVE CapInv'
  <2>1. Running' = Running
    BY <1>4 DEF NextItems, queueVars, Running
  <2>2. batch' \subseteq Due /\ Cardinality(batch') <= slots /\ phase = "next"
    BY <1>4 DEF NextItems, IsNext
  <2>3. Cardinality(batch') \in Nat
    BY <2>2, <1>1, Sizes
  <2> QED
    BY <1>2, <1>4, <2>1, <2>2, <2>3, RunningAssumption DEF NextItems, CapInv, QueueTypeOK
<1>5. ASSUME NEW i \in Refs, Claim(i), UNCHANGED phase PROVE CapInv'
  <2>1. i \in batch /\ batch' = batch \ {i} /\ phase = "claim"
    BY <1>5 DEF Claim
  <2>2. i \notin Running /\ Running' = Running \cup {i}
    BY <1>5 DEF Claim, ClaimRow, Running, QueueTypeOK
  <2>3. Cardinality(batch') = Cardinality(batch) - 1
    BY <2>1, <1>1, RefsAssumption, FS_Subset, FS_RemoveElement
  <2>4. Cardinality(Running') = Cardinality(Running) + 1
    BY <2>2, <1>1, RefsAssumption, FS_Subset, FS_AddElement
  <2>5. Cardinality(batch') \in Nat
    BY <2>1, <1>1, Sizes
  <2> QED
    BY <1>2, <1>5, <2>1, <2>3, <2>4, <2>5, RunningAssumption DEF CapInv
<1>6. ASSUME NEW i \in Refs, SkipClaimed(i) PROVE CapInv'
  <2>1. Running' = Running /\ batch' \subseteq batch /\ phase = "claim" /\ phase' = "claim"
    BY <1>6 DEF SkipClaimed, queueVars, Running
  <2>2. Cardinality(batch') \in Nat /\ Cardinality(batch') <= Cardinality(batch)
    BY <2>1, <1>1, Sizes
  <2> QED
    BY <1>2, <2>1, <2>2, RunningAssumption DEF CapInv
<1>7. ASSUME DrainDone PROVE CapInv'
  <2>1. Running' \subseteq Running /\ phase' = "rest"
    BY <1>7 DEF DrainDone, queueVars, Running
  <2> QED
    BY <2>1, Shrinks
<1> QED
  BY <1>3, <1>4, <1>5, <1>6, <1>7
-----------------------------------------------------------------------------
(* The lifecycle: what each statement does to an item's state. *)

\* An enqueue queues an item that has no row or is settled, or leaves it.
LEMMA EnqueueQueues ==
  ASSUME QueueTypeOK, NEW i \in Refs, NEW p, Enqueue(i, p) \/ EnqueueIfAbsent(i, p)
  PROVE  \/ qstate' = qstate
         \/ /\ qstate[i] \in {"none", "done", "failed"}
            /\ qstate' = [qstate EXCEPT ![i] = "queued"]
<1>1. Insert(i, p) \/ Rearm(i, p) => qstate' = qstate \/ qstate' = [qstate EXCEPT ![i] = "queued"]
  BY DEF Insert, Rearm
<1>2. Rearm(i, p) /\ qstate[i] \notin {"done", "failed"} => qstate' = qstate
  BY DEF Rearm
<1> QED
  BY <1>1, <1>2 DEF Enqueue, EnqueueIfAbsent, queueVars

\* A wake-up queues running items that no task attends to.
LEMMA WakeQueues ==
  ASSUME NEW S, NEW then, Wake(S, then), Recovers = "unattended"
  PROVE  \E R \in SUBSET (Running \ S) :
           qstate' = [i \in Refs |-> IF i \in R THEN "queued" ELSE qstate[i]]
<1>1. Stale(S) \in SUBSET (Running \ S)
  BY DEF Stale, Ages
<1> QED
  BY <1>1 DEF Wake

\* If the cap holds after a claim, there was a slot before it.
LEMMA ClaimHasSlot ==
  ASSUME QueueTypeOK, NEW i \in Refs, ClaimRow(i), RunningCap'
  PROVE  Cardinality(Running) < MaxRunning
<1>1. i \notin Running /\ Running' = Running \cup {i}
  BY DEF ClaimRow, Running, QueueTypeOK
<1>2. IsFiniteSet(Running) /\ Cardinality(Running) \in Nat
  BY RefsAssumption, FS_Subset, FS_CardinalityType DEF Running
<1>3. Cardinality(Running') = Cardinality(Running) + 1
  BY <1>1, <1>2, FS_AddElement
<1> QED
  BY <1>2, <1>3, RunningAssumption DEF RunningCap
=============================================================================
