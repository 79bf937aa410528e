--------------------------- MODULE AnalysisProofs ---------------------------
(***************************************************************************)
(* Type correctness of Analysis, its cap and its guard, for every number   *)
(* of tracks and tasks and every batch size.  The guard is inductive once  *)
(* the types are known; the cap needs CapInv of WorkQueueProofs.  That     *)
(* failed items stay failed and nothing is analysed twice needs OwnInv (an *)
(* item in hand is running) and OnceInv, as long as no item is recovered   *)
(* from under its task; so does the step by step proof that the items go   *)
(* through their Lifecycle.                                                *)
(***************************************************************************)
EXTENDS Analysis, WorkQueueProofs

Steps == {"permit", "ask", "store", "finish", "retry", "requeue", "fail", "release"}

-----------------------------------------------------------------------------
(* Types. *)

\* A live task is in one of its steps.
LEMMA LiveTask ==
  ASSUME TypeOK, NEW j \in Jobs, task[j].pc # "none"
  PROVE  task[j] \in [pc : Steps, i : Refs, flac : BOOLEAN]
  BY DEF TypeOK, TaskSet, NoTask, Steps

\* A task goes on to another of its steps and keeps its item.
LEMMA TaskGoes ==
  ASSUME TypeOK, NEW j \in Jobs, NEW pc \in Steps, task[j].pc # "none", GoTo(j, pc)
  PROVE  task' \in [Jobs -> TaskSet]
<1>1. [task[j] EXCEPT !.pc = pc] \in TaskSet
  BY LiveTask DEF TaskSet, Steps
<1> QED
  BY <1>1 DEF GoTo, TypeOK

\* The rows.
LEMMA RowStepTypes ==
  ASSUME TypeOK, NEW t \in Refs
  PROVE  /\ MarkReady(t) => TypeOK'
         /\ PushMetadata(t) => TypeOK'
         /\ CreateWork(t) => TypeOK'
         /\ Elapse(t) => TypeOK'
<1>1. ASSUME UNCHANGED <<queueVars, drainVars>> PROVE QueueTypeOK'
  BY <1>1 DEF TypeOK, QueueTypeOK, queueVars, drainVars
<1>2. MarkReady(t) => TypeOK'
  BY <1>1 DEF MarkReady, TypeOK
<1>3. PushMetadata(t) => TypeOK'
  BY <1>1 DEF PushMetadata, TypeOK
<1>4. CreateWork(t) => TypeOK'
  <2> SUFFICES ASSUME CreateWork(t) PROVE TypeOK'
    OBVIOUS
  <2>1. QueueTypeOK'
    BY RowTypes, PriosAssumption DEF CreateWork, TypeOK
  <2> QED
    BY <2>1 DEF CreateWork, TypeOK, rowVars
<1>5. Elapse(t) => TypeOK'
  <2> SUFFICES ASSUME Elapse(t) PROVE TypeOK'
    OBVIOUS
  <2>1. QueueTypeOK'
    BY LoopTypes DEF Elapse, TypeOK
  <2> QED
    BY <2>1 DEF Elapse, TypeOK, rowVars
<1> QED
  BY <1>2, <1>3, <1>4, <1>5

\* The steps that seed the queue.
LEMMA SeedTypes ==
  ASSUME TypeOK
  PROVE  /\ ReadUnanalysed => QueueTypeOK'
         /\ \A i \in Refs : Fill(i) => QueueTypeOK'
         /\ FillDone => QueueTypeOK'
<1>1. ASSUME ReadUnanalysed \/ FillDone PROVE QueueTypeOK'
  <2>1. Unanalysed \subseteq SUBSET Refs
    BY DEF Unanalysed, Open, TypeOK
  <2> QED
    BY <1>1, <2>1 DEF ReadUnanalysed, FillDone, TypeOK, QueueTypeOK, queueVars
<1>2. ASSUME NEW i \in Refs, Fill(i) PROVE QueueTypeOK'
  <2>1. Cardinality(Known) \in Nat
    BY Sizes DEF Known
  <2>2. CASE Insert(i, 0)
    BY <1>2, <2>1, <2>2 DEF Fill, Insert, TypeOK, QueueTypeOK, QStates
  <2>3. CASE UNCHANGED queueVars
    BY <1>2, <2>3 DEF Fill, TypeOK, QueueTypeOK, queueVars
  <2> QED
    BY <1>2, <2>2, <2>3 DEF Fill, EnqueueIfAbsent
<1> QED
  BY <1>1, <1>2

\* The tick.
LEMMA TickTypes ==
  ASSUME TypeOK, Tick
  PROVE  TypeOK'
<1>1. CASE Drain
  <2>1. QueueTypeOK'
    BY <1>1, LoopTypes, SeedTypes DEF Drain, TypeOK
  <2> QED
    BY <1>1, <2>1 DEF Drain, TypeOK, rowVars
<1>2. ASSUME NEW i \in Refs, ClaimTrack(i) PROVE TypeOK'
  <2>1. QueueTypeOK'
    BY <1>2, LoopTypes DEF ClaimTrack, Claim, TypeOK
  <2>2. got' \subseteq Refs /\ Cardinality(got') <= 1
    BY <1>2, FS_Singleton DEF ClaimTrack
  <2> QED
    BY <1>2, <2>1, <2>2 DEF ClaimTrack, TypeOK, rowVars
<1>3. ASSUME NEW i \in Refs, SpawnAnalysis(i) PROVE TypeOK'
  <2>1. QueueTypeOK'
    <3>1. CASE Fail(i)
      BY <1>3, <3>1, RowTypes DEF SpawnAnalysis, TypeOK
    <3>2. CASE UNCHANGED queueVars
      BY <1>3, <3>2 DEF SpawnAnalysis, TypeOK, QueueTypeOK, queueVars, drainVars
    <3> QED
      BY <1>3, <3>1, <3>2 DEF SpawnAnalysis
  <2>2. [pc |-> "permit", i |-> i, flac |-> i \in ready] \in TaskSet
    <3>1. (i \in ready) \in BOOLEAN
      OBVIOUS
    <3> QED
      BY <3>1 DEF TaskSet
  <2>3. task' \in [Jobs -> TaskSet]
    BY <1>3, <2>2 DEF SpawnAnalysis, TypeOK
  <2>4. got' \subseteq Refs /\ Cardinality(got') <= 1 /\ analyzing' \subseteq Refs
    BY <1>3, FS_EmptySet DEF SpawnAnalysis, TypeOK
  <2> QED
    BY <1>3, <2>1, <2>3, <2>4 DEF SpawnAnalysis, TypeOK, rowVars
<1> QED
  BY <1>1, <1>2, <1>3 DEF Tick

\* The tasks.
LEMMA TaskStepTypes ==
  ASSUME TypeOK, NEW j \in Jobs, Task(j)
  PROVE  TypeOK'
<1>1. ASSUME UNCHANGED <<queueVars, drainVars>> PROVE QueueTypeOK'
  BY <1>1 DEF TypeOK, QueueTypeOK, queueVars, drainVars
<1>2. ASSUME StartTask(j) \/ Answered(j) \/ NotAnswered(j) \/ ReadTries(j)
      PROVE  TypeOK'
  <2>1. task' \in [Jobs -> TaskSet]
    BY <1>2, TaskGoes DEF StartTask, Answered, NotAnswered, ReadTries, At, Steps
  <2> QED
    BY <1>1, <1>2, <2>1 DEF StartTask, Answered, NotAnswered, ReadTries, TypeOK, rowVars
<1>3. ASSUME Store(j) PROVE TypeOK'
  <2>1. task' \in [Jobs -> TaskSet]
    BY <1>3, TaskGoes DEF Store, At, Steps
  <2>2. task[j].i \in Refs
    BY <1>3, LiveTask DEF Store, At
  <2> QED
    BY <1>1, <1>3, <2>1, <2>2 DEF Store, TypeOK
<1>4. ASSUME SettleItem(j) PROVE TypeOK'
  <2>1. task' \in [Jobs -> TaskSet]
    BY <1>4, TaskGoes DEF SettleItem, At, Steps
  <2>2. task[j].i \in Refs
    BY <1>4, LiveTask DEF SettleItem, At
  <2>3. QueueTypeOK'
    BY <1>4, <2>2, RowTypes DEF SettleItem, TypeOK
  <2> QED
    BY <1>4, <2>1, <2>3 DEF SettleItem, TypeOK, rowVars
<1>5. ASSUME Release(j) PROVE TypeOK'
  <2>1. task' \in [Jobs -> TaskSet]
    BY <1>5 DEF Release, TypeOK, TaskSet
  <2> QED
    BY <1>1, <1>5, <2>1 DEF Release, TypeOK, rowVars
<1> QED
  BY <1>2, <1>3, <1>4, <1>5 DEF Task

\* Every variable of Analysis keeps its type.
THEOREM AnalysisTypeCorrect == Spec => []TypeOK
<1>1. ASSUME Init PROVE TypeOK
  <2>1. QueueTypeOK
    BY <1>1, RunningAssumption, StaleAssumption DEF Init, QueueInit, QueueTypeOK, QStates
  <2>2. task \in [Jobs -> TaskSet]
    BY <1>1 DEF Init, TaskSet
  <2>3. got \subseteq Refs /\ Cardinality(got) <= 1
    BY <1>1, FS_EmptySet DEF Init
  <2> QED
    BY <1>1, <2>1, <2>2, <2>3 DEF Init, TypeOK
<1>2. ASSUME TypeOK, [Next]_vars PROVE TypeOK'
  <2>1. CASE Tick
    BY <1>2, <2>1, TickTypes
  <2>2. CASE Unblock
    BY <1>2, <2>2 DEF Unblock, TypeOK, QueueTypeOK, queueVars, drainVars, rowVars
  <2>3. CASE Crash
    <3>1. QueueTypeOK'
      BY <1>2, <2>3, RunningAssumption DEF Crash, TypeOK, QueueTypeOK, queueVars
    <3>2. task' \in [Jobs -> TaskSet]
      BY <2>3 DEF Crash, TaskSet
    <3>3. got' \subseteq Refs /\ Cardinality(got') <= 1
      BY <2>3, FS_EmptySet DEF Crash
    <3>4. /\ ready' \subseteq Refs /\ essentia' \subseteq Refs /\ analyzing' \subseteq Refs
      BY <1>2, <2>3 DEF Crash, rowVars, TypeOK
    <3>5. blocked' \in BOOLEAN
      BY <2>3 DEF Crash
    <3>6. calls' \in Nat /\ crashes' \in Nat
      BY <1>2, <2>3 DEF Crash, TypeOK
    <3> QED
      BY <3>1, <3>2, <3>3, <3>4, <3>5, <3>6 DEF TypeOK
  <2>4. CASE \E j \in Jobs : Task(j)
    BY <1>2, <2>4, TaskStepTypes
  <2>5. CASE \E t \in Refs :
               MarkReady(t) \/ PushMetadata(t) \/ CreateWork(t) \/ Elapse(t)
    BY <1>2, <2>5, RowStepTypes
  <2>6. CASE UNCHANGED vars
    BY <1>2, <2>6 DEF TypeOK, QueueTypeOK, vars, queueVars, drainVars, rowVars
  <2> QED
    BY <1>2, <2>1, <2>2, <2>3, <2>4, <2>5, <2>6 DEF Next
<1> QED
  BY <1>1, <1>2, PTL DEF Spec

-----------------------------------------------------------------------------
(* The guard. *)

\* A step that changes neither guard nor any task's item keeps GuardExact.
LEMMA GuardFrame ==
  ASSUME TypeOK, GuardExact, UNCHANGED <<analyzing, task>>
  PROVE  GuardExact'
  BY DEF GuardExact, Attended, Live

LEMMA TaskGuard ==
  ASSUME TypeOK, GuardExact, NEW j \in Jobs, Task(j)
  PROVE  GuardExact'
<1>1. ASSUME NEW pc \in Steps, task[j].pc # "none", GoTo(j, pc), UNCHANGED analyzing
      PROVE  GuardExact'
  <2>1. task[j] \in [pc : Steps, i : Refs, flac : BOOLEAN]
    BY <1>1, LiveTask
  <2>2. /\ task' = [task EXCEPT ![j] = [task[j] EXCEPT !.pc = pc]]
        /\ task'[j].i = task[j].i /\ task'[j].pc = pc
        /\ \A k \in Jobs \ {j} : task'[k] = task[k]
    BY <1>1, <2>1 DEF GoTo, TypeOK
  <2>3. task'[j] # NoTask /\ task[j] # NoTask
    BY <1>1, <2>2 DEF NoTask, Steps
  <2>4. Live' = Live /\ \A k \in Live : task'[k].i = task[k].i
    BY <2>2, <2>3 DEF Live
  <2>5. Attended' = Attended
    BY <2>4 DEF Attended
  <2> QED
    BY <1>1, <2>4, <2>5 DEF GuardExact
<1>2. ASSUME \/ StartTask(j) \/ Answered(j) \/ NotAnswered(j) \/ Store(j)
             \/ ReadTries(j) \/ SettleItem(j)
      PROVE  GuardExact'
  BY <1>1, <1>2 DEF StartTask, Answered, NotAnswered, Store, ReadTries, SettleItem, At, Steps
<1>3. ASSUME Release(j) PROVE GuardExact'
  <2>1. j \in Live
    BY <1>3 DEF Release, At, Live, NoTask
  <2>2. Live' = Live \ {j} /\ \A k \in Live' : task'[k] = task[k]
    BY <1>3 DEF Release, Live, TypeOK
  <2>3. Attended' = Attended \ {task[j].i}
    BY <2>1, <2>2 DEF Attended, GuardExact
  <2> QED
    BY <1>3, <2>2, <2>3 DEF GuardExact, Release
<1> QED
  BY <1>2, <1>3 DEF Task

LEMMA SpawnGuard ==
  ASSUME TypeOK, GuardExact, NEW i \in Refs, SpawnAnalysis(i)
  PROVE  GuardExact'
<1>1. CASE UNCHANGED <<analyzing, task>>
  BY <1>1, GuardFrame
<1>2. ASSUME i \notin analyzing, analyzing' = analyzing \cup {i}, NEW j \in Jobs \ Live,
             task' = [task EXCEPT ![j] = [pc |-> "permit", i |-> i, flac |-> i \in ready]]
      PROVE  GuardExact'
  <2>1. task'[j] = [pc |-> "permit", i |-> i, flac |-> i \in ready]
    BY <1>2 DEF TypeOK
  <2>2. task'[j] # NoTask /\ task'[j].i = i
    BY <2>1 DEF NoTask
  <2>3. Live' = Live \cup {j} /\ \A k \in Live : task'[k] = task[k]
    BY <1>2, <2>2 DEF Live, TypeOK
  <2>4. Attended' = Attended \cup {i}
    BY <2>2, <2>3 DEF Attended
  <2> QED
    BY <1>2, <2>2, <2>3, <2>4 DEF GuardExact, Attended
<1> QED
  BY <1>1, <1>2 DEF SpawnAnalysis

\* A track is in the guard exactly while one task analyses it, however items
\* are recovered, re-enqueued and claimed again (worker.rs:1182-1188, 1231-1236).
THEOREM GuardHolds == Spec => []GuardExact
<1>1. Init => GuardExact
  BY DEF Init, GuardExact, Attended, Live
<1>2. ASSUME TypeOK, GuardExact, [Next]_vars PROVE GuardExact'
  <2>1. CASE Drain
    BY <1>2, <2>1, GuardFrame DEF Drain
  <2>2. ASSUME NEW i \in Refs, ClaimTrack(i) PROVE GuardExact'
    BY <1>2, <2>2, GuardFrame DEF ClaimTrack
  <2>3. ASSUME NEW i \in Refs, SpawnAnalysis(i) PROVE GuardExact'
    BY <1>2, <2>3, SpawnGuard
  <2>4. CASE Crash
    BY <2>4 DEF Crash, GuardExact, Attended, Live
  <2>5. CASE \E j \in Jobs : Task(j)
    BY <1>2, <2>5, TaskGuard
  <2>6. CASE \/ \E t \in Refs :
                  MarkReady(t) \/ PushMetadata(t) \/ CreateWork(t) \/ Elapse(t)
             \/ Unblock \/ UNCHANGED vars
    BY <1>2, <2>6, GuardFrame
       DEF MarkReady, PushMetadata, CreateWork, Elapse, Unblock, vars
  <2> QED
    BY <1>2, <2>1, <2>2, <2>3, <2>4, <2>5, <2>6 DEF Next, Tick
<1> QED
  BY <1>1, <1>2, AnalysisTypeCorrect, PTL DEF Spec

-----------------------------------------------------------------------------
(* The cap. *)

\* The steps of the tick.
LEMMA TickCap ==
  ASSUME TypeOK, CapInv, Tick
  PROVE  CapInv'
<1>1. QueueTypeOK
  BY DEF TypeOK
<1>2. CASE Wake(Attended, "seed")
  <2>1. Running' \subseteq Running /\ phase' = "seed"
    BY <1>1, <1>2 DEF Wake, Running, QueueTypeOK
  <2> QED
    BY <1>1, <2>1, Shrinks
<1>3. CASE ReadUnanalysed \/ FillDone
  <2>1. Running' \subseteq Running /\ phase' \notin {"next", "claim"}
    BY <1>3 DEF ReadUnanalysed, FillDone, queueVars, Running
  <2> QED
    BY <1>1, <2>1, Shrinks
<1>4. ASSUME NEW i \in Refs, Fill(i) PROVE CapInv'
  <2>1. Running' \subseteq Running
    BY <1>1, <1>4 DEF Fill, EnqueueIfAbsent, Insert, queueVars, Running, QueueTypeOK
  <2>2. phase' \notin {"next", "claim"}
    BY <1>4 DEF Fill
  <2> QED
    BY <1>1, <2>1, <2>2, Shrinks
<1>5. ASSUME NEW i \in Refs, ClaimTrack(i) PROVE CapInv'
  BY <1>1, <1>5, LoopCap DEF ClaimTrack, Claim
<1>6. ASSUME NEW i \in Refs, SpawnAnalysis(i) PROVE CapInv'
  <2>1. Running' \subseteq Running
    BY <1>1, <1>6, OnlyClaimRuns DEF SpawnAnalysis
  <2> QED
    BY <1>1, <1>6, <2>1, Shrinks DEF SpawnAnalysis
<1> QED
  BY <1>1, <1>2, <1>3, <1>4, <1>5, <1>6, LoopCap DEF Tick, Drain

\* Whoever is not the tick leaves the loop alone and makes no item run.
LEMMA OthersShrink ==
  ASSUME TypeOK,
         \/ \E t \in Refs :
              MarkReady(t) \/ PushMetadata(t) \/ CreateWork(t) \/ Elapse(t)
         \/ \E j \in Jobs : Task(j)
         \/ Unblock
         \/ UNCHANGED vars
  PROVE  Running' \subseteq Running /\ UNCHANGED drainVars
<1>1. QueueTypeOK
  BY DEF TypeOK
<1>2. UNCHANGED queueVars => Running' \subseteq Running
  BY DEF queueVars, Running
<1>3. ASSUME NEW t \in Refs, MarkReady(t) \/ PushMetadata(t)
      PROVE  Running' \subseteq Running /\ UNCHANGED drainVars
  BY <1>2, <1>3 DEF MarkReady, PushMetadata
<1>4. ASSUME NEW t \in Refs, CreateWork(t)
      PROVE  Running' \subseteq Running /\ UNCHANGED drainVars
  BY <1>1, <1>4, OnlyClaimRuns, PriosAssumption DEF CreateWork
<1>5. ASSUME NEW t \in Refs, Elapse(t)
      PROVE  Running' \subseteq Running /\ UNCHANGED drainVars
  BY <1>1, <1>5, OnlyClaimRuns DEF Elapse, HoldElapses
<1>6. ASSUME NEW j \in Jobs, SettleItem(j)
      PROVE  Running' \subseteq Running /\ UNCHANGED drainVars
  <2>1. task[j].i \in Refs
    BY <1>6, LiveTask DEF SettleItem, At
  <2> QED
    BY <1>1, <1>6, <2>1, OnlyClaimRuns DEF SettleItem
<1>7. ASSUME NEW j \in Jobs,
             \/ StartTask(j) \/ Answered(j) \/ NotAnswered(j)
             \/ Store(j) \/ ReadTries(j) \/ Release(j)
      PROVE  Running' \subseteq Running /\ UNCHANGED drainVars
  BY <1>2, <1>7 DEF StartTask, Answered, NotAnswered, Store, ReadTries, Release
<1>8. Unblock \/ UNCHANGED vars => Running' \subseteq Running /\ UNCHANGED drainVars
  BY <1>2 DEF Unblock, vars
<1> QED
  BY <1>3, <1>4, <1>5, <1>6, <1>7, <1>8 DEF Task

\* No more analyze items are running than ANALYSIS_CONCURRENCY, whatever is
\* recovered, re-enqueued or restarted (free_slots, claim).
THEOREM AnalysisCapHolds == Spec => []RunningCap
<1>1. Init => CapInv
  <2> SUFFICES ASSUME Init PROVE CapInv
    OBVIOUS
  <2>1. Running = {} /\ phase = "rest"
    BY DEF Init, QueueInit, Running
  <2> QED
    BY <2>1, FS_EmptySet, RunningAssumption DEF CapInv
<1>2. ASSUME TypeOK, CapInv, [Next]_vars PROVE CapInv'
  <2>1. QueueTypeOK
    BY <1>2 DEF TypeOK
  <2>2. CASE Tick
    BY <1>2, <2>2, TickCap
  <2>3. CASE Crash
    <3>1. Running' \subseteq Running /\ phase' = "rest"
      BY <2>3 DEF Crash, queueVars, Running
    <3> QED
      BY <1>2, <2>1, <3>1, Shrinks
  <2>4. CASE \/ \E t \in Refs :
                  MarkReady(t) \/ PushMetadata(t) \/ CreateWork(t) \/ Elapse(t)
             \/ \E j \in Jobs : Task(j)
             \/ Unblock \/ UNCHANGED vars
    BY <1>2, <2>1, <2>4, OthersShrink, Shrinks
  <2> QED
    BY <1>2, <2>2, <2>3, <2>4 DEF Next
<1>3. CapInv => RunningCap
  BY DEF CapInv, RunningCap
<1> QED
  BY <1>1, <1>2, <1>3, AnalysisTypeCorrect, PTL DEF Spec
-----------------------------------------------------------------------------
(* One worker.                                                             *)
(* While no item is recovered from under a live task, an item is running   *)
(* from the moment it is claimed until its task settles it.                *)

Working(i) == \E j \in Live : task[j].i = i /\ ~At(j, "release")

OwnInv ==
  /\ \A i \in Refs : Working(i) => qstate[i] = "running" /\ i \notin got
  /\ \A i \in got : qstate[i] = "running"

\* How far each step brings a task.
LEMMA TaskEffect ==
  ASSUME TypeOK, NEW j \in Jobs, Task(j)
  PROVE  /\ j \in Live /\ task[j].i \in Refs /\ task[j].pc \in Steps
         /\ \A k \in Jobs \ {j} : task'[k] = task[k]
         /\ got' = got /\ calls' = calls /\ crashes' = crashes
         /\ \/ Release(j) /\ task'[j] = NoTask /\ UNCHANGED <<qstate, essentia>>
            \/ /\ SettleItem(j) /\ task'[j].i = task[j].i /\ task'[j].pc = "release"
               /\ task[j].pc \in {"finish", "requeue", "fail"}
               /\ \A i \in Refs \ {task[j].i} : qstate'[i] = qstate[i]
               /\ task[j].pc = "finish" => qstate'[task[j].i] = "done"
               /\ essentia' = essentia
            \/ /\ task'[j].i = task[j].i /\ task'[j].pc \in Steps \ {"release"}
               /\ task[j].pc \notin {"finish", "release"} /\ qstate' = qstate
               /\ \/ task'[j].pc # "finish" /\ essentia' = essentia
                  \/ task'[j].pc = "finish" /\ essentia' = essentia \cup {task[j].i}
<1>1. task[j].pc # "none"
  BY DEF Task, StartTask, Answered, NotAnswered, Store, ReadTries, SettleItem, Release, At
<1>2. task[j] \in [pc : Steps, i : Refs, flac : BOOLEAN]
  BY <1>1, LiveTask
<1>3. j \in Live
  BY <1>1 DEF Live, NoTask
<1>4. \A pc : GoTo(j, pc) => /\ task'[j].i = task[j].i /\ task'[j].pc = pc
                             /\ \A k \in Jobs \ {j} : task'[k] = task[k]
  <2> SUFFICES ASSUME NEW pc, GoTo(j, pc)
               PROVE  /\ task'[j].i = task[j].i /\ task'[j].pc = pc
                      /\ \A k \in Jobs \ {j} : task'[k] = task[k]
    OBVIOUS
  <2>1. task'[j] = [task[j] EXCEPT !.pc = pc]
    BY DEF GoTo, TypeOK
  <2> QED
    BY <1>2, <2>1 DEF GoTo, TypeOK
<1>5. CASE Release(j)
  BY <1>2, <1>3, <1>5 DEF Release, TypeOK, queueVars, rowVars
<1>6. CASE SettleItem(j)
  <2>1. /\ \A i \in Refs \ {task[j].i} : qstate'[i] = qstate[i]
        /\ task[j].pc = "finish" => qstate'[task[j].i] = "done"
        /\ task[j].pc \in {"finish", "requeue", "fail"}
    BY <1>2, <1>6 DEF SettleItem, Finish, Requeue, Fail, Settle, At, TypeOK, QueueTypeOK
  <2> QED
    BY <1>2, <1>3, <1>4, <1>6, <2>1 DEF SettleItem, rowVars
<1>7. CASE StartTask(j) \/ Answered(j) \/ NotAnswered(j) \/ ReadTries(j)
  BY <1>2, <1>3, <1>4, <1>7
     DEF StartTask, Answered, NotAnswered, ReadTries, At, Steps, queueVars, rowVars
<1>8. CASE Store(j)
  BY <1>2, <1>3, <1>4, <1>8 DEF Store, At, Steps, queueVars
<1> QED
  BY <1>5, <1>6, <1>7, <1>8 DEF Task

\* A spawn: the guard keeps it away, or a task begins, or the item fails.
LEMMA SpawnEffect ==
  ASSUME TypeOK, NEW i \in Refs, SpawnAnalysis(i)
  PROVE  /\ i \in got /\ got' = {} /\ calls' = calls /\ crashes' = crashes
         /\ essentia' = essentia
         /\ \/ UNCHANGED <<qstate, task>>
            \/ /\ task' = task /\ qstate' = [qstate EXCEPT ![i] = "failed"]
            \/ /\ qstate' = qstate
               /\ \E j \in Jobs \ Live :
                    /\ Live' = Live \cup {j} /\ task'[j].i = i /\ task'[j].pc = "permit"
                    /\ \A k \in Jobs \ {j} : task'[k] = task[k]
<1>1. ASSUME NEW j \in Jobs \ Live,
             task' = [task EXCEPT ![j] = [pc |-> "permit", i |-> i, flac |-> i \in ready]]
      PROVE  /\ Live' = Live \cup {j} /\ task'[j].i = i /\ task'[j].pc = "permit"
             /\ \A k \in Jobs \ {j} : task'[k] = task[k]
  <2>1. /\ task'[j] = [pc |-> "permit", i |-> i, flac |-> i \in ready]
        /\ \A k \in Jobs \ {j} : task'[k] = task[k]
    BY <1>1 DEF TypeOK
  <2>2. task'[j].i = i /\ task'[j].pc = "permit" /\ task'[j] # NoTask
    BY <2>1 DEF NoTask
  <2> QED
    BY <2>1, <2>2 DEF Live
<1> QED
  BY <1>1 DEF SpawnAnalysis, Fail, Settle, queueVars, rowVars

\* The statements that write neither a task nor the claim in hand.
LEMMA OthersEffect ==
  ASSUME TypeOK,
         \/ Drain \/ Unblock \/ UNCHANGED vars
         \/ \E t \in Refs : MarkReady(t) \/ PushMetadata(t) \/ CreateWork(t) \/ Elapse(t)
  PROVE  /\ UNCHANGED <<task, got, crashes>>
         /\ calls' = calls => essentia' = essentia
         /\ \A i \in Refs :
              \/ qstate'[i] = qstate[i]
              \/ qstate[i] = "none"
              \/ qstate[i] \in {"done", "failed"} /\ calls' # calls
              \/ qstate[i] = "running" /\ Wake(Attended, "seed")
         /\ \/ \A i \in Refs : qstate[i] = "running" => qstate'[i] = "running"
            \/ Wake(Attended, "seed") /\ got = {} /\ calls' = calls /\ essentia' = essentia
<1>1. ASSUME NEW t \in Refs, CreateWork(t)
      PROVE  /\ UNCHANGED <<task, got, crashes>> /\ calls' # calls
             /\ \A i \in Refs :
                  \/ qstate'[i] = qstate[i]
                  \/ qstate[i] = "none"
                  \/ qstate[i] \in {"done", "failed"}
  BY <1>1 DEF CreateWork, Enqueue, Insert, Rearm, TypeOK, QueueTypeOK
<1>2. ASSUME NEW i \in Refs, Fill(i), Drain
      PROVE  /\ UNCHANGED <<task, got, crashes, essentia>>
             /\ \A k \in Refs : qstate'[k] = qstate[k] \/ qstate[k] = "none"
  BY <1>2 DEF Fill, Drain, EnqueueIfAbsent, Insert, queueVars, rowVars, TypeOK, QueueTypeOK
<1>3. ASSUME Wake(Attended, "seed"), Drain
      PROVE  /\ UNCHANGED <<task, got, crashes, calls, essentia>> /\ got = {}
             /\ \A i \in Refs : qstate'[i] = qstate[i] \/ qstate[i] = "running"
  BY <1>3 DEF Wake, Drain, Stale, Ages, Running, rowVars, TypeOK, QueueTypeOK
<1>4. ASSUME \/ Unblock \/ UNCHANGED vars
             \/ \E t \in Refs : MarkReady(t) \/ PushMetadata(t) \/ Elapse(t)
      PROVE  /\ UNCHANGED <<qstate, task, got, crashes>>
             /\ calls' = calls => essentia' = essentia
  BY <1>4 DEF Unblock, vars, MarkReady, PushMetadata, Elapse, HoldElapses, queueVars, rowVars, TypeOK
<1>5. ASSUME Drain, ~Wake(Attended, "seed"), ~ \E i \in Refs : Fill(i)
      PROVE  UNCHANGED <<qstate, task, got, crashes, essentia>>
  BY <1>5 DEF Drain, ReadUnanalysed, FillDone, CountSlots, NextItems, DrainDone, SkipClaimed,
              queueVars, rowVars
<1> QED
  BY <1>1, <1>2, <1>3, <1>4, <1>5
LEMMA OwnTask ==
  ASSUME TypeOK, GuardExact, OwnInv, NEW j \in Jobs, Task(j)
  PROVE  OwnInv'
<1> DEFINE t == task[j].i
<1>1. j \in Live /\ t \in Refs /\ got' = got /\ \A k \in Jobs \ {j} : task'[k] = task[k]
  BY TaskEffect
<1>2. ASSUME NEW i \in Refs, Working(i)' PROVE Working(i) /\ qstate'[i] = qstate[i]
  <2>1. PICK k \in Live' : task'[k].i = i /\ task'[k].pc # "release"
    BY <1>2 DEF Working, At
  <2>2. CASE k = j
    BY <1>1, <2>1, <2>2, TaskEffect DEF Working, At, Live
  <2>3. CASE k # j
    <3>1. k \in Live /\ task[k].i = i /\ task[k].pc # "release"
      BY <1>1, <2>1, <2>3 DEF Live
    <3>2. i # t
      BY <1>1, <2>3, <3>1 DEF GuardExact
    <3> QED
      BY <3>1, <3>2, TaskEffect DEF Working, At
  <2> QED
    BY <2>2, <2>3
<1>3. ASSUME NEW i \in got PROVE qstate'[i] = qstate[i]
  <2>1. i \in Refs /\ ~Working(i)
    BY DEF OwnInv, TypeOK
  <2>2. i = t => task[j].pc = "release"
    BY <1>1, <2>1 DEF Working, At
  <2> QED
    BY <1>1, <2>1, <2>2, TaskEffect
<1> QED
  BY <1>1, <1>2, <1>3 DEF OwnInv

LEMMA OwnClaim ==
  ASSUME TypeOK, OwnInv, NEW i \in Refs, ClaimTrack(i)
  PROVE  OwnInv'
<1>1. /\ task' = task /\ got' = {i} /\ qstate[i] = "queued"
      /\ qstate'[i] = "running" /\ \A k \in Refs \ {i} : qstate'[k] = qstate[k]
  BY DEF ClaimTrack, Claim, ClaimRow, TypeOK, QueueTypeOK
<1>2. \A k \in Refs : Working(k)' <=> Working(k)
  BY <1>1 DEF Working, Live, At
<1> QED
  BY <1>1, <1>2 DEF OwnInv

LEMMA OwnSpawn ==
  ASSUME TypeOK, OwnInv, NEW i \in Refs, SpawnAnalysis(i)
  PROVE  OwnInv'
<1>1. i \in got /\ got' = {} /\ qstate[i] = "running" /\ ~Working(i)
  BY SpawnEffect DEF OwnInv
<1>2. CASE task' = task /\ \A k \in Refs \ {i} : qstate'[k] = qstate[k]
  <2>1. \A k \in Refs : Working(k)' <=> Working(k)
    BY <1>2 DEF Working, Live, At
  <2> QED
    BY <1>1, <1>2, <2>1 DEF OwnInv
<1>3. CASE /\ qstate' = qstate
           /\ \E j \in Jobs \ Live :
                /\ Live' = Live \cup {j} /\ task'[j].i = i
                /\ \A k \in Jobs \ {j} : task'[k] = task[k]
  <2>1. \A k \in Refs \ {i} : Working(k)' <=> Working(k)
    BY <1>3 DEF Working, Live, At
  <2> QED
    BY <1>1, <1>3, <2>1 DEF OwnInv
<1> QED
  BY <1>2, <1>3, SpawnEffect DEF TypeOK, QueueTypeOK

LEMMA OwnNext ==
  ASSUME TypeOK, GuardExact, OwnInv, Recovers = "unattended", [Next]_vars
  PROVE  OwnInv'
<1>1. ASSUME NEW j \in Jobs, Task(j) PROVE OwnInv'
  BY <1>1, OwnTask
<1>2. ASSUME NEW i \in Refs, ClaimTrack(i) PROVE OwnInv'
  BY <1>2, OwnClaim
<1>3. ASSUME NEW i \in Refs, SpawnAnalysis(i) PROVE OwnInv'
  BY <1>3, OwnSpawn
<1>4. CASE Crash
  BY <1>4 DEF Crash, OwnInv, Working, Live
<1>5. CASE \/ Drain \/ Unblock \/ UNCHANGED vars
           \/ \E t \in Refs : MarkReady(t) \/ PushMetadata(t) \/ CreateWork(t) \/ Elapse(t)
  <2>1. UNCHANGED <<task, got>>
    BY <1>5, OthersEffect
  <2>2. \A i \in Refs : Working(i)' <=> Working(i)
    BY <2>1 DEF Working, Live, At
  <2>3. CASE \A i \in Refs : qstate[i] = "running" => qstate'[i] = "running"
    BY <2>1, <2>2, <2>3 DEF OwnInv, TypeOK
  <2>4. CASE Wake(Attended, "seed") /\ got = {}
    <3>1. \A i \in Refs : Working(i) => i \in Attended
      BY DEF Working, Attended
    <3>2. \A i \in Refs : Working(i) => qstate'[i] = qstate[i]
      BY <2>4, <3>1 DEF Wake, Stale, Ages
    <3> QED
      BY <2>1, <2>2, <2>4, <3>2 DEF OwnInv
  <2> QED
    BY <1>5, <2>3, <2>4, OthersEffect
<1> QED
  BY <1>1, <1>2, <1>3, <1>4, <1>5 DEF Next, Tick

LEMMA OwnInit == Init => OwnInv
  BY DEF Init, OwnInv, Working, Live

LEMMA OwnHolds == ASSUME Recovers = "unattended" PROVE Spec => []OwnInv
<1>1. TypeOK /\ GuardExact /\ OwnInv /\ [Next]_vars => OwnInv'
  BY OwnNext
<1> QED
  BY <1>1, OwnInit, AnalysisTypeCorrect, GuardHolds, PTL DEF Spec

\* Nobody but POST /work revives a failed item (worker.rs:1143): whoever writes
\* the state of an item has it, running.
THEOREM FailedStays == ASSUME Recovers = "unattended" PROVE Spec => FailedKept
<1>1. ASSUME TypeOK, OwnInv, [Next]_vars, NEW i \in Refs,
             qstate[i] = "failed", qstate'[i] # "failed"
      PROVE  calls' # calls
  <2>1. ASSUME NEW j \in Jobs, Task(j) PROVE FALSE
    <3>1. task[j].i = i => qstate[i] = "running" \/ task[j].pc = "release"
      BY <1>1, <2>1, TaskEffect DEF OwnInv, Working, At
    <3> QED
      BY <1>1, <2>1, <3>1, TaskEffect
  <2>2. ASSUME NEW k \in Refs, ClaimTrack(k) PROVE FALSE
    BY <1>1, <2>2 DEF ClaimTrack, Claim, ClaimRow, TypeOK, QueueTypeOK
  <2>3. ASSUME NEW k \in Refs, SpawnAnalysis(k) PROVE FALSE
    BY <1>1, <2>3, SpawnEffect DEF TypeOK, QueueTypeOK
  <2>4. ~Crash
    BY <1>1 DEF Crash, queueVars
  <2> QED
    BY <1>1, <2>1, <2>2, <2>3, <2>4, OthersEffect DEF Next, Tick
<1>2. TypeOK /\ OwnInv /\ [Next]_vars =>
        [\A i \in Refs : qstate[i] = "failed" /\ qstate'[i] # "failed" => calls' # calls]_vars
  BY <1>1
<1> QED
  BY <1>2, AnalysisTypeCorrect, OwnHolds, PTL DEF Spec, FailedKept

-----------------------------------------------------------------------------
(* Once only.                                                              *)
(* Until a crash or a call, a track with an essentia row has an item that  *)
(* is done, or that the task which wrote the row is about to finish.       *)

OnceInv ==
  crashes + calls = 0 =>
    \A i \in essentia :
      /\ i \notin got
      /\ \A j \in Live : task[j].i = i => task[j].pc \in {"finish", "release"}
      /\ qstate[i] = "done" \/ (qstate[i] = "running" /\ Working(i))

LEMMA OnceTask ==
  ASSUME TypeOK, GuardExact, OwnInv, OnceInv, NEW j \in Jobs, Task(j)
  PROVE  OnceInv'
<1> SUFFICES ASSUME crashes + calls = 0, NEW i \in essentia'
             PROVE  /\ i \notin got
                    /\ \A k \in Live' : task'[k].i = i => task'[k].pc \in {"finish", "release"}
                    /\ qstate'[i] = "done" \/ (qstate'[i] = "running" /\ Working(i)')
  BY TaskEffect DEF OnceInv
<1> DEFINE t == task[j].i
<1>1. j \in Live /\ t \in Refs /\ \A k \in Jobs \ {j} : task'[k] = task[k]
  BY TaskEffect
<1>2. \A k \in Live : task[k].i = t => k = j
  BY <1>1 DEF GuardExact
<1>3. CASE i # t
  <2>1. i \in essentia /\ i \in Refs /\ qstate'[i] = qstate[i]
    BY <1>3, TaskEffect DEF TypeOK
  <2>2. \A k \in Live' : task'[k].i = i => k \in Live /\ task'[k] = task[k]
    BY <1>1, <1>3, TaskEffect DEF Live
  <2>3. Working(i) => Working(i)'
    BY <1>1, <1>3 DEF Working, At, Live
  <2> QED
    BY <2>1, <2>2, <2>3 DEF OnceInv
<1>4. CASE i = t /\ i \in essentia
  <2>1. task[j].pc \in {"finish", "release"} /\ i \notin got
    BY <1>1, <1>4 DEF OnceInv
  <2>2. CASE Release(j)
    <3>1. qstate'[i] = qstate[i] /\ task'[j] = NoTask
      BY <2>2, TaskEffect DEF SettleItem, Release, At, Steps, NoTask
    <3>2. ~Working(i)
      BY <1>2, <1>4, <2>2 DEF Release, Working, At
    <3>3. \A k \in Live' : task'[k].i # i
      BY <1>1, <1>2, <1>4, <3>1 DEF Live
    <3> QED
      BY <1>4, <2>1, <3>1, <3>2, <3>3 DEF OnceInv
  <2>3. CASE ~Release(j)
    <3>1. task'[j].pc = "release" /\ qstate'[i] = "done"
      BY <1>4, <2>1, <2>3, TaskEffect DEF SettleItem, At
    <3>2. \A k \in Live' : task'[k].i = i => k = j
      BY <1>1, <1>2, <1>4, TaskEffect DEF Live
    <3> QED
      BY <2>1, <3>1, <3>2
  <2> QED
    BY <2>2, <2>3
<1>5. CASE i = t /\ i \notin essentia
  <2>1. /\ task'[j].pc = "finish" /\ task'[j].i = i /\ qstate' = qstate
        /\ task[j].pc \notin {"finish", "release"}
    BY <1>5, TaskEffect
  <2>2. qstate[i] = "running" /\ i \notin got
    BY <1>1, <1>5, <2>1 DEF OwnInv, Working, At
  <2>3. \A k \in Live' : task'[k].i = i => k = j
    BY <1>1, <1>2, <1>5 DEF Live
  <2>4. Working(i)'
    BY <2>1 DEF Working, At, Live, NoTask
  <2> QED
    BY <2>1, <2>2, <2>3, <2>4
<1> QED
  BY <1>3, <1>4, <1>5

LEMMA OnceNext ==
  ASSUME TypeOK, GuardExact, OwnInv, OnceInv, Recovers = "unattended", [Next]_vars
  PROVE  OnceInv'
<1>0. crashes \in Nat /\ calls \in Nat
  BY DEF TypeOK
<1>1. ASSUME NEW j \in Jobs, Task(j) PROVE OnceInv'
  BY <1>1, OnceTask
<1>2. ASSUME NEW i \in Refs, ClaimTrack(i) PROVE OnceInv'
  <2>1. /\ UNCHANGED <<task, essentia, calls, crashes>> /\ got' = {i} /\ qstate[i] = "queued"
        /\ \A k \in Refs \ {i} : qstate'[k] = qstate[k]
    BY <1>2 DEF ClaimTrack, Claim, ClaimRow, rowVars, TypeOK, QueueTypeOK
  <2>2. \A k \in Refs : Working(k)' <=> Working(k)
    BY <2>1 DEF Working, Live, At
  <2> QED
    BY <2>1, <2>2 DEF OnceInv, Live, TypeOK
<1>3. ASSUME NEW i \in Refs, SpawnAnalysis(i) PROVE OnceInv'
  <2>1. /\ i \in got /\ got' = {} /\ calls' = calls /\ crashes' = crashes /\ essentia' = essentia
    BY <1>3, SpawnEffect
  <2>2. CASE task' = task /\ \A k \in Refs \ {i} : qstate'[k] = qstate[k]
    <3>1. \A k \in Refs : Working(k)' <=> Working(k)
      BY <2>2 DEF Working, Live, At
    <3> QED
      BY <2>1, <2>2, <3>1 DEF OnceInv, Live, TypeOK
  <2>3. CASE /\ qstate' = qstate
             /\ \E j \in Jobs \ Live :
                  /\ Live' = Live \cup {j} /\ task'[j].i = i
                  /\ \A k \in Jobs \ {j} : task'[k] = task[k]
    <3>1. \A k \in Refs \ {i} : Working(k)' <=> Working(k)
      BY <2>3 DEF Working, Live, At
    <3>2. crashes + calls = 0 => i \notin essentia
      BY <2>1 DEF OnceInv
    <3> QED
      BY <2>1, <2>3, <3>1, <3>2 DEF OnceInv, Live, TypeOK
  <2> QED
    BY <1>3, <2>2, <2>3, SpawnEffect DEF TypeOK, QueueTypeOK
<1>4. CASE Crash
  BY <1>0, <1>4 DEF Crash, OnceInv
<1>5. CASE \/ Drain \/ Unblock \/ UNCHANGED vars
           \/ \E t \in Refs : MarkReady(t) \/ PushMetadata(t) \/ CreateWork(t) \/ Elapse(t)
  <2> SUFFICES ASSUME (crashes + calls = 0)' PROVE OnceInv'
    BY DEF OnceInv
  <2>1. /\ UNCHANGED <<task, got, crashes>>
        /\ calls' = calls => essentia' = essentia
    BY <1>5, OthersEffect
  <2>2. calls' = calls
    BY <1>0, <1>5, <2>1 DEF Drain, Unblock, vars, MarkReady, PushMetadata, CreateWork, Elapse
  <2>3. \A k \in Refs : Working(k)' <=> Working(k)
    BY <2>1 DEF Working, Live, At
  <2>4. ASSUME NEW i \in essentia PROVE qstate'[i] = qstate[i]
    <3>1. i \in Refs /\ (qstate[i] = "done" \/ (qstate[i] = "running" /\ i \in Attended))
      BY <2>1, <2>2 DEF OnceInv, TypeOK, Working, Attended
    <3>2. Wake(Attended, "seed") /\ i \in Attended => qstate'[i] = qstate[i]
      BY <3>1 DEF Wake, Stale, Ages
    <3> QED
      BY <1>5, <2>2, <3>1, <3>2, OthersEffect
  <2> QED
    BY <2>1, <2>2, <2>3, <2>4 DEF OnceInv, Live, TypeOK
<1> QED
  BY <1>1, <1>2, <1>3, <1>4, <1>5 DEF Next, Tick

\* Until a crash, a POST /work or a POST /metadata, no track is analysed that
\* has an essentia row (db.rs:1013-1014), for every number of tracks, tasks and
\* slots and every batch.
THEOREM AnalysedOnceOnly == ASSUME Recovers = "unattended" PROVE Spec => AnalysedOnce
<1>1. Init => OnceInv
  BY DEF Init, OnceInv
<1>2. TypeOK /\ GuardExact /\ OwnInv /\ OnceInv /\ [Next]_vars => OnceInv'
  BY OnceNext
<1>3. TypeOK /\ OnceInv =>
        [\A j \in Jobs : At(j, "permit") /\ task'[j].pc = "ask"
                           => task[j].i \notin essentia \/ crashes + calls > 0]_vars
  <2> SUFFICES ASSUME TypeOK, OnceInv, NEW j \in Jobs, At(j, "permit"), task[j].i \in essentia
               PROVE  crashes + calls > 0
    OBVIOUS
  <2>1. j \in Live /\ task[j].pc = "permit"
    BY DEF At, Live, NoTask
  <2>2. crashes + calls # 0
    BY <2>1 DEF OnceInv
  <2> QED
    BY <2>2 DEF TypeOK
<1> QED
  BY <1>1, <1>2, <1>3, AnalysisTypeCorrect, GuardHolds, OwnHolds, PTL DEF Spec, AnalysedOnce
-----------------------------------------------------------------------------
(* The lifecycle.                                                          *)
(* The tick and the tasks that have not settled yet hold running items     *)
(* (OwnInv), a task alone (GuardExact), and no more than the cap.          *)

LEMMA LifeNames ==
  /\ Life!InState("running") = Running
  /\ Life!Cardinality(Running) = Cardinality(Running)
  BY DEF Life!InState, Running, Life!Cardinality, Cardinality

\* Whose items are in hand.
LEMMA Hands ==
  /\ \A i : i \in InHand <=> i \in got \/ Working(i)
  /\ \A i : i \in InHand' <=> i \in got' \/ Working(i)'
  /\ UNCHANGED <<task, got>> => InHand' = InHand
  BY DEF InHand, Working, Live, At

LEMMA LifeClaim ==
  ASSUME TypeOK, OwnInv, RunningCap', NEW i \in Refs, ClaimTrack(i)
  PROVE  Life!Take(i)
<1>1. /\ qstate[i] = "queued" /\ qstate' = [qstate EXCEPT ![i] = "running"]
      /\ task' = task /\ got = {} /\ got' = {i}
  BY DEF ClaimTrack, Claim, ClaimRow
<1>2. i \notin InHand
  BY <1>1, Hands DEF OwnInv
<1>3. InHand' = InHand \cup {i}
  BY <1>1 DEF InHand, Live, At
<1>4. Cardinality(Running) < MaxRunning
  BY ClaimHasSlot DEF ClaimTrack, Claim, TypeOK
<1> QED
  BY <1>1, <1>2, <1>3, <1>4, LifeNames DEF Life!Take, Life!Becomes

\* A spawn hands the item on, fails it, or leaves it to its recovery.
LEMMA LifeSpawn ==
  ASSUME TypeOK, OwnInv, NEW i \in Refs, SpawnAnalysis(i)
  PROVE  Life!Next \/ UNCHANGED <<qstate, InHand>>
<1>1. got = {i} /\ got' = {} /\ qstate[i] = "running" /\ ~Working(i)
  <2>1. i \in got /\ got' = {}
    BY SpawnEffect
  <2>2. IsFiniteSet(got) /\ Cardinality(got) <= 1 /\ Cardinality(got) \in Nat
    BY RefsAssumption, FS_Subset, FS_CardinalityType DEF TypeOK
  <2>3. Cardinality(got) = 1
    BY <2>1, <2>2, FS_EmptySet
  <2>4. got = {i}
    BY <2>1, <2>2, <2>3, FS_Singleton
  <2> QED
    BY <2>1, <2>4 DEF OwnInv
<1>2. CASE task' = task
  <2>1. InHand' = InHand \ {i}
    <3>1. \A k : Working(k)' <=> Working(k)
      BY <1>2 DEF Working, Live, At
    <3> QED
      BY <1>1, <3>1, Hands
  <2>2. CASE qstate' = qstate
    BY <2>1, <2>2 DEF Life!Next, Life!Lose
  <2>3. CASE qstate' = [qstate EXCEPT ![i] = "failed"]
    BY <1>1, <2>1, <2>3, Hands DEF Life!Next, Life!Settle, Life!Becomes
  <2> QED
    BY <1>2, <2>2, <2>3, SpawnEffect
<1>3. ASSUME NEW j \in Jobs \ Live, qstate' = qstate,
             Live' = Live \cup {j}, task'[j].i = i, task'[j].pc = "permit",
             \A k \in Jobs \ {j} : task'[k] = task[k]
      PROVE  UNCHANGED <<qstate, InHand>>
  <2>1. \A k : Working(k)' <=> Working(k) \/ k = i
    BY <1>3 DEF Working, At, Live
  <2> QED
    BY <1>1, <1>3, <2>1, Hands
<1> QED
  BY <1>2, <1>3, SpawnEffect

LEMMA LifeTask ==
  ASSUME TypeOK, GuardExact, OwnInv, NEW j \in Jobs, Task(j)
  PROVE  \/ UNCHANGED <<qstate, InHand>>
         \/ Life!Settle(task[j].i)
<1> DEFINE t == task[j].i
<1>1. /\ j \in Live /\ t \in Refs /\ got' = got
      /\ \A k \in Jobs \ {j} : task'[k] = task[k]
  BY TaskEffect
<1>2. CASE SettleItem(j)
  <2>1. /\ task'[j].i = t /\ task'[j].pc = "release" /\ task[j].pc # "release"
    <3>1. task[j] \in [pc : Steps, i : Refs, flac : BOOLEAN]
      BY <1>1, LiveTask DEF Live, NoTask, TypeOK, TaskSet
    <3>2. task'[j] = [task[j] EXCEPT !.pc = "release"]
      BY <1>2 DEF SettleItem, GoTo, TypeOK
    <3> QED
      BY <1>2, <3>1, <3>2 DEF SettleItem, At
  <2>2. Working(t) /\ qstate[t] = "running" /\ t \notin got
    BY <1>1, <2>1 DEF OwnInv, Working, At
  <2>3. \A k \in Live \ {j} : task[k].i # t
    BY <1>1 DEF GuardExact
  <2>4. \A i : Working(i)' <=> Working(i) /\ i # t
    BY <1>1, <2>1, <2>3, TaskEffect DEF Working, At, Live, NoTask
  <2>5. t \in InHand /\ InHand' = InHand \ {t}
    BY <1>1, <2>2, <2>4, Hands
  <2>6. \E s \in {"queued", "done", "failed"} : qstate' = [qstate EXCEPT ![t] = s]
    BY <1>2 DEF SettleItem, Finish, Requeue, Fail, Settle
  <2> QED
    BY <1>1, <2>2, <2>5, <2>6 DEF Life!Settle, Life!Becomes
<1>3. CASE ~SettleItem(j)
  <2>1. \/ Release(j) /\ task'[j] = NoTask /\ qstate' = qstate
        \/ /\ task'[j].i = t /\ task'[j].pc \in Steps \ {"release"}
           /\ task[j].pc # "release" /\ qstate' = qstate
    BY <1>3, TaskEffect
  <2>2. \A i : Working(i)' <=> Working(i)
    BY <1>1, <2>1 DEF Working, At, Live, NoTask, Release, Steps
  <2> QED
    BY <1>1, <2>1, <2>2, Hands
<1> QED
  BY <1>2, <1>3

LEMMA LifeOthers ==
  ASSUME TypeOK, OwnInv, Recovers = "unattended",
         \/ Drain \/ Crash \/ Unblock \/ UNCHANGED vars
         \/ \E t \in Refs : MarkReady(t) \/ PushMetadata(t) \/ CreateWork(t) \/ Elapse(t)
  PROVE  Life!Next \/ UNCHANGED <<qstate, InHand>>
<1>1. CASE Drain /\ Wake(Attended, "seed")
  <2>1. PICK R \in SUBSET (Running \ Attended) :
          qstate' = [i \in Refs |-> IF i \in R THEN "queued" ELSE qstate[i]]
    BY <1>1, WakeQueues
  <2>2. InHand' = InHand /\ InHand \subseteq Attended
    BY <1>1 DEF Drain, InHand, Attended, Live, At
  <2> QED
    BY <2>1, <2>2, LifeNames DEF Life!Next, Life!Recover
<1>2. ASSUME NEW t \in Refs, CreateWork(t) \/ (Drain /\ Fill(t))
      PROVE  Life!Next \/ UNCHANGED <<qstate, InHand>>
  <2>1. InHand' = InHand
    BY <1>2, Hands DEF CreateWork, Drain
  <2>2. \/ qstate' = qstate
        \/ /\ qstate[t] \in {"none", "done", "failed"}
           /\ qstate' = [qstate EXCEPT ![t] = "queued"]
    BY <1>2, EnqueueQueues DEF CreateWork, Fill, TypeOK
  <2> QED
    BY <2>1, <2>2 DEF Life!Next, Life!Ask, Life!Becomes
<1>3. CASE Crash
  <2>1. InHand' = {} /\ qstate' = qstate
    BY <1>3 DEF Crash, InHand, Live, queueVars
  <2> QED
    BY <2>1 DEF Life!Next, Life!Lose
<1>4. CASE Drain /\ ~Wake(Attended, "seed") /\ ~ \E i \in Refs : Fill(i)
  <2>1. UNCHANGED <<qstate, task, got>>
    BY <1>4 DEF Drain, ReadUnanalysed, FillDone, CountSlots, NextItems, DrainDone, SkipClaimed,
                queueVars
  <2> QED
    BY <2>1, Hands
<1>5. CASE \/ Unblock \/ UNCHANGED vars
           \/ \E t \in Refs : MarkReady(t) \/ PushMetadata(t) \/ Elapse(t)
  <2>1. UNCHANGED <<qstate, task, got>>
    BY <1>5 DEF Unblock, vars, MarkReady, PushMetadata, Elapse, HoldElapses, queueVars
  <2> QED
    BY <2>1, Hands
<1> QED
  BY <1>1, <1>2, <1>3, <1>4, <1>5

\* Analyze items go through their lifecycle (work.rs:22-27), the ones that the
\* guard turns away at the spawn included: they stay running, in nobody's hands,
\* until they are recovered.
THEOREM AnalysisLives == ASSUME Recovers = "unattended" PROVE Spec => LifeSpec
<1>1. Init => Life!Init
  BY DEF Init, QueueInit, InHand, Live, Life!Init
<1>2. TypeOK /\ GuardExact /\ OwnInv /\ RunningCap' /\ [Next]_vars
        => [Life!Next]_<<qstate, InHand>>
  <2> SUFFICES ASSUME TypeOK, GuardExact, OwnInv, RunningCap', [Next]_vars
               PROVE  Life!Next \/ UNCHANGED <<qstate, InHand>>
    OBVIOUS
  <2>1. ASSUME NEW i \in Refs, ClaimTrack(i) PROVE Life!Next
    BY <2>1, LifeClaim DEF Life!Next
  <2>2. ASSUME NEW i \in Refs, SpawnAnalysis(i)
        PROVE  Life!Next \/ UNCHANGED <<qstate, InHand>>
    BY <2>2, LifeSpawn
  <2>3. ASSUME NEW j \in Jobs, Task(j) PROVE Life!Next \/ UNCHANGED <<qstate, InHand>>
    BY <2>3, LifeTask, TaskEffect DEF Life!Next
  <2> QED
    BY <2>1, <2>2, <2>3, LifeOthers DEF Next, Tick
<1> QED
  BY <1>1, <1>2, AnalysisTypeCorrect, GuardHolds, OwnHolds, AnalysisCapHolds, PTL
     DEF Spec, LifeSpec, Life!Spec
=============================================================================
