-------------------------- MODULE TranscodeProofs --------------------------
(***************************************************************************)
(* Type correctness of Transcode, its cap, its files and its tries, for    *)
(* every number of tracks, tasks and slots.  The cap needs CapInv of       *)
(* WorkQueueProofs.  The files and the tries need that an item has one     *)
(* worker (OwnInv), which is so as long as no item is recovered from under *)
(* its task; FilesInv and TriesInv are inductive with it, and with it each *)
(* step is a step of Lifecycle.                                            *)
(***************************************************************************)
EXTENDS Transcode, WorkQueueProofs

LiveTasks ==
  [pc : {"permit", "encode", "publish", "finish", "retry", "requeue", "fail"},
   i : Refs, todo : SUBSET {"320", "128"}, made : SUBSET {"320", "128"}]

-----------------------------------------------------------------------------
(* Types. *)

\* A live task is in one of its steps.
LEMMA LiveTask ==
  ASSUME TypeOK, NEW j \in Jobs, task[j].pc # "none"
  PROVE  /\ task[j].i \in Refs
         /\ task[j].todo \in SUBSET {"320", "128"}
         /\ task[j].made \in SUBSET {"320", "128"}
         /\ task[j] \in LiveTasks
  BY DEF TypeOK, TaskSet, NoTask, LiveTasks

\* A task goes on to another of its steps, or ends.
LEMMA TaskTypes ==
  ASSUME TypeOK, NEW j \in Jobs
  PROVE  /\ \A pc \in {"finish", "retry", "requeue", "fail"} :
              task[j].pc # "none" /\ GoTo(j, pc) => task' \in [Jobs -> TaskSet]
         /\ Gone(j) => task' \in [Jobs -> TaskSet]
<1>1. ASSUME NEW pc \in {"finish", "retry", "requeue", "fail"}, task[j].pc # "none", GoTo(j, pc)
      PROVE  task' \in [Jobs -> TaskSet]
  <2>1. [task[j] EXCEPT !.pc = pc] \in TaskSet
    BY <1>1, LiveTask DEF TaskSet, LiveTasks
  <2> QED
    BY <1>1, <2>1 DEF GoTo, TypeOK
<1>2. Gone(j) => task' \in [Jobs -> TaskSet]
  BY DEF Gone, TypeOK, TaskSet
<1> QED
  BY <1>1, <1>2

\* The collectors.
LEMMA CopyShape ==
  ASSUME TypeOK, NEW c \in Collectors, collect[c].pc # "free"
  PROVE  /\ collect[c].pc \in {"copy", "enqueue"} /\ collect[c].t \in Refs
         /\ collect[c].src \in {"flac", "320", "128"} /\ collect[c].ingest \in BOOLEAN
         /\ collect[c] \in [pc : {"copy", "enqueue"}, t : Refs, src : {"flac", "320", "128"},
                           ingest : BOOLEAN]
  BY DEF TypeOK, FileSet, Free

LEMMA FileTypes ==
  ASSUME TypeOK, SourcesAssumption, NEW c \in Collectors
  PROVE  /\ \A t \in Refs, src \in Sources, ingest \in BOOLEAN :
              StartCopy(c, t, src, ingest) => TypeOK'
         /\ MarkReady(c) \/ IngestFile(c) \/ CopyFails(c) => TypeOK'
<1>1. ASSUME NEW t \in Refs, NEW src \in Sources, NEW ingest \in BOOLEAN,
             StartCopy(c, t, src, ingest)
      PROVE  TypeOK'
  <2>1. QueueTypeOK'
    BY <1>1 DEF StartCopy, TypeOK, QueueTypeOK, queueVars, drainVars
  <2>2. [pc |-> "copy", t |-> t, src |-> src, ingest |-> ingest] \in FileSet
    BY SourcesAssumption DEF FileSet
  <2>3. collect' \in [Collectors -> FileSet]
    BY <1>1, <2>2 DEF StartCopy, TypeOK
  <2>4. whole' \in [Refs -> SUBSET {"flac", "320", "128"}]
    BY <1>1 DEF StartCopy, TypeOK
  <2>5. files' \in Nat
    BY <1>1 DEF StartCopy, TypeOK
  <2>6. twice' \subseteq Refs
    BY <1>1 DEF StartCopy, TypeOK
  <2> QED
    BY <1>1, <2>1, <2>3, <2>4, <2>5, <2>6 DEF StartCopy, TypeOK
<1>2. ASSUME MarkReady(c) \/ IngestFile(c) PROVE TypeOK'
  <2>0. collect[c].pc = "copy"
    BY <1>2 DEF MarkReady, IngestFile, CopyEnds
  <2>1. QueueTypeOK'
    BY <1>2 DEF MarkReady, IngestFile, TypeOK, QueueTypeOK, queueVars, drainVars
  <2>2. Free \in FileSet /\ [collect[c] EXCEPT !.pc = "enqueue"] \in FileSet
    BY <2>0, CopyShape DEF FileSet
  <2>3. collect' \in [Collectors -> FileSet]
    BY <1>2, <2>2 DEF MarkReady, IngestFile, TypeOK
  <2>4. PICK ok \in BOOLEAN :
          whole' = [whole EXCEPT ![collect[c].t] = IF ok THEN @ \cup {collect[c].src} ELSE @]
    BY <1>2 DEF MarkReady, IngestFile, CopyEnds
  <2>5. whole' \in [Refs -> SUBSET {"flac", "320", "128"}]
    BY <2>0, <2>4, CopyShape DEF TypeOK
  <2>6. formats' \in [Refs -> SUBSET {"flac", "320", "128"}]
    BY <1>2, <2>0, CopyShape DEF MarkReady, IngestFile, TypeOK
  <2>7. forgot' \subseteq Refs
    BY <1>2, <2>0, CopyShape DEF MarkReady, IngestFile, TypeOK
  <2> QED
    BY <1>2, <2>1, <2>3, <2>5, <2>6, <2>7 DEF MarkReady, IngestFile, TypeOK
<1>3. ASSUME CopyFails(c) PROVE TypeOK'
  BY <1>3 DEF CopyFails, TypeOK, FileSet, QueueTypeOK, queueVars, drainVars, trackVars
<1> QED
  BY <1>1, <1>2, <1>3

LEMMA CallTypes ==
  ASSUME TypeOK
  PROVE  /\ \A c \in Collectors : EnqueueTranscode(c) => TypeOK'
         /\ \A t \in Refs : CreateWork(t) => TypeOK'
<1>1. ASSUME NEW c \in Collectors, EnqueueTranscode(c) PROVE TypeOK'
  <2>1. collect[c].t \in Refs
    BY <1>1, CopyShape DEF EnqueueTranscode
  <2>2. QueueTypeOK'
    BY <1>1, <2>1, RowTypes, PriosAssumption DEF EnqueueTranscode, TypeOK
  <2>3. collect' \in [Collectors -> FileSet] /\ forgot' \subseteq Refs
    BY <1>1, <2>1 DEF EnqueueTranscode, TypeOK, FileSet
  <2> QED
    BY <1>1, <2>2, <2>3 DEF EnqueueTranscode, TypeOK
<1>2. ASSUME NEW t \in Refs, CreateWork(t) PROVE TypeOK'
  <2>1. QueueTypeOK'
    BY <1>2, RowTypes, PriosAssumption DEF CreateWork, TypeOK
  <2> QED
    BY <1>2, <2>1 DEF CreateWork, TypeOK, trackVars, bringVars
<1> QED
  BY <1>1, <1>2

\* The tick.
LEMMA TickTypes ==
  ASSUME TypeOK, Tick
  PROVE  TypeOK'
<1>1. CASE Drain
  <2>1. QueueTypeOK'
    BY <1>1, LoopTypes DEF Drain, TypeOK
  <2> QED
    BY <1>1, <2>1 DEF Drain, TypeOK, trackVars, bringVars
<1>2. ASSUME NEW i \in Refs, ClaimAndSpawn(i) PROVE TypeOK'
  <2>1. QueueTypeOK'
    BY <1>2, LoopTypes DEF ClaimAndSpawn, Claim, TypeOK
  <2>2. [pc |-> "permit", i |-> i, todo |-> {}, made |-> {}] \in TaskSet
    BY DEF TaskSet
  <2>3. task' \in [Jobs -> TaskSet]
    BY <1>2, <2>2 DEF ClaimAndSpawn, TypeOK
  <2> QED
    BY <1>2, <2>1, <2>3 DEF ClaimAndSpawn, TypeOK, trackVars, bringVars
<1> QED
  BY <1>1, <1>2 DEF Tick

\* The tasks.
LEMMA TaskStepTypes ==
  ASSUME TypeOK, NEW j \in Jobs, Task(j)
  PROVE  TypeOK'
<1> USE DEF TypeOK
<1>1. ASSUME StartTask(j) PROVE TypeOK'
  <2> DEFINE todo == Missing(formats[task[j].i])
  <2>1. task[j].i \in Refs /\ todo \in SUBSET {"320", "128"}
    BY <1>1, LiveTask DEF StartTask, At, Missing
  <2>2. [task[j] EXCEPT !.todo = todo, !.pc = IF todo = {} THEN "finish" ELSE "encode"]
          \in TaskSet
    BY <1>1, <2>1, LiveTask DEF StartTask, At, TaskSet, LiveTasks
  <2>3. task' \in [Jobs -> TaskSet]
    BY <1>1, <2>2 DEF StartTask
  <2>4. whole' \in [Refs -> SUBSET {"flac", "320", "128"}]
    BY <1>1, <2>1 DEF StartTask, Truncate
  <2> QED
    BY <1>1, <2>3, <2>4 DEF StartTask, QueueTypeOK, queueVars, drainVars, bringVars
<1>2. ASSUME EncodeEnds(j) PROVE TypeOK'
  <2> DEFINE f == First(task[j].todo)
             rest == task[j].todo \ {f}
  <2>1. task[j].i \in Refs /\ rest \in SUBSET {"320", "128"} /\ f \in {"320", "128"}
    BY <1>2, LiveTask DEF EncodeEnds, At, First
  <2>0. task[j] \in LiveTasks
    BY <1>2, LiveTask DEF EncodeEnds, At
  <2>2. [task[j] EXCEPT !.todo = rest, !.made = @ \cup {f},
                        !.pc = IF rest = {} THEN "publish" ELSE "encode"] \in TaskSet
    BY <2>0, <2>1 DEF TaskSet, LiveTasks
  <2>3. task' \in [Jobs -> TaskSet]
    BY <1>2, <2>2 DEF EncodeEnds
  <2>5. PICK S \in SUBSET {"flac", "320", "128"} : whole' = [whole EXCEPT ![task[j].i] = S]
    BY <1>2, <2>1 DEF EncodeEnds
  <2>4. whole' \in [Refs -> SUBSET {"flac", "320", "128"}]
    BY <2>1, <2>5
  <2> QED
    BY <1>2, <2>3, <2>4 DEF EncodeEnds, QueueTypeOK, queueVars, drainVars, bringVars
<1>3. ASSUME EncodeFails(j) \/ ReadTries(j) PROVE TypeOK'
  <2>1. task' \in [Jobs -> TaskSet]
    BY <1>3, TaskTypes DEF EncodeFails, ReadTries, At
  <2> QED
    BY <1>3, <2>1 DEF EncodeFails, ReadTries, QueueTypeOK, queueVars, drainVars, trackVars, bringVars
<1>4. ASSUME Publish(j) PROVE TypeOK'
  <2>1. task' \in [Jobs -> TaskSet]
    BY <1>4, TaskTypes DEF Publish, At
  <2>2. formats' \in [Refs -> SUBSET {"flac", "320", "128"}]
    BY <1>4, LiveTask DEF Publish, At
  <2> QED
    BY <1>4, <2>1, <2>2 DEF Publish, QueueTypeOK, queueVars, drainVars, bringVars
<1>5. ASSUME FinishTask(j) \/ RetryLater(j) PROVE TypeOK'
  <2>1. task' \in [Jobs -> TaskSet]
    BY <1>5, TaskTypes DEF FinishTask, RetryLater
  <2>2. task[j].i \in Refs
    BY <1>5, LiveTask DEF FinishTask, RetryLater, At
  <2>3. QueueTypeOK'
    BY <1>5, <2>2, RowTypes DEF FinishTask, RetryLater
  <2> QED
    BY <1>5, <2>1, <2>3 DEF FinishTask, RetryLater, trackVars, bringVars
<1> QED
  BY <1>1, <1>2, <1>3, <1>4, <1>5 DEF Task

\* Every variable of Transcode keeps its type.
THEOREM TranscodeTypeCorrect == Spec => []TypeOK
<1>1. ASSUME Init PROVE TypeOK
  <2>1. QueueTypeOK
    BY <1>1, RunningAssumption, StaleAssumption DEF Init, QueueInit, QueueTypeOK, QStates
  <2>2. /\ formats \in [Refs -> SUBSET {"flac", "320", "128"}]
        /\ whole \in [Refs -> SUBSET {"flac", "320", "128"}]
    BY <1>1 DEF Init
  <2>3. task \in [Jobs -> TaskSet] /\ collect \in [Collectors -> FileSet]
    BY <1>1 DEF Init, TaskSet, FileSet
  <2> QED
    BY <1>1, <2>1, <2>2, <2>3 DEF Init, TypeOK
<1>2. TypeOK /\ [Next]_vars => TypeOK'
  <2> SUFFICES ASSUME TypeOK, [Next]_vars PROVE TypeOK'
    OBVIOUS
  <2>1. CASE Tick
    BY <2>1, TickTypes
  <2>2. CASE Crash
    <3>1. forgot' \subseteq Refs
      BY <2>2, CopyShape DEF Crash, TypeOK
    <3> QED
      BY <2>2, <3>1, RunningAssumption DEF Crash, TypeOK, QueueTypeOK, queueVars, TaskSet, FileSet
  <2>3. CASE \E j \in Jobs : Task(j)
    BY <2>3, TaskStepTypes
  <2>4. ASSUME NEW c \in Collectors,
               \/ MarkReady(c) \/ IngestFile(c) \/ CopyFails(c) \/ EnqueueTranscode(c)
               \/ \E t \in Refs, src \in Sources, ingest \in BOOLEAN : StartCopy(c, t, src, ingest)
        PROVE  TypeOK'
    BY <2>4, FileTypes, CallTypes, SourcesAssumption
  <2>5. ASSUME NEW t \in Refs, CreateWork(t) PROVE TypeOK'
    BY <2>5, CallTypes
  <2>6. ASSUME NEW t \in Refs, Elapse(t) PROVE TypeOK'
    <3>1. QueueTypeOK'
      BY <2>6, LoopTypes DEF Elapse, TypeOK
    <3> QED
      BY <2>6, <3>1 DEF Elapse, TypeOK, trackVars, bringVars
  <2>7. CASE UNCHANGED vars
    BY <2>7 DEF TypeOK, QueueTypeOK, vars, queueVars, drainVars, trackVars, bringVars
  <2> QED
    BY <2>1, <2>2, <2>3, <2>4, <2>5, <2>6, <2>7 DEF Next
<1> QED
  BY <1>1, <1>2, PTL DEF Spec

-----------------------------------------------------------------------------
(* What the steps besides the tick's, the tasks' and a crash do.           *)

\* Somebody enqueues the item of t; whoever brings or copies files leaves the
\* queue and the tasks alone.
Asks(t) ==
  /\ \E p \in Prios : Enqueue(t, p)
  /\ UNCHANGED <<drainVars, formats, whole, twice, task, crashes>>
Brings == UNCHANGED <<queueVars, drainVars, task, calls, crashes>>
Others == \/ \E t \in Refs : Asks(t) \/ Elapse(t)
          \/ Brings
          \/ UNCHANGED vars

LEMMA StepKinds ==
  ASSUME TypeOK, [Next]_vars
  PROVE  Tick \/ Crash \/ (\E j \in Jobs : Task(j)) \/ Others
<1>1. ASSUME NEW c \in Collectors, EnqueueTranscode(c) PROVE Others
  <2>1. collect[c].t \in Refs
    BY <1>1, CopyShape DEF EnqueueTranscode
  <2> QED
    BY <1>1, <2>1 DEF EnqueueTranscode, Asks, Others
<1>2. ASSUME NEW t \in Refs, CreateWork(t) PROVE Others
  BY <1>2 DEF CreateWork, Asks, Others, trackVars
<1>3. ASSUME NEW c \in Collectors,
             \/ MarkReady(c) \/ IngestFile(c) \/ CopyFails(c)
             \/ \E t \in Refs, src \in Sources, ingest \in BOOLEAN : StartCopy(c, t, src, ingest)
      PROVE  Others
  BY <1>3 DEF MarkReady, IngestFile, CopyFails, StartCopy, Brings, Others
<1> QED
  BY <1>1, <1>2, <1>3 DEF Next, Others

-----------------------------------------------------------------------------
(* The cap. *)

\* Whoever is not the tick leaves the loop alone and makes no item run.
LEMMA OthersShrink ==
  ASSUME TypeOK,
         Others \/ \E j \in Jobs : Task(j)
  PROVE  Running' \subseteq Running /\ UNCHANGED drainVars
<1>1. QueueTypeOK
  BY DEF TypeOK
<1>2. UNCHANGED queueVars => Running' \subseteq Running
  BY DEF queueVars, Running
<1>3. ASSUME NEW t \in Refs, Asks(t)
      PROVE  Running' \subseteq Running /\ UNCHANGED drainVars
  BY <1>1, <1>3, OnlyClaimRuns, PriosAssumption DEF Asks
<1>4. ASSUME NEW t \in Refs, Elapse(t)
      PROVE  Running' \subseteq Running /\ UNCHANGED drainVars
  BY <1>1, <1>4, OnlyClaimRuns DEF Elapse, HoldElapses
<1>5. Brings => Running' \subseteq Running /\ UNCHANGED drainVars
  BY <1>2 DEF Brings
<1>6. ASSUME NEW j \in Jobs, FinishTask(j) \/ RetryLater(j)
      PROVE  Running' \subseteq Running /\ UNCHANGED drainVars
  <2>1. task[j].i \in Refs
    BY <1>6, LiveTask DEF FinishTask, RetryLater, At
  <2> QED
    BY <1>1, <1>6, <2>1, OnlyClaimRuns DEF FinishTask, RetryLater
<1>7. ASSUME NEW j \in Jobs,
             \/ StartTask(j) \/ EncodeEnds(j) \/ EncodeFails(j)
             \/ Publish(j) \/ ReadTries(j)
      PROVE  Running' \subseteq Running /\ UNCHANGED drainVars
  BY <1>2, <1>7 DEF StartTask, EncodeEnds, EncodeFails, Publish, ReadTries
<1>8. UNCHANGED vars => Running' \subseteq Running /\ UNCHANGED drainVars
  BY <1>2 DEF vars
<1> QED
  BY <1>3, <1>4, <1>5, <1>6, <1>7, <1>8 DEF Task, Others

\* The steps of the tick.
LEMMA TickCap ==
  ASSUME TypeOK, CapInv, Tick
  PROVE  CapInv'
<1>1. QueueTypeOK
  BY DEF TypeOK
<1>2. CASE Wake(Attended, "count")
  <2>1. Running' \subseteq Running
    BY <1>1, <1>2 DEF Wake, Running, QueueTypeOK
  <2>2. phase' = "count"
    BY <1>2 DEF Wake
  <2> QED
    BY <1>1, <2>1, <2>2, Shrinks
<1>3. ASSUME NEW i \in Refs, ClaimAndSpawn(i) PROVE CapInv'
  BY <1>1, <1>3, LoopCap DEF ClaimAndSpawn, Claim
<1> QED
  BY <1>1, <1>2, <1>3, LoopCap DEF Tick, Drain

\* At most MaxRunning items of the kind are running, through every
\* interleaving of tick, tasks and calls, every recovery and every crash
\* (free_slots, claim).
THEOREM TranscodeCapHolds == Spec => []RunningCap
<1>1. Init => CapInv
  <2> SUFFICES ASSUME Init PROVE CapInv
    OBVIOUS
  <2>1. Running = {} /\ phase = "rest"
    BY DEF Init, QueueInit, Running
  <2> QED
    BY <2>1, FS_EmptySet, RunningAssumption DEF CapInv
<1>2. TypeOK /\ CapInv /\ [Next]_vars => CapInv'
  <2> SUFFICES ASSUME TypeOK, CapInv, [Next]_vars PROVE CapInv'
    OBVIOUS
  <2>1. QueueTypeOK
    BY DEF TypeOK
  <2>2. CASE Tick
    BY <2>2, TickCap
  <2>3. CASE Crash
    <3>1. Running' \subseteq Running /\ phase' = "rest"
      BY <2>3 DEF Crash, queueVars, Running
    <3> QED
      BY <2>1, <3>1, Shrinks
  <2>4. CASE Others \/ \E j \in Jobs : Task(j)
    BY <2>1, <2>4, OthersShrink, Shrinks
  <2> QED
    BY <2>2, <2>3, <2>4, StepKinds
<1>3. CapInv => RunningCap
  BY DEF CapInv, RunningCap
<1> QED
  BY <1>1, <1>2, <1>3, TranscodeTypeCorrect, PTL DEF Spec
-----------------------------------------------------------------------------
(* One worker.                                                             *)
(* While no item is recovered from under a live task, a live task's item is *)
(* running, and it is nobody else's: a claim needs a queued item.          *)

OwnInv ==
  /\ \A j \in Live : qstate[task[j].i] = "running"
  /\ OneWorker

\* What a step of a task does to itself, to the other tasks and to the items.
LEMMA TaskEffect ==
  ASSUME TypeOK, NEW j \in Jobs, Task(j)
  PROVE  /\ j \in Live /\ task[j].i \in Refs
         /\ \A k \in Jobs \ {j} : task'[k] = task[k]
         /\ \/ /\ task'[j] = NoTask /\ tries' = tries
               /\ FinishTask(j) \/ RetryLater(j)
               /\ \A i \in Refs \ {task[j].i} : qstate'[i] = qstate[i]
            \/ /\ task'[j] # NoTask /\ task'[j].i = task[j].i
               /\ UNCHANGED <<qstate, tries>>
<1>1. j \in Live /\ task[j].i \in Refs
  <2>1. task[j].pc # "none"
    BY DEF Task, StartTask, EncodeEnds, EncodeFails, Publish, FinishTask, ReadTries,
           RetryLater, At
  <2> QED
    BY <2>1, LiveTask DEF Live, NoTask
<1>2. ASSUME FinishTask(j) \/ RetryLater(j)
      PROVE  /\ \A k \in Jobs \ {j} : task'[k] = task[k]
             /\ task'[j] = NoTask /\ tries' = tries
             /\ \A i \in Refs \ {task[j].i} : qstate'[i] = qstate[i]
  BY <1>2, <1>1 DEF FinishTask, RetryLater, Gone, Finish, Requeue, Fail, Settle, TypeOK, QueueTypeOK
<1>3. ASSUME NEW pc \in {"finish", "retry", "requeue", "fail"}, task[j].pc # "none", GoTo(j, pc)
      PROVE  /\ \A k \in Jobs \ {j} : task'[k] = task[k]
             /\ task'[j] # NoTask /\ task'[j].i = task[j].i
  <2>1. task[j] \in LiveTasks
    BY <1>3, LiveTask
  <2>2. task'[j] = [task[j] EXCEPT !.pc = pc]
    BY <1>3 DEF GoTo, TypeOK
  <2>3. task'[j].pc = pc /\ task'[j].i = task[j].i
    BY <2>1, <2>2
  <2> QED
    BY <1>3, <2>3 DEF GoTo, TypeOK, NoTask
<1>4. ASSUME EncodeFails(j) \/ Publish(j) \/ ReadTries(j)
      PROVE  /\ \A k \in Jobs \ {j} : task'[k] = task[k]
             /\ task'[j] # NoTask /\ task'[j].i = task[j].i
             /\ UNCHANGED <<qstate, tries>>
  BY <1>3, <1>4 DEF EncodeFails, Publish, ReadTries, At, queueVars
<1>5. ASSUME StartTask(j) \/ EncodeEnds(j)
      PROVE  /\ \A k \in Jobs \ {j} : task'[k] = task[k]
             /\ task'[j] # NoTask /\ task'[j].i = task[j].i
             /\ UNCHANGED <<qstate, tries>>
  <2>1. task[j].pc # "none"
    BY <1>5 DEF StartTask, EncodeEnds, At
  <2>2. task[j] \in LiveTasks
    BY <2>1, LiveTask
  <2>3. task'[j].pc # "none" /\ task'[j].i = task[j].i
    BY <1>5, <2>2 DEF StartTask, EncodeEnds, TypeOK, LiveTasks
  <2>4. \A k \in Jobs \ {j} : task'[k] = task[k]
    BY <1>5 DEF StartTask, EncodeEnds, TypeOK
  <2> QED
    BY <1>5, <2>3, <2>4 DEF StartTask, EncodeEnds, NoTask, queueVars
<1> QED
  BY <1>1, <1>2, <1>4, <1>5 DEF Task

LEMMA OwnTask ==
  ASSUME TypeOK, OwnInv, NEW j \in Jobs, Task(j)
  PROVE  OwnInv'
<1>1. \A k \in Live' : k \in Live /\ task'[k].i = task[k].i
  BY TaskEffect DEF Live
<1>2. \A k, l \in Live' : task'[k].i = task'[l].i => k = l
  BY <1>1 DEF OwnInv, OneWorker
<1>3. ASSUME NEW k \in Live' PROVE qstate'[task'[k].i] = "running"
  <2>1. k \in Live /\ task'[k].i = task[k].i /\ qstate[task[k].i] = "running"
    BY <1>1 DEF OwnInv
  <2>2. task[k].i \in Refs
    BY <2>1, LiveTask DEF Live, NoTask, TypeOK, TaskSet
  <2>3. CASE task'[j] = NoTask
    <3>1. k # j
      BY <2>3 DEF Live
    <3>2. task[k].i # task[j].i
      BY <2>1, <3>1, TaskEffect DEF OwnInv, OneWorker
    <3> QED
      BY <2>1, <2>2, <2>3, <3>2, TaskEffect
  <2>4. CASE task'[j] # NoTask
    BY <2>1, <2>4, TaskEffect
  <2> QED
    BY <2>3, <2>4
<1> QED
  BY <1>2, <1>3 DEF OwnInv, OneWorker

\* What everything else leaves of the items a task works on.
LEMMA OwnFrame ==
  ASSUME TypeOK, OwnInv, task' = task,
         \A i \in Attended : qstate[i] = "running" => qstate'[i] = "running"
  PROVE  OwnInv'
  BY DEF OwnInv, OneWorker, Live, Attended

LEMMA ClaimEffect ==
  ASSUME TypeOK, NEW i \in Refs, ClaimAndSpawn(i)
  PROVE  \E j \in Jobs \ Live :
           /\ Live' = Live \cup {j}
           /\ \A k \in Jobs \ {j} : task'[k] = task[k]
           /\ task'[j] = [pc |-> "permit", i |-> i, todo |-> {}, made |-> {}]
           /\ qstate[i] = "queued"
           /\ qstate' = [qstate EXCEPT ![i] = "running"]
           /\ tries' = [tries EXCEPT ![i] = IF @ > MaxTries THEN @ ELSE @ + 1]
<1>1. PICK j \in Jobs \ Live :
        task' = [task EXCEPT ![j] = [pc |-> "permit", i |-> i, todo |-> {}, made |-> {}]]
  BY DEF ClaimAndSpawn
<1>2. /\ \A k \in Jobs \ {j} : task'[k] = task[k]
      /\ task'[j] = [pc |-> "permit", i |-> i, todo |-> {}, made |-> {}]
  BY <1>1 DEF TypeOK
<1>3. task'[j] # NoTask
  BY <1>2 DEF NoTask
<1> QED
  BY <1>2, <1>3 DEF Live, ClaimAndSpawn, Claim, ClaimRow

LEMMA OwnClaim ==
  ASSUME TypeOK, OwnInv, NEW i \in Refs, ClaimAndSpawn(i)
  PROVE  OwnInv'
<1>1. PICK j \in Jobs \ Live :
        /\ Live' = Live \cup {j}
        /\ \A k \in Jobs \ {j} : task'[k] = task[k]
        /\ task'[j] = [pc |-> "permit", i |-> i, todo |-> {}, made |-> {}]
        /\ qstate[i] = "queued"
        /\ qstate' = [qstate EXCEPT ![i] = "running"]
  BY ClaimEffect
<1>2. \A k \in Live : task'[k] = task[k] /\ task[k].i # i
  BY <1>1 DEF OwnInv, Live
<1>3. \A k \in Live' : qstate'[task'[k].i] = "running"
  BY <1>1, <1>2 DEF OwnInv, TypeOK, QueueTypeOK
<1>4. \A k, l \in Live' : task'[k].i = task'[l].i => k = l
  BY <1>1, <1>2 DEF OwnInv, OneWorker
<1> QED
  BY <1>3, <1>4 DEF OwnInv, OneWorker

\* The items that a step of neither the claim nor a task leaves to their tasks.
LEMMA OthersLeave ==
  ASSUME TypeOK, Recovers = "unattended",
         Drain \/ Others
  PROVE  /\ task' = task
         /\ \A i \in Attended : qstate[i] = "running" => qstate'[i] = "running"
<1>1. Attended \subseteq Refs
  BY DEF Attended, Live, TypeOK, TaskSet
<1>2. CASE Drain
  <2>1. CASE Wake(Attended, "count")
    BY <1>1, <1>2, <2>1 DEF Drain, Wake, Stale, Ages
  <2>2. CASE UNCHANGED queueVars
    BY <1>2, <2>2 DEF Drain, queueVars
  <2> QED
    BY <1>2, <2>1, <2>2 DEF Drain, CountSlots, NextItems, DrainDone, SkipClaimed
<1>3. ASSUME NEW t \in Refs, Asks(t)
      PROVE  /\ task' = task
             /\ \A i \in Refs : qstate[i] = "running" => qstate'[i] = "running"
  BY <1>3 DEF Asks, Enqueue, Insert, Rearm, TypeOK, QueueTypeOK
<1>4. ASSUME (\E t \in Refs : Elapse(t)) \/ Brings \/ UNCHANGED vars
      PROVE  UNCHANGED <<task, qstate>>
  BY <1>4 DEF Elapse, HoldElapses, Brings, vars, queueVars
<1> QED
  BY <1>1, <1>2, <1>3, <1>4 DEF Others

LEMMA OwnNext ==
  ASSUME TypeOK, OwnInv, Recovers = "unattended", [Next]_vars
  PROVE  OwnInv'
<1>1. ASSUME NEW i \in Refs, ClaimAndSpawn(i) PROVE OwnInv'
  BY <1>1, OwnClaim
<1>2. ASSUME NEW j \in Jobs, Task(j) PROVE OwnInv'
  BY <1>2, OwnTask
<1>3. CASE Crash
  BY <1>3 DEF Crash, OwnInv, OneWorker, Live
<1>4. CASE Drain \/ Others
  BY <1>4, OthersLeave, OwnFrame
<1> QED
  BY <1>1, <1>2, <1>3, <1>4, StepKinds DEF Tick

LEMMA OwnInit == Init => OwnInv
  BY DEF Init, OwnInv, OneWorker, Live

\* While tasks are faster than WORK_STALE_SECS, two tasks never encode one
\* track and a task's item stays running until the task itself settles it
\* (work.rs:24-26); transcode_overlap shows what a slower task meets.
THEOREM OneWorkerHolds == ASSUME Recovers = "unattended" PROVE Spec => []OwnInv
<1>1. TypeOK /\ OwnInv /\ [Next]_vars => OwnInv'
  BY OwnNext
<1> QED
  BY <1>1, OwnInit, TranscodeTypeCorrect, PTL DEF Spec
-----------------------------------------------------------------------------
(* The files.                                                              *)
(* A task encodes only what the row does not name, and it names only what  *)
(* is whole.  That needs one worker: another task of the track could       *)
(* publish a format between this one's read of the row and its encode.     *)
(* And it needs one file: the track's first comes before it has a format,  *)
(* so that no task has anything to encode while the file is copied.        *)

FilesOf(j) ==
  LET t == task[j].i IN
  /\ task[j].made \subseteq whole[t]
  /\ task[j].made # {} => formats[t] # {}
  /\ At(j, "permit") => task[j].made = {}
  /\ At(j, "encode") =>
       /\ task[j].todo # {} /\ formats[t] # {}
       /\ task[j].todo \cap (formats[t] \cup task[j].made) = {}

FilesInv ==
  /\ \A t \in Refs \ twice :
       /\ formats[t] \subseteq whole[t]
       /\ \A c \in Collectors : Collecting(c, t) => formats[t] = {}
       /\ \A c, d \in Collectors : Collecting(c, t) /\ Collecting(d, t) => c = d
  /\ \A j \in Live : task[j].i \notin twice => FilesOf(j)

\* The format encoded is one of those to do.
LEMMA FirstTodo ==
  ASSUME NEW todo \in SUBSET {"320", "128"}, todo # {}
  PROVE  First(todo) \in todo
  BY DEF First

\* Another task's part of the invariant, when a task changes the files of its
\* own track only.
LEMMA FilesElsewhere ==
  ASSUME TypeOK, OwnInv, FilesInv, NEW j \in Jobs, Task(j),
         UNCHANGED <<twice, collect>>,
         \A t \in Refs \ {task[j].i} : formats'[t] = formats[t] /\ whole'[t] = whole[t],
         task[j].i \notin twice =>
           /\ formats'[task[j].i] \subseteq whole'[task[j].i]
           /\ formats[task[j].i] = {} => formats'[task[j].i] = {}
           /\ task'[j] # NoTask => task'[j].i = task[j].i /\ FilesOf(j)'
  PROVE  FilesInv'
<1>1. ASSUME NEW t \in Refs \ twice
      PROVE  /\ formats'[t] \subseteq whole'[t]
             /\ \A c \in Collectors : Collecting(c, t)' => formats'[t] = {}
             /\ \A c, d \in Collectors : Collecting(c, t)' /\ Collecting(d, t)' => c = d
  <2>1. \A c \in Collectors : Collecting(c, t)' <=> Collecting(c, t)
    BY DEF Collecting
  <2>2. formats'[t] \subseteq whole'[t] /\ (formats[t] = {} => formats'[t] = {})
    BY <1>1 DEF FilesInv
  <2> QED
    BY <1>1, <2>1, <2>2 DEF FilesInv
<1>2. ASSUME NEW k \in Live', k # j
      PROVE  /\ k \in Live /\ task'[k] = task[k]
             /\ formats'[task[k].i] = formats[task[k].i]
             /\ whole'[task[k].i] = whole[task[k].i]
  <2>1. k \in Live /\ task'[k] = task[k]
    BY <1>2, TaskEffect DEF Live
  <2>2. task[k].i \in Refs
    BY <2>1 DEF Live, NoTask, TypeOK, TaskSet
  <2>3. task[k].i # task[j].i
    BY <1>2, <2>1, TaskEffect DEF OwnInv, OneWorker
  <2> QED
    BY <2>1, <2>2, <2>3
<1>3. ASSUME NEW k \in Live', task'[k].i \notin twice
      PROVE  FilesOf(k)'
  <2>1. CASE k = j
    BY <2>1, <1>3, TaskEffect DEF Live
  <2>2. CASE k # j
    BY <2>2, <1>2, <1>3 DEF FilesInv, FilesOf, At
  <2> QED
    BY <2>1, <2>2
<1> QED
  BY <1>1, <1>3 DEF FilesInv

LEMMA FilesTask ==
  ASSUME TypeOK, OwnInv, FilesInv, NEW j \in Jobs, Task(j)
  PROVE  FilesInv'
<1> DEFINE t == task[j].i
<1>1. j \in Live /\ t \in Refs
  BY TaskEffect
<1>2. task[j].pc # "none"
  BY DEF Task, StartTask, EncodeEnds, EncodeFails, Publish, FinishTask, ReadTries, RetryLater, At
<1>3. task[j] \in LiveTasks
  BY <1>2, LiveTask
<1>4. t \notin twice =>
        /\ formats[t] \subseteq whole[t] /\ task[j].made \subseteq whole[t]
        /\ task[j].made # {} => formats[t] # {}
  BY <1>1 DEF FilesInv, FilesOf
<1>5. ASSUME StartTask(j) PROVE FilesInv'
  <2> DEFINE todo == Missing(formats[t])
  <2>1. /\ todo \in SUBSET {"320", "128"} /\ todo \cap formats[t] = {}
        /\ todo # {} => formats[t] # {}
    BY DEF Missing
  <2>2. t \notin twice => task[j].made = {}
    BY <1>1, <1>5 DEF StartTask, FilesInv, FilesOf
  <2>3. /\ task'[j].made = task[j].made /\ task'[j].todo = todo /\ task'[j].i = t
        /\ task'[j].pc = IF todo = {} THEN "finish" ELSE "encode"
    BY <1>3, <1>5 DEF StartTask, TypeOK, LiveTasks
  <2>4. /\ UNCHANGED <<formats, twice, collect>>
        /\ whole'[t] = IF todo = {} THEN whole[t] ELSE whole[t] \ {First(todo)}
        /\ \A u \in Refs \ {t} : whole'[u] = whole[u]
    BY <1>1, <1>5 DEF StartTask, Truncate, TypeOK, bringVars
  <2>5. t \notin twice => formats'[t] \subseteq whole'[t]
    BY <1>4, <2>1, <2>4, FirstTodo
  <2>6. t \notin twice => FilesOf(j)'
    BY <2>1, <2>2, <2>3, <2>4 DEF FilesOf, At
  <2> QED
    BY <2>3, <2>4, <2>5, <2>6, FilesElsewhere
<1>6. ASSUME EncodeEnds(j) PROVE FilesInv'
  <2> DEFINE f == First(task[j].todo)
             rest == task[j].todo \ {f}
             next == IF rest = {} THEN {} ELSE {First(rest)}
  <2>1. t \notin twice =>
        /\ task[j].todo # {} /\ formats[t] # {}
        /\ task[j].todo \cap (formats[t] \cup task[j].made) = {}
    BY <1>1, <1>6 DEF EncodeEnds, FilesInv, FilesOf
  <2>2. /\ task[j].todo # {} => f \in task[j].todo
        /\ rest # {} => First(rest) \in rest
    BY <1>3, FirstTodo DEF LiveTasks
  <2>3. /\ task'[j].made = task[j].made \cup {f} /\ task'[j].todo = rest /\ task'[j].i = t
        /\ task'[j].pc = IF rest = {} THEN "publish" ELSE "encode"
    BY <1>3, <1>6 DEF EncodeEnds, TypeOK, LiveTasks
  <2>4. /\ UNCHANGED <<formats, twice, collect>>
        /\ \E ok \in {TRUE, \A c \in Collectors : ~CopyWrites(c, t, f)} :
             whole' = [whole EXCEPT ![t] = (IF ok THEN @ \cup {f} ELSE @) \ next]
    BY <1>6 DEF EncodeEnds, bringVars
  <2>5. \A u \in Refs \ {t} : whole'[u] = whole[u]
    BY <2>4 DEF TypeOK
  <2>6. t \notin twice => whole'[t] = (whole[t] \cup {f}) \ next
    <3>1. ASSUME t \notin twice PROVE \A c \in Collectors : ~CopyWrites(c, t, f)
      BY <1>1, <2>1, <3>1 DEF FilesInv, CopyWrites
    <3> QED
      BY <1>1, <2>4, <3>1 DEF TypeOK
  <2>7. t \notin twice => formats'[t] \subseteq whole'[t]
    BY <1>4, <2>1, <2>2, <2>4, <2>6
  <2>8. t \notin twice => task'[j].made \subseteq whole'[t]
    BY <1>4, <2>1, <2>2, <2>3, <2>6
  <2>9. t \notin twice => FilesOf(j)'
    BY <2>1, <2>3, <2>4, <2>8 DEF FilesOf, At
  <2> QED
    BY <2>3, <2>4, <2>5, <2>7, <2>9, FilesElsewhere
<1>7. ASSUME Publish(j) PROVE FilesInv'
  <2>1. task'[j] = [task[j] EXCEPT !.pc = "finish"]
    BY <1>7 DEF Publish, GoTo, TypeOK
  <2>2. task'[j].made = task[j].made /\ task'[j].pc = "finish" /\ task'[j].i = t
    BY <1>3, <2>1 DEF LiveTasks
  <2>3. /\ UNCHANGED <<whole, twice, collect>> /\ formats'[t] = formats[t] \cup task[j].made
        /\ \A u \in Refs \ {t} : formats'[u] = formats[u]
    BY <1>1, <1>7 DEF Publish, TypeOK, bringVars
  <2>4. t \notin twice => FilesOf(j)'
    BY <1>4, <2>2, <2>3 DEF FilesOf, At
  <2> QED
    BY <1>4, <2>2, <2>3, <2>4, FilesElsewhere
<1>8. ASSUME EncodeFails(j) \/ ReadTries(j) PROVE FilesInv'
  <2>1. /\ task'[j].made = task[j].made /\ task'[j].pc \in {"retry", "fail", "requeue"}
        /\ task'[j].i = t
    BY <1>3, <1>8 DEF EncodeFails, ReadTries, GoTo, TypeOK, LiveTasks
  <2>2. UNCHANGED <<whole, formats, twice, collect>>
    BY <1>8 DEF EncodeFails, ReadTries, trackVars, bringVars
  <2>3. t \notin twice => FilesOf(j)'
    BY <1>4, <2>1, <2>2 DEF FilesOf, At
  <2> QED
    BY <1>4, <2>1, <2>2, <2>3, FilesElsewhere
<1>9. ASSUME FinishTask(j) \/ RetryLater(j) PROVE FilesInv'
  <2>1. task'[j] = NoTask
    BY <1>9 DEF FinishTask, RetryLater, Gone, TypeOK
  <2>2. UNCHANGED <<whole, formats, twice, collect>>
    BY <1>9 DEF FinishTask, RetryLater, trackVars, bringVars
  <2> QED
    BY <1>4, <2>1, <2>2, FilesElsewhere
<1> QED
  BY <1>5, <1>6, <1>7, <1>8, <1>9 DEF Task

\* A file comes to be copied: the first of its track finds nothing encoded.
LEMMA FilesStart ==
  ASSUME TypeOK, FilesInv, NEW c \in Collectors, NEW t \in Refs, NEW src, NEW ingest,
         StartCopy(c, t, src, ingest)
  PROVE  FilesInv'
<1>1. /\ collect[c] = Free /\ UNCHANGED <<formats, task>>
      /\ collect' = [collect EXCEPT ![c] = [pc |-> "copy", t |-> t, src |-> src, ingest |-> ingest]]
      /\ whole' = [whole EXCEPT ![t] = @ \ {src}]
      /\ twice \subseteq twice'
      /\ t \notin twice' => formats[t] = {} /\ \A d \in Collectors : ~Collecting(d, t)
  BY DEF StartCopy
<1>2. \A u \in Refs \ {t} : \A d \in Collectors : Collecting(d, u)' <=> Collecting(d, u)
  BY <1>1 DEF Collecting, TypeOK, Free
<1>3. t \notin twice' => \A d \in Collectors : Collecting(d, t)' => d = c
  BY <1>1 DEF Collecting, TypeOK
<1>4. \A u \in Refs \ {t} : whole'[u] = whole[u]
  BY <1>1 DEF TypeOK
<1>5. ASSUME NEW u \in Refs \ twice'
      PROVE  /\ formats'[u] \subseteq whole'[u]
             /\ \A d \in Collectors : Collecting(d, u)' => formats'[u] = {}
             /\ \A d, e \in Collectors : Collecting(d, u)' /\ Collecting(e, u)' => d = e
  <2>1. CASE u = t
    BY <1>1, <1>3, <1>5, <2>1
  <2>2. CASE u # t
    BY <1>1, <1>2, <1>4, <1>5, <2>2 DEF FilesInv
  <2> QED
    BY <2>1, <2>2
<1>6. ASSUME NEW j \in Live', task'[j].i \notin twice'
      PROVE  FilesOf(j)'
  <2>1. j \in Live /\ task' = task /\ task[j].i \in Refs /\ FilesOf(j)
    BY <1>1, <1>6 DEF FilesInv, Live, TypeOK, TaskSet, NoTask
  <2>2. CASE task[j].i = t
    BY <1>1, <1>6, <2>1, <2>2 DEF FilesOf, At
  <2>3. CASE task[j].i # t
    BY <1>1, <1>4, <2>1, <2>3 DEF FilesOf, At
  <2> QED
    BY <2>2, <2>3
<1> QED
  BY <1>5, <1>6 DEF FilesInv

\* The copy ends and the row names it: still nothing is encoded.
LEMMA FilesMark ==
  ASSUME TypeOK, FilesInv, NEW c \in Collectors, MarkReady(c) \/ IngestFile(c)
  PROVE  FilesInv'
<1>0. PICK t \in Refs, src \in {"flac", "320", "128"} :
        t = collect[c].t /\ src = collect[c].src /\ collect[c].pc = "copy"
  BY CopyShape DEF MarkReady, IngestFile, CopyEnds
<1>1. /\ Collecting(c, t) /\ UNCHANGED <<task, twice>>
      /\ formats' \in {[formats EXCEPT ![t] = {src}], [formats EXCEPT ![t] = @ \cup {src}]}
      /\ \E ok \in {TRUE, \A j \in Jobs : ~Encodes(j, t, src)} :
           whole' = [whole EXCEPT ![t] = IF ok THEN @ \cup {src} ELSE @]
  BY <1>0 DEF MarkReady, IngestFile, CopyEnds, Collecting
<1>2. /\ \A d \in Collectors \ {c} : collect'[d] = collect[d]
      /\ collect'[c].pc \in {"free", "enqueue"}
  <2>1. /\ [collect[c] EXCEPT !.pc = "enqueue"].pc = "enqueue" /\ Free.pc = "free"
        /\ collect \in [Collectors -> FileSet]
    BY <1>0, CopyShape DEF Free, TypeOK
  <2>2. collect' \in {[collect EXCEPT ![c] = Free],
                     [collect EXCEPT ![c] = [collect[c] EXCEPT !.pc = "enqueue"]]}
    BY DEF MarkReady, IngestFile
  <2> QED
    BY <2>1, <2>2
<1>3. \A u \in Refs \ {t} : formats'[u] = formats[u] /\ whole'[u] = whole[u]
  BY <1>1 DEF TypeOK
<1>4. ASSUME t \notin twice
      PROVE  /\ formats[t] = {} /\ formats'[t] = {src} /\ whole'[t] = whole[t] \cup {src}
             /\ \A d \in Collectors : ~Collecting(d, t)'
             /\ \A j \in Live : task[j].i = t => task[j].made = {} /\ ~At(j, "encode")
  <2>1. formats[t] = {} /\ \A d \in Collectors : Collecting(d, t) => d = c
    BY <1>1, <1>4 DEF FilesInv
  <2>2. \A j \in Live : task[j].i = t => task[j].made = {} /\ ~At(j, "encode")
    BY <1>1, <1>4, <2>1 DEF FilesInv, FilesOf
  <2>3. \A j \in Jobs : ~Encodes(j, t, src)
    BY <2>2 DEF Encodes, Live, NoTask, At
  <2>4. whole'[t] = whole[t] \cup {src}
    BY <1>1, <2>3 DEF TypeOK
  <2>5. formats'[t] = {src}
    BY <1>1, <2>1 DEF TypeOK
  <2>6. \A d \in Collectors : ~Collecting(d, t)'
    <3>1. ASSUME NEW d \in Collectors, Collecting(d, t)' PROVE FALSE
      <4>1. d # c
        BY <1>2, <3>1 DEF Collecting
      <4>2. Collecting(d, t)
        BY <1>2, <3>1, <4>1 DEF Collecting
      <4> QED
        BY <2>1, <4>1, <4>2
    <3> QED
      BY <3>1
  <2> QED
    BY <2>1, <2>2, <2>4, <2>5, <2>6
<1>5. ASSUME NEW u \in Refs \ twice'
      PROVE  /\ formats'[u] \subseteq whole'[u]
             /\ \A d \in Collectors : Collecting(d, u)' => formats'[u] = {}
             /\ \A d, e \in Collectors : Collecting(d, u)' /\ Collecting(e, u)' => d = e
  <2>1. CASE u = t
    <3>1. t \notin twice
      BY <1>1, <1>5, <2>1
    <3>2. /\ formats'[t] = {src} /\ whole'[t] = whole[t] \cup {src}
          /\ \A d \in Collectors : ~Collecting(d, t)'
      BY <1>4, <3>1
    <3> QED
      BY <2>1, <3>2
  <2>2. CASE u # t
    <3>1. \A d \in Collectors : Collecting(d, u)' => Collecting(d, u)
      BY <1>2 DEF Collecting
    <3> QED
      BY <1>1, <1>3, <1>5, <2>2, <3>1 DEF FilesInv
  <2> QED
    BY <2>1, <2>2
<1>6. ASSUME NEW j \in Live', task'[j].i \notin twice'
      PROVE  FilesOf(j)'
  <2>1. j \in Live /\ task' = task /\ task[j].i \in Refs /\ FilesOf(j)
    BY <1>1, <1>6 DEF FilesInv, Live, TypeOK, TaskSet, NoTask
  <2>2. CASE task[j].i = t
    BY <1>1, <1>4, <1>6, <2>1, <2>2 DEF FilesOf, At
  <2>3. CASE task[j].i # t
    BY <1>3, <2>1, <2>3 DEF FilesOf, At
  <2> QED
    BY <2>2, <2>3
<1> QED
  BY <1>5, <1>6 DEF FilesInv

\* Files, rows and tasks stay, and collectors copy no more than before.
LEMMA FilesFrame ==
  ASSUME FilesInv, UNCHANGED <<formats, whole, twice, task>>,
         \A c \in Collectors : collect'[c] = collect[c] \/ collect'[c].pc # "copy"
  PROVE  FilesInv'
<1>1. \A t \in Refs, c \in Collectors : Collecting(c, t)' => Collecting(c, t)
  BY DEF Collecting
<1>2. Live' = Live /\ \A j \in Jobs : FilesOf(j)' <=> FilesOf(j)
  BY DEF Live, FilesOf, At
<1>3. \A j \in Live' : task'[j].i \notin twice' => FilesOf(j)'
  BY <1>2 DEF FilesInv, Live
<1> QED
  BY <1>1, <1>3 DEF FilesInv

LEMMA FilesNext ==
  ASSUME TypeOK, OwnInv, FilesInv, [Next]_vars
  PROVE  FilesInv'
<1>1. ASSUME NEW j \in Jobs, Task(j) PROVE FilesInv'
  BY <1>1, FilesTask
<1>2. CASE Crash
  <2>1. /\ Live' = {} /\ UNCHANGED <<formats, whole, twice>>
        /\ \A c \in Collectors : collect'[c].pc = "free"
    BY <1>2 DEF Crash, Live, Free
  <2>2. \A c \in Collectors, t \in Refs : ~Collecting(c, t)'
    BY <2>1 DEF Collecting
  <2> QED
    BY <2>1, <2>2 DEF FilesInv
<1>3. ASSUME NEW i \in Refs, ClaimAndSpawn(i) PROVE FilesInv'
  <2>1. PICK j \in Jobs \ Live :
          /\ Live' = Live \cup {j}
          /\ \A k \in Jobs \ {j} : task'[k] = task[k]
          /\ task'[j] = [pc |-> "permit", i |-> i, todo |-> {}, made |-> {}]
    BY <1>3, ClaimEffect
  <2>2. UNCHANGED <<formats, whole, twice, collect>>
    BY <1>3 DEF ClaimAndSpawn, trackVars, bringVars
  <2>3. \A k \in Live : task'[k] = task[k] /\ (FilesOf(k)' <=> FilesOf(k))
    BY <2>1, <2>2 DEF Live, FilesOf, At
  <2>4. task'[j].made = {} /\ task'[j].pc = "permit"
    BY <2>1
  <2>5. FilesOf(j)'
    BY <2>4 DEF FilesOf, At
  <2>6. \A k \in Live' : task'[k].i \notin twice' => FilesOf(k)'
    BY <2>1, <2>2, <2>3, <2>5 DEF FilesInv
  <2> QED
    BY <2>2, <2>6 DEF FilesInv, Collecting
<1>4. CASE Drain
  BY <1>4, FilesFrame DEF Drain, trackVars, bringVars
<1>5. ASSUME NEW t \in Refs, CreateWork(t) \/ Elapse(t) PROVE FilesInv'
  BY <1>5, FilesFrame DEF CreateWork, Elapse, trackVars, bringVars
<1>6. ASSUME NEW c \in Collectors, EnqueueTranscode(c) \/ CopyFails(c) PROVE FilesInv'
  <2>1. \A d \in Collectors : collect'[d] = collect[d] \/ collect'[d].pc # "copy"
    BY <1>6 DEF EnqueueTranscode, CopyFails, TypeOK, Free
  <2> QED
    BY <1>6, <2>1, FilesFrame DEF EnqueueTranscode, CopyFails, trackVars
<1>7. CASE UNCHANGED vars
  BY <1>7, FilesFrame DEF vars, trackVars, bringVars
<1> QED
  BY <1>1, <1>2, <1>3, <1>4, <1>5, <1>6, <1>7, FilesStart, FilesMark DEF Next, Tick

LEMMA FilesImply == TypeOK /\ FilesInv => FilesWhole
<1> SUFFICES ASSUME TypeOK, FilesInv, NEW t \in Refs \ twice, NEW f \in formats[t]
             PROVE  /\ f \in whole[t]
                    /\ \A j \in Jobs : ~Encodes(j, t, f)
                    /\ \A c \in Collectors : ~CopyWrites(c, t, f)
  BY DEF FilesWhole
<1>1. ASSUME NEW j \in Jobs, Encodes(j, t, f) PROVE FALSE
  <2>1. /\ j \in Live /\ task[j].todo \in SUBSET {"320", "128"} /\ task[j].i = t
        /\ FilesOf(j) /\ At(j, "encode")
    BY <1>1, LiveTask DEF Encodes, At, Live, NoTask, FilesInv
  <2>2. f \in task[j].todo
    BY <1>1, <2>1, FirstTodo DEF Encodes, FilesOf
  <2> QED
    BY <2>1, <2>2 DEF FilesOf
<1>2. \A c \in Collectors : ~CopyWrites(c, t, f)
  BY DEF FilesInv, CopyWrites
<1> QED
  BY <1>1, <1>2 DEF FilesInv

\* A format that the row names is on disk, whole, and nobody is writing it, for
\* every number of tracks, tasks, slots, collectors, crashes and calls, whatever
\* ffmpeg and the copies do, until a file is brought for a track that has one -
\* as long as tasks are faster than WORK_STALE_SECS.
THEOREM FilesStayWhole == ASSUME Recovers = "unattended" PROVE Spec => []FilesWhole
<1>1. Init => FilesInv
  BY DEF Init, FilesInv, Live, Collecting, Free
<1>2. TypeOK /\ OwnInv /\ FilesInv /\ [Next]_vars => FilesInv'
  BY FilesNext
<1> QED
  BY <1>1, <1>2, FilesImply, TranscodeTypeCorrect, OneWorkerHolds, PTL DEF Spec
-----------------------------------------------------------------------------
(* The tries.                                                              *)
(* A claim counts a try, and only the task that was claimed for may put    *)
(* the item back, after it has read what is left.  A crash leaves an item  *)
(* running that no task works on, and has been counted: it may be claimed  *)
(* once more.                                                              *)

TriesInv ==
  \A i \in Refs :
    /\ qstate[i] = "none" => tries[i] = 0
    /\ qstate[i] = "queued" => tries[i] < MaxTries + crashes
    /\ qstate[i] = "running" =>
         tries[i] < MaxTries + crashes \/ (i \in Attended /\ tries[i] = MaxTries + crashes)
    /\ \A j \in Live : At(j, "requeue") /\ task[j].i = i => tries[i] < MaxTries

\* Every item is where a step leaves it, or where the step brings it.
LEMMA TriesFrame ==
  ASSUME TypeOK, TriesInv, task' = task, crashes' = crashes,
         \A i \in Refs :
           \/ qstate'[i] = qstate[i] /\ tries'[i] = tries[i]
           \/ /\ qstate'[i] = "queued"
              /\ tries'[i] < MaxTries + crashes
              /\ tries'[i] \in 0..tries[i]
  PROVE  TriesInv'
<1>1. Live' = Live /\ Attended' = Attended
  BY DEF Live, Attended
<1> SUFFICES ASSUME NEW i \in Refs
             PROVE  /\ qstate'[i] = "none" => tries'[i] = 0
                    /\ qstate'[i] = "queued" => tries'[i] < MaxTries + crashes
                    /\ qstate'[i] = "running" =>
                         \/ tries'[i] < MaxTries + crashes
                         \/ i \in Attended /\ tries'[i] = MaxTries + crashes
                    /\ \A j \in Live :
                         At(j, "requeue") /\ task[j].i = i => tries'[i] < MaxTries
  BY <1>1 DEF TriesInv, At
<1>2. /\ tries[i] \in Nat /\ MaxTries \in Nat
  BY TriesAssumption DEF TypeOK, QueueTypeOK
<1>3. \A j \in Live : At(j, "requeue") /\ task[j].i = i => tries[i] < MaxTries
  BY DEF TriesInv
<1>4. CASE qstate'[i] = qstate[i] /\ tries'[i] = tries[i]
  BY <1>3, <1>4 DEF TriesInv
<1>5. CASE /\ qstate'[i] = "queued" /\ tries'[i] < MaxTries + crashes
           /\ tries'[i] \in 0..tries[i]
  BY <1>2, <1>3, <1>5
<1> QED
  BY <1>4, <1>5
\* The statements of others than tasks put only unattended items back, or start
\* a settled one afresh.
LEMMA TriesOthers ==
  ASSUME TypeOK, TriesInv, Recovers = "unattended",
         Drain \/ Others
  PROVE  TriesInv'
<1>1. CASE UNCHANGED <<qstate, tries, task, crashes>>
  BY <1>1, TriesFrame
<1>2. CASE Drain /\ Wake(Attended, "count")
  <2>1. /\ task' = task /\ crashes' = crashes /\ tries' = tries
        /\ \A i \in Refs : \/ qstate'[i] = qstate[i]
                           \/ qstate'[i] = "queued" /\ qstate[i] = "running" /\ i \notin Attended
    BY <1>2 DEF Drain, Wake, Stale, Ages, Running
  <2>2. \A i \in Refs : tries[i] \in Nat
    BY DEF TypeOK, QueueTypeOK
  <2> QED
    BY <2>1, <2>2, TriesFrame DEF TriesInv
<1>3. ASSUME NEW t \in Refs, Asks(t) PROVE TriesInv'
  <2>1. task' = task /\ crashes' = crashes
    BY <1>3 DEF Asks
  <2>2. PICK p \in Prios : Insert(t, p) \/ Rearm(t, p)
    BY <1>3 DEF Asks, Enqueue
  <2>3. \A i \in Refs \ {t} : qstate'[i] = qstate[i] /\ tries'[i] = tries[i]
    BY <2>2 DEF Insert, Rearm, TypeOK, QueueTypeOK
  <2>4. \/ qstate'[t] = qstate[t] /\ tries'[t] = tries[t]
        \/ qstate'[t] = "queued" /\ tries'[t] = 0
    BY <1>3, <2>2 DEF Asks, Enqueue, Insert, Rearm, TriesInv,
                      TypeOK, QueueTypeOK
  <2>5. tries[t] \in Nat /\ MaxTries \in Nat \ {0} /\ crashes \in Nat
    BY TriesAssumption DEF TypeOK, QueueTypeOK
  <2> QED
    BY <2>1, <2>3, <2>4, <2>5, TriesFrame
<1>4. CASE Drain /\ ~Wake(Attended, "count")
  <2>1. UNCHANGED <<qstate, tries, task, crashes>>
    BY <1>4 DEF Drain, CountSlots, NextItems, DrainDone, SkipClaimed, queueVars
  <2> QED
    BY <1>1, <2>1
<1>5. CASE (\E t \in Refs : Elapse(t)) \/ Brings \/ UNCHANGED vars
  <2>1. UNCHANGED <<qstate, tries, task, crashes>>
    BY <1>5 DEF Elapse, HoldElapses, Brings, vars, queueVars
  <2> QED
    BY <1>1, <2>1
<1> QED
  BY <1>2, <1>3, <1>4, <1>5 DEF Others

LEMMA TriesClaim ==
  ASSUME TypeOK, OwnInv, TriesInv, NEW i \in Refs, ClaimAndSpawn(i)
  PROVE  TriesInv'
<1>1. PICK j \in Jobs \ Live :
        /\ Live' = Live \cup {j}
        /\ \A k \in Jobs \ {j} : task'[k] = task[k]
        /\ task'[j] = [pc |-> "permit", i |-> i, todo |-> {}, made |-> {}]
        /\ qstate[i] = "queued"
        /\ qstate' = [qstate EXCEPT ![i] = "running"]
        /\ tries' = [tries EXCEPT ![i] = IF @ > MaxTries THEN @ ELSE @ + 1]
  BY ClaimEffect
<1>2. crashes' = crashes /\ crashes \in Nat /\ MaxTries \in Nat \ {0} /\ tries[i] \in Nat
  BY TriesAssumption DEF ClaimAndSpawn, TypeOK, QueueTypeOK
<1>3. task'[j].i = i /\ task'[j].pc = "permit"
  BY <1>1
<1>4. \A k \in Live : task'[k] = task[k] /\ task[k].i # i
  BY <1>1 DEF OwnInv, Live
<1>5. Attended' = Attended \cup {i}
  BY <1>1, <1>3, <1>4 DEF Attended
<1>6. /\ qstate'[i] = "running" /\ tries'[i] <= MaxTries + crashes /\ tries'[i] \in Nat
      /\ \A k \in Refs \ {i} : qstate'[k] = qstate[k] /\ tries'[k] = tries[k]
  BY <1>1, <1>2 DEF TriesInv, TypeOK, QueueTypeOK
<1>7. ASSUME NEW k \in Refs
      PROVE  /\ qstate'[k] = "none" => tries'[k] = 0
             /\ qstate'[k] = "queued" => tries'[k] < MaxTries + crashes
             /\ qstate'[k] = "running" =>
                  \/ tries'[k] < MaxTries + crashes
                  \/ k \in Attended' /\ tries'[k] = MaxTries + crashes
  <2>1. CASE k = i
    BY <1>2, <1>5, <1>6, <2>1
  <2>2. CASE k # i
    BY <1>5, <1>6, <2>2 DEF TriesInv
  <2> QED
    BY <2>1, <2>2
<1>8. ASSUME NEW k \in Refs, NEW l \in Live', task'[l].pc = "requeue", task'[l].i = k
      PROVE  tries'[k] < MaxTries
  <2>1. l \in Live /\ task'[l] = task[l] /\ k # i
    BY <1>1, <1>3, <1>4, <1>8
  <2> QED
    BY <1>6, <1>8, <2>1 DEF TriesInv, At
<1> QED
  BY <1>2, <1>7, <1>8 DEF TriesInv, At

LEMMA TriesTask ==
  ASSUME TypeOK, OwnInv, TriesInv, NEW j \in Jobs, Task(j)
  PROVE  TriesInv'
<1> DEFINE t == task[j].i
<1>1. /\ j \in Live /\ t \in Refs /\ tries' = tries
      /\ \A k \in Jobs \ {j} : task'[k] = task[k]
      /\ task'[j] # NoTask => task'[j].i = t /\ qstate' = qstate
      /\ \A i \in Refs \ {t} : qstate'[i] = qstate[i]
  BY TaskEffect
<1>2. crashes' = crashes
  BY DEF Task, StartTask, EncodeEnds, EncodeFails, Publish, FinishTask, ReadTries, RetryLater
<1>3. \A i \in Refs \ {t} : i \in Attended => i \in Attended'
  <2> SUFFICES ASSUME NEW k \in Live, task[k].i # t PROVE k \in Live' /\ task'[k].i = task[k].i
    BY DEF Attended
  <2> QED
    BY <1>1 DEF Live
<1>4. qstate[t] = "running" /\ t \in Attended
  BY <1>1 DEF OwnInv, Attended
<1>5. task'[j] # NoTask => t \in Attended'
  BY <1>1 DEF Attended, Live
<1>6. At(j, "requeue") => tries[t] < MaxTries
  BY <1>1 DEF TriesInv
<1>7. tries[t] \in Nat /\ MaxTries \in Nat /\ crashes \in Nat
  BY <1>1, TriesAssumption DEF TypeOK, QueueTypeOK
<1>8. task'[j] = NoTask => \/ qstate'[t] \in {"done", "failed"}
                           \/ qstate'[t] = "queued" /\ tries[t] < MaxTries
  BY <1>1, <1>6 DEF Task, StartTask, EncodeEnds, EncodeFails, Publish, FinishTask, ReadTries,
        RetryLater, GoTo, Finish, Fail, Requeue, Settle, TypeOK, QueueTypeOK, NoTask
<1>9. ASSUME NEW l \in Live', task'[l].pc = "requeue"
      PROVE  tries[task'[l].i] < MaxTries
  <2>1. CASE l = j
    <3>1. task[j] \in LiveTasks
      BY <1>1 DEF Live, TypeOK, TaskSet, LiveTasks
    <3>2. ~StartTask(j) /\ ~EncodeEnds(j)
      BY <1>9, <2>1, <3>1 DEF StartTask, EncodeEnds, TypeOK, LiveTasks
    <3>3. ~EncodeFails(j) /\ ~Publish(j)
      BY <1>9, <2>1, <3>1 DEF EncodeFails, Publish, GoTo, TypeOK, LiveTasks
    <3>4. ~FinishTask(j) /\ ~RetryLater(j)
      BY <1>9, <2>1 DEF FinishTask, RetryLater, Gone, Live, TypeOK
    <3>5. ReadTries(j) /\ ~OutOfTries(t)
      BY <1>9, <2>1, <3>1, <3>2, <3>3, <3>4 DEF Task, ReadTries, GoTo, TypeOK, LiveTasks
    <3> QED
      BY <1>1, <1>7, <1>9, <2>1, <3>5 DEF OutOfTries, Live
  <2>2. CASE l # j
    <3>1. l \in Live /\ task'[l] = task[l] /\ task[l].i \in Refs
      BY <1>1, <2>2 DEF Live, NoTask, TypeOK, TaskSet
    <3> QED
      BY <1>9, <3>1 DEF TriesInv, At
  <2> QED
    BY <2>1, <2>2
<1>10. ASSUME NEW k \in Refs
       PROVE  /\ qstate'[k] = "none" => tries[k] = 0
              /\ qstate'[k] = "queued" => tries[k] < MaxTries + crashes
              /\ qstate'[k] = "running" =>
                   \/ tries[k] < MaxTries + crashes
                   \/ k \in Attended' /\ tries[k] = MaxTries + crashes
  <2>1. CASE k # t
    BY <1>1, <1>3, <2>1 DEF TriesInv
  <2>2. CASE k = t /\ task'[j] # NoTask
    BY <1>1, <1>4, <1>5, <2>2 DEF TriesInv
  <2>3. CASE k = t /\ task'[j] = NoTask
    BY <1>7, <1>8, <2>3
  <2> QED
    BY <2>1, <2>2, <2>3
<1> QED
  BY <1>1, <1>2, <1>9, <1>10 DEF TriesInv, At

LEMMA TriesNext ==
  ASSUME TypeOK, OwnInv, TriesInv, Recovers = "unattended", [Next]_vars
  PROVE  TriesInv'
<1>1. ASSUME NEW j \in Jobs, Task(j) PROVE TriesInv'
  BY <1>1, TriesTask
<1>2. ASSUME NEW i \in Refs, ClaimAndSpawn(i) PROVE TriesInv'
  BY <1>2, TriesClaim
<1>3. CASE Crash
  <2>1. /\ Live' = {} /\ crashes' = crashes + 1 /\ crashes \in Nat
        /\ UNCHANGED <<qstate, tries>>
    BY <1>3 DEF Crash, Live, TypeOK, queueVars
  <2>2. \A i \in Refs : tries[i] \in Nat
    BY DEF TypeOK, QueueTypeOK
  <2>3. ASSUME NEW i \in Refs
        PROVE  /\ qstate[i] = "none" => tries[i] = 0
               /\ qstate[i] = "queued" => tries[i] < MaxTries + crashes'
               /\ qstate[i] = "running" => tries[i] < MaxTries + crashes'
    BY <2>1, <2>2, TriesAssumption DEF TriesInv
  <2> QED
    BY <2>1, <2>3 DEF TriesInv
<1>4. CASE Drain \/ Others
  BY <1>4, TriesOthers
<1> QED
  BY <1>1, <1>2, <1>3, <1>4, StepKinds DEF Tick

\* An item is claimed only while tries are left, or once more for each crash,
\* for every number of tracks, tasks, slots and tries.
THEOREM FailsOutHolds == ASSUME Recovers = "unattended" PROVE Spec => FailsOut
<1>1. Init => TriesInv
  BY TriesAssumption DEF Init, QueueInit, TriesInv, Live
<1>2. TypeOK /\ OwnInv /\ TriesInv /\ [Next]_vars => TriesInv'
  BY TriesNext
<1>3. TypeOK /\ TriesInv =>
        [\A i \in Refs : qstate[i] = "queued" /\ qstate'[i] = "running"
                           => tries[i] < MaxTries + crashes]_vars
  BY DEF TriesInv
<1> QED
  BY <1>1, <1>2, <1>3, TranscodeTypeCorrect, OneWorkerHolds, PTL DEF Spec, FailsOut
-----------------------------------------------------------------------------
(* The lifecycle.                                                          *)
(* With one worker per item (OwnInv) and the cap, every step is a step of  *)
(* Lifecycle or leaves the items and their holders as they are.            *)

LEMMA LifeNames ==
  /\ Life!InState("running") = Running
  /\ Life!Cardinality(Running) = Cardinality(Running)
  BY DEF Life!InState, Running, Life!Cardinality, Cardinality

LEMMA LifeClaim ==
  ASSUME TypeOK, OwnInv, RunningCap', NEW i \in Refs, ClaimAndSpawn(i)
  PROVE  Life!Take(i)
<1>1. PICK j \in Jobs \ Live :
        /\ Live' = Live \cup {j}
        /\ \A k \in Jobs \ {j} : task'[k] = task[k]
        /\ task'[j] = [pc |-> "permit", i |-> i, todo |-> {}, made |-> {}]
        /\ qstate[i] = "queued"
        /\ qstate' = [qstate EXCEPT ![i] = "running"]
  BY ClaimEffect
<1>2. task'[j].i = i /\ \A k \in Live : task'[k] = task[k] /\ task[k].i # i
  BY <1>1 DEF OwnInv, Live
<1>3. i \notin Attended /\ Attended' = Attended \cup {i}
  BY <1>1, <1>2 DEF Attended
<1>4. Cardinality(Running) < MaxRunning
  BY ClaimHasSlot DEF ClaimAndSpawn, Claim, TypeOK
<1> QED
  BY <1>1, <1>3, <1>4, LifeNames DEF Life!Take, Life!Becomes

LEMMA LifeTask ==
  ASSUME TypeOK, OwnInv, NEW j \in Jobs, Task(j)
  PROVE  \/ UNCHANGED <<qstate, Attended>>
         \/ Life!Settle(task[j].i)
<1> DEFINE t == task[j].i
<1>1. /\ j \in Live /\ t \in Refs /\ qstate[t] = "running"
      /\ \A k \in Jobs \ {j} : task'[k] = task[k]
  BY TaskEffect DEF OwnInv
<1>2. CASE task'[j] # NoTask
  <2>1. qstate' = qstate /\ task'[j].i = t
    BY <1>2, TaskEffect
  <2>2. Live' = Live /\ \A k \in Live : task'[k].i = task[k].i
    BY <1>1, <1>2, <2>1 DEF Live
  <2> QED
    BY <2>1, <2>2 DEF Attended
<1>3. CASE task'[j] = NoTask
  <2>1. Live' = Live \ {j} /\ \A k \in Live' : task'[k] = task[k]
    BY <1>1, <1>3 DEF Live
  <2>2. \A k \in Live \ {j} : task[k].i # t
    BY <1>1 DEF OwnInv, OneWorker
  <2>3. t \in Attended /\ Attended' = Attended \ {t}
    BY <1>1, <2>1, <2>2 DEF Attended
  <2>4. FinishTask(j) \/ RetryLater(j)
    BY <1>3, TaskEffect
  <2>5. \E s \in {"queued", "done", "failed"} : qstate' = [qstate EXCEPT ![t] = s]
    BY <2>4 DEF FinishTask, RetryLater, Finish, Requeue, Fail, Settle
  <2> QED
    BY <1>1, <2>3, <2>5 DEF Life!Settle, Life!Becomes
<1> QED
  BY <1>2, <1>3

LEMMA LifeOthers ==
  ASSUME TypeOK, Recovers = "unattended",
         Drain \/ Crash \/ Others
  PROVE  Life!Next \/ UNCHANGED <<qstate, Attended>>
<1>1. task' = task => Attended' = Attended
  BY DEF Attended, Live
<1>2. CASE Drain /\ Wake(Attended, "count")
  <2>1. PICK R \in SUBSET (Running \ Attended) :
          qstate' = [i \in Refs |-> IF i \in R THEN "queued" ELSE qstate[i]]
    BY <1>2, WakeQueues
  <2>2. Attended' = Attended
    BY <1>1, <1>2 DEF Drain
  <2> QED
    BY <2>1, <2>2, LifeNames DEF Life!Next, Life!Recover
<1>3. ASSUME NEW t \in Refs, Asks(t)
      PROVE  Life!Next \/ UNCHANGED <<qstate, Attended>>
  <2>1. Attended' = Attended
    BY <1>1, <1>3 DEF Asks
  <2>2. \/ qstate' = qstate
        \/ /\ qstate[t] \in {"none", "done", "failed"}
           /\ qstate' = [qstate EXCEPT ![t] = "queued"]
    BY <1>3, EnqueueQueues DEF Asks, TypeOK
  <2> QED
    BY <2>1, <2>2 DEF Life!Next, Life!Ask, Life!Becomes
<1>4. CASE Crash
  <2>1. Attended' = {} /\ qstate' = qstate
    BY <1>4 DEF Crash, Attended, Live, queueVars
  <2> QED
    BY <2>1 DEF Life!Next, Life!Lose
<1>5. CASE Drain /\ ~Wake(Attended, "count")
  BY <1>1, <1>5 DEF Drain, CountSlots, NextItems, DrainDone, SkipClaimed, queueVars
<1>6. CASE (\E t \in Refs : Elapse(t)) \/ Brings \/ UNCHANGED vars
  BY <1>1, <1>6 DEF Elapse, HoldElapses, Brings, vars, queueVars
<1> QED
  BY <1>2, <1>3, <1>4, <1>5, <1>6 DEF Others

\* Transcode items go through their lifecycle (work.rs:22-27): every step of
\* the tick, the tasks, the calls, the clock and crashes is a step of Lifecycle,
\* for every number of tracks, tasks and slots.
THEOREM TranscodeLives == ASSUME Recovers = "unattended" PROVE Spec => LifeSpec
<1>1. Init => Life!Init
  BY DEF Init, QueueInit, Attended, Live, Life!Init
<1>2. TypeOK /\ OwnInv /\ RunningCap' /\ [Next]_vars => [Life!Next]_<<qstate, Attended>>
  <2> SUFFICES ASSUME TypeOK, OwnInv, RunningCap', [Next]_vars
               PROVE  Life!Next \/ UNCHANGED <<qstate, Attended>>
    OBVIOUS
  <2>1. ASSUME NEW i \in Refs, ClaimAndSpawn(i) PROVE Life!Next
    BY <2>1, LifeClaim DEF Life!Next
  <2>2. ASSUME NEW j \in Jobs, Task(j) PROVE Life!Next \/ UNCHANGED <<qstate, Attended>>
    BY <2>2, LifeTask, TaskEffect DEF Life!Next
  <2> QED
    BY <2>1, <2>2, LifeOthers, StepKinds DEF Tick
<1> QED
  BY <1>1, <1>2, TranscodeTypeCorrect, OneWorkerHolds, TranscodeCapHolds, PTL
     DEF Spec, LifeSpec, Life!Spec
=============================================================================
