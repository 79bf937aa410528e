----------------------------- MODULE Transcode -----------------------------
(***************************************************************************)
(* Derived formats (music-api/src/worker.rs, kind `transcode`): a download *)
(* that becomes ready publishes its primary file and enqueues a transcode; *)
(* the tick claims it and a background task encodes the missing formats    *)
(* into the store and publishes their paths.                               *)
(*                                                                         *)
(* formats[t] are the paths published in the row of t, whole[t] the files  *)
(* of the store that are complete.  Everybody writes the store's files in  *)
(* place: ffmpeg, and the copy of a file that a download or an artist      *)
(* order has brought.  From the start of an encode or a copy to its end    *)
(* the file is not whole.  A second file for a track that has one is as    *)
(* welcome as the first (twice[t]).                                        *)
(***************************************************************************)
EXTENDS WorkQueue

CONSTANTS Jobs,        \* bound: identities for live tasks
          Sources,     \* what a download may deliver: "flac", "320", "128"
          Ingests,     \* whether artist orders ingest files too
          Collectors,  \* bound: identities for the tasks that collect a file
          MaxFiles,    \* bound: files brought
          MaxCalls,    \* bound: POST /work calls
          MaxCrashes   \* bound: process crashes

ASSUME SourcesAssumption == Sources \subseteq {"flac", "320", "128"}

VARIABLES formats, whole,
          twice,     \* history: the tracks a file was brought for again
          forgot,    \* history: the tracks whose latest file nothing enqueues
          collect,   \* the file each collector copies or has to enqueue
          task, files, calls, crashes

trackVars == <<formats, whole, twice, forgot>>
bringVars == <<collect, files>>
vars == <<queueVars, drainVars, trackVars, bringVars, task, calls, crashes>>

NoTask == [pc |-> "none"]
TaskSet ==
  {NoTask} \cup [pc : {"permit", "encode", "publish", "finish", "retry", "requeue", "fail"},
                 i : Refs, todo : SUBSET {"320", "128"}, made : SUBSET {"320", "128"}]

Free == [pc |-> "free"]
FileSet ==
  {Free} \cup [pc : {"copy", "enqueue"}, t : Refs, src : {"flac", "320", "128"},
               ingest : BOOLEAN]

TypeOK ==
  /\ QueueTypeOK
  /\ formats \in [Refs -> SUBSET {"flac", "320", "128"}]
  /\ whole   \in [Refs -> SUBSET {"flac", "320", "128"}]
  /\ twice \subseteq Refs /\ forgot \subseteq Refs
  /\ collect \in [Collectors -> FileSet]
  /\ task    \in [Jobs -> TaskSet]
  /\ files \in Nat /\ calls \in Nat /\ crashes \in Nat

Init ==
  /\ QueueInit
  /\ formats = [t \in Refs |-> {}] /\ whole = [t \in Refs |-> {}]
  /\ twice = {} /\ forgot = {}
  /\ collect = [c \in Collectors |-> Free]
  /\ task = [j \in Jobs |-> NoTask]
  /\ files = 0 /\ calls = 0 /\ crashes = 0

\* Task j is writing the file f of t.
First(todo) == IF "320" \in todo THEN "320" ELSE "128"
Encodes(j, t, f) ==
  task[j].pc = "encode" /\ task[j].i = t /\ First(task[j].todo) = f

Live == {j \in Jobs : task[j] # NoTask}
Attended == {task[j].i : j \in Live}

-----------------------------------------------------------------------------
(* Producers. *)

\* A file of t comes to be copied over the store's: from a download
\* (finalize, finalize_external) or from an artist order (store_downloaded),
\* whatever the row has by then.
Collecting(c, t) == collect[c].pc = "copy" /\ collect[c].t = t
StartCopy(c, t, src, ingest) ==
  /\ collect[c] = Free /\ (ingest => Ingests)
  /\ files < MaxFiles /\ files' = files + 1
  /\ collect' = [collect EXCEPT ![c] = [pc |-> "copy", t |-> t, src |-> src, ingest |-> ingest]]
  /\ whole' = [whole EXCEPT ![t] = @ \ {src}]
  /\ twice' = IF formats[t] # {} \/ \E d \in Collectors : Collecting(d, t)
              THEN twice \cup {t} ELSE twice
  /\ UNCHANGED <<queueVars, drainVars, formats, forgot, task, calls, crashes>>

\* Of two that write a file at once, the one that ends leaves anything.
CopyWrites(c, t, f) == Collecting(c, t) /\ collect[c].src = f
CopyEnds(c) ==
  LET t == collect[c].t  src == collect[c].src IN
  /\ collect[c].pc = "copy"
  /\ \E ok \in {TRUE, \A j \in Jobs : ~Encodes(j, t, src)} :
       whole' = [whole EXCEPT ![t] = IF ok THEN @ \cup {src} ELSE @]

\* mark_ready, after finalize's copy: the row has the one file brought, the
\* enqueue_transcode is a later step, and there is none for a 128.
MarkReady(c) ==
  LET t == collect[c].t  src == collect[c].src IN
  /\ CopyEnds(c) /\ ~collect[c].ingest
  /\ formats' = [formats EXCEPT ![t] = {src}]
  /\ collect' = [collect EXCEPT ![c] = IF src = "128" THEN Free ELSE [@ EXCEPT !.pc = "enqueue"]]
  /\ UNCHANGED <<queueVars, drainVars, twice, forgot, task, files, calls, crashes>>

EnqueueTranscode(c) ==
  LET t == collect[c].t IN
  /\ collect[c].pc = "enqueue"
  /\ collect' = [collect EXCEPT ![c] = Free]
  /\ forgot' = IF qstate[t] = "running" THEN forgot \cup {t} ELSE forgot \ {t}
  /\ \E p \in Prios : Enqueue(t, p)
  /\ UNCHANGED <<drainVars, formats, whole, twice, task, files, calls, crashes>>

\* ingest_ready_track, after store_downloaded: the row becomes ready and keeps
\* the files it has; nothing is enqueued.
IngestFile(c) ==
  LET t == collect[c].t  src == collect[c].src IN
  /\ CopyEnds(c) /\ collect[c].ingest
  /\ formats' = [formats EXCEPT ![t] = @ \cup {src}]
  /\ forgot'  = forgot \cup {t}
  /\ collect' = [collect EXCEPT ![c] = Free]
  /\ UNCHANGED <<queueVars, drainVars, twice, task, files, calls, crashes>>

CopyFails(c) ==
  /\ collect[c].pc = "copy"
  /\ collect' = [collect EXCEPT ![c] = Free]
  /\ UNCHANGED <<queueVars, drainVars, trackVars, task, files, calls, crashes>>

CreateWork(t) ==
  /\ calls < MaxCalls /\ calls' = calls + 1
  /\ \E p \in Prios : Enqueue(t, p)
  /\ UNCHANGED <<drainVars, trackVars, bringVars, task, crashes>>

-----------------------------------------------------------------------------
(* The tick. *)

ClaimAndSpawn(i) ==
  /\ Claim(i)
  /\ \E j \in Jobs \ Live :
       task' = [task EXCEPT ![j] = [pc |-> "permit", i |-> i, todo |-> {}, made |-> {}]]
  /\ UNCHANGED <<trackVars, bringVars, calls, crashes>>

Drain ==
  /\ \/ Wake(Attended, "count") \/ CountSlots \/ NextItems \/ DrainDone
     \/ \E i \in Refs : SkipClaimed(i)
  /\ UNCHANGED <<trackVars, bringVars, task, calls, crashes>>

Tick == Drain \/ \E i \in Refs : ClaimAndSpawn(i)

-----------------------------------------------------------------------------
(* Tasks. *)

At(j, pc) == task[j].pc = pc
GoTo(j, pc) == task' = [task EXCEPT ![j].pc = pc]
Gone(j) == task' = [task EXCEPT ![j] = NoTask]

\* (mutant: encodes what is there already)
MissingAlways(have) == IF have = {} THEN {} ELSE {"320", "128"}
\* 320 and 128 from a FLAC, or 128 from a 320.
Missing(have) ==
  IF "flac" \in have THEN {"320", "128"} \ have
  ELSE IF "320" \in have THEN {"128"} \ have ELSE {}

Truncate(t, todo) ==
  whole' = [whole EXCEPT ![t] = IF todo = {} THEN @ ELSE @ \ {First(todo)}]

\* With a permit, the task reads the row and starts the first encode.
StartTask(j) ==
  LET t == task[j].i  todo == Missing(formats[t]) IN
  /\ At(j, "permit")
  /\ task' = [task EXCEPT ![j].todo = todo, ![j].pc = IF todo = {} THEN "finish" ELSE "encode"]
  /\ Truncate(t, todo)
  /\ UNCHANGED <<queueVars, drainVars, formats, twice, forgot, bringVars, calls, crashes>>

\* ffmpeg exits, and starts on the next file.
EncodeEnds(j) ==
  LET t == task[j].i  f == First(task[j].todo)  rest == task[j].todo \ {f}
      next == IF rest = {} THEN {} ELSE {First(rest)} IN
  /\ At(j, "encode")
  /\ task' = [task EXCEPT ![j].todo = rest, ![j].made = @ \cup {f},
                          ![j].pc = IF rest = {} THEN "publish" ELSE "encode"]
  /\ \E ok \in {TRUE, \A c \in Collectors : ~CopyWrites(c, t, f)} :
       whole' = [whole EXCEPT ![t] = (IF ok THEN @ \cup {f} ELSE @) \ next]
  /\ UNCHANGED <<queueVars, drainVars, formats, twice, forgot, bringVars, calls, crashes>>

EncodeFails(j) ==
  /\ At(j, "encode") /\ GoTo(j, "retry")
  /\ UNCHANGED <<queueVars, drainVars, trackVars, bringVars, calls, crashes>>

\* set_track_derived.
Publish(j) ==
  /\ At(j, "publish") /\ GoTo(j, "finish")
  /\ formats' = [formats EXCEPT ![task[j].i] = @ \cup task[j].made]
  /\ UNCHANGED <<queueVars, drainVars, whole, twice, forgot, bringVars, calls, crashes>>

FinishTask(j) ==
  /\ At(j, "finish") /\ Finish(task[j].i) /\ Gone(j)
  /\ UNCHANGED <<drainVars, trackVars, bringVars, calls, crashes>>

\* retry_later: a read, then one of two updates.
ReadTries(j) ==
  /\ At(j, "retry")
  /\ GoTo(j, IF OutOfTries(task[j].i) THEN "fail" ELSE "requeue")
  /\ UNCHANGED <<queueVars, drainVars, trackVars, bringVars, calls, crashes>>

RetryLater(j) ==
  /\ \/ At(j, "requeue") /\ Requeue(task[j].i)
     \/ At(j, "fail") /\ Fail(task[j].i)
  /\ Gone(j)
  /\ UNCHANGED <<drainVars, trackVars, bringVars, calls, crashes>>

Task(j) ==
  \/ StartTask(j) \/ EncodeEnds(j) \/ EncodeFails(j) \/ Publish(j)
  \/ FinishTask(j) \/ ReadTries(j) \/ RetryLater(j)

-----------------------------------------------------------------------------

Elapse(i) == HoldElapses(i) /\ UNCHANGED <<trackVars, bringVars, task, calls, crashes>>

\* Tasks, the tick and the collectors die; rows and files stay.
Crash ==
  /\ crashes < MaxCrashes /\ crashes' = crashes + 1
  /\ phase' = "rest" /\ slots' = 0 /\ batch' = {}
  /\ forgot' = forgot \cup {collect[c].t : c \in {d \in Collectors : collect[d].pc = "enqueue"}}
  /\ collect' = [c \in Collectors |-> Free]
  /\ task' = [j \in Jobs |-> NoTask]
  /\ UNCHANGED <<queueVars, formats, whole, twice, files, calls>>

Next ==
  \/ Tick \/ Crash
  \/ \E j \in Jobs : Task(j)
  \/ \E t \in Refs : CreateWork(t) \/ Elapse(t)
  \/ \E c \in Collectors :
       \/ MarkReady(c) \/ IngestFile(c) \/ CopyFails(c) \/ EnqueueTranscode(c)
       \/ \E t \in Refs, src \in Sources, ingest \in BOOLEAN : StartCopy(c, t, src, ingest)

Spec == Init /\ [][Next]_vars

\* The tick, the tasks (ffmpeg ends), the collectors and the clock go on.
FairSpec ==
  /\ Spec /\ WF_vars(Tick)
  /\ \A j \in Jobs : WF_vars(Task(j))
  /\ \A c \in Collectors : WF_vars(EnqueueTranscode(c))
  /\ \A t \in Refs : WF_vars(Elapse(t))

-----------------------------------------------------------------------------
(* Properties. *)

\* Two workers never run the same item (work.rs:24-26).
OneWorker == \A j, k \in Live : task[j].i = task[k].i => j = k

\* Claims, recovery, tasks and calls write the same rows, and the slots are
\* counted long before they are spent: all the same the items go through their
\* lifecycle, each in the hands of one task at a time, and no more of them than
\* there are slots (work.rs:22-27, free_slots).
Life     == INSTANCE Lifecycle WITH Items <- Refs, Capacity <- MaxRunning,
                                    state <- qstate, held <- Attended
LifeSpec == Life!Spec

\* A format the row names is on disk, whole, and nobody is writing it
\* (README:362: "`formats` lists them"): encodes and copies fail and die half
\* way, items are posted and run again, and still no transcode writes what is
\* published.  A file brought for a track that has one is another matter: it is
\* copied over the published file (worker.rs:1114, 1130), or published while a
\* transcode writes it, and such tracks are exempt.
FilesWhole ==
  \A t \in Refs \ twice : \A f \in formats[t] :
    /\ f \in whole[t]
    /\ \A j \in Jobs : ~Encodes(j, t, f)
    /\ \A c \in Collectors : ~CopyWrites(c, t, f)

\* An item that was run MAX_ATTEMPTS times without success fails out
\* (work.rs:26-27, 354-357): it is claimed only while tries are left, or once
\* more for each time the process died under it.
FailsOut ==
  [][\A i \in Refs : qstate[i] = "queued" /\ qstate'[i] = "running"
                       => tries[i] < MaxTries + crashes]_vars

\* A track with a lossless or a 320 source gets all the lower formats, or its
\* transcode has failed out (README:400), whatever file is brought for it again
\* and although mark_ready drops the formats it had.  Three tracks go without,
\* and no other: one whose latest file an artist order ingested, which nothing
\* enqueues (worker.rs:1081); one whose enqueue found the item running, by a
\* task that may have read the row before the file was in it (work.rs:114); and
\* one that lost its enqueue to a crash right after mark_ready.
Complete(t) == Missing(formats[t]) = {} \/ qstate[t] = "failed"
Derived == \A t \in Refs : formats[t] # {} ~> Complete(t) \/ t \in forgot
=============================================================================
