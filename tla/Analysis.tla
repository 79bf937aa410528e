------------------------------ MODULE Analysis ------------------------------
(***************************************************************************)
(* BPM/key analysis (music-api/src/worker.rs, kind `analyze`): each tick   *)
(* reads a batch of ready FLACs without an essentia row, enqueues what has *)
(* no item yet, and drains the queue; a background task asks the analyzer  *)
(* and writes the row.  A per-track guard keeps a second task away, and    *)
(* every failure makes all of it wait for analysis_backoff.                *)
(***************************************************************************)
EXTENDS WorkQueue

CONSTANTS Jobs,        \* bound: identities for live tasks
          Batch,       \* ANALYSIS_BATCH
          MaxCalls,    \* bound: POST /work and POST /metadata calls
          MaxCrashes   \* bound: process crashes

ASSUME BatchAssumption == Batch \in Nat \ {0}

VARIABLES ready,      \* ready FLACs
          essentia,   \* tracks whose metadata row says source = 'essentia'
          analyzing,  \* the guard, in memory
          got,        \* the item the tick claimed last, before its spawn
          task, blocked, calls, crashes

rowVars == <<ready, essentia>>
vars == <<queueVars, drainVars, rowVars, analyzing, got, task, blocked, calls, crashes>>

NoTask == [pc |-> "none"]
TaskSet ==
  {NoTask} \cup
  [pc : {"permit", "ask", "store", "finish", "retry", "requeue", "fail", "release"},
   i : Refs, flac : BOOLEAN]

TypeOK ==
  /\ QueueTypeOK
  /\ ready \subseteq Refs /\ essentia \subseteq Refs /\ analyzing \subseteq Refs
  /\ got \subseteq Refs /\ Cardinality(got) <= 1
  /\ task \in [Jobs -> TaskSet]
  /\ blocked \in BOOLEAN
  /\ calls \in Nat /\ crashes \in Nat

Init ==
  /\ QueueInit
  /\ ready = {} /\ essentia = {}
  /\ analyzing = {} /\ got = {}
  /\ task = [j \in Jobs |-> NoTask]
  /\ blocked = FALSE /\ calls = 0 /\ crashes = 0

Live  == {j \in Jobs : task[j] # NoTask}
Attended == {task[j].i : j \in Live}

-----------------------------------------------------------------------------
(* Rows. *)

\* finalize, ingest_one_file: a track becomes ready, with a FLAC.
MarkReady(t) ==
  /\ t \notin ready /\ ready' = ready \cup {t}
  /\ UNCHANGED <<queueVars, drainVars, essentia, analyzing, got, task, blocked, calls, crashes>>

\* POST /metadata with a source of its own: the row keeps its values and takes
\* the new source.
PushMetadata(t) ==
  /\ calls < MaxCalls /\ calls' = calls + 1
  /\ essentia' = essentia \ {t}
  /\ UNCHANGED <<queueVars, drainVars, ready, analyzing, got, task, blocked, crashes>>

CreateWork(t) ==
  /\ calls < MaxCalls /\ calls' = calls + 1
  /\ \E p \in Prios : Enqueue(t, p)
  /\ UNCHANGED <<drainVars, rowVars, analyzing, got, task, blocked, crashes>>

-----------------------------------------------------------------------------
(* The tick. *)

Open == ready \ essentia

\* ready_flac_unaanalyzed.  It orders by the highest priority of the track's
\* orders, then by updated_at, which orders and published formats move at any
\* time: the batch may be any.
\* (mutant: one fewer than asked for)
UnanalysedShort ==
  {S \in SUBSET Open : Cardinality(S) + 1 = Batch \/ (S = Open /\ Cardinality(S) + 1 < Batch)}
Unanalysed ==
  {S \in SUBSET Open : Cardinality(S) = Batch \/ (S = Open /\ Cardinality(S) < Batch)}

ReadUnanalysed ==
  /\ phase = "seed"
  /\ IF blocked THEN phase' = "rest" /\ UNCHANGED batch
                ELSE phase' = "fill" /\ batch' \in Unanalysed
  /\ UNCHANGED <<slots, queueVars>>

Fill(i) ==
  /\ phase = "fill" /\ i \in batch /\ batch' = batch \ {i}
  /\ EnqueueIfAbsent(i, 0)
  /\ UNCHANGED <<phase, slots>>

FillDone ==
  /\ phase = "fill" /\ batch = {} /\ phase' = "count"
  /\ UNCHANGED <<slots, batch, queueVars>>

ClaimTrack(i) ==
  /\ got = {} /\ Claim(i) /\ got' = {i}
  /\ UNCHANGED <<rowVars, analyzing, task, blocked, calls, crashes>>

Drain ==
  /\ got = {}
  /\ \/ Wake(Attended, "seed") \/ ReadUnanalysed \/ FillDone
     \/ CountSlots \/ NextItems \/ DrainDone
     \/ \E i \in Refs : Fill(i) \/ SkipClaimed(i)
  /\ UNCHANGED <<rowVars, analyzing, got, task, blocked, calls, crashes>>

\* The row is read and the guard is tried.  A guarded item is left running; a
\* ref that is no ready FLAC may be no track at all.
\* (mutant: the guard is not looked at)
SpawnUnguarded(i) ==
  /\ i \in got /\ got' = {} /\ analyzing' = analyzing \cup {i}
  /\ \E j \in Jobs \ Live :
       task' = [task EXCEPT ![j] = [pc |-> "permit", i |-> i, flac |-> i \in ready]]
  /\ UNCHANGED <<queueVars, drainVars, rowVars, blocked, calls, crashes>>
SpawnAnalysis(i) ==
  /\ i \in got /\ got' = {}
  /\ \/ /\ i \in analyzing
        /\ UNCHANGED <<queueVars, analyzing, task>>
     \/ /\ i \notin analyzing /\ analyzing' = analyzing \cup {i}
        /\ \E j \in Jobs \ Live :
             task' = [task EXCEPT ![j] = [pc |-> "permit", i |-> i, flac |-> i \in ready]]
        /\ UNCHANGED queueVars
     \/ /\ i \notin ready /\ Fail(i)
        /\ UNCHANGED <<analyzing, task>>
  /\ UNCHANGED <<drainVars, rowVars, blocked, calls, crashes>>

Tick == Drain \/ \E i \in Refs : ClaimTrack(i) \/ SpawnAnalysis(i)

-----------------------------------------------------------------------------
(* Tasks. *)

At(j, pc) == task[j].pc = pc
GoTo(j, pc) == task' = [task EXCEPT ![j].pc = pc]

\* analysis_sem.
Permitted == {j \in Live : ~At(j, "permit")}
StartTask(j) ==
  /\ At(j, "permit") /\ Cardinality(Permitted) < MaxRunning /\ GoTo(j, "ask")
  /\ UNCHANGED <<queueVars, drainVars, rowVars, analyzing, got, blocked, calls, crashes>>

Answered(j) ==
  /\ At(j, "ask") /\ task[j].flac /\ GoTo(j, "store")
  /\ UNCHANGED <<queueVars, drainVars, rowVars, analyzing, got, blocked, calls, crashes>>

\* No FLAC, no answer, or an empty one: note_failure.
NotAnswered(j) ==
  /\ At(j, "ask") /\ GoTo(j, "retry")
  /\ blocked' = TRUE
  /\ UNCHANGED <<queueVars, drainVars, rowVars, analyzing, got, calls, crashes>>

\* upsert_metadata, note_success.
Store(j) ==
  /\ At(j, "store") /\ GoTo(j, "finish")
  /\ essentia' = essentia \cup {task[j].i}
  /\ blocked' = FALSE
  /\ UNCHANGED <<queueVars, drainVars, ready, analyzing, got, calls, crashes>>

\* retry_later: a read, then one of two updates.
ReadTries(j) ==
  /\ At(j, "retry")
  /\ GoTo(j, IF OutOfTries(task[j].i) THEN "fail" ELSE "requeue")
  /\ UNCHANGED <<queueVars, drainVars, rowVars, analyzing, got, blocked, calls, crashes>>

SettleItem(j) ==
  /\ \/ At(j, "finish") /\ Finish(task[j].i)
     \/ At(j, "requeue") /\ Requeue(task[j].i)
     \/ At(j, "fail") /\ Fail(task[j].i)
  /\ GoTo(j, "release")
  /\ UNCHANGED <<drainVars, rowVars, analyzing, got, blocked, calls, crashes>>

Release(j) ==
  /\ At(j, "release")
  /\ analyzing' = analyzing \ {task[j].i}
  /\ task' = [task EXCEPT ![j] = NoTask]
  /\ UNCHANGED <<queueVars, drainVars, rowVars, got, blocked, calls, crashes>>

Task(j) ==
  \/ StartTask(j) \/ Answered(j) \/ NotAnswered(j) \/ Store(j)
  \/ ReadTries(j) \/ SettleItem(j) \/ Release(j)

-----------------------------------------------------------------------------

Elapse(i) ==
  /\ HoldElapses(i)
  /\ UNCHANGED <<rowVars, analyzing, got, task, blocked, calls, crashes>>

Unblock ==
  /\ blocked /\ blocked' = FALSE
  /\ UNCHANGED <<queueVars, drainVars, rowVars, analyzing, got, task, calls, crashes>>

Crash ==
  /\ crashes < MaxCrashes /\ crashes' = crashes + 1
  /\ phase' = "rest" /\ slots' = 0 /\ batch' = {} /\ got' = {}
  /\ analyzing' = {} /\ blocked' = FALSE
  /\ task' = [j \in Jobs |-> NoTask]
  /\ UNCHANGED <<queueVars, rowVars, calls>>

Next ==
  \/ Tick \/ Unblock \/ Crash
  \/ \E j \in Jobs : Task(j)
  \/ \E t \in Refs :
       MarkReady(t) \/ PushMetadata(t) \/ CreateWork(t) \/ Elapse(t)

Spec == Init /\ [][Next]_vars

\* The tick and the clock go on, an analyzer call ends, and the mutex is fair.
FairSpec ==
  /\ Spec /\ WF_vars(Tick) /\ WF_vars(Unblock)
  /\ \A j \in Jobs : WF_vars(Task(j))
  /\ \A t \in Refs : WF_vars(Elapse(t))

-----------------------------------------------------------------------------
(* Properties. *)

\* A track is guarded exactly while one task analyses it: a guard that leaked
\* would end its analysis until a restart, one dropped early would let a
\* recovered item be analysed twice at once (worker.rs:1182-1188).
GuardExact ==
  /\ analyzing = Attended
  /\ \A j, k \in Live : task[j].i = task[k].i => j = k

\* The items go through their lifecycle, each in the hands of the tick that
\* claimed it or of one task at a time (work.rs:22-27).
InHand   == got \cup {task[j].i : j \in {k \in Live : ~At(k, "release")}}
Life     == INSTANCE Lifecycle WITH Items <- Refs, Capacity <- MaxRunning,
                                    state <- qstate, held <- InHand
LifeSpec == Life!Spec

\* A permanently failed item is not resurrected but by POST /work
\* (worker.rs:1143).
FailedKept ==
  [][\A i \in Refs : qstate[i] = "failed" /\ qstate'[i] # "failed" => calls' # calls]_vars

\* Every ready FLAC is analysed, or its analysis fails out (worker.rs:1142,
\* README:394), although a tick sees no more than a batch of those that wait:
\* tracks that are still tried make room sooner or later, one that a POST
\* /metadata has given another source goes without, and the others wait for good
\* only if a whole batch of tracks is settled without a row: failed out, or such
\* a POST's.  The reconcile reads these every tick and enqueues none of them
\* (db.rs:1013, enqueue_if_absent).
Settled(t) == qstate[t] = "failed" \/ (qstate[t] = "done" /\ calls > 0)
Stuck      == {t \in Open : Settled(t)}
Analysed ==
  \A t \in Refs :
    t \in ready ~> t \in essentia \/ Settled(t) \/ Cardinality(Stuck) >= Batch

\* Once there is an essentia row, the track is never analysed again
\* (db.rs:1013-1014), but for what the process was at when it died and for
\* what POST /work asks for.
AnalysedOnce ==
  [][\A j \in Jobs : At(j, "permit") /\ task'[j].pc = "ask"
                       => task[j].i \notin essentia \/ crashes + calls > 0]_vars
=============================================================================
