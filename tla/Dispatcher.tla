----------------------------- MODULE Dispatcher -----------------------------
(***************************************************************************)
(* The download side of music-api: the worker's tick (worker.rs: reaper,   *)
(* stale recovery, resolve_pending, advance_downloads), the background     *)
(* tasks it spawns (finalize for deemix, yt-dlp for the other sources),    *)
(* the HTTP handlers that order and retry a track, and the external        *)
(* deemix.  They share the tables of Ledger, each SQL statement being one  *)
(* step, so that every await of the code is a point of interleaving.       *)
(*                                                                         *)
(* A call of a db.rs function is op[p] = [at, t]: process p still has to   *)
(* execute the statement named `at` on track t, and then the ones after    *)
(* it.  refresh_orders_for_isrc, which ends each of them, writes only      *)
(* `orders` and is modelled in module Orders.                              *)
(***************************************************************************)
EXTENDS Ledger, FiniteSets

CONSTANTS Deezer,       \* the tracks whose source() is "deezer"
          MaxInflight,  \* MAX_INFLIGHT
          YtSlots,      \* YTDLP_CONCURRENCY
          Jobs,         \* bound: identities for live background tasks
          MaxCalls,     \* bound: HTTP calls that re-touch an ordered track
          MaxCrashes,   \* bound: process crashes
          Lapses,       \* when a lease may lapse: "any" time; "unattended",
                        \* only if nobody works on its track; or "never"
          Recovers      \* when a running item may be found stale: "any" time,
                        \* or "unattended"

ASSUME DeezerAssumption   == Deezer \subseteq Tracks
ASSUME InflightAssumption == MaxInflight \in Nat \ {0}
ASSUME FiniteAssumption   == IsFiniteSet(Tracks)
ASSUME LapsesAssumption   == Lapses \in {"any", "unattended", "never"}
ASSUME RecoversAssumption == Recovers \in {"any", "unattended"}
ASSUME ProcsAssumption    == {"tick", "http"} \cap Jobs = {}

VARIABLES op,          \* the db.rs call each process is in
          phase,       \* where the tick is
          batch,       \* rows or items it has read and not yet handled
          cur,         \* the await it is in, inside one iteration of a loop
          slots,       \* free download slots it has counted
          view,        \* deemix's getQueue answer it works from
          job,         \* live background tasks
          finalizing,  \* AppState.finalizing, the per-ISRC guard
          deemix,      \* external: deemix's own queue
          file,        \* external: the finished file is in its download dir
          calls, crashes,
          disturbed    \* history: the tracks whose call another cut across

tickVars  == <<phase, batch, cur, slots, view>>
taskVars  == <<job, finalizing>>
extVars   == <<deemix, file>>
boundVars == <<calls, crashes>>
codeVars  == <<rowVars, itemVars, op, tickVars, taskVars, extVars, boundVars>>
vars      == <<codeVars, disturbed>>

Procs == {"tick", "http"} \cup Jobs

Statements == {"bump", "decide", "requeue", "retryItem",   \* schedule_retry
               "downloading", "runItem",                   \* mark_downloading
               "ready", "absent", "failed", "finishItem",  \* mark_ready, mark_terminal
               "insert", "reset", "enqueue"}               \* create_order, reset
Idle       == [at |-> "idle"]
Call(s, t) == [at |-> s, t |-> t]
OpSet      == {Idle} \cup [at : Statements, t : Tracks]

Phases == {"rest", "reap", "count", "reconcile", "enqueue", "dispatch",
           "poll", "getQueue", "collect"}
CurSet == {Idle} \cup [at : {"lookup", "spawn"}, t : Tracks]

DeemixStates == {"gone", "running", "done", "failed"}
NoView       == [t \in Tracks |-> "gone"]

NoJob  == [kind |-> "none"]
JobSet == {NoJob} \cup [kind : {"finalize", "ytdlp"}, t : Tracks,
                        pc : {"queued", "running", "leaving"}, retry : BOOLEAN]

TypeOK ==
  /\ LedgerTypeOK
  /\ op \in [Procs -> OpSet]
  /\ phase \in Phases
  /\ batch \subseteq Tracks
  /\ cur \in CurSet
  /\ slots \in 0..MaxInflight
  /\ view \in [Tracks -> DeemixStates]
  /\ job \in [Jobs -> JobSet]
  /\ finalizing \subseteq Tracks
  /\ deemix \in [Tracks -> DeemixStates]
  /\ file \in [Tracks -> BOOLEAN]
  /\ calls \in Nat
  /\ crashes \in Nat
  /\ disturbed \subseteq Tracks

Init ==
  /\ LedgerInit
  /\ op = [p \in Procs |-> Idle]
  /\ phase = "rest" /\ batch = {} /\ cur = Idle /\ slots = 0 /\ view = NoView
  /\ job = [j \in Jobs |-> NoJob] /\ finalizing = {}
  /\ deemix = NoView /\ file = [t \in Tracks |-> FALSE]
  /\ calls = 0 /\ crashes = 0 /\ disturbed = {}

-----------------------------------------------------------------------------
(* The functions of db.rs, one statement per step. *)

At(p, s)   == op[p].at = s
Then(p, s) == op' = [op EXCEPT ![p] = Call(s, op[p].t)]
Return(p)  == op' = [op EXCEPT ![p] = Idle]
Start(p, s, t) == op' = [op EXCEPT ![p] = Call(s, t)]

ScheduleRetry(p) ==
  LET t == op[p].t IN
  \/ At(p, "bump")    /\ BumpAttempts(t) /\ Then(p, "decide")
  \/ /\ At(p, "decide")
     /\ Then(p, IF Exhausted(t) THEN "failed" ELSE "requeue")
     /\ UNCHANGED <<rowVars, itemVars>>
  \/ At(p, "requeue")   /\ Requeue(t)   /\ Then(p, "retryItem")
  \/ At(p, "retryItem") /\ RetryItem(t) /\ Return(p)

MarkDownloading(p) ==
  At(p, "downloading") /\ DispatchRow(op[p].t) /\ Then(p, "runItem")

MarkSettled(p) ==
  /\ op[p].at \in TerminalStates
  /\ SettleRow(op[p].t, op[p].at) /\ Then(p, "finishItem")

SyncItem(p) ==
  \/ At(p, "runItem")    /\ EnsureRunning(op[p].t) /\ Return(p)
  \/ At(p, "finishItem") /\ FinishItem(op[p].t)    /\ Return(p)
  \/ At(p, "enqueue")    /\ Enqueue(op[p].t)       /\ Return(p)

CreateOrder(p) ==
  At(p, "insert") /\ InsertTrack(op[p].t) /\ Then(p, "enqueue")

ResetTrackToPending(p) ==
  /\ At(p, "reset")
  /\ IF Resettable(op[p].t)
       THEN ResetRow(op[p].t) /\ Then(p, "enqueue")
       ELSE Return(p) /\ UNCHANGED <<rowVars, itemVars>>

Execute(p) ==
  /\ \/ ScheduleRetry(p) \/ MarkDownloading(p) \/ MarkSettled(p)
     \/ SyncItem(p) \/ CreateOrder(p) \/ ResetTrackToPending(p)
  /\ UNCHANGED <<tickVars, taskVars, extVars, boundVars>>

-----------------------------------------------------------------------------
(* Background tasks. *)

FreeJobs == {j \in Jobs : job[j] = NoJob}
LiveOn(t) == {j \in Jobs : job[j] # NoJob /\ job[j].t = t}

Spawn(kind, t, retry) ==
  \E j \in FreeJobs :
    job' = [job EXCEPT ![j] = [kind |-> kind, t |-> t,
                               pc |-> "queued", retry |-> retry]]

\* (mutant: no guard)
SpawnFinalizeUnguarded(t, retry) ==
  Spawn("finalize", t, retry) /\ finalizing' = finalizing \cup {t}

\* The per-ISRC guard: a second finalize of a track is not spawned.
SpawnFinalize(t, retry) ==
  IF t \in finalizing
    THEN UNCHANGED taskVars
    ELSE Spawn("finalize", t, retry) /\ finalizing' = finalizing \cup {t}

GoTo(j, pc) == job' = [job EXCEPT ![j].pc = pc]
Leave(j) ==
  /\ job' = [job EXCEPT ![j] = NoJob]
  /\ finalizing' = IF job[j].kind = "finalize"
                   THEN finalizing \ {job[j].t} ELSE finalizing

TaskAt(j, kind, pc) ==
  job[j].kind = kind /\ job[j].pc = pc /\ op[j] = Idle

\* The permit may take any time to come.  Found and copied: mark_ready.  Not
\* found: a retry only when deemix had reported success.
FinalizeSearch(j) ==
  LET t == job[j].t IN
  /\ TaskAt(j, "finalize", "queued")
  /\ \/ file[t] /\ Start(j, "ready", t) /\ GoTo(j, "running")
     \/ ~file[t] /\ job[j].retry /\ Start(j, "bump", t) /\ GoTo(j, "leaving")
  /\ UNCHANGED <<rowVars, itemVars, tickVars, finalizing, extVars, boundVars>>

\* Nothing found and no retry asked for, or the copy failed.
FinalizeGivesUp(j) ==
  /\ TaskAt(j, "finalize", "queued")
  /\ file[job[j].t] \/ ~job[j].retry
  /\ Leave(j)
  /\ UNCHANGED <<rowVars, itemVars, op, tickVars, extVars, boundVars>>

\* Once ready, the source is dropped from deemix's download directory.
FinalizeRemove(j) ==
  /\ TaskAt(j, "finalize", "running")
  /\ file' = [file EXCEPT ![job[j].t] = FALSE]
  /\ GoTo(j, "leaving")
  /\ UNCHANGED <<rowVars, itemVars, op, tickVars, finalizing, deemix, boundVars>>

YtRunning == {j \in Jobs : job[j].kind = "ytdlp" /\ job[j].pc # "queued"}

\* A permit of ytdlp_sem; the lease is refreshed now that the job starts.
YtdlpStart(j) ==
  /\ TaskAt(j, "ytdlp", "queued")
  /\ Cardinality(YtRunning) < YtSlots
  /\ RenewLease(job[j].t)
  /\ GoTo(j, "running")
  /\ UNCHANGED <<op, tickVars, finalizing, extVars, boundVars>>

YtdlpFinish(j) ==
  /\ TaskAt(j, "ytdlp", "running")
  /\ \E s \in {"ready", "bump"} : Start(j, s, job[j].t)
  /\ GoTo(j, "leaving")
  /\ UNCHANGED <<rowVars, itemVars, tickVars, finalizing, extVars, boundVars>>

TaskEnds(j) ==
  /\ job[j] # NoJob /\ job[j].pc = "leaving" /\ op[j] = Idle
  /\ Leave(j)
  /\ UNCHANGED <<rowVars, itemVars, op, tickVars, extVars, boundVars>>

Task(j) ==
  \/ FinalizeSearch(j) \/ FinalizeGivesUp(j) \/ FinalizeRemove(j)
  \/ YtdlpStart(j) \/ YtdlpFinish(j) \/ TaskEnds(j)

WorkedOn(t) ==
  \/ LiveOn(t) # {}
  \/ \E p \in Procs : op[p] # Idle /\ op[p].t = t
  \/ cur # Idle /\ cur.t = t

-----------------------------------------------------------------------------
(* The tick.  It runs its phases in order, one statement or await a step.  *)

TickAt(ph) == phase = ph /\ op["tick"] = Idle /\ cur = Idle
Take(t)    == t \in batch /\ batch' = batch \ {t}

\* DOWNLOAD_TIMEOUT_SECS bounds the wait for a permit and the task together by
\* WORK_STALE_SECS at its default, but it may be set to any time.
Ages == {t \in Tracks : Recovers = "any" \/ ~WorkedOn(t)}

\* The sleep ends; recover_expired_leases reads the lapsed rows.
TickStart ==
  /\ TickAt("rest")
  /\ phase' = "reap" /\ batch' = Expired
  /\ ItemsAge(Ages)
  /\ UNCHANGED <<op, cur, slots, view, taskVars, extVars, boundVars>>

ReapLease(t) ==
  /\ TickAt("reap") /\ Take(t)
  /\ Start("tick", "bump", t)
  /\ UNCHANGED <<rowVars, itemVars, phase, cur, slots, view, taskVars, extVars, boundVars>>

ReapStale ==
  /\ TickAt("reap") /\ batch = {}
  /\ RecoverStale(Ages)
  /\ phase' = "count"
  /\ UNCHANGED <<op, batch, cur, slots, view, taskVars, extVars, boundVars>>

\* resolve_pending: the in-flight cap.
\* (mutant: off by one)
FreeOneMore == MaxInflight - Cardinality(Downloading) + 1
Free == MaxInflight - Cardinality(Downloading)

CountSlots ==
  /\ TickAt("count")
  /\ IF Free <= 0 THEN phase' = "poll" /\ slots' = 0
                  ELSE phase' = "reconcile" /\ slots' = Free
  /\ UNCHANGED <<rowVars, itemVars, op, batch, cur, view, taskVars, extVars, boundVars>>

ReadPending ==
  /\ TickAt("reconcile")
  /\ phase' = "enqueue" /\ batch' = PendingWork
  /\ UNCHANGED <<rowVars, itemVars, op, cur, slots, view, taskVars, extVars, boundVars>>

Reconcile(t) ==
  /\ TickAt("enqueue") /\ Take(t)
  /\ Enqueue(t)
  /\ UNCHANGED <<op, phase, cur, slots, view, taskVars, extVars, boundVars>>

\* work::next: as many due items as there are slots.  Which ones is left open
\* here (priority orders them, see WorkQueue).
NextItems ==
  /\ TickAt("enqueue") /\ batch = {}
  /\ \E S \in SUBSET DueItems :
       /\ Cardinality(S) <= slots
       /\ S = DueItems \/ Cardinality(S) = slots
       /\ batch' = S
       /\ phase' = IF S = {} THEN "poll" ELSE "dispatch"
  /\ slots' = 0
  /\ UNCHANGED <<rowVars, itemVars, op, cur, view, taskVars, extVars, boundVars>>

\* get_track: what is read here decides the iteration, whatever happens to the
\* row during the awaits that follow.
ReadTrack(t) ==
  /\ TickAt("dispatch") /\ Take(t)
  /\ \/ /\ state[t] \in TerminalStates \cup {"none"}
        /\ Start("tick", "finishItem", t) /\ UNCHANGED cur
     \/ /\ state[t] = "downloading"
        /\ Start("tick", "runItem", t) /\ UNCHANGED cur
     \/ /\ state[t] = "pending" /\ t \notin Deezer
        /\ Start("tick", "downloading", t) /\ cur' = Call("spawn", t)
     \/ /\ state[t] = "pending" /\ t \in Deezer
        /\ cur' = Call("lookup", t) /\ UNCHANGED op
  /\ UNCHANGED <<rowVars, itemVars, phase, slots, view, taskVars, extVars, boundVars>>

\* The Deezer lookup and deemix's addToQueue have answered: absent (or not
\* streamable), an error or a rejection, or accepted.
Answered(t) ==
  /\ cur = Call("lookup", t) /\ op["tick"] = Idle
  /\ cur' = Idle
  /\ \/ \E s \in {"absent", "bump"} : Start("tick", s, t) /\ UNCHANGED deemix
     \/ /\ Start("tick", "downloading", t)
        /\ deemix' = [deemix EXCEPT ![t] = "running"]
  /\ UNCHANGED <<rowVars, itemVars, phase, batch, slots, view, taskVars, file, boundVars>>

\* No deemix session (login failed or backed off): the item waits its turn.
NotLoggedIn(t) ==
  /\ cur = Call("lookup", t) /\ op["tick"] = Idle
  /\ cur' = Idle
  /\ UNCHANGED <<rowVars, itemVars, op, phase, batch, slots, view, taskVars, extVars, boundVars>>

SpawnNonDeezer(t) ==
  /\ cur = Call("spawn", t) /\ op["tick"] = Idle
  /\ cur' = Idle
  /\ Spawn("ytdlp", t, FALSE)
  /\ UNCHANGED <<rowVars, itemVars, op, phase, batch, slots, view, finalizing, extVars, boundVars>>

\* advance_downloads: the rows are read before the queue is asked for.
ReadInflight ==
  /\ \/ TickAt("poll")
     \/ TickAt("dispatch") /\ batch = {}
  /\ batch' = Downloading \cap Deezer
  /\ phase' = IF batch' = {} THEN "rest" ELSE "getQueue"
  /\ UNCHANGED <<rowVars, itemVars, op, cur, slots, view, taskVars, extVars, boundVars>>

GetQueue ==
  /\ TickAt("getQueue")
  /\ \/ view' = deemix /\ phase' = "collect" /\ UNCHANGED batch
     \/ phase' = "rest" /\ batch' = {} /\ UNCHANGED view
  /\ UNCHANGED <<rowVars, itemVars, op, cur, slots, taskVars, extVars, boundVars>>

Collect(t) ==
  /\ TickAt("collect") /\ Take(t)
  /\ \/ /\ view[t] = "done" /\ SpawnFinalize(t, TRUE)
        /\ UNCHANGED <<rowVars, itemVars, op>>
     \/ /\ view[t] = "gone" /\ SpawnFinalize(t, FALSE)
        /\ UNCHANGED <<rowVars, itemVars, op>>
     \/ /\ view[t] = "failed" /\ Start("tick", "bump", t)
        /\ UNCHANGED <<rowVars, itemVars, taskVars>>
     \/ /\ view[t] = "running" /\ RenewLease(t)
        /\ UNCHANGED <<op, taskVars>>
  /\ UNCHANGED <<phase, cur, slots, view, extVars, boundVars>>

CollectDone ==
  /\ TickAt("collect") /\ batch = {}
  /\ phase' = "rest" /\ view' = NoView
  /\ UNCHANGED <<rowVars, itemVars, op, batch, cur, slots, taskVars, extVars, boundVars>>

Tick ==
  \/ TickStart \/ ReapStale \/ CountSlots \/ ReadPending \/ NextItems
  \/ ReadInflight \/ GetQueue \/ CollectDone
  \/ \E t \in Tracks :
       \/ ReapLease(t) \/ Reconcile(t) \/ ReadTrack(t) \/ Answered(t)
       \/ NotLoggedIn(t) \/ SpawnNonDeezer(t) \/ Collect(t)

-----------------------------------------------------------------------------
(* HTTP handlers, one call at a time; re-touching an ordered track is      *)
(* bounded by MaxCalls.                                                    *)

Order(t) ==
  /\ op["http"] = Idle
  /\ \/ state[t] = "none" /\ UNCHANGED calls
     \/ state[t] # "none" /\ calls < MaxCalls /\ calls' = calls + 1
  /\ Start("http", "insert", t)
  /\ UNCHANGED <<rowVars, itemVars, tickVars, taskVars, extVars, crashes>>

RetryIsrc(t) ==
  /\ op["http"] = Idle
  /\ state[t] # "none" /\ calls < MaxCalls /\ calls' = calls + 1
  /\ Start("http", "reset", t)
  /\ UNCHANGED <<rowVars, itemVars, tickVars, taskVars, extVars, crashes>>

-----------------------------------------------------------------------------
(* The environment: deemix, the clock, the process dying.                  *)

\* A download that ends well may still leave no file finalize can find.
DeemixEnds(t) ==
  /\ deemix[t] = "running"
  /\ \/ deemix' = [deemix EXCEPT ![t] = "done"]
        /\ \E found \in BOOLEAN : file' = [file EXCEPT ![t] = @ \/ found]
     \/ deemix' = [deemix EXCEPT ![t] = "failed"] /\ UNCHANGED file
  /\ UNCHANGED <<rowVars, itemVars, op, tickVars, taskVars, boundVars>>

\* Ended items are evicted, and a restarted deemix forgets all of them.
DeemixForgets(t) ==
  /\ deemix[t] # "gone"
  /\ deemix' = [deemix EXCEPT ![t] = "gone"]
  /\ UNCHANGED <<rowVars, itemVars, op, tickVars, taskVars, file, boundVars>>

Clock(t) ==
  /\ \/ LeaseLapses(t) /\ Lapses # "never"
        /\ (Lapses = "unattended" => ~WorkedOn(t))
     \/ BackoffElapses(t)
     \/ HoldElapses(t)
  /\ UNCHANGED <<op, tickVars, taskVars, extVars, boundVars>>

\* Tables and deemix survive; everything in memory is gone.
Crash ==
  /\ crashes < MaxCrashes
  /\ crashes' = crashes + 1
  /\ op' = [p \in Procs |-> Idle]
  /\ phase' = "rest" /\ batch' = {} /\ cur' = Idle /\ slots' = 0 /\ view' = NoView
  /\ job' = [j \in Jobs |-> NoJob] /\ finalizing' = {}
  /\ UNCHANGED <<rowVars, itemVars, extVars, calls>>

-----------------------------------------------------------------------------
(* A history for the properties, which no step depends on.  The code means *)
(* one process at a time to work on a track; nothing in it makes sure.  A  *)
(* track is disturbed from when it is not so until it is at rest again.    *)

\* An insert or enqueue of an ordered track leaves the work on it alone.
InHand(p, t) ==
  \/ op[p] # Idle /\ op[p].t = t /\ op[p].at \notin {"insert", "enqueue"}
  \/ p = "tick" /\ cur # Idle /\ cur.t = t
  \/ p \in Jobs /\ job[p] # NoJob /\ job[p].t = t /\ job[p].pc # "leaving"

\* Two have it in hand at once: a lease lapsed under a live task, an item was
\* recovered under one, a user asks for a retry in the middle of a call.
Contended == {t \in Tracks : \E p, q \in Procs : p # q /\ InHand(p, t) /\ InHand(q, t)}

\* The tick takes it up from a list of rows in flight, and the row has settled
\* since the list was read.
TakenLate == {t \in Tracks \ Downloading :
                /\ phase \in {"reap", "collect"}
                /\ \E p \in Procs \ {"http"} : ~InHand(p, t) /\ InHand(p, t)'}

\* The process died in the middle of a call.
CutOff == {t \in Tracks : crashes' # crashes /\ \E p \in Procs : op[p] # Idle /\ op[p].t = t}

\* A user's retry resets a row in flight; its item stays in flight.
Reset == {t \in Downloading : op["http"] = Call("reset", t) /\ op'["http"] # op["http"]}

AtRest(t) ==
  /\ state[t] \in TerminalStates /\ item[t] # "running"
  /\ \A p \in Procs : ~InHand(p, t)

Witness ==
  disturbed' = {t \in disturbed \cup Contended' \cup TakenLate \cup CutOff \cup Reset : ~AtRest(t)'}

Step ==
  \/ \E p \in Procs : Execute(p)
  \/ \E j \in Jobs : Task(j)
  \/ Tick
  \/ \E t \in Tracks : Order(t) \/ RetryIsrc(t)
  \/ \E t \in Tracks : DeemixEnds(t) \/ DeemixForgets(t) \/ Clock(t)
  \/ Crash

Next == Step /\ Witness

Spec == Init /\ [][Next]_vars

\* Statements, tasks, the tick and the clock go on; deemix's downloads end;
\* and a deemix session is not refused for ever, so a lookup that is made
\* again and again is answered.
Fairness ==
  /\ WF_codeVars(Tick \/ Execute("tick")) /\ WF_codeVars(Execute("http"))
  /\ \A j \in Jobs : WF_codeVars(Task(j) \/ Execute(j))
  /\ \A t \in Tracks : SF_codeVars(Answered(t)) /\ WF_codeVars(DeemixEnds(t)) /\ SF_codeVars(Clock(t))

FairSpec == Spec /\ Fairness

-----------------------------------------------------------------------------
(* Properties.  The runs say under which of the bounds and of Lapses       *)
(* each of them holds.                                                     *)

\* At most MAX_INFLIGHT rows are `downloading` at once, although the cap is
\* counted long before the rows are marked and tasks settle rows in between
\* (worker.rs:160).
InflightCap == Cardinality(Downloading) <= MaxInflight

\* What the ledger promises to its surroundings: a pool of MaxInflight slots,
\* taken and given back one at a time; nothing is dispatched into a full pool.
Pool     == INSTANCE SlotPool WITH Items <- Tracks, Capacity <- MaxInflight,
                                   held <- Downloading
PoolSpec == Pool!Spec

\* The per-ISRC guard does its work and never leaks: no two live finalize
\* tasks work on one track, and a track is guarded exactly while one does -
\* else its download could never be collected again (worker.rs:497-533).
Finalizers    == {j \in Jobs : job[j].kind = "finalize"}
FinalizeGuard ==
  /\ \A j, k \in Finalizers : job[j].t = job[k].t => j = k
  /\ finalizing = {job[j].t : j \in Finalizers}

\* Of one worker a track is dispatched only while failures are left in its
\* budget (db.rs:512: terminal once max_attempts is reached), whatever lapses,
\* crashes and retries it has been through.
RetryBudget ==
  [][\A t \in Tracks \ disturbed :
       state[t] # "downloading" /\ state'[t] = "downloading" => attempts[t] < MaxAttempts]_vars

\* Once ready, a track stays ready.  This is the repository's claim ("stored
\* once (keyed by ISRC) and kept", music-api/README.md:495), which the run
\* ready_regresses refutes.
ReadyKept ==
  [][\A t \in Tracks : state[t] = "ready" => state'[t] = "ready"]_vars

\* What is left of it: ready is undone in no other way than by a second worker
\* on the track or by the tick taking it up late (db.rs:517 has no guard on the
\* state; worker.rs:497-533).
ReadyKeptAlone ==
  [][\A t \in Tracks \ disturbed : state[t] = "ready" => state'[t] = "ready"]_vars

\* The item of an undisturbed track is in lockstep with its row whenever no call
\* on it is in progress: a running item has a downloading row, and a downloading
\* row's item is not settled (work.rs:259-261, db.rs:529).
Quiet(t) == \A p \in Procs : op[p] # Idle => op[p].t # t
Lockstep ==
  \A t \in Tracks \ disturbed : Quiet(t) =>
    /\ state[t] = "downloading" => item[t] \in {"queued", "running"}
    /\ item[t] = "running" => state[t] = "downloading"

\* Whatever races, crashes and HTTP calls happen, a track ends up settled or
\* stranded: pending, its item running with nobody at work on it.  No other
\* state swallows a track.
Settled(t)  == state[t] \in TerminalStates
Stranded(t) == state[t] = "pending" /\ item[t] = "running"
SettlesOrStrands ==
  \A t \in Tracks : <>[](state[t] = "none" \/ Settled(t) \/ Stranded(t))

\* Every ordered track is settled in the end, but for a disturbed one whose item
\* was left running beside a row that waits (worker.rs:37, db.rs:517-529).
Settles ==
  \A t \in Tracks : state[t] = "pending" ~> Settled(t) \/ (t \in disturbed /\ Stranded(t))

\* An item left running by a process that died is queued again or settled
\* (worker.rs:37: "stranded in `running` longer than this are re-queued").
StaleRecovered ==
  \A t \in Tracks : Stranded(t) ~> ~Stranded(t)
=============================================================================
