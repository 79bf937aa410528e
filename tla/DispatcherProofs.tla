-------------------------- MODULE DispatcherProofs --------------------------
(***************************************************************************)
(* Theorems about Dispatcher, for every number of tracks, tasks, slots,    *)
(* attempts and crashes.                                                   *)
(*                                                                         *)
(* Types come first.  The in-flight cap is counted in one step of the tick *)
(* and spent in later ones, so InflightCap alone is not inductive.  CapInv *)
(* adds what the tick still intends to dispatch: rows in flight together   *)
(* with the claimed tracks never exceed the cap, and between counting and  *)
(* claiming the counted slots fit beside the rows in flight.  The guard of *)
(* finalize is inductive as it stands.  Budget, ready and lockstep rest on *)
(* one fact: as long as one process at a time has a track in hand, it      *)
(* finds row and item as it left them.  OwnInv states that for one track   *)
(* at a time, at every point of every call, and nothing about a track that *)
(* is disturbed; it is regained once the track is at rest.                 *)
(***************************************************************************)
EXTENDS Dispatcher, FiniteSetTheorems, TLAPS

-----------------------------------------------------------------------------
(* Types. *)

\* A process in the middle of a call works on a track.
LEMMA OpTrack ==
  ASSUME TypeOK, NEW p \in Procs, op[p] # Idle
  PROVE  op[p].at \in Statements /\ op[p].t \in Tracks
  BY DEF TypeOK, OpSet

LEMMA OpAt ==
  ASSUME TypeOK, NEW p \in Procs, NEW s \in Statements, op[p].at = s
  PROVE  op[p] # Idle /\ op[p].t \in Tracks
  BY OpTrack DEF Idle, Statements

LEMMA OpTypes ==
  ASSUME TypeOK, NEW p \in Procs
  PROVE  /\ Return(p) => op' \in [Procs -> OpSet]
         /\ \A s \in Statements, t \in Tracks :
              Start(p, s, t) => op' \in [Procs -> OpSet]
         /\ \A s \in Statements :
              op[p] # Idle /\ Then(p, s) => op' \in [Procs -> OpSet]
  BY OpTrack DEF TypeOK, OpSet, Return, Start, Then, Call

\* Each statement on the tables keeps their types.
LEMMA StatementTypes ==
  ASSUME LedgerTypeOK, NEW t \in Tracks
  PROVE  /\ InsertTrack(t) => LedgerTypeOK'
         /\ BumpAttempts(t) => LedgerTypeOK'
         /\ Requeue(t) => LedgerTypeOK'
         /\ DispatchRow(t) => LedgerTypeOK'
         /\ RenewLease(t) => LedgerTypeOK'
         /\ \A s \in TerminalStates : SettleRow(t, s) => LedgerTypeOK'
         /\ ResetRow(t) => LedgerTypeOK'
         /\ Enqueue(t) => LedgerTypeOK'
         /\ EnsureRunning(t) => LedgerTypeOK'
         /\ FinishItem(t) => LedgerTypeOK'
         /\ RetryItem(t) => LedgerTypeOK'
         /\ LeaseLapses(t) => LedgerTypeOK'
         /\ BackoffElapses(t) => LedgerTypeOK'
         /\ HoldElapses(t) => LedgerTypeOK'
<1> USE MaxAttemptsAssumption, StaleTicksAssumption
    DEF LedgerTypeOK, States, TerminalStates, ItemStates, rowVars, itemVars
<1>1. InsertTrack(t) => LedgerTypeOK'
  BY DEF InsertTrack
<1>2. BumpAttempts(t) => LedgerTypeOK'
  BY DEF BumpAttempts
<1>3. Requeue(t) => LedgerTypeOK'
  BY DEF Requeue
<1>4. DispatchRow(t) => LedgerTypeOK'
  BY DEF DispatchRow
<1>5. RenewLease(t) => LedgerTypeOK'
  BY DEF RenewLease
<1>6. \A s \in TerminalStates : SettleRow(t, s) => LedgerTypeOK'
  BY DEF SettleRow
<1>7. ResetRow(t) => LedgerTypeOK'
  BY DEF ResetRow
<1>8. Enqueue(t) => LedgerTypeOK'
  BY DEF Enqueue
<1>9. EnsureRunning(t) => LedgerTypeOK'
  BY DEF EnsureRunning
<1>10. FinishItem(t) => LedgerTypeOK'
  BY DEF FinishItem
<1>11. RetryItem(t) => LedgerTypeOK'
  BY DEF RetryItem
<1>12. LeaseLapses(t) => LedgerTypeOK'
  BY DEF LeaseLapses
<1>13. BackoffElapses(t) => LedgerTypeOK'
  BY DEF BackoffElapses
<1>14. HoldElapses(t) => LedgerTypeOK'
  BY DEF HoldElapses
<1> QED BY <1>1, <1>2, <1>3, <1>4, <1>5, <1>6, <1>7, <1>8, <1>9, <1>10,
           <1>11, <1>12, <1>13, <1>14

LEMMA TableTypes ==
  ASSUME LedgerTypeOK, NEW S
  PROVE  /\ RecoverStale(S) => LedgerTypeOK'
         /\ ItemsAge(S) => LedgerTypeOK'
         /\ UNCHANGED <<rowVars, itemVars>> => LedgerTypeOK'
<1> USE MaxAttemptsAssumption, StaleTicksAssumption
    DEF LedgerTypeOK, States, TerminalStates, ItemStates, rowVars, itemVars
<1>1. ASSUME RecoverStale(S) PROVE LedgerTypeOK'
  <2>1. item' \in [Tracks -> ItemStates]
    BY <1>1 DEF RecoverStale
  <2>2. held' \in [Tracks -> BOOLEAN]
    BY <1>1 DEF RecoverStale
  <2>3. age' \in [Tracks -> 0..StaleTicks]
    BY <1>1 DEF RecoverStale
  <2> QED BY <1>1, <2>1, <2>2, <2>3 DEF RecoverStale
<1>2. ItemsAge(S) => LedgerTypeOK'
  BY DEF ItemsAge
<1>3. UNCHANGED <<rowVars, itemVars>> => LedgerTypeOK'
  OBVIOUS
<1> QED BY <1>1, <1>2, <1>3

\* One statement of a call.
LEMMA ExecuteTypes ==
  ASSUME TypeOK, disturbed' \subseteq Tracks, NEW p \in Procs, Execute(p)
  PROVE  TypeOK'
<1>1. LedgerTypeOK' /\ op' \in [Procs -> OpSet]
  <2>1. CASE ScheduleRetry(p)
    <3>1. op[p] # Idle /\ op[p].t \in Tracks
      BY <2>1, OpAt DEF ScheduleRetry, At, Statements
    <3>2. LedgerTypeOK'
      BY <2>1, <3>1, StatementTypes, TableTypes DEF ScheduleRetry, TypeOK
    <3>3. op' \in [Procs -> OpSet]
      BY <2>1, <3>1, OpTypes DEF ScheduleRetry, Statements
    <3> QED BY <3>2, <3>3
  <2>2. CASE MarkDownloading(p)
    <3>1. op[p] # Idle /\ op[p].t \in Tracks
      BY <2>2, OpAt DEF MarkDownloading, At, Statements
    <3> QED BY <2>2, <3>1, StatementTypes, OpTypes DEF MarkDownloading, TypeOK, Statements
  <2>3. CASE MarkSettled(p)
    <3>1. op[p] # Idle /\ op[p].t \in Tracks
      BY <2>3, OpAt DEF MarkSettled, TerminalStates, Statements
    <3> QED BY <2>3, <3>1, StatementTypes, OpTypes DEF MarkSettled, TypeOK, Statements
  <2>4. CASE SyncItem(p)
    <3>1. op[p] # Idle /\ op[p].t \in Tracks
      BY <2>4, OpAt DEF SyncItem, At, Statements
    <3> QED BY <2>4, <3>1, StatementTypes, OpTypes DEF SyncItem, TypeOK
  <2>5. CASE CreateOrder(p)
    <3>1. op[p] # Idle /\ op[p].t \in Tracks
      BY <2>5, OpAt DEF CreateOrder, At, Statements
    <3> QED BY <2>5, <3>1, StatementTypes, OpTypes DEF CreateOrder, TypeOK, Statements
  <2>6. CASE ResetTrackToPending(p)
    <3>1. op[p] # Idle /\ op[p].t \in Tracks
      BY <2>6, OpAt DEF ResetTrackToPending, At, Statements
    <3> QED BY <2>6, <3>1, StatementTypes, TableTypes, OpTypes
            DEF ResetTrackToPending, TypeOK, Statements
  <2> QED BY <2>1, <2>2, <2>3, <2>4, <2>5, <2>6 DEF Execute
<1> QED BY <1>1 DEF Execute, TypeOK, tickVars, taskVars, extVars, boundVars

\* A step of a background task.
LEMMA JobTrack ==
  ASSUME TypeOK, NEW j \in Jobs, job[j] # NoJob
  PROVE  /\ job[j].t \in Tracks
         /\ job[j] \in [kind : {"finalize", "ytdlp"}, t : Tracks,
                        pc : {"queued", "running", "leaving"}, retry : BOOLEAN]
  BY DEF TypeOK, JobSet

LEMMA TaskTypes ==
  ASSUME TypeOK, disturbed' \subseteq Tracks, NEW j \in Jobs, Task(j)
  PROVE  TypeOK'
<1> DEFINE Pcs == {"queued", "running", "leaving"}
<1>0. j \in Procs
  BY DEF Procs
<1>1. job[j] # NoJob
  BY DEF Task, FinalizeSearch, FinalizeGivesUp, FinalizeRemove, YtdlpStart,
         YtdlpFinish, TaskEnds, TaskAt, NoJob
<1>2. job[j].t \in Tracks
  BY <1>1, JobTrack
<1>3. \A pc \in Pcs : GoTo(j, pc) => job' \in [Jobs -> JobSet]
  BY <1>1, JobTrack DEF GoTo, JobSet, TypeOK
<1>4. Leave(j) => job' \in [Jobs -> JobSet] /\ finalizing' \subseteq Tracks
  BY DEF Leave, JobSet, TypeOK
<1>5. CASE FinalizeSearch(j)
  <2>1. LedgerTypeOK'
    BY <1>5, TableTypes DEF FinalizeSearch, TypeOK
  <2>2. op' \in [Procs -> OpSet] /\ job' \in [Jobs -> JobSet]
    BY <1>5, <1>0, <1>2, <1>3, OpTypes DEF FinalizeSearch, Statements
  <2> QED BY <1>5, <2>1, <2>2 DEF FinalizeSearch, TypeOK, tickVars, extVars, boundVars
<1>6. CASE FinalizeGivesUp(j)
  <2>1. LedgerTypeOK'
    BY <1>6, TableTypes DEF FinalizeGivesUp, TypeOK
  <2> QED BY <1>6, <1>4, <2>1 DEF FinalizeGivesUp, TypeOK, tickVars, extVars, boundVars
<1>7. CASE FinalizeRemove(j)
  <2>1. LedgerTypeOK'
    BY <1>7, TableTypes DEF FinalizeRemove, TypeOK
  <2> QED BY <1>7, <1>2, <1>3, <2>1 DEF FinalizeRemove, TypeOK, tickVars, boundVars
<1>8. CASE YtdlpStart(j)
  <2>1. LedgerTypeOK'
    BY <1>8, <1>2, StatementTypes DEF YtdlpStart, TypeOK
  <2> QED BY <1>8, <1>3, <2>1 DEF YtdlpStart, TypeOK, tickVars, extVars, boundVars
<1>9. CASE YtdlpFinish(j)
  <2>1. LedgerTypeOK'
    BY <1>9, TableTypes DEF YtdlpFinish, TypeOK
  <2>2. op' \in [Procs -> OpSet] /\ job' \in [Jobs -> JobSet]
    BY <1>9, <1>0, <1>2, <1>3, OpTypes DEF YtdlpFinish, Statements
  <2> QED BY <1>9, <2>1, <2>2 DEF YtdlpFinish, TypeOK, tickVars, extVars, boundVars
<1>10. CASE TaskEnds(j)
  <2>1. LedgerTypeOK'
    BY <1>10, TableTypes DEF TaskEnds, TypeOK
  <2> QED BY <1>10, <1>4, <2>1 DEF TaskEnds, TypeOK, tickVars, extVars, boundVars
<1> QED BY <1>5, <1>6, <1>7, <1>8, <1>9, <1>10 DEF Task

\* Fewer rows than tracks: the count of downloading rows is a number.
LEMMA DownloadingFinite ==
  IsFiniteSet(Downloading) /\ Cardinality(Downloading) \in Nat
  BY FiniteAssumption, FS_Subset, FS_CardinalityType DEF Downloading

\* A step of the tick that leaves both tables alone.
LEMMA TickReads ==
  ASSUME TypeOK, disturbed' \subseteq Tracks,
         \/ CountSlots \/ ReadPending \/ NextItems \/ ReadInflight
         \/ GetQueue \/ CollectDone
  PROVE  TypeOK'
<1>0. LedgerTypeOK'
  BY TableTypes DEF TypeOK, CountSlots, ReadPending, NextItems, ReadInflight,
                    GetQueue, CollectDone
<1>1. CASE CountSlots
  <2>1. slots' \in 0..MaxInflight
    BY <1>1, DownloadingFinite, InflightAssumption DEF CountSlots, Free
  <2> QED BY <1>0, <1>1, <2>1
          DEF CountSlots, TypeOK, Phases, taskVars, extVars, boundVars
<1>2. CASE ReadPending
  BY <1>0, <1>2 DEF ReadPending, PendingWork, TypeOK, Phases, taskVars, extVars, boundVars
<1>3. CASE NextItems
  <2>1. slots' \in 0..MaxInflight
    BY <1>3, InflightAssumption DEF NextItems
  <2>2. batch' \subseteq Tracks /\ phase' \in Phases
    BY <1>3 DEF NextItems, DueItems, Phases
  <2> QED BY <1>0, <1>3, <2>1, <2>2 DEF NextItems, TypeOK, taskVars, extVars, boundVars
<1>4. CASE ReadInflight
  BY <1>0, <1>4 DEF ReadInflight, Downloading, TypeOK, Phases, taskVars, extVars, boundVars
<1>5. CASE GetQueue
  BY <1>0, <1>5 DEF GetQueue, TypeOK, Phases, taskVars, extVars, boundVars
<1>6. CASE CollectDone
  BY <1>0, <1>6 DEF CollectDone, TypeOK, Phases, NoView, DeemixStates, taskVars, extVars, boundVars
<1> QED BY <1>1, <1>2, <1>3, <1>4, <1>5, <1>6

LEMMA SpawnTypes ==
  ASSUME TypeOK, NEW t \in Tracks, NEW r \in BOOLEAN
  PROVE  /\ Spawn("ytdlp", t, r) => job' \in [Jobs -> JobSet]
         /\ SpawnFinalize(t, r) => job' \in [Jobs -> JobSet] /\ finalizing' \subseteq Tracks
  BY DEF TypeOK, Spawn, SpawnFinalize, JobSet, FreeJobs, taskVars

LEMMA TickTypes ==
  ASSUME TypeOK, disturbed' \subseteq Tracks, Tick
  PROVE  TypeOK'
<1>0. "tick" \in Procs
  BY DEF Procs
<1>1. CASE TickStart
  <2>1. LedgerTypeOK'
    BY <1>1, TableTypes DEF TickStart, TypeOK
  <2> QED BY <1>1, <2>1 DEF TickStart, Expired, Downloading, TypeOK, Phases,
                            taskVars, extVars, boundVars
<1>2. CASE ReapStale
  <2>1. LedgerTypeOK'
    BY <1>2, TableTypes DEF ReapStale, TypeOK
  <2> QED BY <1>2, <2>1 DEF ReapStale, TypeOK, Phases, taskVars, extVars, boundVars
<1>3. CASE \/ CountSlots \/ ReadPending \/ NextItems \/ ReadInflight
           \/ GetQueue \/ CollectDone
  BY <1>3, TickReads
<1>4. CASE \E t \in Tracks :
             \/ ReapLease(t) \/ Reconcile(t) \/ ReadTrack(t) \/ Answered(t)
             \/ NotLoggedIn(t) \/ SpawnNonDeezer(t) \/ Collect(t)
  <2>0. PICK t \in Tracks :
             \/ ReapLease(t) \/ Reconcile(t) \/ ReadTrack(t) \/ Answered(t)
             \/ NotLoggedIn(t) \/ SpawnNonDeezer(t) \/ Collect(t)
    BY <1>4
  <2>1. CASE ReapLease(t)
    <3>1. LedgerTypeOK' /\ op' \in [Procs -> OpSet]
      BY <2>1, <1>0, TableTypes, OpTypes DEF ReapLease, TypeOK, Statements
    <3> QED BY <2>1, <3>1 DEF ReapLease, Take, TypeOK, taskVars, extVars, boundVars
  <2>2. CASE Reconcile(t)
    <3>1. LedgerTypeOK'
      BY <2>2, StatementTypes DEF Reconcile, TypeOK
    <3> QED BY <2>2, <3>1 DEF Reconcile, Take, TypeOK, taskVars, extVars, boundVars
  <2>3. CASE ReadTrack(t)
    <3>1. LedgerTypeOK'
      BY <2>3, TableTypes DEF ReadTrack, TypeOK
    <3>2. op' \in [Procs -> OpSet]
      BY <2>3, <1>0, OpTypes DEF ReadTrack, TypeOK, Statements
    <3>3. cur' \in CurSet
      BY <2>3 DEF ReadTrack, TypeOK, CurSet, Call
    <3> QED BY <2>3, <3>1, <3>2, <3>3 DEF ReadTrack, Take, TypeOK, taskVars, extVars, boundVars
  <2>4. CASE Answered(t)
    <3>1. LedgerTypeOK'
      BY <2>4, TableTypes DEF Answered, TypeOK
    <3>2. op' \in [Procs -> OpSet]
      BY <2>4, <1>0, OpTypes DEF Answered, Statements
    <3>3. cur' \in CurSet /\ deemix' \in [Tracks -> DeemixStates]
      BY <2>4 DEF Answered, TypeOK, CurSet, DeemixStates
    <3> QED BY <2>4, <3>1, <3>2, <3>3 DEF Answered, TypeOK, taskVars, boundVars
  <2>5. CASE NotLoggedIn(t)
    <3>1. LedgerTypeOK'
      BY <2>5, TableTypes DEF NotLoggedIn, TypeOK
    <3> QED BY <2>5, <3>1 DEF NotLoggedIn, TypeOK, CurSet, taskVars, extVars, boundVars
  <2>6. CASE SpawnNonDeezer(t)
    <3>1. LedgerTypeOK' /\ job' \in [Jobs -> JobSet]
      BY <2>6, TableTypes, SpawnTypes DEF SpawnNonDeezer, TypeOK
    <3> QED BY <2>6, <3>1 DEF SpawnNonDeezer, TypeOK, CurSet, extVars, boundVars
  <2>7. CASE Collect(t)
    <3>1. LedgerTypeOK'
      BY <2>7, TableTypes, StatementTypes DEF Collect, TypeOK
    <3>2. op' \in [Procs -> OpSet]
      BY <2>7, <1>0, OpTypes DEF Collect, TypeOK, Statements
    <3>3. job' \in [Jobs -> JobSet] /\ finalizing' \subseteq Tracks
      BY <2>7, SpawnTypes DEF Collect, TypeOK, taskVars
    <3> QED BY <2>7, <3>1, <3>2, <3>3 DEF Collect, Take, TypeOK, extVars, boundVars
  <2> QED BY <2>0, <2>1, <2>2, <2>3, <2>4, <2>5, <2>6, <2>7
<1> QED BY <1>1, <1>2, <1>3, <1>4 DEF Tick

\* A handler is called, or the environment moves.
LEMMA OutsideTypes ==
  ASSUME TypeOK, disturbed' \subseteq Tracks, NEW t \in Tracks,
         \/ Order(t) \/ RetryIsrc(t)
         \/ DeemixEnds(t) \/ DeemixForgets(t) \/ Clock(t)
  PROVE  TypeOK'
<1>1. CASE Order(t) \/ RetryIsrc(t)
  <2>1. LedgerTypeOK'
    BY <1>1, TableTypes DEF Order, RetryIsrc, TypeOK
  <2>2. op' \in [Procs -> OpSet]
    BY <1>1, OpTypes DEF Order, RetryIsrc, Procs, Statements
  <2> QED BY <1>1, <2>1, <2>2 DEF Order, RetryIsrc, TypeOK, tickVars, taskVars, extVars
<1>2. CASE DeemixEnds(t) \/ DeemixForgets(t)
  <2>1. LedgerTypeOK'
    BY <1>2, TableTypes DEF DeemixEnds, DeemixForgets, TypeOK
  <2>2. deemix' \in [Tracks -> DeemixStates] /\ file' \in [Tracks -> BOOLEAN]
    BY <1>2 DEF DeemixEnds, DeemixForgets, TypeOK, DeemixStates
  <2> QED BY <1>2, <2>1, <2>2 DEF DeemixEnds, DeemixForgets, TypeOK, tickVars, taskVars, boundVars
<1>3. CASE Clock(t)
  <2>1. LedgerTypeOK'
    BY <1>3, StatementTypes DEF Clock, TypeOK
  <2> QED BY <1>3, <2>1 DEF Clock, TypeOK, tickVars, taskVars, extVars, boundVars
<1> QED BY <1>1, <1>2, <1>3

LEMMA CrashTypes ==
  ASSUME TypeOK, disturbed' \subseteq Tracks, Crash
  PROVE  TypeOK'
<1>1. LedgerTypeOK'
  BY TableTypes DEF Crash, TypeOK
<1>2. op' \in [Procs -> OpSet] /\ job' \in [Jobs -> JobSet]
  BY DEF Crash, OpSet, JobSet
<1>3. view' \in [Tracks -> DeemixStates] /\ slots' \in 0..MaxInflight
  BY InflightAssumption DEF Crash, NoView, DeemixStates
<1> QED BY <1>1, <1>2, <1>3 DEF Crash, TypeOK, Phases, CurSet, extVars

LEMMA InitTypes == Init => TypeOK
<1> SUFFICES ASSUME Init PROVE TypeOK
  OBVIOUS
<1>1. LedgerTypeOK
  BY MaxAttemptsAssumption, StaleTicksAssumption
     DEF Init, LedgerInit, LedgerTypeOK, States, ItemStates
<1>2. slots \in 0..MaxInflight
  BY InflightAssumption DEF Init
<1> QED BY <1>1, <1>2 DEF Init, TypeOK, OpSet, JobSet, CurSet, Phases, NoView, DeemixStates

LEMMA NextTypes == TypeOK /\ [Next]_vars => TypeOK'
<1> SUFFICES ASSUME TypeOK, [Next]_vars PROVE TypeOK'
  OBVIOUS
<1>1. CASE UNCHANGED vars
  <2>1. LedgerTypeOK'
    BY <1>1, TableTypes DEF TypeOK, vars, codeVars
  <2> QED BY <1>1, <2>1 DEF vars, codeVars, TypeOK, tickVars, taskVars, extVars, boundVars
<1>0. Witness => disturbed' \subseteq Tracks
  BY DEF Witness, TypeOK, Contended, TakenLate, CutOff, Reset, Downloading
<1> QED BY <1>0, <1>1, ExecuteTypes, TaskTypes, TickTypes, OutsideTypes, CrashTypes DEF Next, Step

\* Every variable keeps its type, through every interleaving, crash and call.
THEOREM TypeCorrect == Spec => []TypeOK
BY InitTypes, NextTypes, PTL DEF Spec

-----------------------------------------------------------------------------
(* The in-flight cap. *)

\* The tracks the tick has claimed and not yet marked: still in its list, in
\* their lookup, or in the call of mark_downloading itself.
Claimed ==
  {t \in Tracks : \/ phase = "dispatch" /\ t \in batch
                  \/ cur = Call("lookup", t)
                  \/ op["tick"] = Call("downloading", t)}
Committed == Downloading \cup Claimed

\* The inductive invariant: only the tick dispatches, in its dispatch phase;
\* what it counted is still free while it reconciles; what it claimed fits.
CapInv ==
  /\ \A p \in Procs : op[p].at = "downloading" => p = "tick" /\ phase = "dispatch"
  /\ cur # Idle => phase = "dispatch"
  /\ phase \in {"reconcile", "enqueue"} =>
       Cardinality(Downloading) + slots <= MaxInflight
  /\ Cardinality(Committed) <= MaxInflight

LEMMA CommittedFinite ==
  /\ IsFiniteSet(Claimed) /\ Cardinality(Claimed) \in Nat
  /\ IsFiniteSet(Committed) /\ Cardinality(Committed) \in Nat
<1>1. Claimed \subseteq Tracks /\ Committed \subseteq Tracks
  BY DEF Claimed, Committed, Downloading
<1> QED BY <1>1, FiniteAssumption, FS_Subset, FS_CardinalityType

\* What a step does to the set of downloading rows.
Dispatched(p) ==
  /\ op[p].at = "downloading" /\ op[p].t \in Tracks
  /\ Downloading' = Downloading \cup {op[p].t}
  /\ MarkDownloading(p) /\ UNCHANGED <<tickVars, taskVars, extVars, boundVars>>
KeepsOrDrops ==
  \/ Downloading' = Downloading
  \/ \E t \in Tracks : Downloading' = Downloading \ {t}

LEMMA SameState ==
  ASSUME UNCHANGED state PROVE KeepsOrDrops
  BY DEF KeepsOrDrops, Downloading

LEMMA ExecuteShape ==
  ASSUME TypeOK, NEW p \in Procs, Execute(p)
  PROVE  Dispatched(p) \/ KeepsOrDrops
<1>1. CASE ScheduleRetry(p)
  <2>1. CASE At(p, "requeue") /\ Requeue(op[p].t)
    <3>1. op[p].t \in Tracks
      BY <2>1, OpAt DEF At, Statements
    <3>2. Downloading' = Downloading \ {op[p].t}
      BY <2>1, <3>1 DEF Requeue, Downloading, TypeOK, LedgerTypeOK
    <3> QED BY <3>1, <3>2 DEF KeepsOrDrops
  <2>2. CASE UNCHANGED state
    BY <2>2, SameState
  <2> QED BY <1>1, <2>1, <2>2
          DEF ScheduleRetry, BumpAttempts, RetryItem, rowVars, itemVars
<1>2. CASE MarkDownloading(p)
  <2>1. op[p].at = "downloading" /\ op[p].t \in Tracks
    BY <1>2, OpAt DEF MarkDownloading, At, Statements
  <2>2. Downloading' = Downloading \cup {op[p].t}
    BY <1>2, <2>1 DEF MarkDownloading, DispatchRow, Downloading, TypeOK, LedgerTypeOK
  <2>3. UNCHANGED <<tickVars, taskVars, extVars, boundVars>>
    BY DEF Execute
  <2> QED BY <1>2, <2>1, <2>2, <2>3 DEF Dispatched
<1>3. CASE MarkSettled(p)
  <2>1. op[p].t \in Tracks
    BY <1>3, OpAt DEF MarkSettled, TerminalStates, Statements
  <2>2. Downloading' = Downloading \ {op[p].t}
    BY <1>3, <2>1 DEF MarkSettled, SettleRow, TerminalStates, Downloading, TypeOK, LedgerTypeOK
  <2> QED BY <2>1, <2>2 DEF KeepsOrDrops
<1>4. CASE SyncItem(p)
  BY <1>4, SameState DEF SyncItem, EnsureRunning, FinishItem, Enqueue, rowVars
<1>5. CASE CreateOrder(p)
  <2>1. op[p].t \in Tracks
    BY <1>5, OpAt DEF CreateOrder, At, Statements
  <2>2. Downloading' = Downloading
    BY <1>5, <2>1 DEF CreateOrder, InsertTrack, Downloading, TypeOK, LedgerTypeOK
  <2> QED BY <2>2 DEF KeepsOrDrops
<1>6. CASE ResetTrackToPending(p)
  <2>1. CASE Resettable(op[p].t)
    <3>1. op[p].t \in Tracks
      BY <1>6, OpAt DEF ResetTrackToPending, At, Statements
    <3>2. Downloading' = Downloading \ {op[p].t}
      BY <1>6, <2>1, <3>1 DEF ResetTrackToPending, ResetRow, Downloading, TypeOK, LedgerTypeOK
    <3> QED BY <3>1, <3>2 DEF KeepsOrDrops
  <2>2. CASE ~Resettable(op[p].t)
    BY <1>6, <2>2, SameState DEF ResetTrackToPending, rowVars
  <2> QED BY <2>1, <2>2
<1> QED BY <1>1, <1>2, <1>3, <1>4, <1>5, <1>6 DEF Execute

\* Only the statements of a call move a row's state.
LEMMA OthersKeepState ==
  ASSUME \/ \E j \in Jobs : Task(j)
         \/ Tick
         \/ \E t \in Tracks : \/ Order(t) \/ RetryIsrc(t)
                              \/ DeemixEnds(t) \/ DeemixForgets(t) \/ Clock(t)
         \/ Crash
  PROVE  UNCHANGED state
<1>1. ASSUME NEW j \in Jobs, Task(j) PROVE UNCHANGED state
  BY <1>1 DEF Task, FinalizeSearch, FinalizeGivesUp, FinalizeRemove, YtdlpStart,
              YtdlpFinish, TaskEnds, RenewLease, rowVars
<1>2. ASSUME Tick PROVE UNCHANGED state
  BY <1>2 DEF Tick, TickStart, ReapStale, CountSlots, ReadPending, NextItems,
     ReadInflight, GetQueue, CollectDone, ReapLease, Reconcile, ReadTrack, Answered,
     NotLoggedIn, SpawnNonDeezer, Collect, ItemsAge, RecoverStale, Enqueue,
     RenewLease, rowVars
<1>3. ASSUME NEW t \in Tracks,
             \/ Order(t) \/ RetryIsrc(t)
             \/ DeemixEnds(t) \/ DeemixForgets(t) \/ Clock(t)
      PROVE  UNCHANGED state
  BY <1>3 DEF Order, RetryIsrc, DeemixEnds, DeemixForgets, Clock, LeaseLapses,
              BackoffElapses, HoldElapses, rowVars
<1> QED BY <1>1, <1>2, <1>3 DEF Crash, rowVars

LEMMA StepShape ==
  ASSUME TypeOK, [Next]_vars
  PROVE  KeepsOrDrops \/ \E p \in Procs : Dispatched(p)
  BY ExecuteShape, OthersKeepState, SameState DEF Next, Step, vars, codeVars, rowVars

\* Fewer committed tracks fit all the more.
LEMMA CommittedShrinks ==
  ASSUME TypeOK, CapInv, Committed' \subseteq Committed
  PROVE  Cardinality(Committed') <= MaxInflight
<1>1. Cardinality(Committed') <= Cardinality(Committed) /\ Cardinality(Committed') \in Nat
  BY CommittedFinite, FS_Subset, FS_CardinalityType
<1> QED BY <1>1, CommittedFinite, InflightAssumption DEF CapInv

\* A step that leaves the tick's own variables alone and dispatches nothing.
LEMMA CapFrame ==
  ASSUME TypeOK, CapInv, Downloading' \subseteq Downloading, UNCHANGED tickVars,
         \A q \in Procs : op'[q].at = "downloading" => op'[q] = op[q]
  PROVE  CapInv'
<1>1. \A q \in Procs : op'[q].at = "downloading" => q = "tick" /\ phase' = "dispatch"
  BY DEF CapInv, tickVars
<1>2. cur' # Idle => phase' = "dispatch"
  BY DEF CapInv, tickVars
<1>3. phase' \in {"reconcile", "enqueue"} =>
        Cardinality(Downloading') + slots' <= MaxInflight
  <2>1. Cardinality(Downloading') <= Cardinality(Downloading) /\ Cardinality(Downloading') \in Nat
    BY DownloadingFinite, FS_Subset, FS_CardinalityType
  <2> QED BY <2>1, DownloadingFinite, InflightAssumption DEF CapInv, tickVars, TypeOK
<1>4. Claimed' \subseteq Claimed
  <2>1. "tick" \in Procs /\ \A t : Call("downloading", t).at = "downloading"
    BY DEF Procs, Call
  <2> QED BY <2>1 DEF Claimed, tickVars
<1>5. Committed' \subseteq Committed
  BY <1>4 DEF Committed
<1> QED BY <1>1, <1>2, <1>3, <1>5, CommittedShrinks DEF CapInv

\* A call goes on, or returns, but never turns into a mark_downloading.
LEMMA ExecuteOps ==
  ASSUME TypeOK, NEW p \in Procs, Execute(p)
  PROVE  /\ op'[p].at # "downloading"
         /\ \A q \in Procs \ {p} : op'[q] = op[q]
<1>1. CASE ScheduleRetry(p)
  BY <1>1 DEF ScheduleRetry, Then, Return, Call, Idle, TypeOK
<1>2. CASE MarkDownloading(p)
  BY <1>2 DEF MarkDownloading, Then, Call, TypeOK
<1>3. CASE MarkSettled(p)
  BY <1>3 DEF MarkSettled, Then, Call, TypeOK
<1>4. CASE SyncItem(p)
  BY <1>4 DEF SyncItem, Return, Idle, TypeOK
<1>5. CASE CreateOrder(p)
  BY <1>5 DEF CreateOrder, Then, Call, TypeOK
<1>6. CASE ResetTrackToPending(p)
  BY <1>6 DEF ResetTrackToPending, Then, Return, Call, Idle, TypeOK
<1> QED BY <1>1, <1>2, <1>3, <1>4, <1>5, <1>6 DEF Execute

LEMMA CapExecute ==
  ASSUME TypeOK, CapInv, NEW p \in Procs, Execute(p)
  PROVE  CapInv'
<1>1. UNCHANGED tickVars
  BY DEF Execute
<1>2. \A q \in Procs : op'[q].at = "downloading" => op'[q] = op[q]
  BY ExecuteOps
<1>3. CASE KeepsOrDrops
  <2>1. Downloading' \subseteq Downloading
    BY <1>3 DEF KeepsOrDrops
  <2> QED BY <1>1, <1>2, <2>1, CapFrame
<1>4. CASE Dispatched(p)
  <2>1. p = "tick" /\ phase = "dispatch"
    BY <1>4 DEF Dispatched, CapInv
  <2>2. op["tick"] = Call("downloading", op[p].t)
    BY <1>4, <2>1 DEF Dispatched, TypeOK, OpSet, Idle, Call
  <2>3. op[p].t \in Claimed
    BY <1>4, <2>2 DEF Dispatched, Claimed
  <2>4. Claimed' \subseteq Claimed
    <3>1. "tick" \in Procs /\ \A t : Call("downloading", t).at = "downloading"
      BY DEF Procs, Call
    <3> QED BY <3>1, <1>1, <1>2 DEF Claimed, tickVars
  <2>5. Committed' \subseteq Committed
    BY <1>4, <2>3, <2>4 DEF Dispatched, Committed
  <2> QED BY <1>1, <1>2, <2>1, <2>5, CommittedShrinks DEF CapInv, tickVars
<1> QED BY <1>3, <1>4, ExecuteShape

LEMMA CapOutside ==
  ASSUME TypeOK, CapInv,
         \/ \E j \in Jobs : Task(j)
         \/ \E t \in Tracks : \/ Order(t) \/ RetryIsrc(t)
                              \/ DeemixEnds(t) \/ DeemixForgets(t) \/ Clock(t)
         \/ Crash
  PROVE  CapInv'
<1>0. Downloading' = Downloading
  BY OthersKeepState DEF Downloading
<1>1. ASSUME NEW j \in Jobs, Task(j) PROVE CapInv'
  <2>1. UNCHANGED tickVars
    BY <1>1 DEF Task, FinalizeSearch, FinalizeGivesUp, FinalizeRemove, YtdlpStart,
                YtdlpFinish, TaskEnds
  <2>2. \A q \in Procs : op'[q].at = "downloading" => op'[q] = op[q]
    BY <1>1 DEF Task, FinalizeSearch, FinalizeGivesUp, FinalizeRemove, YtdlpStart,
                YtdlpFinish, TaskEnds, Start, Call, TypeOK
  <2> QED BY <1>0, <2>1, <2>2, CapFrame
<1>2. ASSUME NEW t \in Tracks,
             \/ Order(t) \/ RetryIsrc(t)
             \/ DeemixEnds(t) \/ DeemixForgets(t) \/ Clock(t)
      PROVE  CapInv'
  <2>1. UNCHANGED tickVars
    BY <1>2 DEF Order, RetryIsrc, DeemixEnds, DeemixForgets, Clock
  <2>2. \A q \in Procs : op'[q].at = "downloading" => op'[q] = op[q]
    BY <1>2 DEF Order, RetryIsrc, DeemixEnds, DeemixForgets, Clock, Start, Call, TypeOK
  <2> QED BY <1>0, <2>1, <2>2, CapFrame
<1>3. CASE Crash
  <2>1. Claimed' = {}
    BY <1>3 DEF Crash, Claimed, Idle, Call, Procs
  <2>2. Committed' \subseteq Committed
    BY <1>0, <2>1 DEF Committed
  <2> QED BY <1>3, <2>2, CommittedShrinks DEF Crash, CapInv, Idle
<1> QED BY <1>1, <1>2, <1>3

LEMMA CallNotIdle ==
  ASSUME NEW s, s # "idle", NEW t
  PROVE  Call(s, t) # Idle
<1>1. Call(s, t).at = s /\ Idle.at = "idle"
  BY DEF Call, Idle
<1> QED BY <1>1

\* A step of the tick in which no track is claimed anew.
LEMMA CapTickShrinks ==
  ASSUME TypeOK, CapInv, UNCHANGED state,
         \A q \in Procs : op'[q].at = "downloading" => q = "tick" /\ phase' = "dispatch",
         cur' # Idle => phase' = "dispatch",
         phase' \in {"reconcile", "enqueue"} =>
           \/ phase \in {"reconcile", "enqueue"} /\ slots' = slots
           \/ Cardinality(Downloading) + slots' <= MaxInflight,
         Claimed' \subseteq Claimed
  PROVE  CapInv'
<1>1. Downloading' = Downloading
  BY DEF Downloading
<1>2. Committed' \subseteq Committed
  BY <1>1 DEF Committed
<1> QED BY <1>1, <1>2, CommittedShrinks DEF CapInv

\* The steps outside of the loop over the claimed items.
LEMMA CapTickQuiet ==
  ASSUME TypeOK, CapInv,
         \/ TickStart \/ ReapStale \/ CountSlots \/ ReadPending
         \/ ReadInflight \/ GetQueue \/ CollectDone
         \/ \E t \in Tracks : ReapLease(t) \/ Reconcile(t) \/ Collect(t)
  PROVE  CapInv'
<1>0. UNCHANGED state /\ "tick" \in Procs
  BY OthersKeepState DEF Tick, Procs
<1>1. CASE TickStart \/ ReapStale \/ ReadPending \/ ReadInflight \/ GetQueue \/ CollectDone
  <2>1. UNCHANGED op /\ cur' = Idle /\ op["tick"] = Idle /\ phase' # "dispatch"
    BY <1>1 DEF TickStart, ReapStale, ReadPending, ReadInflight, GetQueue, CollectDone, TickAt
  <2>2. Claimed' = {}
    BY <2>1 DEF Claimed, Idle, Call
  <2>3. phase' \in {"reconcile", "enqueue"} =>
          phase \in {"reconcile", "enqueue"} /\ slots' = slots
    BY <1>1 DEF TickStart, ReapStale, ReadPending, ReadInflight, GetQueue, CollectDone, TickAt
  <2>4. \A q \in Procs : op'[q].at # "downloading"
    <3>1. phase \in {"rest", "reap", "reconcile", "poll", "dispatch", "getQueue", "collect"}
      BY <1>1 DEF TickStart, ReapStale, ReadPending, ReadInflight, GetQueue, CollectDone, TickAt
    <3> QED BY <2>1 DEF CapInv, Idle
  <2> QED BY <1>0, <2>1, <2>2, <2>3, <2>4, CapTickShrinks
<1>2. CASE CountSlots
  <2>1. UNCHANGED op /\ cur' = Idle /\ op["tick"] = Idle /\ phase' # "dispatch"
    BY <1>2 DEF CountSlots, TickAt
  <2>2. Claimed' = {}
    BY <2>1 DEF Claimed, Idle, Call
  <2>3. phase' \in {"reconcile", "enqueue"} => Cardinality(Downloading) + slots' <= MaxInflight
    BY <1>2, DownloadingFinite, InflightAssumption DEF CountSlots, Free
  <2>4. \A q \in Procs : op'[q].at # "downloading"
    BY <2>1 DEF CapInv, Idle
  <2> QED BY <1>0, <2>1, <2>2, <2>3, <2>4, CapTickShrinks
<1>3. CASE \E t \in Tracks : ReapLease(t) \/ Reconcile(t) \/ Collect(t)
  <2>1. /\ UNCHANGED <<phase, cur, slots>> /\ cur = Idle
        /\ phase # "dispatch" /\ op["tick"] = Idle
    BY <1>3 DEF ReapLease, Reconcile, Collect, TickAt
  <2>2. \A q \in Procs : op'[q].at # "downloading"
    <3>1. \A q \in Procs : op[q].at # "downloading"
      BY <2>1 DEF CapInv
    <3>2. \/ op' = op
          \/ \E c : c.at = "bump" /\ op' = [op EXCEPT !["tick"] = c]
      BY <1>3 DEF ReapLease, Reconcile, Collect, Start, Call
    <3> QED BY <3>1, <3>2 DEF TypeOK
  <2>3. Claimed' = {}
    BY <1>0, <2>1, <2>2 DEF Claimed, Idle, Call
  <2> QED BY <1>0, <2>1, <2>2, <2>3, CapTickShrinks
<1> QED BY <1>1, <1>2, <1>3

\* work::next: what it claims fits beside the rows in flight.
LEMMA CapNextItems ==
  ASSUME TypeOK, CapInv, NextItems
  PROVE  CapInv'
<1>1. /\ UNCHANGED <<op, cur, state>> /\ cur = Idle /\ op["tick"] = Idle
      /\ slots' = 0 /\ phase = "enqueue" /\ phase' \in {"poll", "dispatch"}
      /\ batch' \subseteq Tracks /\ Cardinality(batch') <= slots
  BY DEF NextItems, TickAt, DueItems, rowVars
<1>2. \A q \in Procs : op'[q].at # "downloading"
  BY <1>1 DEF CapInv
<1>3. Downloading' = Downloading
  BY <1>1 DEF Downloading
<1>4. Claimed' \subseteq batch'
  BY <1>1 DEF Claimed, Idle, Call
<1>5. Cardinality(Committed') <= MaxInflight
  <2>1. IsFiniteSet(batch') /\ IsFiniteSet(Downloading)
    BY <1>1, FiniteAssumption, FS_Subset, DownloadingFinite
  <2>2. /\ IsFiniteSet(Downloading \cup batch')
        /\ Cardinality(Downloading \cup batch') <= Cardinality(Downloading) + Cardinality(batch')
    <3>1. /\ Cardinality(Downloading \cap batch') \in Nat
          /\ Cardinality(Downloading) \in Nat /\ Cardinality(batch') \in Nat
      BY <2>1, FS_Intersection, FS_CardinalityType
    <3>2. /\ IsFiniteSet(Downloading \cup batch')
          /\ Cardinality(Downloading \cup batch') =
               Cardinality(Downloading) + Cardinality(batch') - Cardinality(Downloading \cap batch')
      BY <2>1, FS_Union
    <3> QED BY <3>1, <3>2
  <2>3. Committed' \subseteq Downloading \cup batch'
    BY <1>3, <1>4 DEF Committed
  <2>4. Cardinality(Committed') <= Cardinality(Downloading \cup batch') /\ Cardinality(Committed') \in Nat
    BY <2>2, <2>3, FS_Subset, FS_CardinalityType
  <2>5. Cardinality(Downloading) + slots <= MaxInflight
    BY <1>1 DEF CapInv
  <2>6. Cardinality(batch') \in Nat /\ Cardinality(Downloading \cup batch') \in Nat
    BY <2>1, <2>2, FS_CardinalityType
  <2> QED BY <1>1, <2>2, <2>4, <2>5, <2>6, DownloadingFinite, InflightAssumption DEF TypeOK
<1> QED BY <1>1, <1>2, <1>5 DEF CapInv

\* The loop over the claimed items passes each claim on, or gives it up.
LEMMA CapDispatch ==
  ASSUME TypeOK, CapInv, NEW t \in Tracks,
         ReadTrack(t) \/ Answered(t) \/ NotLoggedIn(t) \/ SpawnNonDeezer(t)
  PROVE  CapInv'
<1>0. UNCHANGED state /\ "tick" \in Procs
  BY OthersKeepState DEF Tick, Procs
<1>1. phase = "dispatch" /\ phase' = "dispatch" /\ op["tick"] = Idle
  <2>1. Call("lookup", t) # Idle /\ Call("spawn", t) # Idle
    BY CallNotIdle
  <2> QED BY <2>1 DEF ReadTrack, Answered, NotLoggedIn, SpawnNonDeezer, TickAt, CapInv
<1>2. \A q \in Procs \ {"tick"} : op'[q] = op[q]
  BY DEF ReadTrack, Answered, NotLoggedIn, SpawnNonDeezer, Start, TypeOK
<1>3. \A q \in Procs : op'[q].at = "downloading" => q = "tick" /\ phase' = "dispatch"
  BY <1>1, <1>2 DEF CapInv
<1>4. Claimed' \subseteq Claimed
  <2>1. CASE ReadTrack(t)
    BY <1>0, <1>1, <2>1 DEF ReadTrack, Take, TickAt, Claimed, Start, Call, Idle, TypeOK, TerminalStates
  <2>2. CASE Answered(t)
    BY <1>0, <1>1, <2>2 DEF Answered, Claimed, Start, Call, Idle, TypeOK
  <2>3. CASE NotLoggedIn(t) \/ SpawnNonDeezer(t)
    <3>1. \A u : Call("lookup", u) # Idle
      BY CallNotIdle
    <3>2. cur' = Idle /\ UNCHANGED <<op, phase, batch>>
      BY <2>3 DEF NotLoggedIn, SpawnNonDeezer
    <3> QED BY <3>1, <3>2 DEF Claimed
  <2> QED BY <2>1, <2>2, <2>3
<1> QED BY <1>0, <1>1, <1>3, <1>4, CapTickShrinks

LEMMA CapNext == TypeOK /\ CapInv /\ [Next]_vars => CapInv'
<1> SUFFICES ASSUME TypeOK, CapInv, [Next]_vars PROVE CapInv'
  OBVIOUS
<1>1. CASE UNCHANGED vars
  <2>1. Downloading' = Downloading /\ UNCHANGED tickVars /\ UNCHANGED op
    BY <1>1 DEF vars, codeVars, Downloading, rowVars
  <2> QED BY <2>1, CapFrame
<1> QED BY <1>1, CapExecute, CapOutside, CapTickQuiet, CapNextItems, CapDispatch DEF Next, Step, Tick

LEMMA CapInit == Init => CapInv
<1> SUFFICES ASSUME Init PROVE CapInv
  OBVIOUS
<1>1. Downloading = {} /\ Claimed = {}
  BY DEF Init, LedgerInit, Downloading, Claimed, Idle, Call, Procs
<1>2. Cardinality(Committed) <= MaxInflight
  BY <1>1, FS_EmptySet, InflightAssumption DEF Committed
<1> QED BY <1>2 DEF Init, CapInv, Idle

LEMMA CapImplies == TypeOK /\ CapInv => InflightCap
<1> SUFFICES ASSUME TypeOK, CapInv PROVE InflightCap
  OBVIOUS
<1>1. Cardinality(Downloading) <= Cardinality(Committed)
  BY CommittedFinite, FS_Subset DEF Committed
<1> QED BY <1>1, CommittedFinite, DownloadingFinite, InflightAssumption DEF CapInv, InflightCap

\* No interleaving of the tick with its background tasks, the HTTP handlers,
\* the clock and crashes ever leaves more than MAX_INFLIGHT rows downloading.
THEOREM CapHolds == Spec => []InflightCap
BY InitTypes, NextTypes, CapInit, CapNext, CapImplies, PTL DEF Spec

\* The downloading rows are a pool of MaxInflight slots, taken and given back
\* one at a time: every step of the dispatcher is a step of SlotPool.
THEOREM ImplementsPool == Spec => PoolSpec
<1>1. Init => Pool!Init
  BY DEF Init, LedgerInit, Downloading, Pool!Init
<1>2. TypeOK /\ InflightCap' /\ [Next]_vars => [Pool!Next]_Downloading
  <2> SUFFICES ASSUME TypeOK, InflightCap', [Next]_vars, Downloading' # Downloading
               PROVE  Pool!Next
    OBVIOUS
  <2>1. CASE KeepsOrDrops
    BY <2>1 DEF KeepsOrDrops, Pool!Next, Pool!Release
  <2>2. CASE \E p \in Procs : Dispatched(p)
    <3>1. PICK t \in Tracks : Downloading' = Downloading \cup {t}
      BY <2>2 DEF Dispatched
    <3>2. t \notin Downloading
      BY <3>1
    <3>3. Cardinality(Downloading') = Cardinality(Downloading) + 1
      BY <3>1, <3>2, DownloadingFinite, FS_AddElement
    <3>4. Cardinality(Downloading) < MaxInflight
      BY <3>3, DownloadingFinite, InflightAssumption DEF InflightCap
    <3>5. Pool!Cardinality(Downloading) < MaxInflight
      BY <3>4 DEF Pool!Cardinality, Cardinality
    <3> QED BY <3>1, <3>2, <3>5 DEF Pool!Next, Pool!Acquire
  <2> QED BY <2>1, <2>2, StepShape
<1> QED BY <1>1, <1>2, InitTypes, NextTypes, CapHolds, PTL DEF Spec, PoolSpec, Pool!Spec

-----------------------------------------------------------------------------
(* The guard of finalize.  It is inductive as it stands.                   *)

LEMMA FinalizerIsLive ==
  ASSUME TypeOK, NEW j \in Finalizers
  PROVE  j \in Jobs /\ job[j] # NoJob /\ job[j].t \in Tracks
<1>1. j \in Jobs /\ job[j].kind = "finalize"
  BY DEF Finalizers
<1>2. job[j] # NoJob
  BY <1>1 DEF NoJob
<1> QED BY <1>1, <1>2, JobTrack

\* Tasks that go on are still of the same kind, on the same track.
LEMMA GuardFrame ==
  ASSUME FinalizeGuard, UNCHANGED finalizing,
         \A k \in Jobs : job'[k].kind = job[k].kind /\ job'[k].t = job[k].t
  PROVE  FinalizeGuard'
  BY DEF FinalizeGuard, Finalizers

LEMMA GoToKeeps ==
  ASSUME TypeOK, NEW j \in Jobs, job[j] # NoJob, NEW pc, GoTo(j, pc)
  PROVE  \A k \in Jobs : job'[k].kind = job[k].kind /\ job'[k].t = job[k].t
  BY JobTrack DEF GoTo, TypeOK

LEMMA GuardLeave ==
  ASSUME TypeOK, FinalizeGuard, NEW j \in Jobs, Leave(j)
  PROVE  FinalizeGuard'
<1>1. /\ job'[j].kind = "none"
      /\ \A k \in Jobs \ {j} : job'[k] = job[k]
  BY DEF Leave, NoJob, TypeOK
<1>2. Finalizers' = Finalizers \ {j}
  BY <1>1 DEF Finalizers
<1>3. CASE j \in Finalizers
  <2>1. finalizing' = finalizing \ {job[j].t}
    BY <1>3 DEF Leave, Finalizers
  <2>2. \A k \in Finalizers \ {j} : job'[k].t = job[k].t /\ job[k].t # job[j].t
    BY <1>1, <1>3 DEF FinalizeGuard, Finalizers
  <2> QED BY <1>2, <2>1, <2>2 DEF FinalizeGuard
<1>4. CASE j \notin Finalizers
  <2>1. UNCHANGED finalizing /\ Finalizers' = Finalizers
    BY <1>2, <1>4 DEF Leave, Finalizers
  <2>2. \A k \in Finalizers : job'[k].t = job[k].t
    BY <1>1, <1>4 DEF Finalizers
  <2> QED BY <2>1, <2>2 DEF FinalizeGuard
<1> QED BY <1>3, <1>4

LEMMA GuardSpawn ==
  ASSUME TypeOK, FinalizeGuard, NEW t \in Tracks, NEW r \in BOOLEAN
  PROVE  /\ Spawn("ytdlp", t, r) /\ UNCHANGED finalizing => FinalizeGuard'
         /\ SpawnFinalize(t, r) => FinalizeGuard'
<1>1. ASSUME Spawn("ytdlp", t, r), UNCHANGED finalizing PROVE FinalizeGuard'
  <2>1. PICK j \in FreeJobs :
          job' = [job EXCEPT ![j] = [kind |-> "ytdlp", t |-> t, pc |-> "queued", retry |-> r]]
    BY <1>1 DEF Spawn
  <2>2. /\ j \in Jobs /\ job[j].kind = "none" /\ job'[j].kind = "ytdlp"
        /\ \A k \in Jobs \ {j} : job'[k] = job[k]
    BY <2>1 DEF FreeJobs, NoJob, TypeOK
  <2>3. Finalizers' = Finalizers /\ \A k \in Finalizers : job'[k] = job[k]
    BY <2>2 DEF Finalizers
  <2> QED BY <1>1, <2>3 DEF FinalizeGuard
<1>2. ASSUME SpawnFinalize(t, r), t \notin finalizing PROVE FinalizeGuard'
  <2>1. PICK j \in FreeJobs :
          job' = [job EXCEPT ![j] = [kind |-> "finalize", t |-> t, pc |-> "queued", retry |-> r]]
    BY <1>2 DEF SpawnFinalize, Spawn
  <2>2. /\ j \in Jobs /\ job[j].kind = "none" /\ job'[j].kind = "finalize" /\ job'[j].t = t
        /\ \A k \in Jobs \ {j} : job'[k] = job[k]
    BY <2>1 DEF FreeJobs, NoJob, TypeOK
  <2>3. Finalizers' = Finalizers \cup {j} /\ j \notin Finalizers
    BY <2>2 DEF Finalizers
  <2>4. \A k \in Finalizers : job'[k] = job[k] /\ job[k].t # t
    BY <1>2, <2>2, <2>3 DEF FinalizeGuard, Finalizers
  <2>5. finalizing' = finalizing \cup {t}
    BY <1>2 DEF SpawnFinalize
  <2> QED BY <2>2, <2>3, <2>4, <2>5 DEF FinalizeGuard
<1>3. ASSUME SpawnFinalize(t, r), t \in finalizing PROVE FinalizeGuard'
  <2>1. UNCHANGED <<job, finalizing>>
    BY <1>3 DEF SpawnFinalize, taskVars
  <2> QED BY <2>1, GuardFrame
<1> QED BY <1>1, <1>2, <1>3

LEMMA GuardTask ==
  ASSUME TypeOK, FinalizeGuard, NEW j \in Jobs, Task(j)
  PROVE  FinalizeGuard'
<1>1. job[j] # NoJob
  BY DEF Task, FinalizeSearch, FinalizeGivesUp, FinalizeRemove, YtdlpStart,
         YtdlpFinish, TaskEnds, TaskAt, NoJob
<1>2. CASE \/ FinalizeSearch(j) \/ FinalizeRemove(j) \/ YtdlpStart(j) \/ YtdlpFinish(j)
  <2>1. UNCHANGED finalizing /\ \E pc : GoTo(j, pc)
    BY <1>2 DEF FinalizeSearch, FinalizeRemove, YtdlpStart, YtdlpFinish
  <2> QED BY <1>1, <2>1, GoToKeeps, GuardFrame
<1>3. CASE FinalizeGivesUp(j) \/ TaskEnds(j)
  BY <1>3, GuardLeave DEF FinalizeGivesUp, TaskEnds
<1> QED BY <1>2, <1>3 DEF Task

LEMMA GuardTick ==
  ASSUME TypeOK, FinalizeGuard, Tick
  PROVE  FinalizeGuard'
<1>1. CASE UNCHANGED taskVars
  BY <1>1, GuardFrame DEF taskVars
<1>2. CASE \E t \in Tracks : SpawnNonDeezer(t)
  BY <1>2, GuardSpawn DEF SpawnNonDeezer
<1>3. CASE \E t \in Tracks : Collect(t)
  BY <1>1, <1>3, GuardSpawn DEF Collect
<1> QED BY <1>1, <1>2, <1>3 DEF Tick, TickStart, ReapStale, CountSlots, ReadPending,
           NextItems, ReadInflight, GetQueue, CollectDone, ReapLease, Reconcile,
           ReadTrack, Answered, NotLoggedIn

LEMMA GuardNext == TypeOK /\ FinalizeGuard /\ [Next]_vars => FinalizeGuard'
<1> SUFFICES ASSUME TypeOK, FinalizeGuard, [Next]_vars PROVE FinalizeGuard'
  OBVIOUS
<1>1. CASE UNCHANGED taskVars
  BY <1>1, GuardFrame DEF taskVars
<1>2. CASE Crash
  BY <1>2 DEF Crash, FinalizeGuard, Finalizers, NoJob
<1> QED BY <1>1, <1>2, GuardTask, GuardTick DEF Next, Step, vars, codeVars, Execute, Order, RetryIsrc,
           DeemixEnds, DeemixForgets, Clock

LEMMA GuardInit == Init => FinalizeGuard
  BY DEF Init, FinalizeGuard, Finalizers, NoJob

\* The guard of finalize never leaks and never lets two tasks of one track
\* run, through every interleaving, lapse, retry and crash.
THEOREM GuardHolds == Spec => []FinalizeGuard
BY InitTypes, NextTypes, GuardInit, GuardNext, PTL DEF Spec

-----------------------------------------------------------------------------
(* One at a time.  As long as nobody else takes a track up, the process    *)
(* that has it in hand finds the row as it left it.  Each step is first    *)
(* reduced to what it does to one track (Effect, Progress, TickMoves);     *)
(* OwnInv is then preserved for each track by itself.                      *)

\* What process p is doing to track t, and how far task j on t has come: a
\* finalize that is past its search only removes the source file.
Doing(p, t)  == IF op[p] # Idle /\ op[p].t = t THEN op[p].at ELSE "idle"
TaskOf(j, t) == IF job[j] = NoJob \/ job[j].t # t THEN "none"
                ELSE IF job[j].kind = "finalize" /\ job[j].pc = "running" THEN "removing"
                ELSE job[j].pc
Spawning(t)  == cur = Call("spawn", t)
Lookup(t)    == cur = Call("lookup", t)

RetryOps == {"bump", "decide", "requeue", "failed"}
TaskOps  == RetryOps \cup {"ready", "retryItem", "finishItem"}
TickOps  == RetryOps \cup {"retryItem", "finishItem", "downloading", "runItem", "absent"}
HttpOps  == {"insert", "enqueue", "reset"}

\* Who may be doing what to t, disturbed or not.
PlaceInv(t) ==
  /\ \A j \in Jobs : Doing(j, t) # "idle" =>
       TaskOf(j, t) \in {"removing", "leaving"} /\ Doing(j, t) \in TaskOps
  /\ Doing("http", t) \in HttpOps \cup {"idle"}
  /\ Doing("tick", t) \in TickOps \cup {"idle"}
  /\ Spawning(t) => op["tick"] \in {Idle, Call("downloading", t), Call("runItem", t)}
  /\ Lookup(t) => op["tick"] = Idle

\* Nobody else works on an undisturbed track.
Sole(t) == \A p, q \in Procs : InHand(p, t) /\ InHand(q, t) => p = q

\* The row is in the state whoever has it in hand found it in, and an order
\* that waits has failures left, but for the one that is just being judged.
RowInv(t) ==
  /\ \A j \in Jobs : TaskOf(j, t) \in {"queued", "running"} => state[t] = "downloading"
  /\ \A j \in Jobs : Doing(j, t) \in RetryOps \cup {"ready"} => state[t] = "downloading"
  /\ Doing("tick", t) \in RetryOps => state[t] \in {"pending", "downloading"}
  /\ Doing("tick", t) \in {"downloading", "absent"} => state[t] = "pending"
  /\ Doing("tick", t) = "runItem" => state[t] = "downloading"
  /\ Lookup(t) => state[t] = "pending"
  /\ Spawning(t) /\ Doing("tick", t) # "downloading" => state[t] = "downloading"
  /\ state[t] \in {"none", "pending"} =>
       attempts[t] < MaxAttempts \/ Doing("tick", t) \in {"decide", "failed"}
  /\ \A p \in Procs : Doing(p, t) = "requeue" => attempts[t] < MaxAttempts

\* A running item has a downloading row or a call that is about to settle the
\* item; a downloading row has an unsettled item or a call about to start it.
Closers == {"retryItem", "finishItem"}
ItemInv(t) ==
  /\ item[t] = "running" => state[t] = "downloading" \/ \E p \in Procs : Doing(p, t) \in Closers
  /\ state[t] = "downloading" => item[t] \in {"queued", "running"} \/ Doing("tick", t) = "runItem"
  /\ \A p \in Procs : Doing(p, t) = "finishItem" => state[t] # "downloading"

OwnInv == \A t \in Tracks : PlaceInv(t) /\ (t \notin disturbed => Sole(t) /\ RowInv(t) /\ ItemInv(t))

SameRow(t)  == state'[t] = state[t] /\ attempts'[t] = attempts[t]
SameItem(t) == item'[t] = item[t]

OthersDo(p, t)   == \A q \in Procs \ {p} : Doing(q, t)' = Doing(q, t)
OtherTasks(j, t) == \A k \in Jobs \ {j} : TaskOf(k, t)' = TaskOf(k, t)
SameTasks(t)     == \A k \in Jobs : TaskOf(k, t)' = TaskOf(k, t)

LEMMA ProcNames ==
  /\ "tick" \in Procs /\ "http" \in Procs /\ Jobs \subseteq Procs
  /\ \A p \in Procs : p = "tick" \/ p = "http" \/ p \in Jobs
  /\ \A j \in Jobs : j # "tick" /\ j # "http"
  BY ProcsAssumption DEF Procs

\* To have a track in hand, in the terms used here.
LEMMA HandShape ==
  ASSUME TypeOK, NEW p \in Procs, NEW t \in Tracks
  PROVE  InHand(p, t) <=> \/ Doing(p, t) \notin {"idle", "insert", "enqueue"}
                          \/ p = "tick" /\ (Spawning(t) \/ Lookup(t))
                          \/ p \in Jobs /\ TaskOf(p, t) \in {"queued", "running", "removing"}
<1>1. op[p] # Idle => op[p].at \in Statements
  BY DEF TypeOK, OpSet
<1>2. op[p] # Idle /\ op[p].t = t /\ op[p].at \notin {"insert", "enqueue"}
        <=> Doing(p, t) \notin {"idle", "insert", "enqueue"}
  BY <1>1 DEF Doing, Statements
<1>3. cur # Idle /\ cur.t = t <=> Spawning(t) \/ Lookup(t)
  BY CallNotIdle DEF TypeOK, CurSet, Spawning, Lookup, Call
<1>4. ASSUME p \in Jobs
      PROVE  job[p] # NoJob /\ job[p].t = t /\ job[p].pc # "leaving"
               <=> TaskOf(p, t) \in {"queued", "running", "removing"}
  BY <1>4, JobTrack DEF TaskOf
<1> QED BY <1>2, <1>3, <1>4 DEF InHand

\* The same after a step.
LEMMA HandShapeNext ==
  ASSUME TypeOK', NEW p \in Procs, NEW t \in Tracks
  PROVE  InHand(p, t)' <=> \/ Doing(p, t)' \notin {"idle", "insert", "enqueue"}
                           \/ p = "tick" /\ (Spawning(t)' \/ Lookup(t)')
                           \/ p \in Jobs /\ TaskOf(p, t)' \in {"queued", "running", "removing"}
<1>0. \A s : [at |-> s, t |-> t] # [at |-> "idle"]
  OBVIOUS
<1>1. op'[p] # Idle => op'[p].at \in Statements
  BY DEF TypeOK, OpSet
<1>2. op'[p] # Idle /\ op'[p].t = t /\ op'[p].at \notin {"insert", "enqueue"}
        <=> Doing(p, t)' \notin {"idle", "insert", "enqueue"}
  BY <1>1 DEF Doing, Statements
<1>3. cur' # Idle /\ cur'.t = t <=> Spawning(t)' \/ Lookup(t)'
  BY CallNotIdle DEF TypeOK, CurSet, Spawning, Lookup, Call
<1>4. ASSUME p \in Jobs
      PROVE  job'[p] # NoJob /\ job'[p].t = t /\ job'[p].pc # "leaving"
               <=> TaskOf(p, t)' \in {"queued", "running", "removing"}
  <2>1. job'[p] # NoJob => job'[p] \in [kind : {"finalize", "ytdlp"}, t : Tracks,
                             pc : {"queued", "running", "leaving"}, retry : BOOLEAN]
    BY <1>4 DEF TypeOK, JobSet
  <2> QED BY <2>1 DEF TaskOf
<1> QED BY <1>2, <1>3, <1>4 DEF InHand

\* A call moves what its own process is doing, and to no other track.
LEMMA DoingMoves ==
  ASSUME TypeOK, NEW p \in Procs, NEW t \in Tracks
  PROVE  /\ \A s \in Statements, u \in Tracks : Start(p, s, u) =>
              Doing(p, t)' = (IF u = t THEN s ELSE "idle") /\ OthersDo(p, t)
         /\ Return(p) => Doing(p, t)' = "idle" /\ OthersDo(p, t)
         /\ \A s \in Statements : Then(p, s) =>
              Doing(p, t)' = (IF op[p].t = t THEN s ELSE "idle") /\ OthersDo(p, t)
<1>1. \A s \in Statements, u \in Tracks : Call(s, u) # Idle
  BY CallNotIdle DEF Statements
<1>2. ASSUME NEW s \in Statements, NEW u \in Tracks, Start(p, s, u)
      PROVE  Doing(p, t)' = (IF u = t THEN s ELSE "idle") /\ OthersDo(p, t)
  <2>1. op'[p] = Call(s, u) /\ \A q \in Procs \ {p} : op'[q] = op[q]
    BY <1>2 DEF Start, TypeOK
  <2> QED BY <1>1, <2>1 DEF Doing, OthersDo, Call
<1>3. ASSUME Return(p) PROVE Doing(p, t)' = "idle" /\ OthersDo(p, t)
  <2>1. op'[p] = Idle /\ \A q \in Procs \ {p} : op'[q] = op[q]
    BY <1>3 DEF Return, TypeOK
  <2> QED BY <2>1 DEF Doing, OthersDo
<1>4. ASSUME NEW s \in Statements, Then(p, s)
      PROVE  Doing(p, t)' = (IF op[p].t = t THEN s ELSE "idle") /\ OthersDo(p, t)
  <2>1. op'[p] = Call(s, op[p].t) /\ \A q \in Procs \ {p} : op'[q] = op[q]
    BY <1>4 DEF Then, TypeOK
  <2>2. Call(s, op[p].t) # Idle
    BY CallNotIdle DEF Statements
  <2> QED BY <2>1, <2>2 DEF Doing, OthersDo, Call
<1> QED BY <1>2, <1>3, <1>4

\* What a statement does to the track t it is executed on.
Effect(p, t) ==
  \/ /\ Doing(p, t) = "bump" /\ Doing(p, t)' = "decide"
     /\ UNCHANGED <<state, item>>
  \/ /\ Doing(p, t) = "decide"
     /\ Doing(p, t)' = (IF attempts[t] >= MaxAttempts THEN "failed" ELSE "requeue")
     /\ UNCHANGED <<state, attempts, item>>
  \/ /\ Doing(p, t) = "requeue" /\ Doing(p, t)' = "retryItem"
     /\ state'[t] = "pending" /\ UNCHANGED <<attempts, item>>
  \/ /\ Doing(p, t) = "retryItem" /\ Doing(p, t)' = "idle"
     /\ SameRow(t) /\ item'[t] = "queued"
  \/ /\ Doing(p, t) = "downloading" /\ Doing(p, t)' = "runItem"
     /\ state'[t] = "downloading" /\ UNCHANGED <<attempts, item>>
  \/ /\ Doing(p, t) = "runItem" /\ Doing(p, t)' = "idle"
     /\ SameRow(t) /\ item'[t] = "running"
  \/ /\ Doing(p, t) \in TerminalStates /\ Doing(p, t)' = "finishItem"
     /\ state'[t] = Doing(p, t) /\ UNCHANGED <<attempts, item>>
  \/ /\ Doing(p, t) = "finishItem" /\ Doing(p, t)' = "idle"
     /\ SameRow(t) /\ item'[t] \in {"none", "done"}
  \/ /\ Doing(p, t) = "insert" /\ Doing(p, t)' = "enqueue"
     /\ state'[t] = (IF state[t] = "none" THEN "pending" ELSE state[t])
     /\ UNCHANGED <<attempts, item>>
  \/ /\ Doing(p, t) = "enqueue" /\ Doing(p, t)' = "idle"
     /\ SameRow(t) /\ item'[t] = (IF item[t] \in {"none", "done"} THEN "queued" ELSE item[t])
  \/ /\ Doing(p, t) = "reset" /\ Doing(p, t)' = "enqueue" /\ state[t] \notin {"none", "ready"}
     /\ state'[t] = "pending" /\ attempts'[t] = 0 /\ UNCHANGED item
  \/ /\ Doing(p, t) = "reset" /\ Doing(p, t)' = "idle"
     /\ SameRow(t) /\ UNCHANGED item

\* A statement touches one track.
LEMMA ExecuteOn ==
  ASSUME TypeOK, NEW p \in Procs, Execute(p), NEW t \in Tracks
  PROVE  /\ OthersDo(p, t)
         /\ Doing(p, t) # "idle" => Effect(p, t)
         /\ Doing(p, t) = "idle" => Doing(p, t)' = "idle" /\ SameRow(t) /\ SameItem(t)
<1> DEFINE u == op[p].t
<1>0. op[p] # Idle /\ u \in Tracks /\ op[p].at \in Statements
  BY OpAt DEF Execute, ScheduleRetry, MarkDownloading, MarkSettled, SyncItem, CreateOrder,
     ResetTrackToPending, At, TerminalStates, Statements
<1>1. Doing(p, t) = IF u = t THEN op[p].at ELSE "idle"
  BY <1>0 DEF Doing
<1>2. Doing(p, t) = "idle" => u # t
  BY <1>0, <1>1 DEF Statements
<1>3. OthersDo(p, t) /\ (u # t => Doing(p, t)' = "idle")
  BY <1>0, DoingMoves DEF Execute, ScheduleRetry, MarkDownloading, MarkSettled, SyncItem, CreateOrder,
     ResetTrackToPending, Statements, TerminalStates
<1>4. u # t => SameRow(t) /\ SameItem(t)
  BY <1>0 DEF Execute, ScheduleRetry, MarkDownloading, MarkSettled, SyncItem, CreateOrder,
     ResetTrackToPending, SameRow, SameItem, BumpAttempts, Requeue, RetryItem, DispatchRow, SettleRow,
     EnsureRunning, FinishItem, Enqueue, InsertTrack, ResetRow, rowVars, itemVars, TypeOK, LedgerTypeOK
<1>5. u = t => Effect(p, t)
  <2> SUFFICES ASSUME u = t PROVE Effect(p, t)
    OBVIOUS
  <2>1. Doing(p, t) = op[p].at
    BY <1>1
  <2>2. /\ Return(p) => Doing(p, t)' = "idle"
        /\ \A s \in Statements : Then(p, s) => Doing(p, t)' = s
    BY <1>0, DoingMoves
  <2>3. CASE ScheduleRetry(p)
    <3>1. CASE At(p, "bump") /\ BumpAttempts(t) /\ Then(p, "decide")
      BY <2>1, <2>2, <3>1 DEF At, Effect, BumpAttempts, itemVars, Statements
    <3>2. CASE /\ At(p, "decide")
               /\ Then(p, IF Exhausted(t) THEN "failed" ELSE "requeue")
               /\ UNCHANGED <<rowVars, itemVars>>
      BY <2>1, <2>2, <3>2 DEF At, Effect, Exhausted, rowVars, itemVars, Statements
    <3>3. CASE At(p, "requeue") /\ Requeue(t) /\ Then(p, "retryItem")
      BY <2>1, <2>2, <3>3 DEF At, Effect, Requeue, itemVars, Statements, TypeOK, LedgerTypeOK
    <3>4. CASE At(p, "retryItem") /\ RetryItem(t) /\ Return(p)
      BY <2>1, <2>2, <3>4 DEF At, Effect, RetryItem, rowVars, SameRow, Statements, TypeOK, LedgerTypeOK
    <3> QED BY <2>3, <3>1, <3>2, <3>3, <3>4 DEF ScheduleRetry
  <2>4. CASE MarkDownloading(p)
    BY <2>1, <2>2, <2>4 DEF MarkDownloading, At, Effect, DispatchRow, itemVars, Statements, TypeOK, LedgerTypeOK
  <2>5. CASE MarkSettled(p)
    BY <2>1, <2>2, <2>5 DEF MarkSettled, Effect, SettleRow, itemVars, Statements, TypeOK, LedgerTypeOK
  <2>6. CASE SyncItem(p)
    BY <2>1, <2>2, <2>6 DEF SyncItem, At, Effect, EnsureRunning, FinishItem, Enqueue, rowVars, SameRow,
       Statements, TypeOK, LedgerTypeOK
  <2>7. CASE CreateOrder(p)
    BY <2>1, <2>2, <2>7 DEF CreateOrder, At, Effect, InsertTrack, itemVars, Statements, TypeOK, LedgerTypeOK
  <2>8. CASE ResetTrackToPending(p)
    BY <2>1, <2>2, <2>8 DEF ResetTrackToPending, At, Effect, Resettable, ResetRow, SameRow, rowVars, itemVars,
       Statements, TypeOK, LedgerTypeOK
  <2> QED BY <2>3, <2>4, <2>5, <2>6, <2>7, <2>8 DEF Execute
<1> QED BY <1>1, <1>2, <1>3, <1>4, <1>5

\* What a step of a task does to the track it works on.
Progress(j, t) ==
  \/ TaskOf(j, t) = "queued" /\ TaskOf(j, t)' = "running" /\ Doing(j, t)' = "idle"
  \/ TaskOf(j, t) \in {"queued", "running"} /\ TaskOf(j, t)' = "leaving" /\ Doing(j, t)' \in {"ready", "bump"}
  \/ TaskOf(j, t) = "queued" /\ TaskOf(j, t)' = "removing" /\ Doing(j, t)' = "ready"
  \/ TaskOf(j, t) = "removing" /\ TaskOf(j, t)' = "leaving" /\ Doing(j, t)' = "idle"
  \/ TaskOf(j, t)' = "none" /\ Doing(j, t)' = "idle"

\* A task writes neither row nor item by itself, and touches its own track.
LEMMA TaskOn ==
  ASSUME TypeOK, NEW j \in Jobs, Task(j), NEW t \in Tracks
  PROVE  /\ OthersDo(j, t) /\ OtherTasks(j, t) /\ Doing(j, t) = "idle"
         /\ UNCHANGED <<tickVars, state, attempts, item, crashes>> /\ op'["tick"] = op["tick"]
         /\ Progress(j, t)
<1> DEFINE u == job[j].t
           Pcs == {"queued", "running", "leaving"}
<1>0. j \in Procs /\ "tick" \in Procs /\ j # "tick"
  BY ProcNames
<1>1. job[j] # NoJob /\ u \in Tracks /\ job[j].kind \in {"finalize", "ytdlp"} /\ job[j].pc \in Pcs
  <2>1. job[j] # NoJob
    BY DEF Task, FinalizeSearch, FinalizeGivesUp, FinalizeRemove, YtdlpStart,
           YtdlpFinish, TaskEnds, TaskAt, NoJob
  <2> QED BY <2>1, JobTrack
<1>2. op[j] = Idle /\ Doing(j, t) = "idle"
  BY DEF Task, FinalizeSearch, FinalizeGivesUp, FinalizeRemove, YtdlpStart,
         YtdlpFinish, TaskEnds, TaskAt, Doing
<1>3. UNCHANGED <<tickVars, state, attempts, item, crashes>>
  BY DEF Task, FinalizeSearch, FinalizeGivesUp, FinalizeRemove, YtdlpStart,
         YtdlpFinish, TaskEnds, RenewLease, rowVars, itemVars, boundVars
<1>4. OthersDo(j, t) /\ op'["tick"] = op["tick"]
  BY <1>0 DEF Task, FinalizeSearch, FinalizeGivesUp, FinalizeRemove, YtdlpStart,
         YtdlpFinish, TaskEnds, Start, OthersDo, Doing, TypeOK
<1>5. ASSUME NEW pc \in Pcs, GoTo(j, pc)
      PROVE  /\ job'[j] # NoJob /\ job'[j].t = u /\ job'[j].kind = job[j].kind /\ job'[j].pc = pc
             /\ \A k \in Jobs \ {j} : job'[k] = job[k]
  <2>1. job'[j] = [job[j] EXCEPT !.pc = pc] /\ \A k \in Jobs \ {j} : job'[k] = job[k]
    BY <1>5 DEF GoTo, TypeOK
  <2>2. job[j] \in [kind : {"finalize", "ytdlp"}, t : Tracks, pc : Pcs, retry : BOOLEAN]
    BY <1>1, JobTrack
  <2>3. job'[j].kind = job[j].kind /\ job'[j].t = u /\ job'[j].pc = pc
    BY <2>1, <2>2
  <2> QED BY <1>1, <2>1, <2>3 DEF NoJob
<1>6. Leave(j) => job'[j] = NoJob /\ \A k \in Jobs \ {j} : job'[k] = job[k]
  BY DEF Leave, TypeOK
<1>7. Leave(j) \/ \E pc \in Pcs : GoTo(j, pc)
  BY DEF Task, FinalizeSearch, FinalizeGivesUp, FinalizeRemove, YtdlpStart,
         YtdlpFinish, TaskEnds
<1>8. OtherTasks(j, t)
  BY <1>5, <1>6, <1>7 DEF OtherTasks, TaskOf
<1>9. CASE u # t
  <2>1. TaskOf(j, t)' = "none"
    BY <1>5, <1>6, <1>7, <1>9 DEF TaskOf
  <2>2. Doing(j, t)' = "idle"
    BY <1>0, <1>1, <1>2, <1>9, DoingMoves DEF Task, FinalizeSearch, FinalizeGivesUp, FinalizeRemove,
       YtdlpStart, YtdlpFinish, TaskEnds, Doing, Statements
  <2> QED BY <1>2, <1>3, <1>4, <1>8, <2>1, <2>2 DEF Progress
<1>10. CASE u = t
  <2>0. op' = op => Doing(j, t)' = "idle"
    BY <1>2 DEF Doing
  <2>1. CASE FinalizeSearch(j) /\ GoTo(j, "running")
    <3>1. TaskOf(j, t) = "queued" /\ TaskOf(j, t)' = "removing"
      BY <1>1, <1>5, <1>10, <2>1 DEF FinalizeSearch, TaskAt, TaskOf
    <3>2. Start(j, "ready", t)
      <4>1. ~(GoTo(j, "leaving"))
        BY <1>5, <2>1
      <4> QED BY <1>10, <2>1, <4>1 DEF FinalizeSearch
    <3>3. Doing(j, t)' = "ready"
      BY <1>0, <3>2, DoingMoves DEF Statements
    <3> QED BY <1>2, <1>3, <1>4, <1>8, <3>1, <3>3 DEF Progress
  <2>2. CASE (FinalizeSearch(j) \/ YtdlpFinish(j)) /\ GoTo(j, "leaving")
    <3>1. TaskOf(j, t) \in {"queued", "running"} /\ TaskOf(j, t)' = "leaving"
      BY <1>1, <1>5, <1>10, <2>2 DEF FinalizeSearch, YtdlpFinish, TaskAt, TaskOf
    <3>2. Start(j, "ready", t) \/ Start(j, "bump", t)
      BY <1>10, <2>2 DEF FinalizeSearch, YtdlpFinish
    <3>3. Doing(j, t)' \in {"ready", "bump"}
      BY <1>0, <3>2, DoingMoves DEF Statements
    <3> QED BY <1>2, <1>3, <1>4, <1>8, <3>1, <3>3 DEF Progress
  <2>3. CASE FinalizeRemove(j)
    <3>1. TaskOf(j, t) = "removing" /\ TaskOf(j, t)' = "leaving"
      BY <1>1, <1>5, <1>10, <2>3 DEF FinalizeRemove, TaskAt, TaskOf
    <3> QED BY <1>2, <1>3, <1>4, <1>8, <2>0, <2>3, <3>1 DEF Progress, FinalizeRemove
  <2>4. CASE YtdlpStart(j)
    <3>1. TaskOf(j, t) = "queued" /\ TaskOf(j, t)' = "running"
      BY <1>1, <1>5, <1>10, <2>4 DEF YtdlpStart, TaskAt, TaskOf
    <3> QED BY <1>2, <1>3, <1>4, <1>8, <2>0, <2>4, <3>1 DEF Progress, YtdlpStart
  <2>5. CASE FinalizeGivesUp(j) \/ TaskEnds(j)
    <3>1. TaskOf(j, t)' = "none"
      BY <1>6, <2>5 DEF FinalizeGivesUp, TaskEnds, TaskOf
    <3> QED BY <1>2, <1>3, <1>4, <1>8, <2>0, <2>5, <3>1 DEF Progress, FinalizeGivesUp, TaskEnds
  <2> QED BY <2>1, <2>2, <2>3, <2>4, <2>5 DEF Task, FinalizeSearch, YtdlpFinish
<1> QED BY <1>9, <1>10

NoAwait(t) == ~Spawning(t)' /\ ~Lookup(t)'

\* A task is spawned for t.
Spawned(t) == \E j \in Jobs : /\ TaskOf(j, t) = "none" /\ TaskOf(j, t)' = "queued" /\ OtherTasks(j, t)

\* What a step of the tick does to a track: nothing, or it takes it from a
\* list of rows in flight, reads its row to dispatch it, or has its answer.
TickMoves(t) ==
  \/ /\ Doing("tick", t)' = "idle" /\ SameTasks(t)
     /\ Spawning(t)' => Spawning(t) /\ op'["tick"] = Idle
     /\ Lookup(t)' => Lookup(t) /\ op'["tick"] = Idle
  \/ /\ phase \in {"reap", "collect"} /\ ~Spawning(t) /\ ~Lookup(t) /\ NoAwait(t)
     /\ \/ Doing("tick", t)' = "bump" /\ SameTasks(t)
        \/ Doing("tick", t)' = "idle" /\ Spawned(t)
  \/ /\ SameTasks(t) /\ ~Spawning(t) /\ ~Lookup(t)
     /\ \/ state[t] \in TerminalStates \cup {"none"} /\ Doing("tick", t)' = "finishItem" /\ NoAwait(t)
        \/ state[t] = "downloading" /\ Doing("tick", t)' = "runItem" /\ NoAwait(t)
        \/ /\ state[t] = "pending" /\ Doing("tick", t)' = "downloading"
           /\ op'["tick"] = Call("downloading", t) /\ Spawning(t)' /\ ~Lookup(t)'
        \/ /\ state[t] = "pending" /\ Doing("tick", t)' = "idle"
           /\ op'["tick"] = Idle /\ Lookup(t)' /\ ~Spawning(t)'
  \/ /\ Lookup(t) /\ NoAwait(t) /\ SameTasks(t)
     /\ Doing("tick", t)' \in {"absent", "bump", "downloading"}
  \/ /\ Spawning(t) /\ NoAwait(t) /\ Spawned(t) /\ Doing("tick", t)' = "idle"

\* The items are queued at most: recovered ones, and those of waiting orders.
LEMMA TickItems ==
  ASSUME TypeOK, Tick, NEW t \in Tracks
  PROVE  item'[t] \in {item[t], "queued"}
<1>1. CASE ReapStale
  BY <1>1 DEF ReapStale, RecoverStale, TypeOK, LedgerTypeOK
<1>2. CASE \E u \in Tracks : Reconcile(u)
  BY <1>2 DEF Reconcile, Enqueue, TypeOK, LedgerTypeOK
<1>3. CASE UNCHANGED item
  BY <1>3
<1> QED BY <1>1, <1>2, <1>3 DEF Tick, TickStart, CountSlots, ReadPending, NextItems, ReadInflight, GetQueue,
   CollectDone, ReapLease, ReadTrack, Answered, NotLoggedIn, SpawnNonDeezer, Collect, ItemsAge,
   RenewLease, itemVars

\* Spawning touches one free task.
LEMMA SpawnOn ==
  ASSUME TypeOK, NEW kind, NEW u \in Tracks, NEW r, Spawn(kind, u, r), NEW t \in Tracks
  PROVE  IF u = t THEN Spawned(t) ELSE SameTasks(t)
<1>1. PICK j \in FreeJobs : job' = [job EXCEPT ![j] = [kind |-> kind, t |-> u, pc |-> "queued", retry |-> r]]
  BY DEF Spawn
<1>2. /\ j \in Jobs /\ job[j] = NoJob /\ job'[j] # NoJob
      /\ job'[j].t = u /\ job'[j].pc = "queued" /\ \A k \in Jobs \ {j} : job'[k] = job[k]
  BY <1>1 DEF FreeJobs, TypeOK, NoJob
<1>3. OtherTasks(j, t) /\ TaskOf(j, t) = "none"
  BY <1>2 DEF OtherTasks, TaskOf
<1>4. TaskOf(j, t)' = IF u = t THEN "queued" ELSE "none"
  BY <1>2 DEF TaskOf
<1> QED BY <1>2, <1>3, <1>4 DEF Spawned, SameTasks, OtherTasks

LEMMA TickOn ==
  ASSUME TypeOK, Tick, NEW t \in Tracks
  PROVE  /\ OthersDo("tick", t) /\ Doing("tick", t) = "idle" /\ op["tick"] = Idle
         /\ UNCHANGED <<state, attempts, crashes>>
         /\ TickMoves(t)
<1>0. "tick" \in Procs
  BY ProcNames
<1>1. op["tick"] = Idle /\ Doing("tick", t) = "idle"
  BY DEF Tick, TickStart, ReapStale, CountSlots, ReadPending, NextItems, ReadInflight, GetQueue,
     CollectDone, ReapLease, Reconcile, ReadTrack, Answered, NotLoggedIn, SpawnNonDeezer, Collect,
     TickAt, Doing
<1>2. UNCHANGED <<state, attempts, crashes>>
  BY DEF Tick, TickStart, ReapStale, CountSlots, ReadPending, NextItems, ReadInflight, GetQueue,
     CollectDone, ReapLease, Reconcile, ReadTrack, Answered, NotLoggedIn, SpawnNonDeezer, Collect,
     ItemsAge, RecoverStale, Enqueue, RenewLease, rowVars, boundVars
<1>3. UNCHANGED op => OthersDo("tick", t) /\ Doing("tick", t)' = "idle" /\ op'["tick"] = Idle
  BY <1>1 DEF OthersDo, Doing
<1>4. UNCHANGED job => SameTasks(t)
  BY DEF SameTasks, TaskOf
<1>5. /\ UNCHANGED cur => (Spawning(t)' => Spawning(t)) /\ (Lookup(t)' => Lookup(t))
      /\ cur' = Idle => NoAwait(t)
      /\ cur = Idle => ~Spawning(t) /\ ~Lookup(t)
  BY CallNotIdle DEF Spawning, Lookup, NoAwait
<1>6. ASSUME NEW s \in Statements, NEW u \in Tracks, Start("tick", s, u)
      PROVE  /\ OthersDo("tick", t) /\ Doing("tick", t)' = (IF u = t THEN s ELSE "idle")
             /\ op'["tick"] = Call(s, u)
  BY <1>0, <1>6, DoingMoves DEF Start, TypeOK
<1>7. CASE \/ TickStart \/ ReapStale \/ CountSlots \/ ReadPending \/ NextItems \/ ReadInflight
           \/ GetQueue \/ CollectDone
  <2>1. UNCHANGED <<op, job, cur>>
    BY <1>7 DEF TickStart, ReapStale, CountSlots, ReadPending, NextItems, ReadInflight, GetQueue, CollectDone,
       taskVars
  <2> QED BY <1>1, <1>2, <1>3, <1>4, <1>5, <2>1 DEF TickMoves
<1>8. ASSUME NEW u \in Tracks,
             \/ ReapLease(u) \/ Reconcile(u) \/ ReadTrack(u) \/ Answered(u)
             \/ NotLoggedIn(u) \/ SpawnNonDeezer(u) \/ Collect(u)
      PROVE  OthersDo("tick", t) /\ TickMoves(t)
  <2>1. CASE Reconcile(u)
    BY <1>3, <1>4, <1>5, <2>1 DEF Reconcile, TickMoves, taskVars
  <2>2. CASE NotLoggedIn(u)
    BY <1>3, <1>4, <1>5, <2>2 DEF NotLoggedIn, TickMoves, NoAwait, taskVars
  <2>3. CASE ReapLease(u)
    <3>1. UNCHANGED <<job, cur>> /\ cur = Idle /\ phase = "reap" /\ Start("tick", "bump", u)
      BY <2>3 DEF ReapLease, TickAt, taskVars
    <3>2. OthersDo("tick", t) /\ Doing("tick", t)' = (IF u = t THEN "bump" ELSE "idle")
      BY <1>6, <3>1 DEF Statements
    <3> QED BY <1>4, <1>5, <3>1, <3>2 DEF TickMoves, NoAwait
  <2>4. CASE ReadTrack(u)
    <3>1. UNCHANGED job /\ cur = Idle /\ SameTasks(t) /\ ~Spawning(t) /\ ~Lookup(t)
      BY <1>4, <1>5, <2>4 DEF ReadTrack, TickAt, taskVars
    <3>2. CASE state[u] \in TerminalStates \cup {"none"} /\ Start("tick", "finishItem", u) /\ UNCHANGED cur
      <4>1. OthersDo("tick", t) /\ Doing("tick", t)' = (IF u = t THEN "finishItem" ELSE "idle")
        BY <1>6, <3>2 DEF Statements
      <4> QED BY <1>5, <3>1, <3>2, <4>1 DEF TickMoves, NoAwait
    <3>3. CASE state[u] = "downloading" /\ Start("tick", "runItem", u) /\ UNCHANGED cur
      <4>1. OthersDo("tick", t) /\ Doing("tick", t)' = (IF u = t THEN "runItem" ELSE "idle")
        BY <1>6, <3>3 DEF Statements
      <4> QED BY <1>5, <3>1, <3>3, <4>1 DEF TickMoves, NoAwait
    <3>4. CASE state[u] = "pending" /\ Start("tick", "downloading", u) /\ cur' = Call("spawn", u)
      <4>1. /\ OthersDo("tick", t) /\ Doing("tick", t)' = (IF u = t THEN "downloading" ELSE "idle")
            /\ op'["tick"] = Call("downloading", u)
        BY <1>6, <3>4 DEF Statements
      <4>2. (Spawning(t)' <=> u = t) /\ ~Lookup(t)'
        BY <3>4 DEF Spawning, Lookup, Call
      <4> QED BY <3>1, <3>4, <4>1, <4>2 DEF TickMoves
    <3>5. CASE state[u] = "pending" /\ cur' = Call("lookup", u) /\ UNCHANGED op
      <4>1. (Lookup(t)' <=> u = t) /\ ~Spawning(t)'
        BY <3>5 DEF Spawning, Lookup, Call
      <4> QED BY <1>3, <3>1, <3>5, <4>1 DEF TickMoves
    <3> QED BY <2>4, <3>2, <3>3, <3>4, <3>5 DEF ReadTrack
  <2>5. CASE Answered(u)
    <3>1. UNCHANGED job /\ cur = Call("lookup", u) /\ cur' = Idle
      BY <2>5 DEF Answered, taskVars
    <3>2. PICK s \in {"absent", "bump", "downloading"} : Start("tick", s, u)
      BY <2>5 DEF Answered
    <3>3. OthersDo("tick", t) /\ Doing("tick", t)' = (IF u = t THEN s ELSE "idle")
      BY <1>6, <3>2 DEF Statements
    <3>4. u = t => Lookup(t)
      BY <3>1 DEF Lookup
    <3> QED BY <1>4, <1>5, <3>1, <3>3, <3>4 DEF TickMoves, NoAwait
  <2>6. CASE SpawnNonDeezer(u)
    <3>1. UNCHANGED op /\ cur = Call("spawn", u) /\ cur' = Idle /\ Spawn("ytdlp", u, FALSE)
      BY <2>6 DEF SpawnNonDeezer
    <3>2. IF u = t THEN Spawned(t) ELSE SameTasks(t)
      BY <3>1, SpawnOn
    <3>3. u = t => Spawning(t)
      BY <3>1 DEF Spawning
    <3> QED BY <1>3, <1>5, <3>1, <3>2, <3>3 DEF TickMoves, NoAwait
  <2>7. CASE Collect(u)
    <3>1. phase = "collect" /\ cur = Idle /\ cur' = Idle /\ ~Spawning(t) /\ ~Lookup(t) /\ NoAwait(t)
      BY <1>5, <2>7 DEF Collect, TickAt
    <3>2. CASE UNCHANGED <<op, job>>
      BY <1>3, <1>4, <3>1, <3>2 DEF TickMoves, NoAwait
    <3>3. CASE Start("tick", "bump", u) /\ UNCHANGED taskVars
      <4>1. OthersDo("tick", t) /\ Doing("tick", t)' = (IF u = t THEN "bump" ELSE "idle")
        BY <1>6, <3>3 DEF Statements
      <4> QED BY <1>4, <3>1, <3>3, <4>1 DEF TickMoves, NoAwait, taskVars
    <3>4. CASE UNCHANGED op /\ \E r \in BOOLEAN : Spawn("finalize", u, r)
      <4>1. IF u = t THEN Spawned(t) ELSE SameTasks(t)
        BY <3>4, SpawnOn
      <4> QED BY <1>3, <3>1, <3>4, <4>1 DEF TickMoves, NoAwait
    <3> QED BY <2>7, <3>2, <3>3, <3>4 DEF Collect, SpawnFinalize, taskVars
  <2> QED BY <1>8, <2>1, <2>2, <2>3, <2>4, <2>5, <2>6, <2>7
<1> QED BY <1>1, <1>2, <1>3, <1>4, <1>5, <1>7, <1>8 DEF Tick, TickMoves

\* A handler begins a call, or the environment moves.
Outside(u) == Order(u) \/ RetryIsrc(u) \/ DeemixEnds(u) \/ DeemixForgets(u) \/ Clock(u)

LEMMA OutsideOn ==
  ASSUME TypeOK, NEW u \in Tracks, Outside(u), NEW t \in Tracks
  PROVE  /\ OthersDo("http", t) /\ UNCHANGED <<job, cur, phase, state, attempts, item, crashes>>
         /\ op'["tick"] = op["tick"]
         /\ \/ Doing("http", t)' = Doing("http", t)
            \/ Doing("http", t) = "idle" /\ Doing("http", t)' \in {"insert", "reset"}
<1>0. "tick" \in Procs /\ "http" \in Procs /\ "tick" # "http"
  BY ProcNames
<1>1. UNCHANGED <<job, cur, phase, state, attempts, item, crashes>>
  BY DEF Outside, Order, RetryIsrc, DeemixEnds, DeemixForgets, Clock, LeaseLapses, BackoffElapses, HoldElapses,
     tickVars, taskVars, boundVars, rowVars, itemVars
<1>2. CASE Order(u) \/ RetryIsrc(u)
  <2>1. op["http"] = Idle /\ (Start("http", "insert", u) \/ Start("http", "reset", u))
    BY <1>2 DEF Order, RetryIsrc
  <2>2. /\ Doing("http", t) = "idle" /\ OthersDo("http", t)
        /\ Doing("http", t)' \in {"idle", "insert", "reset"}
    BY <1>0, <2>1, DoingMoves DEF Statements, Doing
  <2>3. op'["tick"] = op["tick"]
    BY <1>0, <2>1 DEF Start, TypeOK
  <2> QED BY <1>1, <2>2, <2>3
<1>3. CASE UNCHANGED op
  <2>1. Doing("http", t)' = Doing("http", t) /\ OthersDo("http", t)
    BY <1>3 DEF OthersDo, Doing
  <2> QED BY <1>1, <1>3, <2>1
<1> QED BY <1>2, <1>3 DEF Outside, DeemixEnds, DeemixForgets, Clock

\* Who may be doing what is kept by every step.
LEMMA PlaceNext ==
  ASSUME TypeOK, [Next]_vars, NEW t \in Tracks, PlaceInv(t)
  PROVE  PlaceInv(t)'
<1>1. ASSUME NEW p \in Procs, Execute(p) PROVE PlaceInv(t)'
  <2>1. /\ OthersDo(p, t)
        /\ Doing(p, t) # "idle" => Effect(p, t)
        /\ Doing(p, t) = "idle" => Doing(p, t)' = "idle"
    BY <1>1, ExecuteOn
  <2>2. UNCHANGED <<job, cur>>
    BY <1>1 DEF Execute, tickVars, taskVars
  <2>3. SameTasks(t) /\ (Spawning(t)' <=> Spawning(t)) /\ (Lookup(t)' <=> Lookup(t))
    BY <2>2 DEF SameTasks, TaskOf, Spawning, Lookup
  <2>4. /\ p \in Jobs => Doing(p, t)' \in TaskOps \cup {"idle"} /\ (Doing(p, t)' # "idle" => Doing(p, t) # "idle")
        /\ p = "http" => Doing(p, t)' \in HttpOps \cup {"idle"}
        /\ p = "tick" => Doing(p, t)' \in TickOps \cup {"idle"}
    BY <2>1 DEF PlaceInv, Effect, TaskOps, TickOps, HttpOps, RetryOps, TerminalStates
  <2>5. op'["tick"] = op["tick"] \/ p = "tick"
    BY <1>1, ProcNames DEF Execute, ScheduleRetry, MarkDownloading, MarkSettled, SyncItem, CreateOrder,
       ResetTrackToPending, Then, Return, TypeOK
  <2>6. ASSUME p = "tick", Spawning(t)
        PROVE  op'["tick"] \in {Idle, Call("downloading", t), Call("runItem", t)}
    <3>1. op["tick"] \in {Call("downloading", t), Call("runItem", t)}
      BY <1>1, <2>6 DEF PlaceInv, Execute, ScheduleRetry, MarkDownloading, MarkSettled, SyncItem, CreateOrder,
         ResetTrackToPending, At, Idle, TerminalStates
    <3>2. MarkDownloading(p) \/ SyncItem(p)
      BY <1>1, <2>6, <3>1 DEF Execute, ScheduleRetry, MarkSettled, CreateOrder, ResetTrackToPending, At, Call,
         TerminalStates
    <3> QED BY <2>6, <3>1, <3>2, ProcNames DEF MarkDownloading, SyncItem, Then, Return, Call, TypeOK
  <2>7. ASSUME p = "tick", Lookup(t) PROVE FALSE
    BY <1>1, <2>7 DEF PlaceInv, Execute, ScheduleRetry, MarkDownloading, MarkSettled, SyncItem, CreateOrder,
       ResetTrackToPending, At, Idle, TerminalStates
  <2>8. ASSUME NEW j \in Jobs, Doing(j, t)' # "idle"
        PROVE  TaskOf(j, t)' \in {"removing", "leaving"} /\ Doing(j, t)' \in TaskOps
    BY <2>1, <2>3, <2>4, <2>8, ProcNames DEF PlaceInv, OthersDo, SameTasks
  <2>9. Doing("http", t)' \in HttpOps \cup {"idle"} /\ Doing("tick", t)' \in TickOps \cup {"idle"}
    BY <2>1, <2>4, ProcNames DEF PlaceInv, OthersDo
  <2> QED BY <2>3, <2>5, <2>6, <2>7, <2>8, <2>9 DEF PlaceInv
<1>2. ASSUME NEW j \in Jobs, Task(j) PROVE PlaceInv(t)'
  <2>1. OthersDo(j, t) /\ OtherTasks(j, t) /\ Progress(j, t) /\ cur' = cur /\ op'["tick"] = op["tick"]
    BY <1>2, TaskOn DEF tickVars
  <2>2. ASSUME NEW k \in Jobs, Doing(k, t)' # "idle"
        PROVE  TaskOf(k, t)' \in {"removing", "leaving"} /\ Doing(k, t)' \in TaskOps
    BY <2>1, <2>2, ProcNames DEF PlaceInv, OthersDo, OtherTasks, Progress, TaskOps, RetryOps
  <2>3. Doing("http", t)' = Doing("http", t) /\ Doing("tick", t)' = Doing("tick", t)
    BY <2>1, ProcNames DEF OthersDo
  <2> QED BY <2>1, <2>2, <2>3 DEF PlaceInv, Spawning, Lookup
<1>3. CASE Tick
  <2>1. OthersDo("tick", t) /\ op["tick"] = Idle /\ TickMoves(t)
    BY <1>3, TickOn
  <2>2. ASSUME NEW k \in Jobs
        PROVE  Doing(k, t)' = Doing(k, t) /\ (Doing(k, t) # "idle" => TaskOf(k, t)' = TaskOf(k, t))
    <3>1. TaskOf(k, t) # "none" => TaskOf(k, t)' = TaskOf(k, t)
      BY <2>1 DEF TickMoves, SameTasks, Spawned, OtherTasks
    <3> QED BY <2>1, <3>1, ProcNames DEF PlaceInv, OthersDo
  <2>3. Doing("http", t)' = Doing("http", t)
    BY <2>1, ProcNames DEF OthersDo
  <2>4. /\ Doing("tick", t)' \in TickOps \cup {"idle"}
        /\ Spawning(t)' => op'["tick"] \in {Idle, Call("downloading", t), Call("runItem", t)}
        /\ Lookup(t)' => op'["tick"] = Idle
    BY <2>1 DEF TickMoves, NoAwait, TickOps, RetryOps
  <2> QED BY <2>2, <2>3, <2>4 DEF PlaceInv
<1>4. ASSUME NEW u \in Tracks, Outside(u) PROVE PlaceInv(t)'
  <2>1. /\ OthersDo("http", t) /\ UNCHANGED <<job, cur>> /\ op'["tick"] = op["tick"]
        /\ Doing("http", t)' \in {Doing("http", t), "insert", "reset"}
    BY <1>4, OutsideOn
  <2>2. Doing("tick", t)' = Doing("tick", t) /\ \A k \in Jobs : Doing(k, t)' = Doing(k, t)
    BY <2>1, ProcNames DEF OthersDo
  <2>3. \A k \in Jobs : TaskOf(k, t)' = TaskOf(k, t)
    BY <2>1 DEF TaskOf
  <2> QED BY <2>1, <2>2, <2>3 DEF PlaceInv, Spawning, Lookup, HttpOps
<1>5. CASE Crash
  <2>1. \A p \in Procs : Doing(p, t)' = "idle"
    BY <1>5 DEF Crash, Doing
  <2>2. op'["tick"] = Idle
    BY <1>5, ProcNames DEF Crash
  <2> QED BY <2>1, <2>2, ProcNames DEF PlaceInv
<1>6. CASE UNCHANGED vars
  BY <1>6 DEF vars, codeVars, tickVars, taskVars, PlaceInv, Doing, TaskOf, Spawning, Lookup
<1> QED BY <1>1, <1>2, <1>3, <1>4, <1>5, <1>6 DEF Next, Step, Outside

\* Who has the track in hand shuts everybody else out.
LEMMA SoleHand ==
  ASSUME TypeOK, NEW t \in Tracks, Sole(t), NEW p \in Procs, InHand(p, t)
  PROVE  /\ \A q \in Procs \ {p} : Doing(q, t) \in {"idle", "insert", "enqueue"}
         /\ p # "tick" => ~Spawning(t) /\ ~Lookup(t)
         /\ \A j \in Jobs \ {p} : TaskOf(j, t) \notin {"queued", "running", "removing"}
  BY HandShape, ProcNames DEF Sole

\* A track at rest is in nobody's hands, whatever happened to it before.
LEMMA Rested ==
  ASSUME TypeOK', NEW t \in Tracks, AtRest(t)'
  PROVE  Sole(t)' /\ RowInv(t)' /\ ItemInv(t)'
<1>1. \A p \in Procs : ~InHand(p, t)'
  BY DEF AtRest
<1>2. /\ \A p \in Procs : Doing(p, t)' \in {"idle", "insert", "enqueue"}
      /\ ~Spawning(t)' /\ ~Lookup(t)'
      /\ \A j \in Jobs : TaskOf(j, t)' \notin {"queued", "running"}
  BY <1>1, HandShapeNext, ProcNames
<1>3. state'[t] \in TerminalStates /\ item'[t] # "running"
  BY DEF AtRest
<1>4. Sole(t)'
  BY <1>1 DEF Sole
<1>5. RowInv(t)'
  BY <1>2, <1>3, ProcNames DEF RowInv, RetryOps, TerminalStates
<1>6. ItemInv(t)'
  BY <1>2, <1>3, ProcNames DEF ItemInv, TerminalStates
<1> QED BY <1>4, <1>5, <1>6

\* A track that is not disturbed after a step is at rest, or nothing of what
\* disturbs has happened to it.
LEMMA Alone ==
  ASSUME TypeOK, TypeOK', Witness, NEW t \in Tracks, t \notin disturbed', ~AtRest(t)'
  PROVE  /\ t \notin disturbed
         /\ Sole(t)'
         /\ t \notin TakenLate /\ t \notin CutOff /\ t \notin Reset
<1>1. t \notin disturbed \cup Contended' \cup TakenLate \cup CutOff \cup Reset
  BY DEF Witness
<1>2. Sole(t)'
  BY <1>1 DEF Contended, Sole
<1> QED BY <1>1, <1>2

\* A statement moves the row of a track only for the one who has it in hand.
LEMMA OwnExecute ==
  ASSUME TypeOK, NEW t \in Tracks, PlaceInv(t), Sole(t), RowInv(t), ItemInv(t),
         NEW p \in Procs, Execute(p), t \notin Reset
  PROVE  RowInv(t)' /\ ItemInv(t)'
<1>1. OthersDo(p, t) /\ UNCHANGED <<job, cur>>
  BY ExecuteOn DEF Execute, tickVars, taskVars
<1>2. SameTasks(t) /\ (Spawning(t)' <=> Spawning(t)) /\ (Lookup(t)' <=> Lookup(t))
  BY <1>1 DEF SameTasks, TaskOf, Spawning, Lookup
<1>3. CASE Doing(p, t) = "idle"
  <2>1. SameRow(t) /\ SameItem(t) /\ \A q \in Procs : Doing(q, t)' = Doing(q, t)
    BY <1>1, <1>3, ExecuteOn DEF OthersDo
  <2>2. RowInv(t)'
    BY <1>2, <2>1, ProcNames DEF RowInv, SameRow, SameTasks
  <2>3. ItemInv(t)'
    BY <2>1, ProcNames DEF ItemInv, SameRow, SameItem
  <2> QED BY <2>2, <2>3
<1>4. CASE Doing(p, t) \in {"insert", "enqueue"}
  <2>1. Effect(p, t) /\ p = "http"
    BY <1>4, ExecuteOn, ProcNames DEF PlaceInv, TaskOps, TickOps, RetryOps
  <2>2. \A q \in Procs : q # "http" => Doing(q, t)' = Doing(q, t)
    BY <1>1, <2>1 DEF OthersDo
  <2>3. /\ state'[t] = (IF Doing(p, t) = "insert" /\ state[t] = "none" THEN "pending" ELSE state[t])
        /\ attempts'[t] = attempts[t] /\ Doing("http", t)' \in {"idle", "enqueue"}
        /\ item'[t] \in {item[t], "queued"} /\ (item[t] \in {"queued", "running"} => item'[t] = item[t])
    BY <1>4, <2>1 DEF Effect, TerminalStates, SameRow
  <2>4. RowInv(t)'
    BY <1>2, <2>2, <2>3, ProcNames DEF RowInv, SameTasks
  <2>5. item[t] = "running" => state[t] = "downloading" \/ \E q \in Procs : Doing(q, t)' \in Closers
    <3>1. \A q \in Procs : Doing(q, t) \in Closers => Doing(q, t)' \in Closers
      BY <1>4, <2>1, <2>2 DEF Closers
    <3> QED BY <3>1 DEF ItemInv
  <2>6. ItemInv(t)'
    BY <2>2, <2>3, <2>5, ProcNames DEF ItemInv
  <2> QED BY <2>4, <2>6
<1>5. CASE Doing(p, t) \notin {"idle", "insert", "enqueue"}
  <2>1. Effect(p, t) /\ InHand(p, t)
    BY <1>5, ExecuteOn, HandShape
  <2>2. /\ \A q \in Procs \ {p} : Doing(q, t)' = Doing(q, t) /\ Doing(q, t) \in {"idle", "insert", "enqueue"}
        /\ p # "tick" => ~Spawning(t) /\ ~Lookup(t)
        /\ \A j \in Jobs \ {p} : TaskOf(j, t)' \notin {"queued", "running"}
    BY <1>1, <1>2, <2>1, SoleHand DEF OthersDo, SameTasks
  <2>3. ~Lookup(t)' /\ (p \in Jobs => TaskOf(p, t)' \notin {"queued", "running"})
    BY <1>2, <1>5, <2>2, ProcNames DEF PlaceInv, SameTasks, Doing
  <2>4. \A j \in Jobs : TaskOf(j, t)' \notin {"queued", "running"}
    BY <2>2, <2>3
  <2>5. Spawning(t)' => p = "tick" /\ Doing(p, t) \in {"downloading", "runItem"}
    <3>1. op["tick"] = Idle => Doing("tick", t) = "idle"
      BY DEF Doing
    <3>2. \A s : op["tick"] = Call(s, t) => Doing("tick", t) \in {"idle", s}
      BY DEF Doing, Call
    <3> QED BY <1>2, <1>5, <2>2, <3>1, <3>2 DEF PlaceInv
  <2>6. \A q \in Procs : Doing(q, t)' \notin {"idle", "insert", "enqueue"} => q = p
    BY <2>2
  <2>7. CASE Doing(p, t) \in {"bump", "decide"}
    <3>1. /\ state'[t] = state[t] /\ item'[t] = item[t] /\ p # "http"
          /\ Doing(p, t)' \in {"decide", "failed", "requeue"}
          /\ Doing(p, t) = "decide" => attempts'[t] = attempts[t]
          /\ Doing(p, t) = "bump" => Doing(p, t)' = "decide"
          /\ Doing(p, t)' = "requeue" => attempts[t] < MaxAttempts
      BY <2>1, <2>7, MaxAttemptsAssumption DEF Effect, TerminalStates, PlaceInv, HttpOps, TypeOK, LedgerTypeOK
    <3>2. state[t] = "downloading" \/ (p = "tick" /\ state[t] = "pending")
      BY <2>7, <3>1, ProcNames DEF RowInv, RetryOps
    <3>3. state[t] = "pending" => attempts'[t] < MaxAttempts \/ Doing("tick", t)' \in {"decide", "failed"}
      BY <2>7, <3>1, <3>2
    <3>4. RowInv(t)'
      BY <2>3, <2>4, <2>5, <2>6, <2>7, <3>1, <3>2, <3>3, ProcNames DEF RowInv, RetryOps
    <3>5. item[t] = "running" => state[t] = "downloading"
      BY <2>2, <2>7 DEF ItemInv, Closers
    <3>6. state[t] = "downloading" => item[t] \in {"queued", "running"}
      BY <2>2, <2>7, ProcNames DEF ItemInv
    <3>7. ItemInv(t)'
      BY <2>6, <3>1, <3>5, <3>6 DEF ItemInv
    <3> QED BY <3>4, <3>7
  <2>8. CASE Doing(p, t) = "requeue"
    <3>1. Doing(p, t)' = "retryItem" /\ state'[t] = "pending" /\ attempts'[t] = attempts[t] /\ attempts[t] < MaxAttempts
      BY <2>1, <2>8 DEF Effect, TerminalStates, RowInv
    <3>2. RowInv(t)'
      BY <2>3, <2>4, <2>5, <2>6, <2>8, <3>1, ProcNames DEF RowInv, RetryOps
    <3>3. ItemInv(t)'
      BY <2>6, <3>1 DEF ItemInv, Closers
    <3> QED BY <3>2, <3>3
  <2>9. CASE Doing(p, t) \in TerminalStates
    <3>1. Doing(p, t)' = "finishItem" /\ state'[t] \in TerminalStates
      BY <2>1, <2>9 DEF Effect, TerminalStates
    <3>2. RowInv(t)'
      BY <2>3, <2>4, <2>5, <2>6, <2>9, <3>1, ProcNames DEF RowInv, RetryOps, TerminalStates
    <3>3. ItemInv(t)'
      BY <2>6, <3>1 DEF ItemInv, Closers, TerminalStates
    <3> QED BY <3>2, <3>3
  <2>10. CASE Doing(p, t) = "downloading"
    <3>1. Doing(p, t)' = "runItem" /\ state'[t] = "downloading" /\ item'[t] = item[t] /\ p = "tick"
      BY <2>1, <2>10, ProcNames DEF Effect, TerminalStates, PlaceInv, TaskOps, HttpOps, RetryOps
    <3>2. RowInv(t)'
      BY <2>3, <2>4, <2>6, <3>1, ProcNames DEF RowInv, RetryOps
    <3>3. ItemInv(t)'
      BY <2>6, <3>1 DEF ItemInv, Closers
    <3> QED BY <3>2, <3>3
  <2>11. CASE Doing(p, t) = "runItem"
    <3>1. Doing(p, t)' = "idle" /\ SameRow(t) /\ item'[t] = "running" /\ p = "tick" /\ state[t] = "downloading"
      BY <2>1, <2>11, ProcNames DEF Effect, TerminalStates, PlaceInv, TaskOps, HttpOps, RetryOps, RowInv
    <3>2. RowInv(t)'
      BY <2>3, <2>4, <2>6, <3>1, ProcNames DEF RowInv, RetryOps, SameRow
    <3>3. ItemInv(t)'
      BY <2>6, <3>1 DEF ItemInv, Closers, SameRow
    <3> QED BY <3>2, <3>3
  <2>12. CASE Doing(p, t) \in Closers
    <3>1. /\ Doing(p, t)' = "idle" /\ SameRow(t) /\ item'[t] # "running"
          /\ Doing(p, t) = "retryItem" => item'[t] = "queued"
          /\ Doing(p, t) = "finishItem" => state[t] # "downloading"
      BY <2>1, <2>12 DEF Effect, TerminalStates, Closers, ItemInv
    <3>2. state[t] \in {"none", "pending"} => attempts[t] < MaxAttempts
      BY <2>2, <2>12, ProcNames DEF RowInv, Closers
    <3>3. RowInv(t)'
      BY <2>3, <2>4, <2>5, <2>6, <2>12, <3>1, <3>2, ProcNames DEF RowInv, RetryOps, SameRow, Closers
    <3>4. ItemInv(t)'
      BY <2>6, <2>12, <3>1 DEF ItemInv, Closers, SameRow
    <3> QED BY <3>3, <3>4
  <2>13. CASE Doing(p, t) = "reset"
    <3>1. p = "http"
      BY <2>13, ProcNames DEF PlaceInv, TaskOps, TickOps, RetryOps
    <3>2. CASE Doing(p, t)' = "idle" /\ SameRow(t) /\ item'[t] = item[t]
      <4>1. RowInv(t)'
        BY <2>2, <2>3, <2>4, <2>5, <2>6, <2>13, <3>1, <3>2, ProcNames DEF RowInv, RetryOps, SameRow
      <4>2. ItemInv(t)'
        BY <2>2, <2>6, <2>13, <3>1, <3>2, ProcNames DEF ItemInv, SameRow, Closers
      <4> QED BY <4>1, <4>2
    <3>3. CASE /\ Doing(p, t)' = "enqueue" /\ state'[t] = "pending" /\ attempts'[t] = 0 /\ item'[t] = item[t]
      <4>1. state[t] # "downloading"
        <5>1. op["http"] = Call("reset", t) /\ op'["http"] # op["http"]
          <6>1. op["http"] # Idle /\ op["http"].t = t /\ op["http"].at = "reset"
            BY <2>13, <3>1 DEF Doing
          <6>2. op["http"] = Call("reset", t)
            BY <6>1, ProcNames DEF TypeOK, OpSet, Call
          <6> QED BY <3>1, <3>3, <2>13, <6>2 DEF Doing
        <5> QED BY <5>1 DEF Reset, Downloading
      <4>2. RowInv(t)'
        BY <2>3, <2>4, <2>5, <2>6, <2>13, <3>1, <3>3, MaxAttemptsAssumption, ProcNames DEF RowInv, RetryOps
      <4>3. item[t] # "running"
        BY <2>2, <2>13, <4>1 DEF ItemInv, Closers
      <4>4. ItemInv(t)'
        BY <2>6, <3>3, <4>3 DEF ItemInv, Closers
      <4> QED BY <4>2, <4>4
    <3> QED BY <2>1, <2>13, <3>2, <3>3 DEF Effect, TerminalStates
  <2> QED BY <1>5, <2>7, <2>8, <2>9, <2>10, <2>11, <2>12, <2>13, ProcNames
          DEF PlaceInv, TaskOps, TickOps, HttpOps, RetryOps, Closers, TerminalStates
<1> QED BY <1>3, <1>4, <1>5

\* A task that is live has its row downloading when it starts to call.
LEMMA OwnTask ==
  ASSUME TypeOK, NEW t \in Tracks, PlaceInv(t), Sole(t), RowInv(t), ItemInv(t), NEW j \in Jobs, Task(j)
  PROVE  RowInv(t)' /\ ItemInv(t)'
<1>1. /\ OthersDo(j, t) /\ OtherTasks(j, t) /\ Doing(j, t) = "idle" /\ Progress(j, t)
      /\ cur' = cur /\ state' = state /\ attempts' = attempts /\ item' = item
  BY TaskOn DEF tickVars
<1>2. (Spawning(t)' <=> Spawning(t)) /\ (Lookup(t)' <=> Lookup(t))
  BY <1>1 DEF Spawning, Lookup
<1>3. \A q \in Procs : q # j => Doing(q, t)' = Doing(q, t)
  BY <1>1 DEF OthersDo
<1>4. Doing(j, t)' \in {"idle", "ready", "bump"}
  BY <1>1 DEF Progress
<1>5. Doing(j, t)' # "idle" \/ TaskOf(j, t)' \in {"queued", "running"} => state[t] = "downloading"
  BY <1>1 DEF Progress, RowInv
<1>6. \A k \in Jobs : TaskOf(k, t)' \in {"queued", "running"} => state[t] = "downloading"
  BY <1>1, <1>5 DEF OtherTasks, RowInv
<1>7. RowInv(t)'
  BY <1>1, <1>2, <1>3, <1>4, <1>5, <1>6, ProcNames DEF RowInv
<1>8. item[t] = "running" => state[t] = "downloading" \/ \E q \in Procs : Doing(q, t)' \in Closers
  <2>1. \A q \in Procs : Doing(q, t) \in Closers => Doing(q, t)' \in Closers
    BY <1>1, <1>3 DEF Closers
  <2> QED BY <2>1 DEF ItemInv
<1>9. ItemInv(t)'
  BY <1>1, <1>3, <1>4, <1>8, ProcNames DEF ItemInv
<1> QED BY <1>7, <1>9

\* The rows of the tracks the tick and the tasks now have in hand are as found.
TickFinds(t) ==
  /\ \A j \in Jobs : TaskOf(j, t)' \in {"queued", "running"} => state[t] = "downloading"
  /\ Doing("tick", t)' \in RetryOps => state[t] \in {"pending", "downloading"}
  /\ Doing("tick", t)' \in {"downloading", "absent"} => state[t] = "pending"
  /\ Doing("tick", t)' = "runItem" => state[t] = "downloading"
  /\ Lookup(t)' => state[t] = "pending"
  /\ Spawning(t)' /\ Doing("tick", t)' # "downloading" => state[t] = "downloading"

\* The tick takes up a row in flight that is still in flight, or one it has
\* just read.
LEMMA OwnTick ==
  ASSUME TypeOK, TypeOK', NEW t \in Tracks, PlaceInv(t), Sole(t), RowInv(t), ItemInv(t), Tick,
         t \notin TakenLate, Sole(t)'
  PROVE  RowInv(t)' /\ ItemInv(t)'
<1>1. /\ OthersDo("tick", t) /\ Doing("tick", t) = "idle" /\ op["tick"] = Idle
      /\ UNCHANGED <<state, attempts>> /\ TickMoves(t)
      /\ item'[t] \in {item[t], "queued"}
  BY TickOn, TickItems
<1>2. \A q \in Procs : q # "tick" => Doing(q, t)' = Doing(q, t)
  BY <1>1 DEF OthersDo
<1>3. state[t] \in {"none", "pending"} => attempts[t] < MaxAttempts
  BY <1>1 DEF RowInv
<1>4. item[t] = "running" => state[t] = "downloading" \/ \E q \in Procs : Doing(q, t)' \in Closers
  <2>1. \A q \in Procs : Doing(q, t) \in Closers => Doing(q, t)' \in Closers
    BY <1>1, <1>2 DEF Closers
  <2> QED BY <2>1 DEF ItemInv
<1>5. Doing("tick", t)' = "finishItem" => state[t] # "downloading"
  BY <1>1 DEF TickMoves, TerminalStates
<1>6. ItemInv(t)'
  BY <1>1, <1>2, <1>4, <1>5, ProcNames DEF ItemInv
<1>7. \A q \in Procs : Doing(q, t)' = "requeue" => attempts[t] < MaxAttempts
  BY <1>1, <1>2 DEF TickMoves, RowInv
<1>8. \A j \in Jobs : Doing(j, t)' \in RetryOps \cup {"ready"} => state[t] = "downloading"
  BY <1>2, ProcNames DEF RowInv
<1>9. TickFinds(t) => RowInv(t)'
  BY <1>1, <1>3, <1>7, <1>8 DEF RowInv, TickFinds
<1>10. SameTasks(t) => \A j \in Jobs : TaskOf(j, t)' \in {"queued", "running"} => state[t] = "downloading"
  BY DEF SameTasks, RowInv
<1>11. Spawned(t) /\ state[t] = "downloading"
         => \A j \in Jobs : TaskOf(j, t)' \in {"queued", "running"} => state[t] = "downloading"
  OBVIOUS
<1>12. CASE /\ Doing("tick", t)' = "idle" /\ SameTasks(t)
            /\ Spawning(t)' => Spawning(t) /\ op'["tick"] = Idle
            /\ Lookup(t)' => Lookup(t) /\ op'["tick"] = Idle
  <2>1. TickFinds(t)
    BY <1>1, <1>10, <1>12 DEF RowInv, RetryOps, TickFinds
  <2> QED BY <1>6, <1>9, <2>1
<1>13. CASE /\ phase \in {"reap", "collect"} /\ ~Spawning(t) /\ ~Lookup(t) /\ NoAwait(t)
            /\ \/ Doing("tick", t)' = "bump" /\ SameTasks(t)
               \/ Doing("tick", t)' = "idle" /\ Spawned(t)
  <2>1. \E q \in Procs \ {"http"} : ~InHand(q, t) /\ InHand(q, t)'
    <3>1. CASE Doing("tick", t)' = "bump"
      <4>1. ~InHand("tick", t) /\ InHand("tick", t)'
        BY <1>1, <1>13, <3>1, HandShape, HandShapeNext, ProcNames
      <4> QED BY <4>1, ProcNames
    <3>2. CASE Spawned(t)
      <4>1. PICK j \in Jobs : TaskOf(j, t) = "none" /\ TaskOf(j, t)' = "queued"
        BY <3>2 DEF Spawned
      <4>2. Doing(j, t) = "idle"
        BY <4>1 DEF PlaceInv
      <4>3. ~InHand(j, t) /\ InHand(j, t)'
        BY <4>1, <4>2, HandShape, HandShapeNext, ProcNames
      <4> QED BY <4>3, ProcNames
    <3> QED BY <1>13, <3>1, <3>2
  <2>2. state[t] = "downloading"
    BY <1>13, <2>1 DEF TakenLate, Downloading
  <2>3. TickFinds(t)
    BY <1>10, <1>11, <1>13, <2>2 DEF NoAwait, TickFinds
  <2> QED BY <1>6, <1>9, <2>3
<1>14. CASE /\ SameTasks(t) /\ ~Spawning(t) /\ ~Lookup(t)
            /\ \/ state[t] \in TerminalStates \cup {"none"} /\ Doing("tick", t)' = "finishItem" /\ NoAwait(t)
               \/ state[t] = "downloading" /\ Doing("tick", t)' = "runItem" /\ NoAwait(t)
               \/ /\ state[t] = "pending" /\ Doing("tick", t)' = "downloading"
                  /\ op'["tick"] = Call("downloading", t) /\ Spawning(t)' /\ ~Lookup(t)'
               \/ /\ state[t] = "pending" /\ Doing("tick", t)' = "idle"
                  /\ op'["tick"] = Idle /\ Lookup(t)' /\ ~Spawning(t)'
  <2>1. Doing("tick", t)' \notin RetryOps \cup {"absent"}
    BY <1>14 DEF RetryOps
  <2>2. TickFinds(t)
    BY <1>10, <1>14, <2>1 DEF NoAwait, TickFinds
  <2> QED BY <1>6, <1>9, <2>2
<1>15. CASE /\ Lookup(t) /\ NoAwait(t) /\ SameTasks(t)
            /\ Doing("tick", t)' \in {"absent", "bump", "downloading"}
  <2>1. state[t] = "pending"
    BY <1>15 DEF RowInv
  <2>2. TickFinds(t)
    BY <1>10, <1>15, <2>1 DEF NoAwait, TickFinds
  <2> QED BY <1>6, <1>9, <2>2
<1>16. CASE Spawning(t) /\ NoAwait(t) /\ Spawned(t) /\ Doing("tick", t)' = "idle"
  <2>1. state[t] = "downloading"
    BY <1>1, <1>16 DEF RowInv
  <2>2. TickFinds(t)
    BY <1>11, <1>16, <2>1 DEF NoAwait, RetryOps, TickFinds
  <2> QED BY <1>6, <1>9, <2>2
<1> QED BY <1>1, <1>6, <1>12, <1>13, <1>14, <1>15, <1>16 DEF TickMoves

LEMMA OwnOutside ==
  ASSUME TypeOK, NEW t \in Tracks, PlaceInv(t), RowInv(t), ItemInv(t), NEW u \in Tracks, Outside(u)
  PROVE  RowInv(t)' /\ ItemInv(t)'
<1>1. /\ OthersDo("http", t) /\ UNCHANGED <<job, cur, state, attempts, item>>
      /\ \/ Doing("http", t)' = Doing("http", t)
         \/ Doing("http", t) = "idle" /\ Doing("http", t)' \in {"insert", "reset"}
  BY OutsideOn
<1>2. /\ Spawning(t)' <=> Spawning(t)
      /\ Lookup(t)' <=> Lookup(t)
      /\ \A j \in Jobs : TaskOf(j, t)' = TaskOf(j, t)
  BY <1>1 DEF Spawning, Lookup, TaskOf
<1>3. \A q \in Procs : q # "http" => Doing(q, t)' = Doing(q, t)
  BY <1>1 DEF OthersDo
<1>4. RowInv(t)'
  BY <1>1, <1>2, <1>3, ProcNames DEF RowInv
<1>5. item[t] = "running" => state[t] = "downloading" \/ \E q \in Procs : Doing(q, t)' \in Closers
  <2>1. \A q \in Procs : Doing(q, t) \in Closers => Doing(q, t)' \in Closers
    BY <1>1, <1>3 DEF Closers
  <2> QED BY <2>1 DEF ItemInv
<1>6. ItemInv(t)'
  BY <1>1, <1>3, <1>5, ProcNames DEF ItemInv
<1> QED BY <1>4, <1>6

\* A process that dies between two calls leaves row and item agreeing.
LEMMA OwnCrash ==
  ASSUME TypeOK, NEW t \in Tracks, PlaceInv(t), RowInv(t), ItemInv(t), Crash, t \notin CutOff
  PROVE  RowInv(t)' /\ ItemInv(t)'
<1>1. \A p \in Procs : Doing(p, t) = "idle"
  <2>1. crashes' # crashes
    BY DEF Crash, TypeOK
  <2> QED BY <2>1 DEF CutOff, Doing
<1>2. /\ \A p \in Procs : Doing(p, t)' = "idle"
      /\ \A j \in Jobs : TaskOf(j, t)' = "none"
      /\ ~Spawning(t)' /\ ~Lookup(t)'
      /\ UNCHANGED <<state, attempts, item>>
  BY CallNotIdle DEF Crash, Doing, TaskOf, Spawning, Lookup, rowVars, itemVars
<1>3. RowInv(t)'
  BY <1>1, <1>2, ProcNames DEF RowInv, RetryOps
<1>4. ItemInv(t)'
  BY <1>1, <1>2, ProcNames DEF ItemInv, Closers
<1> QED BY <1>3, <1>4

LEMMA OwnInit == Init => OwnInv
<1> SUFFICES ASSUME Init, NEW t \in Tracks PROVE PlaceInv(t) /\ Sole(t) /\ RowInv(t) /\ ItemInv(t)
  BY DEF OwnInv
<1>1. /\ \A p \in Procs : Doing(p, t) = "idle"
      /\ \A j \in Jobs : TaskOf(j, t) = "none"
      /\ ~Spawning(t) /\ ~Lookup(t)
  BY CallNotIdle DEF Init, Doing, TaskOf, Spawning, Lookup
<1>2. \A p \in Procs : ~InHand(p, t)
  BY <1>1, InitTypes, HandShape
<1>3. PlaceInv(t) /\ Sole(t)
  BY <1>1, <1>2, ProcNames DEF PlaceInv, Sole
<1>4. RowInv(t) /\ ItemInv(t)
  BY <1>1, MaxAttemptsAssumption, ProcNames DEF RowInv, ItemInv, RetryOps, Init, LedgerInit
<1> QED BY <1>3, <1>4

LEMMA OwnNext == TypeOK /\ TypeOK' /\ OwnInv /\ [Next]_vars => OwnInv'
<1> SUFFICES ASSUME TypeOK, TypeOK', OwnInv, [Next]_vars, NEW t \in Tracks
             PROVE  PlaceInv(t)' /\ (t \notin disturbed' => Sole(t)' /\ RowInv(t)' /\ ItemInv(t)')
  BY DEF OwnInv
<1>1. PlaceInv(t) /\ PlaceInv(t)' /\ (t \notin disturbed => Sole(t) /\ RowInv(t) /\ ItemInv(t))
  BY PlaceNext DEF OwnInv
<1>2. CASE UNCHANGED vars
  BY <1>1, <1>2 DEF vars, codeVars, tickVars, taskVars, rowVars, itemVars, Sole, InHand, RowInv, ItemInv,
     Doing, TaskOf, Spawning, Lookup
<1>3. CASE Next
  <2> SUFFICES ASSUME t \notin disturbed', ~AtRest(t)' PROVE Sole(t)' /\ RowInv(t)' /\ ItemInv(t)'
    BY <1>1, Rested
  <2>1. Sole(t)' /\ t \notin TakenLate /\ t \notin CutOff /\ t \notin Reset /\ t \notin disturbed
    BY <1>3, Alone DEF Next
  <2> QED BY <1>1, <1>3, <2>1, OwnExecute, OwnTask, OwnTick, OwnOutside, OwnCrash DEF Next, Step, Outside
<1> QED BY <1>2, <1>3

\* Row, item and whoever works on an undisturbed track go together, at every
\* point of every call.
THEOREM OneAtATime == Spec => []OwnInv
BY InitTypes, NextTypes, OwnInit, OwnNext, PTL DEF Spec

\* What a step does to the row of an undisturbed track.
LEMMA RowSteps ==
  ASSUME TypeOK, OwnInv, [Next]_vars, NEW t \in Tracks \ disturbed
  PROVE  /\ state[t] # "downloading" /\ state'[t] = "downloading" => attempts[t] < MaxAttempts
         /\ state[t] = "ready" => state'[t] = "ready"
<1>1. PlaceInv(t) /\ RowInv(t) /\ t \in Tracks
  BY DEF OwnInv
<1>2. CASE UNCHANGED state
  BY <1>2
<1>3. ASSUME NEW p \in Procs, Execute(p)
      PROVE  /\ state[t] # "downloading" /\ state'[t] = "downloading" => attempts[t] < MaxAttempts
             /\ state[t] = "ready" => state'[t] = "ready"
  <2>1. CASE Doing(p, t) = "idle"
    BY <1>1, <1>3, <2>1, ExecuteOn DEF SameRow
  <2>2. CASE Doing(p, t) # "idle"
    <3>1. Effect(p, t)
      BY <1>1, <1>3, <2>2, ExecuteOn
    <3>2. Doing(p, t) = "downloading" => p = "tick"
      BY <1>1, ProcNames DEF PlaceInv, TaskOps, HttpOps, RetryOps
    <3>3. Doing(p, t) \in RetryOps \cup {"downloading", "absent"} => state[t] \in {"pending", "downloading"}
      BY <1>1, ProcNames DEF RowInv, PlaceInv, TaskOps, HttpOps, RetryOps
    <3>4. Doing(p, t) = "downloading" => attempts[t] < MaxAttempts
      BY <1>1, <3>2 DEF RowInv
    <3> QED BY <3>1, <3>3, <3>4 DEF Effect, SameRow, RetryOps, TerminalStates
  <2> QED BY <2>1, <2>2
<1> QED BY <1>2, <1>3, OthersKeepState DEF Next, Step, vars, codeVars, rowVars

\* No dispatch goes past the retry budget, for any number of tracks, tasks,
\* slots, attempts, user's retries and crashes, and whenever leases lapse and
\* items are recovered: unless two had the track in hand at once, the tick took
\* it up late or a crash cut its call off, attempts and state are judged and
\* moved by one process.
THEOREM BudgetKept == Spec => RetryBudget
<1>1. TypeOK /\ OwnInv /\ [Next]_vars =>
        [\A t \in Tracks \ disturbed :
           state[t] # "downloading" /\ state'[t] = "downloading" => attempts[t] < MaxAttempts]_vars
  BY RowSteps
<1> QED BY <1>1, TypeCorrect, OneAtATime, PTL DEF Spec, RetryBudget

\* A ready track comes undone in no other way than these, whatever happened to
\* it before it came to rest: for Deezer and other sources, under every lapse,
\* retry and crash.
THEOREM ReadyStays == Spec => ReadyKeptAlone
<1>1. TypeOK /\ OwnInv /\ [Next]_vars =>
        [\A t \in Tracks \ disturbed : state[t] = "ready" => state'[t] = "ready"]_vars
  BY RowSteps
<1> QED BY <1>1, TypeCorrect, OneAtATime, PTL DEF Spec, ReadyKeptAlone

\* Between the calls on an undisturbed track a running item has a downloading
\* row, and a downloading row an unsettled item: after a crash, too, that cut
\* off no call on it.
THEOREM ItemsInLockstep == Spec => []Lockstep
<1>1. TypeOK /\ OwnInv => Lockstep
  <2> SUFFICES ASSUME OwnInv, NEW t \in Tracks \ disturbed, Quiet(t)
               PROVE  /\ state[t] = "downloading" => item[t] \in {"queued", "running"}
                      /\ item[t] = "running" => state[t] = "downloading"
    BY DEF Lockstep
  <2>1. ItemInv(t)
    BY DEF OwnInv
  <2>2. \A p \in Procs : Doing(p, t) = "idle"
    BY DEF Quiet, Doing
  <2> QED BY <2>1, <2>2, ProcNames DEF ItemInv, Closers
<1> QED BY <1>1, TypeCorrect, OneAtATime, PTL
=============================================================================
