----------------------------- MODULE WorkQueue -----------------------------
(***************************************************************************)
(* The rows of `work_items` of one kind whose items are claimed, and the   *)
(* loop that drains them (music-api/src/work.rs; advance_transcode,        *)
(* advance_analyze, advance_crawl_leads of worker.rs).  Transcode, Analysis*)
(* and Leads extend it with what their kind's items do.  Each operator is  *)
(* one SQL statement.                                                      *)
(*                                                                         *)
(* As in Ledger, held[i] is "not_before > now" and age[i] counts the       *)
(* worker's sleeps since a running item's updated_at was written.          *)
(***************************************************************************)
EXTENDS Integers, FiniteSets

CONSTANTS Refs,         \* what the items act on
          MaxTries,     \* max_attempts of an item
          MaxRunning,   \* the kind's cap: MAX_INFLIGHT, ANALYSIS_CONCURRENCY
          StaleTicks,   \* sleeps after which updated_at counts as stale
          Prios,        \* priorities in use
          Recovers      \* "any": an item may be found stale while its task is
                        \* alive; "unattended": tasks are faster than that

ASSUME TriesAssumption   == MaxTries \in Nat \ {0}
ASSUME RunningAssumption == MaxRunning \in Nat \ {0}
ASSUME StaleAssumption   == StaleTicks \in Nat \ {0}
ASSUME PriosAssumption   == Prios \subseteq Nat
ASSUME RefsAssumption    == IsFiniteSet(Refs)

VARIABLES qstate, tries, held, age, prio, born,   \* work_items
          phase, slots, batch                     \* the loop that drains them

queueVars == <<qstate, tries, held, age, prio, born>>
drainVars == <<phase, slots, batch>>

QStates == {"none", "queued", "running", "done", "failed"}
Running == {i \in Refs : qstate[i] = "running"}
Known   == {i \in Refs : qstate[i] # "none"}

QueueTypeOK ==
  /\ qstate \in [Refs -> QStates]
  /\ tries  \in [Refs -> Nat]
  /\ held   \in [Refs -> BOOLEAN]
  /\ age    \in [Refs -> 0..StaleTicks]
  /\ prio   \in [Refs -> Nat]
  /\ born   \in [Refs -> Nat]
  /\ phase  \in {"rest", "seed", "fill", "count", "next", "claim"}
  /\ slots  \in 0..MaxRunning
  /\ batch  \subseteq Refs

QueueInit ==
  /\ qstate = [i \in Refs |-> "none"]
  /\ tries  = [i \in Refs |-> 0]
  /\ held   = [i \in Refs |-> FALSE]
  /\ age    = [i \in Refs |-> 0]
  /\ prio   = [i \in Refs |-> 0]
  /\ born   = [i \in Refs |-> 0]
  /\ phase = "rest" /\ slots = 0 /\ batch = {}

-----------------------------------------------------------------------------
(* Statements. *)

Insert(i, p) ==
  /\ qstate' = [qstate EXCEPT ![i] = "queued"]
  /\ prio'   = [prio EXCEPT ![i] = p]
  /\ born'   = [born EXCEPT ![i] = Cardinality(Known)]
  /\ UNCHANGED <<tries, held, age>>

\* A re-touch raises the priority, re-arms a settled item and refreshes
\* updated_at; a queued or running item keeps its state.
Rearm(i, p) ==
  /\ prio' = [prio EXCEPT ![i] = IF p > @ THEN p ELSE @]
  /\ age'  = [age EXCEPT ![i] = 0]
  /\ IF qstate[i] \in {"done", "failed"}
       THEN /\ qstate' = [qstate EXCEPT ![i] = "queued"]
            /\ tries'  = [tries EXCEPT ![i] = 0]
            /\ held'   = [held EXCEPT ![i] = FALSE]
       ELSE UNCHANGED <<qstate, tries, held>>
  /\ UNCHANGED born

Enqueue(i, p) ==
  \/ qstate[i] = "none" /\ Insert(i, p)
  \/ qstate[i] # "none" /\ Rearm(i, p)

\* (mutant: re-arms a failed item)
EnqueueIfNotDone(i, p) ==
  \/ qstate[i] = "none" /\ Insert(i, p)
  \/ qstate[i] = "failed" /\ Rearm(i, p)
  \/ qstate[i] \notin {"none", "failed"} /\ UNCHANGED queueVars
EnqueueIfAbsent(i, p) ==
  \/ qstate[i] = "none" /\ Insert(i, p)
  \/ qstate[i] # "none" /\ UNCHANGED queueVars

\* attempts is only compared with max_attempts, and saturates past it.
ClaimRow(i) ==
  /\ qstate[i] = "queued"
  /\ qstate' = [qstate EXCEPT ![i] = "running"]
  /\ tries'  = [tries EXCEPT ![i] = IF @ > MaxTries THEN @ ELSE @ + 1]
  /\ age'    = [age EXCEPT ![i] = 0]
  /\ UNCHANGED <<held, prio, born>>

\* finish, fail and the update of retry_later look at nothing but the id.
Settle(i, s, hold) ==
  /\ qstate' = [qstate EXCEPT ![i] = s]
  /\ held'   = [held EXCEPT ![i] = hold]
  /\ age'    = [age EXCEPT ![i] = 0]
  /\ UNCHANGED <<tries, prio, born>>
Finish(i) == Settle(i, "done", FALSE)
Fail(i)   == Settle(i, "failed", held[i])
\* (mutant: due again at once, and not counted)
RequeueForFree(i) ==
  /\ qstate' = [qstate EXCEPT ![i] = "queued"]
  /\ tries'  = [tries EXCEPT ![i] = 0]
  /\ age'    = [age EXCEPT ![i] = 0]
  /\ UNCHANGED <<held, prio, born>>
Requeue(i) == Settle(i, "queued", TRUE)

\* retry_later reads attempts first.
\* (mutant: one claim too many)
OutOfTriesLate(i) == tries[i] > MaxTries
OutOfTries(i) == tries[i] >= MaxTries

-----------------------------------------------------------------------------
(* The loop.  `attended` is the set of items a live task works on.         *)

\* The sleep ends, recover_stale runs, and the tick comes to this kind.
Ages(attended) == {i \in Running : Recovers = "any" \/ i \notin attended}
\* (mutant: recovers items whatever their age)
StaleAtOnce(attended) == Running
Stale(attended) == {i \in Ages(attended) : age[i] >= StaleTicks}

Wake(attended, then) ==
  /\ phase = "rest" /\ phase' = then
  /\ LET S == Stale(attended) IN
       /\ qstate' = [i \in Refs |-> IF i \in S THEN "queued" ELSE qstate[i]]
       /\ held'   = [i \in Refs |-> IF i \in S THEN FALSE ELSE held[i]]
       /\ age'    = [i \in Refs |-> IF i \in S THEN 0
                                    ELSE IF i \in Ages(attended) /\ age[i] < StaleTicks
                                    THEN age[i] + 1 ELSE age[i]]
  /\ UNCHANGED <<tries, prio, born, slots, batch>>

\* free_slots.
\* (mutant: one slot too many)
FreeSlotsOneMore ==
  IF Cardinality(Running) <= MaxRunning THEN MaxRunning - Cardinality(Running) + 1 ELSE 0
FreeSlots ==
  IF Cardinality(Running) < MaxRunning THEN MaxRunning - Cardinality(Running) ELSE 0

CountSlots ==
  /\ phase = "count"
  /\ slots' = FreeSlots
  /\ phase' = IF FreeSlots = 0 THEN "rest" ELSE "next"
  /\ UNCHANGED <<queueVars, batch>>

\* next: highest priority first, then oldest.
Due == {i \in Refs : qstate[i] = "queued" /\ ~held[i]}
Before(i, k) == prio[i] > prio[k] \/ (prio[i] = prio[k] /\ born[i] < born[k])
IsNext(S, n) ==
  /\ Cardinality(S) <= n /\ (S = Due \/ Cardinality(S) = n)
  /\ \A i \in S, k \in Due \ S : ~Before(k, i)

NextItems ==
  /\ phase = "next"
  /\ \E S \in SUBSET Due : IsNext(S, slots) /\ batch' = S
  /\ slots' = 0
  /\ phase' = IF Due = {} THEN "rest" ELSE "claim"
  /\ UNCHANGED queueVars

\* The items read are claimed one by one; prio and born may have moved.
Claim(i) ==
  /\ phase = "claim" /\ i \in batch
  /\ batch' = batch \ {i}
  /\ ClaimRow(i)
  /\ UNCHANGED <<phase, slots>>

\* Settled meanwhile by a task that outlived its item's recovery.
SkipClaimed(i) ==
  /\ phase = "claim" /\ i \in batch /\ qstate[i] # "queued"
  /\ batch' = batch \ {i}
  /\ UNCHANGED <<phase, slots, queueVars>>

DrainDone ==
  /\ phase = "claim" /\ batch = {}
  /\ phase' = "rest"
  /\ UNCHANGED <<slots, batch, queueVars>>

HoldElapses(i) ==
  /\ held[i]
  /\ held' = [held EXCEPT ![i] = FALSE]
  /\ UNCHANGED <<qstate, tries, age, prio, born, drainVars>>
-----------------------------------------------------------------------------
(* Properties every kind has. *)

\* The free slots are counted once and spent over many later statements,
\* while tasks, calls and recovery write the same rows: no more items are
\* `running` than the kind's cap all the same (free_slots, claim).
RunningCap == Cardinality(Running) <= MaxRunning
=============================================================================
