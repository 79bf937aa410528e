------------------------------- MODULE Ledger -------------------------------
(***************************************************************************)
(* The two SQLite tables a download lives in: its row of `tracks` and its  *)
(* item of kind `download` in `work_items` (music-api/src/db.rs, work.rs). *)
(* Every operator below is ONE SQL statement, hence atomic; the functions  *)
(* of db.rs are sequences of them, run by the processes of Dispatcher.     *)
(*                                                                         *)
(* Clocks are abstracted to what the statements compare with `now`:        *)
(* leased[t] is "lease_expires_at > now", backoff[t] and held[t] are       *)
(* "next_attempt_at > now" and "not_before > now".  age[t] counts the      *)
(* worker's sleeps since the item's updated_at was written.                *)
(***************************************************************************)
EXTENDS Integers

CONSTANTS Tracks,       \* the ISRCs (or source:id keys) that may be ordered
          MaxAttempts,  \* QUEUE_MAX_ATTEMPTS
          StaleTicks    \* sleeps after which updated_at counts as stale

ASSUME MaxAttemptsAssumption == MaxAttempts \in Nat \ {0}
ASSUME StaleTicksAssumption == StaleTicks \in Nat \ {0}

VARIABLES state, attempts, leased, backoff,  \* tracks
          item, held, age                    \* work_items, kind `download`

rowVars  == <<state, attempts, leased, backoff>>
itemVars == <<item, held, age>>

TerminalStates == {"ready", "absent", "failed"}
States         == {"none", "pending", "downloading"} \cup TerminalStates
\* No statement reachable for a download writes 'failed': attempts is never
\* counted for this kind (only claim counts, and downloads are not claimed).
ItemStates     == {"none", "queued", "running", "done"}

LedgerTypeOK ==
  /\ state    \in [Tracks -> States]
  /\ attempts \in [Tracks -> 0..MaxAttempts]
  /\ leased   \in [Tracks -> BOOLEAN]
  /\ backoff  \in [Tracks -> BOOLEAN]
  /\ item     \in [Tracks -> ItemStates]
  /\ held     \in [Tracks -> BOOLEAN]
  /\ age      \in [Tracks -> 0..StaleTicks]

LedgerInit ==
  /\ state    = [t \in Tracks |-> "none"]
  /\ attempts = [t \in Tracks |-> 0]
  /\ leased   = [t \in Tracks |-> FALSE]
  /\ backoff  = [t \in Tracks |-> FALSE]
  /\ item     = [t \in Tracks |-> "none"]
  /\ held     = [t \in Tracks |-> FALSE]
  /\ age      = [t \in Tracks |-> 0]

Downloading == {t \in Tracks : state[t] = "downloading"}

-----------------------------------------------------------------------------
(* Statements on `tracks`. *)

InsertTrack(t) ==
  /\ state' = [state EXCEPT ![t] = IF @ = "none" THEN "pending" ELSE @]
  /\ UNCHANGED <<attempts, leased, backoff, itemVars>>

\* attempts is only ever compared with max_attempts: it saturates there.
BumpAttempts(t) ==
  /\ attempts' = [attempts EXCEPT ![t] = IF @ < MaxAttempts THEN @ + 1 ELSE @]
  /\ UNCHANGED <<state, leased, backoff, itemVars>>

\* (mutant: one failure too many)
ExhaustedLate(t) == attempts[t] > MaxAttempts
Exhausted(t) == attempts[t] >= MaxAttempts

\* There is no guard on the state the row is in.
Requeue(t) ==
  /\ state'   = [state EXCEPT ![t] = "pending"]
  /\ backoff' = [backoff EXCEPT ![t] = TRUE]
  /\ leased'  = [leased EXCEPT ![t] = FALSE]
  /\ UNCHANGED <<attempts, itemVars>>

DispatchRow(t) ==
  /\ state'  = [state EXCEPT ![t] = "downloading"]
  /\ leased' = [leased EXCEPT ![t] = TRUE]
  /\ UNCHANGED <<attempts, backoff, itemVars>>

RenewLease(t) ==
  /\ leased' = [leased EXCEPT ![t] = TRUE]
  /\ UNCHANGED <<state, attempts, backoff, itemVars>>

SettleRow(t, s) ==
  /\ state'   = [state EXCEPT ![t] = s]
  /\ leased'  = [leased EXCEPT ![t] = FALSE]
  /\ backoff' = [backoff EXCEPT ![t] = FALSE]
  /\ UNCHANGED <<attempts, itemVars>>

\* (mutant: resets a ready track)
ResettableAny(t) == state[t] # "none"
Resettable(t) == state[t] \notin {"none", "ready"}

ResetRow(t) ==
  /\ state'    = [state EXCEPT ![t] = "pending"]
  /\ attempts' = [attempts EXCEPT ![t] = 0]
  /\ leased'   = [leased EXCEPT ![t] = FALSE]
  /\ backoff'  = [backoff EXCEPT ![t] = FALSE]
  /\ UNCHANGED itemVars

-----------------------------------------------------------------------------
(* Statements on `work_items`; all of them write updated_at. *)

\* An existing queued or running item keeps its state and not_before; a done
\* one is re-armed.
Enqueue(t) ==
  /\ item' = [item EXCEPT ![t] = IF @ \in {"none", "done"} THEN "queued" ELSE @]
  /\ held' = [held EXCEPT ![t] = @ /\ item[t] \in {"queued", "running"}]
  /\ age'  = [age EXCEPT ![t] = 0]
  /\ UNCHANGED rowVars

EnsureRunning(t) ==
  /\ item' = [item EXCEPT ![t] = "running"]
  /\ age'  = [age EXCEPT ![t] = 0]
  /\ UNCHANGED <<held, rowVars>>

\* (mutant: settles the item as failed)
FinishAsFailed(t) ==
  /\ item' = [item EXCEPT ![t] = IF @ = "none" THEN "none" ELSE "failed"]
  /\ held' = [held EXCEPT ![t] = FALSE]
  /\ age'  = [age EXCEPT ![t] = 0]
  /\ UNCHANGED rowVars
FinishItem(t) ==
  /\ item' = [item EXCEPT ![t] = IF @ = "none" THEN "none" ELSE "done"]
  /\ held' = [held EXCEPT ![t] = FALSE]
  /\ age'  = [age EXCEPT ![t] = 0]
  /\ UNCHANGED rowVars

\* (mutant: forgets to queue the item again)
RetryItemForgotten(t) ==
  /\ age' = [age EXCEPT ![t] = 0]
  /\ UNCHANGED <<item, held, rowVars>>
\* The item's own attempts stay 0, so retry_ref never takes its fail_ref arm;
\* an absent item is enqueued without a delay.
RetryItem(t) ==
  /\ item' = [item EXCEPT ![t] = "queued"]
  /\ held' = [held EXCEPT ![t] = item[t] # "none"]
  /\ age'  = [age EXCEPT ![t] = 0]
  /\ UNCHANGED rowVars

Stale(ages) == {t \in ages : item[t] = "running" /\ age[t] >= StaleTicks}

\* `ages` are the tracks whose items time may pass for, see Dispatcher.
RecoverStale(ages) ==
  /\ item' = [t \in Tracks |-> IF t \in Stale(ages) THEN "queued" ELSE item[t]]
  /\ held' = [t \in Tracks |-> IF t \in Stale(ages) THEN FALSE ELSE held[t]]
  /\ age'  = [t \in Tracks |-> IF t \in Stale(ages) THEN 0 ELSE age[t]]
  /\ UNCHANGED rowVars

-----------------------------------------------------------------------------
(* Queries. *)

\* (mutant: nothing is ever reaped)
ExpiredNever == {}
Expired     == {t \in Downloading : ~leased[t]}
\* (mutant: waits for the back-off to begin)
PendingInBackoff == {t \in Tracks : state[t] = "pending" /\ backoff[t]}
PendingWork == {t \in Tracks : state[t] = "pending" /\ ~backoff[t]}
DueItems    == {t \in Tracks : item[t] = "queued" /\ ~held[t]}

-----------------------------------------------------------------------------
(* The clock. *)

LeaseLapses(t) ==
  /\ state[t] = "downloading" /\ leased[t]
  /\ leased' = [leased EXCEPT ![t] = FALSE]
  /\ UNCHANGED <<state, attempts, backoff, itemVars>>

BackoffElapses(t) ==
  /\ backoff[t]
  /\ backoff' = [backoff EXCEPT ![t] = FALSE]
  /\ UNCHANGED <<state, attempts, leased, itemVars>>

HoldElapses(t) ==
  /\ held[t]
  /\ held' = [held EXCEPT ![t] = FALSE]
  /\ UNCHANGED <<rowVars, item, age>>

\* Only the age of a running item is ever compared.
ItemsAge(ages) ==
  /\ age' = [t \in Tracks |->
                IF t \in ages /\ item[t] = "running" /\ age[t] < StaleTicks
                THEN age[t] + 1 ELSE age[t]]
  /\ UNCHANGED <<rowVars, item, held>>
=============================================================================
