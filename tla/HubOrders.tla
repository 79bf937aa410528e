----------------------------- MODULE HubOrders ------------------------------
(***************************************************************************)
(* The hub's download orders (music-hub/src/crawl.rs; the music-api loop   *)
(* and the touches of worker.rs, ingest.rs, nowplaying.rs).                *)
(*                                                                         *)
(* A track's priority is the number of its references, a like and its      *)
(* playlists.  The loop orders what is new or has another priority than    *)
(* the ledger says; a touch orders the tracks it is given; the track that  *)
(* plays is ordered with a boost.  Each reads priorities first, sends them *)
(* group by group, and writes the ledger after the last answer, so the     *)
(* references have often changed by then, and others have ordered too.     *)
(***************************************************************************)
EXTENDS Integers, FiniteSets

CONSTANTS Tracks,       \* 1..n, in the order the hub first saw them
          MaxRefs,      \* bound: references of a track
          Limit,        \* tracks of one pass of the loop (500)
          OrderBatch,   \* tracks of one POST /orders (500)
          Boost,        \* crawl_nowplaying_boost
          MaxChanges,   \* bound: changes of the references
          MaxTouches,   \* bound: touches and tracks played
          MaxFaults     \* bound: POSTs and statements that fail, restarts

VARIABLES refs, isrc,   \* references of a track; tracks whose ISRC is known
          ledger,       \* hub_order_state
          prio,         \* music-api: the highest priority a track is ordered at
          order,        \* the orders under way
          refused,      \* history: tracks of a POST that was refused
          hoBudget      \* what is left of the bounds

vars == <<refs, isrc, ledger, prio, order, refused, hoBudget>>

NoRow == -1
Orderers == {"loop", "touch", "playing"}
Prios == NoRow..(MaxRefs + Boost)
Entries == [t : Tracks, p : 0..(MaxRefs + Boost)]
NoOrder == [todo |-> {}, ok |-> {}]

TypeOK ==
  /\ refs \in [Tracks -> 0..MaxRefs] /\ isrc \subseteq Tracks
  /\ ledger \in [Tracks -> Prios] /\ prio \in [Tracks -> Prios]
  /\ order \in [Orderers -> [todo : SUBSET Entries, ok : SUBSET Entries]]
  /\ refused \subseteq Tracks
  /\ hoBudget \in [{"changes", "touches", "faults"} -> Nat]

Init ==
  /\ refs = [t \in Tracks |-> 0] /\ isrc = {}
  /\ ledger = [t \in Tracks |-> NoRow] /\ prio = [t \in Tracks |-> NoRow]
  /\ order = [w \in Orderers |-> NoOrder] /\ refused = {}
  /\ hoBudget = [changes |-> MaxChanges, touches |-> MaxTouches, faults |-> MaxFaults]

Use(b) == hoBudget[b] > 0 /\ hoBudget' = [hoBudget EXCEPT ![b] = @ - 1]
Free(w) == order[w] = NoOrder

\* Likes and playlist items are stored and deleted; what an ingest stores may
\* bring the track's ISRC.
Refer(t, n) ==
  /\ n # refs[t] /\ Use("changes") /\ refs' = [refs EXCEPT ![t] = n]
  /\ \/ UNCHANGED isrc
     \/ n > refs[t] /\ isrc' = isrc \cup {t}
  /\ UNCHANGED <<ledger, prio, order, refused>>

-----------------------------------------------------------------------------
(* What is read. *)

\* priorities: a read that fails leaves every track at 0.
Begin(w, S, read, boost) ==
  order' = [order EXCEPT ![w].todo =
              {[t |-> t, p |-> (IF read THEN refs[t] ELSE 0) + boost] : t \in S}]

\* (mutant: a changed priority is not due)
DueNew == {t \in isrc : refs[t] > 0 /\ ledger[t] = NoRow}
\* order_pending: the newest of what is due.
Due == {t \in isrc : refs[t] > 0 /\ ledger[t] # refs[t]}
Newest(S) == {t \in S : Cardinality({u \in S : u > t}) < Limit}
OrderPending ==
  /\ Free("loop") /\ Due # {} /\ Begin("loop", Newest(Due), TRUE, 0)
  /\ UNCHANGED <<refs, isrc, ledger, prio, refused, hoBudget>>

\* order_touched: those of the given tracks that have an ISRC.
OrderTouched(S) ==
  /\ Free("touch") /\ Use("touches")
  /\ \E read \in BOOLEAN : Begin("touch", S \cap isrc, read, 0)
  /\ UNCHANGED <<refs, isrc, ledger, prio, refused>>

OrderNowPlaying(t) ==
  /\ Free("playing") /\ Use("touches") /\ t \in isrc
  /\ \E read \in BOOLEAN : Begin("playing", {t}, read, Boost)
  /\ UNCHANGED <<refs, isrc, ledger, prio, refused>>

-----------------------------------------------------------------------------
(* order_grouped. *)

\* (mutant: what could not be sent is recorded too)
AnsweredAll(w, p, S, ok) ==
  LET B == {[t |-> t, p |-> p] : t \in S} IN
  order' = [order EXCEPT ![w].todo = @ \ B,
                         ![w].ok = IF w # "playing" THEN @ \cup B ELSE @]
\* Only what was answered is recorded, whatever the answer's status; the boost
\* never is.
Answered(w, p, S, ok) ==
  LET B == {[t |-> t, p |-> p] : t \in S} IN
  order' = [order EXCEPT ![w].todo = @ \ B,
                         ![w].ok = IF ok /\ w # "playing" THEN @ \cup B ELSE @]

\* music-api makes one more order of the tracks: the highest priority counts.
Raise(p, S) == prio' = [t \in Tracks |-> IF t \in S /\ p > prio[t] THEN p ELSE prio[t]]

\* The tracks of one priority, in batches.
Group(w, p) == {t \in Tracks : [t |-> t, p |-> p] \in order[w].todo}
Batches(w, p) ==
  {S \in (SUBSET Group(w, p)) \ {{}} :
     IF Cardinality(Group(w, p)) <= OrderBatch THEN S = Group(w, p)
                                              ELSE Cardinality(S) = OrderBatch}
OrderWithPriority(w, p, S) ==
  /\ \/ Raise(p, S) /\ Answered(w, p, S, TRUE) /\ UNCHANGED <<refused, hoBudget>>
     \/ /\ Use("faults") /\ UNCHANGED prio
        /\ refused' = refused \cup S /\ Answered(w, p, S, TRUE)
     \/ /\ Use("faults") /\ UNCHANGED refused /\ Answered(w, p, S, FALSE)
        /\ Raise(p, S) \/ UNCHANGED prio
  /\ UNCHANGED <<refs, isrc, ledger>>

\* record_ordered: row by row, and no further when one fails.
RecordOrdered(w, b) ==
  /\ order[w].todo = {}
  /\ \/ /\ ledger' = [ledger EXCEPT ![b.t] = b.p] /\ UNCHANGED hoBudget
        /\ order' = [order EXCEPT ![w].ok = @ \ {b}]
     \/ Use("faults") /\ UNCHANGED ledger /\ order' = [order EXCEPT ![w] = NoOrder]
  /\ UNCHANGED <<refs, isrc, prio, refused>>

Restart ==
  /\ Use("faults") /\ \E w \in Orderers : ~Free(w)
  /\ order' = [w \in Orderers |-> NoOrder]
  /\ UNCHANGED <<refs, isrc, ledger, prio, refused>>

OrderStep(w) ==
  \/ \E b \in order[w].todo : \E S \in Batches(w, b.p) : OrderWithPriority(w, b.p, S)
  \/ \E b \in order[w].ok : RecordOrdered(w, b)

Next ==
  \/ OrderPending \/ Restart
  \/ \E t \in Tracks : OrderNowPlaying(t) \/ \E n \in 0..MaxRefs : Refer(t, n)
  \/ \E S \in SUBSET Tracks : OrderTouched(S)
  \/ \E w \in Orderers : OrderStep(w)

Spec == Init /\ [][Next]_vars

\* The loop and the tasks go on.
FairSpec ==
  Spec /\ WF_vars(OrderPending) /\ \A w \in Orderers : WF_vars(OrderStep(w))

-----------------------------------------------------------------------------
(* Properties. *)

\* What the ledger says was sent: music-api has the track at that priority or
\* a higher one, unless it refused an order of it.  (The comment on
\* order_grouped says that only tracks ordered successfully are recorded; the
\* status of the answer is not looked at.)
LedgerSent == \A t \in Tracks : t \in refused \/ ledger[t] <= prio[t]

\* A touch that sends an older priority late, and records it over a newer one,
\* is made good: when the references rest, every referenced track with an ISRC
\* gets its priority into the ledger, and music-api has it at least that high.
CaughtUp ==
  <>[](\A t \in isrc : refs[t] > 0 =>
         ledger[t] = refs[t] /\ (t \in refused \/ prio[t] >= refs[t]))
=============================================================================
