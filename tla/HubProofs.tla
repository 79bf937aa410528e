------------------------------ MODULE HubProofs ------------------------------
(***************************************************************************)
(* Proofs about the hub's parts, for every value of the constants.  The    *)
(* ledger of HubOrders never runs ahead of what was sent; what Playlists   *)
(* stores after a fetch that was alone is current; a member Kellner keeps  *)
(* has its file; what Features is billed is bounded, and what was found    *)
(* stays.  The last four are stated of MCHub's specification, which puts   *)
(* the parts beside each other; each part has an invariant of its own.     *)
(***************************************************************************)
EXTENDS MCHub, FiniteSetTheorems, TLAPS

Bounds ==
  /\ MaxRefs \in Nat /\ Boost \in Nat
  /\ MaxChanges \in Nat /\ MaxTouches \in Nat /\ MaxFaults \in Nat

\* What was answered was sent, or refused.
AnswersSent ==
  \A w \in Orderers : \A b \in order[w].ok : b.t \in refused \/ b.p <= prio[b.t]

-----------------------------------------------------------------------------
(* Types. *)

\* A budget that is used stays a budget.
LEMMA UseType ==
  ASSUME TypeOK, NEW b \in {"changes", "touches", "faults"}, Use(b)
  PROVE  hoBudget' \in [{"changes", "touches", "faults"} -> Nat]
BY DEF TypeOK, Use

\* The orders that start have the tracks' references, or these and the boost.
LEMMA BeginType ==
  ASSUME Bounds, TypeOK, NEW w \in Orderers, NEW S \in SUBSET Tracks,
         NEW read \in BOOLEAN, NEW boost \in {0, Boost}, Begin(w, S, read, boost)
  PROVE  order' \in [Orderers -> [todo : SUBSET Entries, ok : SUBSET Entries]]
<1>1. \A t \in S : (IF read THEN refs[t] ELSE 0) + boost \in 0..(MaxRefs + Boost)
  BY DEF Bounds, TypeOK
<1>2. {[t |-> t, p |-> (IF read THEN refs[t] ELSE 0) + boost] : t \in S} \subseteq Entries
  BY <1>1 DEF Entries
<1> QED
  BY <1>2 DEF Begin, TypeOK

\* An answer moves entries from one set to the other.
LEMMA AnsweredType ==
  ASSUME TypeOK, NEW w \in Orderers, NEW p \in 0..(MaxRefs + Boost),
         NEW S \in SUBSET Tracks, NEW ok \in BOOLEAN, Answered(w, p, S, ok)
  PROVE  order' \in [Orderers -> [todo : SUBSET Entries, ok : SUBSET Entries]]
<1>1. {[t |-> t, p |-> p] : t \in S} \subseteq Entries
  BY DEF Entries
<1>2. CASE ok /\ w # "playing"
  BY <1>1, <1>2 DEF Answered, TypeOK
<1>3. CASE ~(ok /\ w # "playing")
  BY <1>1, <1>3 DEF Answered, TypeOK
<1> QED
  BY <1>2, <1>3

\* Orders raise priorities, and keep them in range.
LEMMA RaiseType ==
  ASSUME Bounds, TypeOK, NEW p \in 0..(MaxRefs + Boost), NEW S \in SUBSET Tracks, Raise(p, S)
  PROVE  /\ prio' \in [Tracks -> Prios]
         /\ \A t \in Tracks : prio[t] <= prio'[t]
         /\ \A t \in S : p <= prio'[t]
<1>1. p \in Prios
  BY DEF Prios, NoRow, Bounds
<1>2. \A t \in Tracks : prio[t] \in Int /\ prio[t] \in Prios
  BY DEF TypeOK, Prios, NoRow, Bounds
<1> QED
  BY <1>1, <1>2 DEF Raise, Bounds

\* What an order is of.
LEMMA BatchType ==
  ASSUME TypeOK, NEW w \in Orderers, NEW b \in order[w].todo, NEW S \in Batches(w, b.p)
  PROVE  b.p \in 0..(MaxRefs + Boost) /\ S \in SUBSET Tracks
<1>1. order[w].todo \subseteq Entries
  BY DEF TypeOK
<1>2. b.p \in 0..(MaxRefs + Boost)
  BY <1>1 DEF Entries
<1>3. Group(w, b.p) \subseteq Tracks
  BY DEF Group
<1>4. S \subseteq Group(w, b.p)
  BY DEF Batches
<1> QED
  BY <1>2, <1>3, <1>4

\* The initial state has the types.
LEMMA TypeInit == ASSUME Bounds PROVE Init => TypeOK
BY DEF Bounds, Init, TypeOK, NoOrder, Prios, NoRow

\* Every step keeps the types.
LEMMA TypeStep ==
  ASSUME Bounds, TypeOK, [Next]_vars PROVE TypeOK'
<1>1. CASE OrderPending
  <2>1. Newest(Due) \in SUBSET Tracks
    BY DEF Newest, Due, TypeOK
  <2>2. order' \in [Orderers -> [todo : SUBSET Entries, ok : SUBSET Entries]]
    BY <1>1, <2>1, BeginType DEF OrderPending, Orderers
  <2> QED
    BY <1>1, <2>2 DEF OrderPending, TypeOK
<1>2. CASE Restart
  <2>1. hoBudget' \in [{"changes", "touches", "faults"} -> Nat]
    BY <1>2, UseType DEF Restart
  <2> QED
    BY <1>2, <2>1 DEF Restart, TypeOK, NoOrder
<1>3. ASSUME NEW t \in Tracks, OrderNowPlaying(t) PROVE TypeOK'
  <2>1. order' \in [Orderers -> [todo : SUBSET Entries, ok : SUBSET Entries]]
    BY <1>3, BeginType DEF OrderNowPlaying, Orderers
  <2>2. hoBudget' \in [{"changes", "touches", "faults"} -> Nat]
    BY <1>3, UseType DEF OrderNowPlaying
  <2> QED
    BY <1>3, <2>1, <2>2 DEF OrderNowPlaying, TypeOK
<1>4. ASSUME NEW t \in Tracks, NEW n \in 0..MaxRefs, Refer(t, n) PROVE TypeOK'
  <2>1. hoBudget' \in [{"changes", "touches", "faults"} -> Nat]
    BY <1>4, UseType DEF Refer
  <2>2. isrc' \subseteq Tracks /\ refs' \in [Tracks -> 0..MaxRefs]
    BY <1>4 DEF Refer, TypeOK
  <2> QED
    BY <1>4, <2>1, <2>2 DEF Refer, TypeOK
<1>5. ASSUME NEW S \in SUBSET Tracks, OrderTouched(S) PROVE TypeOK'
  <2>1. S \cap isrc \in SUBSET Tracks
    OBVIOUS
  <2>2. order' \in [Orderers -> [todo : SUBSET Entries, ok : SUBSET Entries]]
    BY <1>5, <2>1, BeginType DEF OrderTouched, Orderers
  <2>3. hoBudget' \in [{"changes", "touches", "faults"} -> Nat]
    BY <1>5, UseType DEF OrderTouched
  <2> QED
    BY <1>5, <2>2, <2>3 DEF OrderTouched, TypeOK
<1>6. ASSUME NEW w \in Orderers, NEW b \in order[w].todo, NEW S \in Batches(w, b.p),
             OrderWithPriority(w, b.p, S)
      PROVE  TypeOK'
  <2>1. b.p \in 0..(MaxRefs + Boost) /\ S \in SUBSET Tracks
    BY BatchType
  <2>2. order' \in [Orderers -> [todo : SUBSET Entries, ok : SUBSET Entries]]
    BY <1>6, <2>1, AnsweredType DEF OrderWithPriority
  <2>3. prio' \in [Tracks -> Prios]
    BY <1>6, <2>1, RaiseType DEF OrderWithPriority, TypeOK
  <2>4. hoBudget' \in [{"changes", "touches", "faults"} -> Nat]
    BY <1>6, UseType DEF OrderWithPriority, TypeOK
  <2>5. refused' \subseteq Tracks
    BY <1>6, <2>1 DEF OrderWithPriority, TypeOK
  <2> QED
    BY <1>6, <2>2, <2>3, <2>4, <2>5 DEF OrderWithPriority, TypeOK
<1>7. ASSUME NEW w \in Orderers, NEW b \in order[w].ok, RecordOrdered(w, b)
      PROVE  TypeOK'
  <2>1. b \in Entries
    BY DEF TypeOK
  <2>2. b.t \in Tracks /\ b.p \in Prios
    BY <2>1 DEF Entries, Prios, NoRow, Bounds
  <2>3. hoBudget' \in [{"changes", "touches", "faults"} -> Nat]
    BY <1>7, UseType DEF RecordOrdered, TypeOK
  <2>4. ledger' \in [Tracks -> Prios]
    BY <1>7, <2>2 DEF RecordOrdered, TypeOK
  <2>5. order' \in [Orderers -> [todo : SUBSET Entries, ok : SUBSET Entries]]
    BY <1>7 DEF RecordOrdered, TypeOK, NoOrder
  <2> QED
    BY <1>7, <2>3, <2>4, <2>5 DEF RecordOrdered, TypeOK
<1>8. CASE UNCHANGED vars
  BY <1>8 DEF vars, TypeOK
<1> QED
  BY <1>1, <1>2, <1>3, <1>4, <1>5, <1>6, <1>7, <1>8 DEF Next, OrderStep

\* Every variable of the hub's orders keeps its type.
THEOREM HubOrdersTypeCorrect == ASSUME Bounds PROVE Spec => []TypeOK
<1>1. Init => TypeOK
  BY TypeInit
<1>2. TypeOK /\ [Next]_vars => TypeOK'
  BY TypeStep
<1> QED
  BY <1>1, <1>2, PTL DEF Spec

-----------------------------------------------------------------------------
(* The ledger. *)

Sent == LedgerSent /\ AnswersSent

\* A step that records nothing new, lowers no priority and forgets no refusal
\* keeps what was known.
LEMMA Quiet ==
  ASSUME TypeOK, TypeOK', Sent, UNCHANGED ledger, refused \subseteq refused',
         \A t \in Tracks : prio[t] <= prio'[t],
         \A w \in Orderers : order'[w].ok \subseteq order[w].ok
  PROVE  Sent'
<1>1. /\ \A t \in Tracks : prio[t] \in Int /\ prio'[t] \in Int /\ ledger[t] \in Int
      /\ \A w \in Orderers : \A b \in order[w].ok : b.t \in Tracks /\ b.p \in Int
  BY DEF TypeOK, Prios, NoRow, Entries
<1>2. LedgerSent'
  BY <1>1 DEF Sent, LedgerSent
<1>3. AnswersSent'
  BY <1>1 DEF Sent, AnswersSent
<1> QED
  BY <1>2, <1>3 DEF Sent

\* A batch that was answered: its orders were sent, or refused.
LEMMA BatchSent ==
  ASSUME Bounds, TypeOK, TypeOK', Sent,
         NEW w \in Orderers, NEW b \in order[w].todo, NEW S \in Batches(w, b.p),
         OrderWithPriority(w, b.p, S)
  PROVE  Sent'
<1> DEFINE p == b.p
           B == {[t |-> t, p |-> p] : t \in S}
<1>1. p \in 0..(MaxRefs + Boost) /\ S \in SUBSET Tracks
  BY BatchType
<1>2. /\ \A t \in Tracks : prio[t] \in Int /\ prio'[t] \in Int /\ ledger[t] \in Int
      /\ \A v \in Orderers : \A c \in order[v].ok : c.t \in Tracks /\ c.p \in Int
  BY DEF TypeOK, Prios, NoRow, Entries
<1>3. (\A t \in Tracks : prio[t] <= prio'[t]) /\ refused \subseteq refused' /\ ledger' = ledger
  <2>1. Raise(p, S) => \A t \in Tracks : prio[t] <= prio'[t]
    BY <1>1, RaiseType
  <2>2. UNCHANGED prio => \A t \in Tracks : prio[t] <= prio'[t]
    BY <1>2
  <2>3. Raise(p, S) \/ UNCHANGED prio
    BY DEF OrderWithPriority
  <2>4. ledger' = ledger /\ (refused' = refused \/ refused' = refused \cup S)
    BY DEF OrderWithPriority
  <2>5. \A t \in Tracks : prio[t] <= prio'[t]
    BY <2>1, <2>2, <2>3
  <2> QED
    BY <2>4, <2>5
<1>4. LedgerSent'
  BY <1>2, <1>3 DEF Sent, LedgerSent
<1>5. ASSUME NEW v \in Orderers, NEW c \in order'[v].ok
      PROVE  c.t \in refused' \/ c.p <= prio'[c.t]
  <2>1. CASE c \in order[v].ok
    BY <1>2, <1>3, <2>1 DEF Sent, AnswersSent
  <2>2. CASE c \notin order[v].ok
    <3>1. c \in B /\ (Raise(p, S) \/ refused' = refused \cup S)
      <4>1. CASE Answered(w, p, S, TRUE) /\ (Raise(p, S) \/ refused' = refused \cup S)
        <5>1. order'[v].ok \subseteq order[v].ok \cup B
          BY <4>1 DEF Answered, TypeOK
        <5> QED
          BY <5>1, <4>1, <2>2
      <4>2. CASE Answered(w, p, S, FALSE)
        <5>1. order'[v].ok \subseteq order[v].ok
          BY <4>2 DEF Answered, TypeOK
        <5> QED
          BY <5>1, <2>2
      <4> QED
        BY <4>1, <4>2 DEF OrderWithPriority
    <3>2. c.t \in S /\ c.p = p
      BY <3>1
    <3>3. CASE Raise(p, S)
      BY <1>1, <3>2, <3>3, RaiseType
    <3>4. CASE refused' = refused \cup S
      BY <3>2, <3>4
    <3> QED
      BY <3>1, <3>3, <3>4
  <2> QED
    BY <2>1, <2>2
<1> QED
  BY <1>4, <1>5 DEF Sent, AnswersSent

\* Every step keeps what is known of the ledger and of the answers.
LEMMA SentStep ==
  ASSUME Bounds, TypeOK, TypeOK', Sent, [Next]_vars PROVE Sent'
<1>0. \A t \in Tracks : prio[t] <= prio[t]
  BY DEF TypeOK, Prios, NoRow
<1>1. ASSUME NEW w \in Orderers, NEW S, NEW read, NEW boost, Begin(w, S, read, boost)
      PROVE  \A v \in Orderers : order'[v].ok \subseteq order[v].ok
  BY <1>1 DEF Begin, TypeOK
<1>2. CASE OrderPending
  BY <1>0, <1>1, <1>2, Quiet DEF OrderPending, Orderers
<1>3. CASE Restart
  BY <1>0, <1>3, Quiet DEF Restart, NoOrder
<1>4. ASSUME NEW t \in Tracks, OrderNowPlaying(t) PROVE Sent'
  BY <1>0, <1>1, <1>4, Quiet DEF OrderNowPlaying, Orderers
<1>5. ASSUME NEW t \in Tracks, NEW n \in 0..MaxRefs, Refer(t, n) PROVE Sent'
  BY <1>0, <1>5, Quiet DEF Refer
<1>6. ASSUME NEW S \in SUBSET Tracks, OrderTouched(S) PROVE Sent'
  BY <1>0, <1>1, <1>6, Quiet DEF OrderTouched, Orderers
<1>7. ASSUME NEW w \in Orderers, NEW b \in order[w].todo, NEW S \in Batches(w, b.p),
             OrderWithPriority(w, b.p, S)
      PROVE  Sent'
  BY <1>7, BatchSent
<1>8. ASSUME NEW w \in Orderers, NEW b \in order[w].ok, RecordOrdered(w, b)
      PROVE  Sent'
  <2>1. \A v \in Orderers : order'[v].ok \subseteq order[v].ok
    BY <1>8 DEF RecordOrdered, TypeOK, NoOrder
  <2>2. CASE UNCHANGED ledger
    BY <1>0, <1>8, <2>1, <2>2, Quiet DEF RecordOrdered
  <2>3. CASE ledger' = [ledger EXCEPT ![b.t] = b.p]
    <3>1. b.t \in refused \/ b.p <= prio[b.t]
      BY DEF Sent, AnswersSent
    <3>2. LedgerSent'
      BY <1>8, <2>3, <3>1 DEF RecordOrdered, Sent, LedgerSent, TypeOK
    <3>3. AnswersSent'
      BY <1>8, <2>1 DEF RecordOrdered, Sent, AnswersSent
    <3> QED
      BY <3>2, <3>3 DEF Sent
  <2> QED
    BY <1>8, <2>2, <2>3 DEF RecordOrdered
<1>9. CASE UNCHANGED vars
  BY <1>0, <1>9, Quiet DEF vars
<1> QED
  BY <1>2, <1>3, <1>4, <1>5, <1>6, <1>7, <1>8, <1>9 DEF Next, OrderStep

\* The ledger says no more than what was sent, or refused, for every number of
\* tracks, batch, limit and boost.
THEOREM LedgerHolds == ASSUME Bounds PROVE Spec => []LedgerSent
<1>1. Init => Sent
  BY DEF Init, Sent, LedgerSent, AnswersSent, NoOrder, NoRow
<1>2. TypeOK /\ TypeOK' /\ Sent /\ [Next]_vars => Sent'
  BY SentStep
<1>3. Sent => LedgerSent
  BY DEF Sent
<1> QED
  BY <1>1, <1>2, <1>3, HubOrdersTypeCorrect, PTL DEF Spec

-----------------------------------------------------------------------------
(* The parts of the hub, as MCHub puts them beside each other. *)

\* A step of the composition is one of each part, or leaves it alone.
LEMMA PartSteps ==
  ASSUME [MCNext]_<<part, vars, plVars, keVars, feVars>>
  PROVE  [Next]_vars /\ [Pl!Next]_plVars /\ [Ke!Next]_keVars /\ [Fe!Next]_feVars
<1>1. [Next]_vars
  BY DEF MCNext
<1>2. [Pl!Next]_plVars
  BY DEF MCNext
<1>3. [Ke!Next]_keVars
  BY DEF MCNext
<1>4. [Fe!Next]_feVars
  BY DEF MCNext
<1> QED
  BY <1>1, <1>2, <1>3, <1>4

-----------------------------------------------------------------------------
(* Playlists. *)

PlBounds ==
  /\ MaxEdits \in Nat /\ MaxAsks \in Nat
  /\ MaxIngests \in Nat /\ MaxListings \in Nat /\ MaxStops \in Nat

Writings ==
  [pc : {"idle", "page", "delete", "insert", "record", "upsert"},
   what : Pl!Targets, got : SUBSET ({0} \cup Pl!Versions)]

\* Nobody has read a version that is yet to come.
NoneAhead ==
  /\ pl.snapshot <= remote /\ listing <= remote
  /\ writer["ingest"].pc = "upsert" => \A v \in writer["ingest"].got : v \in 1..remote
\* Who does what: likes are one page after the other and a record.
Roles ==
  /\ writer["ingest"].what = "list"
  /\ writer["worker"].pc # "upsert"
  /\ writer["worker"].pc \in {"delete", "insert"} => writer["worker"].what = "list"
\* A fetch that has been alone so far has read nothing older than the row's
\* snapshot, and nobody else touches the items.
FetchAlone ==
  ~crossed /\ Pl!AtList("worker") =>
    /\ writer["ingest"].pc \in {"idle", "upsert"}
    /\ \A v \in writer["worker"].got : pl.snapshot <= v
    /\ writer["worker"].pc # "page" => writer["worker"].got # {}
    /\ writer["worker"].pc = "insert" => content = {}
    /\ writer["worker"].pc = "record" => content = writer["worker"].got
\* After a fetch that was alone the items are current until another is due.
LastAlone ==
  ~mixed =>
    /\ pl.synced <= pl.snapshot
    /\ writer["ingest"].pc \notin {"insert", "record"}
    /\ pl.available /\ pl.synced = pl.snapshot
         => ~Pl!AtList("worker") /\ Pl!Current(pl.synced)

PlInv == Pl!TypeOK /\ NoneAhead /\ Roles /\ FetchAlone /\ LastAlone

\* The first state.
LEMMA PlInit == ASSUME PlBounds PROVE Pl!Init => PlInv
<1> SUFFICES ASSUME Pl!Init PROVE PlInv
  OBVIOUS
<1>1. 1 \in Pl!Versions
  BY DEF PlBounds, Pl!Versions
<1>2. Pl!AtRest \in Writings /\ Pl!AtRest.pc = "idle" /\ Pl!AtRest.what = "list"
  BY DEF Pl!AtRest, Writings, Pl!Targets
<1>3. /\ writer \in [Pl!Writers -> Writings]
      /\ \A w \in Pl!Writers : writer[w].pc = "idle" /\ writer[w].what = "list"
  BY <1>2 DEF Pl!Init
<1>4. plBudget \in [{"asks", "ingests", "listings", "stops"} -> Nat]
  BY DEF Pl!Init, PlBounds
<1>5. /\ remote = 1 /\ listing = 0 /\ mixed = FALSE /\ crossed = FALSE /\ content = {1}
      /\ pl = [enabled |-> TRUE, available |-> TRUE, snapshot |-> 1, synced |-> 1]
      /\ asked \in [Pl!Targets -> {"none", "queued", "done", "error"}]
  BY DEF Pl!Init
<1>6. Pl!TypeOK
  BY <1>1, <1>3, <1>4, <1>5 DEF Pl!TypeOK, Writings
<1>7. NoneAhead /\ Roles
  BY <1>3, <1>5 DEF NoneAhead, Roles, Pl!Writers
<1>8. FetchAlone /\ LastAlone
  BY <1>3, <1>5 DEF FetchAlone, LastAlone, Pl!Writers, Pl!AtList, Pl!Current
<1> QED
  BY <1>6, <1>7, <1>8 DEF PlInv

\* A budget that is spent stays a budget.
LEMMA SpendType ==
  ASSUME Pl!TypeOK, NEW b \in {"asks", "ingests", "listings", "stops"}, Pl!Spend(b)
  PROVE  plBudget' \in [{"asks", "ingests", "listings", "stops"} -> Nat]
BY DEF Pl!TypeOK, Pl!Spend

\* One writer moves.
LEMMA MoveType ==
  ASSUME Pl!TypeOK, NEW w \in Pl!Writers, NEW rec \in Writings, Pl!Move(w, rec)
  PROVE  /\ writer' \in [Pl!Writers -> Writings] /\ writer'[w] = rec
         /\ \A v \in Pl!Writers \ {w} : writer'[v] = writer[v]
BY DEF Pl!TypeOK, Pl!Move, Writings

\* The types the steps leave to be shown.
LEMMA RowTypes ==
  ASSUME PlInv
  PROVE  /\ remote \in Pl!Versions /\ pl.snapshot \in Pl!Versions /\ pl.synced \in {0} \cup Pl!Versions
         /\ listing \in {0} \cup Pl!Versions
         /\ Pl!Versions \subseteq Int
         /\ \A w \in Pl!Writers : /\ writer[w] \in Writings
                                  /\ writer[w].got \subseteq {0} \cup Pl!Versions
         /\ "worker" \in Pl!Writers /\ "ingest" \in Pl!Writers
BY DEF PlInv, Pl!TypeOK, Writings, Pl!Writers, Pl!Versions

\* The worker's record is at rest, the rest of the list as it was: its fetch
\* that failed leaves what was due.
LEMMA WorkerRests ==
  ASSUME PlInv, Pl!Move("worker", Pl!AtRest), UNCHANGED <<remote, content, listing, mixed, crossed>>,
         pl'.snapshot = pl.snapshot, pl'.synced = pl.synced, pl'.available = pl.available
  PROVE  NoneAhead' /\ Roles' /\ FetchAlone' /\ LastAlone'
<1>1. Pl!AtRest \in Writings /\ Pl!AtRest.pc = "idle" /\ Pl!AtRest.what = "list"
  BY DEF Pl!AtRest, Writings, Pl!Targets
<1>2. writer'["worker"] = Pl!AtRest /\ writer'["ingest"] = writer["ingest"]
  BY <1>1, MoveType DEF PlInv, Pl!Writers
<1>3. NoneAhead' /\ Roles'
  BY <1>1, <1>2 DEF PlInv, NoneAhead, Roles
<1>4. ~Pl!AtList("worker")'
  BY <1>1, <1>2 DEF Pl!AtList
<1> QED
  BY <1>2, <1>3, <1>4 DEF PlInv, FetchAlone, LastAlone, Pl!Current

\* `ingest` at its pages is not alone with a fetch of the worker.
LEMMA IngestAtPages ==
  ASSUME PlInv, writer["ingest"].pc \notin {"idle", "upsert"}
  PROVE  crossed \/ ~Pl!AtList("worker")
BY DEF PlInv, FetchAlone, Pl!TypeOK

\* A step of `ingest` at its pages, which is not alone with any other.
LEMMA IngestGoesOn ==
  ASSUME PlInv, NEW rec \in Writings, Pl!Move("ingest", rec), rec.what = "list",
         writer["ingest"].pc \notin {"idle", "upsert"}, rec.pc # "upsert",
         UNCHANGED <<remote, listing>>,
         \/ UNCHANGED <<pl, content, mixed, crossed>> /\ rec.pc \notin {"insert", "record"}
         \/ mixed' = TRUE /\ UNCHANGED pl /\ crossed' = TRUE
         \/ mixed' = TRUE /\ pl'.snapshot = pl.snapshot /\ pl'.synced = pl.synced /\ UNCHANGED crossed
  PROVE  NoneAhead' /\ Roles' /\ FetchAlone' /\ LastAlone'
<1>1. writer'["ingest"] = rec /\ writer'["worker"] = writer["worker"]
  BY MoveType DEF PlInv, Pl!Writers
<1>2. pl'.snapshot = pl.snapshot
  OBVIOUS
<1>3. NoneAhead' /\ Roles'
  BY <1>1, <1>2 DEF PlInv, NoneAhead, Roles
<1>4. Pl!AtList("worker")' <=> Pl!AtList("worker")
  BY <1>1 DEF Pl!AtList
<1>5. FetchAlone'
  BY <1>4, IngestAtPages DEF FetchAlone, PlInv, Pl!TypeOK
<1>6. ASSUME UNCHANGED <<pl, content, mixed, crossed>>, rec.pc \notin {"insert", "record"}
      PROVE  LastAlone'
  BY <1>1, <1>4, <1>6 DEF PlInv, LastAlone, Pl!Current
<1>7. ASSUME mixed' = TRUE PROVE LastAlone'
  BY <1>7 DEF LastAlone
<1> QED
  BY <1>3, <1>5, <1>6, <1>7

\* The row gets a snapshot, that of a version read before.
LEMMA SnapshotWritten ==
  ASSUME PlInv, NEW v \in 1..remote, pl' = [pl EXCEPT !.snapshot = v], Pl!NewSnapshot,
         UNCHANGED <<remote, content>>, listing' \in {0, listing},
         writer'["worker"] = writer["worker"], writer'["ingest"].what = "list",
         writer'["ingest"] = writer["ingest"] \/ writer'["ingest"].pc = "page"
  PROVE  NoneAhead' /\ Roles' /\ FetchAlone' /\ LastAlone'
<1>1. /\ pl'.snapshot = v /\ pl'.synced = pl.synced /\ pl'.available = pl.available
      /\ v \in Int /\ v <= remote /\ pl.snapshot \in Int /\ pl.synced \in Int /\ remote \in Int
      /\ listing \in Int
  BY RowTypes DEF PlInv, Pl!TypeOK
<1>2. NoneAhead' /\ Roles'
  <2>1. 0 <= remote
    BY RowTypes DEF Pl!Versions
  <2> QED
    BY <1>1, <2>1 DEF PlInv, NoneAhead, Roles
<1>3. Pl!AtList("worker")' <=> Pl!AtList("worker")
  BY DEF Pl!AtList
<1>4. FetchAlone'
  BY <1>3 DEF FetchAlone, Pl!NewSnapshot
<1>5. LastAlone'
  <2> SUFFICES ASSUME ~mixed' PROVE
        /\ pl'.synced <= pl'.snapshot /\ writer'["ingest"].pc \notin {"insert", "record"}
        /\ pl'.available /\ pl'.synced = pl'.snapshot
             => ~Pl!AtList("worker") /\ Pl!Current(pl.synced)
    BY <1>1, <1>3 DEF LastAlone, Pl!Current
  <2>0. ~mixed /\ ~(pl'.snapshot < pl.snapshot)
    BY DEF Pl!NewSnapshot
  <2>1. ~mixed /\ pl.snapshot <= v
    BY <1>1, <2>0
  <2>2. /\ pl.synced <= pl.snapshot /\ writer["ingest"].pc \notin {"insert", "record"}
        /\ pl.available /\ pl.synced = pl.snapshot
             => ~Pl!AtList("worker") /\ Pl!Current(pl.synced)
    BY <2>1 DEF PlInv, LastAlone
  <2> QED
    BY <1>1, <2>1, <2>2
<1> QED
  BY <1>2, <1>4, <1>5

\* A request: what is due stays due.
LEMMA AskKept ==
  ASSUME PlInv, Pl!Ask
  PROVE  Pl!TypeOK' /\ NoneAhead' /\ Roles' /\ FetchAlone' /\ LastAlone'
<1>1. /\ pl' \in [enabled : BOOLEAN, available : BOOLEAN,
                  snapshot : Pl!Versions, synced : {0} \cup Pl!Versions]
      /\ pl'.snapshot = pl.snapshot /\ pl'.synced \in {0, pl.synced}
      /\ pl'.available => pl.available /\ pl'.synced = pl.synced
  <2>1. pl \in [enabled : BOOLEAN, available : BOOLEAN,
                snapshot : Pl!Versions, synced : {0} \cup Pl!Versions]
    BY DEF PlInv, Pl!TypeOK
  <2>2. CASE Pl!Toggle
    BY <2>1, <2>2 DEF Pl!Toggle
  <2>3. CASE Pl!Refetch
    BY <2>1, <2>3 DEF Pl!Refetch
  <2>4. CASE Pl!Sync \/ Pl!EnableAll
    BY <2>1, <2>4 DEF Pl!Sync, Pl!EnableAll
  <2>5. CASE Pl!DisableAll \/ Pl!Retry
    BY <2>1, <2>5 DEF Pl!DisableAll, Pl!Retry, PlInv, Pl!TypeOK
  <2> QED
    BY <2>2, <2>3, <2>4, <2>5 DEF Pl!Ask
<1>2. asked' \in [Pl!Targets -> {"none", "queued", "done", "error"}]
  BY DEF Pl!Ask, Pl!Toggle, Pl!Refetch, Pl!Sync, Pl!EnableAll, Pl!DisableAll, Pl!Retry,
         PlInv, Pl!TypeOK
<1>3. UNCHANGED <<remote, content, writer, listing, mixed, crossed>>
  BY DEF Pl!Ask
<1>4. Pl!TypeOK'
  BY <1>1, <1>2, <1>3, SpendType DEF Pl!Ask, PlInv, Pl!TypeOK
<1>5. NoneAhead' /\ Roles' /\ FetchAlone'
  BY <1>1, <1>3 DEF PlInv, NoneAhead, Roles, FetchAlone, Pl!AtList
<1>6. LastAlone'
  <2>1. \A n \in {0} \cup Pl!Versions : n >= 0
    BY DEF Pl!Versions
  <2> QED
    BY <1>1, <1>3, <2>1, RowTypes DEF PlInv, LastAlone, Pl!AtList, Pl!Current
<1> QED
  BY <1>4, <1>5, <1>6

\* The records the writers move to.
LEMMA WritingTypes ==
  ASSUME PlInv, NEW w \in Pl!Writers
  PROVE  /\ \A pc \in {"insert", "record", "delete"} : [writer[w] EXCEPT !.pc = pc] \in Writings
         /\ Pl!AtRest \in Writings /\ Pl!AtRest.pc = "idle" /\ Pl!AtRest.what = "list"
         /\ \A t \in Pl!Targets, got \in SUBSET ({0} \cup Pl!Versions), pc \in {"page", "upsert"} :
              [pc |-> pc, what |-> t, got |-> got] \in Writings
         /\ \A got \in SUBSET ({0} \cup Pl!Versions), pc \in {"page", "delete"} :
              [writer[w] EXCEPT !.got = got, !.pc = pc] \in Writings
<1>1. writer[w] \in Writings
  BY DEF PlInv, Pl!TypeOK, Writings
<1>2. Pl!AtRest \in Writings /\ Pl!AtRest.pc = "idle" /\ Pl!AtRest.what = "list"
  BY DEF Pl!AtRest, Writings, Pl!Targets
<1> QED
  BY <1>1, <1>2 DEF Writings

\* A page is read.
LEMMA PageRead ==
  ASSUME PlInv, NEW w \in Pl!Writers, NEW last \in BOOLEAN, Pl!ReadPage(w, last)
  PROVE  /\ writer' \in [Pl!Writers -> Writings] /\ writer'[w].what = writer[w].what
         /\ \A v \in Pl!Writers \ {w} : writer'[v] = writer[v]
         /\ \/ /\ Pl!AtList(w) /\ writer'[w].got = writer[w].got \cup {remote}
               /\ writer'[w].pc \in {"page", "delete"}
            \/ writer[w].what # "list" /\ writer'[w].pc \in {"page", "record"}
<1> DEFINE rec == IF Pl!AtList(w)
                    THEN [writer[w] EXCEPT !.got = @ \cup {remote}, !.pc = IF last THEN "delete" ELSE @]
                    ELSE [writer[w] EXCEPT !.pc = IF last THEN "record" ELSE @]
<1>1. writer[w] \in Writings /\ writer[w].pc = "page" /\ remote \in Pl!Versions
  BY RowTypes DEF Pl!ReadPage, Pl!On
<1>2. CASE Pl!AtList(w)
  <2>1. /\ rec \in Writings /\ rec.got = writer[w].got \cup {remote}
        /\ rec.pc \in {"page", "delete"} /\ rec.what = writer[w].what
    BY <1>1, <1>2 DEF Writings
  <2> HIDE DEF rec
  <2>2. Pl!Move(w, rec)
    BY DEF Pl!ReadPage, rec
  <2> QED
    BY <1>2, <2>1, <2>2, MoveType DEF PlInv
<1>3. CASE ~Pl!AtList(w)
  <2>1. rec \in Writings /\ rec.pc \in {"page", "record"} /\ rec.what = writer[w].what
    BY <1>1, <1>3 DEF Writings
  <2>2. writer[w].what # "list"
    BY <1>1, <1>3 DEF Pl!AtList
  <2> HIDE DEF rec
  <2>3. Pl!Move(w, rec)
    BY DEF Pl!ReadPage, rec
  <2> QED
    BY <2>1, <2>2, <2>3, MoveType DEF PlInv
<1> QED
  BY <1>2, <1>3

\* The worker's steps.
LEMMA WorkerKept ==
  ASSUME PlInv, Pl!WorkerStep
  PROVE  Pl!TypeOK' /\ NoneAhead' /\ Roles' /\ FetchAlone' /\ LastAlone'
<1> DEFINE me == writer["worker"]
<1>0. /\ "worker" \in Pl!Writers /\ "ingest" \in Pl!Writers /\ me \in Writings
      /\ remote \in Int /\ pl.snapshot \in Int /\ pl.synced \in Int /\ pl.snapshot <= remote
  BY RowTypes DEF PlInv, NoneAhead
<1>1. ASSUME NEW t \in Pl!Targets, Pl!Pick(t)
      PROVE  Pl!TypeOK' /\ NoneAhead' /\ Roles' /\ FetchAlone' /\ LastAlone'
  <2>1. [pc |-> "page", what |-> t, got |-> {}] \in Writings
    BY <1>0, WritingTypes
  <2>2. /\ writer' \in [Pl!Writers -> Writings] /\ writer'["ingest"] = writer["ingest"]
        /\ writer'["worker"] = [pc |-> "page", what |-> t, got |-> {}]
    BY <1>0, <1>1, <2>1, MoveType DEF Pl!Pick, PlInv
  <2>3. /\ UNCHANGED <<remote, pl, asked, content, listing, mixed, plBudget>>
        /\ crossed' \in BOOLEAN /\ (crossed' <=> Pl!AtList("ingest")) /\ me.pc = "idle" /\ Pl!Due(t)
    BY <1>1 DEF Pl!Pick, Pl!On, Pl!AtList
  <2>4. Pl!TypeOK'
    BY <2>2, <2>3 DEF PlInv, Pl!TypeOK, Writings, Pl!AtList
  <2>5. NoneAhead' /\ Roles'
    BY <2>2, <2>3 DEF PlInv, NoneAhead, Roles
  <2>6. FetchAlone'
    BY <2>2, <2>3 DEF PlInv, FetchAlone, Roles, Pl!AtList
  <2>7. LastAlone'
    <3>1. t = "list" => ~pl.available \/ pl.snapshot # pl.synced
      BY <2>3 DEF Pl!Due
    <3> QED
      BY <2>2, <2>3, <3>1 DEF PlInv, LastAlone, Pl!AtList, Pl!Current
  <2> QED
    BY <2>4, <2>5, <2>6, <2>7
<1>2. ASSUME NEW last \in BOOLEAN, Pl!ReadPage("worker", last)
      PROVE  Pl!TypeOK' /\ NoneAhead' /\ Roles' /\ FetchAlone' /\ LastAlone'
  <2>1. /\ UNCHANGED <<remote, pl, asked, content, listing, mixed, crossed, plBudget>>
        /\ me.pc = "page"
    BY <1>2 DEF Pl!ReadPage, Pl!On
  <2>2. /\ writer' \in [Pl!Writers -> Writings] /\ writer'["ingest"] = writer["ingest"]
        /\ writer'["worker"].what = me.what
        /\ \/ /\ Pl!AtList("worker") /\ writer'["worker"].got = me.got \cup {remote}
              /\ writer'["worker"].pc \in {"page", "delete"}
           \/ me.what # "list" /\ writer'["worker"].pc \in {"page", "record"}
    BY <1>0, <1>2, PageRead
  <2>3. Pl!TypeOK'
    BY <2>1, <2>2 DEF PlInv, Pl!TypeOK, Writings
  <2>4. NoneAhead' /\ Roles'
    BY <2>1, <2>2 DEF PlInv, NoneAhead, Roles, Pl!AtList
  <2>5. FetchAlone'
    BY <1>0, <2>1, <2>2 DEF PlInv, FetchAlone, Pl!AtList
  <2>6. LastAlone'
    BY <2>1, <2>2 DEF PlInv, LastAlone, Pl!AtList, Pl!Current
  <2> QED
    BY <2>3, <2>4, <2>5, <2>6
<1>3. CASE Pl!PageFails
  <2>1. /\ Pl!Move("worker", Pl!AtRest) /\ UNCHANGED <<remote, content, listing, mixed, crossed, plBudget>>
        /\ asked' \in [Pl!Targets -> {"none", "queued", "done", "error"}]
        /\ pl' = pl \/ pl' = [pl EXCEPT !.enabled = FALSE]
    BY <1>3 DEF Pl!PageFails, PlInv, Pl!TypeOK
  <2>2. /\ pl'.snapshot = pl.snapshot /\ pl'.synced = pl.synced /\ pl'.available = pl.available
        /\ pl' \in [enabled : BOOLEAN, available : BOOLEAN,
                    snapshot : Pl!Versions, synced : {0} \cup Pl!Versions]
    BY <2>1 DEF PlInv, Pl!TypeOK
  <2>3. writer' \in [Pl!Writers -> Writings]
    BY <1>0, <2>1, WritingTypes, MoveType DEF PlInv
  <2>4. Pl!TypeOK'
    BY <2>1, <2>2, <2>3 DEF PlInv, Pl!TypeOK, Writings
  <2> QED
    BY <2>1, <2>2, <2>4, WorkerRests
<1>4. CASE Pl!RateLimited
  <2>1. writer' \in [Pl!Writers -> Writings]
    BY <1>0, <1>4, WritingTypes, MoveType DEF Pl!RateLimited, PlInv
  <2>2. Pl!TypeOK'
    BY <1>4, <2>1 DEF Pl!RateLimited, PlInv, Pl!TypeOK, Writings
  <2> QED
    BY <1>4, <2>2, WorkerRests DEF Pl!RateLimited
<1>5. CASE Pl!DeleteOld("worker")
  <2>1. /\ UNCHANGED <<remote, pl, asked, listing, plBudget>> /\ content' = {}
        /\ (mixed' <=> mixed) /\ (crossed' <=> crossed) /\ mixed' \in BOOLEAN /\ crossed' \in BOOLEAN
        /\ me.pc = "delete" /\ Pl!Move("worker", [me EXCEPT !.pc = "insert"])
    BY <1>5 DEF Pl!DeleteOld, Pl!Crosses, Pl!On, Pl!To, PlInv, Pl!TypeOK
  <2>2. /\ writer' \in [Pl!Writers -> Writings] /\ writer'["ingest"] = writer["ingest"]
        /\ writer'["worker"].pc = "insert" /\ writer'["worker"].what = me.what
        /\ writer'["worker"].got = me.got
    <3>1. [me EXCEPT !.pc = "insert"] \in Writings
      BY <1>0, WritingTypes
    <3>2. /\ writer' \in [Pl!Writers -> Writings] /\ writer'["ingest"] = writer["ingest"]
          /\ writer'["worker"] = [me EXCEPT !.pc = "insert"]
      BY <1>0, <2>1, <3>1, MoveType DEF PlInv
    <3> QED
      BY <1>0, <3>2 DEF Writings
  <2>3. Pl!AtList("worker")
    BY <2>1 DEF Pl!AtList, PlInv, Roles
  <2>4. Pl!TypeOK'
    BY <2>1, <2>2 DEF PlInv, Pl!TypeOK, Writings
  <2>5. NoneAhead' /\ Roles'
    BY <2>1, <2>2 DEF PlInv, NoneAhead, Roles
  <2>6. FetchAlone'
    BY <2>1, <2>2, <2>3 DEF PlInv, FetchAlone
  <2>7. LastAlone'
    BY <2>1, <2>2, <2>3 DEF PlInv, LastAlone
  <2> QED
    BY <2>4, <2>5, <2>6, <2>7
<1>6. CASE Pl!InsertNew("worker")
  <2>1. /\ UNCHANGED <<remote, pl, asked, listing, mixed, crossed, plBudget>>
        /\ content' = content \cup me.got
        /\ me.pc = "insert" /\ Pl!Move("worker", [me EXCEPT !.pc = "record"])
    BY <1>6 DEF Pl!InsertNew, Pl!On, Pl!To
  <2>2. /\ writer' \in [Pl!Writers -> Writings] /\ writer'["ingest"] = writer["ingest"]
        /\ writer'["worker"].pc = "record" /\ writer'["worker"].what = me.what
        /\ writer'["worker"].got = me.got
    <3>1. [me EXCEPT !.pc = "record"] \in Writings
      BY <1>0, WritingTypes
    <3>2. /\ writer' \in [Pl!Writers -> Writings] /\ writer'["ingest"] = writer["ingest"]
          /\ writer'["worker"] = [me EXCEPT !.pc = "record"]
      BY <1>0, <2>1, <3>1, MoveType DEF PlInv
    <3> QED
      BY <1>0, <3>2 DEF Writings
  <2>3. Pl!AtList("worker")
    BY <2>1 DEF Pl!AtList, PlInv, Roles
  <2>4. Pl!TypeOK'
    BY <1>0, <2>1, <2>2 DEF PlInv, Pl!TypeOK, Writings
  <2>5. NoneAhead' /\ Roles'
    BY <2>1, <2>2 DEF PlInv, NoneAhead, Roles
  <2>6. FetchAlone'
    BY <2>1, <2>2, <2>3 DEF PlInv, FetchAlone
  <2>7. LastAlone'
    BY <2>1, <2>2, <2>3 DEF PlInv, LastAlone
  <2> QED
    BY <2>4, <2>5, <2>6, <2>7
<1>7. CASE Pl!Record("worker")
  <2>1. /\ UNCHANGED <<remote, content, listing, crossed, plBudget>> /\ me.pc = "record"
        /\ Pl!Move("worker", Pl!AtRest) /\ asked' = [asked EXCEPT ![me.what] = "done"]
    BY <1>7 DEF Pl!Record, Pl!On
  <2>2. \/ /\ Pl!AtList("worker") /\ mixed' = crossed
           /\ pl' = [pl EXCEPT !.available = TRUE, !.synced = pl.snapshot]
        \/ ~Pl!AtList("worker") /\ UNCHANGED <<mixed, pl>>
    BY <1>7 DEF Pl!Record
  <2>3. /\ writer' \in [Pl!Writers -> Writings] /\ writer'["ingest"] = writer["ingest"]
        /\ writer'["worker"].pc = "idle"
    BY <1>0, <2>1, WritingTypes, MoveType DEF PlInv
  <2>4. Pl!TypeOK'
    <3>1. pl' \in [enabled : BOOLEAN, available : BOOLEAN,
                   snapshot : Pl!Versions, synced : {0} \cup Pl!Versions]
      BY <2>2 DEF PlInv, Pl!TypeOK
    <3>2. asked' \in [Pl!Targets -> {"none", "queued", "done", "error"}] /\ mixed' \in BOOLEAN
      BY <2>1, <2>2 DEF PlInv, Pl!TypeOK
    <3> QED
      BY <2>1, <2>3, <3>1, <3>2 DEF PlInv, Pl!TypeOK, Writings
  <2>5. NoneAhead' /\ Roles'
    BY <2>1, <2>2, <2>3 DEF PlInv, NoneAhead, Roles, Pl!TypeOK
  <2>6. FetchAlone'
    BY <2>3 DEF FetchAlone, Pl!AtList
  <2>7. CASE ~Pl!AtList("worker") /\ UNCHANGED <<mixed, pl>>
    <3>1. LastAlone'
      BY <2>1, <2>3, <2>7 DEF PlInv, LastAlone, Pl!AtList, Pl!Current
    <3> QED
      BY <2>4, <2>5, <2>6, <3>1
  <2>8. CASE /\ Pl!AtList("worker") /\ mixed' = crossed
             /\ pl' = [pl EXCEPT !.available = TRUE, !.synced = pl.snapshot]
    <3>1. pl'.synced = pl.snapshot /\ pl'.snapshot = pl.snapshot
      BY <2>8 DEF PlInv, Pl!TypeOK
    <3>2. ASSUME ~crossed PROVE
          /\ writer["ingest"].pc \in {"idle", "upsert"}
          /\ content # {} /\ \A v \in content : v >= pl.snapshot
      <4>1. \A v \in me.got : v \in Int
        BY <1>0, RowTypes
      <4> QED
        BY <1>0, <2>1, <2>8, <3>2, <4>1 DEF PlInv, FetchAlone
    <3>3. LastAlone'
      BY <1>0, <2>1, <2>3, <2>8, <3>1, <3>2 DEF LastAlone, Pl!AtList, Pl!Current
    <3> QED
      BY <2>4, <2>5, <2>6, <3>3
  <2> QED
    BY <2>2, <2>7, <2>8
<1> QED
  BY <1>1, <1>2, <1>3, <1>4, <1>5, <1>6, <1>7 DEF Pl!WorkerStep

\* The steps of `ingest`.
LEMMA IngestKept ==
  ASSUME PlInv, Pl!IngestStep
  PROVE  Pl!TypeOK' /\ NoneAhead' /\ Roles' /\ FetchAlone' /\ LastAlone'
<1> DEFINE me == writer["ingest"]
<1>0. /\ "ingest" \in Pl!Writers /\ "worker" \in Pl!Writers /\ me \in Writings /\ me.what = "list"
      /\ remote \in Pl!Versions /\ remote \in Int
      /\ Pl!AtRest \in Writings /\ Pl!AtRest.pc = "idle" /\ Pl!AtRest.what = "list"
  BY RowTypes, WritingTypes DEF PlInv, Roles
<1>1. CASE Pl!IngestReadsList
  <2> DEFINE rec == [pc |-> "upsert", what |-> "list", got |-> {remote}]
  <2>1. rec \in Writings
    BY <1>0 DEF Writings, Pl!Targets
  <2>2. /\ writer' \in [Pl!Writers -> Writings] /\ writer'["worker"] = writer["worker"]
        /\ writer'["ingest"] = rec
    BY <1>0, <1>1, <2>1, MoveType DEF Pl!IngestReadsList, PlInv
  <2>3. UNCHANGED <<remote, pl, asked, content, listing, mixed, crossed>>
    BY <1>1 DEF Pl!IngestReadsList
  <2>4. plBudget' \in [{"asks", "ingests", "listings", "stops"} -> Nat]
    BY <1>1, SpendType DEF Pl!IngestReadsList, PlInv
  <2>5. Pl!TypeOK'
    BY <2>2, <2>3, <2>4 DEF PlInv, Pl!TypeOK, Writings
  <2>6. NoneAhead' /\ Roles'
    <3>1. remote \in 1..remote
      BY <1>0 DEF Pl!Versions
    <3> QED
      BY <2>2, <2>3, <3>1 DEF PlInv, NoneAhead, Roles
  <2>7. FetchAlone' /\ LastAlone'
    BY <2>2, <2>3 DEF PlInv, FetchAlone, LastAlone, Pl!AtList, Pl!Current
  <2> QED
    BY <2>5, <2>6, <2>7
<1>2. CASE Pl!IngestUpserts
  <2> DEFINE rec == [pc |-> "page", what |-> "list", got |-> {}]
  <2>1. rec \in Writings
    BY <1>0, WritingTypes DEF Pl!Targets
  <2>2. /\ writer' \in [Pl!Writers -> Writings] /\ writer'["worker"] = writer["worker"]
        /\ writer'["ingest"] = rec
    BY <1>0, <1>2, <2>1, MoveType DEF Pl!IngestUpserts, PlInv
  <2>3. PICK v \in me.got : pl' = [pl EXCEPT !.snapshot = v]
    BY <1>2 DEF Pl!IngestUpserts
  <2>4. v \in 1..remote /\ v \in Pl!Versions
    <3>1. v \in 1..remote /\ v \in {0} \cup Pl!Versions
      BY <1>0, <1>2, <2>3 DEF Pl!IngestUpserts, Pl!On, PlInv, NoneAhead, Writings
    <3> QED
      BY <1>0, <3>1
  <2>5. UNCHANGED <<remote, asked, content, listing, plBudget>> /\ Pl!NewSnapshot
    BY <1>2 DEF Pl!IngestUpserts
  <2>6. Pl!TypeOK'
    BY <2>2, <2>3, <2>4, <2>5 DEF PlInv, Pl!TypeOK, Writings, Pl!NewSnapshot, Pl!AtList
  <2> QED
    BY <2>2, <2>3, <2>4, <2>5, <2>6, SnapshotWritten
<1>3. ASSUME NEW rec \in Writings, Pl!Move("ingest", rec), UNCHANGED <<remote, listing, asked, plBudget>>,
             pl' \in [enabled : BOOLEAN, available : BOOLEAN,
                     snapshot : Pl!Versions, synced : {0} \cup Pl!Versions],
             content' \subseteq {0} \cup Pl!Versions, mixed' \in BOOLEAN, crossed' \in BOOLEAN
      PROVE  Pl!TypeOK'
  BY <1>0, <1>3, MoveType DEF PlInv, Pl!TypeOK, Writings
<1>4. CASE Pl!IngestPageFails
  <2>1. /\ UNCHANGED <<remote, pl, asked, content, listing, mixed, crossed, plBudget>>
        /\ me.pc = "page"
    BY <1>4 DEF Pl!IngestPageFails, Pl!On
  <2> DEFINE rec == IF me.got # {} THEN [me EXCEPT !.got = @ \cup {0}, !.pc = "delete"] ELSE Pl!AtRest
  <2>2. rec \in Writings /\ rec.what = "list" /\ rec.pc \in {"delete", "idle"}
    BY <1>0 DEF Writings
  <2> HIDE DEF rec
  <2>3. Pl!Move("ingest", rec)
    BY <1>4 DEF Pl!IngestPageFails, rec
  <2>4. Pl!TypeOK'
    BY <1>3, <2>1, <2>2, <2>3 DEF PlInv, Pl!TypeOK
  <2> QED
    BY <2>1, <2>2, <2>3, <2>4, IngestGoesOn
<1>5. ASSUME NEW last \in BOOLEAN, Pl!ReadPage("ingest", last)
      PROVE  Pl!TypeOK' /\ NoneAhead' /\ Roles' /\ FetchAlone' /\ LastAlone'
  <2>1. /\ UNCHANGED <<remote, pl, asked, content, listing, mixed, crossed, plBudget>>
        /\ me.pc = "page" /\ Pl!AtList("ingest")
    BY <1>0, <1>5 DEF Pl!ReadPage, Pl!On, Pl!AtList
  <2> DEFINE rec == [me EXCEPT !.got = @ \cup {remote}, !.pc = IF last THEN "delete" ELSE @]
  <2>2. rec \in Writings /\ rec.what = "list" /\ rec.pc \in {"delete", "page"}
    BY <1>0, <2>1 DEF Writings
  <2> HIDE DEF rec
  <2>3. Pl!Move("ingest", rec)
    BY <1>5, <2>1 DEF Pl!ReadPage, rec
  <2>4. Pl!TypeOK'
    BY <1>3, <2>1, <2>2, <2>3 DEF PlInv, Pl!TypeOK
  <2> QED
    BY <2>1, <2>2, <2>3, <2>4, IngestGoesOn
<1>6. CASE Pl!DeleteOld("ingest")
  <2>1. /\ UNCHANGED <<remote, pl, asked, listing, plBudget>> /\ content' = {}
        /\ mixed' = TRUE /\ crossed' = TRUE
        /\ me.pc = "delete" /\ Pl!Move("ingest", [me EXCEPT !.pc = "insert"])
    BY <1>6 DEF Pl!DeleteOld, Pl!Crosses, Pl!On, Pl!To
  <2>2. /\ [me EXCEPT !.pc = "insert"] \in Writings
        /\ [me EXCEPT !.pc = "insert"].what = "list" /\ [me EXCEPT !.pc = "insert"].pc = "insert"
    BY <1>0 DEF Writings
  <2>3. Pl!TypeOK'
    BY <1>3, <2>1, <2>2 DEF PlInv, Pl!TypeOK
  <2> QED
    BY <2>1, <2>2, <2>3, IngestGoesOn
<1>7. CASE Pl!InsertNew("ingest")
  <2>1. /\ UNCHANGED <<remote, pl, asked, listing, mixed, crossed, plBudget>>
        /\ content' = content \cup me.got
        /\ me.pc = "insert" /\ Pl!Move("ingest", [me EXCEPT !.pc = "record"])
    BY <1>7 DEF Pl!InsertNew, Pl!On, Pl!To
  <2>2. /\ [me EXCEPT !.pc = "record"] \in Writings
        /\ [me EXCEPT !.pc = "record"].what = "list" /\ [me EXCEPT !.pc = "record"].pc = "record"
    BY <1>0 DEF Writings
  <2>3. mixed' = TRUE
    BY <2>1 DEF PlInv, LastAlone, Pl!TypeOK
  <2>4. content' \subseteq {0} \cup Pl!Versions
    BY <1>0, <2>1 DEF PlInv, Pl!TypeOK, Writings
  <2>5. Pl!TypeOK'
    BY <1>3, <2>1, <2>2, <2>4 DEF PlInv, Pl!TypeOK
  <2> QED
    BY <2>1, <2>2, <2>3, <2>5, IngestGoesOn
<1>8. CASE Pl!Record("ingest")
  <2>1. /\ UNCHANGED <<remote, asked, content, listing, mixed, crossed, plBudget>>
        /\ me.pc = "record" /\ Pl!Move("ingest", Pl!AtRest)
        /\ pl' = pl \/ pl' = [pl EXCEPT !.available = TRUE]
    BY <1>8 DEF Pl!Record, Pl!On
  <2>2. mixed' = TRUE
    BY <2>1 DEF PlInv, LastAlone, Pl!TypeOK
  <2>3. /\ pl' \in [enabled : BOOLEAN, available : BOOLEAN,
                    snapshot : Pl!Versions, synced : {0} \cup Pl!Versions]
        /\ pl'.snapshot = pl.snapshot /\ pl'.synced = pl.synced
    BY <2>1 DEF PlInv, Pl!TypeOK
  <2>4. Pl!TypeOK'
    BY <1>0, <1>3, <2>1, <2>3 DEF PlInv, Pl!TypeOK
  <2> QED
    BY <1>0, <2>1, <2>2, <2>3, <2>4, IngestGoesOn
<1> QED
  BY <1>1, <1>2, <1>4, <1>5, <1>6, <1>7, <1>8 DEF Pl!IngestStep

\* Every step keeps the invariant.
LEMMA PlStep == ASSUME PlBounds, PlInv, [Pl!Next]_plVars PROVE PlInv'
<1>1. CASE Pl!Edit
  <2>1. /\ remote' = remote + 1 /\ remote' \in Pl!Versions
        /\ UNCHANGED <<pl, asked, content, writer, listing, mixed, crossed, plBudget>>
    BY <1>1 DEF Pl!Edit, PlInv, Pl!TypeOK, Pl!Versions, PlBounds
  <2>2. Pl!TypeOK'
    BY <2>1 DEF PlInv, Pl!TypeOK
  <2>3. NoneAhead' /\ Roles'
    <3>1. /\ pl.snapshot <= remote' /\ listing <= remote'
          /\ \A v \in 1..remote : v \in 1..remote'
      BY <2>1, RowTypes DEF PlInv, NoneAhead, Pl!Versions
    <3> QED
      BY <2>1, <3>1 DEF PlInv, NoneAhead, Roles
  <2>4. FetchAlone' /\ LastAlone'
    BY <2>1 DEF PlInv, FetchAlone, LastAlone, Pl!AtList, Pl!Current
  <2> QED
    BY <2>2, <2>3, <2>4 DEF PlInv
<1>2. CASE Pl!Ask
  BY <1>2, AskKept DEF PlInv
<1>3. CASE Pl!WorkerStep
  BY <1>3, WorkerKept DEF PlInv
<1>4. CASE Pl!IngestStep
  BY <1>4, IngestKept DEF PlInv
<1>5. CASE Pl!ReadList
  <2>1. /\ listing' = remote /\ UNCHANGED <<remote, pl, asked, content, writer, mixed, crossed>>
        /\ plBudget' \in [{"asks", "ingests", "listings", "stops"} -> Nat]
    BY <1>5, SpendType DEF Pl!ReadList, PlInv
  <2>2. Pl!TypeOK'
    BY <2>1 DEF PlInv, Pl!TypeOK
  <2>3. NoneAhead' /\ Roles'
    BY <2>1, RowTypes DEF PlInv, NoneAhead, Roles
  <2>4. FetchAlone' /\ LastAlone'
    BY <2>1 DEF PlInv, FetchAlone, LastAlone, Pl!AtList, Pl!Current
  <2> QED
    BY <2>2, <2>3, <2>4 DEF PlInv
<1>6. CASE Pl!UpsertMeta
  <2>1. /\ pl' = [pl EXCEPT !.snapshot = listing] /\ listing # 0 /\ listing' = 0 /\ Pl!NewSnapshot
        /\ UNCHANGED <<remote, asked, content, writer, plBudget>>
    BY <1>6 DEF Pl!UpsertMeta
  <2>2. listing \in 1..remote /\ listing \in Pl!Versions
    BY <2>1, RowTypes DEF PlInv, NoneAhead, Pl!Versions
  <2>3. Pl!TypeOK'
    BY <2>1, <2>2 DEF PlInv, Pl!TypeOK, Pl!NewSnapshot, Pl!AtList
  <2>4. writer["ingest"].what = "list"
    BY DEF PlInv, Roles
  <2> QED
    BY <2>1, <2>2, <2>3, <2>4, SnapshotWritten DEF PlInv
<1>7. ASSUME NEW w \in Pl!Writers, Pl!Stop(w) PROVE PlInv'
  <2>1. /\ Pl!Move(w, Pl!AtRest) /\ UNCHANGED <<remote, pl, asked, content, listing, mixed, crossed>>
        /\ plBudget' \in [{"asks", "ingests", "listings", "stops"} -> Nat]
    BY <1>7, SpendType DEF Pl!Stop, PlInv
  <2>2. /\ writer' \in [Pl!Writers -> Writings] /\ writer'[w] = Pl!AtRest
        /\ \A v \in Pl!Writers \ {w} : writer'[v] = writer[v]
        /\ Pl!AtRest.pc = "idle" /\ Pl!AtRest.what = "list"
    BY <2>1, WritingTypes, MoveType DEF PlInv
  <2>3. Pl!TypeOK'
    BY <2>1, <2>2 DEF PlInv, Pl!TypeOK, Writings
  <2>4. CASE w = "worker"
    BY <2>1, <2>3, <2>4, WorkerRests DEF PlInv
  <2>5. CASE w = "ingest"
    <3>1. writer'["ingest"] = Pl!AtRest /\ writer'["worker"] = writer["worker"]
      BY <2>2, <2>5 DEF Pl!Writers
    <3>2. NoneAhead' /\ Roles' /\ FetchAlone' /\ LastAlone'
      BY <2>1, <2>2, <3>1 DEF PlInv, NoneAhead, Roles, FetchAlone, LastAlone, Pl!AtList, Pl!Current
    <3> QED
      BY <2>3, <3>2 DEF PlInv
  <2> QED
    BY <2>4, <2>5 DEF Pl!Writers
<1>8. CASE UNCHANGED plVars
  BY <1>8 DEF plVars, PlInv, Pl!TypeOK, NoneAhead, Roles, FetchAlone, LastAlone, Pl!AtList, Pl!Current
<1> QED
  BY <1>1, <1>2, <1>3, <1>4, <1>5, <1>6, <1>7, <1>8 DEF Pl!Next

\* The invariant of the part.
LEMMA PlInvariant == ASSUME PlBounds PROVE MCFairSpec => []PlInv
<1>1. MCInit => PlInv
  BY PlInit DEF MCInit
<1>2. PlInv /\ [MCNext]_<<part, vars, plVars, keVars, feVars>> => PlInv'
  BY PartSteps, PlStep
<1> QED
  BY <1>1, <1>2, PTL DEF MCFairSpec

\* After a fetch that ran alone the stored items are no older than the snapshot
\* they are said to be of, for every number of edits, requests, ingests,
\* refreshes and stops.
THEOREM ItemsCurrentHolds == ASSUME PlBounds PROVE MCFairSpec => []ItemsCurrentAlone
<1>1. PlInv => ItemsCurrentAlone
  BY DEF PlInv, LastAlone, ItemsCurrentAlone, Pl!ItemsCurrentAlone, Pl!Settled
<1> QED
  BY <1>1, PlInvariant, PTL

-----------------------------------------------------------------------------
(* Kellner. *)

KeBounds ==
  /\ MaxSaves \in Nat
  /\ MaxWishes \in Nat /\ MaxRuns \in Nat /\ MaxFaults \in Nat

\* While no two commands have held copies at once, one is alive at most, and
\* what it holds is what the file says, but for members `backpack` has pruned.
OneAlive    == \A c, d \in Ke!Commands : Ke!Alive(c) /\ Ke!Alive(d) => c = d
CopiesAgree == \A c \in {"run", "downloads"} : Ke!Alive(c) => cmd[c].st.members = file.members
FilesThere  == ~Ke!Alive("backpack") => file.members \subseteq disk
BackpackKnows ==
  Ke!Alive("backpack") =>
    /\ Ke!Bp.st.members \subseteq disk
    /\ Ke!Bp.pc # "prune" => file.members = Ke!Bp.st.members
    /\ Ke!Bp.pc = "keep" => Ke!Bp.got \subseteq disk

KeInv == Ke!TypeOK /\ (~torn => OneAlive /\ CopiesAgree /\ FilesThere /\ BackpackKnows)

Cmds ==
  [pc : {"idle", "upload", "save", "export", "prune", "diff", "order", "poll", "fetch", "keep"},
   st : Ke!States, todo : SUBSET Isrcs, want : SUBSET Isrcs,
   got : SUBSET Isrcs, at : 0..(MaxSaves + 1)]

\* The first state.
LEMMA KeInit == ASSUME KeBounds PROVE Ke!Init => KeInv
<1>1. Ke!Blank \in Ke!States
  BY DEF KeBounds, Ke!Blank, Ke!States
<1>2. Ke!Resting \in Cmds
  BY <1>1 DEF KeBounds, Ke!Resting, Cmds
<1>3. Ke!Init => Ke!TypeOK
  <2>1. 0 \in 0..(MaxSaves + 1) /\ 1 \in 1..(MaxSaves + 1)
    BY DEF KeBounds
  <2>2. Ke!Init => cmd \in [Ke!Commands -> Cmds]
    BY <1>2 DEF Ke!Init
  <2>3. Ke!Init => keBudget \in [{"wishes", "runs", "faults"} -> Nat]
    BY DEF KeBounds, Ke!Init
  <2> QED
    BY <1>1, <2>1, <2>2, <2>3 DEF Ke!Init, Ke!TypeOK, Cmds
<1>4. Ke!Init => \A c \in Ke!Commands : ~Ke!Alive(c)
  BY DEF Ke!Init, Ke!Alive, Ke!Resting
<1>5. Ke!Init => file.members \subseteq disk
  BY DEF Ke!Init, Ke!Blank
<1> QED
  BY <1>3, <1>4, <1>5 DEF KeInv, OneAlive, CopiesAgree, FilesThere, BackpackKnows, Ke!Commands

\* A budget that is used stays a budget.
LEMMA CostType ==
  ASSUME Ke!TypeOK, NEW b \in {"wishes", "runs", "faults"}, Ke!Cost(b)
  PROVE  keBudget' \in [{"wishes", "runs", "faults"} -> Nat]
BY DEF Ke!TypeOK, Ke!Cost

\* A command at rest.
LEMMA RestingType == ASSUME KeBounds PROVE Ke!Resting \in Cmds /\ Ke!Resting.pc = "idle"
BY DEF KeBounds, Ke!Resting, Cmds, Ke!Blank, Ke!States

\* A step replaces the record of one command.
LEMMA StepType ==
  ASSUME Ke!TypeOK, NEW c \in Ke!Commands, NEW rec \in Cmds, cmd' = [cmd EXCEPT ![c] = rec]
  PROVE  /\ cmd' \in [Ke!Commands -> Cmds] /\ cmd'[c] = rec
         /\ \A d \in Ke!Commands \ {c} : cmd'[d] = cmd[d]
BY DEF Ke!TypeOK, Cmds

\* While nothing is torn, a step of one command that keeps to its role keeps
\* the invariant.
LEMMA CommandStep ==
  ASSUME KeInv, NEW c \in Ke!Commands, NEW rec \in Cmds, cmd' = [cmd EXCEPT ![c] = rec],
         Ke!Alive(c), torn' = torn,
         \/ /\ c # "backpack" /\ disk \subseteq disk'
            /\ file'.members = file.members
            /\ rec.pc = "idle" \/ rec.st.members = cmd[c].st.members
         \/ /\ c = "backpack" /\ rec.pc # "idle"
            /\ rec.st.members \subseteq disk'
            /\ rec.pc # "prune" => file'.members = rec.st.members
            /\ rec.pc = "keep" => rec.got \subseteq disk'
         \/ /\ c = "backpack" /\ rec.pc = "idle" /\ cmd[c].pc # "prune"
            /\ UNCHANGED <<disk, file>>
  PROVE  ~torn' => OneAlive' /\ CopiesAgree' /\ FilesThere' /\ BackpackKnows'
<1> SUFFICES ASSUME ~torn PROVE OneAlive' /\ CopiesAgree' /\ FilesThere' /\ BackpackKnows'
  OBVIOUS
<1>1. /\ cmd'[c] = rec /\ (\A d \in Ke!Commands \ {c} : cmd'[d] = cmd[d])
      /\ cmd' \in [Ke!Commands -> Cmds]
  BY StepType DEF KeInv
<1>2. \A d \in Ke!Commands \ {c} : cmd[d].pc = "idle" /\ cmd'[d].pc = "idle"
  BY <1>1 DEF KeInv, OneAlive, Ke!Alive
<1>3. OneAlive'
  BY <1>1, <1>2 DEF OneAlive, Ke!Alive
<1>4. CASE c # "backpack"
  <2>1. cmd[c].st.members = file.members /\ file.members \subseteq disk
    BY <1>2, <1>4 DEF KeInv, CopiesAgree, FilesThere, Ke!Alive, Ke!Commands
  <2>2. cmd'["backpack"].pc = "idle"
    BY <1>2, <1>4 DEF Ke!Commands
  <2>3. CopiesAgree'
    BY <1>1, <1>2, <1>4, <2>1 DEF CopiesAgree, Ke!Alive, Ke!Commands
  <2>4. FilesThere' /\ BackpackKnows'
    BY <1>4, <2>1, <2>2 DEF FilesThere, BackpackKnows, Ke!Alive
  <2> QED
    BY <1>3, <2>3, <2>4
<1>5. CASE c = "backpack"
  <2>1. CopiesAgree'
    BY <1>2, <1>5 DEF CopiesAgree, Ke!Alive, Ke!Commands
  <2>2. CASE rec.pc # "idle"
    BY <1>1, <1>3, <1>5, <2>1, <2>2 DEF FilesThere, BackpackKnows, Ke!Alive, Ke!Bp
  <2>3. CASE rec.pc = "idle"
    <3>1. file.members \subseteq disk
      BY <1>5, <2>3 DEF KeInv, BackpackKnows, Ke!Alive, Ke!Bp
    <3> QED
      BY <1>1, <1>3, <1>5, <2>1, <2>3, <3>1 DEF FilesThere, BackpackKnows, Ke!Alive, Ke!Bp
  <2> QED
    BY <2>2, <2>3
<1> QED
  BY <1>4, <1>5

\* A command starts.
LEMMA LoadStep ==
  ASSUME KeInv, NEW c \in Ke!Commands, NEW rec \in Cmds, ~Ke!Alive(c), Ke!Load(c, rec),
         rec.pc \notin {"idle", "prune", "keep"}, UNCHANGED <<disk, file>>
  PROVE  /\ cmd' \in [Ke!Commands -> Cmds] /\ torn' \in BOOLEAN
         /\ ~torn' => OneAlive' /\ CopiesAgree' /\ FilesThere' /\ BackpackKnows'
<1> DEFINE new == [rec EXCEPT !.st = file]
<1>1. new \in Cmds /\ new.pc = rec.pc /\ new.st = file
  BY DEF KeInv, Ke!TypeOK, Cmds
<1>2. cmd' = [cmd EXCEPT ![c] = new] /\ torn' \in BOOLEAN
  BY DEF Ke!Load, KeInv, Ke!TypeOK
<1>3. /\ cmd'[c] = new /\ (\A d \in Ke!Commands \ {c} : cmd'[d] = cmd[d])
      /\ cmd' \in [Ke!Commands -> Cmds]
  BY <1>1, <1>2, StepType DEF KeInv
<1>4. ASSUME ~torn' PROVE OneAlive' /\ CopiesAgree' /\ FilesThere' /\ BackpackKnows'
  <2>1. ~torn /\ \A d \in Ke!Commands : cmd[d].pc = "idle"
    BY <1>4 DEF Ke!Load, Ke!Alive, KeInv, Ke!TypeOK
  <2>2. \A d \in Ke!Commands \ {c} : cmd'[d].pc = "idle"
    BY <1>3, <2>1
  <2>3. file.members \subseteq disk
    BY <2>1 DEF KeInv, FilesThere, Ke!Alive, Ke!Commands
  <2>4. OneAlive'
    BY <2>2 DEF OneAlive, Ke!Alive
  <2>5. CopiesAgree'
    BY <1>1, <1>3, <2>2 DEF CopiesAgree, Ke!Alive, Ke!Commands
  <2>6. FilesThere'
    BY <2>3 DEF FilesThere
  <2>7. BackpackKnows'
    BY <1>1, <1>3, <2>2, <2>3 DEF BackpackKnows, Ke!Alive, Ke!Bp, Ke!Commands
  <2> QED
    BY <2>4, <2>5, <2>6, <2>7
<1> QED
  BY <1>2, <1>3, <1>4

\* A command dies.
LEMMA DieStep ==
  ASSUME KeBounds, KeInv, NEW c \in Ke!Commands, Ke!Die(c) PROVE KeInv'
<1>1. /\ cmd' = [cmd EXCEPT ![c] = Ke!Resting] /\ Ke!Alive(c) /\ UNCHANGED <<nml, hubNml, wanted, disk, file>>
      /\ torn' = (torn \/ (cmd[c].pc = "prune" /\ ~(file.members \subseteq cmd[c].st.members)))
  BY DEF Ke!Die
<1>2. keBudget' \in [{"wishes", "runs", "faults"} -> Nat]
  BY CostType DEF KeInv, Ke!Die
<1>3. /\ cmd' \in [Ke!Commands -> Cmds] /\ cmd'[c] = Ke!Resting
      /\ \A d \in Ke!Commands \ {c} : cmd'[d] = cmd[d]
  BY <1>1, RestingType, StepType DEF KeInv
<1>4. Ke!TypeOK'
  BY <1>1, <1>2, <1>3 DEF KeInv, Ke!TypeOK, Cmds
<1>5. ASSUME ~torn' PROVE OneAlive' /\ CopiesAgree' /\ FilesThere' /\ BackpackKnows'
  <2>1. ~torn /\ (cmd[c].pc = "prune" => file.members \subseteq cmd[c].st.members)
    BY <1>1, <1>5 DEF KeInv, Ke!TypeOK
  <2>2. \A d \in Ke!Commands : cmd'[d].pc = "idle"
    BY <1>1, <1>3, <2>1, RestingType DEF KeInv, OneAlive, Ke!Alive
  <2>3. file.members \subseteq disk
    <3>1. CASE c = "backpack"
      BY <1>1, <2>1, <3>1 DEF KeInv, BackpackKnows, Ke!Bp
    <3>2. CASE c # "backpack"
      BY <1>1, <2>1, <3>2 DEF KeInv, OneAlive, FilesThere, Ke!Commands
    <3> QED
      BY <3>1, <3>2
  <2> QED
    BY <1>1, <2>2, <2>3 DEF OneAlive, CopiesAgree, FilesThere, BackpackKnows, Ke!Alive, Ke!Commands
<1> QED
  BY <1>4, <1>5 DEF KeInv

\* A step that touches no command, no file and no record of one.
LEMMA BesideStep ==
  ASSUME KeInv, UNCHANGED <<disk, file, cmd, torn>>
  PROVE  ~torn' => OneAlive' /\ CopiesAgree' /\ FilesThere' /\ BackpackKnows'
BY DEF KeInv, OneAlive, CopiesAgree, FilesThere, BackpackKnows, Ke!Alive, Ke!Bp

\* The steps of `kellner run`.
LEMMA RunKept == ASSUME KeBounds, KeInv, Ke!RunStep PROVE KeInv'
<1>0. "run" \in Ke!Commands /\ cmd["run"] \in Cmds /\ file \in Ke!States /\ cmd["run"].st \in Ke!States
  BY DEF Ke!Commands, KeInv, Ke!TypeOK, Cmds
<1>1. CASE Ke!CheckNml
  <2> DEFINE rec == [Ke!Resting EXCEPT !.pc = "upload", !.at = nml]
  <2>1. rec \in Cmds /\ rec.pc = "upload"
    <3>1. nml \in 0..(MaxSaves + 1)
      BY DEF KeInv, Ke!TypeOK, KeBounds
    <3> QED
      BY <3>1, RestingType DEF Cmds
  <2>2. /\ cmd' \in [Ke!Commands -> Cmds] /\ torn' \in BOOLEAN
        /\ ~torn' => OneAlive' /\ CopiesAgree' /\ FilesThere' /\ BackpackKnows'
    BY <1>0, <1>1, <2>1, LoadStep DEF Ke!CheckNml
  <2> QED
    BY <1>1, <2>2 DEF Ke!CheckNml, KeInv, Ke!TypeOK, Cmds
<1>2. CASE Ke!Upload
  <2>1. keBudget' \in [{"wishes", "runs", "faults"} -> Nat] /\ hubNml' \in 0..(MaxSaves + 1)
    BY <1>2, CostType DEF Ke!Upload, KeInv, Ke!TypeOK, KeBounds
  <2>2. PICK rec \in {Ke!Resting, [cmd["run"] EXCEPT !.pc = "save"]} : Ke!Step("run", rec)
    BY <1>2 DEF Ke!Upload, Ke!Finish
  <2>3. rec \in Cmds /\ (rec.pc = "idle" \/ rec.st.members = cmd["run"].st.members)
    BY <1>0, RestingType DEF Cmds
  <2>4. cmd' = [cmd EXCEPT !["run"] = rec] /\ torn' = torn /\ Ke!Alive("run") /\ UNCHANGED <<disk, file>>
    BY <1>2, <2>2 DEF Ke!Step, Ke!Upload, Ke!Alive
  <2>5. ~torn' => OneAlive' /\ CopiesAgree' /\ FilesThere' /\ BackpackKnows'
    BY <1>0, <2>3, <2>4, CommandStep
  <2>6. cmd' \in [Ke!Commands -> Cmds]
    BY <1>0, <2>3, <2>4, StepType DEF KeInv
  <2> QED
    BY <1>2, <2>1, <2>4, <2>5, <2>6 DEF Ke!Upload, KeInv, Ke!TypeOK, Cmds
<1>3. CASE Ke!SaveUpload
  <2>1. /\ cmd' = [cmd EXCEPT !["run"] = Ke!Resting] /\ torn' = torn /\ Ke!Alive("run") /\ UNCHANGED disk
        /\ file' = [cmd["run"].st EXCEPT !.mtime = cmd["run"].at]
    BY <1>3 DEF Ke!Step, Ke!Finish, Ke!SaveUpload, Ke!Alive
  <2>2. file' \in Ke!States /\ file'.members = cmd["run"].st.members
    BY <1>0, <2>1 DEF Ke!States, Cmds
  <2>3. cmd' \in [Ke!Commands -> Cmds]
    BY <1>0, <2>1, RestingType, StepType DEF KeInv
  <2>4. Ke!TypeOK'
    BY <1>3, <2>1, <2>2, <2>3 DEF Ke!SaveUpload, KeInv, Ke!TypeOK, Cmds
  <2>5. ~torn => file'.members = file.members
    BY <2>1, <2>2 DEF KeInv, CopiesAgree
  <2>6. ~torn' => OneAlive' /\ CopiesAgree' /\ FilesThere' /\ BackpackKnows'
    BY <1>0, <2>1, <2>5, RestingType, CommandStep
  <2> QED
    BY <2>4, <2>6 DEF KeInv
<1> QED
  BY <1>1, <1>2, <1>3 DEF Ke!RunStep

\* A step of a command that is alive: its record and, while nothing is torn,
\* what it may do to the files.
LEMMA WorkKept ==
  ASSUME KeInv, NEW c \in Ke!Commands, NEW rec \in Cmds, Ke!Step(c, rec), Ke!Alive(c),
         UNCHANGED <<nml, hubNml, wanted>>, disk' \subseteq Isrcs, file' \in Ke!States,
         UNCHANGED keBudget \/ Ke!Cost("faults"),
         ~torn =>
           \/ /\ c # "backpack" /\ disk \subseteq disk'
              /\ file'.members = file.members
              /\ rec.pc = "idle" \/ rec.st.members = cmd[c].st.members
           \/ /\ c = "backpack" /\ rec.pc # "idle"
              /\ rec.st.members \subseteq disk'
              /\ rec.pc # "prune" => file'.members = rec.st.members
              /\ rec.pc = "keep" => rec.got \subseteq disk'
           \/ /\ c = "backpack" /\ rec.pc = "idle" /\ cmd[c].pc # "prune"
              /\ UNCHANGED <<disk, file>>
  PROVE  KeInv'
<1>1. cmd' = [cmd EXCEPT ![c] = rec] /\ torn' = torn
  BY DEF Ke!Step
<1>2. keBudget' \in [{"wishes", "runs", "faults"} -> Nat]
  BY CostType DEF KeInv, Ke!TypeOK
<1>3. cmd' \in [Ke!Commands -> Cmds]
  BY <1>1, StepType DEF KeInv
<1>4. Ke!TypeOK'
  BY <1>1, <1>2, <1>3 DEF KeInv, Ke!TypeOK, Cmds
<1>5. ~torn' => OneAlive' /\ CopiesAgree' /\ FilesThere' /\ BackpackKnows'
  <2> SUFFICES ASSUME ~torn PROVE OneAlive' /\ CopiesAgree' /\ FilesThere' /\ BackpackKnows'
    BY <1>1
  <2> QED
    BY <1>1, CommandStep
<1> QED
  BY <1>4, <1>5 DEF KeInv

\* A command of the user starts.
LEMMA StartKept ==
  ASSUME KeBounds, KeInv, NEW c \in Ke!Commands, NEW rec \in Cmds, ~Ke!Alive(c), Ke!Load(c, rec),
         rec.pc \notin {"idle", "prune", "keep"}, Ke!Cost("runs"),
         UNCHANGED <<nml, hubNml, wanted, disk, file>>
  PROVE  KeInv'
<1>1. /\ cmd' \in [Ke!Commands -> Cmds] /\ torn' \in BOOLEAN
      /\ ~torn' => OneAlive' /\ CopiesAgree' /\ FilesThere' /\ BackpackKnows'
  BY LoadStep
<1>2. keBudget' \in [{"wishes", "runs", "faults"} -> Nat]
  BY CostType DEF KeInv
<1> QED
  BY <1>1, <1>2 DEF KeInv, Ke!TypeOK, Cmds

\* The steps of `kellner backpack` up to the order.
LEMMA BackpackKept ==
  ASSUME KeBounds, KeInv,
         Ke!Backpack \/ Ke!Export \/ Ke!Pruned \/ Ke!Diff \/ \E i \in Isrcs : Ke!Prune(i)
  PROVE  KeInv'
<1> DEFINE bp == cmd["backpack"]
<1>0. /\ "backpack" \in Ke!Commands /\ bp \in Cmds /\ bp.st \in Ke!States
      /\ file \in Ke!States /\ wanted \subseteq Isrcs /\ disk \subseteq Isrcs /\ Ke!Bp = bp
  BY DEF Ke!Commands, KeInv, Ke!TypeOK, Cmds, Ke!Bp
<1>1. CASE Ke!Backpack
  <2>1. /\ [Ke!Resting EXCEPT !.pc = "export"] \in Cmds
        /\ [Ke!Resting EXCEPT !.pc = "export"].pc = "export"
    BY RestingType DEF Cmds
  <2> QED
    BY <1>0, <1>1, <2>1, StartKept DEF Ke!Backpack
<1>2. CASE Ke!Export
  <2>1. bp.pc = "export" /\ Ke!Alive("backpack") /\ UNCHANGED <<nml, hubNml, wanted, disk, file>>
    BY <1>0, <1>2 DEF Ke!Export, Ke!Alive
  <2>2. UNCHANGED keBudget \/ Ke!Cost("faults")
    BY <1>2 DEF Ke!Export
  <2>3. CASE Ke!Finish("backpack")
    BY <1>0, <2>1, <2>2, <2>3, RestingType, WorkKept DEF Ke!Finish
  <2>4. CASE Ke!Step("backpack",
             [bp EXCEPT !.pc = IF bp.st.members \subseteq wanted THEN "diff" ELSE "prune",
                        !.want = wanted, !.todo = bp.st.members \ wanted])
    <3> DEFINE rec == [bp EXCEPT !.pc = IF bp.st.members \subseteq wanted THEN "diff" ELSE "prune",
                                 !.want = wanted, !.todo = bp.st.members \ wanted]
    <3>1. rec \in Cmds /\ rec.pc \in {"diff", "prune"} /\ rec.st = bp.st
      BY <1>0 DEF Cmds, Ke!States
    <3>2. ~torn => bp.st.members \subseteq disk /\ file.members = bp.st.members
      BY <1>0, <2>1 DEF KeInv, BackpackKnows
    <3> HIDE DEF rec
    <3>3. Ke!Step("backpack", rec)
      BY <2>4 DEF rec
    <3> QED
      BY <1>0, <2>1, <2>2, <3>1, <3>2, <3>3, WorkKept
  <2> QED
    BY <1>0, <1>2, <2>3, <2>4 DEF Ke!Export
<1>3. CASE Ke!Pruned
  <2> DEFINE rec == [bp EXCEPT !.pc = "diff"]
  <2>1. rec \in Cmds /\ rec.pc = "diff" /\ rec.st = bp.st
    BY <1>0 DEF Cmds
  <2>2. ~torn => bp.st.members \subseteq disk
    BY <1>0, <1>3 DEF Ke!Pruned, KeInv, BackpackKnows, Ke!Alive
  <2>3. Ke!Step("backpack", rec) /\ file' = bp.st /\ Ke!Alive("backpack")
        /\ UNCHANGED <<nml, hubNml, wanted, disk, keBudget>>
    BY <1>0, <1>3 DEF Ke!Pruned, Ke!Alive
  <2> HIDE DEF rec
  <2> QED
    BY <1>0, <2>1, <2>2, <2>3, WorkKept
<1>4. CASE Ke!Diff
  <2>1. /\ bp.pc = "diff" /\ Ke!Alive("backpack")
        /\ UNCHANGED <<nml, hubNml, wanted, disk, file, keBudget>>
    BY <1>0, <1>4 DEF Ke!Diff, Ke!Alive
  <2>2. CASE Ke!Finish("backpack")
    BY <1>0, <2>1, <2>2, RestingType, WorkKept DEF Ke!Finish
  <2>3. CASE Ke!Step("backpack", [bp EXCEPT !.pc = "order", !.todo = Ke!Missing(bp.st.members)])
    <3> DEFINE rec == [bp EXCEPT !.pc = "order", !.todo = Ke!Missing(bp.st.members)]
    <3>1. Ke!Missing(bp.st.members) \subseteq Isrcs
      BY <1>0 DEF Ke!Missing, Cmds
    <3>2. rec \in Cmds /\ rec.pc = "order" /\ rec.st = bp.st
      BY <1>0, <3>1 DEF Cmds
    <3>3. ~torn => bp.st.members \subseteq disk /\ file.members = bp.st.members
      BY <1>0, <2>1 DEF KeInv, BackpackKnows
    <3> HIDE DEF rec
    <3>4. Ke!Step("backpack", rec)
      BY <2>3 DEF rec
    <3> QED
      BY <1>0, <2>1, <3>2, <3>3, <3>4, WorkKept
  <2> QED
    BY <1>0, <1>4, <2>2, <2>3 DEF Ke!Diff
<1>5. ASSUME NEW i \in Isrcs, Ke!Prune(i) PROVE KeInv'
  <2>1. /\ bp.pc = "prune" /\ Ke!Alive("backpack") /\ UNCHANGED <<nml, hubNml, wanted, file>>
        /\ UNCHANGED keBudget \/ Ke!Cost("faults")
    BY <1>0, <1>5 DEF Ke!Prune, Ke!Alive
  <2>2. ~torn => bp.st.members \subseteq disk
    BY <1>0, <2>1 DEF KeInv, BackpackKnows
  <2>3. CASE /\ disk' = disk \ {i}
             /\ Ke!Step("backpack", [bp EXCEPT !.todo = @ \ {i}, !.st.members = @ \ {i}])
    <3> DEFINE rec == [bp EXCEPT !.todo = @ \ {i}, !.st.members = @ \ {i}]
    <3>1. rec \in Cmds /\ rec.pc = "prune" /\ rec.st.members = bp.st.members \ {i}
      BY <1>0, <2>1 DEF Cmds, Ke!States
    <3> HIDE DEF rec
    <3>2. Ke!Step("backpack", rec)
      BY <2>3 DEF rec
    <3>3. disk' \subseteq Isrcs /\ (~torn => rec.st.members \subseteq disk')
      BY <1>0, <2>2, <2>3, <3>1
    <3> QED
      BY <1>0, <2>1, <3>1, <3>2, <3>3, WorkKept
  <2>4. CASE UNCHANGED disk /\ Ke!Step("backpack", [bp EXCEPT !.todo = @ \ {i}])
    <3> DEFINE rec == [bp EXCEPT !.todo = @ \ {i}]
    <3>1. rec \in Cmds /\ rec.pc = "prune" /\ rec.st = bp.st
      BY <1>0, <2>1 DEF Cmds
    <3> HIDE DEF rec
    <3>2. Ke!Step("backpack", rec)
      BY <2>4 DEF rec
    <3> QED
      BY <1>0, <2>1, <2>2, <2>4, <3>1, <3>2, WorkKept
  <2> QED
    BY <1>0, <1>5, <2>3, <2>4 DEF Ke!Prune
<1> QED
  BY <1>1, <1>2, <1>3, <1>4, <1>5

\* `kellner downloads` starts.
LEMMA DownloadsKept ==
  ASSUME KeBounds, KeInv, NEW S \in SUBSET Isrcs, Ke!Downloads(S) PROVE KeInv'
<1>1. CASE UNCHANGED <<cmd, torn>>
  <2>1. keBudget' \in [{"wishes", "runs", "faults"} -> Nat]
    BY CostType DEF KeInv, Ke!Downloads
  <2>2. Ke!TypeOK'
    BY <1>1, <2>1 DEF Ke!Downloads, KeInv, Ke!TypeOK
  <2> QED
    BY <1>1, <2>2, BesideStep DEF Ke!Downloads, KeInv
<1>2. CASE Ke!Load("downloads", [Ke!Resting EXCEPT !.pc = "order", !.todo = S \ file.downloads])
  <2> DEFINE rec == [Ke!Resting EXCEPT !.pc = "order", !.todo = S \ file.downloads]
  <2>1. rec \in Cmds /\ rec.pc = "order"
    BY RestingType DEF Cmds
  <2> HIDE DEF rec
  <2>2. Ke!Load("downloads", rec) /\ "downloads" \in Ke!Commands
    BY <1>2 DEF rec, Ke!Commands
  <2> QED
    BY <2>1, <2>2, StartKept DEF Ke!Downloads
<1> QED
  BY <1>1, <1>2 DEF Ke!Downloads

\* The steps `backpack` and `downloads` share.
LEMMA FetchKept ==
  ASSUME KeBounds, KeInv, NEW c \in {"backpack", "downloads"}, Ke!FetchStep(c) PROVE KeInv'
<1>0. /\ c \in Ke!Commands /\ cmd[c] \in Cmds /\ cmd[c].st \in Ke!States
      /\ file \in Ke!States /\ disk \subseteq Isrcs
  BY DEF Ke!Commands, KeInv, Ke!TypeOK, Cmds
<1>1. ASSUME Ke!Alive(c), ~torn
      PROVE  /\ c = "downloads" => cmd[c].st.members = file.members
             /\ c = "backpack" /\ cmd[c].pc # "prune" =>
                  cmd[c].st.members = file.members /\ file.members \subseteq disk
             /\ c = "backpack" /\ cmd[c].pc = "keep" => cmd[c].got \subseteq disk
  BY <1>1 DEF KeInv, CopiesAgree, BackpackKnows, Ke!Bp
<1>2. ASSUME NEW rec \in Cmds, Ke!Step(c, rec), Ke!Alive(c), cmd[c].pc # "prune",
             rec.pc \notin {"prune", "keep"}, rec.pc = "idle" \/ rec.st = cmd[c].st,
             (rec.pc # "idle" /\ Ke!Saves(c)) \/ UNCHANGED file,
             UNCHANGED <<nml, hubNml, wanted, disk>>, UNCHANGED keBudget \/ Ke!Cost("faults")
      PROVE  KeInv'
  <2>1. file' \in Ke!States /\ (file' = file \/ (c = "downloads" /\ file' = cmd[c].st))
    BY <1>0, <1>2 DEF Ke!Saves
  <2>2. CASE c = "downloads"
    BY <1>0, <1>1, <1>2, <2>1, <2>2, WorkKept
  <2>3. CASE c = "backpack"
    BY <1>0, <1>1, <1>2, <2>1, <2>3, WorkKept
  <2> QED
    BY <2>2, <2>3
<1>3. CASE Ke!Order(c)
  <2>1. [cmd[c] EXCEPT !.pc = "poll"] \in Cmds /\ [cmd[c] EXCEPT !.pc = "poll"].pc = "poll"
        /\ [cmd[c] EXCEPT !.pc = "poll"].st = cmd[c].st
    BY <1>0 DEF Cmds
  <2> QED
    BY <1>2, <1>3, <2>1, RestingType DEF Ke!Order, Ke!Finish, Ke!Alive
<1>4. ASSUME NEW ready \in SUBSET Isrcs, Ke!PollTracks(c, ready) PROVE KeInv'
  <2> DEFINE rec == [cmd[c] EXCEPT !.pc = "fetch", !.todo = ready]
  <2>1. rec \in Cmds /\ rec.pc = "fetch" /\ rec.st = cmd[c].st
    BY <1>0 DEF Cmds
  <2> HIDE DEF rec
  <2>2. Ke!Step(c, rec)
    BY <1>4 DEF rec, Ke!PollTracks
  <2> QED
    BY <1>2, <1>4, <2>1, <2>2 DEF Ke!PollTracks, Ke!Alive
<1>5. ASSUME NEW i \in Isrcs, Ke!Fetch(c, i) PROVE KeInv'
  <2>1. cmd[c].pc = "fetch" /\ Ke!Alive(c) /\ UNCHANGED <<nml, hubNml, wanted, file>>
    BY <1>5 DEF Ke!Fetch, Ke!Alive
  <2>2. CASE /\ disk' = disk \cup {i} /\ UNCHANGED keBudget
             /\ Ke!Step(c, [cmd[c] EXCEPT !.pc = "keep", !.got = {i}, !.todo = @ \ {i}])
    <3> DEFINE rec == [cmd[c] EXCEPT !.pc = "keep", !.got = {i}, !.todo = @ \ {i}]
    <3>1. rec \in Cmds /\ rec.pc = "keep" /\ rec.st = cmd[c].st /\ rec.got = {i}
      BY <1>0 DEF Cmds
    <3> HIDE DEF rec
    <3>2. Ke!Step(c, rec) /\ disk \subseteq disk' /\ disk' \subseteq Isrcs /\ i \in disk'
      BY <1>0, <2>2 DEF rec
    <3>3. CASE c = "downloads"
      BY <1>0, <2>1, <2>2, <3>1, <3>2, <3>3, WorkKept
    <3>4. CASE c = "backpack"
      BY <1>0, <1>1, <2>1, <2>2, <3>1, <3>2, <3>4, WorkKept
    <3> QED
      BY <3>3, <3>4
  <2>3. CASE UNCHANGED disk /\ Ke!Cost("faults") /\ Ke!Step(c, [cmd[c] EXCEPT !.todo = @ \ {i}])
    <3> DEFINE rec == [cmd[c] EXCEPT !.todo = @ \ {i}]
    <3>1. rec \in Cmds /\ rec.pc = "fetch" /\ rec.st = cmd[c].st
      BY <1>0, <2>1 DEF Cmds
    <3> HIDE DEF rec
    <3>2. Ke!Step(c, rec)
      BY <2>3 DEF rec
    <3> QED
      BY <1>2, <2>1, <2>3, <3>1, <3>2
  <2> QED
    BY <1>5, <2>2, <2>3 DEF Ke!Fetch
<1>6. CASE Ke!Keep(c)
  <2>1. cmd[c].pc = "keep" /\ Ke!Alive(c) /\ UNCHANGED <<nml, hubNml, wanted, disk>>
    BY <1>6 DEF Ke!Keep, Ke!Alive
  <2>2. CASE c = "backpack" /\ Ke!Cost("faults") /\ UNCHANGED file
             /\ Ke!Step(c, [cmd[c] EXCEPT !.pc = "fetch"])
    <3>1. [cmd[c] EXCEPT !.pc = "fetch"] \in Cmds /\ [cmd[c] EXCEPT !.pc = "fetch"].pc = "fetch"
          /\ [cmd[c] EXCEPT !.pc = "fetch"].st = cmd[c].st
      BY <1>0 DEF Cmds
    <3> QED
      BY <1>2, <2>1, <2>2, <3>1
  <2>3. CASE Ke!Step(c, Ke!Kept(c)) /\ file' = Ke!Kept(c).st /\ UNCHANGED keBudget
    <3>1. CASE c = "downloads"
      <4>1. Ke!Kept(c) \in Cmds /\ Ke!Kept(c).pc = "fetch" /\ Ke!Kept(c).st \in Ke!States
            /\ Ke!Kept(c).st.members = cmd[c].st.members
        BY <1>0, <3>1 DEF Ke!Kept, Cmds, Ke!States
      <4> QED
        BY <1>0, <1>1, <2>1, <2>3, <3>1, <4>1, WorkKept
    <3>2. CASE c = "backpack"
      <4>1. Ke!Kept(c) \in Cmds /\ Ke!Kept(c).pc = "fetch" /\ Ke!Kept(c).st \in Ke!States
            /\ Ke!Kept(c).st.members = cmd[c].st.members \cup cmd[c].got
        BY <1>0, <3>2 DEF Ke!Kept, Cmds, Ke!States
      <4> QED
        BY <1>0, <1>1, <2>1, <2>3, <3>2, <4>1, WorkKept
    <3> QED
      BY <3>1, <3>2
  <2> QED
    BY <1>6, <2>2, <2>3 DEF Ke!Keep
<1>7. CASE Ke!Fetched(c)
  BY <1>2, <1>7, RestingType DEF Ke!Fetched, Ke!Finish, Ke!Alive
<1> QED
  BY <1>3, <1>4, <1>5, <1>6, <1>7 DEF Ke!FetchStep

\* Every step keeps the invariant.
LEMMA KeStep == ASSUME KeBounds, KeInv, [Ke!Next]_keVars PROVE KeInv'
<1>1. CASE Ke!TraktorSaves
  <2>1. nml' \in 1..(MaxSaves + 1) /\ UNCHANGED <<disk, file, cmd, torn>>
    BY <1>1 DEF Ke!TraktorSaves, KeInv, Ke!TypeOK, KeBounds
  <2> QED
    BY <1>1, <2>1, BesideStep DEF Ke!TraktorSaves, KeInv, Ke!TypeOK
<1>2. ASSUME NEW i \in Isrcs, Ke!Wish(i) PROVE KeInv'
  <2>1. keBudget' \in [{"wishes", "runs", "faults"} -> Nat] /\ wanted' \subseteq Isrcs
    BY <1>2, CostType DEF Ke!Wish, KeInv, Ke!TypeOK
  <2> QED
    BY <1>2, <2>1, BesideStep DEF Ke!Wish, KeInv, Ke!TypeOK
<1>3. CASE UNCHANGED keVars
  BY <1>3, BesideStep DEF keVars, KeInv, Ke!TypeOK
<1> QED
  BY <1>1, <1>2, <1>3, RunKept, BackpackKept, DownloadsKept, FetchKept, DieStep DEF Ke!Next

\* The invariant of the part.
LEMMA KeInvariant == ASSUME KeBounds PROVE MCFairSpec => []KeInv
<1>1. MCInit => KeInv
  BY KeInit DEF MCInit
<1>2. KeInv /\ [MCNext]_<<part, vars, plVars, keVars, feVars>> => KeInv'
  BY PartSteps, KeStep
<1> QED
  BY <1>1, <1>2, PTL DEF MCFairSpec

\* A member has its file, for every set of tracks and number of saves, wishes,
\* runs and faults.
THEOREM MembersHaveFilesHolds == ASSUME KeBounds PROVE MCFairSpec => []MembersHaveFiles
<1>1. KeInv => MembersHaveFiles
  BY DEF KeInv, FilesThere, MembersHaveFiles, Ke!MembersHaveFiles
<1> QED
  BY <1>1, KeInvariant, PTL

-----------------------------------------------------------------------------
(* Features. *)

FeBounds ==
  /\ Cap \in Nat
  /\ MaxRequests \in Nat /\ MaxClicks \in Nat /\ MaxFails \in Nat
  /\ IsFiniteSet(Handlers) /\ IsFiniteSet(Clis)

\* Answers FreqBlog has billed that the caller has not counted; lookups the
\* budget was checked for.
Owing(c)    == IF paid[c].pc \in {"hit", "queued"} THEN 1 ELSE 0
InFlight(c) == IF paid[c].pc \in {"row", "lookup", "hit", "queued"} THEN 1 ELSE 0
Owers  == {c \in Fe!Callers : Owing(c) = 1}
Flying == {c \in Fe!Callers : InFlight(c) = 1}
Others == Cardinality(Handlers \cup Clis)

BillsCounted == billed = used + lost + Cardinality(Owers)
WithinCap    == used + Cardinality(Flying) <= Cap + Others + blind

\* Who has read a row that others have found features for since is known.
Held == Fe!HeldByReco \cup Fe!HeldByCallers(Fe!Callers)
HoldersKnown == \A t \in Held : feat[t] = "found" => t \in outrun

FeInv == Fe!TypeOK /\ BillsCounted /\ WithinCap /\ HoldersKnown

\* The callers can be counted, in the modules' own words too.
LEMMA CallersFinite ==
  ASSUME FeBounds
  PROVE  /\ IsFiniteSet(Fe!Callers) /\ Others \in Nat /\ Cardinality(Fe!Callers) <= Others + 1
         /\ \A S : Fe!Cardinality(S) = Cardinality(S)
<1>1. IsFiniteSet(Handlers \cup Clis)
  BY FS_Union DEF FeBounds
<1>2. Others \in Nat
  BY <1>1, FS_CardinalityType DEF Others
<1>3. Fe!Callers = (Handlers \cup Clis) \cup {"loop"}
  BY DEF Fe!Callers
<1>4. IsFiniteSet(Fe!Callers) /\ Cardinality(Fe!Callers) <= Others + 1
  <2>1. LET S == Handlers \cup Clis IN
          /\ IsFiniteSet(S \cup {"loop"})
          /\ Cardinality(S \cup {"loop"}) = IF "loop" \in S THEN Cardinality(S) ELSE Cardinality(S) + 1
    BY <1>1, FS_AddElement
  <2> QED
    BY <1>2, <1>3, <2>1 DEF Others
<1>5. \A S : Fe!Cardinality(S) = Cardinality(S)
  BY DEF Fe!Cardinality, Cardinality
<1> QED
  BY <1>2, <1>4, <1>5

\* What is counted are numbers.
LEMMA CountTypes ==
  ASSUME FeBounds, NEW S \in SUBSET Fe!Callers
  PROVE  IsFiniteSet(S) /\ Cardinality(S) \in Nat /\ Cardinality(S) <= Others + 1
<1>1. IsFiniteSet(S) /\ Cardinality(S) <= Cardinality(Fe!Callers)
  BY CallersFinite, FS_Subset
<1>2. Cardinality(S) \in Nat /\ Cardinality(Fe!Callers) \in Nat
  BY <1>1, CallersFinite, FS_CardinalityType
<1> QED
  BY <1>1, <1>2, CallersFinite

\* Two finite sets that agree but on one element.
LEMMA OneElement ==
  ASSUME NEW S, NEW T, NEW c, IsFiniteSet(S), IsFiniteSet(T), S \ {c} = T \ {c}
  PROVE  Cardinality(T) + (IF c \in S THEN 1 ELSE 0) = Cardinality(S) + (IF c \in T THEN 1 ELSE 0)
<1>1. /\ Cardinality(S) \in Nat /\ Cardinality(T) \in Nat
      /\ Cardinality(S \ {c}) = IF c \in S THEN Cardinality(S) - 1 ELSE Cardinality(S)
      /\ Cardinality(T \ {c}) = IF c \in T THEN Cardinality(T) - 1 ELSE Cardinality(T)
  BY FS_CardinalityType, FS_RemoveElement
<1> QED
  BY <1>1

\* The first state.
LEMMA FeInit == ASSUME FeBounds PROVE Fe!Init => FeInv
<1> SUFFICES ASSUME Fe!Init PROVE FeInv
  OBVIOUS
<1>1. Fe!TypeOK /\ HoldersKnown
  BY DEF FeBounds, Fe!Init, Fe!TypeOK, HoldersKnown, Held, Fe!Callers, Fe!Pass, Fe!Away,
         Fe!HeldByReco, Fe!HeldByCallers, Fe!HeldBy
<1>2. Owers = {} /\ Flying = {}
  BY DEF Fe!Init, Fe!Away, Owers, Flying, Owing, InFlight
<1>3. BillsCounted /\ WithinCap
  BY <1>2, FS_EmptySet, CallersFinite DEF Fe!Init, BillsCounted, WithinCap, FeBounds
<1> QED
  BY <1>1, <1>3 DEF FeInv

\* A budget that is drawn on stays a budget.
LEMMA DrawType ==
  ASSUME Fe!TypeOK, NEW b \in {"asks", "clicks", "fails"}, Fe!Draw(b)
  PROVE  feBudget' \in [{"asks", "clicks", "fails"} -> Nat]
BY DEF Fe!TypeOK, Fe!Draw

\* What writing a row does.
LEMMA PutType ==
  ASSUME Fe!TypeOK, NEW t \in Songs, NEW word \in {"missed", "found"}, NEW others, Fe!Put(t, word, others)
  PROVE  /\ feat' \in [Songs -> {"none", "missed", "found"}] /\ outrun' \subseteq Songs
         /\ feat' = [feat EXCEPT ![t] = word]
         /\ \A u \in Songs : u # t => (u \in outrun' <=> u \in outrun)
         /\ word = "found" /\ t \in others => t \in outrun'
BY DEF Fe!TypeOK, Fe!Put

PaidRecords ==
  [pc : {"idle", "budget", "row", "lookup", "hit", "queued", "keepHit", "keepMiss", "clear"},
   ids : SUBSET Songs, todo : SUBSET Songs, at : SUBSET Songs]

\* A caller that goes on leaves the other alone.
LEMMA GoesType ==
  ASSUME Fe!TypeOK, NEW c \in Fe!Callers, NEW rec \in PaidRecords, Fe!Goes(c, rec)
  PROVE  /\ paid' \in [Fe!Callers -> PaidRecords]
         /\ paid'[c] = rec /\ \A d \in Fe!Callers \ {c} : paid'[d] = paid[d]
BY DEF Fe!TypeOK, Fe!Goes, PaidRecords

\* It goes on to another step with the song it has.
LEMMA ToType ==
  ASSUME Fe!TypeOK, NEW c \in Fe!Callers,
         NEW pc \in {"lookup", "hit", "queued", "keepHit", "keepMiss", "clear"}, Fe!To(c, pc)
  PROVE  /\ paid' \in [Fe!Callers -> PaidRecords]
         /\ paid'[c].pc = pc /\ paid'[c].at = paid[c].at
         /\ \A d \in Fe!Callers \ {c} : paid'[d] = paid[d]
<1>1. paid[c] \in PaidRecords
  BY DEF Fe!TypeOK, PaidRecords
<1>2. /\ [paid[c] EXCEPT !.pc = pc] \in PaidRecords
      /\ [paid[c] EXCEPT !.pc = pc].pc = pc /\ [paid[c] EXCEPT !.pc = pc].at = paid[c].at
  BY <1>1 DEF PaidRecords
<1> QED
  BY <1>2, GoesType DEF Fe!To

\* It lets the song go.
LEMMA NextSongType ==
  ASSUME Fe!TypeOK, NEW c \in Fe!Callers, Fe!NextSong(c)
  PROVE  /\ paid' \in [Fe!Callers -> PaidRecords]
         /\ paid'[c].pc = "budget" /\ paid'[c].at = {}
         /\ \A d \in Fe!Callers \ {c} : paid'[d] = paid[d]
<1> DEFINE rec == [paid[c] EXCEPT !.pc = "budget", !.at = {}]
<1>1. paid[c] \in PaidRecords
  BY DEF Fe!TypeOK, PaidRecords
<1>2. rec \in PaidRecords /\ rec.pc = "budget" /\ rec.at = {}
  BY <1>1 DEF PaidRecords
<1> QED
  BY <1>2, GoesType DEF Fe!NextSong

\* Its batch ends.
LEMMA AwayType ==
  ASSUME Fe!TypeOK, NEW c \in Fe!Callers, Fe!Goes(c, Fe!Away)
  PROVE  /\ paid' \in [Fe!Callers -> PaidRecords]
         /\ paid'[c].pc = "idle" /\ \A d \in Fe!Callers \ {c} : paid'[d] = paid[d]
<1>1. Fe!Away \in PaidRecords /\ Fe!Away.pc = "idle"
  BY DEF Fe!Away, PaidRecords
<1> QED
  BY <1>1, GoesType

\* The song that is looked at next is one of those left.
LEMMA CheckBudgetEffect ==
  ASSUME FeBounds, Fe!TypeOK, NEW c \in Fe!Callers, Fe!CheckBudget(c)
  PROVE  /\ paid' \in [Fe!Callers -> PaidRecords]
         /\ \A d \in Fe!Callers \ {c} : paid'[d] = paid[d]
         /\ paid[c].pc = "budget"
         /\ \/ paid'[c].pc \in {"clear", "idle"}
            \/ used < Cap /\ paid'[c].pc = "row"
<1> DEFINE t == CHOOSE t \in Songs : paid[c].todo = {} \/ t \in paid[c].todo
<1>1. paid[c].todo # {} => t \in Songs
  <2>1. paid[c].todo \subseteq Songs
    BY DEF Fe!TypeOK
  <2> QED
    BY <2>1
<1> HIDE DEF t
<1>2. /\ paid[c].pc = "budget"
      /\ IF paid[c].todo = {} THEN Fe!To(c, "clear")
         ELSE IF used >= Cap THEN Fe!Goes(c, Fe!Away)
         ELSE Fe!Goes(c, [paid[c] EXCEPT !.pc = "row", !.todo = @ \ {t}, !.at = {t}])
  BY DEF Fe!CheckBudget, t
<1>3. CASE Fe!To(c, "clear")
  BY <1>2, <1>3, ToType
<1>4. CASE Fe!Goes(c, Fe!Away)
  BY <1>2, <1>4, AwayType
<1>5. CASE /\ paid[c].todo # {} /\ used < Cap
           /\ Fe!Goes(c, [paid[c] EXCEPT !.pc = "row", !.todo = @ \ {t}, !.at = {t}])
  <2> DEFINE rec == [paid[c] EXCEPT !.pc = "row", !.todo = @ \ {t}, !.at = {t}]
  <2>1. paid[c] \in PaidRecords
    BY DEF Fe!TypeOK, PaidRecords
  <2>2. rec \in PaidRecords /\ rec.pc = "row"
    BY <1>1, <1>5, <2>1 DEF PaidRecords
  <2> QED
    BY <1>2, <1>5, <2>2, GoesType
<1>6. used < Cap \/ used >= Cap
  BY DEF FeBounds, Fe!TypeOK
<1> QED
  BY <1>2, <1>3, <1>4, <1>5, <1>6

\* What a failing statement of a caller does.
LEMMA DbFailsEffect ==
  ASSUME Fe!TypeOK, NEW c \in Fe!Callers, Fe!DbFails(c)
  PROVE  /\ paid' \in [Fe!Callers -> PaidRecords]
         /\ \A d \in Fe!Callers \ {c} : paid'[d] = paid[d]
         /\ paid'[c].pc \in {"idle", "budget", "row"}
         /\ \/ /\ paid[c].pc = "budget" /\ paid'[c].pc = "row"
               /\ blind' = blind + 1 /\ lost' = lost
            \/ /\ paid[c].pc \in {"hit", "queued"} /\ paid'[c].pc = "idle"
               /\ blind' = blind /\ lost' = lost + 1
            \/ /\ paid[c].pc \in {"row", "keepHit", "keepMiss", "clear"}
               /\ paid'[c].pc \in {"idle", "budget"}
               /\ blind' = blind /\ lost' = lost
<1>1. CASE /\ paid[c].pc = "budget"
           /\ \E t \in paid[c].todo :
                Fe!Goes(c, [paid[c] EXCEPT !.pc = "row", !.todo = @ \ {t}, !.at = {t}])
           /\ blind' = blind + 1 /\ UNCHANGED lost
  <2>1. PICK t \in paid[c].todo :
          Fe!Goes(c, [paid[c] EXCEPT !.pc = "row", !.todo = @ \ {t}, !.at = {t}])
    BY <1>1
  <2> DEFINE rec == [paid[c] EXCEPT !.pc = "row", !.todo = @ \ {t}, !.at = {t}]
  <2>2. paid[c] \in PaidRecords
    BY DEF Fe!TypeOK, PaidRecords
  <2>3. rec \in PaidRecords /\ rec.pc = "row"
    BY <2>2 DEF PaidRecords
  <2> QED
    BY <1>1, <2>1, <2>3, GoesType
<1>2. CASE paid[c].pc = "row" /\ Fe!NextSong(c) /\ UNCHANGED <<lost, blind>>
  BY <1>2, NextSongType
<1>3. CASE paid[c].pc \in {"hit", "queued"} /\ Fe!Goes(c, Fe!Away) /\ lost' = lost + 1 /\ UNCHANGED blind
  BY <1>3, AwayType
<1>4. CASE /\ paid[c].pc \in {"keepHit", "keepMiss", "clear"} /\ Fe!Goes(c, Fe!Away)
           /\ UNCHANGED <<lost, blind>>
  BY <1>4, AwayType
<1> QED
  BY <1>1, <1>2, <1>3, <1>4 DEF Fe!DbFails

\* Every step keeps the types.
LEMMA FeTypeStep == ASSUME FeBounds, Fe!TypeOK, [Fe!Next]_feVars PROVE Fe!TypeOK'
<1>1. ASSUME NEW t \in Songs, Fe!Request(t) PROVE Fe!TypeOK'
  BY <1>1, DrawType DEF Fe!Request, Fe!TypeOK
<1>2. ASSUME NEW t \in Songs, Fe!FromMusicApi(t) PROVE Fe!TypeOK'
  BY <1>2, PutType DEF Fe!FromMusicApi, Fe!TypeOK
<1>3. CASE Fe!ReadBatch
  BY <1>3 DEF Fe!ReadBatch, Fe!TypeOK, Fe!NextPass, Fe!Pass
<1>4. CASE Fe!RecoAnswers
  BY <1>4 DEF Fe!RecoAnswers, Fe!TypeOK
<1>5. CASE Fe!RecoFails
  BY <1>5, DrawType DEF Fe!RecoFails, Fe!TypeOK, Fe!NextPass, Fe!Pass
<1>6. ASSUME NEW t \in Songs, Fe!RecoStore(t) PROVE Fe!TypeOK'
  <2>1. feat' \in [Songs -> {"none", "missed", "found"}] /\ outrun' \subseteq Songs
    BY <1>6, PutType DEF Fe!RecoStore
  <2> QED
    BY <1>6, <2>1 DEF Fe!RecoStore, Fe!TypeOK
<1>7. CASE Fe!RecoDrop
  BY <1>7 DEF Fe!RecoDrop, Fe!TypeOK
<1>8. CASE Fe!RecoDone
  BY <1>8 DEF Fe!RecoDone, Fe!TypeOK, Fe!NextPass, Fe!Pass
<1>9. CASE Fe!Restart
  <2>1. PICK gone \in {{"loop"} \cup Handlers} \cup {{c} : c \in Clis} :
          /\ lost' = lost + Fe!Cardinality({c \in gone : paid[c].pc \in {"hit", "queued"}})
          /\ paid' = [c \in Fe!Callers |-> IF c \in gone THEN Fe!Away ELSE paid[c]]
          /\ IF "loop" \in gone THEN reco' = Fe!Pass("read", TRUE) /\ keyed' \in BOOLEAN
             ELSE UNCHANGED <<reco, keyed>>
    BY <1>9 DEF Fe!Restart
  <2>2. gone \subseteq Fe!Callers
    BY <2>1 DEF Fe!Callers
  <2>3. {c \in gone : paid[c].pc \in {"hit", "queued"}} \in SUBSET Fe!Callers
    BY <2>2
  <2>4. Cardinality({c \in gone : paid[c].pc \in {"hit", "queued"}}) \in Nat
    BY <2>3, CallersFinite, FS_Subset, FS_CardinalityType
  <2>5. lost' \in Nat
    BY <2>1, <2>4, CallersFinite DEF Fe!TypeOK
  <2>6. paid' \in [Fe!Callers -> PaidRecords]
    BY <2>1 DEF Fe!TypeOK, Fe!Away, PaidRecords
  <2> QED
    <3>1. UNCHANGED <<feat, request, used, billed, blind, outrun>> /\ Fe!Draw("fails")
      BY <1>9 DEF Fe!Restart
    <3>2. \/ reco' = reco /\ keyed' = keyed
          \/ reco' = Fe!Pass("read", TRUE) /\ keyed' \in BOOLEAN
      BY <2>1
    <3>3. keyed' \in BOOLEAN
      BY <3>2 DEF Fe!TypeOK
    <3>4. reco' \in [pc : {"read", "ask", "store", "drop"}, first : BOOLEAN,
                     todo : SUBSET Songs, hits : SUBSET Songs, at : SUBSET Songs]
      <4>1. CASE reco' = reco
        BY <4>1 DEF Fe!TypeOK
      <4>2. CASE reco' = Fe!Pass("read", TRUE)
        BY <4>2 DEF Fe!Pass
      <4> QED
        BY <3>2, <4>1, <4>2
    <3>5. feBudget' \in [{"asks", "clicks", "fails"} -> Nat]
      BY <3>1, DrawType
    <3> QED
      BY <2>5, <2>6, <3>1, <3>3, <3>4, <3>5 DEF Fe!TypeOK, PaidRecords
<1>10. ASSUME NEW c \in Handlers \cup Clis, NEW ids \in SUBSET Songs, Fe!Click(c, ids)
       PROVE  Fe!TypeOK'
  BY <1>10, DrawType DEF Fe!Click, Fe!TypeOK, Fe!Goes, Fe!Callers
<1>11. CASE Fe!ReadRequests
  <2>1. {t \in request : feat[t] = "missed"} \subseteq Songs
    BY DEF Fe!TypeOK
  <2> QED
    BY <1>11, <2>1 DEF Fe!ReadRequests, Fe!TypeOK, Fe!Goes, Fe!Callers
<1>12. ASSUME NEW c \in Fe!Callers, Fe!CheckBudget(c) PROVE Fe!TypeOK'
  BY <1>12, CheckBudgetEffect DEF Fe!CheckBudget, Fe!TypeOK, PaidRecords
<1>13. ASSUME NEW c \in Fe!Callers, Fe!ReadRow(c) PROVE Fe!TypeOK'
  BY <1>13, NextSongType, ToType DEF Fe!ReadRow, Fe!TypeOK, PaidRecords
<1>14. ASSUME NEW c \in Fe!Callers, Fe!FreqAnswers(c) PROVE Fe!TypeOK'
  <2>1. PICK pc \in {"hit", "queued", "keepMiss"} : Fe!To(c, pc)
    BY <1>14 DEF Fe!FreqAnswers
  <2>2. paid' \in [Fe!Callers -> PaidRecords]
    BY <2>1, ToType
  <2> QED
    BY <1>14, <2>2 DEF Fe!FreqAnswers, Fe!TypeOK, PaidRecords
<1>15. ASSUME NEW c \in Fe!Callers, Fe!FreqFails(c) PROVE Fe!TypeOK'
  BY <1>15, DrawType, AwayType DEF Fe!FreqFails, Fe!TypeOK, PaidRecords
<1>16. ASSUME NEW c \in Fe!Callers, Fe!AddUsage(c) PROVE Fe!TypeOK'
  <2>1. PICK pc \in {"keepHit", "keepMiss"} : Fe!To(c, pc)
    BY <1>16 DEF Fe!AddUsage
  <2>2. paid' \in [Fe!Callers -> PaidRecords]
    BY <2>1, ToType
  <2> QED
    BY <1>16, <2>2 DEF Fe!AddUsage, Fe!TypeOK, PaidRecords
<1>17. ASSUME NEW c \in Fe!Callers, Fe!FreqStore(c) PROVE Fe!TypeOK'
  <2>1. PICK t \in paid[c].at :
          Fe!Put(t, IF paid[c].pc = "keepHit" THEN "found" ELSE "missed",
                 Fe!HeldByReco \cup Fe!HeldByCallers(Fe!Callers \ {c}))
    BY <1>17 DEF Fe!FreqStore
  <2>2. t \in Songs
    BY DEF Fe!TypeOK
  <2>3. feat' \in [Songs -> {"none", "missed", "found"}] /\ outrun' \subseteq Songs
    BY <2>1, <2>2, PutType
  <2> QED
    BY <1>17, <2>3, NextSongType DEF Fe!FreqStore, Fe!TypeOK, PaidRecords
<1>18. ASSUME NEW c \in Fe!Callers, Fe!ClearRequest(c) PROVE Fe!TypeOK'
  <2>1. CASE Fe!Goes(c, Fe!Away) /\ UNCHANGED request
    BY <1>18, <2>1, AwayType DEF Fe!ClearRequest, Fe!TypeOK, PaidRecords
  <2>2. ASSUME NEW t \in paid[c].ids, request' = request \ {t},
               Fe!Goes(c, [paid[c] EXCEPT !.ids = @ \ {t}])
        PROVE  Fe!TypeOK'
    <3>1. [paid[c] EXCEPT !.ids = @ \ {t}] \in PaidRecords
      BY DEF Fe!TypeOK, PaidRecords
    <3> QED
      BY <1>18, <2>2, <3>1, GoesType DEF Fe!ClearRequest, Fe!TypeOK, PaidRecords
  <2> QED
    BY <1>18, <2>1, <2>2 DEF Fe!ClearRequest
<1>19. ASSUME NEW c \in Fe!Callers, Fe!DbFails(c) PROVE Fe!TypeOK'
  <2>1. paid' \in [Fe!Callers -> PaidRecords] /\ lost' \in Nat /\ blind' \in Nat
    BY <1>19, DbFailsEffect DEF Fe!TypeOK
  <2> QED
    BY <1>19, <2>1, DrawType DEF Fe!DbFails, Fe!TypeOK, PaidRecords
<1>20. CASE UNCHANGED feVars
  BY <1>20 DEF feVars, Fe!TypeOK
<1> QED
  BY <1>1, <1>2, <1>3, <1>4, <1>5, <1>6, <1>7, <1>8, <1>9, <1>10, <1>11, <1>12, <1>13,
     <1>14, <1>15, <1>16, <1>17, <1>18, <1>19, <1>20
  DEF Fe!Next, Fe!RecoStep, Fe!CallerStep

\* One caller moves: its billed answers are counted or lost, and it looks no
\* song up that the budget was not checked for, or not seen to be spent.
LEMMA CallerBills ==
  ASSUME FeBounds, FeInv, Fe!TypeOK', NEW c \in Fe!Callers,
         \A d \in Fe!Callers \ {c} : paid'[d] = paid[d],
         billed' + used + lost + Owing(c) = billed + used' + lost' + Owing(c)',
         \/ used' + InFlight(c)' <= used + InFlight(c) /\ blind' = blind
         \/ used < Cap /\ used' = used /\ blind' = blind
         \/ used' = used /\ blind' = blind + 1
  PROVE  BillsCounted' /\ WithinCap'
<1>1. /\ used \in Nat /\ used' \in Nat /\ lost \in Nat /\ lost' \in Nat
      /\ billed \in Nat /\ billed' \in Nat /\ blind \in Nat /\ blind' \in Nat
  BY DEF FeInv, Fe!TypeOK
<1>2. Owing(c) \in 0..1 /\ Owing(c)' \in 0..1 /\ InFlight(c) \in 0..1 /\ InFlight(c)' \in 0..1
  BY DEF Owing, InFlight
<1>3. /\ Cardinality(Owers) \in Nat /\ Cardinality(Flying) \in Nat
      /\ Cardinality(Owers') \in Nat /\ Cardinality(Flying') \in Nat
      /\ IsFiniteSet(Owers) /\ IsFiniteSet(Owers') /\ IsFiniteSet(Flying) /\ IsFiniteSet(Flying')
      /\ Cardinality(Flying') <= Others + 1 /\ Others \in Nat
  <2>1. /\ Owers \in SUBSET Fe!Callers /\ Owers' \in SUBSET Fe!Callers
        /\ Flying \in SUBSET Fe!Callers /\ Flying' \in SUBSET Fe!Callers
    BY DEF Owers, Flying, Fe!Callers
  <2> QED
    BY <2>1, CountTypes, CallersFinite
<1>4. Owers \ {c} = Owers' \ {c} /\ Flying \ {c} = Flying' \ {c}
  BY DEF Owers, Flying, Owing, InFlight
<1>5. /\ Owing(c) = (IF c \in Owers THEN 1 ELSE 0) /\ Owing(c)' = (IF c \in Owers' THEN 1 ELSE 0)
      /\ InFlight(c) = (IF c \in Flying THEN 1 ELSE 0)
      /\ InFlight(c)' = (IF c \in Flying' THEN 1 ELSE 0)
  BY <1>2 DEF Owers, Flying
<1>6. /\ Cardinality(Owers') + Owing(c) = Cardinality(Owers) + Owing(c)'
      /\ Cardinality(Flying') + InFlight(c) = Cardinality(Flying) + InFlight(c)'
  BY <1>3, <1>4, <1>5, OneElement
<1>7. BillsCounted'
  <2>1. billed = used + lost + Cardinality(Owers)
    BY DEF FeInv, BillsCounted
  <2>2. Cardinality(Owers') + Owing(c) = Cardinality(Owers) + Owing(c)'
    BY <1>6
  <2>3. billed' + used + lost + Owing(c) = billed + used' + lost' + Owing(c)'
    OBVIOUS
  <2>4. billed' = used' + lost' + Cardinality(Owers')
    BY <1>1, <1>2, <1>3, <2>1, <2>2, <2>3
  <2> QED
    BY <2>4 DEF BillsCounted
<1>8. WithinCap'
  <2>1. used + Cardinality(Flying) <= Cap + Others + blind
    BY DEF FeInv, WithinCap
  <2>2. used' + Cardinality(Flying') <= Cap + Others + blind'
    BY <1>1, <1>2, <1>3, <1>6, <2>1 DEF FeBounds
  <2> QED
    BY <2>2 DEF WithinCap, Others
<1> QED
  BY <1>7, <1>8

\* Every step keeps the bills.
LEMMA BillsStep ==
  ASSUME FeBounds, FeInv, Fe!TypeOK', [Fe!Next]_feVars
  PROVE  BillsCounted' /\ WithinCap'
<1>1. used \in Nat /\ billed \in Nat /\ lost \in Nat
  BY DEF FeInv, Fe!TypeOK
<1>2. ASSUME UNCHANGED <<used, billed, lost, blind, paid>> PROVE BillsCounted' /\ WithinCap'
  BY <1>2 DEF FeInv, BillsCounted, WithinCap, Owers, Flying, Owing, InFlight, Others
<1>3. ASSUME NEW c \in Fe!Callers, Fe!CheckBudget(c) PROVE BillsCounted' /\ WithinCap'
  <2>1. UNCHANGED <<used, billed, lost, blind>>
    BY <1>3 DEF Fe!CheckBudget
  <2>2. Owing(c) = 0 /\ Owing(c)' = 0 /\ InFlight(c) = 0
    BY <1>3, CheckBudgetEffect DEF FeInv, Owing, InFlight
  <2>3. InFlight(c)' = 0 \/ used < Cap
    BY <1>3, CheckBudgetEffect DEF FeInv, InFlight
  <2> QED
    BY <1>1, <1>3, <2>1, <2>2, <2>3, CheckBudgetEffect, CallerBills DEF FeInv
<1>4. ASSUME NEW c \in Fe!Callers, Fe!ReadRow(c) PROVE BillsCounted' /\ WithinCap'
  <2>1. UNCHANGED <<used, billed, lost, blind>> /\ paid[c].pc = "row"
    BY <1>4 DEF Fe!ReadRow
  <2>2. /\ paid'[c].pc \in {"budget", "lookup"}
        /\ \A d \in Fe!Callers \ {c} : paid'[d] = paid[d]
    BY <1>4, NextSongType, ToType DEF Fe!ReadRow, FeInv
  <2>3. Owing(c) = 0 /\ Owing(c)' = 0 /\ InFlight(c) = 1 /\ InFlight(c)' \in 0..1
    BY <2>1, <2>2 DEF Owing, InFlight
  <2> QED
    BY <1>1, <2>1, <2>2, <2>3, CallerBills
<1>5. ASSUME NEW c \in Fe!Callers, Fe!FreqAnswers(c) PROVE BillsCounted' /\ WithinCap'
  <2>1. UNCHANGED <<used, lost, blind>> /\ paid[c].pc = "lookup"
    BY <1>5 DEF Fe!FreqAnswers
  <2>2. PICK pc \in {"hit", "queued", "keepMiss"} :
          Fe!To(c, pc) /\ billed' = IF pc = "keepMiss" THEN billed ELSE billed + 1
    BY <1>5 DEF Fe!FreqAnswers
  <2>3. paid'[c].pc = pc /\ \A d \in Fe!Callers \ {c} : paid'[d] = paid[d]
    BY <2>2, ToType DEF FeInv
  <2>4. /\ Owing(c) = 0 /\ InFlight(c) = 1
        /\ Owing(c)' = IF pc = "keepMiss" THEN 0 ELSE 1
        /\ InFlight(c)' = IF pc = "keepMiss" THEN 0 ELSE 1
    BY <2>1, <2>3 DEF Owing, InFlight
  <2> QED
    BY <1>1, <2>1, <2>2, <2>3, <2>4, CallerBills
<1>6. ASSUME NEW c \in Fe!Callers, Fe!FreqFails(c) PROVE BillsCounted' /\ WithinCap'
  <2>1. used' = used /\ blind' = blind /\ paid[c].pc = "lookup" /\ Fe!Goes(c, Fe!Away)
    BY <1>6 DEF Fe!FreqFails
  <2>2. PICK n \in 0..1 : billed' = billed + n /\ lost' = lost + n
    BY <1>6 DEF Fe!FreqFails
  <2>3. paid'[c].pc = "idle" /\ \A d \in Fe!Callers \ {c} : paid'[d] = paid[d]
    BY <2>1, AwayType DEF FeInv
  <2>4. Owing(c) = 0 /\ InFlight(c) = 1 /\ Owing(c)' = 0 /\ InFlight(c)' = 0
    BY <2>1, <2>3 DEF Owing, InFlight
  <2> QED
    BY <1>1, <2>1, <2>2, <2>3, <2>4, CallerBills
<1>7. ASSUME NEW c \in Fe!Callers, Fe!AddUsage(c) PROVE BillsCounted' /\ WithinCap'
  <2>1. /\ used' = used + 1 /\ UNCHANGED <<billed, lost, blind>>
        /\ paid[c].pc \in {"hit", "queued"}
    BY <1>7 DEF Fe!AddUsage
  <2>2. PICK pc \in {"keepHit", "keepMiss"} : Fe!To(c, pc)
    BY <1>7 DEF Fe!AddUsage
  <2>3. paid'[c].pc = pc /\ \A d \in Fe!Callers \ {c} : paid'[d] = paid[d]
    BY <2>2, ToType DEF FeInv
  <2>4. Owing(c) = 1 /\ InFlight(c) = 1 /\ Owing(c)' = 0 /\ InFlight(c)' = 0
    BY <2>1, <2>3 DEF Owing, InFlight
  <2> QED
    BY <1>1, <2>1, <2>3, <2>4, CallerBills
<1>8. ASSUME NEW c \in Fe!Callers, UNCHANGED <<used, billed, lost, blind>>,
             \A d \in Fe!Callers \ {c} : paid'[d] = paid[d],
             paid[c].pc \in {"idle", "keepHit", "keepMiss", "clear"},
             paid'[c].pc \in {"idle", "budget", "clear"}
      PROVE  BillsCounted' /\ WithinCap'
  <2>1. Owing(c) = 0 /\ InFlight(c) = 0 /\ Owing(c)' = 0 /\ InFlight(c)' = 0
    BY <1>8 DEF Owing, InFlight
  <2> QED
    BY <1>1, <1>8, <2>1, CallerBills
<1>9. CASE Fe!Restart
  <2>1. PICK gone \in {{"loop"} \cup Handlers} \cup {{c} : c \in Clis} :
          /\ lost' = lost + Fe!Cardinality({c \in gone : paid[c].pc \in {"hit", "queued"}})
          /\ paid' = [c \in Fe!Callers |-> IF c \in gone THEN Fe!Away ELSE paid[c]]
    BY <1>9 DEF Fe!Restart
  <2> DEFINE owed == {c \in gone : paid[c].pc \in {"hit", "queued"}}
  <2>2. gone \subseteq Fe!Callers
    BY <2>1 DEF Fe!Callers
  <2>3. UNCHANGED <<used, billed, blind>>
    BY <1>9 DEF Fe!Restart
  <2>4. owed = Owers \cap gone
    <3>1. \A c \in Fe!Callers : c \in Owers <=> paid[c].pc \in {"hit", "queued"}
      BY DEF Owers, Owing
    <3> QED
      BY <2>2, <3>1
  <2>5. Owers' = Owers \ gone /\ Flying' \in SUBSET Flying
    BY <2>1 DEF Owers, Flying, Owing, InFlight, Fe!Away
  <2>6. /\ IsFiniteSet(Owers) /\ IsFiniteSet(Flying)
        /\ Cardinality(Owers) \in Nat /\ Cardinality(Flying) \in Nat /\ Others \in Nat
    <3>1. Owers \in SUBSET Fe!Callers /\ Flying \in SUBSET Fe!Callers
      BY DEF Owers, Flying
    <3> QED
      BY <3>1, CountTypes, CallersFinite
  <2>7. /\ Cardinality(Owers \ gone) = Cardinality(Owers) - Cardinality(Owers \cap gone)
        /\ Cardinality(Owers \cap gone) \in Nat
    BY <2>6, FS_Difference, FS_Subset, FS_CardinalityType
  <2>8. Cardinality(Flying') <= Cardinality(Flying) /\ Cardinality(Flying') \in Nat
    BY <2>5, <2>6, FS_Subset, FS_CardinalityType
  <2>9. lost' = lost + Cardinality(Owers \cap gone)
    BY <2>1, <2>4, CallersFinite
  <2> HIDE DEF owed
  <2>10. billed' = used' + lost' + Cardinality(Owers')
    BY <1>1, <2>3, <2>5, <2>6, <2>7, <2>9 DEF FeInv, BillsCounted
  <2>11. used' + Cardinality(Flying') <= Cap + Others + blind'
    BY <1>1, <2>3, <2>6, <2>8 DEF FeInv, WithinCap, FeBounds, Fe!TypeOK
  <2> QED
    BY <2>10, <2>11 DEF BillsCounted, WithinCap, Others
<1>10. ASSUME NEW c \in Handlers \cup Clis, NEW ids \in SUBSET Songs, Fe!Click(c, ids)
       PROVE  BillsCounted' /\ WithinCap'
  <2> DEFINE rec == [pc |-> "budget", ids |-> {}, todo |-> ids, at |-> {}]
  <2>1. rec \in PaidRecords /\ c \in Fe!Callers
    BY DEF PaidRecords, Fe!Callers
  <2> QED
    BY <1>8, <1>10, <2>1, GoesType DEF Fe!Click, FeInv
<1>11. CASE Fe!ReadRequests
  <2> DEFINE ids == {t \in request : feat[t] = "missed"}
             rec == [pc |-> "budget", ids |-> ids, todo |-> ids, at |-> {}]
  <2>1. rec \in PaidRecords /\ "loop" \in Fe!Callers
    BY DEF PaidRecords, Fe!Callers, FeInv, Fe!TypeOK
  <2> QED
    BY <1>8, <1>11, <2>1, GoesType DEF Fe!ReadRequests, FeInv
<1>12. ASSUME NEW c \in Fe!Callers, Fe!FreqStore(c) PROVE BillsCounted' /\ WithinCap'
  BY <1>8, <1>12, NextSongType DEF Fe!FreqStore, FeInv
<1>13. ASSUME NEW c \in Fe!Callers, Fe!ClearRequest(c) PROVE BillsCounted' /\ WithinCap'
  <2>1. CASE Fe!Goes(c, Fe!Away)
    BY <1>8, <1>13, <2>1, AwayType DEF Fe!ClearRequest, FeInv
  <2>2. ASSUME NEW t \in paid[c].ids, Fe!Goes(c, [paid[c] EXCEPT !.ids = @ \ {t}])
        PROVE  BillsCounted' /\ WithinCap'
    <3> DEFINE rec == [paid[c] EXCEPT !.ids = @ \ {t}]
    <3>1. paid[c] \in PaidRecords
      BY DEF FeInv, Fe!TypeOK, PaidRecords
    <3>2. rec \in PaidRecords /\ rec.pc = paid[c].pc
      BY <3>1 DEF PaidRecords
    <3>3. paid'[c].pc = paid[c].pc /\ \A d \in Fe!Callers \ {c} : paid'[d] = paid[d]
      BY <2>2, <3>2, GoesType DEF FeInv
    <3> QED
      BY <1>8, <1>13, <3>3 DEF Fe!ClearRequest
  <2> QED
    BY <1>13, <2>1, <2>2 DEF Fe!ClearRequest
<1>14. Fe!RecoStep => UNCHANGED <<used, billed, lost, blind, paid>>
  BY DEF Fe!RecoStep, Fe!ReadBatch, Fe!RecoAnswers, Fe!RecoStore, Fe!RecoDrop, Fe!RecoDone
<1>15. Fe!RecoFails => UNCHANGED <<used, billed, lost, blind, paid>>
  BY DEF Fe!RecoFails
<1>16. \A t \in Songs : Fe!Request(t) \/ Fe!FromMusicApi(t) => UNCHANGED <<used, billed, lost, blind, paid>>
  BY DEF Fe!Request, Fe!FromMusicApi
<1>17. UNCHANGED feVars => UNCHANGED <<used, billed, lost, blind, paid>>
  BY DEF feVars
<1>18. ASSUME NEW c \in Fe!Callers, Fe!DbFails(c) PROVE BillsCounted' /\ WithinCap'
  <2>1. UNCHANGED <<used, billed>>
    BY <1>18 DEF Fe!DbFails
  <2>2. /\ \A d \in Fe!Callers \ {c} : paid'[d] = paid[d]
        /\ \/ /\ paid[c].pc = "budget" /\ paid'[c].pc = "row"
              /\ blind' = blind + 1 /\ lost' = lost
           \/ /\ paid[c].pc \in {"hit", "queued"} /\ paid'[c].pc = "idle"
              /\ blind' = blind /\ lost' = lost + 1
           \/ /\ paid[c].pc \in {"row", "keepHit", "keepMiss", "clear"}
              /\ paid'[c].pc \in {"idle", "budget"}
              /\ blind' = blind /\ lost' = lost
    BY <1>18, DbFailsEffect DEF FeInv
  <2>3. \/ Owing(c) = 0 /\ Owing(c)' = 0 /\ blind' = blind + 1 /\ lost' = lost
        \/ /\ Owing(c) = 1 /\ Owing(c)' = 0 /\ InFlight(c) = 1 /\ InFlight(c)' = 0
           /\ blind' = blind /\ lost' = lost + 1
        \/ /\ Owing(c) = 0 /\ Owing(c)' = 0 /\ InFlight(c)' = 0 /\ InFlight(c) \in 0..1
           /\ blind' = blind /\ lost' = lost
    BY <2>2 DEF Owing, InFlight
  <2> QED
    BY <1>1, <2>1, <2>2, <2>3, CallerBills
<1> QED
  BY <1>2, <1>3, <1>4, <1>5, <1>6, <1>7, <1>9, <1>10, <1>11, <1>12, <1>13, <1>14, <1>15, <1>16, <1>17,
     <1>18
  DEF Fe!Next, Fe!CallerStep

\* What is held are songs.
LEMMA HeldType == ASSUME Fe!TypeOK PROVE Held \subseteq Songs
BY DEF Fe!TypeOK, Held, Fe!HeldByReco, Fe!HeldByCallers, Fe!HeldBy

\* A step that writes no row, and reads only what has no features.
LEMMA RowsRead ==
  ASSUME FeInv, UNCHANGED <<feat, outrun>>,
         \A t \in Held' : t \in Held \/ feat[t] # "found"
  PROVE  HoldersKnown'
BY DEF FeInv, HoldersKnown

\* A step that writes a row: who else holds it is known.
LEMMA RowWritten ==
  ASSUME FeInv, NEW t \in Songs, NEW word \in {"missed", "found"}, NEW others,
         Fe!Put(t, word, others), Held' \subseteq Held,
         word = "found" /\ t \in Held' => t \in others
  PROVE  HoldersKnown'
<1>1. /\ feat' = [feat EXCEPT ![t] = word]
      /\ \A u \in Songs : u # t => (u \in outrun' <=> u \in outrun)
      /\ word = "found" /\ t \in others => t \in outrun'
  BY PutType DEF FeInv
<1>2. ASSUME NEW u \in Held', feat'[u] = "found" PROVE u \in outrun'
  <2>1. u \in Held /\ u \in Songs
    BY HeldType DEF FeInv
  <2>2. CASE u = t
    BY <1>1, <1>2, <2>1, <2>2 DEF FeInv, Fe!TypeOK
  <2>3. CASE u # t
    BY <1>1, <1>2, <2>1, <2>3 DEF FeInv, Fe!TypeOK, HoldersKnown
  <2> QED
    BY <2>2, <2>3
<1> QED
  BY <1>2 DEF HoldersKnown

\* What is held by the others stays held by them while one moves.
LEMMA CallerHolds ==
  ASSUME NEW c \in Fe!Callers, UNCHANGED reco,
         \A d \in Fe!Callers \ {c} : paid'[d] = paid[d]
  PROVE  /\ Held' = Fe!HeldByReco \cup Fe!HeldBy(c)' \cup Fe!HeldByCallers(Fe!Callers \ {c})
         /\ Held = Fe!HeldByReco \cup Fe!HeldBy(c) \cup Fe!HeldByCallers(Fe!Callers \ {c})
<1>1. Fe!HeldByReco' = Fe!HeldByReco
  BY DEF Fe!HeldByReco
<1>2. \A d \in Fe!Callers \ {c} : Fe!HeldBy(d)' = Fe!HeldBy(d)
  BY DEF Fe!HeldBy
<1>3. /\ Fe!HeldByCallers(Fe!Callers)' = Fe!HeldBy(c)' \cup Fe!HeldByCallers(Fe!Callers \ {c})
      /\ Fe!HeldByCallers(Fe!Callers) = Fe!HeldBy(c) \cup Fe!HeldByCallers(Fe!Callers \ {c})
  BY <1>2 DEF Fe!HeldByCallers, Fe!Callers
<1> QED
  BY <1>1, <1>3 DEF Held

\* Every step keeps what is known of who holds a row.
LEMMA HoldersStep ==
  ASSUME FeBounds, FeInv, [Fe!Next]_feVars PROVE HoldersKnown'
<1>1. ASSUME NEW c \in Fe!Callers, UNCHANGED <<feat, outrun, reco>>,
             \A d \in Fe!Callers \ {c} : paid'[d] = paid[d],
             \/ Fe!HeldBy(c)' \subseteq Fe!HeldBy(c)
             \/ \A t \in Fe!HeldBy(c)' : feat[t] # "found"
      PROVE  HoldersKnown'
  BY <1>1, CallerHolds, RowsRead
<1>2. ASSUME UNCHANGED <<feat, outrun, reco, paid>> PROVE HoldersKnown'
  BY <1>2, RowsRead DEF Held, Fe!HeldByReco, Fe!HeldByCallers, Fe!HeldBy
<1>3. ASSUME UNCHANGED <<feat, outrun, paid>>,
             Fe!HeldByReco' \subseteq Fe!HeldByReco \/ \A t \in Fe!HeldByReco' : feat[t] # "found"
      PROVE  HoldersKnown'
  <2>1. Fe!HeldByCallers(Fe!Callers)' = Fe!HeldByCallers(Fe!Callers)
    BY <1>3 DEF Fe!HeldByCallers, Fe!HeldBy, Fe!Callers
  <2> QED
    BY <1>3, <2>1, RowsRead DEF Held
<1>4. ASSUME NEW t \in Songs, Fe!FromMusicApi(t) PROVE HoldersKnown'
  <2>1. Held' = Held
    BY <1>4 DEF Fe!FromMusicApi, Held, Fe!HeldByReco, Fe!HeldByCallers, Fe!HeldBy, Fe!Callers
  <2> QED
    BY <1>4, <2>1, RowWritten DEF Fe!FromMusicApi, Held
<1>5. CASE Fe!ReadBatch
  <2>1. \A t \in Fe!HeldByReco' : feat[t] # "found"
    BY <1>5 DEF Fe!ReadBatch, Fe!HeldByReco, Fe!NextPass, Fe!Pass, FeInv, Fe!TypeOK
  <2> QED
    BY <1>3, <1>5, <2>1 DEF Fe!ReadBatch
<1>6. CASE Fe!RecoAnswers
  BY <1>3, <1>6 DEF Fe!RecoAnswers, Fe!HeldByReco, FeInv, Fe!TypeOK
<1>7. CASE Fe!RecoFails \/ Fe!RecoDone
  BY <1>3, <1>7 DEF Fe!RecoFails, Fe!RecoDone, Fe!HeldByReco, Fe!NextPass, Fe!Pass
<1>8. ASSUME NEW t \in Songs, Fe!RecoStore(t) PROVE HoldersKnown'
  <2>1. Fe!HeldByCallers(Fe!Callers)' = Fe!HeldByCallers(Fe!Callers)
    BY <1>8 DEF Fe!RecoStore, Fe!HeldByCallers, Fe!HeldBy, Fe!Callers
  <2>2. Fe!HeldByReco' = Fe!HeldByReco \ {t}
    BY <1>8 DEF Fe!RecoStore, Fe!HeldByReco, FeInv, Fe!TypeOK
  <2>3. Fe!Put(t, IF t \in reco.hits THEN "found" ELSE "missed",
               Fe!HeldByCallers(Fe!Callers))
    BY <1>8 DEF Fe!RecoStore
  <2> QED
    BY <2>1, <2>2, <2>3, RowWritten DEF Held
<1>9. CASE Fe!RecoDrop
  BY <1>3, <1>9 DEF Fe!RecoDrop, Fe!HeldByReco, FeInv, Fe!TypeOK
<1>10. CASE Fe!Restart
  <2>1. PICK gone \in {{"loop"} \cup Handlers} \cup {{c} : c \in Clis} :
          /\ paid' = [c \in Fe!Callers |-> IF c \in gone THEN Fe!Away ELSE paid[c]]
          /\ IF "loop" \in gone THEN reco' = Fe!Pass("read", TRUE) ELSE UNCHANGED reco
    BY <1>10 DEF Fe!Restart
  <2>2. \A c \in Fe!Callers : Fe!HeldBy(c)' \subseteq Fe!HeldBy(c)
    BY <2>1 DEF Fe!HeldBy, Fe!Away
  <2>3. Fe!HeldByReco' \subseteq Fe!HeldByReco
    BY <2>1 DEF Fe!HeldByReco, Fe!Pass
  <2>4. Fe!HeldByCallers(Fe!Callers)' \subseteq Fe!HeldByCallers(Fe!Callers)
    BY <2>2 DEF Fe!HeldByCallers, Fe!Callers
  <2> QED
    BY <1>10, <2>3, <2>4, RowsRead DEF Held, Fe!Restart
<1>11. ASSUME NEW c \in Handlers \cup Clis, NEW ids \in SUBSET Songs, Fe!Click(c, ids)
       PROVE  HoldersKnown'
  <2>1. c \in Fe!Callers /\ Fe!HeldBy(c)' = {}
        /\ \A d \in Fe!Callers \ {c} : paid'[d] = paid[d]
    BY <1>11 DEF Fe!Click, Fe!Goes, Fe!HeldBy, Fe!Callers, FeInv, Fe!TypeOK
  <2> QED
    BY <1>1, <1>11, <2>1 DEF Fe!Click
<1>12. CASE Fe!ReadRequests
  <2>1. "loop" \in Fe!Callers /\ Fe!HeldBy("loop")' = {}
        /\ \A d \in Fe!Callers \ {"loop"} : paid'[d] = paid[d]
    BY <1>12 DEF Fe!ReadRequests, Fe!Goes, Fe!HeldBy, Fe!Callers, FeInv, Fe!TypeOK
  <2> QED
    BY <1>1, <1>12, <2>1 DEF Fe!ReadRequests
<1>13. ASSUME NEW c \in Fe!Callers, Fe!CheckBudget(c) PROVE HoldersKnown'
  <2>1. Fe!HeldBy(c)' = {} /\ \A d \in Fe!Callers \ {c} : paid'[d] = paid[d]
    BY <1>13, CheckBudgetEffect DEF Fe!HeldBy, FeInv
  <2> QED
    BY <1>1, <1>13, <2>1 DEF Fe!CheckBudget
<1>14. ASSUME NEW c \in Fe!Callers, Fe!ReadRow(c) PROVE HoldersKnown'
  <2>1. CASE Fe!NextSong(c)
    <3>1. Fe!HeldBy(c)' = {} /\ \A d \in Fe!Callers \ {c} : paid'[d] = paid[d]
      BY <2>1, NextSongType DEF Fe!HeldBy, FeInv
    <3> QED
      BY <1>1, <1>14, <3>1 DEF Fe!ReadRow
  <2>2. CASE Fe!To(c, "lookup") /\ \A t \in paid[c].at : feat[t] # "found"
    <3>1. Fe!HeldBy(c)' = paid[c].at /\ \A d \in Fe!Callers \ {c} : paid'[d] = paid[d]
      BY <2>2, ToType DEF Fe!HeldBy, FeInv
    <3> QED
      BY <1>1, <1>14, <2>2, <3>1 DEF Fe!ReadRow
  <2> QED
    BY <1>14, <2>1, <2>2 DEF Fe!ReadRow
<1>15. ASSUME NEW c \in Fe!Callers, Fe!FreqAnswers(c) PROVE HoldersKnown'
  <2>1. PICK pc \in {"hit", "queued", "keepMiss"} : Fe!To(c, pc)
    BY <1>15 DEF Fe!FreqAnswers
  <2>2. Fe!HeldBy(c)' = Fe!HeldBy(c) /\ \A d \in Fe!Callers \ {c} : paid'[d] = paid[d]
    BY <1>15, <2>1, ToType DEF Fe!HeldBy, FeInv, Fe!FreqAnswers
  <2> QED
    BY <1>1, <1>15, <2>2 DEF Fe!FreqAnswers
<1>16. ASSUME NEW c \in Fe!Callers, Fe!FreqFails(c) PROVE HoldersKnown'
  <2>1. Fe!HeldBy(c)' = {} /\ \A d \in Fe!Callers \ {c} : paid'[d] = paid[d]
    BY <1>16, AwayType DEF Fe!HeldBy, FeInv, Fe!FreqFails
  <2> QED
    BY <1>1, <1>16, <2>1 DEF Fe!FreqFails
<1>17. ASSUME NEW c \in Fe!Callers, Fe!AddUsage(c) PROVE HoldersKnown'
  <2>1. PICK pc \in {"keepHit", "keepMiss"} : Fe!To(c, pc)
    BY <1>17 DEF Fe!AddUsage
  <2>2. Fe!HeldBy(c)' = Fe!HeldBy(c) /\ \A d \in Fe!Callers \ {c} : paid'[d] = paid[d]
    BY <1>17, <2>1, ToType DEF Fe!HeldBy, FeInv, Fe!AddUsage
  <2> QED
    BY <1>1, <1>17, <2>2 DEF Fe!AddUsage
<1>18. ASSUME NEW c \in Fe!Callers, Fe!FreqStore(c) PROVE HoldersKnown'
  <2> DEFINE others == Fe!HeldByReco \cup Fe!HeldByCallers(Fe!Callers \ {c})
  <2>1. PICK t \in paid[c].at :
          Fe!Put(t, IF paid[c].pc = "keepHit" THEN "found" ELSE "missed", others)
    BY <1>18 DEF Fe!FreqStore
  <2>2. t \in Songs
    BY DEF FeInv, Fe!TypeOK
  <2>3. Fe!HeldBy(c)' = {} /\ \A d \in Fe!Callers \ {c} : paid'[d] = paid[d]
    BY <1>18, NextSongType DEF Fe!FreqStore, Fe!HeldBy, FeInv
  <2>4. Held' = others /\ Held' \subseteq Held
    BY <1>18, <2>3, CallerHolds DEF Fe!FreqStore
  <2> QED
    BY <2>1, <2>2, <2>4, RowWritten
<1>19. ASSUME NEW c \in Fe!Callers, Fe!ClearRequest(c) PROVE HoldersKnown'
  <2>1. Fe!HeldBy(c)' = {} /\ \A d \in Fe!Callers \ {c} : paid'[d] = paid[d]
    BY <1>19 DEF Fe!ClearRequest, Fe!Goes, Fe!HeldBy, Fe!Away, FeInv, Fe!TypeOK
  <2> QED
    BY <1>1, <1>19, <2>1 DEF Fe!ClearRequest
<1>20. ASSUME NEW t \in Songs, Fe!Request(t) PROVE HoldersKnown'
  BY <1>2, <1>20 DEF Fe!Request
<1>21. CASE UNCHANGED feVars
  BY <1>2, <1>21 DEF feVars
<1>22. ASSUME NEW c \in Fe!Callers, Fe!DbFails(c) PROVE HoldersKnown'
  <2>1. Fe!HeldBy(c)' = {} /\ \A d \in Fe!Callers \ {c} : paid'[d] = paid[d]
    BY <1>22, DbFailsEffect DEF Fe!HeldBy, FeInv
  <2> QED
    BY <1>1, <1>22, <2>1 DEF Fe!DbFails
<1> QED
  BY <1>4, <1>5, <1>6, <1>7, <1>8, <1>9, <1>10, <1>11, <1>12, <1>13, <1>14, <1>15, <1>16,
     <1>17, <1>18, <1>19, <1>20, <1>21, <1>22
  DEF Fe!Next, Fe!RecoStep, Fe!CallerStep

\* Who takes features away held the row, and the others know of it.
LEMMA TakenByHolder ==
  ASSUME FeInv, [Fe!Next]_feVars
  PROVE  \A u \in Songs : feat[u] = "found" /\ feat'[u] # "found" => u \in outrun
<1> SUFFICES ASSUME NEW u \in Songs, feat[u] = "found", feat'[u] # "found" PROVE u \in outrun
  OBVIOUS
<1>1. ASSUME NEW t \in Songs, Fe!RecoStore(t) PROVE u \in outrun
  <2>1. feat' = [feat EXCEPT ![t] = IF t \in reco.hits THEN "found" ELSE "missed"]
    BY <1>1 DEF Fe!RecoStore, Fe!Put
  <2>2. u = t
    BY <2>1 DEF FeInv, Fe!TypeOK
  <2>3. t \in Held
    BY <1>1 DEF Fe!RecoStore, Held, Fe!HeldByReco
  <2> QED
    BY <2>2, <2>3 DEF FeInv, HoldersKnown
<1>2. ASSUME NEW c \in Fe!Callers, Fe!FreqStore(c) PROVE u \in outrun
  <2>1. PICK t \in paid[c].at :
          feat' = [feat EXCEPT ![t] = IF paid[c].pc = "keepHit" THEN "found" ELSE "missed"]
    BY <1>2 DEF Fe!FreqStore, Fe!Put
  <2>2. u = t
    BY <2>1 DEF FeInv, Fe!TypeOK
  <2>3. t \in Held
    BY <1>2 DEF Fe!FreqStore, Held, Fe!HeldByCallers, Fe!HeldBy
  <2> QED
    BY <2>2, <2>3 DEF FeInv, HoldersKnown
<1>3. ASSUME NEW t \in Songs, Fe!FromMusicApi(t) PROVE FALSE
  BY <1>3 DEF Fe!FromMusicApi, Fe!Put, FeInv, Fe!TypeOK
<1>4. ASSUME feat' = feat PROVE FALSE
  BY <1>4
<1>5. Fe!ReadBatch \/ Fe!RecoAnswers \/ Fe!RecoDrop \/ Fe!RecoDone \/ Fe!RecoFails \/ Fe!Restart
      \/ (\E t \in Songs : Fe!Request(t)) \/ (\E c \in Handlers \cup Clis, ids \in SUBSET Songs : Fe!Click(c, ids))
      \/ UNCHANGED feVars
      => feat' = feat
  BY DEF Fe!ReadBatch, Fe!RecoAnswers, Fe!RecoDrop, Fe!RecoDone, Fe!RecoFails, Fe!Restart,
         Fe!Request, Fe!Click, feVars
<1>6. ASSUME NEW c \in Fe!Callers,
             \/ Fe!CheckBudget(c) \/ Fe!ReadRow(c) \/ Fe!FreqAnswers(c) \/ Fe!FreqFails(c)
             \/ Fe!AddUsage(c) \/ Fe!ClearRequest(c) \/ Fe!ReadRequests \/ Fe!DbFails(c)
      PROVE  feat' = feat
  BY <1>6 DEF Fe!CheckBudget, Fe!ReadRow, Fe!FreqAnswers, Fe!FreqFails, Fe!AddUsage,
              Fe!ClearRequest, Fe!ReadRequests, Fe!DbFails
<1> QED
  BY <1>1, <1>2, <1>3, <1>4, <1>5, <1>6 DEF Fe!Next, Fe!RecoStep, Fe!CallerStep

\* The invariant of the part.
LEMMA FeInvariant == ASSUME FeBounds PROVE MCFairSpec => []FeInv /\ [][Fe!Next]_feVars
<1>1. MCInit => FeInv
  BY FeInit DEF MCInit
<1>2. FeInv /\ [MCNext]_<<part, vars, plVars, keVars, feVars>> => FeInv'
  <2> SUFFICES ASSUME FeInv, [MCNext]_<<part, vars, plVars, keVars, feVars>> PROVE FeInv'
    OBVIOUS
  <2>1. [Fe!Next]_feVars
    BY PartSteps
  <2>2. Fe!TypeOK'
    BY <2>1, FeTypeStep DEF FeInv
  <2>3. BillsCounted' /\ WithinCap'
    BY <2>1, <2>2, BillsStep
  <2>4. HoldersKnown'
    BY <2>1, HoldersStep
  <2> QED
    BY <2>2, <2>3, <2>4 DEF FeInv
<1>3. [MCNext]_<<part, vars, plVars, keVars, feVars>> => [Fe!Next]_feVars
  BY PartSteps
<1> QED
  BY <1>1, <1>2, <1>3, PTL DEF MCFairSpec

\* What is billed exceeds the cap by no more than one lookup for each other
\* caller, what was lost before it was counted, and what was looked up at a wall
\* that could not be read: for every cap, any handlers and commands beside the
\* loop, every set of songs and every bound.
THEOREM BilledBoundHolds == ASSUME FeBounds PROVE MCFairSpec => []BilledBound
<1>1. FeInv => BilledBound
  <2> SUFFICES ASSUME FeInv PROVE BilledBound
    OBVIOUS
  <2>1. used \in Nat /\ lost \in Nat /\ billed \in Nat /\ blind \in Nat
    BY DEF FeInv, Fe!TypeOK
  <2>2. billed = used + lost + Cardinality(Owers)
    BY DEF FeInv, BillsCounted
  <2>3. used + Cardinality(Flying) <= Cap + Others + blind
    BY DEF FeInv, WithinCap
  <2>4. Cardinality(Owers) <= Cardinality(Flying) /\ Cardinality(Owers) \in Nat /\ Cardinality(Flying) \in Nat
    <3>1. Flying \in SUBSET Fe!Callers /\ Owers \in SUBSET Flying /\ Owers \in SUBSET Fe!Callers
      BY DEF Owers, Flying, Owing, InFlight
    <3> QED
      BY <3>1, CountTypes, FS_Subset
  <2>5. Fe!Cardinality(Handlers \cup Clis) = Others /\ Others \in Nat
    BY CallersFinite DEF Others
  <2>6. billed <= Cap + Others + lost + blind
    BY <2>1, <2>2, <2>3, <2>4, <2>5 DEF FeBounds
  <2> QED
    BY <2>5, <2>6 DEF BilledBound, Fe!BilledBound
<1> QED
  BY <1>1, FeInvariant, PTL

\* Features that were found are lost only to one that had read the row before.
THEOREM FoundKeptHolds == ASSUME FeBounds PROVE MCFairSpec => FoundKept
<1>1. FeInv /\ [Fe!Next]_feVars
        => [\A t \in Songs : feat[t] = "found" /\ feat'[t] # "found" => t \in outrun]_Fe!vars
  BY TakenByHolder
<1> QED
  BY <1>1, FeInvariant, PTL DEF FoundKept, Fe!FoundKept

-----------------------------------------------------------------------------
(* All of them. *)

\* Every variable of every part keeps its type.
THEOREM PartTypesHold ==
  ASSUME Bounds, PlBounds, KeBounds, FeBounds PROVE MCFairSpec => []PartTypes
<1>1. MCInit => TypeOK
  BY TypeInit DEF MCInit
<1>2. TypeOK /\ [MCNext]_<<part, vars, plVars, keVars, feVars>> => TypeOK'
  BY PartSteps, TypeStep
<1>3. TypeOK /\ PlInv /\ KeInv /\ FeInv => PartTypes
  BY DEF PlInv, KeInv, FeInv, PartTypes
<1> QED
  BY <1>1, <1>2, <1>3, PlInvariant, KeInvariant, FeInvariant, PTL DEF MCFairSpec
=============================================================================
