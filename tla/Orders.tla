------------------------------- MODULE Orders -------------------------------
(***************************************************************************)
(* Orders of music-api: a batch of tracks placed together, with a status   *)
(* derived from the states of its tracks (db.rs: create_order,             *)
(* refresh_order, refresh_orders_for_isrc, cancel_order).                  *)
(*                                                                         *)
(* Every function of db.rs that moves a track ends in                      *)
(* refresh_orders_for_isrc: read the orders the track is in, then for each *)
(* of them read the states of its tracks and write the derived status.     *)
(* None of it is a transaction, and the worker, its background tasks and   *)
(* the HTTP handlers run it concurrently.  Here a process moves a track to *)
(* any state, out of `ready` too: of the functions that write one only     *)
(* reset_track_to_pending looks at the state before.  Dispatcher says      *)
(* which moves happen.                                                     *)
(***************************************************************************)
EXTENDS Integers

CONSTANTS Tracks, OrderIds, Procs,
          MaxCrashes    \* bound: process crashes

VARIABLES state,     \* tracks.state
          status,    \* orders.status
          items,     \* order_items, by order
          proc,      \* the call each process is in
          delivered, \* history: the tracks that have been ready
          mixed,     \* history: two calls have overlapped, or a crash cut one off
          crashes

vars == <<state, status, items, proc, delivered, mixed, crashes>>

OpenStates   == {"pending", "downloading"}
TrackStates  == OpenStates \cup {"ready", "absent", "failed"}
OrderStatus  == {"none", "open", "done", "partial", "cancelled"}

\* A process of a call: reading the orders of track t; reading the states of
\* order o's tracks, `left` being the orders still to come; writing the status
\* it derived; dropping the item links of an order it cancelled.
Idle        == [at |-> "idle"]
ReadIds(t)  == [at |-> "ids", t |-> t]
ReadAt(o, left)     == [at |-> "read", o |-> o, left |-> left]
WriteAt(o, left, s) == [at |-> "write", o |-> o, left |-> left, s |-> s]
UnlinkAt(o) == [at |-> "unlink", o |-> o]
Calls ==
  {Idle} \cup [at : {"ids"}, t : Tracks]
         \cup [at : {"read"}, o : OrderIds, left : SUBSET OrderIds]
         \cup [at : {"write"}, o : OrderIds, left : SUBSET OrderIds,
               s : {"open", "done", "partial"}]
         \cup [at : {"unlink"}, o : OrderIds]

TypeOK ==
  /\ state  \in [Tracks -> TrackStates \cup {"none"}]
  /\ status \in [OrderIds -> OrderStatus]
  /\ items  \in [OrderIds -> SUBSET Tracks]
  /\ proc   \in [Procs -> Calls]
  /\ delivered \subseteq Tracks
  /\ mixed \in BOOLEAN /\ crashes \in Nat

Init ==
  /\ state  = [t \in Tracks |-> "none"]
  /\ status = [o \in OrderIds |-> "none"]
  /\ items  = [o \in OrderIds |-> {}]
  /\ proc   = [p \in Procs |-> Idle]
  /\ delivered = {} /\ mixed = FALSE /\ crashes = 0

-----------------------------------------------------------------------------

\* derive_order_status.
\* (mutant: an order nothing came of counts as cancelled)
DeriveCancels(S) ==
  IF S \cap OpenStates # {} \/ S = {} THEN "open"
  ELSE IF S = {"ready"} THEN "done" ELSE IF "ready" \in S THEN "partial" ELSE "cancelled"
Derive(S) ==
  IF S \cap OpenStates # {} \/ S = {} THEN "open"
  ELSE IF S = {"ready"} THEN "done" ELSE "partial"

StatesOf(o) == {state[t] : t \in items[o]}
\* (mutant: every order)
OrdersOfAny(t) == {o \in OrderIds : status[o] # "none"}
OrdersOf(t) == {o \in OrderIds : t \in items[o]}

Goes(p, call) == proc' = [proc EXCEPT ![p] = call]
Mixes == mixed' = (mixed \/ \E p \in Procs : proc[p] # Idle)

\* The order, its items and the rows it needs are inserted in one transaction.
\* The download items are enqueued after it, then the order is refreshed.
CreateOrder(p, o, S) ==
  /\ proc[p] = Idle
  /\ status[o] = "none" /\ S # {}
  /\ status' = [status EXCEPT ![o] = "open"]
  /\ items'  = [items EXCEPT ![o] = S]
  /\ state'  = [t \in Tracks |-> IF t \in S /\ state[t] = "none"
                                 THEN "pending" ELSE state[t]]
  /\ Goes(p, ReadAt(o, {}))
  /\ Mixes
  /\ UNCHANGED <<delivered, crashes>>

\* A function of db.rs writes the track's state, whatever it was, and goes on
\* to refresh the track's orders.  Only an ingest makes a row there was not.
WriteState(p, t, s) ==
  /\ proc[p] = Idle
  /\ state[t] = "none" => s = "ready"
  /\ state' = [state EXCEPT ![t] = s]
  /\ delivered' = IF s = "ready" THEN delivered \cup {t} ELSE delivered
\* (mutant: forgets the refresh)
MoveTrackQuietly(p, t, s) ==
  /\ WriteState(p, t, s)
  /\ UNCHANGED <<status, items, proc, mixed, crashes>>
MoveTrack(p, t, s) ==
  /\ WriteState(p, t, s)
  /\ Goes(p, ReadIds(t))
  /\ Mixes
  /\ UNCHANGED <<status, items, crashes>>

\* refresh_orders_for_isrc: the list is read once, the orders refreshed in turn.
\* (mutant: may end before the last order)
NextOrderForgets(p, left) ==
  \/ Goes(p, Idle)
  \/ left # {} /\ \E o \in left : Goes(p, ReadAt(o, left \ {o}))
NextOrder(p, left) ==
  \/ left = {} /\ Goes(p, Idle)
  \/ \E o \in left : Goes(p, ReadAt(o, left \ {o}))

ReadOrders(p) ==
  /\ proc[p].at = "ids"
  /\ NextOrder(p, OrdersOf(proc[p].t))
  /\ UNCHANGED <<state, status, items, delivered, mixed, crashes>>

\* refresh_order.
ReadStates(p) ==
  LET c == proc[p] IN
  /\ c.at = "read"
  /\ Goes(p, WriteAt(c.o, c.left, Derive(StatesOf(c.o))))
  /\ UNCHANGED <<state, status, items, delivered, mixed, crashes>>

WriteStatus(p) ==
  LET c == proc[p] IN
  /\ c.at = "write"
  /\ status' = [status EXCEPT ![c.o] = c.s]
  /\ NextOrder(p, c.left)
  /\ UNCHANGED <<state, items, delivered, mixed, crashes>>

CancelOrder(p, o) ==
  /\ proc[p] = Idle
  /\ status[o] \notin {"none", "cancelled"}
  /\ status' = [status EXCEPT ![o] = "cancelled"]
  /\ Goes(p, UnlinkAt(o))
  /\ Mixes
  /\ UNCHANGED <<state, items, delivered, crashes>>

Unlink(p) ==
  /\ proc[p].at = "unlink"
  /\ items' = [items EXCEPT ![proc[p].o] = {}]
  /\ Goes(p, Idle)
  /\ UNCHANGED <<state, status, delivered, mixed, crashes>>

Crash ==
  /\ crashes < MaxCrashes
  /\ crashes' = crashes + 1
  /\ Mixes /\ proc' = [p \in Procs |-> Idle]
  /\ UNCHANGED <<state, status, items, delivered>>

Next ==
  \/ \E p \in Procs :
       \/ ReadOrders(p) \/ ReadStates(p) \/ WriteStatus(p) \/ Unlink(p)
       \/ \E o \in OrderIds : CancelOrder(p, o)
       \/ \E o \in OrderIds, S \in SUBSET Tracks : CreateOrder(p, o, S)
       \/ \E t \in Tracks, s \in TrackStates : MoveTrack(p, t, s)
  \/ Crash

Spec == Init /\ [][Next]_vars

-----------------------------------------------------------------------------
(* Properties.                                                             *)

\* The call process p is in still has to write order o, or is about to find
\* that it has.
InHand(p, o) ==
  /\ proc[p].at \in {"read", "write"}
  /\ o = proc[p].o \/ o \in proc[p].left
Covers(p, o) == InHand(p, o) \/ (proc[p].at = "ids" /\ proc[p].t \in items[o])

\* Whoever is told that an order is done finds every track of it ready, or one
\* that has been: even a status derived from states read long before counts no
\* track that was never delivered (db.rs:279).  And a track that a retry has
\* taken out of `ready` again (schedule_retry, db.rs:517, whatever the state)
\* is told of soon: a refresh of the order is on its way, as long as no two
\* calls overlapped and no crash cut one off.
DoneIsReady ==
  \A o \in OrderIds : status[o] = "done" =>
    \A t \in items[o] :
      \/ state[t] = "ready"
      \/ t \in delivered /\ (mixed \/ \E p \in Procs : Covers(p, o))

\* A cancelled order without item links is out of reach of every refresh that
\* starts from then on: only one already under way may still write it.
OutOfHand(o) == \A p \in Procs : ~InHand(p, o)
CancelStep ==
  \A o \in OrderIds :
    status[o] = "cancelled" /\ items[o] = {} /\ OutOfHand(o)
      => status'[o] = "cancelled" /\ OutOfHand(o)'
CancelFinal == [][CancelStep]_vars

\* Order status is derived: as long as no two calls overlapped and no crash cut
\* one off, it is, whenever no call is in progress, what the states of the
\* order's tracks say, for every order a track is in and whatever was created
\* or cancelled before (db.rs:278, derive_order_status).
StatusDerived ==
  ~mixed /\ (\A p \in Procs : proc[p] = Idle) =>
     \A o \in OrderIds : status[o] \notin {"none", "cancelled"}
                           => status[o] = Derive(StatesOf(o))
=============================================================================
