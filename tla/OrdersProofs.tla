---------------------------- MODULE OrdersProofs ----------------------------
(***************************************************************************)
(* What holds of orders however many processes refresh them at once: a     *)
(* done order counts no track that was never ready, and a cancelled,       *)
(* unlinked order is out of reach of later refreshes.                      *)
(*                                                                         *)
(* A status is written from states read earlier.  DoneInv says why a       *)
(* `done` that is still to be written counts delivered tracks by then: the *)
(* tracks were ready when it was derived, a delivered track stays one even *)
(* when a retry takes it out of `ready`, and the order's items cannot      *)
(* grow, because an order in hand is one that was created.                 *)
(*                                                                         *)
(* StatusInv says what the status of an order is while calls never overlap:*)
(* what its tracks say, unless the one call there is still has it to do.   *)
(* So a done order whose track has left `ready` has its refresh coming.    *)
(*                                                                         *)
(* The runs check Orders beside Analysis (MCSafety); the last theorem says *)
(* that the analysis part of that composition is Analysis, guard and all.  *)
(***************************************************************************)
EXTENDS MCSafety, TLAPS

AllDelivered(o) == items[o] \subseteq delivered

DoneInv ==
  /\ \A p \in Procs : proc[p].at \in {"read", "write"} =>
       /\ status[proc[p].o] # "none"
       /\ \A o \in proc[p].left : status[o] # "none"
  /\ \A o \in OrderIds : items[o] # {} => status[o] # "none"
  /\ \A p \in Procs : proc[p].at = "write" /\ proc[p].s = "done" => AllDelivered(proc[p].o)
  /\ \A o \in OrderIds : status[o] = "done" => AllDelivered(o)
  /\ \A t \in Tracks : state[t] = "ready" => t \in delivered

\* The shape of a call in progress.
LEMMA CallShape ==
  ASSUME TypeOK, NEW p \in Procs
  PROVE  /\ proc[p].at = "ids" => proc[p].t \in Tracks
         /\ proc[p].at = "unlink" => proc[p].o \in OrderIds
         /\ proc[p].at \in {"read", "write"} =>
              proc[p].o \in OrderIds /\ proc[p].left \subseteq OrderIds
         /\ proc[p].at = "write" => proc[p].s \in {"open", "done", "partial"}
  BY DEF TypeOK, Calls, Idle

LEMMA NextOrderShape ==
  ASSUME TypeOK, NEW p \in Procs, NEW left \in SUBSET OrderIds, NextOrder(p, left)
  PROVE  /\ proc' \in [Procs -> Calls]
         /\ \A q \in Procs \ {p} : proc'[q] = proc[q]
         /\ proc'[p].at # "write"
         /\ proc'[p].at = "read" => proc'[p].o \in left /\ proc'[p].left \subseteq left
  BY DEF NextOrder, Goes, Idle, ReadAt, TypeOK, Calls

\* What is left of a refresh is what the process has in hand.
LEMMA NextOrderHands ==
  ASSUME TypeOK, NEW p \in Procs, NEW left \in SUBSET OrderIds, NextOrder(p, left)
  PROVE  /\ proc'[p].at \in {"idle", "read"}
         /\ \A q \in Procs \ {p} : proc'[q] = proc[q]
         /\ \A o \in left : /\ proc'[p].at = "read"
                            /\ o = proc'[p].o \/ o \in proc'[p].left
<1>1. CASE left = {} /\ Goes(p, Idle)
  BY <1>1 DEF Goes, Idle, TypeOK
<1>2. ASSUME NEW n \in left, Goes(p, ReadAt(n, left \ {n}))
      PROVE  /\ proc'[p].at = "read"
             /\ \A o \in left : o = proc'[p].o \/ o \in proc'[p].left
             /\ \A q \in Procs \ {p} : proc'[q] = proc[q]
  <2>1. /\ proc'[p] = [at |-> "read", o |-> n, left |-> left \ {n}]
        /\ \A q \in Procs \ {p} : proc'[q] = proc[q]
    BY <1>2 DEF Goes, ReadAt, TypeOK
  <2> QED BY <2>1
<1> QED BY <1>1, <1>2 DEF NextOrder

\* An order no call covers has the status its tracks say.
Derived(o) == status[o] = Derive(StatesOf(o))
StatusInv ==
  /\ \A o \in OrderIds : \A t \in items[o] : state[t] # "none"
  /\ ~mixed =>
       /\ \A p, q \in Procs : proc[p] # Idle /\ proc[q] # Idle => p = q
       /\ \A p \in Procs : proc[p].at = "unlink" => status[proc[p].o] = "cancelled"
       /\ \A p \in Procs : proc[p].at = "write" => proc[p].s = Derive(StatesOf(proc[p].o))
       /\ \A o \in OrderIds :
            status[o] \notin {"none", "cancelled"} /\ (\A p \in Procs : ~Covers(p, o))
              => Derived(o)

LEMMA InitTypes == Init => TypeOK /\ DoneInv
<1> SUFFICES ASSUME Init PROVE TypeOK /\ DoneInv
  OBVIOUS
<1>1. Idle \in Calls /\ Idle.at = "idle"
  BY DEF Calls, Idle
<1>2. mixed \in BOOLEAN
  BY ZenonT(10) DEF Init
<1>3. TypeOK
  BY <1>1, <1>2 DEF Init, TypeOK, OrderStatus, TrackStates
<1>4. DoneInv
  BY <1>1 DEF Init, DoneInv, AllDelivered
<1> QED BY <1>3, <1>4

LEMMA NextTypes == TypeOK /\ [Next]_vars => TypeOK'
<1> SUFFICES ASSUME TypeOK, [Next]_vars PROVE TypeOK'
  OBVIOUS
<1>1. ASSUME NEW p \in Procs, ReadOrders(p) PROVE TypeOK'
  <2>1. OrdersOf(proc[p].t) \in SUBSET OrderIds
    BY DEF OrdersOf
  <2> QED BY <1>1, <2>1, NextOrderShape DEF ReadOrders, TypeOK
<1>2. ASSUME NEW p \in Procs, ReadStates(p) PROVE TypeOK'
  <2>1. proc[p].o \in OrderIds /\ proc[p].left \subseteq OrderIds
    BY <1>2, CallShape DEF ReadStates
  <2>2. \A S : Derive(S) \in {"open", "done", "partial"}
    BY DEF Derive
  <2>3. WriteAt(proc[p].o, proc[p].left, Derive(StatesOf(proc[p].o))) \in Calls
    BY <2>1, <2>2 DEF WriteAt, Calls
  <2> QED BY <1>2, <2>3 DEF ReadStates, Goes, TypeOK
<1>3. ASSUME NEW p \in Procs, WriteStatus(p) PROVE TypeOK'
  <2>1. proc[p].o \in OrderIds /\ proc[p].left \subseteq OrderIds
        /\ proc[p].s \in OrderStatus
    BY <1>3, CallShape DEF WriteStatus, OrderStatus
  <2> QED BY <1>3, <2>1, NextOrderShape DEF WriteStatus, TypeOK
<1>4. ASSUME NEW p \in Procs, Unlink(p) PROVE TypeOK'
  BY <1>4 DEF Unlink, Goes, TypeOK, Calls
<1>5. ASSUME NEW p \in Procs, NEW o \in OrderIds, CancelOrder(p, o) PROVE TypeOK'
  BY <1>5 DEF CancelOrder, Mixes, Goes, UnlinkAt, TypeOK, Calls, OrderStatus
<1>6. ASSUME NEW p \in Procs, NEW o \in OrderIds, NEW S \in SUBSET Tracks, CreateOrder(p, o, S)
      PROVE  TypeOK'
  <2>1. state' \in [Tracks -> TrackStates \cup {"none"}]
    BY <1>6 DEF CreateOrder, TypeOK, TrackStates, OpenStates
  <2> QED BY <1>6, <2>1 DEF CreateOrder, Mixes, Goes, ReadAt, TypeOK, Calls, OrderStatus
<1>7. ASSUME NEW p \in Procs, NEW t \in Tracks, NEW s \in TrackStates, MoveTrack(p, t, s)
      PROVE  TypeOK'
  BY <1>7 DEF MoveTrack, WriteState, Mixes, Goes, ReadIds, TypeOK, Calls
<1>8. CASE Crash
  BY <1>8 DEF Crash, Mixes, Idle, TypeOK, Calls
<1>9. CASE UNCHANGED vars
  BY <1>9 DEF vars, TypeOK
<1> QED BY <1>1, <1>2, <1>3, <1>4, <1>5, <1>6, <1>7, <1>8, <1>9 DEF Next

LEMMA DoneNext == TypeOK /\ DoneInv /\ [Next]_vars => DoneInv'
<1> SUFFICES ASSUME TypeOK, DoneInv, [Next]_vars PROVE DoneInv'
  OBVIOUS
<1> USE DEF DoneInv, AllDelivered
<1>1. ASSUME NEW p \in Procs, ReadOrders(p) PROVE DoneInv'
  <2>1. OrdersOf(proc[p].t) \in SUBSET OrderIds
        /\ \A o \in OrdersOf(proc[p].t) : status[o] # "none"
    BY DEF OrdersOf
  <2> QED BY <1>1, <2>1, NextOrderShape DEF ReadOrders, TypeOK
<1>2. ASSUME NEW p \in Procs, ReadStates(p) PROVE DoneInv'
  <2>1. Derive(StatesOf(proc[p].o)) = "done" => AllDelivered(proc[p].o)
    <3>1. proc[p].o \in OrderIds /\ items[proc[p].o] \subseteq Tracks
      BY <1>2, CallShape DEF ReadStates, TypeOK
    <3> QED BY <3>1 DEF Derive, StatesOf
  <2>2. /\ proc'[p].at = "write" /\ proc'[p].o = proc[p].o
        /\ proc'[p].left = proc[p].left /\ proc'[p].s = Derive(StatesOf(proc[p].o))
        /\ \A q \in Procs \ {p} : proc'[q] = proc[q]
    BY <1>2 DEF ReadStates, Goes, WriteAt, TypeOK
  <2>3. proc[p].at = "read" /\ UNCHANGED <<state, status, items, delivered>>
    BY <1>2 DEF ReadStates
  <2> QED BY <2>1, <2>2, <2>3
<1>3. ASSUME NEW p \in Procs, WriteStatus(p) PROVE DoneInv'
  <2>1. proc[p].at = "write" /\ proc[p].o \in OrderIds /\ proc[p].left \in SUBSET OrderIds
        /\ proc[p].s # "none"
    BY <1>3, CallShape DEF WriteStatus
  <2>2. status' = [status EXCEPT ![proc[p].o] = proc[p].s]
        /\ UNCHANGED <<state, items, delivered>>
        /\ NextOrder(p, proc[p].left)
    BY <1>3 DEF WriteStatus
  <2> QED BY <2>1, <2>2, NextOrderShape DEF TypeOK
<1>4. ASSUME NEW p \in Procs, Unlink(p) PROVE DoneInv'
  <2>1. \A q \in Procs : proc'[q].at \in {"read", "write"} => proc'[q] = proc[q]
    BY <1>4 DEF Unlink, Goes, Idle, TypeOK
  <2>2. \A o \in OrderIds : items'[o] \subseteq items[o]
    BY <1>4 DEF Unlink, TypeOK
  <2>3. UNCHANGED <<state, status, delivered>>
    BY <1>4 DEF Unlink
  <2> QED BY <2>1, <2>2, <2>3, CallShape DEF TypeOK
<1>5. ASSUME NEW p \in Procs, NEW o \in OrderIds, CancelOrder(p, o) PROVE DoneInv'
  <2>1. \A q \in Procs : proc'[q].at \in {"read", "write"} => proc'[q] = proc[q]
    BY <1>5 DEF CancelOrder, Goes, UnlinkAt, TypeOK
  <2>2. status' = [status EXCEPT ![o] = "cancelled"] /\ UNCHANGED <<state, items, delivered>>
    BY <1>5 DEF CancelOrder
  <2> QED BY <2>1, <2>2, CallShape DEF TypeOK
<1>6. ASSUME NEW p \in Procs, NEW o \in OrderIds, NEW S \in SUBSET Tracks, CreateOrder(p, o, S)
      PROVE  DoneInv'
  <2>1. /\ status[o] = "none" /\ status' = [status EXCEPT ![o] = "open"]
        /\ items' = [items EXCEPT ![o] = S]
        /\ \A t \in Tracks : state'[t] = "ready" => state[t] = "ready"
        /\ UNCHANGED delivered
    BY <1>6 DEF CreateOrder
  <2>2. /\ proc'[p] = [at |-> "read", o |-> o, left |-> {}]
        /\ \A q \in Procs \ {p} : proc'[q] = proc[q]
    BY <1>6 DEF CreateOrder, Goes, ReadAt, TypeOK
  <2>3. \A q \in Procs : proc[q].at = "write" => proc[q].o \in OrderIds /\ proc[q].o # o
    BY <2>1, CallShape
  <2> QED BY <2>1, <2>2, <2>3, CallShape DEF TypeOK
<1>7. ASSUME NEW p \in Procs, NEW t \in Tracks, NEW s \in TrackStates, MoveTrack(p, t, s)
      PROVE  DoneInv'
  <2>1. \A q \in Procs : proc'[q].at \in {"read", "write"} => proc'[q] = proc[q]
    BY <1>7 DEF MoveTrack, Goes, ReadIds, TypeOK
  <2>2. /\ UNCHANGED <<status, items>> /\ delivered \subseteq delivered'
        /\ \A u \in Tracks : state'[u] = "ready" => state[u] = "ready" \/ u \in delivered'
    BY <1>7 DEF MoveTrack, WriteState, TypeOK
  <2> QED BY <2>1, <2>2, CallShape DEF TypeOK
<1>8. CASE Crash
  BY <1>8 DEF Crash, Idle
<1>9. CASE UNCHANGED vars
  BY <1>9 DEF vars
<1> QED BY <1>1, <1>2, <1>3, <1>4, <1>5, <1>6, <1>7, <1>8, <1>9 DEF Next

LEMMA InitStatus == Init => StatusInv
  BY DEF Init, StatusInv, Idle

\* A call moves on when it is the only one: the others are idle before and after.
LEMMA Alone ==
  ASSUME TypeOK, StatusInv, ~mixed, NEW p \in Procs, proc[p] # Idle,
         \A q \in Procs \ {p} : proc'[q] = proc[q]
  PROVE  \A q \in Procs \ {p} : proc[q] = Idle /\ proc'[q] = Idle
  BY DEF StatusInv

LEMMA StatusNext == TypeOK /\ StatusInv /\ [Next]_vars => StatusInv'
<1> SUFFICES ASSUME TypeOK, StatusInv, [Next]_vars PROVE StatusInv'
  OBVIOUS
<1>0. Idle.at = "idle"
  BY DEF Idle
<1>1. ASSUME NEW p \in Procs, ReadOrders(p) PROVE StatusInv'
  <2>1. OrdersOf(proc[p].t) \in SUBSET OrderIds
    BY DEF OrdersOf
  <2>2. /\ UNCHANGED <<state, status, items, mixed>> /\ proc[p].at = "ids"
        /\ NextOrder(p, OrdersOf(proc[p].t))
    BY <1>1 DEF ReadOrders
  <2>3. /\ \A q \in Procs \ {p} : proc'[q] = proc[q]
        /\ proc'[p].at \in {"idle", "read"}
        /\ \A o \in OrdersOf(proc[p].t) : InHand(p, o)'
    BY <2>1, <2>2, NextOrderHands DEF InHand
  <2>4. CASE mixed
    BY <2>2, <2>4 DEF StatusInv
  <2>5. CASE ~mixed
    <3>1. \A q \in Procs \ {p} : proc[q] = Idle /\ proc'[q] = Idle
      BY <1>0, <2>2, <2>3, <2>5, Alone
    <3>2. \A o \in OrderIds : (\A q \in Procs : ~Covers(q, o)') => \A q \in Procs : ~Covers(q, o)
      BY <1>0, <2>1, <2>2, <2>3, <3>1 DEF Covers, InHand, OrdersOf
    <3>3. \A o \in OrderIds : Derived(o)' <=> Derived(o)
      BY <2>2 DEF Derived, StatesOf
    <3> QED BY <1>0, <2>2, <2>3, <2>5, <3>1, <3>2, <3>3 DEF StatusInv
  <2> QED BY <2>4, <2>5
<1>2. ASSUME NEW p \in Procs, ReadStates(p) PROVE StatusInv'
  <2>0. PICK c \in OrderIds, left \in SUBSET OrderIds :
          proc[p].at = "read" /\ proc[p].o = c /\ proc[p].left = left
    BY <1>2, CallShape DEF ReadStates
  <2>1. /\ UNCHANGED <<state, status, items, mixed>>
        /\ proc'[p] = [at |-> "write", o |-> c, left |-> left, s |-> Derive(StatesOf(c))]
        /\ \A q \in Procs \ {p} : proc'[q] = proc[q]
    BY <1>2, <2>0 DEF ReadStates, Goes, WriteAt, TypeOK
  <2>2. CASE mixed
    BY <2>1, <2>2 DEF StatusInv
  <2>3. CASE ~mixed
    <3>1. \A q \in Procs \ {p} : proc[q] = Idle /\ proc'[q] = Idle
      BY <1>0, <2>0, <2>1, <2>3, Alone
    <3>2. \A o \in OrderIds : (\A q \in Procs : ~Covers(q, o)') => \A q \in Procs : ~Covers(q, o)
      BY <1>0, <2>0, <2>1, <3>1 DEF Covers, InHand
    <3>3. \A o \in OrderIds : (Derived(o)' <=> Derived(o)) /\ StatesOf(o)' = StatesOf(o)
      BY <2>1 DEF Derived, StatesOf
    <3> QED BY <1>0, <2>0, <2>1, <2>3, <3>1, <3>2, <3>3 DEF StatusInv
  <2> QED BY <2>2, <2>3
<1>3. ASSUME NEW p \in Procs, WriteStatus(p) PROVE StatusInv'
  <2>1. PICK o \in OrderIds, left \in SUBSET OrderIds :
          proc[p].at = "write" /\ proc[p].o = o /\ proc[p].left = left
    BY <1>3, CallShape DEF WriteStatus
  <2>2. /\ status' = [status EXCEPT ![o] = proc[p].s] /\ UNCHANGED <<state, items, mixed>>
        /\ NextOrder(p, left)
    BY <1>3, <2>1 DEF WriteStatus
  <2>3. /\ \A q \in Procs \ {p} : proc'[q] = proc[q]
        /\ proc'[p].at \in {"idle", "read"}
        /\ \A n \in left : InHand(p, n)'
    BY <2>2, NextOrderHands DEF InHand
  <2>4. CASE mixed
    BY <2>2, <2>4 DEF StatusInv
  <2>5. CASE ~mixed
    <3>1. \A q \in Procs \ {p} : proc[q] = Idle /\ proc'[q] = Idle
      BY <1>0, <2>1, <2>3, <2>5, Alone
    <3>2. \A n \in OrderIds \ {o} :
            (\A q \in Procs : ~Covers(q, n)') => \A q \in Procs : ~Covers(q, n)
      BY <1>0, <2>1, <2>2, <2>3, <3>1 DEF Covers, InHand
    <3>3. \A n \in OrderIds \ {o} : status'[n] = status[n] /\ (Derived(n)' <=> Derived(n))
      BY <2>1, <2>2 DEF Derived, StatesOf, TypeOK
    <3>4. proc[p].s = Derive(StatesOf(o))
      BY <2>1, <2>5 DEF StatusInv
    <3>5. Derived(o)'
      BY <2>1, <2>2, <3>4 DEF Derived, StatesOf, TypeOK
    <3>6. \A q \in Procs : proc'[q].at \notin {"unlink", "write"}
      BY <1>0, <2>3, <3>1
    <3>7. \A q, r \in Procs : proc'[q] # Idle /\ proc'[r] # Idle => q = r
      BY <3>1
    <3> QED BY <2>2, <2>5, <3>2, <3>3, <3>5, <3>6, <3>7 DEF StatusInv
  <2> QED BY <2>4, <2>5
<1>4. ASSUME NEW p \in Procs, Unlink(p) PROVE StatusInv'
  <2>0. PICK o \in OrderIds : o = proc[p].o
    BY <1>4, CallShape DEF Unlink
  <2>1. /\ proc[p].at = "unlink" /\ UNCHANGED <<state, status, mixed>>
        /\ items' = [items EXCEPT ![o] = {}] /\ proc'[p] = Idle
        /\ \A q \in Procs \ {p} : proc'[q] = proc[q]
    BY <1>4, <2>0 DEF Unlink, Goes, TypeOK
  <2>2. \A n \in OrderIds : items'[n] \subseteq items[n] /\ (n # o => items'[n] = items[n])
    BY <2>1 DEF TypeOK
  <2>3. CASE mixed
    BY <2>1, <2>2, <2>3 DEF StatusInv
  <2>4. CASE ~mixed
    <3>1. \A q \in Procs : proc'[q] = Idle /\ (q # p => proc[q] = Idle)
      BY <1>0, <2>1, <2>4, Alone
    <3>2. status[o] = "cancelled"
      BY <2>0, <2>1, <2>4 DEF StatusInv
    <3>3. \A n \in OrderIds \ {o} : \A q \in Procs : ~Covers(q, n)
      BY <1>0, <2>0, <2>1, <3>1 DEF Covers, InHand
    <3>4. \A n \in OrderIds \ {o} : Derived(n)' <=> Derived(n)
      BY <2>1, <2>2 DEF Derived, StatesOf
    <3> QED BY <1>0, <2>1, <2>2, <2>4, <3>1, <3>2, <3>3, <3>4 DEF StatusInv
  <2> QED BY <2>3, <2>4
<1>5. ASSUME NEW p \in Procs, NEW o \in OrderIds, CancelOrder(p, o) PROVE StatusInv'
  <2>1. /\ status' = [status EXCEPT ![o] = "cancelled"] /\ UNCHANGED <<state, items>>
        /\ proc'[p] = [at |-> "unlink", o |-> o]
        /\ \A q \in Procs \ {p} : proc'[q] = proc[q]
        /\ Mixes
    BY <1>5 DEF CancelOrder, Goes, UnlinkAt, TypeOK
  <2>2. CASE mixed'
    BY <2>1, <2>2 DEF StatusInv
  <2>3. CASE ~mixed'
    <3>1. ~mixed /\ \A q \in Procs : proc[q] = Idle
      BY <2>1, <2>3 DEF Mixes
    <3>2. \A n \in OrderIds : \A q \in Procs : ~Covers(q, n)
      BY <1>0, <3>1 DEF Covers, InHand
    <3>3. \A n \in OrderIds \ {o} : status'[n] = status[n] /\ (Derived(n)' <=> Derived(n))
      BY <2>1 DEF Derived, StatesOf, TypeOK
    <3>4. status'[o] = "cancelled"
      BY <2>1 DEF TypeOK
    <3> QED BY <1>0, <2>1, <3>1, <3>2, <3>3, <3>4 DEF StatusInv
  <2> QED BY <2>2, <2>3
<1>6. ASSUME NEW p \in Procs, NEW o \in OrderIds, NEW S \in SUBSET Tracks, CreateOrder(p, o, S)
      PROVE  StatusInv'
  <2>1. /\ status[o] = "none" /\ status' = [status EXCEPT ![o] = "open"]
        /\ items' = [items EXCEPT ![o] = S] /\ Mixes
        /\ \A t \in S : state'[t] # "none"
        /\ \A t \in Tracks : state[t] # "none" => state'[t] = state[t]
    BY <1>6 DEF CreateOrder
  <2>2. /\ proc'[p] = [at |-> "read", o |-> o, left |-> {}]
        /\ \A q \in Procs \ {p} : proc'[q] = proc[q]
    BY <1>6 DEF CreateOrder, Goes, ReadAt, TypeOK
  <2>3. \A n \in OrderIds : \A t \in items'[n] : state'[t] # "none"
    BY <2>1 DEF StatusInv, TypeOK
  <2>4. CASE mixed'
    BY <2>3, <2>4 DEF StatusInv
  <2>5. CASE ~mixed'
    <3>1. ~mixed /\ \A q \in Procs : proc[q] = Idle
      BY <2>1, <2>5 DEF Mixes
    <3>2. \A n \in OrderIds : \A q \in Procs : ~Covers(q, n)
      BY <1>0, <3>1 DEF Covers, InHand
    <3>3. ASSUME NEW n \in OrderIds, n # o PROVE status'[n] = status[n] /\ (Derived(n)' <=> Derived(n))
      <4>1. items'[n] = items[n] /\ status'[n] = status[n] /\ items[n] \subseteq Tracks
        BY <2>1, <3>3 DEF TypeOK
      <4>2. \A t \in items[n] : state'[t] = state[t]
        BY <2>1, <4>1 DEF StatusInv
      <4>3. StatesOf(n)' = StatesOf(n)
        BY <4>1, <4>2 DEF StatesOf
      <4> QED BY <4>1, <4>3 DEF Derived
    <3>4. Covers(p, o)'
      BY <2>2 DEF Covers, InHand
    <3> QED BY <1>0, <2>2, <2>3, <3>1, <3>2, <3>3, <3>4 DEF StatusInv
  <2> QED BY <2>4, <2>5
<1>7. ASSUME NEW p \in Procs, NEW t \in Tracks, NEW s \in TrackStates, MoveTrack(p, t, s)
      PROVE  StatusInv'
  <2>1. /\ UNCHANGED <<status, items>> /\ Mixes
        /\ state' = [state EXCEPT ![t] = s] /\ s # "none"
        /\ proc'[p] = [at |-> "ids", t |-> t]
        /\ \A q \in Procs \ {p} : proc'[q] = proc[q]
    BY <1>7 DEF MoveTrack, WriteState, Goes, ReadIds, TypeOK, TrackStates, OpenStates
  <2>2. \A n \in OrderIds : \A u \in items'[n] : state'[u] # "none"
    BY <2>1 DEF StatusInv, TypeOK
  <2>3. CASE mixed'
    BY <2>2, <2>3 DEF StatusInv
  <2>4. CASE ~mixed'
    <3>1. ~mixed /\ \A q \in Procs : proc[q] = Idle
      BY <2>1, <2>4 DEF Mixes
    <3>2. \A n \in OrderIds : \A q \in Procs : ~Covers(q, n)
      BY <1>0, <3>1 DEF Covers, InHand
    <3>3. ASSUME NEW n \in OrderIds, ~Covers(p, n)' PROVE Derived(n)' <=> Derived(n)
      <4>1. t \notin items[n] /\ items'[n] = items[n] /\ items[n] \subseteq Tracks
        BY <2>1, <3>3 DEF Covers, TypeOK
      <4>2. \A u \in items[n] : state'[u] = state[u]
        BY <2>1, <4>1 DEF TypeOK
      <4>3. StatesOf(n)' = StatesOf(n)
        BY <4>1, <4>2 DEF StatesOf
      <4> QED BY <2>1, <4>3 DEF Derived
    <3> QED BY <1>0, <2>1, <2>2, <3>1, <3>2, <3>3 DEF StatusInv
  <2> QED BY <2>3, <2>4
<1>8. CASE Crash
  <2>1. UNCHANGED <<state, status, items>> /\ Mixes /\ \A q \in Procs : proc'[q] = Idle
    BY <1>8 DEF Crash
  <2>2. CASE mixed'
    BY <2>1, <2>2 DEF StatusInv
  <2>3. CASE ~mixed'
    <3>1. ~mixed /\ \A q \in Procs : proc[q] = Idle
      BY <2>1, <2>3 DEF Mixes
    <3>2. \A n \in OrderIds : \A q \in Procs : ~Covers(q, n)
      BY <1>0, <3>1 DEF Covers, InHand
    <3>3. \A n \in OrderIds : Derived(n)' <=> Derived(n)
      BY <2>1 DEF Derived, StatesOf
    <3> QED BY <1>0, <2>1, <3>1, <3>2, <3>3 DEF StatusInv
  <2> QED BY <2>2, <2>3
<1>9. CASE UNCHANGED vars
  <2>1. \A n \in OrderIds : (Derived(n)' <=> Derived(n)) /\ StatesOf(n)' = StatesOf(n)
    BY <1>9 DEF vars, Derived, StatesOf
  <2>2. \A n \in OrderIds, p \in Procs : Covers(p, n)' <=> Covers(p, n)
    BY <1>9 DEF vars, Covers, InHand
  <2>3. \A p \in Procs : proc[p].at = "write" => proc[p].o \in OrderIds
    BY CallShape
  <2> QED BY <1>9, <2>1, <2>2, <2>3 DEF vars, StatusInv
<1> QED BY <1>1, <1>2, <1>3, <1>4, <1>5, <1>6, <1>7, <1>8, <1>9 DEF Next

\* Every variable keeps its type.
THEOREM OrdersTypeCorrect == Spec => []TypeOK
BY InitTypes, NextTypes, PTL DEF Spec

\* However many processes refresh an order from states read at different
\* times, and wherever they die: a done order counts no track that was never
\* ready, and the refresh for one that no longer is so is under way unless
\* calls have overlapped or been cut off.
THEOREM DoneHolds == Spec => []DoneIsReady
<1>1. TypeOK /\ DoneInv /\ StatusInv => DoneIsReady
  <2> SUFFICES ASSUME TypeOK, DoneInv, StatusInv,
                      NEW o \in OrderIds, status[o] = "done",
                      NEW t \in items[o], state[t] # "ready"
               PROVE  t \in delivered /\ (mixed \/ \E p \in Procs : Covers(p, o))
    BY DEF DoneIsReady
  <2>1. t \in delivered
    BY DEF DoneInv, AllDelivered
  <2>2. ASSUME ~mixed, \A p \in Procs : ~Covers(p, o) PROVE FALSE
    <3>1. Derive(StatesOf(o)) = "done"
      BY <2>2 DEF StatusInv, Derived
    <3>2. StatesOf(o) = {"ready"}
      BY <3>1 DEF Derive
    <3> QED BY <3>2 DEF StatesOf
  <2> QED BY <2>1, <2>2
<1> QED BY <1>1, InitTypes, NextTypes, DoneNext, InitStatus, StatusNext, PTL DEF Spec

\* As long as calls do not overlap, a status at rest is what the tracks say,
\* for any number of tracks, orders and processes.
THEOREM StatusHolds == Spec => []StatusDerived
<1>1. TypeOK /\ StatusInv => StatusDerived
  <2> SUFFICES ASSUME StatusInv, ~mixed, \A p \in Procs : proc[p] = Idle,
                      NEW o \in OrderIds, status[o] \notin {"none", "cancelled"}
               PROVE  Derived(o)
    BY DEF StatusDerived, Derived
  <2>1. \A p \in Procs : ~Covers(p, o)
    BY DEF Covers, InHand, Idle
  <2> QED BY <2>1 DEF StatusInv
<1> QED BY <1>1, InitTypes, NextTypes, InitStatus, StatusNext, PTL DEF Spec

\* A cancelled and unlinked order that no refresh has in hand stays cancelled.
THEOREM CancelHolds == Spec => CancelFinal
<1> DEFINE Kept(o) == status'[o] = "cancelled" /\ OutOfHand(o)'
<1>1. ASSUME TypeOK, [Next]_vars PROVE CancelStep
  <2> USE <1>1
  <2> SUFFICES ASSUME NEW o \in OrderIds,
                      status[o] = "cancelled", items[o] = {}, OutOfHand(o)
               PROVE  Kept(o)
    BY DEF CancelStep
  <2> USE DEF InHand, OutOfHand
  <2>1. ASSUME NEW p \in Procs, ReadOrders(p) PROVE Kept(o)
    <3>1. OrdersOf(proc[p].t) \in SUBSET OrderIds /\ o \notin OrdersOf(proc[p].t)
      BY DEF OrdersOf
    <3> QED BY <2>1, <3>1, NextOrderShape DEF ReadOrders, TypeOK
  <2>2. ASSUME NEW p \in Procs, ReadStates(p) PROVE Kept(o)
    BY <2>2 DEF ReadStates, Goes, WriteAt, TypeOK
  <2>3. ASSUME NEW p \in Procs, WriteStatus(p) PROVE Kept(o)
    <3>1. proc[p].at = "write" /\ proc[p].o \in OrderIds /\ proc[p].left \in SUBSET OrderIds
      BY <2>3, CallShape DEF WriteStatus
    <3>2. o # proc[p].o /\ o \notin proc[p].left
      BY <3>1
    <3> QED BY <2>3, <3>1, <3>2, NextOrderShape DEF WriteStatus, TypeOK
  <2>4. ASSUME NEW p \in Procs, Unlink(p) PROVE Kept(o)
    BY <2>4 DEF Unlink, Goes, Idle, TypeOK
  <2>5. ASSUME NEW p \in Procs, NEW c \in OrderIds, CancelOrder(p, c) PROVE Kept(o)
    BY <2>5 DEF CancelOrder, Goes, UnlinkAt, TypeOK
  <2>6. ASSUME NEW p \in Procs, NEW c \in OrderIds, NEW S \in SUBSET Tracks, CreateOrder(p, c, S)
        PROVE  Kept(o)
    BY <2>6 DEF CreateOrder, Goes, ReadAt, TypeOK
  <2>7. ASSUME NEW p \in Procs, NEW t \in Tracks, NEW s \in TrackStates, MoveTrack(p, t, s)
        PROVE  Kept(o)
    BY <2>7 DEF MoveTrack, Goes, ReadIds, TypeOK
  <2>8. CASE Crash
    BY <2>8 DEF Crash, Idle
  <2>9. CASE UNCHANGED vars
    BY <2>9 DEF vars
  <2> QED BY <2>1, <2>2, <2>3, <2>4, <2>5, <2>6, <2>7, <2>8, <2>9 DEF Next
<1>2. TypeOK /\ [Next]_vars => [CancelStep]_vars
  BY <1>1
<1> QED BY <1>2, InitTypes, NextTypes, PTL DEF Spec, CancelFinal

-----------------------------------------------------------------------------
(* The run's composition of Orders and Analysis. *)

AnP == INSTANCE AnalysisProofs WITH crashes <- anCrashes

\* The two instances of Analysis, the run's and the proofs', are one.
LEMMA SameAnalysis == /\ An!Init <=> AnP!Init
                      /\ An!Next <=> AnP!Next
                      /\ UNCHANGED An!vars <=> UNCHANGED AnP!vars
                      /\ An!GuardExact <=> AnP!GuardExact
<1>1. An!Init <=> AnP!Init
  BY DEF An!Init, AnP!Init, An!QueueInit, AnP!QueueInit, An!NoTask, AnP!NoTask
<1>2. An!Next <=> AnP!Next
  BY DEF An!Cardinality, AnP!Cardinality, An!Next, AnP!Next, An!NoTask, AnP!NoTask, An!Known, AnP!Known, An!Running,
         AnP!Running, An!Insert, AnP!Insert, An!Rearm, AnP!Rearm, An!Enqueue, AnP!Enqueue,
         An!EnqueueIfAbsent, AnP!EnqueueIfAbsent, An!ClaimRow, AnP!ClaimRow, An!Settle,
         AnP!Settle, An!Finish, AnP!Finish, An!Fail, AnP!Fail, An!Requeue, AnP!Requeue,
         An!OutOfTries, AnP!OutOfTries, An!Ages, AnP!Ages, An!Stale, AnP!Stale, An!Wake,
         AnP!Wake, An!FreeSlots, AnP!FreeSlots, An!CountSlots, AnP!CountSlots, An!Due,
         AnP!Due, An!Before, AnP!Before, An!IsNext, AnP!IsNext, An!NextItems,
         AnP!NextItems, An!Claim, AnP!Claim, An!SkipClaimed, AnP!SkipClaimed,
         An!DrainDone, AnP!DrainDone, An!HoldElapses, AnP!HoldElapses, An!Live, AnP!Live,
         An!Attended, AnP!Attended, An!MarkReady, AnP!MarkReady, An!PushMetadata,
         AnP!PushMetadata, An!CreateWork, AnP!CreateWork, An!Open, AnP!Open,
         An!Unanalysed, AnP!Unanalysed, An!ReadUnanalysed, AnP!ReadUnanalysed, An!Fill,
         AnP!Fill, An!FillDone, AnP!FillDone, An!ClaimTrack, AnP!ClaimTrack, An!Drain,
         AnP!Drain, An!SpawnAnalysis, AnP!SpawnAnalysis, An!Tick, AnP!Tick, An!At, AnP!At,
         An!GoTo, AnP!GoTo, An!Permitted, AnP!Permitted, An!StartTask, AnP!StartTask,
         An!Answered, AnP!Answered, An!NotAnswered, AnP!NotAnswered, An!Store, AnP!Store,
         An!ReadTries, AnP!ReadTries, An!SettleItem, AnP!SettleItem, An!Release,
         AnP!Release, An!Task, AnP!Task, An!Elapse, AnP!Elapse, An!Unblock, AnP!Unblock,
         An!Crash, AnP!Crash, An!queueVars, AnP!queueVars, An!drainVars, AnP!drainVars,
         An!rowVars, AnP!rowVars
<1>3. UNCHANGED An!vars <=> UNCHANGED AnP!vars
  BY DEF An!vars, AnP!vars, An!queueVars, AnP!queueVars, An!drainVars, AnP!drainVars,
         An!rowVars, AnP!rowVars
<1>4. An!GuardExact <=> AnP!GuardExact
  BY DEF An!GuardExact, AnP!GuardExact, An!Attended, AnP!Attended, An!Live, AnP!Live,
         An!NoTask, AnP!NoTask
<1> QED
  BY <1>1, <1>2, <1>3, <1>4

\* In the run's composition, too, a track is guarded exactly while one task
\* analyses it (worker.rs:1182-1188).
THEOREM GuardExactHolds == MCSpec => []GuardExact
<1>1. MCInit => AnP!Init
  BY SameAnalysis DEF MCInit
<1>2. [MCNext]_<<part, vars, anVars, feVars>> => [AnP!Next]_AnP!vars
  <2>1. [MCNext]_<<part, vars, anVars, feVars>> => An!Next \/ UNCHANGED An!vars
    BY DEF MCNext, anVars, An!vars, An!queueVars, An!drainVars, An!rowVars
  <2> QED
    BY <2>1, SameAnalysis
<1>3. MCSpec => AnP!Spec
  BY <1>1, <1>2, PTL DEF MCSpec, AnP!Spec
<1>4. AnP!IsFiniteSet(Refs)
  BY AnAssumption DEF IsFiniteSet, AnP!IsFiniteSet
<1>5. AnP!Spec => []AnP!GuardExact
  <2>1. /\ MaxTries \in Nat \ {0} /\ MaxRunning \in Nat \ {0} /\ StaleTicks \in Nat \ {0}
        /\ Batch \in Nat \ {0} /\ Prios \subseteq Nat
    BY AnAssumption
  <2> QED
    BY <1>4, <2>1, AnP!GuardHolds
<1>6. AnP!GuardExact => GuardExact
  BY SameAnalysis DEF GuardExact
<1> QED
  BY <1>3, <1>5, <1>6, PTL
=============================================================================
