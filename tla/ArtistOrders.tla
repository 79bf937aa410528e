---------------------------- MODULE ArtistOrders ----------------------------
(***************************************************************************)
(* Artist orders (music-api/src/worker.rs, api.rs, db.rs):                 *)
(* a POST or a lead creates an order, deemix is asked to download the      *)
(* discography, the tick polls deemix's queue and ingests what it wrote.   *)
(*                                                                         *)
(* An order is submitted by its handler and by the tick, neither of which  *)
(* looks at the row again after its awaits.  items[o] are the downloads    *)
(* that deemix has made of o, in the order it accepted them; handle[o] is  *)
(* the one the row names, 0 when deemix gave no name.                      *)
(***************************************************************************)
EXTENDS Integers, Sequences, FiniteSets

CONSTANTS Orders,      \* identities of orders
          MaxItems,    \* bound: submissions of an order that deemix accepts
          MaxErrors,   \* bound: answers of deemix that are lost
          MaxCrashes   \* bound: process crashes

VARIABLES status, handle, stale, older,    \* the rows
          items, landed, errors,           \* deemix: queue, files, lost answers
          phase, batch,                    \* the tick: what it read
          sub,                             \* submissions in progress
          job,                             \* ingest tasks
          sent, crashes                    \* history: orders sent once, twice

rowVars  == <<status, handle, stale, older>>
deemix   == <<items, landed, errors>>
tickVars == <<phase, batch>>
vars == <<rowVars, deemix, tickVars, sub, job, sent, crashes>>

Settled == {"done", "failed"}
\* Who may submit: the handler of each order, and the tick.
Procs == Orders \cup {"tick"}
Idle == [pc |-> "idle"]
Subs == {Idle} \cup [pc : {"login", "send", "rejected"}, o : Orders]
               \cup [pc : {"queued"}, o : Orders, k : 0..MaxItems]
\* What the tick has read: a row, and in its place what the queue said of it.
Rows == [o : Orders, handle : 0..MaxItems, stale : BOOLEAN]
Polls == [o : Orders, says : {"downloading", "success", "failed", "gone", "lapsed"}]
NoJob == [pc |-> "none"]
Jobs == {NoJob} \cup [pc : {"scan", "added", "nothing"}, terminal : BOOLEAN]

TypeOK ==
  /\ status \in [Orders -> {"none", "open", "running"} \cup Settled]
  /\ handle \in [Orders -> 0..MaxItems] /\ stale \in [Orders -> BOOLEAN]
  /\ older \in [Orders -> SUBSET Orders]
  /\ items \in [Orders -> Seq({"downloading", "success", "failed", "gone"})]
  /\ \A o \in Orders : Len(items[o]) <= MaxItems
  /\ landed \subseteq Orders /\ errors \in 0..MaxErrors
  /\ phase \in {"rest", "submit", "read", "ask", "poll", "lead"}
  /\ batch \subseteq Rows \cup Polls
  /\ sub \in [Procs -> Subs] /\ job \in [Orders -> Jobs]
  /\ sent \in [Orders -> 0..2] /\ crashes \in 0..MaxCrashes

Init ==
  /\ status = [o \in Orders |-> "none"] /\ handle = [o \in Orders |-> 0]
  /\ stale = [o \in Orders |-> FALSE] /\ older = [o \in Orders |-> {}]
  /\ items = [o \in Orders |-> <<>>] /\ landed = {} /\ errors = 0
  /\ phase = "rest" /\ batch = {}
  /\ sub = [p \in Procs |-> Idle] /\ job = [o \in Orders |-> NoJob]
  /\ sent = [o \in Orders |-> 0] /\ crashes = 0

-----------------------------------------------------------------------------
(* Rows. *)

CreateRow(o) ==
  /\ status[o] = "none"
  /\ status' = [status EXCEPT ![o] = "open"]
  /\ older'  = [older EXCEPT ![o] = landed]
  /\ UNCHANGED <<handle, stale>>

\* (mutant: deemix's word for it is stored)
MarkWord(o, s) ==
  /\ status' = [status EXCEPT ![o] = IF s = "done" THEN "success" ELSE s]
  /\ stale'  = [stale EXCEPT ![o] = FALSE]
  /\ UNCHANGED older
\* Every mark is an UPDATE by id, whatever the row says by then.
Mark(o, s) ==
  /\ status' = [status EXCEPT ![o] = s]
  /\ stale'  = [stale EXCEPT ![o] = FALSE]
  /\ UNCHANGED older

\* A row left alone for ARTIST_ORDER_STALE_SECS.
GrowStale(o) ==
  /\ status[o] = "running" /\ ~stale[o]
  /\ stale' = [stale EXCEPT ![o] = TRUE]
  /\ UNCHANGED <<status, handle, older, deemix, tickVars, sub, job, sent, crashes>>

-----------------------------------------------------------------------------
(* Submission: the handler's after a login of its own, the tick's for each *)
(* order it read as open, the lead's for the order it has just made.       *)

Goes(p, rec) == sub' = [sub EXCEPT ![p] = rec]

Post(o) ==
  /\ CreateRow(o) /\ sub[o] = Idle
  /\ Goes(o, [pc |-> "login", o |-> o])
  /\ UNCHANGED <<handle, stale, deemix, tickVars, job, sent, crashes>>

\* ensure_deemix_login: the order stays open while deemix is not ready.
Login(p, ready) ==
  /\ sub[p].pc = "login"
  /\ Goes(p, IF ready THEN [pc |-> "send", o |-> sub[p].o] ELSE Idle)
  /\ UNCHANGED <<rowVars, deemix, tickVars, job, sent, crashes>>

\* add_to_queue; deemix may have taken an order whose answer is lost.
Accepted(o) ==
  /\ Len(items[o]) < MaxItems
  /\ items' = [items EXCEPT ![o] = Append(@, "downloading")]
  /\ UNCHANGED landed
Send(p) ==
  LET o == sub[p].o IN
  /\ sub[p].pc = "send"
  /\ \/ /\ Accepted(o) /\ UNCHANGED errors
        /\ \E k \in {0, Len(items'[o])} : Goes(p, [pc |-> "queued", o |-> o, k |-> k])
     \/ /\ Goes(p, [pc |-> "rejected", o |-> o])
        /\ UNCHANGED deemix
     \/ /\ errors < MaxErrors /\ errors' = errors + 1 /\ Goes(p, Idle)
        /\ Accepted(o) \/ UNCHANGED <<items, landed>>
  /\ sent' = [sent EXCEPT ![o] = IF @ = 2 THEN 2 ELSE @ + 1]
  /\ UNCHANGED <<rowVars, tickVars, job, crashes>>

\* mark_artist_order_running, mark_artist_order_failed.
MarkSubmitted(p) ==
  LET o == sub[p].o IN
  /\ \/ /\ sub[p].pc = "queued" /\ Mark(o, "running")
        /\ handle' = [handle EXCEPT ![o] = sub[p].k]
     \/ /\ sub[p].pc = "rejected" /\ Mark(o, "failed")
        /\ UNCHANGED handle
  /\ Goes(p, Idle)
  /\ UNCHANGED <<deemix, tickVars, job, sent, crashes>>

Submission(p) == Send(p) \/ MarkSubmitted(p) \/ \E ready \in BOOLEAN : Login(p, ready)

-----------------------------------------------------------------------------
(* advance_artist_orders: the open orders are read, then submitted one by  *)
(* one; the running ones are read, then deemix's queue, then each is       *)
(* settled by what the queue said of the handle it had.                    *)

RowsOf(s) == {[o |-> o, handle |-> handle[o], stale |-> stale[o]] :
                o \in {x \in Orders : status[x] = s}}

ReadOpen(ready) ==
  /\ phase = "rest"
  /\ IF ready THEN phase' = "submit" /\ batch' = RowsOf("open")
               ELSE phase' = "read" /\ UNCHANGED batch
  /\ UNCHANGED <<rowVars, deemix, sub, job, sent, crashes>>

SubmitNext(b) ==
  /\ phase = "submit" /\ sub["tick"] = Idle /\ b \in batch
  /\ batch' = batch \ {b} /\ Goes("tick", [pc |-> "send", o |-> b.o])
  /\ UNCHANGED <<rowVars, deemix, phase, job, sent, crashes>>

SubmitDone ==
  /\ phase = "submit" /\ sub["tick"] = Idle /\ batch = {}
  /\ phase' = "read"
  /\ UNCHANGED <<rowVars, deemix, batch, sub, job, sent, crashes>>

ReadRunning ==
  /\ phase = "read" /\ batch' = RowsOf("running")
  /\ phase' = IF batch' = {} THEN "lead" ELSE "ask"
  /\ UNCHANGED <<rowVars, deemix, sub, job, sent, crashes>>

\* An item that is not in the queue is "gone", and "lapsed" when the row was
\* stale already.
\* (mutant: an item that is slow lapses too)
SaysImpatient(b) ==
  LET st == IF b.handle = 0 THEN "gone" ELSE items[b.o][b.handle] IN
  IF st \in {"gone", "downloading"} /\ b.stale THEN "lapsed" ELSE st
\* (mutant: nothing lapses)
SaysPatient(b) == IF b.handle = 0 THEN "gone" ELSE items[b.o][b.handle]
Says(b) ==
  LET st == IF b.handle = 0 THEN "gone" ELSE items[b.o][b.handle] IN
  IF st = "gone" /\ b.stale THEN "lapsed" ELSE st

GetQueue(ok) ==
  /\ phase = "ask"
  /\ IF ok THEN phase' = "poll" /\ batch' = {[o |-> b.o, says |-> Says(b)] : b \in batch}
           ELSE phase' = "lead" /\ batch' = {}
  /\ UNCHANGED <<rowVars, deemix, sub, job, sent, crashes>>

\* The per-order guard: nothing is spawned while a job of the order lives.
SpawnIngest(o, terminal) ==
  job' = IF job[o] # NoJob THEN job
         ELSE [job EXCEPT ![o] = [pc |-> "scan", terminal |-> terminal]]

Poll(b) ==
  /\ phase = "poll" /\ b \in batch /\ batch' = batch \ {b}
  /\ \/ b.says = "success" /\ SpawnIngest(b.o, TRUE) /\ UNCHANGED rowVars
     \/ b.says = "gone" /\ SpawnIngest(b.o, FALSE) /\ UNCHANGED rowVars
     \/ b.says \in {"failed", "lapsed"} /\ Mark(b.o, "failed") /\ UNCHANGED <<handle, job>>
     \/ b.says = "downloading" /\ UNCHANGED <<rowVars, job>>
  /\ UNCHANGED <<deemix, phase, sub, sent, crashes>>

PollDone ==
  /\ phase = "poll" /\ batch = {} /\ phase' = "lead"
  /\ UNCHANGED <<rowVars, deemix, batch, sub, job, sent, crashes>>

\* ingest_artist_downloads takes every file newer than the order, whoever's
\* download wrote it; a file without an ISRC is passed over.
Fresh(o) == landed \ older[o]
Scan(o) ==
  /\ job[o].pc = "scan"
  /\ \E found \in {"nothing"} \cup (IF Fresh(o) = {} THEN {} ELSE {"added"}) :
       job' = [job EXCEPT ![o].pc = found]
  /\ UNCHANGED <<rowVars, deemix, tickVars, sub, sent, crashes>>

SettleIngest(o) ==
  /\ job[o].pc \in {"added", "nothing"} /\ job' = [job EXCEPT ![o] = NoJob]
  /\ IF job[o].pc = "added" \/ job[o].terminal
       THEN Mark(o, "done") /\ UNCHANGED handle ELSE UNCHANGED rowVars
  /\ UNCHANGED <<deemix, tickVars, sub, sent, crashes>>

Ingest(o) == Scan(o) \/ SettleIngest(o)

-----------------------------------------------------------------------------
(* advance_crawl_leads makes orders too, one after the other, and submits  *)
(* each at once; their work items are in Leads.                            *)

LeadOrder(o) ==
  /\ phase = "lead" /\ sub["tick"] = Idle /\ CreateRow(o)
  /\ Goes("tick", [pc |-> "login", o |-> o])
  /\ UNCHANGED <<handle, stale, deemix, tickVars, job, sent, crashes>>

LeadsDone ==
  /\ phase = "lead" /\ sub["tick"] = Idle /\ phase' = "rest"
  /\ UNCHANGED <<rowVars, deemix, batch, sub, job, sent, crashes>>

Tick ==
  \/ SubmitDone \/ ReadRunning \/ PollDone \/ LeadsDone
  \/ \E b \in batch : SubmitNext(b) \/ Poll(b)
  \/ \E ok \in BOOLEAN : ReadOpen(ok) \/ GetQueue(ok)
  \/ \E o \in Orders : LeadOrder(o)

-----------------------------------------------------------------------------
(* deemix downloads, file by file; an item may leave the queue at any time. *)

Becomes(o, k, s) == items' = [items EXCEPT ![o][k] = s]
Land(o) ==
  /\ \E k \in DOMAIN items[o] : items[o][k] = "downloading"
  /\ o \notin landed /\ landed' = landed \cup {o}
  /\ UNCHANGED <<rowVars, items, errors, tickVars, sub, job, sent, crashes>>
Complete(o, k) ==
  /\ k \in DOMAIN items[o] /\ items[o][k] = "downloading"
  /\ \/ Becomes(o, k, "success") /\ landed' = landed \cup {o}
     \/ Becomes(o, k, "failed") /\ UNCHANGED landed
  /\ UNCHANGED <<rowVars, errors, tickVars, sub, job, sent, crashes>>
Evict(o, k) ==
  /\ k \in DOMAIN items[o] /\ items[o][k] # "gone" /\ Becomes(o, k, "gone")
  /\ UNCHANGED <<rowVars, landed, errors, tickVars, sub, job, sent, crashes>>

Crash ==
  /\ crashes < MaxCrashes /\ crashes' = crashes + 1
  /\ phase' = "rest" /\ batch' = {}
  /\ sub' = [p \in Procs |-> Idle] /\ job' = [o \in Orders |-> NoJob]
  /\ UNCHANGED <<rowVars, deemix, sent>>

Next ==
  \/ Tick \/ Crash
  \/ \E p \in Procs : Submission(p)
  \/ \E o \in Orders :
       \/ Post(o) \/ GrowStale(o) \/ Scan(o) \/ SettleIngest(o) \/ Land(o)
       \/ \E k \in 1..MaxItems : Complete(o, k) \/ Evict(o, k)

Spec == Init /\ [][Next]_vars

\* The tick, the tasks, the clock and deemix's downloads go on; a deemix that
\* is asked for ever is logged into, and answers, for ever.
FairSpec ==
  /\ Spec /\ WF_vars(Tick) /\ SF_vars(ReadOpen(TRUE)) /\ SF_vars(GetQueue(TRUE))
  /\ \A p \in Procs : WF_vars(Submission(p))
  /\ \A o \in Orders :
       /\ WF_vars(GrowStale(o)) /\ WF_vars(Ingest(o))
       /\ WF_vars(\E k \in 1..MaxItems : Complete(o, k))

-----------------------------------------------------------------------------
(* Properties. *)

\* Every order that is made is done or failed in the end, for good, however
\* its handler and the tick submit it twice and deemix loses its items
\* (worker.rs:29-31: "bounded lifetime").
OrdersEnd == \A o \in Orders : <>[](status[o] \in Settled \cup {"none"})

\* An order that was sent to deemix once, and knows its item, is not failed
\* while deemix downloads it, nor is any order failed before it was sent.
\* (Sent twice it may be: a rejection of the second submission fails it.)
FailsKnown ==
  \A o \in Orders :
    status[o] = "failed" /\ sent[o] < 2
      => sent[o] = 1 /\ (handle[o] = 0 \/ items[o][handle[o]] # "downloading")
=============================================================================
