------------------------------- MODULE Store -------------------------------
(***************************************************************************)
(* The object store of music-api (store.rs): files named by the hash of    *)
(* their bytes, and a row for each in store_objects.  PUT, DELETE, import  *)
(* and the orphan prune run concurrently, and none of them holds a lock or *)
(* a transaction: an action is one system call or one SQL statement.       *)
(*                                                                         *)
(* The bytes are left out: a file is put in place by a rename and is never *)
(* rewritten.  oldFile and oldRow say that the file's mtime and the row's  *)
(* created_at are past the grace period of the prune.                      *)
(***************************************************************************)
EXTENDS Integers

CONSTANTS Hashes, Procs,
          MaxCrashes    \* bound: process crashes

VARIABLES file, row,         \* the hashes that have one
          oldFile, oldRow,   \* those past the grace period
          op,                \* the call each process is in
          acked,             \* objects a client knows to be stored
          past,              \* history: "prune" once the orphan prune ran, "other" once
                             \* anything but PUT and the prune did
          crashes

objVars == <<file, row, oldFile, oldRow>>
vars == <<objVars, op, acked, past, crashes>>

\* `alone`: no DELETE of the hash has overlapped the PUT so far.
Idle == [at |-> "idle"]
PutAt(pc, h, alone) == [at |-> pc, h |-> h, alone |-> alone]
At(pc, h) == [at |-> pc, h |-> h]
\* The prune: rows it read, those of them past the grace period, what is left
\* of the walk, and the hash it is about to remove.
Scan(pc, known, aged, left) == [at |-> pc, known |-> known, aged |-> aged, left |-> left]

PutSteps  == {"body", "record", "rename", "unrecord", "ensure"}
CallSteps == {"delfile", "delrow", "place", "placed"}
ScanSteps == {"walk", "rows"}
Calls ==
  {Idle} \cup [at : PutSteps, h : Hashes, alone : BOOLEAN]
         \cup [at : CallSteps, h : Hashes]
         \cup [at : ScanSteps, known : SUBSET Hashes, aged : SUBSET Hashes,
               left : SUBSET Hashes]
         \cup [at : {"rmfile", "rmrow"}, h : Hashes, known : SUBSET Hashes,
               aged : SUBSET Hashes, left : SUBSET Hashes]

TypeOK ==
  /\ file \subseteq Hashes /\ row \subseteq Hashes
  /\ oldFile \subseteq file /\ oldRow \subseteq row
  /\ op \in [Procs -> Calls]
  /\ acked \subseteq Hashes /\ past \subseteq {"prune", "other"}
  /\ crashes \in Nat

Init ==
  /\ file = {} /\ row = {} /\ oldFile = {} /\ oldRow = {}
  /\ op = [p \in Procs |-> Idle]
  /\ acked = {} /\ past = {} /\ crashes = 0

Goes(p, call) == op' = [op EXCEPT ![p] = call]
Marks(kinds) == past' = past \cup kinds
Deleting(h) == \E p \in Procs : op[p].at \in {"delfile", "delrow"} /\ op[p].h = h

\* INSERT ... ON CONFLICT: a row that is there keeps its created_at.
EnsureRow(h) ==
  /\ row' = row \cup {h}
  /\ UNCHANGED <<file, oldFile, oldRow>>
DropRow(h) ==
  /\ row' = row \ {h} /\ oldRow' = oldRow \ {h}
  /\ UNCHANGED <<file, oldFile>>
DropFile(h) ==
  /\ file' = file \ {h} /\ oldFile' = oldFile \ {h}
  /\ UNCHANGED <<row, oldRow>>

\* What the answer of a PUT tells the client.
Acks(p) == acked' = IF op[p].alone THEN acked \cup {op[p].h} ELSE acked

\* A new file is too young for the walks that are under way, which take less
\* time than the grace period: they pass it by.
Passed(call, h) == IF call.at = "walk" THEN [call EXCEPT !.left = @ \ {h}] ELSE call
Land(p, h, call) ==
  /\ file' = file \cup {h} /\ oldFile' = oldFile \ {h}
  /\ op' = [q \in Procs |-> IF q = p THEN call ELSE Passed(op[q], h)]

-----------------------------------------------------------------------------
(* PUT /objects/{sha256}. *)

PutStat(p, h) ==
  /\ op[p] = Idle
  /\ Goes(p, PutAt(IF h \in file THEN "ensure" ELSE "body", h, ~Deleting(h)))
  /\ UNCHANGED <<objVars, acked, past, crashes>>

\* The body is written to tmp/ and hashed; it may break off or not match, or
\* its row cannot be written.
PutBody(p) ==
  /\ op[p].at = "body"
  /\ Goes(p, [op[p] EXCEPT !.at = "record"]) \/ Goes(p, Idle)
  /\ UNCHANGED <<objVars, acked, past, crashes>>

PutRecord(p) ==
  /\ op[p].at = "record" /\ EnsureRow(op[p].h)
  /\ Goes(p, [op[p] EXCEPT !.at = "rename"])
  /\ UNCHANGED <<acked, past, crashes>>

PutRename(p) ==
  /\ op[p].at = "rename" /\ Land(p, op[p].h, Idle) /\ Acks(p)
  /\ UNCHANGED <<row, oldRow, past, crashes>>

RenameFailed(p) ==
  /\ op[p].at = "rename"
  /\ Goes(p, [op[p] EXCEPT !.at = "unrecord"])
  /\ Marks({"prune", "other"})
  /\ UNCHANGED <<objVars, acked, crashes>>

PutUnrecord(p) ==
  /\ op[p].at = "unrecord" /\ DropRow(op[p].h) /\ Goes(p, Idle)
  /\ UNCHANGED <<acked, past, crashes>>

PutEnsure(p) ==
  /\ op[p].at = "ensure" /\ EnsureRow(op[p].h) /\ Acks(p) /\ Goes(p, Idle)
  /\ UNCHANGED <<past, crashes>>

\* (mutant: the file is published first)
PutFileFirst(p) ==
  \/ PutBody(p) \/ PutEnsure(p)
  \/ /\ op[p].at = "record" /\ Land(p, op[p].h, [op[p] EXCEPT !.at = "rename"])
     /\ UNCHANGED <<row, oldRow, acked, past, crashes>>
  \/ /\ op[p].at = "rename" /\ EnsureRow(op[p].h) /\ Acks(p) /\ Goes(p, Idle)
     /\ UNCHANGED <<past, crashes>>
Put(p) ==
  \/ PutBody(p) \/ PutRecord(p) \/ PutRename(p) \/ RenameFailed(p)
  \/ PutUnrecord(p) \/ PutEnsure(p)

-----------------------------------------------------------------------------
(* delete_object, import_file. *)

\* The removal of the file or of the row fails, and the call ends there.
RemovalFails(p) ==
  /\ op[p].at \in {"unrecord", "delfile", "delrow"}
  /\ Goes(p, Idle)
  /\ Marks({"prune", "other"})
  /\ UNCHANGED <<objVars, acked, crashes>>

\* A client that deletes an object no longer counts on it.
DeleteStart(p, h) ==
  /\ op[p] = Idle
  /\ op' = [q \in Procs |->
              IF q = p THEN At("delfile", h)
              ELSE IF op[q].at \in PutSteps /\ op[q].h = h
              THEN [op[q] EXCEPT !.alone = FALSE] ELSE op[q]]
  /\ acked' = acked \ {h}
  /\ Marks({"other"})
  /\ UNCHANGED <<objVars, crashes>>

Delete(p) ==
  \/ /\ op[p].at = "delfile" /\ DropFile(op[p].h)
     /\ Goes(p, At("delrow", op[p].h))
     /\ UNCHANGED <<acked, past, crashes>>
  \/ /\ op[p].at = "delrow" /\ DropRow(op[p].h)
     /\ Goes(p, Idle)
     /\ UNCHANGED <<acked, past, crashes>>

ImportStart(p, h) ==
  /\ op[p] = Idle
  /\ Goes(p, At(IF h \in file THEN "placed" ELSE "place", h))
  /\ Marks({"other"})
  /\ UNCHANGED <<objVars, acked, crashes>>

\* The rename keeps the mtime of the source, which may be old.
Import(p) ==
  \/ /\ op[p].at = "place"
     /\ \/ Land(p, op[p].h, At("placed", op[p].h))
        \/ /\ file' = file \cup {op[p].h} /\ oldFile' = oldFile \cup {op[p].h}
           /\ Goes(p, At("placed", op[p].h))
     /\ UNCHANGED <<row, oldRow, acked, past, crashes>>
  \/ /\ op[p].at = "placed" /\ EnsureRow(op[p].h)
     /\ Goes(p, Idle)
     /\ UNCHANGED <<acked, past, crashes>>

-----------------------------------------------------------------------------
(* POST /objects/prune/orphans. *)

ScanStart(p) ==
  /\ op[p] = Idle
  /\ Goes(p, Scan("walk", row, oldRow, Hashes))
  /\ Marks({"prune"})
  /\ UNCHANGED <<objVars, acked, crashes>>

OrphanFile(c, h) == h \in file /\ h \notin c.known /\ h \in oldFile
\* (mutant: no grace period)
OrphanRowNow(c, h) == h \notin file
\* (mutant: the comparison of the ages is the wrong way round)
OrphanRowYoung(c, h) == h \notin file /\ h \notin c.aged
OrphanRow(c, h) == h \notin file /\ h \in c.aged

Removing(c, pc, h) ==
  [at |-> pc, h |-> h, known |-> c.known, aged |-> c.aged, left |-> c.left \ {h}]

\* The walk comes to h; then each row that was read is looked up.
Walk(p, h) ==
  LET c == op[p] IN
  /\ c.at = "walk" /\ h \in c.left
  /\ Goes(p, IF OrphanFile(c, h) THEN Removing(c, "rmfile", h)
             ELSE [c EXCEPT !.left = @ \ {h}])
  /\ UNCHANGED <<objVars, acked, past, crashes>>

WalkDone(p) ==
  LET c == op[p] IN
  /\ c.at = "walk" /\ c.left = {}
  /\ Goes(p, Scan("rows", c.known, c.aged, c.known))
  /\ UNCHANGED <<objVars, acked, past, crashes>>

LookUp(p, h) ==
  LET c == op[p] IN
  /\ c.at = "rows" /\ h \in c.left
  /\ Goes(p, IF OrphanRow(c, h) THEN Removing(c, "rmrow", h)
             ELSE [c EXCEPT !.left = @ \ {h}])
  /\ UNCHANGED <<objVars, acked, past, crashes>>

LookUpDone(p) ==
  /\ op[p].at = "rows" /\ op[p].left = {} /\ Goes(p, Idle)
  /\ UNCHANGED <<objVars, acked, past, crashes>>

Remove(p) ==
  LET c == op[p] IN
  /\ \/ /\ c.at = "rmfile" /\ DropFile(c.h)
        /\ Goes(p, Scan("walk", c.known, c.aged, c.left))
     \/ /\ c.at = "rmrow" /\ DropRow(c.h)
        /\ Goes(p, Scan("rows", c.known, c.aged, c.left))
  /\ UNCHANGED <<acked, past, crashes>>

Prune(p) ==
  \/ WalkDone(p) \/ LookUpDone(p) \/ Remove(p)
  \/ \E h \in Hashes : Walk(p, h) \/ LookUp(p, h)

-----------------------------------------------------------------------------

\* The grace period passes.  A PUT gets from its row to its file within it.
FileAges(h) ==
  /\ h \in file \ oldFile /\ oldFile' = oldFile \cup {h}
  /\ UNCHANGED <<file, row, oldRow, op, acked, past, crashes>>

RowAges(h) ==
  /\ h \in row \ oldRow
  /\ \A p \in Procs : ~(op[p].at = "rename" /\ op[p].h = h)
  /\ oldRow' = oldRow \cup {h}
  /\ UNCHANGED <<file, row, oldFile, op, acked, past, crashes>>

Crash ==
  /\ crashes < MaxCrashes /\ crashes' = crashes + 1
  /\ Marks({"other"})
  /\ op' = [p \in Procs |-> Idle]
  /\ UNCHANGED <<objVars, acked>>

Next ==
  \/ \E p \in Procs :
       \/ Put(p) \/ Delete(p) \/ RemovalFails(p) \/ Import(p) \/ ScanStart(p) \/ Prune(p)
       \/ \E h \in Hashes : PutStat(p, h) \/ DeleteStart(p, h) \/ ImportStart(p, h)
  \/ \E h \in Hashes : FileAges(h) \/ RowAges(h)
  \/ Crash

Spec == Init /\ [][Next]_vars

\* Calls end, time passes, and someone calls the orphan prune again and again.
FairSpec ==
  /\ Spec
  /\ \A p \in Procs : /\ WF_vars(Put(p)) /\ WF_vars(Delete(p)) /\ WF_vars(Import(p))
                      /\ WF_vars(Prune(p)) /\ WF_vars(ScanStart(p))
  /\ \A h \in Hashes : WF_vars(FileAges(h)) /\ WF_vars(RowAges(h))

-----------------------------------------------------------------------------
(* Properties. *)

\* A rename or a removal that fails counts as all of the past there is.
OnlyPuts  == "other" \notin past    \* nothing but PUTs and prunes so far
NoPrune   == "prune" \notin past    \* anything but the prune

\* An object whose PUT was answered keeps its file and its row until somebody
\* asks for its deletion (store.rs:238-240): where objects are put and pruned,
\* and where they are put, deleted and imported and the process dies.
AckedKept == OnlyPuts \/ NoPrune => \A h \in acked : h \in file /\ h \in row

\* Where objects are put and pruned, a file never lacks its row: that is the one
\* state the orphan prune reclaims (store.rs:328-330).
FileHasRow == OnlyPuts => file \subseteq row

\* Once no one but the prune is at work, files and rows come to agree and stay
\* so, whatever crashes and races left behind (prune_orphans).
Quiet == \A p \in Procs : op[p].at \in {"idle", "rmfile", "rmrow"} \cup ScanSteps
Reconciles == <>[]Quiet => <>[](file = row)
=============================================================================
