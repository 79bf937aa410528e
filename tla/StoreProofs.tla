---------------------------- MODULE StoreProofs ----------------------------
(***************************************************************************)
(* What holds of the object store for any number of hashes and processes.  *)
(*                                                                         *)
(* Two kinds of past are safe, and one argument serves each.  Without the  *)
(* prune (DeleteInv), an answered PUT and a DELETE of the same object      *)
(* never overlap, so nobody takes away what was answered.  With the prune  *)
(* and nothing else but PUTs (PruneInv), every row past the grace period   *)
(* has its file, so a scan, whose rows were read at its start, finds       *)
(* nothing to remove.                                                      *)
(***************************************************************************)
EXTENDS Store, TLAPS

-----------------------------------------------------------------------------
(* Types. *)

PutCalls  == [at : PutSteps, h : Hashes, alone : BOOLEAN]
HashCalls == [at : CallSteps, h : Hashes]
ScanCalls == [at : ScanSteps, known : SUBSET Hashes, aged : SUBSET Hashes,
              left : SUBSET Hashes]
RmCalls   == [at : {"rmfile", "rmrow"}, h : Hashes, known : SUBSET Hashes,
              aged : SUBSET Hashes, left : SUBSET Hashes]

\* What a call in progress holds.
LEMMA CallShape ==
  ASSUME TypeOK, NEW p \in Procs
  PROVE  /\ op[p].at \in PutSteps => op[p] \in PutCalls
         /\ op[p].at \in CallSteps => op[p] \in HashCalls
         /\ op[p].at \in ScanSteps => op[p] \in ScanCalls
         /\ op[p].at \in {"rmfile", "rmrow"} => op[p] \in RmCalls
  BY DEF TypeOK, Calls, Idle, PutCalls, HashCalls, ScanCalls, RmCalls,
         PutSteps, CallSteps, ScanSteps

LEMMA CallKinds ==
  /\ Idle \in Calls
  /\ PutCalls \subseteq Calls /\ HashCalls \subseteq Calls
  /\ ScanCalls \subseteq Calls /\ RmCalls \subseteq Calls
  BY DEF Calls, PutCalls, HashCalls, ScanCalls, RmCalls

\* The statements keep the types of the files and the rows.
LEMMA ObjTypes ==
  ASSUME TypeOK, NEW h \in Hashes, EnsureRow(h) \/ DropRow(h) \/ DropFile(h)
  PROVE  /\ file' \subseteq Hashes /\ row' \subseteq Hashes
         /\ oldFile' \subseteq file' /\ oldRow' \subseteq row'
  BY DEF TypeOK, EnsureRow, DropRow, DropFile

LEMMA GoesTypes ==
  ASSUME TypeOK, NEW p \in Procs, NEW call \in Calls, Goes(p, call)
  PROVE  /\ op' \in [Procs -> Calls] /\ op'[p] = call
         /\ \A q \in Procs \ {p} : op'[q] = op[q]
  BY DEF TypeOK, Goes

\* A file lands: the scans under way pass it by, and no other call is touched.
LEMMA LandTypes ==
  ASSUME TypeOK, NEW p \in Procs, NEW h \in Hashes, NEW call \in Calls, Land(p, h, call)
  PROVE  /\ file' \subseteq Hashes /\ oldFile' \subseteq file'
         /\ op' \in [Procs -> Calls] /\ op'[p] = call
         /\ \A q \in Procs \ {p} :
              /\ op[q].at # "walk" => op'[q] = op[q]
              /\ op[q].at = "walk" => /\ op'[q] \in ScanCalls /\ op'[q].at = "walk"
                                      /\ op'[q].known = op[q].known
                                      /\ op'[q].aged = op[q].aged
                                      /\ op'[q].left = op[q].left \ {h}
<1>1. \A q \in Procs \ {p} :
        /\ op[q].at # "walk" => op'[q] = op[q]
        /\ op[q].at = "walk" => /\ op'[q] \in ScanCalls /\ op'[q].at = "walk"
                                /\ op'[q].known = op[q].known
                                /\ op'[q].aged = op[q].aged
                                /\ op'[q].left = op[q].left \ {h}
  <2> TAKE q \in Procs \ {p}
  <2>1. op'[q] = Passed(op[q], h)
    BY DEF Land
  <2>2. op[q].at = "walk" => op[q] \in ScanCalls
    BY CallShape DEF ScanSteps
  <2> QED
    BY <2>1, <2>2 DEF Passed, ScanCalls
<1>2. op' = [q \in Procs |-> IF q = p THEN call ELSE Passed(op[q], h)]
  BY DEF Land
<1>3. \A q \in Procs \ {p} : op'[q] \in Calls
  BY <1>1, CallKinds DEF TypeOK
<1> QED
  BY <1>1, <1>2, <1>3 DEF Land, TypeOK

LEMMA PutTypes ==
  ASSUME TypeOK, NEW p \in Procs, Put(p)
  PROVE  TypeOK'
<1>1. op[p].at \in PutSteps /\ op[p] \in PutCalls /\ op[p].h \in Hashes
  BY CallShape DEF Put, PutBody, PutRecord, PutRename, RenameFailed, PutUnrecord, PutEnsure,
     PutSteps, PutCalls
<1>2. \A pc \in PutSteps : [op[p] EXCEPT !.at = pc] \in Calls
  BY <1>1, CallKinds DEF PutCalls
<1>3. acked' = acked \/ Acks(p) => acked' \subseteq Hashes
  BY <1>1 DEF TypeOK, Acks
<1>4. CASE PutBody(p) \/ RenameFailed(p)
  <2>1. op' \in [Procs -> Calls]
    BY <1>2, <1>4, GoesTypes, CallKinds DEF PutBody, RenameFailed, PutSteps
  <2> QED
    BY <1>4, <2>1 DEF PutBody, RenameFailed, TypeOK, objVars, Marks
<1>5. CASE PutRecord(p)
  <2>1. op' \in [Procs -> Calls]
    BY <1>2, <1>5, GoesTypes DEF PutRecord, PutSteps
  <2> QED
    BY <1>1, <1>5, <2>1, ObjTypes DEF PutRecord, TypeOK
<1>6. CASE PutRename(p)
  BY <1>1, <1>3, <1>6, LandTypes, CallKinds DEF PutRename, TypeOK
<1>7. CASE PutUnrecord(p) \/ PutEnsure(p)
  <2>1. op' \in [Procs -> Calls]
    BY <1>7, GoesTypes, CallKinds DEF PutUnrecord, PutEnsure
  <2> QED
    BY <1>1, <1>3, <1>7, <2>1, ObjTypes DEF PutUnrecord, PutEnsure, TypeOK
<1> QED
  BY <1>4, <1>5, <1>6, <1>7 DEF Put

LEMMA DeleteTypes ==
  ASSUME TypeOK, NEW p \in Procs
  PROVE  /\ Delete(p) => TypeOK'
         /\ RemovalFails(p) => TypeOK'
         /\ \A h \in Hashes : DeleteStart(p, h) => TypeOK'
<1>1. ASSUME Delete(p) PROVE TypeOK'
  <2>1. op[p].h \in Hashes /\ At("delrow", op[p].h) \in Calls
    BY <1>1, CallShape, CallKinds DEF Delete, CallSteps, HashCalls, At
  <2>2. op' \in [Procs -> Calls]
    BY <1>1, <2>1, GoesTypes, CallKinds DEF Delete
  <2> QED
    BY <1>1, <2>1, <2>2, ObjTypes DEF Delete, TypeOK
<1>2. ASSUME RemovalFails(p) PROVE TypeOK'
  <2>1. op' \in [Procs -> Calls]
    BY <1>2, GoesTypes, CallKinds DEF RemovalFails
  <2> QED
    BY <1>2, <2>1 DEF RemovalFails, TypeOK, objVars, Marks
<1>3. ASSUME NEW h \in Hashes, DeleteStart(p, h) PROVE TypeOK'
  <2>1. At("delfile", h) \in Calls
    BY CallKinds DEF At, HashCalls, CallSteps
  <2>2. \A q \in Procs : op[q].at \in PutSteps => [op[q] EXCEPT !.alone = FALSE] \in Calls
    BY CallShape, CallKinds DEF PutCalls
  <2>3. op' \in [Procs -> Calls]
    BY <1>3, <2>1, <2>2 DEF DeleteStart, TypeOK
  <2> QED
    BY <1>3, <2>3 DEF DeleteStart, TypeOK, objVars, Marks
<1> QED
  BY <1>1, <1>2, <1>3

LEMMA ImportTypes ==
  ASSUME TypeOK, NEW p \in Procs
  PROVE  /\ Import(p) => TypeOK'
         /\ \A h \in Hashes : ImportStart(p, h) => TypeOK'
         /\ \A h \in Hashes : PutStat(p, h) => TypeOK'
<1>1. ASSUME Import(p) PROVE TypeOK'
  <2>1. op[p].h \in Hashes /\ At("placed", op[p].h) \in Calls
    BY <1>1, CallShape, CallKinds DEF Import, CallSteps, HashCalls, At
  <2>2. op' \in [Procs -> Calls]
    BY <1>1, <2>1, GoesTypes, LandTypes, CallKinds DEF Import
  <2>3. CASE op[p].at = "place"
    BY <1>1, <2>1, <2>2, <2>3, LandTypes DEF Import, TypeOK
  <2>4. CASE op[p].at # "place"
    BY <1>1, <2>1, <2>2, <2>4, ObjTypes DEF Import, TypeOK
  <2> QED
    BY <2>3, <2>4
<1>2. ASSUME NEW h \in Hashes, ImportStart(p, h) PROVE TypeOK'
  <2>1. At(IF h \in file THEN "placed" ELSE "place", h) \in Calls
    BY CallKinds DEF At, HashCalls, CallSteps
  <2>2. op' \in [Procs -> Calls]
    BY <1>2, <2>1, GoesTypes DEF ImportStart
  <2> QED
    BY <1>2, <2>2 DEF ImportStart, TypeOK, objVars, Marks
<1>3. ASSUME NEW h \in Hashes, PutStat(p, h) PROVE TypeOK'
  <2>1. PutAt(IF h \in file THEN "ensure" ELSE "body", h, ~Deleting(h)) \in Calls
    BY CallKinds DEF PutAt, PutCalls, PutSteps, Deleting
  <2>2. op' \in [Procs -> Calls]
    BY <1>3, <2>1, GoesTypes DEF PutStat
  <2> QED
    BY <1>3, <2>2 DEF PutStat, TypeOK, objVars, Marks
<1> QED
  BY <1>1, <1>2, <1>3

LEMMA PruneTypes ==
  ASSUME TypeOK, NEW p \in Procs
  PROVE  Prune(p) \/ ScanStart(p) => TypeOK'
<1> DEFINE c == op[p]
<1>1. \A pc \in ScanSteps : \A known, aged, left \in SUBSET Hashes :
        Scan(pc, known, aged, left) \in Calls
  BY CallKinds DEF Scan, ScanCalls
<1>2. ASSUME ScanStart(p) PROVE TypeOK'
  <2>1. op' \in [Procs -> Calls]
    BY <1>1, <1>2, GoesTypes DEF ScanStart, TypeOK, ScanSteps
  <2> QED
    BY <1>2, <2>1 DEF ScanStart, TypeOK, objVars, Marks
<1>3. ASSUME c.at \in ScanSteps, NEW h \in Hashes
      PROVE  /\ [c EXCEPT !.left = @ \ {h}] \in Calls
             /\ \A pc \in {"rmfile", "rmrow"} : Removing(c, pc, h) \in Calls
  <2>1. c \in ScanCalls
    BY <1>3, CallShape
  <2> QED
    BY <2>1, CallKinds DEF ScanCalls, RmCalls, Removing
<1>4. ASSUME NEW h \in Hashes, Walk(p, h) \/ LookUp(p, h) PROVE TypeOK'
  <2>1. c.at \in ScanSteps
    BY <1>4 DEF Walk, LookUp, ScanSteps
  <2>2. op' \in [Procs -> Calls]
    BY <1>3, <1>4, <2>1, GoesTypes DEF Walk, LookUp
  <2> QED
    BY <1>4, <2>2 DEF Walk, LookUp, TypeOK, objVars, Marks
<1>5. ASSUME WalkDone(p) \/ LookUpDone(p) PROVE TypeOK'
  <2>1. c \in ScanCalls
    BY <1>5, CallShape DEF WalkDone, LookUpDone, ScanSteps
  <2>2. Scan("rows", c.known, c.aged, c.known) \in Calls
    BY <1>1, <2>1 DEF ScanCalls, ScanSteps
  <2>3. op' \in [Procs -> Calls]
    BY <1>5, <2>2, GoesTypes, CallKinds DEF WalkDone, LookUpDone
  <2> QED
    BY <1>5, <2>3 DEF WalkDone, LookUpDone, TypeOK, objVars, Marks
<1>6. ASSUME Remove(p) PROVE TypeOK'
  <2>1. c \in RmCalls
    BY <1>6, CallShape DEF Remove
  <2>2. \A pc \in ScanSteps : Scan(pc, c.known, c.aged, c.left) \in Calls
    BY <1>1, <2>1 DEF RmCalls
  <2>3. op' \in [Procs -> Calls]
    BY <1>6, <2>2, GoesTypes DEF Remove, ScanSteps
  <2> QED
    BY <1>6, <2>1, <2>3, ObjTypes DEF Remove, TypeOK, RmCalls
<1> QED
  BY <1>2, <1>4, <1>5, <1>6 DEF Prune

LEMMA NextTypes == TypeOK /\ [Next]_vars => TypeOK'
<1> SUFFICES ASSUME TypeOK, [Next]_vars PROVE TypeOK'
  OBVIOUS
<1>1. ASSUME NEW h \in Hashes, FileAges(h) \/ RowAges(h) PROVE TypeOK'
  BY <1>1 DEF FileAges, RowAges, TypeOK
<1>2. ASSUME Crash PROVE TypeOK'
  BY <1>2, CallKinds, SMT DEF Crash, TypeOK, objVars, Marks
<1>3. CASE UNCHANGED vars
  BY <1>3 DEF vars, objVars, TypeOK
<1> QED
  BY <1>1, <1>2, <1>3, PutTypes, DeleteTypes, ImportTypes, PruneTypes DEF Next

LEMMA InitTypes == Init => TypeOK
  BY CallKinds, SMT DEF Init, TypeOK

\* Every variable of the store keeps its type, through every overlap of calls,
\* crashes and failures (store.rs).
THEOREM StoreTypeCorrect == Spec => []TypeOK
<1> QED
  BY InitTypes, NextTypes, PTL DEF Spec

-----------------------------------------------------------------------------
(* Without the prune. *)

DeleteInv ==
  /\ \A p \in Procs : op[p].at \notin ScanSteps \cup {"rmfile", "rmrow", "unrecord"}
  /\ \A p \in Procs :
       op[p].at \in PutSteps /\ op[p].alone =>
         /\ ~Deleting(op[p].h)
         /\ op[p].at = "rename" => op[p].h \in row
         /\ op[p].at = "ensure" => op[p].h \in file
  /\ \A h \in acked : h \in file /\ h \in row /\ ~Deleting(h)

\* A step of a call that is no DELETE before and after it starts no deletion.
LEMMA NoNewDelete ==
  ASSUME TypeOK, NEW p \in Procs, NEW call \in Calls, call.at \notin {"delfile", "delrow"},
         op'[p] = call, \A q \in Procs \ {p} : op[q].at # "walk" => op'[q] = op[q],
         \A q \in Procs : op[q].at # "walk"
  PROVE  \A h : Deleting(h)' => Deleting(h)
  BY DEF Deleting

LEMMA PutSafe ==
  ASSUME TypeOK, DeleteInv, NEW p \in Procs, Put(p), ~RenameFailed(p)
  PROVE  DeleteInv'
<1>1. op[p].at \in PutSteps /\ op[p] \in PutCalls /\ op[p].h \in Hashes
  BY CallShape DEF Put, PutBody, PutRecord, PutRename, RenameFailed, PutUnrecord, PutEnsure,
     PutSteps, PutCalls
<1>2. \A q \in Procs : op[q].at # "walk"
  BY DEF DeleteInv, ScanSteps
<1>3. \A pc \in PutSteps : [op[p] EXCEPT !.at = pc] \in Calls
  BY <1>1, CallKinds DEF PutCalls
<1>4. CASE PutBody(p) \/ PutRecord(p)
  <2>1. PICK call \in {Idle} \cup {[op[p] EXCEPT !.at = pc] : pc \in {"record", "rename"}} :
          /\ Goes(p, call) /\ call \in Calls
          /\ call.at = "rename" => EnsureRow(op[p].h)
          /\ call.at # "rename" => UNCHANGED <<file, row>>
    BY <1>1, <1>3, <1>4, CallKinds DEF PutBody, PutRecord, PutSteps, PutCalls, Idle, objVars
  <2>2. /\ op'[p] = call /\ \A q \in Procs \ {p} : op'[q] = op[q]
    BY <2>1, GoesTypes
  <2>3. \/ op'[p] = Idle
        \/ /\ op'[p].at \in {"record", "rename"} /\ op'[p].h = op[p].h
           /\ op'[p].alone = op[p].alone
    BY <1>1, <2>1, <2>2 DEF PutCalls
  <2>4. \A h : Deleting(h)' => Deleting(h)
    BY <1>1, <1>2, <2>1, <2>2, <2>3, NoNewDelete DEF Idle
  <2>5. row \subseteq row' /\ file' = file /\ acked' = acked
    BY <1>4, <2>1 DEF EnsureRow, PutBody, PutRecord, objVars
  <2>6. op'[p].at = "rename" => op[p].h \in row'
    BY <2>1, <2>2 DEF EnsureRow
  <2> QED
    BY <1>1, <2>2, <2>3, <2>4, <2>5, <2>6 DEF DeleteInv, Idle, PutSteps, ScanSteps
<1>5. CASE PutRename(p) \/ PutEnsure(p)
  <2>1. op'[p] = Idle /\ \A q \in Procs \ {p} : op'[q] = op[q]
    BY <1>1, <1>2, <1>5, GoesTypes, LandTypes, CallKinds DEF PutRename, PutEnsure
  <2>2. \A h : Deleting(h)' => Deleting(h)
    BY <1>2, <2>1, CallKinds, NoNewDelete DEF Idle
  <2>3. file \subseteq file' /\ row \subseteq row'
    BY <1>5 DEF PutRename, PutEnsure, Land, EnsureRow
  <2>4. op[p].alone => op[p].h \in file' /\ op[p].h \in row' /\ ~Deleting(op[p].h)
    BY <1>1, <1>5 DEF PutRename, PutEnsure, Land, EnsureRow, DeleteInv, PutSteps
  <2>5. acked' \subseteq acked \cup {op[p].h} /\ (~op[p].alone => acked' = acked)
    BY <1>5 DEF PutRename, PutEnsure, Acks
  <2> QED
    BY <2>1, <2>2, <2>3, <2>4, <2>5 DEF DeleteInv, Idle, PutSteps, ScanSteps
<1> QED
  BY <1>4, <1>5 DEF Put, PutUnrecord, DeleteInv

LEMMA StartSafe ==
  ASSUME TypeOK, DeleteInv, NEW p \in Procs, NEW h \in Hashes,
         PutStat(p, h) \/ ImportStart(p, h)
  PROVE  DeleteInv'
<1>1. \A q \in Procs : op[q].at # "walk"
  BY DEF DeleteInv, ScanSteps
<1>2. PICK call \in {PutAt(IF h \in file THEN "ensure" ELSE "body", h, ~Deleting(h)),
                     At(IF h \in file THEN "placed" ELSE "place", h)} : Goes(p, call)
  BY DEF PutStat, ImportStart
<1>3. call \in Calls
  BY <1>2, CallKinds DEF PutAt, PutCalls, PutSteps, At, HashCalls, CallSteps, Deleting
<1>4. op'[p] = call /\ \A q \in Procs \ {p} : op'[q] = op[q]
  BY <1>2, <1>3, GoesTypes
<1>5. call.at \in {"ensure", "body", "placed", "place"}
  BY <1>2 DEF PutAt, At
<1>6. \A x : Deleting(x)' => Deleting(x)
  BY <1>1, <1>3, <1>4, <1>5, NoNewDelete
<1>7. call.at \in PutSteps =>
        /\ call.h = h /\ (call.alone => ~Deleting(h))
        /\ call.at # "rename" /\ (call.at = "ensure" => h \in file)
  <2>1. CASE call = At(IF h \in file THEN "placed" ELSE "place", h)
    BY <2>1 DEF At, PutSteps
  <2>2. CASE call = PutAt(IF h \in file THEN "ensure" ELSE "body", h, ~Deleting(h))
    <3>1. call.alone = ~Deleting(h)
      BY <2>2 DEF PutAt
    <3>2. call.h = h /\ call.at = IF h \in file THEN "ensure" ELSE "body"
      BY <2>2 DEF PutAt
    <3> QED
      BY <3>1, <3>2
  <2> QED
    BY <1>2, <2>1, <2>2
<1>8. UNCHANGED <<file, row, acked>>
  BY DEF PutStat, ImportStart, objVars
<1> QED
  BY <1>4, <1>5, <1>6, <1>7, <1>8 DEF DeleteInv, ScanSteps

LEMMA DeleteSafe ==
  ASSUME TypeOK, DeleteInv, NEW p \in Procs, Delete(p) \/ \E h \in Hashes : DeleteStart(p, h)
  PROVE  DeleteInv'
<1>1. ASSUME Delete(p) PROVE DeleteInv'
  <2>1. op[p].at \in {"delfile", "delrow"} /\ op[p].h \in Hashes
    BY <1>1, CallShape DEF Delete, CallSteps, HashCalls
  <2>2. Deleting(op[p].h)
    BY <2>1 DEF Deleting
  <2>3. /\ op'[p] \in {At("delrow", op[p].h), Idle}
        /\ \A q \in Procs \ {p} : op'[q] = op[q]
    BY <1>1, <2>1, GoesTypes, CallKinds DEF Delete, At, HashCalls, CallSteps
  <2>4. \A h : Deleting(h)' => Deleting(h)
    BY <2>1, <2>3 DEF Deleting, At, Idle
  <2>5. /\ file \ {op[p].h} \subseteq file' /\ row \ {op[p].h} \subseteq row'
        /\ acked' = acked
    BY <1>1 DEF Delete, DropFile, DropRow
  <2> QED
    BY <2>2, <2>3, <2>4, <2>5 DEF DeleteInv, At, Idle, PutSteps, ScanSteps
<1>2. ASSUME NEW h \in Hashes, DeleteStart(p, h) PROVE DeleteInv'
  <2>1. op'[p] = At("delfile", h)
    BY <1>2 DEF DeleteStart
  <2>2. \A q \in Procs \ {p} :
          IF op[q].at \in PutSteps /\ op[q].h = h
          THEN op'[q] \in PutCalls /\ op'[q].at = op[q].at /\ ~op'[q].alone
          ELSE op'[q] = op[q]
    <3> TAKE q \in Procs \ {p}
    <3>1. op[q].at \in PutSteps => op[q] \in PutCalls
      BY CallShape
    <3> QED
      BY <1>2, <3>1 DEF DeleteStart, PutCalls
  <2>3. \A x : Deleting(x)' => x = h \/ Deleting(x)
    BY <2>1, <2>2 DEF Deleting, At, PutSteps
  <2>4. acked' = acked \ {h} /\ UNCHANGED <<file, row>>
    BY <1>2 DEF DeleteStart, objVars
  <2> QED
    BY <2>1, <2>2, <2>3, <2>4 DEF DeleteInv, At, PutSteps, ScanSteps
<1> QED
  BY <1>1, <1>2

LEMMA ImportSafe ==
  ASSUME TypeOK, DeleteInv, NEW p \in Procs, Import(p)
  PROVE  DeleteInv'
<1>1. \A q \in Procs : op[q].at # "walk"
  BY DEF DeleteInv, ScanSteps
<1>2. op[p].h \in Hashes /\ At("placed", op[p].h) \in Calls
  BY CallShape, CallKinds DEF Import, CallSteps, HashCalls, At
<1>3. /\ op'[p] \in {At("placed", op[p].h), Idle}
      /\ \A q \in Procs \ {p} : op'[q] = op[q]
  BY <1>1, <1>2, GoesTypes, LandTypes, CallKinds DEF Import
<1>4. \A h : Deleting(h)' => Deleting(h)
  BY <1>1, <1>2, <1>3, CallKinds, NoNewDelete DEF At, Idle
<1>5. file \subseteq file' /\ row \subseteq row' /\ acked' = acked
  BY DEF Import, Land, EnsureRow
<1> QED
  BY <1>3, <1>4, <1>5 DEF DeleteInv, At, Idle, PutSteps, ScanSteps

\* What happened stays in the past.
LEMMA PastGrows == [Next]_vars => past \subseteq past'
<1> SUFFICES ASSUME [Next]_vars PROVE past \subseteq past'
  OBVIOUS
<1>1. ASSUME NEW p \in Procs, Put(p) PROVE past \subseteq past'
  BY <1>1 DEF Put, PutBody, PutRecord, PutRename, RenameFailed, PutUnrecord, PutEnsure, Marks
<1>2. ASSUME NEW p \in Procs, Prune(p) \/ ScanStart(p) PROVE past \subseteq past'
  BY <1>2 DEF Prune, WalkDone, LookUpDone, Remove, Walk, LookUp, ScanStart, Marks
<1>3. ASSUME NEW p \in Procs, Delete(p) \/ RemovalFails(p) \/ Import(p) PROVE past \subseteq past'
  BY <1>3 DEF Delete, RemovalFails, Import, Marks
<1>4. ASSUME NEW p \in Procs, NEW h \in Hashes, PutStat(p, h) \/ DeleteStart(p, h) \/ ImportStart(p, h)
      PROVE  past \subseteq past'
  BY <1>4 DEF PutStat, DeleteStart, ImportStart, Marks
<1>5. ASSUME NEW h \in Hashes, FileAges(h) \/ RowAges(h) PROVE past \subseteq past'
  BY <1>5 DEF FileAges, RowAges
<1>6. CASE Crash \/ UNCHANGED vars
  BY <1>6 DEF Crash, Marks, vars
<1> QED
  BY <1>1, <1>2, <1>3, <1>4, <1>5, <1>6 DEF Next

\* As long as the orphan prune was not called and no rename or removal failed,
\* what holds of answered objects does so through every overlap of PUT, DELETE
\* and import and every crash (store.rs, put and delete_object).
LEMMA DeleteHolds == Spec => [](NoPrune => DeleteInv)
<1>1. Init => DeleteInv
  BY SMT DEF Init, DeleteInv, Deleting, Idle, PutSteps, ScanSteps
<1>2. TypeOK /\ (NoPrune => DeleteInv) /\ [Next]_vars => (NoPrune => DeleteInv)'
  <2> SUFFICES ASSUME TypeOK, NoPrune => DeleteInv, [Next]_vars, NoPrune' PROVE DeleteInv'
    OBVIOUS
  <2>0. NoPrune /\ DeleteInv
    BY PastGrows DEF NoPrune
  <2>1. ASSUME NEW p \in Procs,
               RenameFailed(p) \/ RemovalFails(p) \/ ScanStart(p) \/ Prune(p) PROVE FALSE
    BY <2>0, <2>1 DEF RenameFailed, RemovalFails, ScanStart, Prune, WalkDone, LookUpDone,
       Remove, Walk, LookUp, DeleteInv, ScanSteps, Marks, NoPrune
  <2>2. ASSUME NEW h \in Hashes, FileAges(h) \/ RowAges(h) PROVE DeleteInv'
    BY <2>0, <2>2 DEF FileAges, RowAges, DeleteInv, Deleting
  <2>3. ASSUME Crash PROVE DeleteInv'
    BY <2>0, <2>3 DEF Crash, DeleteInv, Deleting, Idle, PutSteps, ScanSteps, objVars
  <2>4. CASE UNCHANGED vars
    BY <2>0, <2>4 DEF vars, objVars, DeleteInv, Deleting
  <2> QED
    BY <2>0, <2>1, <2>2, <2>3, <2>4, PutSafe, StartSafe, DeleteSafe, ImportSafe DEF Next
<1> QED
  BY <1>1, <1>2, StoreTypeCorrect, PTL DEF Spec

-----------------------------------------------------------------------------
(* Under the prune. *)

PruneInv ==
  /\ \A p \in Procs : op[p].at \in {"idle"} \cup PutSteps \cup ScanSteps
  /\ \A p \in Procs : op[p].at # "unrecord"
  /\ file \subseteq row /\ oldRow \subseteq file /\ acked \subseteq file
  /\ \A h \in row \ file : \E p \in Procs : op[p].at = "rename" /\ op[p].h = h
  /\ \A p \in Procs : /\ op[p].at = "rename" => op[p].h \in row
                      /\ op[p].at = "ensure" => op[p].h \in file
                      /\ op[p].at \in ScanSteps => op[p].aged \subseteq file
                      /\ op[p].at = "walk" => op[p].left \cap file \subseteq op[p].known

LEMMA PutUnderPrune ==
  ASSUME TypeOK, PruneInv, NEW p \in Procs, Put(p), ~RenameFailed(p)
  PROVE  PruneInv'
<1>1. op[p].at \in PutSteps /\ op[p] \in PutCalls /\ op[p].h \in Hashes
  BY CallShape DEF Put, PutBody, PutRecord, PutRename, RenameFailed, PutUnrecord, PutEnsure,
     PutSteps, PutCalls
<1>2. \A pc \in PutSteps : [op[p] EXCEPT !.at = pc] \in Calls
  BY <1>1, CallKinds DEF PutCalls
<1>3. CASE PutBody(p)
  <2>1. /\ op'[p].at \in {"idle", "record"}
        /\ \A q \in Procs \ {p} : op'[q] = op[q]
    BY <1>1, <1>2, <1>3, GoesTypes, CallKinds DEF PutBody, PutSteps, PutCalls, Idle
  <2> QED
    BY <1>3, <2>1 DEF PutBody, PruneInv, PutSteps, ScanSteps, objVars
<1>4. CASE PutRecord(p)
  <2>1. /\ op'[p].at = "rename" /\ op'[p].h = op[p].h
        /\ \A q \in Procs \ {p} : op'[q] = op[q]
    BY <1>1, <1>2, <1>4, GoesTypes DEF PutRecord, PutSteps, PutCalls
  <2>2. row' = row \cup {op[p].h} /\ UNCHANGED <<file, oldRow, acked>>
    BY <1>4 DEF PutRecord, EnsureRow
  <2>3. op[p].at = "record"
    BY <1>4 DEF PutRecord
  <2>4. \A h \in row' \ file' : \E q \in Procs : op'[q].at = "rename" /\ op'[q].h = h
    <3> SUFFICES ASSUME NEW h \in row' \ file'
                 PROVE  \E q \in Procs : op'[q].at = "rename" /\ op'[q].h = h
      OBVIOUS
    <3>1. CASE h = op[p].h
      BY <2>1, <3>1
    <3>2. CASE h # op[p].h
      <4>1. PICK q \in Procs : op[q].at = "rename" /\ op[q].h = h
        BY <2>2, <3>2 DEF PruneInv
      <4> QED
        BY <2>1, <2>3, <4>1
    <3> QED
      BY <3>1, <3>2
  <2> QED
    BY <2>1, <2>2, <2>4 DEF PruneInv, PutSteps, ScanSteps
<1>5. CASE PutRename(p)
  <2> DEFINE h == op[p].h
  <2>1. /\ op'[p] = Idle
        /\ \A q \in Procs \ {p} :
             /\ op[q].at # "walk" => op'[q] = op[q]
             /\ op[q].at = "walk" => /\ op'[q].at = "walk" /\ op'[q].known = op[q].known
                                     /\ op'[q].aged = op[q].aged
                                     /\ op'[q].left = op[q].left \ {h}
    BY <1>1, <1>5, LandTypes, CallKinds DEF PutRename
  <2>2. /\ file' = file \cup {h} /\ h \in row /\ UNCHANGED <<row, oldRow>>
        /\ acked' \subseteq acked \cup {h} /\ op[p].at = "rename"
    BY <1>5 DEF PutRename, Land, Acks, PruneInv
  <2>3. \A x \in row' \ file' : \E q \in Procs : op'[q].at = "rename" /\ op'[q].h = x
    <3> SUFFICES ASSUME NEW x \in row' \ file'
                 PROVE  \E q \in Procs : op'[q].at = "rename" /\ op'[q].h = x
      OBVIOUS
    <3>1. x # h /\ x \in row \ file
      BY <2>2
    <3>2. PICK q \in Procs : op[q].at = "rename" /\ op[q].h = x
      BY <3>1 DEF PruneInv
    <3> QED
      BY <2>1, <3>1, <3>2
  <2>4. \A q \in Procs : /\ op'[q].at \in {"idle"} \cup PutSteps \cup ScanSteps
                         /\ op'[q].at # "unrecord"
                         /\ op'[q].at = "rename" => op'[q].h \in row'
                         /\ op'[q].at = "ensure" => op'[q].h \in file'
                         /\ op'[q].at \in ScanSteps => op'[q].aged \subseteq file'
                         /\ op'[q].at = "walk" => op'[q].left \cap file' \subseteq op'[q].known
    <3> TAKE q \in Procs
    <3>1. CASE q = p
      BY <2>1, <3>1 DEF Idle, PutSteps, ScanSteps
    <3>2. CASE q # p /\ op[q].at = "walk"
      BY <2>1, <2>2, <3>2 DEF PruneInv, PutSteps, ScanSteps
    <3>3. CASE q # p /\ op[q].at # "walk"
      BY <2>1, <2>2, <3>3 DEF PruneInv
    <3> QED
      BY <3>1, <3>2, <3>3
  <2>5. file' \subseteq row' /\ oldRow' \subseteq file' /\ acked' \subseteq file'
    BY <2>2 DEF PruneInv
  <2> QED
    BY <2>3, <2>4, <2>5 DEF PruneInv
<1>6. CASE PutEnsure(p)
  <2>1. op'[p] = Idle /\ \A q \in Procs \ {p} : op'[q] = op[q]
    BY <1>6, GoesTypes, CallKinds DEF PutEnsure
  <2>2. /\ op[p].h \in file /\ row' = row \cup {op[p].h} /\ UNCHANGED <<file, oldRow>>
        /\ acked' \subseteq acked \cup {op[p].h} /\ op[p].at = "ensure"
    BY <1>6 DEF PutEnsure, EnsureRow, Acks, PruneInv
  <2> QED
    BY <2>1, <2>2 DEF PruneInv, Idle, PutSteps, ScanSteps
<1> QED
  BY <1>3, <1>4, <1>5, <1>6 DEF Put, PutUnrecord, PruneInv

LEMMA ScanUnderPrune ==
  ASSUME TypeOK, PruneInv, NEW p \in Procs, ScanStart(p) \/ Prune(p)
  PROVE  PruneInv'
<1> DEFINE c == op[p]
           Kept == /\ UNCHANGED <<file, row, oldRow, acked>>
                   /\ \A q \in Procs \ {p} : op'[q] = op[q]
<1>1. ASSUME Kept, c.at # "rename", op'[p].at \in {"idle"} \cup ScanSteps,
             op'[p].at \in ScanSteps => op'[p].aged \subseteq file,
             op'[p].at = "walk" => op'[p].left \cap file \subseteq op'[p].known
      PROVE  PruneInv'
  <2>1. \A h \in row' \ file' : \E q \in Procs : op'[q].at = "rename" /\ op'[q].h = h
    BY <1>1 DEF PruneInv
  <2> QED
    BY <1>1, <2>1 DEF PruneInv, PutSteps, ScanSteps
<1>2. CASE ScanStart(p)
  <2>1. Scan("walk", row, oldRow, Hashes) \in Calls
    BY CallKinds DEF Scan, ScanCalls, ScanSteps, TypeOK
  <2>2. op'[p] = Scan("walk", row, oldRow, Hashes) /\ Kept /\ c.at = "idle"
    BY <1>2, <2>1, GoesTypes DEF ScanStart, objVars, Idle
  <2> QED
    BY <1>1, <2>2 DEF Scan, ScanSteps, PruneInv
<1>3. CASE WalkDone(p) \/ LookUpDone(p)
  <2>1. c \in ScanCalls /\ c.at \in ScanSteps
    BY <1>3, CallShape DEF WalkDone, LookUpDone, ScanSteps
  <2>2. Scan("rows", c.known, c.aged, c.known) \in Calls
    BY <2>1, CallKinds DEF Scan, ScanCalls, ScanSteps
  <2>3. op'[p] \in {Idle, Scan("rows", c.known, c.aged, c.known)} /\ Kept
    BY <1>3, <2>2, GoesTypes, CallKinds DEF WalkDone, LookUpDone, objVars
  <2> QED
    BY <1>1, <2>1, <2>3 DEF Scan, Idle, ScanSteps, PruneInv
<1>4. ASSUME NEW h \in Hashes, Walk(p, h) \/ LookUp(p, h) PROVE PruneInv'
  <2>1. c \in ScanCalls /\ c.at \in ScanSteps
    BY <1>4, CallShape DEF Walk, LookUp, ScanSteps
  <2>2. [c EXCEPT !.left = @ \ {h}] \in ScanCalls
    BY <2>1 DEF ScanCalls
  <2>3. \/ Walk(p, h) /\ ~OrphanFile(c, h)
        \/ LookUp(p, h) /\ ~OrphanRow(c, h)
    BY <1>4 DEF Walk, LookUp, OrphanFile, OrphanRow, PruneInv, ScanSteps
  <2>4. Goes(p, [c EXCEPT !.left = @ \ {h}]) /\ UNCHANGED <<objVars, acked>>
    BY <2>3 DEF Walk, LookUp
  <2>5. op'[p] = [c EXCEPT !.left = @ \ {h}] /\ Kept
    BY <2>2, <2>4, GoesTypes, CallKinds DEF objVars
  <2>6. /\ op'[p].at = c.at /\ op'[p].aged = c.aged /\ op'[p].known = c.known
        /\ op'[p].left = c.left \ {h}
    BY <2>1, <2>5 DEF ScanCalls
  <2> QED
    BY <1>1, <2>1, <2>5, <2>6 DEF PruneInv, ScanSteps
<1>5. ~Remove(p)
  BY DEF Remove, PruneInv, PutSteps, ScanSteps
<1> QED
  BY <1>2, <1>3, <1>4, <1>5 DEF Prune

\* Where objects are only put, no process dies and no rename fails, the orphan
\* prune removes nothing, however PUTs and prunes overlap (store.rs, put and
\* prune_orphans).
LEMMA PruneHolds == Spec => [](OnlyPuts => PruneInv)
<1>1. Init => PruneInv
  BY SMT DEF Init, PruneInv, Idle, PutSteps, ScanSteps
<1>2. TypeOK /\ (OnlyPuts => PruneInv) /\ [Next]_vars => (OnlyPuts => PruneInv)'
  <2> SUFFICES ASSUME TypeOK, OnlyPuts => PruneInv, [Next]_vars, OnlyPuts' PROVE PruneInv'
    OBVIOUS
  <2>0. OnlyPuts /\ PruneInv
    BY PastGrows DEF OnlyPuts
  <2>1. \A p \in Procs : /\ ~RemovalFails(p) /\ ~RenameFailed(p) /\ ~Delete(p) /\ ~Import(p)
                        /\ \A h \in Hashes : ~DeleteStart(p, h) /\ ~ImportStart(p, h)
    BY <2>0 DEF RemovalFails, RenameFailed, Delete, Import, DeleteStart, ImportStart, Marks,
       OnlyPuts, PruneInv, PutSteps, ScanSteps
  <2>2. ASSUME NEW p \in Procs, NEW h \in Hashes, PutStat(p, h) PROVE PruneInv'
    <3> DEFINE call == PutAt(IF h \in file THEN "ensure" ELSE "body", h, ~Deleting(h))
    <3>1. call \in Calls
      BY CallKinds DEF PutAt, PutCalls, PutSteps, Deleting
    <3>2. op'[p] = call /\ \A q \in Procs \ {p} : op'[q] = op[q]
      BY <2>2, <3>1, GoesTypes DEF PutStat
    <3>3. /\ call.h = h /\ call.at = IF h \in file THEN "ensure" ELSE "body"
          /\ op[p].at = "idle"
      BY <2>2 DEF PutAt, PutStat, Idle
    <3>4. UNCHANGED <<file, row, oldRow, acked>>
      BY <2>2 DEF PutStat, objVars
    <3> QED
      BY <2>0, <3>2, <3>3, <3>4 DEF PruneInv, PutSteps, ScanSteps
  <2>3. ASSUME NEW h \in Hashes, FileAges(h) \/ RowAges(h) PROVE PruneInv'
    BY <2>0, <2>3 DEF FileAges, RowAges, PruneInv
  <2>4. ~Crash
    BY DEF Crash, Marks, OnlyPuts
  <2>5. CASE UNCHANGED vars
    BY <2>0, <2>5 DEF vars, objVars, PruneInv
  <2> QED
    BY <2>0, <2>1, <2>2, <2>3, <2>4, <2>5, PutUnderPrune, ScanUnderPrune DEF Next
<1> QED
  BY <1>1, <1>2, StoreTypeCorrect, PTL DEF Spec

-----------------------------------------------------------------------------

\* An object whose PUT was answered keeps its file and its row until a client
\* asks for its deletion: through every overlap of PUTs and orphan prunes, and
\* through every overlap of PUTs, DELETEs and imports and every crash, for any
\* number of objects and processes (store.rs:238-240).
THEOREM AckedHolds == Spec => []AckedKept
<1>1. (NoPrune => DeleteInv) /\ (OnlyPuts => PruneInv) => AckedKept
  BY DEF DeleteInv, PruneInv, AckedKept
<1> QED
  BY <1>1, DeleteHolds, PruneHolds, PTL

\* Under any overlap of PUTs and orphan prunes a file never lacks its row
\* (store.rs:328-330).
THEOREM FileRowHolds == Spec => []FileHasRow
<1>1. (OnlyPuts => PruneInv) => FileHasRow
  BY DEF PruneInv, FileHasRow
<1> QED
  BY <1>1, PruneHolds, PTL
=============================================================================
