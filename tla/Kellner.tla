------------------------------ MODULE Kellner -------------------------------
(***************************************************************************)
(* The commands of kellner that keep state.json (kellner/src/state.rs,     *)
(* sync/run.rs, sync/backpack.rs, sync/downloads.rs).                      *)
(*                                                                         *)
(* A command reads the file once, keeps its copy over its requests to the  *)
(* hub and to music-api, and writes the copy back whole; nothing locks.    *)
(* Two commands are processes of their own.  The collection is flat: both  *)
(* commands fetch a track in the default format, into one file.            *)
(***************************************************************************)
EXTENDS Integers, FiniteSets

CONSTANTS Isrcs,       \* tracks
          MaxSaves,    \* bound: times Traktor saves its collection
          MaxWishes,   \* bound: changes of the active backpacks
          MaxRuns,     \* bound: starts of `backpack` and of `downloads`
          MaxFaults    \* bound: requests, renames, tags that fail; commands that die

VARIABLES nml, hubNml,   \* Traktor's collection: its mtime, the one uploaded
          wanted,        \* tracks of the active backpacks at the hub
          disk,          \* tracks that have their file in the collection
          file,          \* state.json
          cmd,           \* the commands
          torn,          \* history: two commands held copies at once, or one
                         \* died between a rename and its save
          keBudget       \* what is left of the bounds

vars == <<nml, hubNml, wanted, disk, file, cmd, torn, keBudget>>

Commands == {"run", "backpack", "downloads"}
States == [mtime : 0..(MaxSaves + 1), members : SUBSET Isrcs, downloads : SUBSET Isrcs]
Blank == [mtime |-> 0, members |-> {}, downloads |-> {}]
\* Its copy, the batch of the step, the desired set, the track just fetched,
\* the mtime it has read.
Resting == [pc |-> "idle", st |-> Blank, todo |-> {}, want |-> {}, got |-> {}, at |-> 0]

TypeOK ==
  /\ nml \in 1..(MaxSaves + 1) /\ hubNml \in 0..(MaxSaves + 1)
  /\ wanted \subseteq Isrcs /\ disk \subseteq Isrcs /\ file \in States
  /\ cmd \in [Commands ->
       [pc : {"idle", "upload", "save", "export", "prune", "diff", "order", "poll",
              "fetch", "keep"},
        st : States, todo : SUBSET Isrcs, want : SUBSET Isrcs,
        got : SUBSET Isrcs, at : 0..(MaxSaves + 1)]]
  /\ torn \in BOOLEAN
  /\ keBudget \in [{"wishes", "runs", "faults"} -> Nat]

Init ==
  /\ nml = 1 /\ hubNml = 0 /\ wanted = {} /\ disk = {} /\ file = Blank
  /\ cmd = [c \in Commands |-> Resting] /\ torn = FALSE
  /\ keBudget = [wishes |-> MaxWishes, runs |-> MaxRuns, faults |-> MaxFaults]

Cost(b) == keBudget[b] > 0 /\ keBudget' = [keBudget EXCEPT ![b] = @ - 1]
Alive(c) == cmd[c].pc # "idle"

\* A command starts on a copy of the file.
Load(c, rec) ==
  /\ cmd' = [cmd EXCEPT ![c] = [rec EXCEPT !.st = file]]
  /\ torn' = (torn \/ \E d \in Commands \ {c} : Alive(d))
Step(c, rec) == cmd' = [cmd EXCEPT ![c] = rec] /\ UNCHANGED torn
Finish(c) == Step(c, Resting)

TraktorSaves ==
  /\ nml <= MaxSaves /\ nml' = nml + 1
  /\ UNCHANGED <<hubNml, wanted, disk, file, cmd, torn, keBudget>>
Wish(i) ==
  /\ Cost("wishes")
  /\ wanted' = IF i \in wanted THEN wanted \ {i} ELSE wanted \cup {i}
  /\ UNCHANGED <<nml, hubNml, disk, file, cmd, torn>>

-----------------------------------------------------------------------------
(* traktor_cycle: one pass of `kellner run`. *)

CheckNml ==
  /\ ~Alive("run") /\ file.mtime # nml
  /\ Load("run", [Resting EXCEPT !.pc = "upload", !.at = nml])
  /\ UNCHANGED <<nml, hubNml, wanted, disk, file, keBudget>>

\* The file is read after its mtime was.
Upload ==
  /\ cmd["run"].pc = "upload"
  /\ \/ hubNml' = nml /\ Step("run", [cmd["run"] EXCEPT !.pc = "save"]) /\ UNCHANGED keBudget
     \/ Cost("faults") /\ Finish("run") /\ UNCHANGED hubNml
  /\ UNCHANGED <<nml, wanted, disk, file>>

\* (mutant: the mtime the collection has by now)
SaveUploadNow ==
  /\ cmd["run"].pc = "save" /\ Finish("run")
  /\ file' = [cmd["run"].st EXCEPT !.mtime = nml]
  /\ UNCHANGED <<nml, hubNml, wanted, disk, keBudget>>
SaveUpload ==
  /\ cmd["run"].pc = "save" /\ Finish("run")
  /\ file' = [cmd["run"].st EXCEPT !.mtime = cmd["run"].at]
  /\ UNCHANGED <<nml, hubNml, wanted, disk, keBudget>>

RunStep == CheckNml \/ Upload \/ SaveUpload

-----------------------------------------------------------------------------
(* run_backpack *)

Bp == cmd["backpack"]

Backpack ==
  /\ ~Alive("backpack") /\ Cost("runs")
  /\ Load("backpack", [Resting EXCEPT !.pc = "export"])
  /\ UNCHANGED <<nml, hubNml, wanted, disk, file>>

\* list_backpacks, export_backpack; an error ends the command.
Export ==
  /\ Bp.pc = "export"
  /\ \/ /\ Step("backpack",
             [Bp EXCEPT !.pc = IF Bp.st.members \subseteq wanted THEN "diff" ELSE "prune",
                        !.want = wanted, !.todo = Bp.st.members \ wanted])
        /\ UNCHANGED keBudget
     \/ Cost("faults") /\ Finish("backpack")
  /\ UNCHANGED <<nml, hubNml, wanted, disk, file>>

\* (mutant: the record outlives the file)
PruneFileOnly(i) ==
  /\ Bp.pc = "prune" /\ i \in Bp.todo /\ disk' = disk \ {i}
  /\ Step("backpack", [Bp EXCEPT !.todo = @ \ {i}])
  /\ UNCHANGED <<nml, hubNml, wanted, file, keBudget>>
\* A member nobody wants is moved to the trash if its file is there; a rename
\* that fails is passed over, and the record stays.
Prune(i) ==
  /\ Bp.pc = "prune" /\ i \in Bp.todo
  /\ \/ /\ disk' = disk \ {i} /\ UNCHANGED keBudget
        /\ Step("backpack", [Bp EXCEPT !.todo = @ \ {i}, !.st.members = @ \ {i}])
     \/ /\ i \in disk /\ Cost("faults") /\ UNCHANGED disk
        /\ Step("backpack", [Bp EXCEPT !.todo = @ \ {i}])
  /\ UNCHANGED <<nml, hubNml, wanted, file>>

Pruned ==
  /\ Bp.pc = "prune" /\ Bp.todo = {}
  /\ Step("backpack", [Bp EXCEPT !.pc = "diff"]) /\ file' = Bp.st
  /\ UNCHANGED <<nml, hubNml, wanted, disk, keBudget>>

Missing(members) == {i \in Bp.want : i \notin members /\ i \notin disk}
Diff ==
  /\ Bp.pc = "diff"
  /\ IF Missing(Bp.st.members) = {}
       THEN Finish("backpack")
       ELSE Step("backpack", [Bp EXCEPT !.pc = "order", !.todo = Missing(Bp.st.members)])
  /\ UNCHANGED <<nml, hubNml, wanted, disk, file, keBudget>>

-----------------------------------------------------------------------------
(* run_downloads, and the steps the two commands share. *)

Downloads(S) ==
  /\ ~Alive("downloads") /\ Cost("runs")
  /\ IF S \subseteq file.downloads
       THEN UNCHANGED <<cmd, torn>>
       ELSE Load("downloads", [Resting EXCEPT !.pc = "order", !.todo = S \ file.downloads])
  /\ UNCHANGED <<nml, hubNml, wanted, disk, file>>

\* `downloads` writes its order down, and the states it polled.
Saves(c) == file' = IF c = "downloads" THEN cmd[c].st ELSE file

Order(c) ==
  /\ cmd[c].pc = "order"
  /\ \/ Step(c, [cmd[c] EXCEPT !.pc = "poll"]) /\ Saves(c) /\ UNCHANGED keBudget
     \/ Cost("faults") /\ Finish(c) /\ UNCHANGED file
  /\ UNCHANGED <<nml, hubNml, wanted, disk>>

\* poll_until_ready: what is not ready by the deadline is left out.
PollTracks(c, ready) ==
  /\ cmd[c].pc = "poll" /\ ready \subseteq cmd[c].todo
  /\ IF ready = cmd[c].todo THEN UNCHANGED keBudget ELSE Cost("faults")
  /\ Step(c, [cmd[c] EXCEPT !.pc = "fetch", !.todo = ready]) /\ Saves(c)
  /\ UNCHANGED <<nml, hubNml, wanted, disk>>

\* fetch_file, write_atomic; the track is passed over when either fails.
Fetch(c, i) ==
  /\ cmd[c].pc = "fetch" /\ i \in cmd[c].todo
  /\ \/ /\ disk' = disk \cup {i} /\ UNCHANGED keBudget
        /\ Step(c, [cmd[c] EXCEPT !.pc = "keep", !.got = {i}, !.todo = @ \ {i}])
     \/ /\ Cost("faults") /\ UNCHANGED disk
        /\ Step(c, [cmd[c] EXCEPT !.todo = @ \ {i}])
  /\ UNCHANGED <<nml, hubNml, wanted, file>>

\* record_membership after the tag is written and the hash taken, or
\* record_download; then save.
Kept(c) ==
  IF c = "backpack"
    THEN [cmd[c] EXCEPT !.pc = "fetch", !.st.members = @ \cup cmd[c].got]
    ELSE [cmd[c] EXCEPT !.pc = "fetch", !.st.downloads = @ \cup cmd[c].got]
Keep(c) ==
  /\ cmd[c].pc = "keep"
  /\ \/ Step(c, Kept(c)) /\ file' = Kept(c).st /\ UNCHANGED keBudget
     \/ /\ c = "backpack" /\ Cost("faults") /\ UNCHANGED file
        /\ Step(c, [cmd[c] EXCEPT !.pc = "fetch"])
  /\ UNCHANGED <<nml, hubNml, wanted, disk>>

Fetched(c) ==
  /\ cmd[c].pc = "fetch" /\ cmd[c].todo = {} /\ Finish(c)
  /\ UNCHANGED <<nml, hubNml, wanted, disk, file, keBudget>>

Die(c) ==
  /\ Alive(c) /\ Cost("faults") /\ cmd' = [cmd EXCEPT ![c] = Resting]
  /\ torn' = (torn \/ (cmd[c].pc = "prune" /\ ~(file.members \subseteq cmd[c].st.members)))
  /\ UNCHANGED <<nml, hubNml, wanted, disk, file>>

FetchStep(c) ==
  \/ Order(c) \/ Keep(c) \/ Fetched(c)
  \/ \E ready \in SUBSET Isrcs : PollTracks(c, ready)
  \/ \E i \in Isrcs : Fetch(c, i)

Next ==
  \/ TraktorSaves \/ RunStep
  \/ Backpack \/ Export \/ Pruned \/ Diff
  \/ \E i \in Isrcs : Wish(i) \/ Prune(i)
  \/ \E S \in (SUBSET Isrcs) \ {{}} : Downloads(S)
  \/ \E c \in {"backpack", "downloads"} : FetchStep(c)
  \/ \E c \in Commands : Die(c)

Spec == Init /\ [][Next]_vars

\* `kellner run` goes on in its interval.
FairSpec == Spec /\ WF_vars(RunStep)

-----------------------------------------------------------------------------
(* Properties. *)

\* The hub gets Traktor's collection in the end, and state.json comes to rest,
\* though the collection is saved again during an upload (its mtime is read
\* before its bytes, and written after them) and other commands write old
\* copies back: a lost mtime costs an upload, never loses one.
NmlReaches == <>[](hubNml = nml /\ file.mtime = nml)

\* While commands run one after the other, none dying between a rename and its
\* save, what state.json calls a member has its file: a member without one
\* would never be fetched again.
MembersHaveFiles == ~torn /\ ~Alive("backpack") => file.members \subseteq disk

\* User downloads are never touched (state.rs:26-28, backpack.rs:14-16): what
\* `downloads` has fetched stays in the collection, the more so while commands
\* run one after the other.
DownloadsStay == ~torn => file.downloads \subseteq disk
=============================================================================
