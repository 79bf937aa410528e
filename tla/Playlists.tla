----------------------------- MODULE Playlists ------------------------------
(***************************************************************************)
(* The hub's copy of one user's liked tracks and of one playlist           *)
(* (music-hub/src/worker.rs, ingest.rs, and the handlers that ask for a    *)
(* fetch in web.rs, api.rs, hub_ops.rs, main.rs).                          *)
(*                                                                         *)
(* Spotify's side is a version that grows with every edit: it is the       *)
(* playlist's snapshot_id, and it stands for the items of that time.       *)
(* content are the versions the stored items came from; 0 among them means *)
(* that pages are missing.  Of the likes only the request is kept.  Items  *)
(* are read over several requests, the old rows deleted, the new ones      *)
(* inserted and the row updated, each in a step of its own; the worker,    *)
(* the `ingest` command and a refresh of the list of playlists do so       *)
(* beside each other.                                                      *)
(***************************************************************************)
EXTENDS Integers

CONSTANTS MaxEdits,      \* bound: edits of the playlist and the likes
          MaxAsks,       \* bound: requests of the user
          MaxIngests,    \* bound: runs of `ingest`
          MaxListings,   \* bound: refreshes of the list of playlists
          MaxStops       \* bound: processes that die, statements that fail

VARIABLES remote,     \* Spotify's version
          pl,         \* the hub_playlists row: flags and snapshots
          asked,      \* fetch_status of the row, likes_status of the account
          content,    \* hub_playlist_tracks
          writer,     \* the worker and the ingest command
          listing,    \* the refresh: the version it has read, 0 when idle
          mixed,      \* history: the last fetch to end was not alone, or the row
                      \* has been given an older snapshot since
          crossed,    \* history: the fetch under way has not been alone
          plBudget    \* what is left of the bounds

vars == <<remote, pl, asked, content, writer, listing, mixed, crossed, plBudget>>

Targets  == {"likes", "list"}
Versions == 1..(MaxEdits + 1)
Writers  == {"worker", "ingest"}
AtRest == [pc |-> "idle", what |-> "list", got |-> {}]

TypeOK ==
  /\ remote \in Versions
  /\ pl \in [enabled : BOOLEAN, available : BOOLEAN,
             snapshot : Versions, synced : {0} \cup Versions]
  /\ asked \in [Targets -> {"none", "queued", "done", "error"}]
  /\ content \subseteq {0} \cup Versions
  /\ writer \in [Writers -> [pc : {"idle", "page", "delete", "insert", "record", "upsert"},
                             what : Targets, got : SUBSET ({0} \cup Versions)]]
  /\ listing \in {0} \cup Versions /\ mixed \in BOOLEAN /\ crossed \in BOOLEAN
  /\ plBudget \in [{"asks", "ingests", "listings", "stops"} -> Nat]

\* Everything has been fetched once.
Init ==
  /\ remote = 1
  /\ pl = [enabled |-> TRUE, available |-> TRUE, snapshot |-> 1, synced |-> 1]
  /\ asked = [t \in Targets |-> "done"] /\ content = {1}
  /\ writer = [w \in Writers |-> AtRest] /\ listing = 0
  /\ mixed = FALSE /\ crossed = FALSE
  /\ plBudget = [asks |-> MaxAsks, ingests |-> MaxIngests,
                 listings |-> MaxListings, stops |-> MaxStops]

Spend(b) == plBudget[b] > 0 /\ plBudget' = [plBudget EXCEPT ![b] = @ - 1]

Edit ==
  /\ remote <= MaxEdits /\ remote' = remote + 1
  /\ UNCHANGED <<pl, asked, content, writer, listing, mixed, crossed, plBudget>>

-----------------------------------------------------------------------------
(* Requests. *)

\* toggle_playlist: on again, it is fetched again.
Toggle ==
  /\ IF pl.enabled
       THEN pl' = [pl EXCEPT !.enabled = FALSE] /\ UNCHANGED asked
       ELSE /\ pl' = [pl EXCEPT !.enabled = TRUE, !.available = FALSE]
            /\ asked' = [asked EXCEPT !["list"] = "queued"]
Refetch ==
  /\ pl' = [pl EXCEPT !.enabled = TRUE, !.available = FALSE, !.synced = 0]
  /\ asked' = [asked EXCEPT !["list"] = "queued"]
\* sync of the account, `backfill`: the account and its playlists in two
\* statements, of which the likes and the playlist job each read their own.
Sync ==
  /\ pl' = [pl EXCEPT !.enabled = TRUE, !.available = FALSE]
  /\ asked' = [t \in Targets |-> "queued"]
EnableAll ==
  /\ pl' = [pl EXCEPT !.enabled = TRUE, !.available = FALSE]
  /\ asked' = [asked EXCEPT !["list"] = "queued"]
DisableAll == pl' = [pl EXCEPT !.enabled = FALSE] /\ UNCHANGED asked
\* hub_ops: what failed is queued again, in two statements as in Sync.
Retry ==
  /\ \E t \in Targets : asked[t] = "error"
  /\ asked' = [t \in Targets |-> IF asked[t] = "error" THEN "queued" ELSE asked[t]]
  /\ pl' = [pl EXCEPT !.enabled = @ \/ asked["list"] = "error"]

Ask ==
  /\ Spend("asks")
  /\ Toggle \/ Refetch \/ Sync \/ EnableAll \/ DisableAll \/ Retry
  /\ UNCHANGED <<remote, content, writer, listing, mixed, crossed>>

-----------------------------------------------------------------------------
(* The writers. *)

On(w, pc) == writer[w].pc = pc
Move(w, rec) == writer' = [writer EXCEPT ![w] = rec]
To(w, pc) == Move(w, [writer[w] EXCEPT !.pc = pc])
AtList(w) == writer[w].pc # "idle" /\ writer[w].what = "list"

\* sync_likes_jobs, playlist_jobs: what is due is read again in every pass.
Due(t) ==
  CASE t = "likes" -> asked["likes"] \in {"none", "queued"}
    [] t = "list"  -> pl.enabled /\ (~pl.available \/ pl.snapshot # pl.synced)

Pick(t) ==
  /\ On("worker", "idle") /\ Due(t)
  /\ Move("worker", [pc |-> "page", what |-> t, got |-> {}])
  /\ crossed' = AtList("ingest")
  /\ UNCHANGED <<remote, pl, asked, content, listing, mixed, plBudget>>

ReadPage(w, last) ==
  /\ On(w, "page")
  /\ Move(w, IF AtList(w)
              THEN [writer[w] EXCEPT !.got = @ \cup {remote}, !.pc = IF last THEN "delete" ELSE @]
              ELSE [writer[w] EXCEPT !.pc = IF last THEN "record" ELSE @])
  /\ UNCHANGED <<remote, pl, asked, content, listing, mixed, crossed, plBudget>>

\* 403 or another error: set_likes_error, fail.
PageFails ==
  /\ On("worker", "page") /\ Move("worker", AtRest)
  /\ asked' = [asked EXCEPT ![writer["worker"].what] = "error"]
  /\ pl' = IF AtList("worker") THEN [pl EXCEPT !.enabled = FALSE] ELSE pl
  /\ UNCHANGED <<remote, content, listing, mixed, crossed, plBudget>>

\* 429: the pass ends, and nothing is written.
RateLimited ==
  /\ On("worker", "page") /\ Move("worker", AtRest)
  /\ UNCHANGED <<remote, pl, asked, content, listing, mixed, crossed, plBudget>>

\* What `ingest` stores is not what the worker's fetch, before or now, stores.
Crosses(w) ==
  /\ mixed'   = (mixed \/ w = "ingest")
  /\ crossed' = (crossed \/ w = "ingest")

\* (mutant: the old rows stay)
DeleteNothing(w) ==
  /\ On(w, "delete") /\ To(w, "insert") /\ Crosses(w)
  /\ UNCHANGED <<remote, pl, asked, content, listing, plBudget>>
\* store_playlist_items: DELETE, then the INSERTs.
DeleteOld(w) ==
  /\ On(w, "delete") /\ To(w, "insert")
  /\ content' = {} /\ Crosses(w)
  /\ UNCHANGED <<remote, pl, asked, listing, plBudget>>

InsertNew(w) ==
  /\ On(w, "insert") /\ To(w, "record")
  /\ content' = content \cup writer[w].got
  /\ UNCHANGED <<remote, pl, asked, listing, mixed, crossed, plBudget>>

\* (mutant: the request is not answered)
RecordUnanswered(w) ==
  /\ On(w, "record") /\ Move(w, AtRest)
  /\ pl' = IF AtList(w) THEN [pl EXCEPT !.available = TRUE, !.synced = pl.snapshot] ELSE pl
  /\ UNCHANGED <<remote, asked, content, listing, mixed, crossed, plBudget>>
\* (mutant: it is answered by another word than the requests are read by)
RecordFetched(w) ==
  /\ On(w, "record") /\ Move(w, AtRest)
  /\ asked' = [asked EXCEPT ![writer[w].what] = "fetched"]
  /\ UNCHANGED <<remote, pl, content, listing, mixed, crossed, plBudget>>
\* The worker answers the request and remembers the snapshot the row has by
\* now; `ingest` only says that the items are there.
Record(w) ==
  /\ On(w, "record") /\ Move(w, AtRest)
  /\ asked' = IF w = "worker" THEN [asked EXCEPT ![writer[w].what] = "done"] ELSE asked
  /\ pl' = CASE ~AtList(w)   -> pl
             [] w = "ingest" -> [pl EXCEPT !.available = TRUE]
             [] OTHER        -> [pl EXCEPT !.available = TRUE, !.synced = pl.snapshot]
  /\ mixed' = IF w = "worker" /\ AtList(w) THEN crossed ELSE mixed
  /\ UNCHANGED <<remote, content, listing, crossed, plBudget>>

\* The row's snapshot is written: beside a fetch, or back to an older one.
NewSnapshot ==
  /\ mixed'   = (mixed \/ pl'.snapshot < pl.snapshot)
  /\ crossed' = (crossed \/ AtList("worker"))

\* ingest_user, from the list of playlists on.
IngestReadsList ==
  /\ On("ingest", "idle") /\ Spend("ingests")
  /\ Move("ingest", [pc |-> "upsert", what |-> "list", got |-> {remote}])
  /\ UNCHANGED <<remote, pl, asked, content, listing, mixed, crossed>>
IngestUpserts ==
  /\ On("ingest", "upsert") /\ Move("ingest", [pc |-> "page", what |-> "list", got |-> {}])
  /\ \E v \in writer["ingest"].got : pl' = [pl EXCEPT !.snapshot = v]
  /\ NewSnapshot
  /\ UNCHANGED <<remote, asked, content, listing, plBudget>>
\* A playlist's first page that fails leaves the old items, a later one ends
\* the paging and what has been read is stored.
IngestPageFails ==
  /\ On("ingest", "page")
  /\ IF writer["ingest"].got # {}
       THEN Move("ingest", [writer["ingest"] EXCEPT !.got = @ \cup {0}, !.pc = "delete"])
       ELSE Move("ingest", AtRest)
  /\ UNCHANGED <<remote, pl, asked, content, listing, mixed, crossed, plBudget>>

WorkerStep ==
  \/ \E t \in Targets : Pick(t)
  \/ \E last \in BOOLEAN : ReadPage("worker", last)
  \/ PageFails \/ RateLimited
  \/ DeleteOld("worker") \/ InsertNew("worker") \/ Record("worker")

IngestStep ==
  \/ IngestReadsList \/ IngestUpserts \/ IngestPageFails
  \/ \E last \in BOOLEAN : ReadPage("ingest", last)
  \/ DeleteOld("ingest") \/ InsertNew("ingest") \/ Record("ingest")

-----------------------------------------------------------------------------
(* fetch_playlists: metadata only. *)

ReadList ==
  /\ listing = 0 /\ Spend("listings") /\ listing' = remote
  /\ UNCHANGED <<remote, pl, asked, content, writer, mixed, crossed>>
UpsertMeta ==
  /\ listing # 0 /\ listing' = 0
  /\ pl' = [pl EXCEPT !.snapshot = listing]
  /\ NewSnapshot
  /\ UNCHANGED <<remote, asked, content, writer, plBudget>>

Stop(w) ==
  /\ writer[w].pc # "idle" /\ Spend("stops") /\ Move(w, AtRest)
  /\ UNCHANGED <<remote, pl, asked, content, listing, mixed, crossed>>

Next ==
  \/ Edit \/ Ask \/ WorkerStep \/ IngestStep \/ ReadList \/ UpsertMeta
  \/ \E w \in Writers : Stop(w)

Spec == Init /\ [][Next]_vars

\* The worker's passes go on, and Spotify answers in the end.
FairSpec ==
  /\ Spec /\ WF_vars(WorkerStep) /\ SF_vars(ReadPage("worker", TRUE))

-----------------------------------------------------------------------------
(* Properties. *)

\* No fetch is due, nobody writes the playlist: what is there stays.
Settled ==
  /\ pl.available /\ pl.synced = pl.snapshot
  /\ \A w \in Writers : ~AtList(w)
Current(v) == content # {} /\ \A u \in content : u >= v

\* What is there is no older than the snapshot it is said to be of
\* (migrations/037: "the remote snapshot at the time we last fetched a
\* playlist's items") after every fetch that ran alone, as long as no late
\* refresh takes the row's snapshot back, whatever stopped in between: a worker
\* that dies between DELETE and INSERT leaves a fetch due.
ItemsCurrentAlone == Settled /\ ~mixed => Current(pl.synced)

\* What a user asked for is fetched or fails in the end; only items that
\* `ingest` brought meanwhile leave the request standing.
AskedServed ==
  /\ asked["likes"] = "queued" ~> asked["likes"] # "queued"
  /\ asked["list"] = "queued" /\ pl.enabled
       ~> asked["list"] # "queued" \/ ~pl.enabled \/ pl.available
=============================================================================
