# A TLA+ model of the music stack

This directory models, checks and proves properties of the program in this repository. The
repository holds a music library stack: **music-api** fetches tracks by ISRC, derives formats,
analyses them and keeps a vault of objects; **music-hub** is the web application that orders
tracks; **kellner** is the companion on a user's machine. The model started with music-api, where
most of the lasting state and of the concurrency is; it now also has the artist orders of music-api,
the loops of music-hub that write what other loops read, and the commands of kellner.

- [The system](#the-system)
- [Modules](#modules)
- [Runs](#runs)
- [Bounds](#bounds)
- [Fairness](#fairness)
- [What does not hold](#what-does-not-hold)
- [Proofs](#proofs)
- [Not modelled](#not-modelled)
- [Plan](#plan)

To check a run: `tlc -config Store_objects.cfg Store.tla`; to check proofs: `tlapm StoreProofs.tla`.

## The system

### Components

| component | state | operations | partners |
|---|---|---|---|
| dispatcher and track ledger (`worker.rs`, `db.rs`, `work.rs`) | a row per track: state, attempts, lease, back-off; a `fetch` item per track; in memory the set `finalizing` and two semaphores | one tick every 5 s in phases: reap leases, reconcile items, dispatch, advance downloads; tasks that finalize or run yt-dlp; `POST /orders`, `POST /tracks/{isrc}/retry` | deemix queue, yt-dlp, orders, transcode |
| orders (`db.rs`) | an order's status and its links to tracks | create, refresh, cancel | every writer of a track refreshes the track's orders |
| work queue (`work.rs`) | items: kind, reference, state, priority, attempts, `not_before`, `updated_at` | enqueue, enqueue if absent, next, claim, finish, fail, retry later, recover stale, free slots | fetch, transcode, analyze, crawl leads |
| transcode (`worker.rs`, `transcode.rs`) | `formats` of a track, files on disk, tasks | drain of its items, ffmpeg in place, publish | finalize, artist ingest, `POST /work` |
| analyze (`worker.rs`, `db.rs`) | essentia rows, the set `analyzing`, tasks, back-off of the analyzer login | reconcile of a batch, drain, analysis of one track | analyzer service, `POST /metadata` |
| object store (`store.rs`, `bin/store_import.rs`) | files named by hash, a row for each | PUT, DELETE, bulk prune, orphan prune, import | kellner backup, clients |
| artist orders, crawl leads (`worker.rs`, `api.rs`, `db.rs`) | orders `open/running/done/failed` with the name of a download, leads in the work queue, the set `artist_ingesting` | create, submit, poll, ingest, turn a lead into an order | deemix, transcode, hub's curation |
| external services (`deemix.rs`, `deezer.rs`, `ytdlp.rs`, `analyzer.rs`) | none here | calls that answer, fail or time out | dispatcher, analyze |
| vault, HTTP, auth, config, log ring | none a property is about | reads and rendering, token comparison | clients |
| kellner (`sync/*.rs`, `state.rs`) | `state.json`: upload mtime, downloads, backpack members; files of the collection | collection upload, `downloads`, `backpack`, `backup`, pairing; a loop and one-off commands | hub, music-api |
| hub: playlists and likes (`worker.rs`, `ingest.rs`) | a row per playlist with flags and two snapshots, its items, the status of each request | fetch by the worker, the `ingest` command, refresh of the list, seven handlers that ask | Spotify, read model |
| hub: download orders (`crawl.rs`) | ledger of the priorities sent | the loop, touches, the now-playing lane | music-api |
| hub: crawl of the catalogue (`crawl.rs`) | frontier of artists and albums, each pending, done or failed, with attempts | bounded passes in three stages, seeds by touches | Spotify |
| hub: audio features (`features.rs`, `freqblog.rs`) | a row per track, requests, the month's usage | a free loop, a paid loop, manual lookups, a backfill | ReccoBeats, FreqBlog, music-api |
| hub: other loops (genres, curation, analysis, token refresh) | rows of their own | bounded passes | Spotify, music-api |
| hub: devices, web UI | device tokens, tags, backpacks | request handlers | kellner, browsers |
| legacy, docs, site | - | frozen predecessor, documents | - |

### How music-api runs

One process, a multi-threaded async runtime, and SQLite behind a pool of five connections. **A
statement is atomic, a function is not**: almost none of the functions of `db.rs` and `work.rs`
uses a transaction, so whoever runs between two statements sees and changes what is between them.
The actors are the tick loop (one task, phases in a fixed order, woken by a timer or a notification),
the tasks it spawns (bounded by semaphores), and HTTP handlers. A restart loses every task, guard
and permit and keeps every row and file.

So an action of these modules is one SQL statement, one file system call, or one await together
with the in-memory steps up to the next. Functions with several statements are several actions
with a program counter, and every other actor may come between.

### What is hard, and what makes it correct

- *Orders of many tracks:* an order's status must be what its tracks' states say although each
  mover of a track re-derives it on its own. Cancelled must stay cancelled.
- *Leases, back-off, retries, recovery*: four mechanisms re-touch a row; none may lose work, start
  it twice at once, exceed the retry budget or drop below ready.
- *Caps:* each is counted once and spent over later statements.
- *Guards:* `finalizing` and `analyzing` must match the live tasks at every exit.
- *Reconciles:* work that has no item gets one; work that failed for good must not come back; a
  bounded batch must not starve what is behind it.
- *Files and rows:* two stores that cannot change together, cleaned up by a scan that races with
  every writer.
- *Ledgers of what was sent:* priorities, snapshots, billed lookups and upload times are recorded
  after the call they are about; what is read before the call may have changed, and others record
  too. A stale record must cost a repetition at most, never lose the work.
- *Loops that feed themselves:* the crawl finds what it crawls; it must end, and what ends early
  must leave its rest in the frontier.
- *Two processes, one file:* kellner's commands each write back a whole copy of `state.json`.

music-hub is one process as well: loops and handlers beside each other over SQLite, statement by
statement, except that its command line (`ingest`, `freqblog`) is a second process. kellner is one
process for each command. So the same grain of atomicity serves there.

`PROJECT.json` lists each hazard at its line with the property that watches it.

## Modules

| module | models | extended or instantiated by |
|---|---|---|
| `Ledger` | the statements on one track row and its fetch item (`db.rs`, `work.rs`) | `Dispatcher` |
| `SlotPool` | abstract specification: a pool of slots taken and given back one at a time | `Dispatcher` |
| `Lifecycle` | abstract specification: items queued, claimed by one worker within the cap, settled by it or recovered from nobody | `Transcode`, `Analysis` |
| `Dispatcher` | the tick's phases, tasks, handlers, clock, crashes | `MCDispatcher`, `MCSources`, `DispatcherProofs` |
| `Orders` | orders over tracks, as statements of several processes | `MCSafety`, `OrdersProofs` |
| `WorkQueue` | items of one kind, the drain of a tick, recovery | `Transcode`, `Analysis`, `Leads`, `WorkQueueProofs` |
| `Transcode` | producers, tasks, files and formats | `MCTranscode`, `TranscodeProofs` |
| `Analysis` | reconcile, drain, guard, analyzer, essentia rows | `MCSafety`, `AnalysisProofs` |
| `Store` | files and rows of the object store | `StoreProofs` |
| `ArtistOrders` | submission, polling and ingest of artist orders | `MCCrawl`, `CrawlProofs` |
| `Leads` | crawl leads, from their request to the artist order they become | `MCCrawl`, `CrawlProofs` |
| `Playlists` | the hub's copy of a playlist and of the likes | `MCHub`, `HubProofs` |
| `HubOrders` | the hub's ledger of priorities and its three writers | `MCHub`, `HubProofs` |
| `Crawl` | the hub's frontier and the passes over it | `MCCrawl`, `CrawlProofs` |
| `Features` | audio features from a free and a paid service | `MCFeatures`, a part of `MCHub` and `MCSafety`; `HubProofs` |
| `Kellner` | the commands that keep `state.json` | `MCHub`, `HubProofs` |

`MCSafety`, `MCHub` and `MCCrawl` put components that share no state beside each other: the
variable `part` says which one a behaviour is of, the others stay where they began. They are a
choice between parts, not a composition, and cost the sum of the parts' states. `MCSources` chooses
the source of `Dispatcher`'s track the same way. Components that do
interact are composed in one module: ledger, slots and tasks in `Dispatcher`, queue and kind in
`Transcode` and `Analysis`.

**Ledger and Dispatcher.** `state`, `item`, attempts and retries are the columns; `phase`, `slots`
and `cur` are the tick's locals; `op[p]` is the place of the tick, a task or a handler inside a
function with several statements. `leased` and `stale` stand for the comparisons of timestamps the
code makes, and the clock's actions move them. What deemix holds of a track is an external
variable with every answer the client handles. `Lapses` says when a lease may pass its end:
never, only while no task works on the row, or any time. Priorities, paths and metadata are left out.
`disturbed` is history, set by `Witness` beside each step of the code (`Step`): the tracks that two
processes had in hand at once, that the tick took up from a list after they had settled, whose call a
crash cut off, or whose row a user's retry reset in flight. A track stays in it until it is at rest:
settled, its item not running, in nobody's hands.

**Orders.** The tracks move from any state to any other, out of ready too, since `schedule_retry` and
the `mark_*` functions look at no state before they write one; `delivered` is history: the tracks that
have been ready. A call is the walk over
the orders of a track: read the ids, and for each read the states, then write the status. The
cancellation marks, then unlinks. `mixed` is history: it says that two calls have overlapped, or
that a crash cut one off, after which the derived status is no longer promised.

**WorkQueue.** One kind of item with its rows; kinds share no rows and no cap. The drain is
`CountSlots`, `NextItems`, then `Claim` for each item of the batch; `IsNext` is the query's
order and limit, with ties left open. `Recovers` says which running items may grow old
enough for `recover_stale`: those without a live task, or any.

**Transcode.** A file is copied in place into the store (`StartCopy`), whatever is there and whatever
the row has, by a download or by an artist order's ingest. A download's end writes the row's paths
anew, the derived ones are dropped (`MarkReady`), and enqueues the transcode in a later statement
(`EnqueueTranscode`); an ingest adds its path to what the row has and enqueues nothing (`IngestFile`).
`POST /work` asks for a transcode (`CreateWork`). A task waits for a permit, reads the row, runs ffmpeg
for each missing format in place (a file under ffmpeg or a copy is not `whole`), publishes the paths
and settles its item. `twice` is history: the tracks a file was brought for when they had one, or
while another was copied. `forgot` is history, too: those whose latest file has nobody to enqueue it.

**Analysis.** `ReadUnanalysed` takes `Batch` ready FLACs without essentia row, `Fill` enqueues one if
absent. Which ones is left open: the query orders by priorities and by `updated_at`, which orders and
published formats move at any time. The guard `analyzing` is inserted before the spawn and removed at the end
of the task, whatever happened in between. `blocked` is the back-off of the analyzer login.

**Store.** `file` and `row` are sets of hashes, `oldFile` and `oldRow` those past the grace period
of the orphan prune. A process is in one call at a time; the scan carries the rows it read. A file
that lands during a walk is too young for it (a scan is shorter than the grace period, 3600 s by
default), and a PUT gets from its row to its file within the grace period. `acked` are the objects
a client has been told are stored, by a PUT that no DELETE of the same object overlapped. `past` is
history: whether the prune ran, and whether anything but PUT and the prune did. The bytes
are left out: files are named by their hash, put in place by a rename and never rewritten.

**ArtistOrders.** `items[o]` are the downloads deemix made of an order, `handle[o]` the one its row
names (0: deemix gave no name). A submission is login, send and mark, by the order's handler
and by the tick, neither of which reads the row again; the tick's phases are the submission of what
was open, the queue's answer, and a settlement of each row by what was read before. `landed` and
`older` stand for the comparison of file times in the ingest: a file counts when it is newer than
the order, whoever's download wrote it. A lead makes an order at any time.

**Leads.** The other side of that action: a lead is a work item that the tick drains itself, and
`lead` is its place between claim and finish. `made` and `asked` are history: orders made of a lead,
and requests that queued it. `Die` is a crash, or a statement whose error ends the tick: either way
the lead in hand stays `running` until recovery.

**Playlists.** Spotify's side is a version that grows; `content` are the versions the stored items
came from, read page by page. A fetch is the read of what is due, the pages, DELETE, INSERT and the
update of the row. `crossed` says that the fetch under way has not been alone; `mixed`, that the last
one to end was not, or that a second writer or a late refresh came after it. Of the likes only the
request is kept: a fetch of them deletes the user's and inserts what it has read (`store_likes`), as it
does with a playlist's items.

**HubOrders.** A writer reads priorities (the number of references), sends them in batches of one
priority, and records after the last answer what was answered, with whatever status: `refused` says
which tracks music-api turned down. `prio` is music-api's side: the highest priority of a track's
orders. The now-playing lane adds a boost and records nothing. A touch or the lane whose read of the
priorities fails orders at 0.

**Crawl.** A key is an artist, an artist's top tracks, or an album. A pass goes through three
stages on one budget; a fetch, each row it stores, and the mark of its own row are separate steps,
and a pass may end between any two. `mark_crawl` counts every mark and never resets the count.

**Features.** `feat` is none, missed (`found = 0`) or found. The free loop alternates between
requested and all tracks; the paid callers check the budget, read the row, ask, count and store. They
are the paid loop, any number of handlers of clicks (`Handlers`; `digging_enrich` takes no lock) and
`freqblog` processes (`Clis`). The loop and the handlers need the server's key (`keyed`), which a
restart may find changed. The database may fail a caller anywhere (`DbFails`): a budget that cannot be
read counts as unspent. `lost` and `blind` count what is billed and not counted, and the lookups made
at such a wall. `outrun` are the tracks found while another caller, who read the row before, still has
to write.

**Kellner.** Each command holds its copy of `state.json` from `Load` to its end; `disk` are the
tracks with a file. `torn` says that two commands held copies at once, or that one died
between a rename and its save.

## Runs

Each line is one configuration of TLC; `PROJECT.json` says more about each.

| run (configuration) | question | result |
|---|---|---|
| `dispatch_sources` (`MCSources`) | either source, leases and items that lapse under live tasks, a user's retry or a crash: is a track guarded exactly while one finalize task works on it, do `ready` and the retry budget hold in one worker's hands, and does the track end settled or stranded, never anywhere else? | holds |
| `dispatch_ytdlp` (`MCDispatcher_ytdlp`) | two tracks, one slot, a crash anywhere: does the ledger implement `SlotPool`, do row and item agree but for a call the crash cut off, and does every order settle that the crash did not strand? | holds |
| `ready_regresses` (`MCDispatcher_ready`) | does a ready track stay ready on the deemix path? | violated |
| `crash_strands` (`MCDispatcher_stale`) | is an item left running by a process that died queued again? | violated |
| `orders_and_guard` (`MCSafety`) | two callers, tracks that leave ready again, and a crash: does done count no track that was never delivered, is a cancellation final once no refresh holds the order, is the status at rest the derived one as long as calls do not overlap? And: is the guard of analysis exact when items of live tasks are recovered? And: do three callers of the paid service keep to its budget, but for one lookup of each of the others and for what is lost or cannot be read? | holds |
| `transcode_derived` (`MCTranscode_derived`) | failing encodes and copies, files brought again by downloads and artist orders, a request and a crash: published files whole until a file is brought again, the items in their lifecycle (`Lifecycle`) and within the cap, tries bounded, formats derived? | holds |
| `transcode_overlap` (`MCTranscode_overlap`) | one worker per item when a slow item is recovered? | violated |
| `analysis_analysed` (`Analysis_analysed`) | a batch of one and two tracks, failures, a request and a crash: is every ready FLAC analysed or failed out unless settled ones fill the batch, does what failed out stay failed, is nothing analysed twice? | holds |
| `store_objects` (`Store_objects`) | three processes, failing renames and a crash: is what was answered kept, does no file lack its row, do files and rows come to agree? | holds |
| `hub_and_kellner` (`MCHub`) | does the ledger say no more than was sent, and do the priorities arrive? Is what a fetch stored current, and is every request served? Has a member its file, and does the collection reach the hub? Are found features kept, and do requests end, with a key for the paid service or without? | holds |
| `crawl_and_artists` (`MCCrawl`) | has what is done led on, and does the crawl end? Does every artist order end, and none fail while its download goes on? Does a request for a lead make one order but for a crash, and does every lead end? | holds |
| `kellner_prune` (`Kellner_prune`) | does what `downloads` fetched stay in the collection? | violated |

Some properties state their own exceptions, each as narrow as TLC allows: `RetryBudget`,
`ReadyKeptAlone` and `Lockstep` but for `disturbed` tracks, `Settles` but for such a track stranded;
`DoneIsReady` with a track that has left ready while a refresh is on its way, or after calls
overlapped; `StatusDerived` until calls overlap; `FilesWhole` until a file is brought again (`twice`),
`FailsOut` with one claim more for each crash, `Derived` but for a track whose latest file nothing
enqueues (`forgot`); `AnalysedOnce` until a crash or a request, `Analysed` unless a batch full of
settled tracks is in the way; `AckedKept` and `FileHasRow` by the past of the store;
`ItemsCurrentAlone` unless `mixed`, `LedgerSent` but for refused tracks, `MembersHaveFiles` unless
`torn`; `LeadOrders` by one order for each crash, `FailsKnown` for orders sent once; `BilledBound` by
one lookup of each other caller, by what was lost and by what was asked blindly, `FoundKept` but for
callers outrun, `RequestsEnd` where there is a key.
[What does not hold](#what-does-not-hold) says what each exception is for.

Every property of a passing run has a mutant in `PROJECT.json`: a plausible slip in a modelled
definition (marked "(mutant: ...)" in the modules) with which the run finds the property violated.

## Bounds

- *Tracks, references, hashes: 1 or 2.* Rows of different tracks meet only in a cap, a batch and an
  order's items. Two tracks with one slot, one batch place or one common order exercise each of
  these. Objects of the store meet nowhere but in a scan, which treats them one by one.
- *Jobs, processes: 1 to 3.* A race on a row needs two actors; three (two PUTs and a scan) are
  taken in the object store, where the scan is itself many steps long.
- *MaxAttempts, MaxTries: 1 or 2* (5 and 3 in the code): one retry after which the budget is out.
- *MaxInflight, MaxRunning, YtSlots: 1 or 2:* full with one, and one task beside another with two. In
  `dispatch_ytdlp` it is one, since two tracks cannot overfill two slots; with two it passes as well.
- *Sources: one track at a time in `dispatch_sources`,* of Deezer or of another source, since what is
  asked there is about the processes on one track; `MaxAttempts = 1`, and one retry or one crash in a
  behaviour (`MaxEvents`). Without liveness it passes with two attempts, a retry and a crash as well.
- *Lapses, Recovers:* `"any"` lets leases lapse and items grow old under a live task,
  `"unattended"` only without one. The code promises neither: `DOWNLOAD_TIMEOUT_SECS` (900 s) may be
  set above `WORK_STALE_SECS` (1800 s), and yt-dlp has no timeout (`ytdlp.rs:31-42`). So
  `dispatch_sources` and `orders_and_guard` take `"any"`, and so do the theorems about `Dispatcher`. In the
  runs that take `"unattended"` (`dispatch_ytdlp`, `transcode_derived`, `analysis_analysed`) a task slower than
  that is left out; what it meets is under [What does not hold](#what-does-not-hold).
- *Files brought: two, by one collector* (`MaxFiles`, `Collectors`): a file and one that comes again.
  `FilesStayWhole` is for any number of both.
- *Batch of `Analysis`: one, for two tracks,* so that a track waits behind a full batch.
- *StaleTicks: 1 or 2,* the cycles of the clock until an item is stale: the code compares
  timestamps, and only before or after matters.
- *MaxCalls: 0 to 2,* HTTP calls that re-arm work; *MaxCrashes: 0 or 1.* Calls that cannot be
  repeated for ever in the liveness runs, so that settling means something.
- *Artist orders: one order, two submissions* (its handler's and the tick's), one lost answer, one
  crash. Orders meet only in the ingest, which takes every newer file; that is in `Scan`.
- *Leads: two for one slot,* one of them an artist's; three requests, one crash.
- *Hub orders: two tracks, two references, `Limit = OrderBatch = 1`* (500 each), so that a pass
  leaves tracks out and a group is sent in two batches; three changes of the references, one touch
  or boost, one fault.
- *Playlists:* one edit, request, `ingest`, refresh and stop each: every pair of actors meets. Two
  refreshes were too many for the time a run has; `ItemsCurrentHolds` is for any number of them.
- *Crawl: two artists with one common album,* a budget of two requests (three stages want more), two
  marks (5 in the code), one expiry and one pass that ends early. That the album's artists lead back
  to the album is the cycle the end of the crawl is about.
- *Features: one song,* a budget of one lookup, one failure. `hub_and_kellner` has the loop and one
  handler, two requests and one click; `orders_and_guard` asks for the budget with the loop, a handler and a
  command beside each other. Songs meet in a batch and in the budget, and there the race is between
  callers, not songs. `BilledBoundHolds` is for any number of callers.
- *Kellner: one track,* two wishes, two or three starts of a command, one save by Traktor.
- Nothing else is bounded: every loop of the tick, lease, task, page and scan may go round for ever.

`CHECK_DEADLOCK FALSE` stands where the system may come to rest: everything settled and no call
left. Symmetry is used on interchangeable jobs, processes, tracks and orders, in safety runs only.

## Fairness

- The tick goes on (`WF` on `Tick`, in `Dispatcher` together with the statements it is at, and on
  `LeadTick`): `run` loops for ever, an error of a phase ends its tick (`?`) and is
  logged, and the next tick runs.
- Tasks end (`WF` on `Task(j)`, `Submission(p)`, `Ingest(o)`, and on each task of `Dispatcher` with the
  statements it is at; a handler that has begun goes on, too): the analyzer call ends or times out;
  that ffmpeg and yt-dlp end is assumed, since the code sets them no timeout (`ytdlp.rs:31-42`);
  semaphores and mutexes of the runtime are first come, first served. Nothing makes an encode, a
  copy or an analysis succeed: failing for ever is among the behaviours.
- The clock goes on (`WF` on the clock's actions, `SF` in `Dispatcher`, where a re-touch may put off what
  is due again and again, and time passes all the same).
- deemix ends what it accepted (`WF` on `DeemixEnds`, `Complete`), and its login and queue are
  answered infinitely often if they are asked infinitely often (`SF` on `Answered`, `ReadOpen(TRUE)`,
  `GetQueue(TRUE)`).
- The hub's loops go on: playlist worker, orders, crawl, the free and the paid feature loop, each a
  `loop` around passes whose errors are logged. Spotify answers a page in the end (`SF` on
  `ReadPage`); the other services may fail a bounded number of times, or for ever where the
  code counts the failures itself (the crawl's attempts).
- `kellner run` goes on in its interval; the other commands are started by users and never fair.
- In `Store`, calls end, time passes, and someone calls the orphan prune again and again. The code
  has no schedule for the prune; `Reconciles` is about what its callers get.

Crashes, HTTP calls, clicks, edits, failures and lapses are never fair.

## What does not hold

Four runs end in a violation; `PROJECT.json` quotes the comment or document each contradicts.

- *Ready undone* (`ready_regresses`; `worker.rs`, `advance_downloads`): rows read before the
  deemix queue answers are acted on after it; a second finalize re-queues a track that is ready.
  `ReadyKeptAlone` says that there is no way but this one and two workers on one track.
- *Stranded by a crash* (`crash_strands`): a crash within `schedule_retry` leaves a pending row
  whose item runs with nobody at it, and the reconcile keeps the item too fresh to be recovered.
- *Slow is taken for dead* (`transcode_overlap`; `work.rs`, `recover_stale`): two transcodes of
  one item at once, both writing the same files in place.
- *A download goes to the trash* (`kellner_prune`; `backpack.rs`, `prune`): a track that is both a
  member and a download has one file; when it leaves the backpacks the file goes, and `state.json`
  still says it was downloaded.

The exceptions of the other properties are where TLC found them not to hold, or where reading the
code shows it; the constants named are those with which it shows.

Of music-api:

- `RetryBudget`, `ReadyKeptAlone`, `Lockstep`: two workers on one track judge and move its row in turn.
  A lease lapses while a yt-dlp job runs or waits for its permit, and the reaper re-queues the row; an
  item is recovered from under its live task; or a user retries a row in flight (`db.rs`,
  `reset_track_to_pending`). Then a failure is counted twice, a ready row re-queued by the slower one, or an
  item is done beside a downloading row. TLC refutes each property if any part of `disturbed` is left out.
- `Settles`: a track that was reset or recovered like this may be stranded as by a crash (`dispatch_sources`
  allows for it in `SettlesOrStrands`).
- `DoneIsReady`: an order is done and one of its tracks has left ready, until the refresh is through; when two
  calls overlapped, or a crash cut the refresh off, until the next one.
- `StatusDerived`: of two overlapping refreshes the one that read first may write last, a crash
  between a track's move and the refresh leaves the status behind, and a refresh under way re-opens
  an order that is cancelled meanwhile (`orders_and_guard`).
- `FailsOut`: an item that takes the process down is recovered and claimed whatever its attempts
  (`transcode_derived`): `claim` counts, and only `retry_later` compares.
- `FilesWhole`: a file that is brought for a track that has one is copied in place over the published
  file (`worker.rs:1114`, `1130`, and `finalize`), so a reader finds half of it, and a copy that fails leaves it so;
  or it is published while a transcode that read the row before writes it.
- `Derived`: after a crash between `mark_ready` and the enqueue; for a file ingested from an artist
  order; when the enqueue falls on a running item, whose task may have read the row before.
- `Analysed`: a track that failed out, or that `POST /metadata` has given another source than essentia
  when its item is done, is never analysed again and keeps its place in the batch; as many of them as
  the batch has places (25) keep all others out for good.
- `AnalysedOnce`: a crash between the essentia row and the finish of its item.
- `AckedKept`, `FileHasRow`: a PUT whose rename fails deletes a row another PUT may rely on; a row
  left behind by a crash is old from the start and pruned from under a new PUT; a scan that read
  the rows before a PUT ensured one removes the object after the answer.
- `LeadOrders`: a crash between a lead's order and its finish; recovered, the lead makes a second
  order of the same artist, since `create_artist_order` looks for none.
- `FailsKnown`: the tick and the handler both submit a new order, neither looks at the row again,
  and a rejection of the second submission fails the order while the first one downloads.
- An artist order may be `done` before its own download ended: its ingest takes any newer file,
  also one that another order's download wrote, and the tick settles by what was found
  (`models.rs:19-20` says done means ingested).

Of music-hub:

- `ItemsCurrentAlone`: not while two writers overlap, nor when a late refresh of the list takes the
  row's snapshot back. `last_synced_snapshot` is the snapshot the row has after the fetch
  (`worker.rs:506`), not the one at the time of the fetch that `migrations/037` speaks of.
- `LedgerSent`: `order_with_priority` does not look at the HTTP status, so what music-api refused is
  recorded as ordered (`crawl.rs:136-138` says only what was ordered is).
- Tracks that the crawl finds have no ISRC and are never ordered unless a like or playlist
  refers to them (`crawl.rs:5` and `13` say otherwise).
- An artist's fetch marks its albums pending again, those done too, where `migrations/049:5-7` says
  that a done row is only revisited after its TTL; `CrawlEnds` holds because an artist itself is
  fetched once per TTL. The attempts count every mark and are never reset: after five marks a single error is final. The
  budget of a pass counts fetches that succeeded only.
- `BilledBound`: the loop, clicks and command-line processes check the budget before any of them
  counts, so the cap is exceeded by one for each caller beside the first, by each billed answer that
  is lost on the way, and by what is asked when the budget cannot be read, which counts as unspent
  (`freqblog.rs:112-123`; `freqblog.rs:6-7` and `14` say it is never exceeded).
- `FoundKept`: `store(None)` overwrites features another source found meanwhile.
- `RequestsEnd`: the request of a song whose features came from another source is not deleted and
  stays for ever (`migrations/020:4`). It is not fetched again either. Without a key for the paid
  service a request the free one missed stays, too (`features.rs:323`).
- Audio features are not asked at ReccoBeats first in every case (`freqblog.rs:7-8`): "no data" from
  music-api makes a `found = 0` row (`features.rs:489-500`), and an error answer of ReccoBeats is
  parsed as an empty one (`features.rs:148`); either way the track counts as missed, and the free
  service is not asked again. An answer 202 is stored as missing and not taken up later.

Of kellner:

- `MembersHaveFiles`: two commands at once lose each other's records, since each writes back the
  copy it began with; one that dies between a rename to the trash and its save leaves a member
  without file.

## Proofs

TLAPS proves, for every value of the constants that satisfies the named assumptions (finite sets of
tracks and jobs, natural bounds):

| theorem | module | says |
|---|---|---|
| `TypeCorrect`, `OrdersTypeCorrect`, `TranscodeTypeCorrect`, `AnalysisTypeCorrect`, `StoreTypeCorrect`, `HubOrdersTypeCorrect`, `CrawlTypeCorrect`, `PartTypesHold` (twice) | each component's | types of every variable of every component |
| `CapHolds`, `ImplementsPool` | `DispatcherProofs` | at most `MaxInflight` rows download; every step of the dispatcher is a step of `SlotPool` or leaves it alone |
| `GuardHolds` | `DispatcherProofs` | a track is in `finalizing` exactly while one task finalizes it, whatever lapses, is retried or crashes |
| `OneAtATime` | `DispatcherProofs` | row, item and whoever works on a track go together, at every point of every call, for every track not `disturbed` |
| `BudgetKept`, `ReadyStays`, `ItemsInLockstep` | `DispatcherProofs` | dispatches stay within the retry budget, ready stays ready, item and row agree between calls: each for every track not `disturbed`, of every source, under every lapse, recovery, retry and crash |
| `DoneHolds`, `CancelHolds` | `OrdersProofs` | done counts delivered tracks only, and one that left ready has a refresh on its way unless calls overlapped; cancelled is final once no refresh holds the order |
| `StatusHolds` | `OrdersProofs` | the status at rest is the derived one as long as calls do not overlap |
| `TranscodeCapHolds`, `AnalysisCapHolds` | `TranscodeProofs`, `AnalysisProofs` | the cap on running items, also when items of live tasks are recovered |
| `TranscodeLives`, `AnalysisLives` | `TranscodeProofs`, `AnalysisProofs` | every step of the kind is a step of `Lifecycle`, or leaves the items and their holders alone |
| `OneWorkerHolds`, `FilesStayWhole`, `FailsOutHolds` | `TranscodeProofs` | one task encodes a track; published files are whole until a file is brought again; an item is claimed only while it has tries left |
| `GuardHolds`, `GuardExactHolds` | `AnalysisProofs`, `OrdersProofs` | `analyzing` matches the tasks, alone and in the run's composition |
| `FailedStays`, `AnalysedOnceOnly` | `AnalysisProofs` | only `POST /work` revives a failed item; no track is analysed twice |
| `AckedHolds` | `StoreProofs` | an answered PUT keeps file and row, under PUTs and prunes, and under PUTs, DELETEs, imports and crashes |
| `FileRowHolds` | `StoreProofs` | under PUTs and prunes no file lacks its row |
| `LedgerHolds` | `HubProofs` | the ledger never says more than music-api was sent, refused tracks excepted |
| `ItemsCurrentHolds` | `HubProofs` | after a fetch that was alone the items are no older than their snapshot |
| `MembersHaveFilesHolds` | `HubProofs` | a member has its file, unless commands overlapped or one died before its save |
| `BilledBoundHolds`, `FoundKeptHolds` | `HubProofs` | no more is billed than the cap, one for each caller beside the loop, what was lost and what was asked blindly; what was found is lost only to a caller outrun |
| `CascadeHolds` | `CrawlProofs` | a row of the frontier that is done has led on to everything it names |
| `FailsKnownHolds` | `CrawlProofs` | an order sent once is not failed while deemix downloads it |
| `LeadOrdersHolds` | `CrawlProofs` | a lead that is done has become an order, and one for each request and crash at most |

So every safety property that a passing run checks has its theorem. The theorems about `Dispatcher`,
`Orders` and the store have no hypotheses; those about the hub, kellner and the crawl have the named
bounds on their constants. One more hypothesis is left, because without it the code does not keep
the property: *`Recovers = "unattended"`* in `TranscodeProofs` and `AnalysisProofs`, for all but types, caps and
guards. `transcode_overlap` shows the other case; the guards and caps hold in that case, too.

The arguments:

- *Caps.* `InflightCap` and `RunningCap` are not inductive: the slots are counted in one step and
  spent in later ones. `CapInv` adds what is committed: rows downloading **plus** slots still to
  hand out (or the batch still to claim) stay within the bound. It is inductive because only the
  tick raises the count, and everyone else lowers it. `WorkQueueProofs` proves it for the loop
  once; `Transcode` and `Analysis` only show that each of their actions is a step of the loop or a
  statement that adds no running item.
- *Refinement.* The pool's variable is the set of downloading rows. A step adds one row, and only
  below the cap (`CapInv`), or takes rows away one at a time, or changes nothing.
- *Lifecycle.* Who holds an item is read off the tasks (`Attended`), in `Analysis` off the claim in hand
  and the tasks that have not settled yet (`InHand`). That a claimed item is in nobody's hands, and a settled one
  running and in one task's, is `OwnInv` with `OneWorker` or the guard; that there is a slot, the cap
  after the claim; that recovery takes from nobody, `Recovers`. An item the guard turns away is dropped (`Lose`)
  and waits, running, for its recovery: with `Recovers = "unattended"` the guard never turns one away
  while its task still holds it, only one whose task has settled and not yet released the guard.
- *Done.* A status is written from states read earlier. `DoneInv` adds that of a `done` waiting to be
  written every track has been delivered; `delivered` only grows, and an order in hand was created, so
  its items cannot grow. That one that left ready is told of is `StatusInv`, below.
- *Derived status.* `StatusInv` says that, while calls never overlapped, there is at most one, a
  status about to be written is the one the tracks say, and every order the call does not cover
  has it already.
- *Cancelled.* Once no process holds the order and its links are gone, no walk finds it again.
- *Guard.* `analyzing` (`finalizing`) equals the set of references of live tasks, and no two tasks share
  one.
- *One at a time.* Each step is reduced to what it does to one track: to the call a process is in
  (`Effect`), to a task (`Progress`), to what the tick has in hand (`TickMoves`). `PlaceInv` says who may be
  doing what, for every track. `Sole`, `RowInv` and `ItemInv` say, for a track not disturbed, that one
  process has it in hand, and that the row and the item are as this process found or left them; they
  are inductive because whoever else takes the track up disturbs it by definition, and they hold
  again of a track at rest (`Rested`). So each move of a row is from the state it was judged by: the
  budget and `ready` follow, and row and item differ only between a row's statement and its item's.
- *Files.* `OwnInv` of `Transcode`: a live task's item is running, and no two tasks have one item.
  `FilesInv`, of a track no file was brought for again: what a task has still to encode is not published, and
  what is copied is not published yet; so the file under ffmpeg or a copy is none the row names.
  `TriesInv`: an item has at most as many claims as tries and crashes.
- *Analysed once.* `OwnInv` of `Analysis`, as above. `OnceInv`: a track with an essentia row has a done
  item, or the task that stored the row is about to finish it.
- *Ledger.* `Sent` adds the entries that are answered and not yet recorded: each is of a track
  that was refused, or that music-api has at that priority or a higher one. Priorities at
  music-api only grow, so an old entry recorded late is still true.
- *Cascade.* `PassSound` adds the row at hand: what its fetch names is either still in `new`, the
  set to be stored, or led to already. The frontier only grows and `mark_crawl` never unmakes a
  row, so what was led to stays; an end of the pass loses `new`, but then the row is not done.
- *Playlists.* `FetchAlone`: a fetch that has been alone so far has read nothing older than the row's
  snapshot, and the items are what it has read by the time it records. `LastAlone` keeps it after
  that, until another fetch or refresh. TLC refuted the first form of it, with two refreshes: a fetch
  cleared `mixed` that began before another one ended; since then `crossed` is kept apart.
- *Kellner.* As long as nothing is `torn`, one command at a time holds a copy, the copy is the file's
  but for what the command is about to save (`CopiesAgree`), and the backpack knows its files.
- *Features.* `BillsCounted`: billed is used plus the answers not yet counted plus the lost. `WithinCap`: a
  caller past its check found room or asked blindly, so used and what is under way exceed the cap by
  one for each of the others at most. `HoldersKnown`: who
  holds a row read before it was found is outrun.
- *Artist orders.* `SentKnown`: of an order that was sent once there is one answer of deemix under way,
  or a marked row, never both; so its handle is the one of its only item, and what the tick read
  of it (`SaidTrue`) still holds when it settles. Items never go back to downloading.
- *Leads.* `OrdersPaid`: orders made, plus one while an order is still to be made (`Credit`), are paid for by
  requests and crashes. The tick has the lead in hand while its item runs (`HeldRuns`), and recovery
  is the tick's too, so only a crash lets an item run with nobody at it.
- *Object store.* `DeleteInv`: an undisturbed PUT and a DELETE of the same object never overlap, so
  what a PUT wrote is there when it answers. `PruneInv`: every row past the grace period has its
  file, a row without file has a PUT on its way, and what a walk has before it is known to it.
  The past only grows, so each holds as long as the past is of its kind.

Each of these invariants was checked by TLC before it was proved, the hub's and crawl's with more actors
and larger bounds than the runs have. `TranscodeCapHolds` and `AnalysisCapHolds` need no run of
their own: `LifeSpec` says it of the same loop in `transcode_derived`; `AnalysisLives` was checked by TLC with
one and two slots before its proof.

Only model-checked: the liveness properties (`Settles`, `SettlesOrStrands`, `Derived`, `Analysed`,
`Reconciles`, `PrioritiesCaughtUp`, `AskedServed`, `NmlReaches`, `RequestsEnd`, `CrawlComesToEnd`,
`OrdersEnd`, `LeadsEnd`). They rest on fairness, and `ENABLED` is beyond the prover.

## Not modelled

- *Pairing and devices* of the hub: a protocol about credentials, which wants a review of its own.
- *The directory of yt-dlp* (`ytdlp.rs:27`) that two jobs of one track share, and a `state.json` cut
  off in the middle of its write (`state.rs:146`): contents of files under two writers.
- *Starvation of the dispatch* while the deemix login is down (`worker.rs:279`): Deezer candidates
  passed over keep their places in the batch before the others.
- *music-hub's other loops*: genres, curation, the read model of music-api's analysis (`analysis.rs`),
  token refresh: bounded passes that read, ask and write rows of their own. The command line's
  `features` pass is a second `RecoStep` in another process and left out.
- *The web UI*: the handlers that change what a modelled loop reads are actions of `Playlists`,
  `Features` and `HubOrders`; the others render or write one row. Scores and similarities are
  floating-point arithmetic.
- *External services, tags, wire formats, configuration, logs*: left out, or modelled as what they may
  answer.
- *legacy*: frozen, and replaced by the three programs. It is most of the lines of this repository
  that these modules do not stand for; pages, templates and parsers are most of the rest.

## Plan

The order is by what a user loses when it goes wrong.

1. *Done:* dispatcher, orders, work queue with its two kinds, object store; types, caps, refinement
   of the slot pool, done and cancel, the guard, the store's regimes.
2. *Done:* artist orders and leads; the hub's playlists, orders, crawl and features; kellner's commands.
3. *Ingest:* two artist orders, whose scans take each other's files.
4. *Priorities and starvation* in the dispatcher: candidates passed over while the login is down.
5. *Done:* what the queue promises to a kind (`Lifecycle`), implemented by `Transcode` and
   `Analysis` under recovery of items without a task. *Left:* the same of `Leads`, whose tick is the one worker,
   and the tries as part of the promise.
6. *Done:* `mark_ready` and ingests run again over published paths, in `Transcode`.
7. *Curation beside artist orders*, and the hub's analysis read model beside `Analysis`.
8. *Done:* a theorem for every safety property of the passing runs. *Left:* what a row keeps
   although two processes have it in hand, beyond the cap and the guard.
