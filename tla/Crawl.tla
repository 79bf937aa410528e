------------------------------- MODULE Crawl --------------------------------
(***************************************************************************)
(* The hub's crawl of the Spotify catalogue (music-hub/src/crawl.rs), with *)
(* hub_crawl_state as its frontier.  A pass takes artists to their albums, *)
(* then artists to their top tracks, then albums to their tracks, as far   *)
(* as its budget goes; tracks bring artists the hub had not seen.  Touches *)
(* of other loops seed the frontier at any time.                           *)
(*                                                                         *)
(* A fetch, the rows it writes and the mark of its own row are steps of    *)
(* their own: a failed statement or a restart ends the pass between them.  *)
(***************************************************************************)
EXTENDS Integers, FiniteSets

CONSTANTS Artists, Albums,
          AlbumsOf,     \* artist -> its albums
          SungBy,       \* artist or album -> artists of its tracks
          Budget,       \* crawl_requests_per_pass
          MaxMarks,     \* marks after which an error is final (5)
          MaxExpiries,  \* bound: rows whose TTL expires
          MaxAborts     \* bound: passes that end early

VARIABLES artists, albums,   \* those the hub has a Spotify id of
          row,               \* hub_crawl_state
          pass,              \* the pass under way
          crBudget           \* what is left of the bounds

vars == <<artists, albums, row, pass, crBudget>>

Kinds == {"artist", "artist_top", "album"}
Keys == ({"artist", "artist_top"} \X Artists) \cup ({"album"} \X Albums)
Resting == [stage |-> "none", todo |-> {}, used |-> 0, at |-> {}, new |-> {}]

TypeOK ==
  /\ artists \subseteq Artists /\ albums \subseteq Albums
  /\ row \in [Keys -> [state : {"none", "pending", "done", "error"},
                       marks : 0..MaxMarks, fresh : BOOLEAN]]
  /\ pass \in [stage : {"none", "end"} \cup Kinds, todo : SUBSET Keys, used : Nat,
               at : SUBSET Keys, new : SUBSET Keys]
  /\ crBudget \in [{"expiries", "aborts"} -> Nat]

Init ==
  /\ \E a \in Artists : artists = {a}
  /\ albums = {} /\ pass = Resting
  /\ row = [k \in Keys |-> [state |-> "none", marks |-> 0, fresh |-> FALSE]]
  /\ crBudget = [expiries |-> MaxExpiries, aborts |-> MaxAborts]

Pay(b) == crBudget[b] > 0 /\ crBudget' = [crBudget EXCEPT ![b] = @ - 1]

-----------------------------------------------------------------------------
(* Rows. *)

\* (mutant: marks are not counted)
MarkUncounted(r, s) ==
  [state |-> s, marks |-> r.marks, fresh |-> r.fresh \/ s = "done"]
\* mark_crawl counts every mark, and only "done" renews crawled_at.
Mark(r, s) == [state |-> s, marks |-> IF r.marks < MaxMarks THEN r.marks + 1 ELSE r.marks,
               fresh |-> r.fresh \/ s = "done"]
Marked(K, s) == row' = [k \in Keys |-> IF k \in K THEN Mark(row[k], s) ELSE row[k]]

\* seed_crawl never resets a row.
Seed(A) ==
  row' = [k \in Keys |-> IF k[1] # "album" /\ k[2] \in A /\ row[k].state = "none"
                           THEN [row[k] EXCEPT !.state = "pending"] ELSE row[k]]

Known(k) == IF k[1] = "album" THEN k[2] \in albums ELSE k[2] \in artists
Due(k) ==
  /\ Known(k)
  /\ \/ row[k].state \in {"none", "pending"}
     \/ row[k].state = "error" /\ row[k].marks < MaxMarks
     \/ row[k].state = "done" /\ ~row[k].fresh

Expire(k) ==
  /\ row[k].fresh /\ Pay("expiries") /\ row' = [row EXCEPT ![k].fresh = FALSE]
  /\ UNCHANGED <<artists, albums, pass>>

\* touch_tracks of another loop, for a track of the artist.
Touch(a) ==
  /\ artists' = artists \cup {a} /\ Seed({a})
  /\ UNCHANGED <<albums, pass, crBudget>>

-----------------------------------------------------------------------------
(* touch_cascade. *)

After(stage) ==
  CASE stage = "none" -> "artist" [] stage = "artist" -> "artist_top"
    [] stage = "artist_top" -> "album" [] stage = "album" -> "end"

\* A stage takes what is due as far as the budget goes.
StageOf(stage, used) ==
  LET due == {k \in Keys : k[1] = stage /\ Due(k)} IN
  {T \in SUBSET due : IF Cardinality(due) <= Budget - used
                        THEN T = due ELSE Cardinality(T) = Budget - used}
Begin ==
  /\ pass.stage = "none" /\ \E k \in Keys : Due(k)
  /\ \E T \in StageOf("artist", 0) :
       pass' = [Resting EXCEPT !.stage = "artist", !.todo = T]
  /\ UNCHANGED <<artists, albums, row, crBudget>>
NextStage ==
  /\ pass.stage \in Kinds /\ pass.todo = {} /\ pass.at = {}
  /\ IF pass.used >= Budget \/ After(pass.stage) = "end"
       THEN pass' = Resting
       ELSE \E T \in StageOf(After(pass.stage), pass.used) :
              pass' = [pass EXCEPT !.stage = After(pass.stage), !.todo = T]
  /\ UNCHANGED <<artists, albums, row, crBudget>>

\* get_paged; an error is marked, and one of the rate limit ends the stage.
Fetched(k) ==
  IF k[1] = "artist" THEN {"album"} \X AlbumsOf[k[2]] ELSE {"artist"} \X SungBy[k[2]]
Fetch(k) ==
  /\ pass.at = {} /\ k \in pass.todo
  /\ pass' = [pass EXCEPT !.todo = @ \ {k}, !.at = {k}, !.new = Fetched(k)]
  /\ UNCHANGED <<artists, albums, row, crBudget>>
FetchFails(k, limited) ==
  /\ pass.at = {} /\ k \in pass.todo
  /\ Marked({k}, "error")
  /\ pass' = [pass EXCEPT !.todo = IF limited THEN {} ELSE @ \ {k}]
  /\ UNCHANGED <<artists, albums, crBudget>>

\* An album is stored and marked pending, whatever its row said; the artists
\* of the tracks are stored, and when all are, touched.
Store(n) ==
  /\ pass.at # {} /\ n \in pass.new
  /\ \/ /\ n[1] = "album" /\ albums' = albums \cup {n[2]} /\ Marked({n}, "pending")
        /\ pass' = [pass EXCEPT !.new = @ \ {n}] /\ UNCHANGED artists
     \/ /\ n[1] = "artist" /\ artists' = artists \cup {n[2]}
        /\ pass' = [pass EXCEPT !.new = (@ \ {n}) \cup {<<"artist_top", n[2]>>}]
        /\ UNCHANGED <<albums, row>>
     \/ /\ \A m \in pass.new : m[1] = "artist_top"
        /\ Seed({n[2]}) /\ pass' = [pass EXCEPT !.new = @ \ {n}]
        /\ UNCHANGED <<artists, albums>>
  /\ UNCHANGED crBudget
\* (mutant: the row is marked before what it led to is stored)
MarkDoneEarly ==
  /\ pass.at # {} /\ Marked(pass.at, "done")
  /\ pass' = [pass EXCEPT !.at = {}, !.new = {}, !.used = @ + 1]
  /\ UNCHANGED <<artists, albums, crBudget>>
MarkDone ==
  /\ pass.at # {} /\ pass.new = {} /\ Marked(pass.at, "done")
  /\ pass' = [pass EXCEPT !.at = {}, !.used = @ + 1]
  /\ UNCHANGED <<artists, albums, crBudget>>

Abort ==
  /\ pass # Resting /\ Pay("aborts") /\ pass' = Resting
  /\ UNCHANGED <<artists, albums, row>>

CrStep ==
  \/ Begin \/ NextStage \/ MarkDone
  \/ \E k \in Keys : Fetch(k) \/ Store(k) \/ \E limited \in BOOLEAN : FetchFails(k, limited)

Next ==
  \/ CrStep \/ Abort
  \/ \E k \in Keys : Expire(k)
  \/ \E a \in Artists : Touch(a)

Spec == Init /\ [][Next]_vars

\* The crawl loop goes on.
FairSpec == Spec /\ WF_vars(CrStep)

-----------------------------------------------------------------------------
(* Properties. *)

\* The crawl comes to an end: though artists lead to albums, albums to artists
\* and an artist's fetch opens its albums again, and however often Spotify
\* answers with errors, nothing stays due while no TTL expires.
CrawlEnds == <>[](pass = Resting /\ \A k \in Keys : ~Due(k))

Led(k) ==
  IF k[1] = "artist"
    THEN \A b \in AlbumsOf[k[2]] : b \in albums /\ row[<<"album", b>>].state # "none"
    ELSE \A a \in SungBy[k[2]] :
           a \in artists /\ row[<<"artist", a>>].state # "none"
                         /\ row[<<"artist_top", a>>].state # "none"

\* A row that is done has led on to everything it names, though a pass may end
\* between any two statements: what is not yet fetched is in the frontier.
CascadeComplete == \A k \in Keys : row[k].state = "done" => Led(k)
=============================================================================
