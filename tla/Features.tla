------------------------------ MODULE Features ------------------------------
(***************************************************************************)
(* Audio features of the hub's tracks (music-hub/src/features.rs,          *)
(* freqblog.rs): a free service is asked for every track, a paid one, on a *)
(* monthly budget, for what users requested and the free one missed.       *)
(*                                                                         *)
(* The enrichment loop asks ReccoBeats; a loop of its own, the handlers of *)
(* users' clicks and `freqblog` of the command line, a process each, ask   *)
(* FreqBlog; a backfill asks music-api.  All write the same rows, each     *)
(* from what it read before it waited for its service.  The time is one    *)
(* month; every song has a Spotify id and an ISRC.                         *)
(***************************************************************************)
EXTENDS Integers, FiniteSets

CONSTANTS Songs,      \* the hub's tracks
          Handlers,   \* digging_enrich: no lock is taken, any number may run
          Clis,       \* processes of `freqblog`
          Cap,        \* freqblog_monthly_cap
          MaxRequests, \* bound: requests of users
          MaxClicks,  \* bound: manual lookups
          MaxFails    \* bound: errors, walls, lost answers, restarts

VARIABLES feat,       \* hub_track_features: no row, found = 0, found = 1
          request,    \* hub_feature_requests
          used,       \* hub_api_usage
          keyed,      \* the server was started with a key for FreqBlog
          reco,       \* the enrichment loop
          paid,       \* the callers of enrich_tracks
          billed,     \* history: what FreqBlog has billed
          lost,       \* history: billed answers that were not counted
          blind,      \* history: lookups at the wall that was not read
          outrun,     \* history: songs that one found while another, who had
                      \* read the row before, still has to write it
          feBudget    \* what is left of the bounds

vars == <<feat, request, used, keyed, reco, paid, billed, lost, blind, outrun, feBudget>>

Callers == {"loop"} \cup Handlers \cup Clis
\* todo: the songs in hand; first: they were requested; hits: those found; at:
\* the one whose request goes.
Pass(pc, first) == [pc |-> pc, first |-> first, todo |-> {}, hits |-> {}, at |-> {}]
\* ids: the batch; todo: what is left of it; at: the one looked up.
Away == [pc |-> "idle", ids |-> {}, todo |-> {}, at |-> {}]

TypeOK ==
  /\ feat \in [Songs -> {"none", "missed", "found"}]
  /\ request \subseteq Songs /\ outrun \subseteq Songs
  /\ used \in Nat /\ billed \in Nat /\ lost \in Nat /\ blind \in Nat /\ keyed \in BOOLEAN
  /\ reco \in [pc : {"read", "ask", "store", "drop"}, first : BOOLEAN,
               todo : SUBSET Songs, hits : SUBSET Songs, at : SUBSET Songs]
  /\ paid \in [Callers -> [pc : {"idle", "budget", "row", "lookup", "hit", "queued",
                                 "keepHit", "keepMiss", "clear"},
                           ids : SUBSET Songs, todo : SUBSET Songs, at : SUBSET Songs]]
  /\ feBudget \in [{"asks", "clicks", "fails"} -> Nat]

Init ==
  /\ feat = [t \in Songs |-> "none"] /\ request = {} /\ used = 0 /\ keyed \in BOOLEAN
  /\ reco = Pass("read", TRUE) /\ paid = [c \in Callers |-> Away]
  /\ billed = 0 /\ lost = 0 /\ blind = 0 /\ outrun = {}
  /\ feBudget = [asks |-> MaxRequests, clicks |-> MaxClicks, fails |-> MaxFails]

Draw(b) == feBudget[b] > 0 /\ feBudget' = [feBudget EXCEPT ![b] = @ - 1]

\* What someone has read and will write.
HeldByReco == IF reco.pc = "read" THEN {} ELSE reco.todo
HeldBy(c) == IF paid[c].pc \in {"lookup", "hit", "queued", "keepHit", "keepMiss"}
               THEN paid[c].at ELSE {}
HeldByCallers(cs) == UNION {HeldBy(c) : c \in cs}
Put(t, word, others) ==
  /\ feat' = [feat EXCEPT ![t] = word]
  /\ outrun' = IF t \notin others THEN outrun \ {t}
               ELSE IF word = "found" THEN outrun \cup {t} ELSE outrun

\* enqueue_missing: what has no usable features is requested.
Request(t) ==
  /\ Draw("asks") /\ t \notin request /\ feat[t] # "found"
  /\ request' = request \cup {t}
  /\ UNCHANGED <<feat, used, keyed, reco, paid, billed, lost, blind, outrun>>

\* backfill_from_music_api: data is stored, "no data" makes a row found = 0
\* where there is none and changes no other.
FromMusicApi(t) ==
  /\ feat[t] # "found"
  /\ \/ Put(t, "found", HeldByReco \cup HeldByCallers(Callers))
     \/ feat[t] = "none" /\ Put(t, "missed", {})
  /\ UNCHANGED <<request, used, keyed, reco, paid, billed, lost, blind, feBudget>>

-----------------------------------------------------------------------------
(* ReccoBeats: priority_once, then sync_once, for ever. *)

NextPass == Pass("read", ~reco.first)

ReadBatch ==
  LET batch == {t \in Songs : feat[t] = "none" /\ (reco.first => t \in request)} IN
  /\ reco.pc = "read"
  /\ reco' = IF batch = {} THEN NextPass ELSE [reco EXCEPT !.pc = "ask", !.todo = batch]
  /\ UNCHANGED <<feat, request, used, keyed, paid, billed, lost, blind, outrun, feBudget>>

\* An answer with an error status is taken for one that has none of the songs.
RecoAnswers ==
  /\ reco.pc = "ask"
  /\ \E hits \in SUBSET reco.todo :
       reco' = [reco EXCEPT !.pc = "store", !.hits = hits]
  /\ UNCHANGED <<feat, request, used, keyed, paid, billed, lost, blind, outrun, feBudget>>

RecoFails ==
  /\ reco.pc = "ask" /\ Draw("fails") /\ reco' = NextPass
  /\ UNCHANGED <<feat, request, used, keyed, paid, billed, lost, blind, outrun>>

\* A hit of a requested song takes the request away in a statement of its own.
RecoStore(t) ==
  /\ reco.pc = "store" /\ t \in reco.todo
  /\ Put(t, IF t \in reco.hits THEN "found" ELSE "missed", HeldByCallers(Callers))
  /\ reco' = [reco EXCEPT !.todo = @ \ {t},
                          !.pc = IF reco.first /\ t \in reco.hits THEN "drop" ELSE @,
                          !.at = IF reco.first /\ t \in reco.hits THEN {t} ELSE @]
  /\ UNCHANGED <<request, used, keyed, paid, billed, lost, blind, feBudget>>
RecoDrop ==
  /\ reco.pc = "drop"
  /\ request' = request \ reco.at
  /\ reco' = [reco EXCEPT !.pc = "store", !.at = {}]
  /\ UNCHANGED <<feat, used, keyed, paid, billed, lost, blind, outrun, feBudget>>
RecoDone ==
  /\ reco.pc = "store" /\ reco.todo = {} /\ reco' = NextPass
  /\ UNCHANGED <<feat, request, used, keyed, paid, billed, lost, blind, outrun, feBudget>>

RecoStep ==
  ReadBatch \/ RecoAnswers \/ (\E t \in Songs : RecoStore(t)) \/ RecoDrop \/ RecoDone

-----------------------------------------------------------------------------
(* FreqBlog: enrich_tracks. *)

Goes(c, rec) == paid' = [paid EXCEPT ![c] = rec]
To(c, pc) == Goes(c, [paid[c] EXCEPT !.pc = pc])
NextSong(c) == Goes(c, [paid[c] EXCEPT !.pc = "budget", !.at = {}])

\* (mutant: requests that have no row, as the free pass reads them)
ReadRequestsUntried ==
  LET ids == {t \in request : feat[t] = "none"} IN
  /\ keyed /\ paid["loop"].pc = "idle" /\ ids # {}
  /\ Goes("loop", [pc |-> "budget", ids |-> ids, todo |-> ids, at |-> {}])
  /\ UNCHANGED <<feat, request, used, keyed, reco, billed, lost, blind, outrun, feBudget>>
\* freqblog_priority_once: requests that have a row with found = 0, if there is
\* a key.
ReadRequests ==
  LET ids == {t \in request : feat[t] = "missed"} IN
  /\ keyed /\ paid["loop"].pc = "idle" /\ ids # {}
  /\ Goes("loop", [pc |-> "budget", ids |-> ids, todo |-> ids, at |-> {}])
  /\ UNCHANGED <<feat, request, used, keyed, reco, billed, lost, blind, outrun, feBudget>>

\* digging_enrich, `freqblog`: any songs.  A command reads a key of its own.
Click(c, ids) ==
  /\ c \in Handlers => keyed
  /\ paid[c].pc = "idle" /\ ids # {} /\ Draw("clicks")
  /\ Goes(c, [pc |-> "budget", ids |-> {}, todo |-> ids, at |-> {}])
  /\ UNCHANGED <<feat, request, used, keyed, reco, billed, lost, blind, outrun>>

\* remaining, for each song; at the wall the requests stay.
CheckBudget(c) ==
  LET t == CHOOSE t \in Songs : paid[c].todo = {} \/ t \in paid[c].todo IN
  /\ paid[c].pc = "budget"
  /\ IF paid[c].todo = {} THEN To(c, "clear")
     ELSE IF used >= Cap THEN Goes(c, Away)
     ELSE Goes(c, [paid[c] EXCEPT !.pc = "row", !.todo = @ \ {t}, !.at = {t}])
  /\ UNCHANGED <<feat, request, used, keyed, reco, billed, lost, blind, outrun, feBudget>>

\* (mutant: what has features is looked up again)
ReadRowAnyway(c) ==
  /\ paid[c].pc = "row" /\ To(c, "lookup")
  /\ UNCHANGED <<feat, request, used, keyed, reco, billed, lost, blind, outrun, feBudget>>
\* enrich_one: a song that has features is passed over.
ReadRow(c) ==
  /\ paid[c].pc = "row"
  /\ IF \E t \in paid[c].at : feat[t] = "found" THEN NextSong(c) ELSE To(c, "lookup")
  /\ UNCHANGED <<feat, request, used, keyed, reco, billed, lost, blind, outrun, feBudget>>

\* 200 and 202 are billed, 404 is free.
FreqAnswers(c) ==
  /\ paid[c].pc = "lookup"
  /\ \/ billed' = billed + 1 /\ (To(c, "hit") \/ To(c, "queued"))
     \/ billed' = billed /\ To(c, "keepMiss")
  /\ UNCHANGED <<feat, request, used, keyed, reco, lost, blind, outrun, feBudget>>

\* 429, 401, 403 and errors end the batch; an answer that gets lost may have
\* been billed.
FreqFails(c) ==
  /\ paid[c].pc = "lookup" /\ Draw("fails") /\ Goes(c, Away)
  /\ \E n \in 0..1 : billed' = billed + n /\ lost' = lost + n
  /\ UNCHANGED <<feat, request, used, keyed, reco, blind, outrun>>

\* (mutant: what is queued is asked for again at once)
AddUsagePolls(c) ==
  /\ \/ paid[c].pc = "hit" /\ To(c, "keepHit")
     \/ paid[c].pc = "queued" /\ To(c, "lookup")
  /\ used' = used + 1
  /\ UNCHANGED <<feat, request, keyed, reco, billed, lost, blind, outrun, feBudget>>
AddUsage(c) ==
  /\ \/ paid[c].pc = "hit" /\ To(c, "keepHit")
     \/ paid[c].pc = "queued" /\ To(c, "keepMiss")
  /\ used' = used + 1
  /\ UNCHANGED <<feat, request, keyed, reco, billed, lost, blind, outrun, feBudget>>

\* store_found, store_missing.
FreqStore(c) ==
  /\ paid[c].pc \in {"keepHit", "keepMiss"}
  /\ \E t \in paid[c].at :
       Put(t, IF paid[c].pc = "keepHit" THEN "found" ELSE "missed",
           HeldByReco \cup HeldByCallers(Callers \ {c}))
  /\ NextSong(c)
  /\ UNCHANGED <<request, used, keyed, reco, billed, lost, blind, feBudget>>

\* The whole batch is handled: its requests go, one by one.
ClearRequest(c) ==
  /\ paid[c].pc = "clear"
  /\ IF paid[c].ids = {} THEN Goes(c, Away) /\ UNCHANGED request
     ELSE \E t \in paid[c].ids :
            request' = request \ {t} /\ Goes(c, [paid[c] EXCEPT !.ids = @ \ {t}])
  /\ UNCHANGED <<feat, used, keyed, reco, billed, lost, blind, outrun, feBudget>>

\* The database fails a caller.  A wall it cannot read is no wall (`used` is 0
\* then), a row it cannot read is passed over, a failing write ends the batch.
DbFails(c) ==
  /\ Draw("fails")
  /\ \/ /\ paid[c].pc = "budget" /\ used >= Cap
        /\ \E t \in paid[c].todo :
             Goes(c, [paid[c] EXCEPT !.pc = "row", !.todo = @ \ {t}, !.at = {t}])
        /\ blind' = blind + 1 /\ UNCHANGED lost
     \/ paid[c].pc = "row" /\ NextSong(c) /\ UNCHANGED <<lost, blind>>
     \/ /\ paid[c].pc \in {"hit", "queued"} /\ Goes(c, Away)
        /\ lost' = lost + 1 /\ UNCHANGED blind
     \/ /\ paid[c].pc \in {"keepHit", "keepMiss", "clear"} /\ Goes(c, Away)
        /\ UNCHANGED <<lost, blind>>
  /\ UNCHANGED <<feat, request, used, keyed, reco, billed, outrun>>

CallerStep(c) ==
  \/ CheckBudget(c) \/ ReadRow(c) \/ FreqAnswers(c) \/ AddUsage(c) \/ FreqStore(c)
  \/ ClearRequest(c) \/ (c = "loop" /\ ReadRequests)

-----------------------------------------------------------------------------

\* The server stops and starts again, perhaps with another setting of the key,
\* or a command stops: what one of them was billed for and has not counted is
\* lost.
Restart ==
  /\ Draw("fails")
  /\ \E gone \in {{"loop"} \cup Handlers} \cup {{c} : c \in Clis} :
       /\ lost' = lost + Cardinality({c \in gone : paid[c].pc \in {"hit", "queued"}})
       /\ paid' = [c \in Callers |-> IF c \in gone THEN Away ELSE paid[c]]
       /\ IF "loop" \in gone THEN reco' = Pass("read", TRUE) /\ keyed' \in BOOLEAN
          ELSE UNCHANGED <<reco, keyed>>
  /\ UNCHANGED <<feat, request, used, billed, blind, outrun>>

Next ==
  \/ RecoStep \/ RecoFails \/ Restart
  \/ \E t \in Songs : Request(t) \/ FromMusicApi(t)
  \/ \E c \in Handlers \cup Clis, ids \in SUBSET Songs : Click(c, ids)
  \/ \E c \in Callers : CallerStep(c) \/ FreqFails(c) \/ DbFails(c)

Spec == Init /\ [][Next]_vars

\* The two loops go on, and services that fail answer again.
FairSpec == Spec /\ WF_vars(RecoStep) /\ WF_vars(CallerStep("loop"))

-----------------------------------------------------------------------------
(* Properties. *)

\* What is billed exceeds the cap by one lookup at most for each other caller,
\* which may all have passed the check before the last unit was counted, by the
\* billed answers that were not counted, and by the lookups made at a wall that
\* could not be read.  (freqblog.rs:6-7 and 14 promise the cap itself.)
BilledBound == billed <= Cap + Cardinality(Handlers \cup Clis) + lost + blind

\* Features once found are not lost again to a late "not found": only a caller
\* that read the row before they were found, and waited since, may do it.
FoundKept ==
  [][\A t \in Songs : feat[t] = "found" /\ feat'[t] # "found" => t \in outrun]_vars

\* A requested song gets its features, or the request goes, or the month's
\* budget is spent, or the free service missed it and there is no key for the
\* paid one (migrations/020: "Rows are deleted once the worker has attempted a
\* lookup"), whatever fails on the way.
RequestsEnd ==
  \A t \in Songs :
    t \in request ~>
      \/ t \notin request \/ feat[t] = "found" \/ used >= Cap
      \/ ~keyed /\ feat[t] = "missed"
=============================================================================
