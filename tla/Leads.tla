------------------------------- MODULE Leads --------------------------------
(***************************************************************************)
(* Crawl leads (music-api/src/worker.rs, kind `crawl:deezer`): each tick   *)
(* drains the queue itself, one lead after the other; a lead becomes an    *)
(* artist order, which is submitted before the lead is finished.  What the *)
(* order comes to is the matter of ArtistOrders.                           *)
(***************************************************************************)
EXTENDS WorkQueue

CONSTANTS ArtistRefs, \* those refs that are an artist's id or URL
          MaxPosts,   \* bound: POST /work calls for leads
          MaxDeaths   \* bound: crashes, and statements whose error ends the tick

VARIABLES lead,       \* the lead the tick has claimed, and what it is at
          made,       \* artist orders made of a lead
          asked,      \* history: POSTs that queued it
          posts, deaths

leadVars == <<lead, made, asked, posts, deaths>>
vars == <<queueVars, drainVars, leadVars>>

NoLead == [pc |-> "none"]
LeadSet ==
  {NoLead} \cup [pc : {"url", "create", "submit", "finish", "retry", "requeue", "fail"}, i : Refs]

TypeOK ==
  /\ QueueTypeOK
  /\ lead \in LeadSet
  /\ made \in [Refs -> Nat] /\ asked \in [Refs -> Nat]
  /\ posts \in 0..MaxPosts /\ deaths \in 0..MaxDeaths

Init ==
  /\ QueueInit
  /\ lead = NoLead
  /\ made = [i \in Refs |-> 0] /\ asked = [i \in Refs |-> 0]
  /\ posts = 0 /\ deaths = 0

-----------------------------------------------------------------------------

\* create_work: a lead that is queued or running already is left at that.
PostLead(i) ==
  /\ posts < MaxPosts /\ posts' = posts + 1
  /\ \E p \in Prios : Enqueue(i, p)
  /\ asked' = IF qstate[i] \in {"queued", "running"} THEN asked
              ELSE [asked EXCEPT ![i] = @ + 1]
  /\ UNCHANGED <<drainVars, lead, made, deaths>>

-----------------------------------------------------------------------------
(* advance_crawl_leads.  Nobody but the tick has a lead in hand, and it    *)
(* has none when recover_stale runs.                                       *)

LeadDrain ==
  /\ lead = NoLead
  /\ \/ Wake({}, "count") \/ CountSlots \/ NextItems \/ DrainDone
     \/ \E i \in Refs : SkipClaimed(i)
  /\ UNCHANGED leadVars

ClaimLead(i) ==
  /\ lead = NoLead /\ Claim(i) /\ lead' = [pc |-> "url", i |-> i]
  /\ UNCHANGED <<made, asked, posts, deaths>>

At(pc) == lead.pc = pc
GoTo(pc) == lead' = [lead EXCEPT !.pc = pc]

NormalizeUrl ==
  /\ At("url")
  /\ GoTo(IF lead.i \in ArtistRefs THEN "create" ELSE "fail")
  /\ UNCHANGED <<queueVars, drainVars, made, asked, posts, deaths>>

\* create_artist_order, which inserts an order whatever others the artist has.
CreateOrder ==
  /\ At("create")
  /\ \/ GoTo("submit") /\ made' = [made EXCEPT ![lead.i] = @ + 1]
     \/ GoTo("retry") /\ UNCHANGED made
  /\ UNCHANGED <<queueVars, drainVars, asked, posts, deaths>>

\* submit_artist_order: whatever comes of it, the lead is finished.
SubmitOrder ==
  /\ At("submit") /\ GoTo("finish")
  /\ UNCHANGED <<queueVars, drainVars, made, asked, posts, deaths>>

\* retry_later reads the attempts first.
ReadLeadTries ==
  /\ At("retry") /\ GoTo(IF OutOfTries(lead.i) THEN "fail" ELSE "requeue")
  /\ UNCHANGED <<queueVars, drainVars, made, asked, posts, deaths>>

\* (mutant: the lead is not finished)
SettleFailures ==
  /\ \/ At("finish") /\ UNCHANGED queueVars
     \/ At("requeue") /\ Requeue(lead.i)
     \/ At("fail") /\ Fail(lead.i)
  /\ lead' = NoLead
  /\ UNCHANGED <<drainVars, made, asked, posts, deaths>>
SettleLead ==
  /\ \/ At("finish") /\ Finish(lead.i)
     \/ At("requeue") /\ Requeue(lead.i)
     \/ At("fail") /\ Fail(lead.i)
  /\ lead' = NoLead
  /\ UNCHANGED <<drainVars, made, asked, posts, deaths>>

LeadTick ==
  \/ LeadDrain \/ NormalizeUrl \/ CreateOrder \/ SubmitOrder \/ ReadLeadTries \/ SettleLead
  \/ \E i \in Refs : ClaimLead(i)

LeadDue(i) == HoldElapses(i) /\ UNCHANGED leadVars

Die ==
  /\ deaths < MaxDeaths /\ deaths' = deaths + 1
  /\ phase' = "rest" /\ slots' = 0 /\ batch' = {} /\ lead' = NoLead
  /\ UNCHANGED <<queueVars, made, asked, posts>>

Next == LeadTick \/ Die \/ \E i \in Refs : PostLead(i) \/ LeadDue(i)

Spec == Init /\ [][Next]_vars

\* The tick and the clock go on.
FairSpec == Spec /\ WF_vars(LeadTick) /\ \A i \in Refs : WF_vars(LeadDue(i))

-----------------------------------------------------------------------------
(* Properties. *)

\* A lead that is done has become an artist order, and no request makes more
\* than one (worker.rs:874: "The artist order now owns the work"), though
\* the order is made, submitted and its lead finished in three steps, requests
\* fall between them, and creations fail: only a crash may double it.
LeadOrders ==
  \A i \in Refs :
    /\ qstate[i] = "done" => made[i] > 0
    /\ made[i] <= asked[i] + deaths

\* Every lead that is asked for is done or failed in the end, for good, also
\* the one that a crash left running in the only slot, and those behind it
\* (worker.rs:37-38).
LeadsEnd == <>[](\A i \in Refs : qstate[i] \in {"none", "done", "failed"})
=============================================================================
