------------------------------ MODULE MCCrawl -------------------------------
(***************************************************************************)
(* Crawl, ArtistOrders and Leads for TLC.  They share no state: part says  *)
(* which of them a behaviour is one of, the others stay at their initial   *)
(* states.                                                                 *)
(* The crawl's two artists have, and sing on, one album.                   *)
(***************************************************************************)
EXTENDS Crawl, Sequences

CONSTANTS a1, a2, b1,
          Orders, MaxItems, MaxErrors, MaxCrashes,
          Refs, ArtistRefs, MaxTries, MaxRunning, StaleTicks, Prios, Recovers,
          MaxPosts, MaxDeaths

MCArtists == {a1, a2}
MCAlbums == {b1}
MCAlbumsOf == [a \in MCArtists |-> MCAlbums]
MCSungBy == [k \in MCArtists \cup MCAlbums |-> IF k \in MCAlbums THEN MCArtists ELSE {}]

VARIABLES part,
          status, handle, stale, older, items, landed, errors,
          phase, batch, sub, job, sent, crashes,
          qstate, tries, held, age, prio, born, lePhase, slots, leBatch,
          lead, made, asked, posts, deaths

aoVars == <<status, handle, stale, older, items, landed, errors,
            phase, batch, sub, job, sent, crashes>>

leVars == <<qstate, tries, held, age, prio, born, lePhase, slots, leBatch,
            lead, made, asked, posts, deaths>>

Ao == INSTANCE ArtistOrders
Le == INSTANCE Leads WITH phase <- lePhase, batch <- leBatch

MCInit ==
  /\ part \in {"crawl", "artist orders", "leads"}
  /\ Init /\ Ao!Init /\ Le!Init
  /\ artists = {a1}   \* the artists are interchangeable

MCNext ==
  /\ UNCHANGED part
  /\ \/ part = "crawl"         /\ Next /\ UNCHANGED <<aoVars, leVars>>
     \/ part = "artist orders" /\ Ao!Next /\ UNCHANGED <<vars, leVars>>
     \/ part = "leads"         /\ Le!Next /\ UNCHANGED <<vars, aoVars>>

\* The fairness of the part that moves, as its own FairSpec has it.
MCFairSpec ==
  /\ MCInit /\ [][MCNext]_<<part, vars, aoVars, leVars>>
  /\ WF_vars(part = "crawl" /\ CrStep)
  /\ WF_aoVars(part = "artist orders" /\ Ao!Tick)
  /\ SF_aoVars(part = "artist orders" /\ Ao!ReadOpen(TRUE))
  /\ SF_aoVars(part = "artist orders" /\ Ao!GetQueue(TRUE))
  /\ \A p \in Ao!Procs : WF_aoVars(part = "artist orders" /\ Ao!Submission(p))
  /\ \A o \in Orders :
       /\ WF_aoVars(part = "artist orders" /\ Ao!GrowStale(o))
       /\ WF_aoVars(part = "artist orders" /\ Ao!Ingest(o))
       /\ WF_aoVars(part = "artist orders" /\ \E k \in 1..MaxItems : Ao!Complete(o, k))
  /\ WF_leVars(part = "leads" /\ Le!LeadTick)
  /\ \A i \in Refs : WF_leVars(part = "leads" /\ Le!LeadDue(i))

-----------------------------------------------------------------------------

\* Every variable of every part has its type.
PartTypes == TypeOK /\ Ao!TypeOK /\ Le!TypeOK

\* See Crawl: the crawl comes to an end.
CrawlComesToEnd == part = "crawl" => CrawlEnds

\* See ArtistOrders: no order fails while its download goes on.
FailsKnown == Ao!FailsKnown
\* See ArtistOrders: every order is done or failed in the end.
OrdersEnd == part = "artist orders" => Ao!OrdersEnd

\* See Leads: a lead makes one order for each request.
LeadOrders == Le!LeadOrders
\* See Leads: a lead comes to an end.
LeadsEnd == part = "leads" => Le!LeadsEnd
=============================================================================
