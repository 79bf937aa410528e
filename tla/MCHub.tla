------------------------------- MODULE MCHub --------------------------------
(***************************************************************************)
(* HubOrders, Playlists, Kellner and Features for TLC.  They share no      *)
(* state: part says which of them a behaviour is one of, the others stay   *)
(* at their initial states.                                                *)
(***************************************************************************)
EXTENDS HubOrders, MCFeatures

CONSTANTS MaxEdits, MaxAsks, MaxIngests, MaxListings, MaxStops,
          Isrcs, MaxSaves, MaxWishes, MaxRuns

VARIABLES part,
          remote, pl, asked, content, writer, listing, mixed, crossed, plBudget,
          nml, hubNml, wanted, disk, file, cmd, torn, keBudget

plVars == <<remote, pl, asked, content, writer, listing, mixed, crossed, plBudget>>
keVars == <<nml, hubNml, wanted, disk, file, cmd, torn, keBudget>>

Pl == INSTANCE Playlists
Ke == INSTANCE Kellner

MCInit ==
  /\ part \in {"hub orders", "playlists", "kellner", "features"}
  /\ Init /\ Pl!Init /\ Ke!Init /\ Fe!Init
  /\ part # "features" => keyed

MCNext ==
  /\ UNCHANGED part
  /\ \/ part = "hub orders" /\ Next /\ UNCHANGED <<plVars, keVars, feVars>>
     \/ part = "playlists"  /\ Pl!Next /\ UNCHANGED <<vars, keVars, feVars>>
     \/ part = "kellner"    /\ Ke!Next /\ UNCHANGED <<vars, plVars, feVars>>
     \/ part = "features"   /\ Fe!Next /\ UNCHANGED <<vars, plVars, keVars>>

\* The fairness of the part that moves, as its own FairSpec has it.
MCFairSpec ==
  /\ MCInit /\ [][MCNext]_<<part, vars, plVars, keVars, feVars>>
  /\ WF_vars(part = "hub orders" /\ OrderPending)
  /\ \A w \in Orderers : WF_vars(part = "hub orders" /\ OrderStep(w))
  /\ WF_plVars(part = "playlists" /\ Pl!WorkerStep)
  /\ SF_plVars(part = "playlists" /\ Pl!ReadPage("worker", TRUE))
  /\ WF_keVars(part = "kellner" /\ Ke!RunStep)
  /\ WF_feVars(part = "features" /\ Fe!RecoStep)
  /\ WF_feVars(part = "features" /\ Fe!CallerStep("loop"))

-----------------------------------------------------------------------------

\* Every variable of every part has its type.
PartTypes == TypeOK /\ Pl!TypeOK /\ Ke!TypeOK /\ Fe!TypeOK

\* See HubOrders: music-api gets the priorities in the end.
PrioritiesCaughtUp == part = "hub orders" => CaughtUp

\* See Playlists: what is stored after a fetch that ran alone is current.
ItemsCurrentAlone == Pl!ItemsCurrentAlone
\* See Playlists: a request of the user is served.
AskedServed == part = "playlists" => Pl!AskedServed

\* See Kellner: a member has its file.
MembersHaveFiles == Ke!MembersHaveFiles
\* See Kellner: the collection reaches the hub.
NmlReaches == part = "kellner" => Ke!NmlReaches

\* See Features: a request comes to an end.
RequestsEnd == part = "features" => Fe!RequestsEnd
=============================================================================
