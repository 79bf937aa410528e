----------------------------- MODULE MCFeatures -----------------------------
(***************************************************************************)
(* Features as a part of MCHub, where all of it runs, and of MCSafety,     *)
(* where its paid callers meet: its constants, its variables and the two   *)
(* safety properties, beside the names of the other parts.                 *)
(***************************************************************************)
CONSTANTS Songs, Handlers, Clis, Cap, MaxRequests, MaxClicks, MaxFails

VARIABLES feat, request, used, keyed, reco, paid, billed, lost, blind, outrun, feBudget

feVars == <<feat, request, used, keyed, reco, paid, billed, lost, blind, outrun, feBudget>>

Fe == INSTANCE Features

\* See Features: the bound on what is billed.
BilledBound == Fe!BilledBound
\* See Features: features once found stay.
FoundKept == Fe!FoundKept
=============================================================================
