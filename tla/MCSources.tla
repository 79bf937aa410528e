------------------------------ MODULE MCSources ------------------------------
(***************************************************************************)
(* Dispatcher for TLC with the tracks of either source: Deezer's, which    *)
(* deemix downloads, or another's, which yt-dlp does.  source says which;  *)
(* the two take different branches of the tick and nothing else differs.   *)
(***************************************************************************)
EXTENDS Dispatcher, TLC

CONSTANT MaxEvents   \* bound: calls of MaxCalls and crashes together

VARIABLE source

Other == INSTANCE Dispatcher WITH Deezer <- {}

ASSUME SourcesAssumption == Deezer = Tracks

MCInit == source \in {"deezer", "other"} /\ Init

MCNext ==
  /\ UNCHANGED source
  /\ \/ source = "deezer" /\ Next
     \/ source = "other"  /\ Other!Next
  /\ calls' + crashes' <= MaxEvents

MCTick == IF source = "deezer" THEN Tick ELSE Other!Tick

\* Fairness of Dispatcher, for the tick of the source.
MCFairness ==
  /\ WF_codeVars(MCTick \/ Execute("tick")) /\ WF_codeVars(Execute("http"))
  /\ \A j \in Jobs : WF_codeVars(Task(j) \/ Execute(j))
  /\ \A t \in Tracks : SF_codeVars(Answered(t)) /\ WF_codeVars(DeemixEnds(t)) /\ SF_codeVars(Clock(t))

MCFairSpec == MCInit /\ [][MCNext]_<<vars, source>> /\ MCFairness
=============================================================================
