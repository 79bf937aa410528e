---------------------------- MODULE MCTranscode ----------------------------
(***************************************************************************)
(* Transcode for TLC.  Task identities are interchangeable.                *)
(***************************************************************************)
EXTENDS Transcode, TLC

JobSymmetry == Permutations(Jobs)
=============================================================================
