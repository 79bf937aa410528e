---------------------------- MODULE MCDispatcher ----------------------------
(***************************************************************************)
(* Dispatcher for TLC.  Background tasks are interchangeable, so the runs  *)
(* without liveness reduce by the permutations of Jobs.                    *)
(***************************************************************************)
EXTENDS Dispatcher, TLC

JobSymmetry == Permutations(Jobs)
=============================================================================
