---------------------------- MODULE MCScheduler -----------------------------
(***************************************************************************)
(* Instances of Scheduler for TLC: cron strings that match every one and   *)
(* every two minutes, and one that does not parse.                         *)
(***************************************************************************)
EXTENDS Scheduler, TLC

MCEvery == [c \in Crons |-> CASE c = "e1" -> 1 [] c = "e2" -> 2 [] OTHER -> 0]
AllE1 == [j \in Jobs |-> "e1"]
OneEach == [k \in FaultKinds |-> 1]
=============================================================================
