---------------------------- MODULE MCNetBridge -----------------------------
(***************************************************************************)
(* Instances of NetBridge for TLC: a few queued requests, room for two     *)
(* overlapping drain() activations, and the faults it admits.              *)
(***************************************************************************)
EXTENDS NetBridge

\* One fault of every kind: safety holds whatever goes wrong once.
AllFaults == [k \in FaultKinds |-> 1]
=============================================================================
