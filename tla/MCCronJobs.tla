---------------------------- MODULE MCCronJobs ----------------------------
(***************************************************************************)
(* CronJobs for TLC, with one job: one request and the two runs of its     *)
(* one-shot job.                                                           *)
(***************************************************************************)
EXTENDS CronJobs

CONSTANTS j1, k1, c1, none

MCBounds == {[requests |-> 1, runs |-> 2, faults |-> 0, crashes |-> 0]}
=============================================================================
