-------------------------- MODULE MCOptimizationJobs ---------------------------
(* Instances of OptimizationJobs for TLC. *)
EXTENDS OptimizationJobs, TLC

CONSTANTS j1, j2, w1, w2, api
===============================================================================
