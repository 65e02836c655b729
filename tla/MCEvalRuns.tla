------------------------------ MODULE MCEvalRuns ------------------------------
(* Instances of EvalRuns for TLC. *)
EXTENDS EvalRuns, TLC

CONSTANTS w1, w2, c1, c2

(* Of two callers the second only cancels, and a run has one cancellation, *)
(* one deletion or one fault.                                              *)
OneDisturbance == cancels + faults <= 1 /\ pc[c2] # "insert"
===============================================================================
