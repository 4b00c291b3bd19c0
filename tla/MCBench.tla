------------------------------ MODULE MCBench ------------------------------
(* Small instances of Bench for TLC.                                       *)
EXTENDS BenchProperties

CONSTANTS drafting, ready, draft

\* The pass of the last status pre-creates the draft.
MCOutputs == [st \in Statuses |-> IF st = ready THEN Artifacts ELSE {}]

=============================================================================
