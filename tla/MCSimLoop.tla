----------------------------- MODULE MCSimLoop -----------------------------
(* Two works, the first with three beads in one area, and two agents. *)
EXTENDS SimMetrics, SimPolicies

MCWorkOf == <<1, 1, 1, 2>>
MCAreaOf == <<"code", "none">>

\* Beads of one work differ in nothing else: in the order of their IDs.
MCDurations == {d \in [Beads -> 1..MaxDuration] : d[1] <= d[2] /\ d[2] <= d[3]}

\* The defaults, in units small enough for a third; and momentum alone.
MCWeights ==
    {[fanOut |-> 600, momentum |-> 300, rework |-> 900, creation |-> 6],
     [fanOut |-> 0, momentum |-> 300, rework |-> 0, creation |-> 0]}
============================================================================
