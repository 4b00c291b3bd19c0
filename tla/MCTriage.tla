----------------------------- MODULE MCTriage ------------------------------
(* Two works, of which either may host the label codename:<second>. *)
EXTENDS Triage

CONSTANTS b1, b2, cohort, work1, work2, loop1, other

MCNamed == [l \in {cohort} |-> 2]
MCContaining == [l \in {cohort} |-> {1, 2}]
MCLabelSets == {{}, {cohort}, {work1}, {work1, work2}}
MCFallback == <<work1, work2>>
=============================================================================
