---------------------------- MODULE SpecReports ----------------------------
(***************************************************************************)
(* What commands have reported about the works of a project, while they    *)
(* overlap in any way and are killed at any step.  Two variables remember  *)
(* the overlaps: a report is in doubt when the spec.yaml it is about was   *)
(* handled by two commands at once, or left half-written by a kill.        *)
(***************************************************************************)
EXTENDS SpecFiles

ASSUME NamesAssumption == Procs \cap Beads = {}

VARIABLES
    mixed,    \* works with two commands at their spec.yaml, until all have left it
    doubted   \* the agents and beads whose report is in doubt

reportVars == <<vars, mixed, doubted>>

\* A process is between reading the spec.yaml of w and its last write to it.
AtWork(p, w) == pc[p] \notin {"idle", "scan"} /\ job[p].work = w

\* The work the last report about an agent's session, or about a bead, names.
About(x) == IF x \in Procs THEN holds[x] ELSE promised[x]

\* The reports a step of p makes.
Said(p) ==
    IF pc[p] = "write" THEN {q \in {p} : job[q].kind = "resume"}
    ELSE {b \in Beads : promised'[b] # promised[b]}

\* Two commands that pin one bead.
Rivals(b) ==
    \E p, q \in Procs : p # q /\ job[p].bead = b /\ job[q].bead = b

\* A step that disturbs the files of `works` and makes the reports `said`.
Note(works, said) ==
    /\ mixed' = {w \in Works :
                    \/ w \in mixed /\ \E p \in Procs : AtWork(p, w)'
                    \/ \E p, q \in Procs : p # q /\ AtWork(p, w)' /\ AtWork(q, w)'}
    /\ doubted' = {x \in Procs \cup Beads :
                    /\ About(x)' # None
                    /\ \/ x \in doubted \ said
                       \/ About(x)' \in works
                       \/ x \in Beads /\ Rivals(x)}

\* A kill after the truncation leaves the file empty.
CutShort(p) == {w \in Works : pc[p] = "write" /\ job[p].work = w}

ReportsInit == Init /\ mixed = {} /\ doubted = {}

ReportsNext ==
    \E p \in Procs :
        \/ Start(p) /\ Note(mixed, {})
        \/ Step(p) /\ Note(mixed, Said(p))
        \/ Crash(p) /\ Note(mixed \cup CutShort(p), {})

ReportsSpec == ReportsInit /\ [][ReportsNext]_reportVars

\* The operating system lets every process that runs go on.
FairReportsSpec == ReportsSpec /\ \A p \in Procs : WF_vars(Step(p))

----------------------------------------------------------------------------
(***************************************************************************)
(* What a command reported stays true until the next report about it: the  *)
(* session an agent was given is the active one, a pin is in its work.     *)
(* However commands overlap, a report is undone only when two of them were *)
(* at one spec.yaml at the same time, when two pins moved one bead, or     *)
(* when a rewrite in place was killed: commands at different works, and    *)
(* commands that come upon what an overlap or a kill has left, undo none.  *)
(* (Nothing is looked for in a file that is being rewritten in place.)     *)
(***************************************************************************)
ReportsHold ==
    \A x \in (Procs \cup Beads) \ doubted :
        LET w == About(x) IN
        \/ w = None
        \/ \E p \in Procs : pc[p] = "write" /\ job[p].work = w
        \/ file[w] \in SpecText /\ IF x \in Procs THEN file[w].active = x ELSE x \in file[w].pins
============================================================================
