---------------------------- MODULE SimPolicies ----------------------------
(***************************************************************************)
(* The policies that kerfsim compares on one world: kerf (internal/sim/run *)
(* over internal/queue) and the three baselines (internal/sim/baselines).  *)
(* Each reads a snapshot of the store and names a bead, or none.           *)
(***************************************************************************)
EXTENDS SimLoop, FiniteSetsExt

CONSTANTS
    Rework,      \* the bead IDs labelled rework:true or finding:
    WeightSets   \* the queue's weights: the defaults and those of a weights file

ASSUME PolicyAssumption ==
    /\ Rework \subseteq Beads
    /\ WeightSets \subseteq [fanOut : Nat, momentum : Nat, rework : Nat, creation : Nat]

----------------------------------------------------------------------------
(* queue.Compute, over the store's works and SummaryByWork *)

Entries == {w \in Works : Actionable(w)}

\* Direct and transitive dependents: what no set closed under them leaves out.
HoldsDependents(S, w) == \A v \in Works : world.deps[v] \cap ({w} \cup S) # {} => v \in S
FanOut(w) == Cardinality({v \in Works : \A S \in SUBSET Works : HoldsDependents(S, w) => v \in S})

BeadsOf(w) == {b \in Known : WorkOf[b] = w}
SummaryByWork(w) ==
    [total    |-> Cardinality(BeadsOf(w)),
     complete |-> Cardinality({b \in BeadsOf(w) : status[b] = "closed"}),
     rework   |-> Cardinality({b \in BeadsOf(w) \cap Rework : status[b] # "closed"})]

Score(w, weights) ==
    LET s == SummaryByWork(w) IN
    weights.fanOut * FanOut(w) + weights.rework * s.rework
      + (IF s.total = 0 THEN 0 ELSE (weights.momentum * s.complete) \div s.total)
      + weights.creation * Cardinality({v \in Entries : v > w})

\* The sort is stable: equal scores keep the order of creation.
First(S, weights) ==
    CHOOSE w \in S : \A v \in S \ {w} :
        \/ Score(w, weights) > Score(v, weights)
        \/ Score(w, weights) = Score(v, weights) /\ w < v

----------------------------------------------------------------------------
(* The four policies: the sets of beads that each may name *)

OpenOf(w) == {b \in BeadsOf(w) : status[b] = "open"}

\* Mutant of Kerf: only the top entry is asked for a bead.
KerfTopOnly(weights) ==
    IF Entries = {} \/ OpenOf(First(Entries, weights)) = {} THEN {}
    ELSE {Min(OpenOf(First(Entries, weights)))}

\* Down the entries until one has an open bead.
Kerf(weights) ==
    LET serving == {w \in Entries : OpenOf(w) # {}} IN
    IF serving = {} THEN {} ELSE {Min(OpenOf(First(serving, weights)))}

Random == Dispatchable(status)

ArrivedAt(b) ==
    IF b \in world.initial THEN 0
    ELSE Min({x.tick : x \in {y \in world.timeline : y.bead = b}})

Older(b, c) == ArrivedAt(b) < ArrivedAt(c) \/ (ArrivedAt(b) = ArrivedAt(c) /\ b < c)

FIFOBead == {b \in Dispatchable(status) : \A c \in Dispatchable(status) \ {b} : Older(b, c)}

FIFOWork ==
    {b \in Dispatchable(status) : \A c \in Dispatchable(status) \ {b} :
        WorkOf[b] < WorkOf[c] \/ (WorkOf[b] = WorkOf[c] /\ Older(b, c))}

Policies == {Random, FIFOBead, FIFOWork} \cup {Kerf(weights) : weights \in WeightSets}

(***************************************************************************)
(* The comparison is fair (specs/simulator.md, Baselines): whatever the    *)
(* weights, each policy names only beads that can be dispatched, and names *)
(* none only when no policy could.  The works of the simulator never leave *)
(* the queue, and the one whose beads are all closed has the best momentum *)
(* of all: kerf has to look past it.                                       *)
(***************************************************************************)
PoliciesServe ==
    \A picks \in Policies :
        /\ picks \subseteq Dispatchable(status)
        /\ picks = {} <=> Dispatchable(status) = {}
=============================================================================
