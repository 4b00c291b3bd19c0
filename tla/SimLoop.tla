------------------------------ MODULE SimLoop ------------------------------
(***************************************************************************)
(* The event loop of kerfsim (internal/sim/loop) over the bead store       *)
(* (internal/sim/store): agents take beads one at a time, completions free *)
(* them, scripted arrivals add beads.  A policy is any choice among the    *)
(* dispatchable beads; SimPolicies has the four policies of the code.      *)
(***************************************************************************)
EXTENDS Naturals, FiniteSets, Bags

CONSTANTS
    NumWorks,     \* works of the scenario, in scenario and codename order
    NumBeads,     \* bead IDs of the generated world, in ID order
    WorkOf,       \* the work each bead is labelled with
    NumAgents,
    TicksCap,     \* the scenario's `ticks`
    MaxDuration,  \* bound on pre-rolled durations
    DurationChoices, \* which durations the beads of a world may have
    MaxScripted   \* bound on the number of scripted arrivals

Works == 1..NumWorks
Beads == 1..NumBeads
Agents == 0..(NumAgents - 1)
NoBead == 0

ASSUME SimAssumption ==
    /\ NumWorks \in Nat /\ NumBeads \in Nat /\ MaxScripted \in Nat
    /\ NumAgents \in Nat \ {0} /\ TicksCap \in Nat \ {0} /\ MaxDuration \in Nat \ {0}
    /\ WorkOf \in [Beads -> Works]
    /\ DurationChoices \subseteq [Beads -> 1..MaxDuration]

VARIABLES
    world,    \* the generated world: never written by the loop
    status,   \* Store.beadsByID[..].Status, "absent" for an unknown bead
    owner,    \* BeadState.AgentID
    idle,     \* which agents are free
    heap,     \* the event heap: a bag of events
    clock,    \* wallTicks
    stop      \* "running", or the stop reason

vars == <<world, status, owner, idle, heap, clock, stop>>

(***************************************************************************)
(* Events.  Payloads and labels are left out.                              *)
(***************************************************************************)
KindComplete == 0
KindArrival == 1
KindAgentFree == 2

Event(tick, kind, agent, bead) ==
    [tick |-> tick, kind |-> kind, agent |-> agent, bead |-> bead]

\* The canonical order: tick, kind, agent, bead.
Less(e, f) ==
    \/ e.tick < f.tick
    \/ /\ e.tick = f.tick
       /\ \/ e.kind < f.kind
          \/ /\ e.kind = f.kind
             /\ \/ e.agent < f.agent
                \/ e.agent = f.agent /\ e.bead < f.bead

Peek(h) == CHOOSE e \in BagToSet(h) : \A f \in BagToSet(h) \ {e} : Less(e, f)
Push(h, events) == h (+) SetToBag(events)
Pop(h) == h (-) SetToBag({Peek(h)})

(***************************************************************************)
(* The world.  Every work has a bead at tick 0; dependencies are acyclic.  *)
(* Explicit arrivals may name a bead ID that exists already, and may lie   *)
(* beyond the cap: the scenario loader checks neither.                     *)
(***************************************************************************)
InitialBeads == {S \in SUBSET Beads : \A w \in Works : \E b \in S : WorkOf[b] = w}

Arrivals == [tick : 1..(TicksCap + 1), bead : Beads]
Timelines == {S \in SUBSET Arrivals : Cardinality(S) <= MaxScripted}

\* Rounded to a tick, and never below one.
Durations == DurationChoices

\* Kahn's algorithm visits every work.
Acyclic(d) ==
    LET visited[n \in 0..NumWorks] ==
            IF n = 0 THEN {} ELSE {w \in Works : d[w] \subseteq visited[n - 1]}
    IN visited[NumWorks] = Works

DepGraphs == {d \in [Works -> SUBSET Works] : Acyclic(d)}

Worlds ==
    [initial : InitialBeads, timeline : Timelines, duration : Durations, deps : DepGraphs]

\* Store.workToSpec: a status the loop never changes, out of four values.
InitialStatus == "in-progress"
StatusValues == <<"design", "in-progress", "review", "complete">>
WorkStatus(w) == InitialStatus
IsComplete(st) == st = StatusValues[4]

HasUnmetDeps(w) == \E d \in world.deps[w] : ~IsComplete(WorkStatus(d))
Actionable(w) == ~IsComplete(WorkStatus(w)) /\ ~HasUnmetDeps(w)

Dispatchable(st) == {b \in Beads : st[b] = "open" /\ Actionable(WorkOf[b])}

Known == {b \in Beads : status[b] # "absent"}
AllClosed == \A b \in Known : status[b] = "closed"
IdleAgents == {a \in Agents : idle[a]}

----------------------------------------------------------------------------
\* Each policy runs over a store of its own; later beads are not in it yet.
From(w) == [b \in Beads |-> IF b \in w.initial THEN "open" ELSE "absent"]

Init ==
    /\ world \in Worlds
    /\ status = From(world)
    /\ owner = [b \in Beads |-> 0]
    /\ idle = [a \in Agents |-> TRUE]
    /\ heap = SetToBag(  {Event(x.tick, KindArrival, 0, x.bead) : x \in world.timeline}
                    \cup {Event(0, KindAgentFree, a, NoBead) : a \in Agents})
    /\ clock = 0
    /\ stop = "running"

Finish(reason) ==
    /\ stop = "running"
    /\ stop' = reason
    /\ UNCHANGED <<world, status, owner, idle, heap, clock>>

\* The stop conditions, in the order the loop tests them.
StopAllClosed ==
    /\ AllClosed /\ Known # {}
    /\ Finish("all-closed")

\* Mutant of StopIdle: the loop goes on waiting while a bead is open.
StopIdleSatisfied ==
    /\ ~(AllClosed /\ Known # {})
    /\ heap = EmptyBag /\ \A b \in Beads : status[b] # "open"
    /\ Finish("idle-threshold")

StopIdle ==
    /\ ~(AllClosed /\ Known # {})
    /\ heap = EmptyBag
    /\ Finish("idle-threshold")

HasNext ==
    /\ stop = "running"
    /\ ~(AllClosed /\ Known # {})
    /\ heap # EmptyBag

StopCap ==
    /\ HasNext /\ Peek(heap).tick > TicksCap
    /\ Finish("ticks-cap")

\* The next event, when it is due and of this kind.
Due(e, kind) ==
    /\ HasNext
    /\ e = Peek(heap) /\ e.kind = kind /\ e.tick <= TicksCap
    /\ clock' = e.tick
    /\ UNCHANGED <<world, stop>>

\* Mutant of Arrive: the idle agents are not woken.
ArriveQuietly(e) ==
    /\ status' = [status EXCEPT ![e.bead] = IF @ = "absent" THEN "open" ELSE @]
    /\ heap' = Pop(heap)
    /\ UNCHANGED <<owner, idle>>

\* A bead enters the store (a known ID does not) and wakes every idle agent.
Arrive(e) ==
    /\ status' = [status EXCEPT ![e.bead] = IF @ = "absent" THEN "open" ELSE @]
    /\ heap' = Push(Pop(heap), {Event(e.tick, KindAgentFree, a, NoBead) : a \in IdleAgents})
    /\ UNCHANGED <<owner, idle>>

CompleteBead(e) ==
    /\ status' = [status EXCEPT ![e.bead] = "closed"]
    /\ idle' = [idle EXCEPT ![e.agent] = TRUE]
    /\ heap' = Push(Pop(heap), {Event(e.tick, KindAgentFree, e.agent, NoBead)})
    /\ UNCHANGED owner

\* A duplicate wake-up of an agent that has taken a bead meanwhile.
StaleWake(e) ==
    /\ ~idle[e.agent]
    /\ heap' = Pop(heap)
    /\ UNCHANGED <<status, owner, idle>>

NothingToDo(e) ==
    /\ idle[e.agent]
    /\ Dispatchable(status) = {}
    /\ heap' = Pop(heap)
    /\ UNCHANGED <<status, owner, idle>>

DispatchTo(e, b) ==
    /\ status' = [status EXCEPT ![b] = "in-progress"]
    /\ owner' = [owner EXCEPT ![b] = e.agent]
    /\ idle' = [idle EXCEPT ![e.agent] = FALSE]
    /\ heap' = Push(Pop(heap), {Event(e.tick + world.duration[b], KindComplete, e.agent, b)})

\* Mutant of Dispatch: a busy agent takes a bead, too.
DispatchAlways(e) == \E b \in Dispatchable(status) : DispatchTo(e, b)

Dispatch(e) ==
    /\ idle[e.agent]
    /\ \E b \in Dispatchable(status) : DispatchTo(e, b)

AgentFree(e) == StaleWake(e) \/ NothingToDo(e) \/ Dispatch(e)

PopArrival == LET e == Peek(heap) IN Due(e, KindArrival) /\ Arrive(e)
PopComplete == LET e == Peek(heap) IN Due(e, KindComplete) /\ CompleteBead(e)
PopAgentFree == LET e == Peek(heap) IN Due(e, KindAgentFree) /\ AgentFree(e)

Next ==
    \/ StopAllClosed
    \/ StopIdle
    \/ StopCap
    \/ PopArrival
    \/ PopComplete
    \/ PopAgentFree

\* The loop is one goroutine that never waits: it takes its next step.
SimSpec == Init /\ [][Next]_vars /\ WF_vars(Next)

----------------------------------------------------------------------------
HeldBy(a) == {b \in Beads : status[b] = "in-progress" /\ owner[b] = a}
CompletionsOf(a) == {e \in BagToSet(heap) : e.kind = KindComplete /\ e.agent = a}

(***************************************************************************)
(* Mutual exclusion of internal/sim/loop: a busy agent holds exactly one   *)
(* bead and has exactly one completion pending, which is that bead's; an   *)
(* idle agent holds none and has none.                                     *)
(***************************************************************************)
OneBeadPerAgent ==
    \A a \in Agents :
        IF idle[a]
        THEN HeldBy(a) = {} /\ CompletionsOf(a) = {}
        ELSE \E e \in BagToSet(heap) :
                 /\ CompletionsOf(a) = {e} /\ heap[e] = 1
                 /\ HeldBy(a) = {e.bead}

(***************************************************************************)
(* Agents pull greedily (specs/simulator.md, Dispatch): when a tick is     *)
(* over, no agent is idle while a bead can be dispatched.  Only arrivals   *)
(* and completions wake an agent, so this needs every wake-up of the loop. *)
(***************************************************************************)
TickOver == heap = EmptyBag \/ Peek(heap).tick > clock
WorkConserving == TickOver => (IdleAgents = {} \/ Dispatchable(status) = {})

(***************************************************************************)
(* Every run ends: with no new beads the wake-ups die out.                 *)
(***************************************************************************)
RunEnds == <>(stop # "running")
============================================================================
