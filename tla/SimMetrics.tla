----------------------------- MODULE SimMetrics -----------------------------
(***************************************************************************)
(* What kerfsim measures of a run (internal/sim/metrics): the loop's hooks *)
(* append to the collector's ledger, and Result replays the ledger when    *)
(* the run is over, once for the whole run and once without the warm-up,   *)
(* whose end is known only then.  Snapshots of the queue's head, the churn  *)
(* counted from them, the waits of rework beads and the inversions are     *)
(* left out: they touch no other number.                                   *)
(***************************************************************************)
EXTENDS SimLoop, Sequences, SequencesExt

CONSTANTS
    AreaOf,       \* the first area of each work, or NoArea
    NoArea,
    WarmupShare   \* the warm-up is one part in WarmupShare: ten in the code

ASSUME MetricsAssumption == WarmupShare \in Nat \ {0}

VARIABLE entries  \* Collector.entries

metricsVars == <<vars, entries>>

----------------------------------------------------------------------------
(* LoopHooks: every fact is read from the store at the callback. *)

Observed == [kind |-> "observe", tick |-> Peek(heap).tick]

ArrivalEntry ==
    LET e == Peek(heap) IN
    [kind |-> "arrival", tick |-> e.tick, bead |-> e.bead]

DispatchEntry(b) ==
    LET e == Peek(heap) IN
    [kind |-> "dispatch", tick |-> e.tick, agent |-> e.agent, bead |-> b,
     area |-> AreaOf[WorkOf[b]]]

\* Mutant of TerminallyClosed: the store is asked before the bead is closed.
ClosedBefore(w) ==
    \A b \in Beads : WorkOf[b] = w => status[b] \in {"absent", "closed"}

\* The store is asked after the bead has been closed.
TerminallyClosed(w) ==
    \A b \in Beads : WorkOf[b] = w => status'[b] \in {"absent", "closed"}

CompleteEntry ==
    LET e == Peek(heap) IN
    [kind |-> "complete", tick |-> e.tick, agent |-> owner[e.bead], bead |-> e.bead,
     area |-> AreaOf[WorkOf[e.bead]], workCompleted |-> TerminallyClosed(WorkOf[e.bead])]

Taken == {b \in Beads : status[b] = "open" /\ status'[b] = "in-progress"}

MetricsInit == Init /\ entries = <<>>

MetricsNext ==
    \/ (StopAllClosed \/ StopIdle \/ StopCap) /\ UNCHANGED entries
    \/ PopArrival /\ entries' = entries \o <<Observed, ArrivalEntry>>
    \/ PopComplete /\ entries' = entries \o <<Observed, CompleteEntry>>
    \/ PopAgentFree /\ entries' = Append(entries, Observed) \o
                                    SetToSeq({DispatchEntry(b) : b \in Taken})

MetricsSpec == MetricsInit /\ [][MetricsNext]_metricsVars /\ WF_metricsVars(MetricsNext)

----------------------------------------------------------------------------
(* compute *)

Wall == LET ticks == {entries[i].tick : i \in DOMAIN entries} IN
        IF ticks = {} THEN 0 ELSE CHOOSE t \in ticks : \A u \in ticks : u <= t

Cutoff == (IF Wall < TicksCap THEN Wall ELSE TicksCap) \div WarmupShare
WarmupSkipped == Wall * WarmupShare < TicksCap * 2

\* The block of a run's first tick is integrated from the first entry on.
Fresh ==
    [prev |-> IF entries = <<>> THEN 0 ELSE entries[1].tick,
     idleTicks |-> 0, busyTicks |-> 0, busy |-> 0,
     active |-> {}, overlapping |-> {}, collisions |-> 0,
     completed |-> 0]

\* advanceTime: the interval since the entry before, clipped to the window
\* that begins after tick `from`.
AdvanceTime(acc, tick, from) ==
    LET lo == IF acc.prev < from THEN from ELSE acc.prev
        d  == IF tick > lo THEN tick - lo ELSE 0 IN
    [acc EXCEPT !.idleTicks = @ + d * (NumAgents - acc.busy),
                !.busyTicks = @ + d * acc.busy,
                !.prev = tick]

One(condition) == IF condition THEN 1 ELSE 0

\* Two agents in one area collide once until one of them is done.
ReplayDispatch(acc, e, inWindow) ==
    LET others == {o \in Agents : e.area # NoArea /\ <<e.area, o>> \in acc.active}
        pairs  == {<<e.area, {e.agent, o}>> : o \in others} IN
    [acc EXCEPT
        !.busy = @ + 1,
        !.collisions = @ + IF inWindow THEN Cardinality(pairs \ acc.overlapping) ELSE 0,
        !.overlapping = @ \cup pairs,
        !.active = IF e.area = NoArea THEN @ ELSE @ \cup {<<e.area, e.agent>>}]

\* Mutant of ReplayComplete: the pairs of the agent stay recorded.
ReplayCompleteKeepsPairs(acc, e, inWindow) ==
    [acc EXCEPT
        !.busy = IF @ > 0 THEN @ - 1 ELSE 0,
        !.active = @ \ {<<e.area, e.agent>>},
        !.completed = @ + One(e.workCompleted /\ inWindow)]

ReplayComplete(acc, e, inWindow) ==
    [acc EXCEPT
        !.busy = IF @ > 0 THEN @ - 1 ELSE 0,
        !.active = @ \ {<<e.area, e.agent>>},
        !.overlapping = {p \in @ : ~(p[1] = e.area /\ e.agent \in p[2])},
        !.completed = @ + One(e.workCompleted /\ inWindow)]

Replay(acc, e, from, postOnly) ==
    LET now      == AdvanceTime(acc, e.tick, from)
        inWindow == postOnly => e.tick > from IN
    CASE e.kind = "dispatch" -> ReplayDispatch(now, e, inWindow)
      [] e.kind = "complete" -> ReplayComplete(now, e, inWindow)
      [] OTHER               -> now

\* Mutant of Block: the warm-up block begins with the run.
BlockUnclipped(postOnly) ==
    LET replay(acc, e) == Replay(acc, e, 0, postOnly) IN FoldLeft(replay, Fresh, entries)

Block(postOnly) ==
    LET from           == IF postOnly THEN Cutoff ELSE 0
        replay(acc, e) == Replay(acc, e, from, postOnly) IN
    FoldLeft(replay, Fresh, entries)

\* Result: the full block, and the one printed as post-warm-up.
Full == Block(FALSE)
Warmup == IF WarmupSkipped THEN Full ELSE Block(TRUE)

----------------------------------------------------------------------------
(* The same numbers, from the intervals in which beads were worked on. *)

Starts == {entries[i] : i \in {j \in DOMAIN entries : entries[j].kind = "dispatch"}}
Ends(d) == d.tick + world.duration[d.bead]
Overlap(d, from) ==
    LET lo == IF d.tick < from THEN from ELSE d.tick
        hi == IF Ends(d) < Wall THEN Ends(d) ELSE Wall IN
    IF hi > lo THEN hi - lo ELSE 0

WindowStart == IF WarmupSkipped THEN 0 ELSE Cutoff
InWindow(tick) == ~WarmupSkipped => tick > Cutoff
Over == stop # "running"

(***************************************************************************)
(* agent_ticks_total and agent_idle_pct: in each block, every agent is     *)
(* busy or idle in every tick of the window and in no other, and busy      *)
(* exactly while one of its beads is worked on, however many entries fall  *)
(* on one tick or across the end of the warm-up.                           *)
(***************************************************************************)
TicksAccounted(block, from) ==
    /\ block.busyTicks = FoldFunctionOnSet(+, 0, [d \in Starts |-> Overlap(d, from)], Starts)
    /\ block.idleTicks + block.busyTicks = NumAgents * (Wall - from)

AgentTicksAccounted ==
    Over => TicksAccounted(Full, 0) /\ TicksAccounted(Warmup, WindowStart)

(***************************************************************************)
(* area_collisions counts each pair of beads of one area whose intervals   *)
(* overlap, once, in the window in which the later of the two was taken.   *)
(***************************************************************************)
Colliding(counted(_)) ==
    {p \in SUBSET Starts :
        /\ Cardinality(p) = 2
        /\ \A d \in p : d.area # NoArea
        /\ \A d, f \in p : d.area = f.area /\ d.tick < Ends(f)
        /\ \E d \in p : counted(d.tick) /\ \A f \in p : f.tick <= d.tick}

CollisionsAreOverlaps ==
    Over => LET always(t) == TRUE IN
            /\ Full.collisions = Cardinality(Colliding(always))
            /\ Warmup.collisions = Cardinality(Colliding(InWindow))

(***************************************************************************)
(* work_completed: no work whose beads are all closed at the end is missed *)
(* and, in a run without arrivals, none is counted twice or too early.     *)
(***************************************************************************)
FinishedWorksCounted ==
    Over =>
        LET finished == Cardinality({w \in Works :
                            \A b \in Known : WorkOf[b] = w => status[b] = "closed"}) IN
        /\ Full.completed >= finished
        /\ world.timeline = {} => Full.completed = finished
=============================================================================
