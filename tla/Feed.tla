-------------------------------- MODULE Feed --------------------------------
(***************************************************************************)
(* kerf next: the queue of works (internal/queue), the graph signals       *)
(* (internal/static), beads, cleanups and warnings (internal/feed), and    *)
(* the loop that its help text prescribes: run kerf next, do the top item, *)
(* run it again.  Agents run that loop side by side; nothing but the bead  *)
(* tool and the works themselves keeps them apart.                         *)
(***************************************************************************)
EXTENDS Naturals, FiniteSets, FiniteSetsExt

CONSTANTS
    NumWorks,        \* codenames, lexicographic and by creation
    Beads,
    Rework,          \* the beads labelled rework:true or finding:
    LastStage,            \* number of the jig's last status
    DepChoices,      \* depends_on with must-complete-first: what Init may choose
    FanOutWeight, MomentumWeight, ReworkWeight, CreationWeight,
    FilterChoices,   \* the beads that the works' filters match: likewise
    ArchivedChoices, \* the codenames that an archived work has too: likewise
    Agents,
    Flags,           \* --kinds, --only and --include of each agent
    MaxChanges,      \* bound on the changes by others
    None             \* no baseline, nothing in hand

Works == 1..NumWorks
Odd == 0                \* a status that is not one of the jig's
Finalized == LastStage + 1

ASSUME FeedAssumption ==
    /\ NumWorks \in Nat /\ LastStage \in Nat \ {0} /\ MaxChanges \in Nat
    /\ Rework \subseteq Beads
    /\ DepChoices \subseteq [Works -> SUBSET Works]
    /\ FilterChoices \subseteq [Works -> SUBSET Beads]
    /\ ArchivedChoices \subseteq SUBSET Works
    /\ {FanOutWeight, MomentumWeight, ReworkWeight, CreationWeight} \subseteq Nat
    /\ Flags \in [Agents -> [kinds : SUBSET {"bead", "cleanup", "warning"},
                             only : SUBSET {"bead", "cleanup", "warning"},
                             include : SUBSET {"bead", "cleanup", "warning"}]]

VARIABLES
    deps,      \* depends_on of each work
    archived,  \* kerf new gave their codename to a work again
    work,      \* status, resolved filter and pins of each work
    store,     \* the status of each bead
    baseline,  \* the beads that were closed at the last kerf triage --ack
    job,       \* what each agent is at
    changes    \* changes made by others

fixed == <<deps, archived>>
vars == <<fixed, work, store, baseline, job, changes>>

----------------------------------------------------------------------------
(* The queue *)

Readable(ws) == {w \in Works : ~ws[w].corrupt}

\* At the last status, or at one the jig does not list.
Complete(ws, w) == ws[w].stage \notin 1..(LastStage - 1)

\* A dependency that cannot be read does not block.
Blocked(ws) ==
    {w \in Readable(ws) : \E v \in deps[w] \cap Readable(ws) : ~Complete(ws, v)}

Entries(ws) == {w \in Readable(ws) \ Blocked(ws) : ~Complete(ws, w)}

\* Breadth first; in a cycle a work is among its own dependents.
Dependents(ws, w) ==
    LET reach[n \in 0..NumWorks] ==
            IF n = 0 THEN {}
            ELSE {v \in Readable(ws) : deps[v] \cap ({w} \cup reach[n - 1]) # {}}
    IN reach[NumWorks]

Done(s, B) == {b \in B : s[b] = "closed"}

\* Momentum and rework go by the filter alone, closed rework included.
Score(ws, s, w) ==
    LET entries == Entries(ws) IN
    IF w \notin entries THEN 0
    ELSE FanOutWeight * Cardinality(Dependents(ws, w))
         + (IF ws[w].asks = {} THEN 0
            ELSE (Cardinality(Done(s, ws[w].asks)) * MomentumWeight)
                    \div Cardinality(ws[w].asks))
         + ReworkWeight * Cardinality(ws[w].asks \cap Rework)
         + CreationWeight * Cardinality({v \in entries : v > w})

----------------------------------------------------------------------------
(* The graph signals, over the works that can be read.  visit(id) is the   *)
(* longest chain of dependents from a work; the first root and the first   *)
(* longest continuation win.                                               *)

After(ws, w) == {v \in Readable(ws) : w \in deps[v]}
First(S, f) == CHOOSE w \in S : \A v \in S : f[v] < f[w] \/ (f[v] = f[w] /\ w <= v)

\* Mutant of Visit: the chain of the first dependent is taken.
VisitFirst(ws) ==
    LET f[w \in Works] ==
            IF After(ws, w) = {} THEN 1 ELSE 1 + f[Min(After(ws, w))]
    IN f

Visit(ws) ==
    LET f[w \in Works] ==
            IF After(ws, w) = {} THEN 1 ELSE 1 + Max({f[v] : v \in After(ws, w)})
    IN f

CriticalPath(ws) ==
    LET f == Visit(ws)
        chain[n \in 1..NumWorks] ==
            IF n = 1 THEN First(Readable(ws), f) ELSE First(After(ws, chain[n - 1]), f)
    IN {chain[n] : n \in 1..f[First(Readable(ws), f)]}

\* The recursion has no end on a cycle.
Cyclic(ws) ==
    LET later[n \in 0..NumWorks] ==
            IF n = 0 THEN Readable(ws)
            ELSE {w \in Readable(ws) : After(ws, w) \cap later[n - 1] # {}}
    IN later[NumWorks] # {}

\* Only a queue with an entry is decorated; kerf next does not survive a cycle.
Decorates(ws) == Entries(ws) # {}
Dies(ws) == Decorates(ws) /\ Cyclic(ws)

----------------------------------------------------------------------------
(* The items *)

Owners(ws, b) == {w \in Readable(ws) : b \in ws[w].pins}
Attached(ws, b) ==
    IF Owners(ws, b) # {} THEN {Min(Owners(ws, b))}
    ELSE {w \in Readable(ws) : b \in ws[w].asks}

Item(kind, w, b) == [kind |-> kind, work |-> w, bead |-> b]

\* The archive is walked by codename, whatever has the name now.
Excluded(ws) == {w \in Works : ws[w].stage = Finalized \/ w \in archived}

\* Mutant of BeadItems: only beads in progress are left out.
BeadItemsClosed(ws, s) ==
    LET held == Blocked(ws) \cup Excluded(ws) IN
    UNION {{Item("bead", w, b) : w \in Attached(ws, b) \ held} :
              b \in {x \in Beads : s[x] # "busy"}}

BeadItems(ws, s) ==
    LET held == Blocked(ws) \cup Excluded(ws) IN
    UNION {{Item("bead", w, b) : w \in Attached(ws, b) \ held} :
              b \in {x \in Beads : s[x] = "open"}}

\* Both cleanups go by the filter alone.
NoAttached(ws) ==
    {Item("wire", w, None) : w \in {v \in Readable(ws) \ Excluded(ws) : ws[v].asks = {}}}

WalkOwed(ws, s) ==
    {Item("walk", w, None) : w \in
        {v \in Readable(ws) \ Excluded(ws) :
            ws[v].asks # {} /\ ws[v].asks \subseteq Done(s, Beads) /\ ws[v].stage # LastStage}}

Cleanups(ws, s) == NoAttached(ws) \cup WalkOwed(ws, s)

Selection(f) ==
    ((IF f.kinds = {} THEN {"bead", "cleanup", "warning"} ELSE f.kinds)
        \cap (IF f.only = {} THEN {"bead", "cleanup", "warning"} ELSE f.only))
    \cup f.include

Feed(ws, s, f) ==
    (IF "bead" \in Selection(f) THEN BeadItems(ws, s) ELSE {})
        \cup (IF "cleanup" \in Selection(f) THEN Cleanups(ws, s) ELSE {})

\* Beads first; by score; equal cleanups by age.  Equal beads come in the
\* order of the bead tool's list.
Above(score, i, j) ==
    \/ i.kind = "bead" /\ j.kind # "bead"
    \/ (i.kind = "bead") = (j.kind = "bead") /\ score[i.work] > score[j.work]
    \/ i.kind # "bead" /\ j.kind # "bead"
          /\ score[i.work] = score[j.work] /\ i.work < j.work

Top(ws, s, f) ==
    LET items == Feed(ws, s, f)
        score == [w \in {i.work : i \in items} |-> Score(ws, s, w)]
    IN {i \in items : \A j \in items : ~Above(score, j, i)}

----------------------------------------------------------------------------
(* The warnings and the headline *)

Unpinned(ws, s) == {b \in Beads : s[b] = "open" /\ Owners(ws, b) = {}}
Askers(ws, b) == {w \in Readable(ws) : b \in ws[w].asks}
Untriaged(ws, s) == {b \in Unpinned(ws, s) : Askers(ws, b) = {}}
MultiMatched(ws, s) == {b \in Unpinned(ws, s) : Cardinality(Askers(ws, b)) >= 2}
External(s, base) ==
    IF base = None THEN {} ELSE {b \in Beads : (s[b] = "closed") # (b \in base)}
Corrupt(ws) == Works \ Readable(ws)

\* Mutant of Warnings: works that cannot be read are passed over.
WarningsReadable(ws, s, base) ==
    [kind : {"multi_matched"}, of : MultiMatched(ws, s)]
        \cup [kind : {"external_drift"}, of : External(s, base)]
        \cup (IF Untriaged(ws, s) = {} THEN {} ELSE {[kind |-> "untriaged_beads", of |-> None]})

Warnings(ws, s, base) ==
    [kind : {"multi_matched"}, of : MultiMatched(ws, s)]
        \cup [kind : {"external_drift"}, of : External(s, base)]
        \cup [kind : {"corrupt_spec"}, of : Corrupt(ws)]
        \cup (IF Untriaged(ws, s) = {} THEN {} ELSE {[kind |-> "untriaged_beads", of |-> None]})

Headline(ws, s, base) ==
    base # None /\ Untriaged(ws, s) \cup MultiMatched(ws, s) \cup External(s, base) # {}

\* What is printed below the items: the headline replaces one warning.
Shown(ws, s, base, f) ==
    {v \in Warnings(ws, s, base) :
        "warning" \in Selection(f)
            /\ (Headline(ws, s, base) => v.kind # "untriaged_beads")}

\* kerf next prints "No items".
Default == [kinds |-> {}, only |-> {}, include |-> {}]
Silent(ws, s, base, f) ==
    ~Dies(ws) /\ Feed(ws, s, f) = {} /\ Shown(ws, s, base, f) = {} /\ ~Headline(ws, s, base)

----------------------------------------------------------------------------
Idle == [step |-> "idle", ws |-> None, item |-> None, stage |-> None]

Init ==
    /\ deps \in DepChoices /\ archived \in ArchivedChoices
    /\ \E A \in FilterChoices :
         work = [w \in Works |->
                   [stage |-> 1, asks |-> A[w], pins |-> {}, corrupt |-> FALSE]]
    /\ store = [b \in Beads |-> "open"]
    /\ baseline = None
    /\ job = [a \in Agents |-> Idle]
    /\ changes = 0

(* kerf next reads the works, *)
Load(a) ==
    /\ job[a].step = "idle"
    /\ job' = [job EXCEPT ![a] = [Idle EXCEPT !.step = "loaded", !.ws = work]]
    /\ UNCHANGED <<fixed, work, store, baseline, changes>>

(* then the beads, and the agent takes the top item, if there is one.      *)
List(a) ==
    LET ws == job[a].ws
        top == Top(ws, store, Flags[a])
    IN
    /\ job[a].step = "loaded"
    /\ \/ /\ top = {} \/ Dies(ws)
          /\ job' = [job EXCEPT ![a] = Idle]
       \/ /\ ~Dies(ws)
          /\ \E i \in top :
               job' = [job EXCEPT ![a] = [Idle EXCEPT !.step = "holds", !.item = i,
                                                      !.stage = ws[i.work].stage]]
    /\ UNCHANGED <<fixed, work, store, baseline, changes>>

(* A bead is claimed and closed in the bead tool. *)
Claim(a) ==
    /\ job[a].step = "holds" /\ job[a].item.kind = "bead"
    /\ IF store[job[a].item.bead] = "open"
       THEN /\ store' = [store EXCEPT ![job[a].item.bead] = "busy"]
            /\ job' = [job EXCEPT ![a].step = "works"]
       ELSE /\ job' = [job EXCEPT ![a] = Idle]
            /\ store' = store
    /\ UNCHANGED <<fixed, work, baseline, changes>>

Finish(a) ==
    /\ job[a].step = "works"
    /\ store' = [store EXCEPT ![job[a].item.bead] = "closed"]
    /\ job' = [job EXCEPT ![a] = Idle]
    /\ UNCHANGED <<fixed, work, baseline, changes>>

(* kerf status <work> <the status after the one that was read>; no status  *)
(* follows one that the jig does not list, so the agent picks one.         *)
Following(stage) == IF stage = Odd THEN 1..LastStage ELSE {stage + 1}

Walk(a) ==
    LET w == job[a].item.work IN
    /\ job[a].step = "holds" /\ job[a].item.kind = "walk"
    /\ IF work[w].corrupt THEN work' = work
       ELSE \E n \in Following(job[a].stage) : work' = [work EXCEPT ![w].stage = n]
    /\ job' = [job EXCEPT ![a] = Idle]
    /\ UNCHANGED <<fixed, store, baseline, changes>>

(* kerf shelve <work>, the other half of the same advice: it ends the      *)
(* session, if the work has one, and nothing that kerf next reads.         *)
Shelve(a) ==
    /\ job[a].step = "holds" /\ job[a].item.kind = "walk"
    /\ job' = [job EXCEPT ![a] = Idle]
    /\ UNCHANGED <<fixed, work, store, baseline, changes>>

(* kerf work edit <work> --bead-filter-add, so that some bead matches.     *)
Wire(a) ==
    LET w == job[a].item.work IN
    /\ job[a].step = "holds" /\ job[a].item.kind = "wire"
    /\ IF work[w].corrupt THEN work' = work
       ELSE \E b \in Beads : work' = [work EXCEPT ![w].asks = @ \cup {b}]
    /\ job' = [job EXCEPT ![a] = Idle]
    /\ UNCHANGED <<fixed, store, baseline, changes>>

AgentStep(a) ==
    Load(a) \/ List(a) \/ Claim(a) \/ Finish(a) \/ Walk(a) \/ Shelve(a) \/ Wire(a)

(* Others. *)
Interfere == changes < MaxChanges /\ changes' = changes + 1 /\ UNCHANGED <<fixed, job>>

SetStatus(w, n) ==
    /\ Interfere /\ ~work[w].corrupt /\ n # work[w].stage
    /\ work' = [work EXCEPT ![w].stage = n]
    /\ UNCHANGED <<store, baseline>>

Pin(w, b) ==
    /\ Interfere /\ ~work[w].corrupt
    /\ work' = [v \in Works |->
          IF v = w THEN [work[v] EXCEPT !.pins = @ \cup {b}]
          ELSE IF work[v].corrupt THEN work[v]
          ELSE [work[v] EXCEPT !.pins = @ \ {b}]]
    /\ UNCHANGED <<store, baseline>>

Damage(w, damaged) ==
    /\ Interfere /\ damaged # work[w].corrupt
    /\ work' = [work EXCEPT ![w].corrupt = damaged]
    /\ UNCHANGED <<store, baseline>>

ChangeBead(b, st) ==
    /\ Interfere /\ st # store[b]
    /\ store' = [store EXCEPT ![b] = st]
    /\ UNCHANGED <<work, baseline>>

Ack ==
    /\ Interfere
    /\ baseline' = Done(store, Beads)
    /\ UNCHANGED <<work, store>>

Next ==
    \/ \E a \in Agents : AgentStep(a)
    \/ \E w \in Works : \E n \in Odd..Finalized : SetStatus(w, n)
    \/ \E w \in Works : \E b \in Beads : Pin(w, b)
    \/ \E w \in Works : \E d \in BOOLEAN : Damage(w, d)
    \/ \E b \in Beads : \E st \in {"open", "closed"} : ChangeBead(b, st)
    \/ Ack

FeedSpec == Init /\ [][Next]_vars /\ \A a \in Agents : WF_vars(AgentStep(a))

----------------------------------------------------------------------------
(***************************************************************************)
(* When kerf next says "No items" and no bead is being worked on, the      *)
(* project is done: every work is complete and every bead closed.          *)
(* specs/commands.md:1796 promises the half of it that a dependency cannot *)
(* leave the feed with nothing to resolve it.  Excepted are a bead that a  *)
(* pin keeps from another work that asks for it (the cleanups go by the    *)
(* filter alone, cleanup.go:43), a bead of a work that the feed leaves     *)
(* out, an undone work that has the codename of an archived one            *)
(* (next.go:194), and works that wait for each other.                      *)
(***************************************************************************)
PinnedAway(ws, s) ==
    \E b \in Beads : s[b] = "open" /\ Owners(ws, b) # {}
        /\ Askers(ws, b) \cup Owners(ws, b) # Attached(ws, b)
OutOfReach(ws, s) ==
    \E b \in Beads : s[b] # "closed" /\ Attached(ws, b) \cap Excluded(ws) # {}
Namesakes(ws) == {w \in archived : ~Complete(ws, w)}
Stuck(ws) ==
    \E S \in SUBSET Works :
       S # {} /\ \A w \in S : ~Complete(ws, w) /\ deps[w] \cap S # {}
AllDone ==
    (\A w \in Works : Complete(work, w)) /\ (\A b \in Beads : store[b] = "closed")

EmptyMeansDone ==
    /\ Silent(work, store, baseline, Default)
    /\ \A b \in Beads : store[b] # "busy"
    /\ ~OutOfReach(work, store) /\ ~PinnedAway(work, store)
    /\ Namesakes(work) = {} /\ ~Stuck(work)
    => AllDone

(***************************************************************************)
(* The works that kerf next marks as on the critical path are a chain of   *)
(* dependencies, and no chain is longer.                                   *)
(***************************************************************************)
Earlier(ws, w) ==
    LET before[n \in 0..NumWorks] ==
            IF n = 0 THEN {}
            ELSE UNION {deps[v] \cap Readable(ws) : v \in {w} \cup before[n - 1]}
    IN before[NumWorks]
CriticalPathLongest ==
    LET earlier == [w \in Works |-> Earlier(work, w)]
        IsChain(C) == \A v, w \in C : v < w => v \in earlier[w] \/ w \in earlier[v]
        path == CriticalPath(work)
    IN
    ~Cyclic(work) /\ Decorates(work) =>
        /\ path \subseteq Readable(work) /\ IsChain(path)
        /\ \A C \in SUBSET Readable(work) :
              Cardinality(C) > Cardinality(path) => ~IsChain(C)

(***************************************************************************)
(* Once others leave the project alone, agents that run the loop side by   *)
(* side use the feed up, whatever each of them read before the others      *)
(* acted: no advice is given and followed for ever.  Excepted are agents   *)
(* that go on choosing kerf shelve, which the cleanup offers               *)
(* (cleanup.go:121) and which does not take the cleanup away, and works    *)
(* in a cycle, on which kerf next dies.                                    *)
(***************************************************************************)
FeedDrains ==
    <>[][\A a \in Agents : ~Shelve(a)]_vars
        => <>[](Feed(work, store, Default) = {} \/ Dies(work))
=============================================================================
