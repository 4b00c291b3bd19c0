------------------------------- MODULE Triage -------------------------------
(***************************************************************************)
(* kerf triage over internal/drift: beads that no work or several works    *)
(* claim, what other tools did to the bead store since the acknowledged    *)
(* baseline, the suggested commands, --ack and the exit codes of           *)
(* --resolved.  One process is the loop that the help text prescribes,     *)
(*     until kerf triage --resolved; do <act>; done,                       *)
(* beside other --ack commands and a bounded number of changes by others. *)
(***************************************************************************)
EXTENDS Naturals, FiniteSets

CONSTANTS
    NumWorks,    \* codenames in lexicographic order
    Beads,
    Labels,
    LabelSets,   \* those that beads carry
    Tier1,       \* the labels codename:<value> and spec:<value>
    Named,       \* the codename that a tier-1 label's value is
    Containing,  \* the codenames that contain that value
    Fallback,    \* the label an unfiltered work asks for: project's or built-in
    Loop,        \* the process that runs the loop
    Others,      \* processes that run kerf triage --ack
    MaxChanges,  \* bound on the changes by others
    Never        \* no baseline, no count, nothing to run

Works == 1..NumWorks
Procs == {Loop} \cup Others

ASSUME TriageAssumption ==
    /\ NumWorks \in Nat /\ MaxChanges \in Nat
    /\ LabelSets \subseteq SUBSET Labels
    /\ Tier1 \subseteq Labels /\ Loop \notin Others
    /\ Named \in [Tier1 -> Works]
    /\ Containing \in [Tier1 -> SUBSET Works]
    /\ \A l \in Tier1 : Named[l] \in Containing[l]
    /\ Fallback \in [Works -> Labels \ Tier1]

VARIABLES
    works,     \* state, filter and pinned_beads of each codename
    store,     \* the bead tool's beads
    baseline,  \* .kerf/sync-cache.json
    count,     \* .kerf/resolved-counts
    job,       \* what each triage command has read so far
    loop,      \* what the loop does next
    changes,   \* changes made by others
    since      \* ghost: what has changed since the loop's triage began

vars == <<works, store, baseline, count, job, loop, changes, since>>

Gone == [status |-> "gone", labels |-> {}]
Record == [status : {"open", "busy", "closed"}, labels : LabelSets]
NoWork == [state |-> "absent", filter |-> {}, pins |-> {}]

ASSUME NeverApart == Never \notin [Beads -> Record \cup {Gone}]

Least(S) == CHOOSE w \in S : \A v \in S : w <= v

----------------------------------------------------------------------------
(* Attachment *)

Present(r) == r.status # "gone"
Closed(r) == r.status = "closed"
Ready(r) == r.status = "open"

Listed(ws) == {w \in Works : ws[w].state \in {"live", "corrupt"}}
Readable(ws) == {w \in Works : ws[w].state = "live"}
Wanted(ws, w) == IF ws[w].filter = {} THEN {Fallback[w]} ELSE ws[w].filter
Matching(ws, r) == {w \in Readable(ws) : r.labels \cap Wanted(ws, w) # {}}
Owners(ws, b) == {w \in Readable(ws) : b \in ws[w].pins}

\* The owner that kerf next takes of several: the first codename.
NextAttached(ws, s, b) ==
    IF Owners(ws, b) # {} THEN {Least(Owners(ws, b))} ELSE Matching(ws, s[b])

----------------------------------------------------------------------------
(* The report: triage leaves out pinned beads, whoever owns them. *)

\* Mutant of Unpinned: pins of works that cannot be read count.
UnpinnedListed(ws, s) ==
    {b \in Beads : Ready(s[b]) /\ \A w \in Listed(ws) : b \notin ws[w].pins}

\* Mutant of Unpinned: a pin does not settle anything.
UnpinnedIgnored(ws, s) == {b \in Beads : Ready(s[b])}

Unpinned(ws, s) == {b \in Beads : Ready(s[b]) /\ Owners(ws, b) = {}}
Untriaged(ws, s) == {b \in Unpinned(ws, s) : Matching(ws, s[b]) = {}}
MultiMatched(ws, s) == {b \in Unpinned(ws, s) : Cardinality(Matching(ws, s[b])) >= 2}

Deleted(base, s) == {b \in Beads : Present(base[b]) /\ ~Present(s[b])}
Added(base, s) == {b \in Beads : ~Present(base[b]) /\ Present(s[b])}
Kept(base, s) == {b \in Beads : Present(base[b]) /\ Present(s[b])}
ClosedExternally(base, s) == {b \in Kept(base, s) : ~Closed(base[b]) /\ Closed(s[b])}
ReopenedExternally(base, s) == {b \in Kept(base, s) : Closed(base[b]) /\ ~Closed(s[b])}

\* A bead that only changed labels, title or dependencies is in no item, and
\* without a baseline there is no drift.
External(base, s) ==
    IF base = Never THEN {}
    ELSE Deleted(base, s) \cup Added(base, s)
            \cup ClosedExternally(base, s) \cup ReopenedExternally(base, s)

Kinds == {"untriaged", "multi_matched", "external_drift"}
Items(ws, s, base) ==
    {i \in [kind : Kinds, bead : Beads] :
        \/ i.kind = "untriaged" /\ i.bead \in Untriaged(ws, s)
        \/ i.kind = "multi_matched" /\ i.bead \in MultiMatched(ws, s)
        \/ i.kind = "external_drift" /\ i.bead \in External(base, s)}

----------------------------------------------------------------------------
(* Suggestions *)

Act(verb, w, labels, b) == [verb |-> verb, work |-> w, labels |-> labels, bead |-> b]
Ack == Act("ack", Never, {}, Never)

\* codename: before spec:, one of the bead's labels.
Cohort(r) == r.labels \cap Tier1

\* Mutant of Route: the new work is not given the label.
RouteUnfiltered(ws, l, b) ==
    LET hosts == Containing[l] \cap Listed(ws) IN
    IF hosts # {} THEN Act("edit", Least(hosts), {l}, b)
    ELSE IF ws[Named[l]].state = "archived" THEN Act("choose", Named[l], {}, b)
    ELSE Act("new", Named[l], {}, b)

Route(ws, l, b) ==
    LET hosts == Containing[l] \cap Listed(ws) IN
    IF hosts # {} THEN Act("edit", Least(hosts), {l}, b)
    ELSE IF ws[Named[l]].state = "archived" THEN Act("choose", Named[l], {}, b)
    ELSE Act("new", Named[l], {l}, b)

\* The commands that a report may print for an item.
Suggestions(ws, s, i) ==
    IF i.kind = "external_drift" THEN {Ack}
    ELSE IF i.kind = "multi_matched"
         THEN {Act("pin", Least(Matching(ws, s[i.bead])), {}, i.bead)}
    ELSE IF Cohort(s[i.bead]) # {} THEN {Route(ws, l, i.bead) : l \in Cohort(s[i.bead])}
    ELSE IF Listed(ws) # {} THEN {Act("pin", Least(Listed(ws)), {}, i.bead)}
    ELSE {Act("none", Never, {}, i.bead)}

\* Whether it can be carried out: of the hint for an archived codename, the
\* pin to a different live work.
Possible(a) ==
    \/ a.verb = "ack"
    \/ a.verb \in {"edit", "pin"} /\ works[a.work].state = "live"
    \/ a.verb = "new" /\ works[a.work].state \in {"absent", "archived"}
    \/ a.verb = "choose" /\ Readable(works) # {}

----------------------------------------------------------------------------
Idle == [step |-> "idle", mode |-> "ack", ws |-> Never, seen |-> Never]
Phase(phase, act) == [phase |-> phase, act |-> act]

Init ==
    /\ works \in [Works -> {NoWork, [NoWork EXCEPT !.state = "live"]}]
    /\ store \in [Beads -> {Gone} \cup [status : {"open"}, labels : LabelSets]]
    /\ baseline = Never /\ count = Never
    /\ job = [p \in Procs |-> Idle]
    /\ loop = Phase("check", Ack)
    /\ changes = 0
    /\ since = "same"

(* A triage command reads the works, *)
Load(p, mode) ==
    /\ job[p].step = "idle"
    /\ job' = [job EXCEPT ![p] =
           [step |-> "loaded", mode |-> mode,
            ws |-> IF mode = "ack" THEN Never ELSE works, seen |-> Never]]
    /\ since' = IF p = Loop THEN "same" ELSE since
    /\ UNCHANGED <<works, store, baseline, count, loop, changes>>

(* then the bead store, *)
List(p) ==
    /\ job[p].step = "loaded"
    /\ job' = [job EXCEPT ![p].step = "listed", ![p].seen = store]
    /\ UNCHANGED <<works, store, baseline, count, loop, changes, since>>

(* then the baseline.  A report alone ends here and changes nothing;       *)
(* with --resolved the count is kept, unless it is zero; the loop stops at *)
(* zero and otherwise acts on an item it can act on, if there is one;      *)
Found == Items(job[Loop].ws, job[Loop].seen, baseline)

\* The exit code, which a fall of the count makes 3 instead of 2.
ExitCode ==
    IF Found = {} THEN 0
    ELSE IF count # Never /\ Cardinality(Found) < count THEN 3 ELSE 2

Recorded(found) == IF found = {} THEN count ELSE Cardinality(found)

Resolve ==
    LET acts == UNION {Suggestions(job[Loop].ws, job[Loop].seen, i) : i \in Found}
        able == {a \in acts : Possible(a)}
    IN
    /\ job[Loop].step = "listed" /\ job[Loop].mode = "resolved"
    /\ count' = Recorded(Found)
    /\ job' = [job EXCEPT ![Loop] = Idle]
    /\ IF ExitCode = 0 THEN loop' = Phase("done", Ack)
       ELSE \E a \in (IF able # {} THEN able ELSE acts) : loop' = Phase("act", a)
    /\ UNCHANGED <<works, store, baseline, changes, since>>

\* Mutant of Advance: the baseline is taken when it is written.
AdvanceLate(p) ==
    /\ job[p].step = "listed" /\ job[p].mode = "ack"
    /\ baseline' = store
    /\ job' = [job EXCEPT ![p] = Idle]
    /\ IF p = Loop THEN loop' = Phase("check", Ack) /\ since' = since
       ELSE loop' = loop /\ since' = "changed"
    /\ UNCHANGED <<works, store, count, changes>>

(* with --ack nothing is printed and the beads it has read become the      *)
(* baseline, by a rename.                                                  *)
Advance(p) ==
    /\ job[p].step = "listed" /\ job[p].mode = "ack"
    /\ baseline' = job[p].seen
    /\ job' = [job EXCEPT ![p] = Idle]
    /\ IF p = Loop THEN loop' = Phase("check", Ack) /\ since' = since
       ELSE loop' = loop /\ since' = "changed"
    /\ UNCHANGED <<works, store, count, changes>>

Die(p) ==
    /\ p \in Others /\ job[p].step # "idle"
    /\ job' = [job EXCEPT ![p] = Idle]
    /\ UNCHANGED <<works, store, baseline, count, loop, changes, since>>

(* The command that the loop carries out; one that fails changes nothing.  *)
NewState(ws, a) == [ws EXCEPT ![a.work] = [NoWork EXCEPT !.state = "live", !.filter = a.labels]]
EditState(ws, a) == [ws EXCEPT ![a.work].filter = @ \cup a.labels]
PinState(ws, w, b) ==
    [v \in Works |->
        IF v = w THEN [ws[v] EXCEPT !.pins = @ \cup {b}]
        ELSE IF v \in Readable(ws) THEN [ws[v] EXCEPT !.pins = @ \ {b}]
        ELSE ws[v]]

Do(a) ==
    /\ loop.phase = "act" /\ a = loop.act /\ a.verb # "ack"
    /\ \/ Possible(a) /\ a.verb = "new" /\ works' = NewState(works, a)
       \/ Possible(a) /\ a.verb = "edit" /\ works' = EditState(works, a)
       \/ Possible(a) /\ a.verb = "pin" /\ works' = PinState(works, a.work, a.bead)
       \/ Possible(a) /\ a.verb = "choose"
            /\ \E w \in Readable(works) : works' = PinState(works, w, a.bead)
       \/ ~Possible(a) /\ works' = works
    /\ loop' = Phase("check", Ack)
    /\ UNCHANGED <<store, baseline, count, job, changes, since>>

LoopStep ==
    \/ loop.phase = "check" /\ Load(Loop, "resolved")
    \/ loop.phase = "act" /\ loop.act = Ack /\ Load(Loop, "ack")
    \/ List(Loop) \/ Resolve \/ Advance(Loop)
    \/ Do(loop.act)

(* The same loop again, later. *)
Restart ==
    /\ loop.phase = "done" /\ job[Loop] = Idle
    /\ loop' = Phase("check", Ack)
    /\ UNCHANGED <<works, store, baseline, count, job, changes, since>>

(* Others change beads, and works by commands or by hand.  *)
Interfere ==
    /\ changes < MaxChanges
    /\ changes' = changes + 1
    /\ since' = "changed"
    /\ UNCHANGED <<baseline, count, job, loop>>

ChangeBead(b, r) ==
    /\ Interfere /\ r # store[b]
    /\ store' = [store EXCEPT ![b] = r]
    /\ UNCHANGED works

\* A command or a hand changes one thing of a work.
Moved(v) ==
    {[v EXCEPT !.state = x] : x \in {"live", "corrupt", "archived"}}
        \cup (IF v.state # "live" THEN {}
             ELSE {[v EXCEPT !.filter = F] : F \in {{}} \cup {{l} : l \in Labels}}
                    \cup {[v EXCEPT !.pins = P] : P \in SUBSET Beads})

ChangeWork(w, v) ==
    /\ Interfere /\ v # works[w]
    /\ works' = [works EXCEPT ![w] = v]
    /\ UNCHANGED store

Next ==
    \/ LoopStep
    \/ Restart
    \/ \E p \in Others : Load(p, "ack") \/ List(p) \/ Advance(p) \/ Die(p)
    \/ \E b \in Beads : \E r \in Record \cup {Gone} : ChangeBead(b, r)
    \/ \E w \in Works : \E v \in Moved(works[w]) : ChangeWork(w, v)

TriageSpec == Init /\ [][Next]_vars /\ WF_vars(LoopStep)

----------------------------------------------------------------------------
(***************************************************************************)
(* Exit code 0 means what the next command takes from it: unless somebody  *)
(* has changed something since that run began, kerf next, which joins and  *)
(* breaks ties by code of its own, attaches every ready bead to exactly    *)
(* one work, and no bead was closed, reopened, added or removed unseen.    *)
(***************************************************************************)
CleanIsTriaged ==
    loop.phase = "done" /\ since = "same" =>
        /\ \A b \in Beads :
            Ready(store[b]) => Cardinality(NextAttached(works, store, b)) = 1
        /\ External(baseline, store) = {}

(***************************************************************************)
(* What happens to a bead after an --ack has read the store, another --ack *)
(* included, is not acknowledged with it: a later report has it.           *)
(***************************************************************************)
LateChangesReported ==
    [][\A p \in Procs : Advance(p) =>
        \A b \in Beads :
            (Present(job[p].seen[b]) # Present(store[b])
                \/ Closed(job[p].seen[b]) # Closed(store[b])) =>
            b \in External(baseline', store)]_vars

(***************************************************************************)
(* A suggestion that is carried out settles its bead: with nothing changed *)
(* since the report was begun, the bead is not untriaged after it, and not *)
(* claimed by several works either if it was pinned.                       *)
(***************************************************************************)
SuggestionHelps ==
    [][\A b \in Beads :
        loop.act.bead = b /\ Do(loop.act) /\ Possible(loop.act) /\ since = "same" =>
            /\ b \notin Untriaged(works', store)
            /\ loop.act.verb = "pin" => b \notin MultiMatched(works', store)]_vars

(***************************************************************************)
(* The loop that the help text prescribes ends by following suggestions,   *)
(* once others leave beads and works alone; or an item stays for which no  *)
(* suggested command can succeed: no work to pin to, an unreadable one.    *)
(***************************************************************************)
Hopeless ==
    \E i \in Items(works, store, baseline) :
        \A a \in Suggestions(works, store, i) : ~Possible(a)
Converges == <>(loop.phase = "done") \/ <>[]Hopeless
=============================================================================
