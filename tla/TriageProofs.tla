---------------------------- MODULE TriageProofs ----------------------------
(***************************************************************************)
(* What kerf triage may be believed in, for any number of works, beads,    *)
(* labels, other --ack commands and changes by others.                     *)
(*                                                                         *)
(* CleanIsTriaged speaks of the moment after the loop has ended.  What is  *)
(* inductive says of the loop's command at each of its steps that, unless  *)
(* something has changed since it began, what it has read is what is there *)
(* and the action that it hands on fits the bead (Fresh).                  *)
(***************************************************************************)
EXTENDS Triage, TLAPS, FiniteSetTheorems, WellFoundedInduction

Worlds ==
    [Works -> [state : {"absent", "live", "corrupt", "archived"},
               filter : SUBSET Labels, pins : SUBSET Beads]]
Stores == [Beads -> Record \cup {Gone}]
Acts ==
    [verb : {"ack", "edit", "new", "choose", "pin", "none"},
     work : Works \cup {Never}, labels : SUBSET Labels, bead : Beads \cup {Never}]
Commands ==
    [step : {"idle", "loaded", "listed"}, mode : {"ack", "resolved"},
     ws : Worlds \cup {Never}, seen : Stores \cup {Never}]

TypeOK ==
    /\ works \in Worlds /\ store \in Stores
    /\ baseline \in Stores \cup {Never}
    /\ job \in [Procs -> Commands]
    /\ loop \in [phase : {"check", "act", "done"}, act : Acts]
    /\ since \in {"same", "changed"}

\* What a command has read.
HasRead ==
    /\ \A p \in Procs : job[p].step = "listed" => job[p].seen \in Stores
    /\ job[Loop].step # "idle" /\ job[Loop].mode = "resolved" => job[Loop].ws \in Worlds
    /\ \A p \in Others : job[p].mode = "ack"

\* The loop's command is the one that its phase calls for.
InStep ==
    job[Loop].step # "idle" =>
        \/ loop.phase = "check" /\ job[Loop].mode = "resolved"
        \/ loop.phase = "act" /\ loop.act = Ack /\ job[Loop].mode = "ack"

\* An action names a bead and a work.
Aimed(a) == a.bead \in Beads /\ (a.verb # "none" => a.work \in Works)
Aiming == loop.phase = "act" /\ loop.act.verb # "ack" => Aimed(loop.act)

\* What it puts into a filter is one of the bead's labels.
Sensible(s, a) ==
    a.verb \in {"edit", "new"} => \E l \in s[a.bead].labels : a.labels = {l}

Fresh ==
    since = "same" =>
        /\ job[Loop].step # "idle" /\ job[Loop].mode = "resolved" => job[Loop].ws = works
        /\ job[Loop].step = "listed" /\ job[Loop].mode = "resolved" => job[Loop].seen = store
        /\ loop.phase = "done" => Items(works, store, baseline) = {}
        /\ loop.phase = "act" /\ loop.act.verb # "ack" => Sensible(store, loop.act)

IInv == TypeOK /\ HasRead /\ InStep /\ Aiming /\ Fresh

----------------------------------------------------------------------------
(* Suggestions *)

\* A set of codenames has a first one.
LEMMA LeastOK ==
  ASSUME NEW S \in SUBSET Works, S # {}
  PROVE  Least(S) \in S
<1>1. S \in SUBSET Nat
  BY TriageAssumption DEF Works
<1>2. PICK n \in S : \A m \in S : ~ (<<m, n>> \in OpToRel(<, Nat))
  BY <1>1, WFMin, NatLessThanWellFounded
<1>3. ASSUME NEW m \in S
      PROVE  n <= m
  <2>1. m \in Nat /\ n \in Nat
    BY <1>1
  <2>2. ~(m < n)
    BY <1>2, <2>1 DEF OpToRel
  <2> QED
    BY <2>1, <2>2
<1> QED
  BY <1>3 DEF Least

\* The labels of a bead that is there.
LEMMA LabelsOK ==
  ASSUME NEW s \in Stores, NEW b \in Beads
  PROVE  /\ s[b].labels \in SUBSET Labels
         /\ s[b] \in Record \cup {Gone}
BY TriageAssumption DEF Stores, Record, Gone

\* A tier-1 label leads to a work that lists it, or to a new one.
LEMMA RouteOK ==
  ASSUME NEW ws \in Worlds, NEW s \in Stores, NEW b \in Beads, NEW l \in Cohort(s[b])
  PROVE  /\ Route(ws, l, b) \in Acts
         /\ Aimed(Route(ws, l, b)) /\ Sensible(s, Route(ws, l, b))
<1>1. l \in Tier1 /\ l \in Labels /\ l \in s[b].labels
  BY TriageAssumption DEF Cohort
<1>2. Named[l] \in Works
  BY <1>1, TriageAssumption
<1> DEFINE hosts == Containing[l] \cap Listed(ws)
<1>3. CASE hosts # {}
  <2>1. Least(hosts) \in Works
    BY <1>3, LeastOK DEF Listed
  <2>2. Route(ws, l, b) = Act("edit", Least(hosts), {l}, b)
    BY <1>3 DEF Route
  <2> QED
    BY <1>1, <2>1, <2>2 DEF Act, Acts, Aimed, Sensible
<1>4. CASE hosts = {} /\ ws[Named[l]].state = "archived"
  <2>1. Route(ws, l, b) = Act("choose", Named[l], {}, b)
    BY <1>4 DEF Route
  <2> QED
    BY <1>2, <2>1 DEF Act, Acts, Aimed, Sensible
<1>5. CASE hosts = {} /\ ws[Named[l]].state # "archived"
  <2>1. Route(ws, l, b) = Act("new", Named[l], {l}, b)
    BY <1>5 DEF Route
  <2> QED
    BY <1>1, <1>2, <2>1 DEF Act, Acts, Aimed, Sensible
<1> QED
  BY <1>3, <1>4, <1>5

\* Every suggestion of a report is sensible, or an --ack.
LEMMA SuggestionsOK ==
  ASSUME NEW ws \in Worlds, NEW s \in Stores, NEW base,
         NEW i \in Items(ws, s, base), NEW a \in Suggestions(ws, s, i)
  PROVE  a \in Acts /\ (a.verb # "ack" => Aimed(a) /\ Sensible(s, a))
<1>1. i.kind \in Kinds /\ i.bead \in Beads
  BY DEF Items
<1>2. CASE i.kind = "external_drift"
  BY <1>2 DEF Suggestions, Ack, Act, Acts
<1>3. CASE i.kind = "multi_matched"
  <2>1. i.bead \in MultiMatched(ws, s)
    BY <1>3 DEF Items
  <2>2. Matching(ws, s[i.bead]) # {}
    BY <2>1, FS_EmptySet DEF MultiMatched
  <2>3. Least(Matching(ws, s[i.bead])) \in Works
    BY <2>2, LeastOK DEF Matching, Readable
  <2>4. a = Act("pin", Least(Matching(ws, s[i.bead])), {}, i.bead)
    BY <1>3 DEF Suggestions
  <2> QED
    BY <1>1, <2>3, <2>4 DEF Act, Acts, Aimed, Sensible
<1>4. CASE i.kind = "untriaged" /\ Cohort(s[i.bead]) # {}
  <2>1. PICK l \in Cohort(s[i.bead]) : a = Route(ws, l, i.bead)
    BY <1>4 DEF Suggestions
  <2> QED
    BY <1>1, <2>1, RouteOK
<1>5. CASE i.kind = "untriaged" /\ Cohort(s[i.bead]) = {} /\ Listed(ws) # {}
  <2>1. Least(Listed(ws)) \in Works
    BY <1>5, LeastOK DEF Listed
  <2>2. a = Act("pin", Least(Listed(ws)), {}, i.bead)
    BY <1>5 DEF Suggestions
  <2> QED
    BY <1>1, <2>1, <2>2 DEF Act, Acts, Aimed, Sensible
<1>6. CASE i.kind = "untriaged" /\ Cohort(s[i.bead]) = {} /\ Listed(ws) = {}
  <2>1. a = Act("none", Never, {}, i.bead)
    BY <1>6 DEF Suggestions
  <2> QED
    BY <1>1, <2>1 DEF Act, Acts, Aimed, Sensible
<1> QED
  BY <1>1, <1>2, <1>3, <1>4, <1>5, <1>6 DEF Kinds

\* Some action is handed on when there is an item.
LEMMA SomeSuggestion ==
  ASSUME NEW ws, NEW s, NEW base, NEW i \in Items(ws, s, base)
  PROVE  Suggestions(ws, s, i) # {}
BY DEF Suggestions

----------------------------------------------------------------------------
(* The steps *)

\* A command begins.
LEMMA LoadInv ==
  ASSUME IInv, NEW p \in Procs, NEW mode \in {"ack", "resolved"}, Load(p, mode),
         p \in Others => mode = "ack",
         p = Loop => \/ loop.phase = "check" /\ mode = "resolved"
                     \/ loop.phase = "act" /\ loop.act = Ack /\ mode = "ack"
  PROVE  IInv'
<1>0. /\ Loop \in Procs /\ Loop \notin Others
  BY TriageAssumption DEF Procs
<1>1. /\ UNCHANGED <<works, store, baseline, loop>>
      /\ since' = IF p = Loop THEN "same" ELSE since
  BY DEF Load
<1>2. PICK j \in Commands :
          j = [step |-> "loaded", mode |-> mode,
               ws |-> IF mode = "ack" THEN Never ELSE works, seen |-> Never]
  BY DEF Commands, IInv, TypeOK
<1>3. job' = [job EXCEPT ![p] = j]
  BY <1>2 DEF Load
<1>4. /\ j.step = "loaded" /\ j.mode = mode
      /\ (mode = "resolved" => j.ws = works)
  BY <1>2
<1>5. TypeOK'
  BY <1>1, <1>3 DEF IInv, TypeOK
<1>6. HasRead' /\ InStep' /\ Aiming'
  BY <1>0, <1>1, <1>3, <1>4 DEF IInv, TypeOK, HasRead, InStep, Aiming, Ack, Act, Procs
<1>7. Fresh'
  <2>1. CASE p = Loop
    BY <1>0, <1>1, <1>3, <1>4, <2>1 DEF IInv, TypeOK, Fresh, Ack, Act
  <2>2. CASE p # Loop
    BY <1>0, <1>1, <1>3, <1>4, <2>2 DEF IInv, TypeOK, Fresh
  <2> QED
    BY <2>1, <2>2
<1> QED
  BY <1>5, <1>6, <1>7 DEF IInv

\* It reads the bead store.
LEMMA ListInv ==
  ASSUME IInv, NEW p \in Procs, List(p)
  PROVE  IInv'
<1>0. Loop \in Procs
  BY DEF Procs
<1>1. /\ job[p].step = "loaded" /\ job[p] \in Commands
      /\ UNCHANGED <<works, store, baseline, loop, since>>
  BY DEF List, IInv, TypeOK
<1>2. PICK j \in Commands : j = [job[p] EXCEPT !.step = "listed", !.seen = store]
  BY <1>1 DEF Commands, IInv, TypeOK
<1>3. job' = [job EXCEPT ![p] = j]
  BY <1>2 DEF List
<1>4. j.step = "listed" /\ j.mode = job[p].mode /\ j.ws = job[p].ws /\ j.seen = store
  BY <1>1, <1>2 DEF Commands
<1>5. TypeOK'
  BY <1>1, <1>3 DEF IInv, TypeOK
<1>6. HasRead' /\ InStep' /\ Aiming'
  BY <1>0, <1>1, <1>3, <1>4 DEF IInv, TypeOK, HasRead, InStep, Aiming, Ack, Act, Procs
<1>7. Fresh'
  BY <1>0, <1>1, <1>3, <1>4 DEF IInv, TypeOK, Fresh
<1> QED
  BY <1>5, <1>6, <1>7 DEF IInv

\* A command is over.
LEMMA OverOK ==
  ASSUME IInv, NEW p \in Procs, job' = [job EXCEPT ![p] = Idle]
  PROVE  /\ job' \in [Procs -> Commands] /\ job'[p].step = "idle"
         /\ \A q \in Procs : q # p => job'[q] = job[q]
         /\ HasRead'
<1>1. Idle \in Commands /\ Idle.step = "idle" /\ Idle.mode = "ack"
  BY DEF Idle, Commands
<1> QED
  BY <1>1 DEF IInv, TypeOK, HasRead, Procs

\* The report: nothing is left, or something to do is handed on.
LEMMA ResolveInv ==
  ASSUME IInv, Resolve
  PROVE  IInv'
<1>0. /\ Loop \in Procs /\ job' = [job EXCEPT ![Loop] = Idle]
      /\ UNCHANGED <<works, store, baseline, since>>
      /\ job[Loop].step = "listed" /\ job[Loop].mode = "resolved"
  BY DEF Resolve, Procs
<1> DEFINE ws == job[Loop].ws
           s == job[Loop].seen
<1>1. ws \in Worlds /\ s \in Stores /\ (since = "same" => ws = works /\ s = store)
  BY <1>0 DEF IInv, HasRead, Fresh
<1>2. Found = Items(ws, s, baseline)
  BY DEF Found
<1>3. \/ Found = {} /\ loop' = Phase("done", Ack)
      \/ \E i \in Found : \E a \in Suggestions(ws, s, i) : loop' = Phase("act", a)
  <2>1. CASE Found = {}
    BY <2>1 DEF Resolve, ExitCode
  <2>2. CASE Found # {}
    <3> DEFINE acts == UNION {Suggestions(ws, s, i) : i \in Found}
               able == {a \in acts : Possible(a)}
    <3>1. ExitCode # 0
      BY <2>2 DEF ExitCode
    <3>2. \E a \in (IF able # {} THEN able ELSE acts) : loop' = Phase("act", a)
      BY <3>1 DEF Resolve
    <3>3. \E a \in acts : loop' = Phase("act", a)
      BY <3>2
    <3> QED
      BY <3>3
  <2> QED
    BY <2>1, <2>2
<1>4. CASE Found = {} /\ loop' = Phase("done", Ack)
  <2>1. Ack \in Acts
    BY DEF Ack, Act, Acts
  <2>2. TypeOK'
    BY <1>0, <1>4, <2>1, OverOK DEF IInv, TypeOK, Phase
  <2>3. Fresh'
    BY <1>0, <1>1, <1>2, <1>4, OverOK DEF Fresh, Phase
  <2>4. InStep' /\ Aiming'
    BY <1>0, <1>4, OverOK DEF InStep, Aiming, Phase
  <2> QED
    BY <1>0, <2>2, <2>3, <2>4, OverOK DEF IInv
<1>5. ASSUME NEW i \in Found, NEW a \in Suggestions(ws, s, i), loop' = Phase("act", a)
      PROVE  IInv'
  <2>1. a \in Acts /\ (a.verb # "ack" => Aimed(a) /\ Sensible(s, a))
    BY <1>1, <1>2, <1>5, SuggestionsOK
  <2>2. TypeOK'
    BY <1>0, <1>5, <2>1, OverOK DEF IInv, TypeOK, Phase
  <2>3. Fresh'
    BY <1>0, <1>1, <1>5, <2>1, OverOK DEF Fresh, Phase
  <2>4. InStep' /\ Aiming'
    BY <1>0, <1>5, <2>1, OverOK DEF InStep, Aiming, Phase
  <2> QED
    BY <1>0, <2>2, <2>3, <2>4, OverOK DEF IInv
<1> QED
  BY <1>3, <1>4, <1>5

\* The baseline is advanced.
LEMMA AdvanceInv ==
  ASSUME IInv, NEW p \in Procs, Advance(p)
  PROVE  IInv'
<1>0. /\ Loop \in Procs /\ job' = [job EXCEPT ![p] = Idle]
      /\ UNCHANGED <<works, store>> /\ baseline' = job[p].seen
      /\ job[p].step = "listed" /\ job[p].mode = "ack"
  BY DEF Advance, Procs
<1>1. baseline' \in Stores
  BY <1>0 DEF IInv, HasRead
<1>2. CASE p = Loop
  <2>1. loop' = Phase("check", Ack) /\ since' = since
    BY <1>2 DEF Advance
  <2>2. Ack \in Acts
    BY DEF Ack, Act, Acts
  <2>3. TypeOK'
    BY <1>0, <1>1, <2>1, <2>2, OverOK DEF IInv, TypeOK, Phase
  <2>4. Fresh'
    BY <1>0, <1>2, <2>1, OverOK DEF Fresh, Phase
  <2>5. InStep' /\ Aiming'
    BY <1>0, <1>2, <2>1, OverOK DEF InStep, Aiming, Phase
  <2> QED
    BY <1>0, <2>3, <2>4, <2>5, OverOK DEF IInv
<1>3. CASE p # Loop
  <2>1. loop' = loop /\ since' = "changed"
    BY <1>3 DEF Advance
  <2>2. TypeOK'
    BY <1>0, <1>1, <2>1, OverOK DEF IInv, TypeOK
  <2>3. InStep' /\ Aiming' /\ Fresh'
    BY <1>0, <1>3, <2>1, OverOK DEF IInv, InStep, Aiming, Fresh
  <2> QED
    BY <1>0, <2>2, <2>3, OverOK DEF IInv
<1> QED
  BY <1>2, <1>3

\* Another command is killed.
LEMMA DieInv ==
  ASSUME IInv, NEW p \in Others, Die(p)
  PROVE  IInv'
<1>0. /\ Loop \in Procs /\ p \in Procs /\ p # Loop /\ job' = [job EXCEPT ![p] = Idle]
      /\ UNCHANGED <<works, store, baseline, loop, since>>
  BY TriageAssumption DEF Die, Procs
<1>1. HasRead' /\ job' \in [Procs -> Commands] /\ job'[Loop] = job[Loop]
  BY <1>0, OverOK
<1> QED
  BY <1>0, <1>1 DEF IInv, TypeOK, InStep, Aiming, Fresh

\* The loop's other actions are done while none of its commands runs.
LEMMA DoInv ==
  ASSUME IInv, Do(loop.act)
  PROVE  IInv'
<1>0. /\ Loop \in Procs /\ loop.phase = "act" /\ loop.act.verb # "ack"
      /\ loop' = Phase("check", Ack) /\ UNCHANGED <<store, baseline, job, since>>
  BY DEF Do, Procs
<1>1. job[Loop].step = "idle"
  BY <1>0 DEF IInv, InStep, Ack, Act
<1>2. works' \in Worlds
  <2> DEFINE a == loop.act
  <2>0. a \in Acts /\ works \in Worlds
    BY DEF IInv, TypeOK
  <2>1. CASE works' = NewState(works, a)
    BY <2>0, <2>1 DEF NewState, NoWork, Worlds, Acts
  <2>2. CASE works' = EditState(works, a)
    BY <2>0, <2>2 DEF EditState, Worlds, Acts
  <2>3. ASSUME NEW w \in Works, NEW b \in Beads, works' = PinState(works, w, b)
        PROVE  works' \in Worlds
    BY <2>0, <2>3 DEF PinState, Worlds
  <2>4. CASE Possible(a) /\ (a.verb = "pin" \/ a.verb = "choose")
    <3>1. a.bead \in Beads /\ a.work \in Works
      BY <1>0, <2>4 DEF IInv, Aiming, Aimed
    <3> QED
      BY <2>0, <2>3, <2>4, <3>1 DEF Do, Readable
  <2> QED
    BY <2>0, <2>1, <2>2, <2>4 DEF Do
<1>3. Ack \in Acts
  BY DEF Ack, Act, Acts
<1>4. TypeOK' /\ HasRead' /\ InStep' /\ Aiming' /\ Fresh'
  BY <1>0, <1>1, <1>2, <1>3 DEF IInv, TypeOK, HasRead, InStep, Aiming, Fresh, Phase
<1> QED
  BY <1>4 DEF IInv

\* Others change a bead or a work, and nothing is fresh any more.
LEMMA OthersInv ==
  ASSUME IInv,
         \/ \E b \in Beads : \E r \in Record \cup {Gone} : ChangeBead(b, r)
         \/ \E w \in Works : \E v \in Moved(works[w]) : ChangeWork(w, v)
  PROVE  IInv'
<1>1. UNCHANGED <<baseline, job, loop>> /\ since' = "changed"
  BY DEF ChangeBead, ChangeWork, Interfere
<1>2. ASSUME NEW b \in Beads, NEW r \in Record \cup {Gone}, ChangeBead(b, r)
      PROVE  works' \in Worlds /\ store' \in Stores
  BY <1>2 DEF ChangeBead, IInv, TypeOK, Stores
<1>3. ASSUME NEW w \in Works, NEW v \in Moved(works[w]), ChangeWork(w, v)
      PROVE  works' \in Worlds /\ store' \in Stores
  <2>1. v \in [state : {"absent", "live", "corrupt", "archived"},
               filter : SUBSET Labels, pins : SUBSET Beads]
    BY DEF Moved, IInv, TypeOK, Worlds
  <2> QED
    BY <1>3, <2>1 DEF ChangeWork, IInv, TypeOK, Worlds
<1>4. works' \in Worlds /\ store' \in Stores
  BY <1>2, <1>3
<1> QED
  BY <1>1, <1>4 DEF IInv, TypeOK, HasRead, InStep, Aiming, Fresh

\* The loop begins again.
LEMMA RestartInv ==
  ASSUME IInv, Restart
  PROVE  IInv'
<1>1. /\ UNCHANGED <<works, store, baseline, job, since>>
      /\ loop' = Phase("check", Ack) /\ job[Loop] = Idle
  BY DEF Restart
<1>2. Ack \in Acts /\ Idle.step = "idle"
  BY DEF Ack, Act, Acts, Idle
<1> QED
  BY <1>1, <1>2 DEF IInv, TypeOK, HasRead, InStep, Aiming, Fresh, Phase

\* Nothing has been read, and there is no baseline.
LEMMA InitInv == Init => IInv
<1> SUFFICES ASSUME Init PROVE IInv
  OBVIOUS
<1>1. Idle \in Commands /\ Idle.step = "idle" /\ Idle.mode = "ack"
  BY DEF Idle, Commands
<1>2. Ack \in Acts
  BY DEF Ack, Act, Acts
<1>3. works \in Worlds
  <2>1. /\ NoWork \in [state : {"absent", "live", "corrupt", "archived"},
                       filter : SUBSET Labels, pins : SUBSET Beads]
        /\ [NoWork EXCEPT !.state = "live"] \in
              [state : {"absent", "live", "corrupt", "archived"},
               filter : SUBSET Labels, pins : SUBSET Beads]
    BY DEF NoWork
  <2> QED
    BY <2>1 DEF Init, Worlds
<1>4. store \in Stores
  BY DEF Init, Stores, Record
<1> QED
  BY <1>1, <1>2, <1>3, <1>4 DEF Init, IInv, TypeOK, HasRead, InStep, Aiming, Fresh, Phase, Procs

\* Every step keeps the invariant.
LEMMA NextInv == IInv /\ [Next]_vars => IInv'
<1> SUFFICES ASSUME IInv, [Next]_vars PROVE IInv'
  OBVIOUS
<1>0. Loop \in Procs /\ Others \subseteq Procs /\ Loop \notin Others
  BY TriageAssumption DEF Procs
<1>1. CASE LoopStep
  <2>1. CASE loop.phase = "check" /\ Load(Loop, "resolved")
    BY <1>0, <2>1, LoadInv
  <2>2. CASE loop.phase = "act" /\ loop.act = Ack /\ Load(Loop, "ack")
    BY <1>0, <2>2, LoadInv
  <2> QED
    BY <1>0, <1>1, <2>1, <2>2, ListInv, ResolveInv, AdvanceInv, DoInv DEF LoopStep
<1>2. ASSUME NEW p \in Others, Load(p, "ack") \/ List(p) \/ Advance(p) \/ Die(p)
      PROVE  IInv'
  <2>1. CASE Load(p, "ack")
    BY <1>0, <2>1, LoadInv
  <2> QED
    BY <1>0, <1>2, <2>1, ListInv, AdvanceInv, DieInv
<1>3. CASE UNCHANGED vars
  BY <1>3 DEF IInv, TypeOK, HasRead, InStep, Aiming, Fresh, vars
<1> QED
  BY <1>1, <1>2, <1>3, RestartInv, OthersInv DEF Next

\* So it always holds.
LEMMA Invariance == TriageSpec => []IInv
BY InitInv, NextInv, PTL DEF TriageSpec

----------------------------------------------------------------------------
(* The theorems *)

(***************************************************************************)
(* Exit code 0 of kerf triage --resolved can be relied on (Triage): unless *)
(* something has changed since, every ready bead is offered under exactly  *)
(* one work, and no bead was closed, reopened, added or removed unseen.    *)
(***************************************************************************)
THEOREM CleanExit == TriageSpec => []CleanIsTriaged
<1>1. IInv => CleanIsTriaged
  <2> SUFFICES ASSUME IInv, loop.phase = "done", since = "same"
               PROVE  /\ \A b \in Beads : Ready(store[b]) =>
                            Cardinality(NextAttached(works, store, b)) = 1
                      /\ External(baseline, store) = {}
    BY DEF CleanIsTriaged
  <2>1. Items(works, store, baseline) = {}
    BY DEF IInv, Fresh
  <2>2. ASSUME NEW kind \in Kinds, NEW b \in Beads
        PROVE  [kind |-> kind, bead |-> b] \notin Items(works, store, baseline)
    BY <2>1
  <2>3. /\ \A b \in Beads : b \notin Untriaged(works, store)
        /\ \A b \in Beads : b \notin MultiMatched(works, store)
        /\ \A b \in Beads : b \notin External(baseline, store)
    BY <2>2 DEF Items, Kinds
  <2>4. External(baseline, store) = {}
    BY <2>3 DEF External, Deleted, Added, Kept, ClosedExternally, ReopenedExternally
  <2>5. ASSUME NEW b \in Beads, Ready(store[b])
        PROVE  Cardinality(NextAttached(works, store, b)) = 1
    <3>1. CASE Owners(works, b) # {}
      BY <3>1, FS_Singleton DEF NextAttached
    <3>2. CASE Owners(works, b) = {}
      <4> DEFINE M == Matching(works, store[b])
      <4>1. b \in Unpinned(works, store)
        BY <2>5, <3>2 DEF Unpinned
      <4>2. M # {} /\ ~(Cardinality(M) >= 2)
        BY <2>3, <4>1 DEF Untriaged, MultiMatched
      <4>3. M \in SUBSET Works
        BY DEF Matching, Readable
      <4>4. IsFiniteSet(M)
        <5>1. IsFiniteSet(Works)
          BY FS_Interval, TriageAssumption DEF Works
        <5> QED
          BY <4>3, <5>1, FS_Subset
      <4>5. Cardinality(M) \in Nat /\ Cardinality(M) # 0
        BY <4>2, <4>4, FS_CardinalityType, FS_EmptySet
      <4> HIDE DEF M
      <4>6. Cardinality(M) = 1
        BY <4>2, <4>5
      <4> QED
        BY <3>2, <4>6 DEF NextAttached, M
    <3> QED
      BY <3>1, <3>2
  <2> QED
    BY <2>4, <2>5
<1> QED
  BY <1>1, Invariance, PTL

(***************************************************************************)
(* What happens to a bead after an --ack has read the store is not         *)
(* acknowledged with it (Triage), however many of them run at once.        *)
(***************************************************************************)
THEOREM NothingAckedUnseen == TriageSpec => LateChangesReported
<1> DEFINE Late ==
      \A p \in Procs : Advance(p) =>
        \A b \in Beads :
            (Present(job[p].seen[b]) # Present(store[b])
                \/ Closed(job[p].seen[b]) # Closed(store[b])) =>
            b \in External(baseline', store)
<1>1. IInv /\ [Next]_vars => [Late]_vars
  <2> SUFFICES ASSUME IInv, NEW p \in Procs, Advance(p), NEW b \in Beads,
                      Present(job[p].seen[b]) # Present(store[b])
                        \/ Closed(job[p].seen[b]) # Closed(store[b])
               PROVE  b \in External(baseline', store)
    OBVIOUS
  <2> DEFINE seen == job[p].seen
  <2>1. baseline' = seen /\ seen \in Stores
    BY DEF Advance, IInv, HasRead
  <2>2. seen # Never
    BY <2>1, NeverApart DEF Stores
  <2>3. ASSUME Present(seen[b]), ~Present(store[b])
        PROVE  b \in Deleted(seen, store)
    BY <2>3 DEF Deleted
  <2>4. ASSUME ~Present(seen[b]), Present(store[b])
        PROVE  b \in Added(seen, store)
    BY <2>4 DEF Added
  <2>5. ASSUME Present(seen[b]) = Present(store[b]), Closed(seen[b]) # Closed(store[b])
        PROVE  b \in ClosedExternally(seen, store) \cup ReopenedExternally(seen, store)
    BY <2>5 DEF ClosedExternally, ReopenedExternally, Kept, Present, Closed
  <2>6. b \in Deleted(seen, store) \cup Added(seen, store)
                \cup ClosedExternally(seen, store) \cup ReopenedExternally(seen, store)
    BY <2>3, <2>4, <2>5 DEF Present
  <2> QED
    BY <2>1, <2>2, <2>6 DEF External
<1>2. LateChangesReported <=> [][Late]_vars
  BY DEF LateChangesReported
<1> QED
  BY <1>1, <1>2, Invariance, PTL DEF TriageSpec

(***************************************************************************)
(* A suggestion that is carried out before anything else changes settles   *)
(* its bead (Triage): the loop does not print it again.                    *)
(***************************************************************************)
THEOREM SuggestionsSettle == TriageSpec => SuggestionHelps
<1> DEFINE Helps ==
      \A b \in Beads :
        loop.act.bead = b /\ Do(loop.act) /\ Possible(loop.act) /\ since = "same" =>
            /\ b \notin Untriaged(works', store)
            /\ loop.act.verb = "pin" => b \notin MultiMatched(works', store)
<1>1. IInv /\ [Next]_vars => [Helps]_vars
  <2> SUFFICES ASSUME IInv, NEW b \in Beads, loop.act.bead = b,
                      Do(loop.act), Possible(loop.act), since = "same"
               PROVE  /\ b \notin Untriaged(works', store)
                      /\ loop.act.verb = "pin" => b \notin MultiMatched(works', store)
    OBVIOUS
  <2> DEFINE a == loop.act
  <2>0. /\ works \in Worlds /\ works' \in Worlds /\ store \in Stores
        /\ Sensible(store, a) /\ Aimed(a) /\ a.verb # "ack"
    BY DoInv DEF IInv, TypeOK, Fresh, Aiming, Do
  <2>1. ASSUME NEW w \in Works, NEW l \in store[b].labels,
               works'[w].state = "live", l \in works'[w].filter
        PROVE  b \notin Untriaged(works', store)
    <3>1. w \in Matching(works', store[b])
      BY <2>1 DEF Matching, Readable, Wanted
    <3> QED
      BY <3>1 DEF Untriaged
  <2>2. ASSUME NEW w \in Works, works'[w].state = "live", b \in works'[w].pins
        PROVE  b \notin Untriaged(works', store) /\ b \notin MultiMatched(works', store)
    <3>1. w \in Owners(works', b)
      BY <2>2 DEF Owners, Readable
    <3> QED
      BY <3>1 DEF Untriaged, MultiMatched, Unpinned
  <2>3. ASSUME NEW w \in Readable(works), works' = PinState(works, w, b)
        PROVE  b \notin Untriaged(works', store) /\ b \notin MultiMatched(works', store)
    <3>1. w \in Works /\ works'[w].state = "live" /\ b \in works'[w].pins
      BY <2>0, <2>3 DEF PinState, Readable, Worlds
    <3> QED
      BY <2>2, <3>1
  <2>4. CASE a.verb = "edit"
    <3>1. PICK l \in store[b].labels : a.labels = {l}
      BY <2>0, <2>4 DEF Sensible
    <3>2. a.work \in Works /\ works[a.work].state = "live" /\ works' = EditState(works, a)
      BY <2>0, <2>4 DEF Aimed, Possible, Do
    <3>3. works'[a.work].state = "live" /\ l \in works'[a.work].filter
      BY <2>0, <3>1, <3>2 DEF EditState, Worlds
    <3> QED
      BY <2>1, <2>4, <3>2, <3>3
  <2>5. CASE a.verb = "new"
    <3>1. PICK l \in store[b].labels : a.labels = {l}
      BY <2>0, <2>5 DEF Sensible
    <3>2. a.work \in Works /\ works' = NewState(works, a)
      BY <2>0, <2>5 DEF Aimed, Possible, Do
    <3>3. works'[a.work].state = "live" /\ l \in works'[a.work].filter
      BY <2>0, <3>1, <3>2 DEF NewState, NoWork, Worlds
    <3> QED
      BY <2>1, <2>5, <3>2, <3>3
  <2>6. CASE a.verb = "pin"
    <3>1. a.work \in Readable(works) /\ works' = PinState(works, a.work, b)
      BY <2>0, <2>6 DEF Aimed, Possible, Do, Readable
    <3> QED
      BY <2>3, <3>1
  <2>7. CASE a.verb = "choose"
    BY <2>3, <2>7 DEF Do
  <2> QED
    BY <2>0, <2>4, <2>5, <2>6, <2>7 DEF Possible
<1>2. SuggestionHelps <=> [][Helps]_vars
  BY DEF SuggestionHelps
<1> QED
  BY <1>1, <1>2, Invariance, PTL DEF TriageSpec

=============================================================================
