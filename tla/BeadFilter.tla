----------------------------- MODULE BeadFilter -----------------------------
(***************************************************************************)
(* The bead_filter of one work: the encodings of spec.yaml, the edits of   *)
(* kerf work edit one clause and one write at a time                       *)
(* (internal/spec/mutate.go), the proposals that kerf bootstrap-filters    *)
(* writes after a prompt, and what the filter attaches, while the bead     *)
(* store, project.yaml and other commands change.                          *)
(***************************************************************************)
EXTENDS Naturals, SequencesExt, FiniteSetsExt

CONSTANTS
    BeadIDs,
    Labels,         \* what a bead may carry, its id prefixes included
    Candidates,     \* the labels that candidateShapes makes of the codename
    DefaultLabel,   \* work:<codename>
    Clause,         \* the texts of clauses: labels, or
    Templated,      \* label=work:{codename}
    Editors,        \* kerf work edit processes
    Bootstrappers,  \* kerf bootstrap-filters processes
    Unknown,        \* no expectation
    AbsoluteFloor, MemberFloor, \* minAbsoluteFloor, minUnionMemberFloor
    MaxLeaves       \* bound on the leaves of one clause option

ASSUME BeadFilterAssumption ==
    /\ Candidates \subseteq Labels /\ IsFiniteSet(Candidates) /\ IsFiniteSet(BeadIDs)
    /\ DefaultLabel \in Labels \ Candidates
    /\ Templated \notin Labels
    /\ Candidates \subseteq Clause /\ Clause \subseteq Labels \cup {Templated}
    /\ Editors \cap Bootstrappers = {}
    /\ \A S \in SUBSET Clause : S # Unknown
    /\ MemberFloor \in Nat \ {0} /\ AbsoluteFloor \in Nat
    /\ AbsoluteFloor >= MemberFloor
    /\ MaxLeaves \in Nat

VARIABLES
    filter,     \* the bead_filter of spec.yaml
    project,    \* the labels that the filter of project.yaml asks for
    carries,    \* the labels of each open bead; a closed one is as without
    edit,       \* the clauses each process still has to take out and put in
    goal        \* the clauses it is to leave, while nothing interferes

filterVars == <<filter, project, carries, edit, goal>>

Procs == Editors \cup Bootstrappers
NoEdit == [active |-> FALSE, out |-> <<>>, in |-> <<>>]
\* The leaves of one option, label=..., id_prefix=... or any:..., or of several.
Leaves == BoundedSeq(Clause, MaxLeaves)

Without(form) == [form |-> form, clauses |-> <<>>]
Leaf(c) == [form |-> "leaf", clauses |-> <<c>>]
AnyOf(s) == [form |-> "any", clauses |-> s]
Exists == filter.form # "no work"
Unfiltered(f) == f.form \in {"no work", "absent", "null"}
Holds(f) == ToSet(f.clauses)

----------------------------------------------------------------------------
(* What a filter attaches *)

Substitute(c) == IF c = Templated THEN DefaultLabel ELSE c

\* The work's own filter, or the project's, or the built-in one.
Resolve ==
    IF ~Unfiltered(filter) THEN {Substitute(c) : c \in Holds(filter)}
    ELSE IF project # {} THEN project
    ELSE {DefaultLabel}

Matches(wanted) == {b \in BeadIDs : carries[b] \cap wanted # {}}
AttachedBeads == IF Exists THEN Matches(Resolve) ELSE {}

\* The bead-filter-coverage row of kerf doctor for the work; that one counts
\* closed beads as attached, too.
Coverage ==
    IF ~Exists THEN "no works"
    ELSE IF Unfiltered(filter) THEN "unwired"
    ELSE IF AttachedBeads = {} THEN "empty" ELSE "wired"

----------------------------------------------------------------------------
(* The edits of mutate.go *)

Plus(f, c) ==
    IF Unfiltered(f) THEN Leaf(c)
    ELSE IF c \in Holds(f) THEN f
    ELSE AnyOf(Append(f.clauses, c))

\* Mutant of Minus: a list of one clause stays a list.
MinusUncollapsed(f, c) ==
    LET kept == RemoveFirst(f.clauses, c) IN
    IF c \notin Holds(f) THEN f
    ELSE IF kept = <<>> THEN Without("null")
    ELSE AnyOf(kept)

\* The first equal clause goes; the key stays, with an empty value.
Minus(f, c) ==
    LET kept == RemoveFirst(f.clauses, c) IN
    IF c \notin Holds(f) THEN f
    ELSE IF kept = <<>> THEN Without("null")
    ELSE IF Len(kept) = 1 THEN Leaf(kept[1])
    ELSE AnyOf(kept)

----------------------------------------------------------------------------
(* labelsample.ProposeFilter *)

Count(c) == Cardinality({b \in BeadIDs : c \in carries[b]})
Total == MapThenSumSet(Count, Candidates)

\* Mutant of Dominant: the share alone counts.
DominantUnfloored == {c \in Candidates : 5 * Count(c) >= 4 * Total}

\* Four fifths of all matches, and enough of them.
Dominant == {c \in Candidates : Count(c) >= AbsoluteFloor /\ 5 * Count(c) >= 4 * Total}
Members == {c \in Candidates : Count(c) >= MemberFloor}

\* By falling count; candidates of equal count here in any order.
Proposals ==
    IF Dominant # {} THEN {<<c>> : c \in Dominant}
    ELSE IF Cardinality(Members) < 2 THEN {}
    ELSE {s \in SetToSeqs(Members) :
            \A i, j \in DOMAIN s : i < j => Count(s[i]) >= Count(s[j])}

----------------------------------------------------------------------------
FilterInit ==
    /\ filter \in {Without("no work"), Without("absent")}
    /\ project = {}
    /\ carries \in [BeadIDs -> SUBSET Labels]
    /\ edit = [p \in Procs |-> NoEdit]
    /\ goal = [p \in Procs |-> Unknown]

\* What a step of someone else leaves of the expectations.
Surprise(p) == goal' = [q \in Procs |-> IF q = p THEN goal[p] ELSE Unknown]
SurpriseAll == goal' = [q \in Procs |-> Unknown]

(* kerf new: --bead-filter, or a dominant candidate, or an empty key. *)
New(leaves) ==
    /\ ~Exists
    /\ \/ Len(leaves) = 1 /\ filter' = Leaf(leaves[1])
       \/ Len(leaves) > 1 /\ filter' = AnyOf(leaves)
       \/ leaves = <<>> /\ \E c \in Dominant : filter' = Leaf(c)
       \/ leaves = <<>> /\ filter' = Without("null")
    /\ SurpriseAll
    /\ UNCHANGED <<project, carries, edit>>

(* A command that reads spec.yaml into SpecYAML and writes it again. *)
Rewrite ==
    /\ Exists
    /\ filter' = IF filter.form = "absent" THEN Without("null") ELSE filter
    /\ SurpriseAll
    /\ UNCHANGED <<project, carries, edit>>

(* kerf init --force keeps the project's filter or replaces it. *)
InitForce(label) ==
    /\ project' = {label}
    /\ SurpriseAll
    /\ UNCHANGED <<filter, carries, edit>>

(* The bead tool: labels come and go, beads are closed and opened. *)
Relabel(b, labels) ==
    /\ carries' = [carries EXCEPT ![b] = labels]
    /\ SurpriseAll
    /\ UNCHANGED <<filter, project, edit>>

(* kerf work edit: removals first, each clause a write of its own. *)
EditBegin(p, out, in) ==
    /\ ~edit[p].active /\ Exists
    /\ Len(out) + Len(in) \in 1..MaxLeaves
    /\ edit' = [edit EXCEPT ![p] = [active |-> TRUE, out |-> out, in |-> in]]
    /\ goal' = [goal EXCEPT ![p] =
           IF IsInjective(filter.clauses) THEN (Holds(filter) \ ToSet(out)) \cup ToSet(in)
           ELSE Unknown]
    /\ UNCHANGED <<filter, project, carries>>

\* Mutant of BootstrapBegin: the project's filter is not considered.
BootstrapBeginUnresolved(p) ==
    /\ ~edit[p].active /\ Exists
    /\ Unfiltered(filter) => Matches({DefaultLabel}) = {}
    /\ ~Unfiltered(filter) => AttachedBeads = {}
    /\ \E s \in Proposals :
        /\ edit' = [edit EXCEPT ![p] = [active |-> TRUE, out |-> <<>>, in |-> s]]
        /\ goal' = [goal EXCEPT ![p] = Holds(filter) \cup ToSet(s)]
    /\ UNCHANGED <<filter, project, carries>>

(* kerf bootstrap-filters: no open bead attached and a proposal made; then *)
(* the prompt, before which nothing is written.                            *)
BootstrapBegin(p) ==
    /\ ~edit[p].active /\ Exists /\ AttachedBeads = {}
    /\ \E s \in Proposals :
        /\ edit' = [edit EXCEPT ![p] = [active |-> TRUE, out |-> <<>>, in |-> s]]
        /\ goal' = [goal EXCEPT ![p] = Holds(filter) \cup ToSet(s)]
    /\ UNCHANGED <<filter, project, carries>>

TakeOut(p) ==
    /\ edit[p].out # <<>>
    /\ filter' = Minus(filter, Head(edit[p].out))
    /\ edit' = [edit EXCEPT ![p].out = Tail(@)]
    /\ Surprise(p)
    /\ UNCHANGED <<project, carries>>

\* Mutant of PutIn: additions do not wait for the removals.
PutInEarly(p) ==
    /\ edit[p].in # <<>>
    /\ filter' = Plus(filter, Head(edit[p].in))
    /\ edit' = [edit EXCEPT ![p].in = Tail(@)]
    /\ Surprise(p)
    /\ UNCHANGED <<project, carries>>

PutIn(p) ==
    /\ edit[p].out = <<>> /\ edit[p].in # <<>>
    /\ filter' = Plus(filter, Head(edit[p].in))
    /\ edit' = [edit EXCEPT ![p].in = Tail(@)]
    /\ Surprise(p)
    /\ UNCHANGED <<project, carries>>

(* Done, killed between two writes, or the prompt answered with no. *)
End(p) ==
    /\ edit[p].active
    /\ edit' = [edit EXCEPT ![p] = NoEdit]
    /\ goal' = [goal EXCEPT ![p] = Unknown]
    /\ UNCHANGED <<filter, project, carries>>

FilterNext ==
    \/ \E leaves \in Leaves : New(leaves)
    \/ Rewrite
    \/ \E l \in Labels : InitForce(l)
    \/ \E b \in BeadIDs : \E labels \in SUBSET Labels : Relabel(b, labels)
    \/ \E p \in Editors : \E out, in \in Leaves : EditBegin(p, out, in)
    \/ \E p \in Bootstrappers : BootstrapBegin(p)
    \/ \E p \in Procs : TakeOut(p) \/ PutIn(p) \/ End(p)

FilterSpec == FilterInit /\ [][FilterNext]_filterVars

----------------------------------------------------------------------------
(***************************************************************************)
(* specs/commands.md, kerf work edit, step 5: after any sequence of edits  *)
(* no clause is an empty filter, one clause a direct one, and more are an  *)
(* any: union, which are the forms that spec.Read accepts and that mean    *)
(* the same to every reader.                                               *)
(***************************************************************************)
Canonical ==
    /\ Unfiltered(filter) <=> Len(filter.clauses) = 0
    /\ filter.form = "leaf" <=> Len(filter.clauses) = 1

(***************************************************************************)
(* A command that gets to its last write with nothing between leaves the   *)
(* clauses that were there, less those to remove, and those to add: for an *)
(* edit whatever encodings it passes through (a union of a list typed with *)
(* one clause twice excepted), for a bootstrap with what the work had.     *)
(***************************************************************************)
EditApplied ==
    \A p \in Procs :
        edit[p].active /\ edit[p].out = <<>> /\ edit[p].in = <<>> /\ goal[p] # Unknown =>
            Holds(filter) = goal[p]

(***************************************************************************)
(* The match that the proposal promised is there when it has been written, *)
(* unless beads or filter changed during the prompt: the work that was     *)
(* without open beads has them, is not proposed for again, and kerf doctor *)
(* has nothing to say about its filter.                                    *)
(***************************************************************************)
BootstrapAttaches ==
    \A p \in Bootstrappers :
        edit[p].active /\ edit[p].in = <<>> /\ goal[p] # Unknown =>
            Cardinality(AttachedBeads) >= MemberFloor /\ Coverage = "wired"

(***************************************************************************)
(* An open bead is detached from the work only by a removal, by a change   *)
(* of its labels or of the project's filter, and by the first clause of a  *)
(* work that had none, which puts the resolved default out of use; and     *)
(* never by a bootstrap whose picture of the work still holds.             *)
(***************************************************************************)
KeepsAttached ==
    [][~(AttachedBeads \subseteq AttachedBeads') =>
        \/ carries' # carries
        \/ project' # project
        \/ \E p \in Procs : TakeOut(p)
        \/ Unfiltered(filter) /\ \E p \in Editors : PutIn(p)
        \/ Unfiltered(filter) /\ \E p \in Bootstrappers : PutIn(p) /\ goal[p] = Unknown]_filterVars
=============================================================================
