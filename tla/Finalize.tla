------------------------------ MODULE Finalize ------------------------------
(***************************************************************************)
(* kerf finalize (cmd/finalize.go): the only command that drives git.  A   *)
(* finalizer is a process; its steps are the git commands and file copies  *)
(* it makes, and any of them may fail or be the last before a crash.  The  *)
(* repository is one working tree shared by everybody.  Of a file only its *)
(* presence is modelled, not its text.                                     *)
(***************************************************************************)
EXTENDS Naturals, Sequences, FiniteSets, SequencesExt

CONSTANTS
    Works,
    DependsOn,      \* must-complete-first dependencies of each work
    Files,          \* artifact names
    Required,       \* the files the jig demands of every work
    Drafts,         \* 05-spec-drafts of each work: {} unless its jig is spec
    Branches,       \* branch names
    Default,        \* the repository's default branch
    None,           \* no branch
    SpecPath,       \* the path spec drafts are copied to
    Finalizers,     \* finalize processes
    MirrorIgnored,  \* whether .kerf/ is in the repository's .gitignore
    MaxCommits      \* bound on the number of commits

ASSUME FinalizeAssumption ==
    /\ DependsOn \in [Works -> SUBSET Works]
    /\ Required \subseteq Files
    /\ Drafts \in [Works -> SUBSET Files]
    /\ Default \in Branches /\ None \notin Branches /\ SpecPath \notin Works
    /\ MirrorIgnored \in BOOLEAN /\ MaxCommits \in Nat

VARIABLES
    spec,       \* what finalize reads and writes of each spec.yaml
    artifacts,  \* files of each work directory
    log,        \* all commits, in the order they were made
    branch,     \* the commit each branch points to, 0 if there is no such branch
    head,       \* the branch checked out
    tree,       \* files of the working tree, by path
    index,      \* files staged, by path
    pc, job     \* the control point of each finalizer and what it holds

bench == <<spec, artifacts>>
repo == <<log, branch, head, tree, index>>
vars == <<spec, artifacts, log, branch, head, tree, index, pc, job>>

Paths == Works \cup {SpecPath}
Trees == [Paths -> SUBSET Files]
Statuses == {"working", "ready", "finalized"}
SpecData == [status : Statuses, branch : Branches \cup {None}, commits : Seq(Nat)]
Unknown == 0  \* the word "unknown" in place of a hash; commits count from 1
NoJob == [work |-> None, branch |-> None, copy |-> None]

HeadTree == log[branch[head]].tree
Untracked == [p \in Paths |-> tree[p] \ index[p]]

\* Mutant of Clean: uncommitted changes are ignored.
NeverDirty == TRUE

\* git status --porcelain prints nothing.
Clean ==
    /\ index = HeadTree
    /\ \A p \in Paths : index[p] \subseteq tree[p]
    /\ \A p \in Paths : Untracked[p] # {} => MirrorIgnored /\ p # SpecPath

\* The commits that every set has which has c and the parents of its commits.
Closed(commits, S) == \A c \in S \ {0} : commits[c].parent \in S
Ancestors(commits, c) ==
    {n \in DOMAIN commits :
        \A S \in SUBSET (0..Len(commits)) : c \in S /\ Closed(commits, S) => n \in S}

\* dep.IsComplete: the terminal status, or one that is in no list.
IsComplete(st) == st \in {"ready", "finalized"}

IsSquare(w) ==
    /\ IsComplete(spec[w].status)
    /\ Required \subseteq artifacts[w]
    /\ \A d \in DependsOn[w] : IsComplete(spec[d].status)

----------------------------------------------------------------------------
Init ==
    /\ spec = [w \in Works |-> [status |-> "working", branch |-> None, commits |-> << >>]]
    /\ artifacts \in [Works -> {{}, Required}]
    /\ log = << [parent |-> 0, tree |-> [p \in Paths |-> {}]] >>
    /\ branch = [b \in Branches |-> IF b = Default THEN 1 ELSE 0]
    /\ head = Default
    /\ tree = [p \in Paths |-> {}]
    /\ index = [p \in Paths |-> {}]
    /\ pc = [f \in Finalizers |-> "idle"]
    /\ job = [f \in Finalizers |-> NoJob]

Goto(f, from, to) == pc[f] = from /\ pc' = [pc EXCEPT ![f] = to]

\* Load the work and run the square check; refuse a work that is not square.
Begin(f, w, b) ==
    /\ Goto(f, "idle", "checked")
    /\ IsSquare(w)
    /\ job' = [job EXCEPT ![f] = [work |-> w, branch |-> b, copy |-> spec[w]]]
    /\ UNCHANGED <<bench, repo>>

\* No uncommitted changes, no branch of this name.  The snapshot that follows
\* touches only .history.
PreFlight(f) ==
    /\ Goto(f, "checked", "branch")
    /\ Clean
    /\ branch[job[f].branch] = 0
    /\ UNCHANGED <<bench, repo, job>>

\* Mutant of CreateBranch: git branch instead of git checkout -b.
BranchWithoutCheckout(f) ==
    /\ Goto(f, "branch", "copy")
    /\ branch[job[f].branch] = 0
    /\ branch' = [branch EXCEPT ![job[f].branch] = branch[head]]
    /\ UNCHANGED <<bench, log, head, tree, index, job>>

CreateBranch(f) ==
    /\ Goto(f, "branch", "copy")
    /\ branch[job[f].branch] = 0
    /\ branch' = [branch EXCEPT ![job[f].branch] = branch[head]]
    /\ head' = job[f].branch
    /\ UNCHANGED <<bench, log, tree, index, job>>

Overlay(w, files, drafts) ==
    [tree EXCEPT ![w] = @ \cup files, ![SpecPath] = @ \cup drafts]

CopyArtifacts(f) ==
    LET w == job[f].work IN
    /\ Goto(f, "copy", "add")
    /\ tree' = Overlay(w, artifacts[w], Drafts[w])
    /\ UNCHANGED <<bench, log, branch, head, index, job>>

\* A copy that fails half way, in the artifacts or in the drafts that follow
\* them: nothing is removed again.
CopyPartly(f) ==
    LET w == job[f].work IN
    /\ Goto(f, "copy", "idle")
    /\ \/ \E files \in SUBSET artifacts[w] : tree' = Overlay(w, files, {})
       \/ \E drafts \in SUBSET Drafts[w] : tree' = Overlay(w, artifacts[w], drafts)
    /\ job' = [job EXCEPT ![f] = NoJob]
    /\ UNCHANGED <<bench, log, branch, head, index>>

\* git add -f of the mirror, git add of the spec path; adding nothing fails.
Stage(f) ==
    LET w == job[f].work IN
    /\ Goto(f, "add", "commit")
    /\ tree[w] # {}
    /\ index' = [index EXCEPT ![w] = tree[w],
                              ![SpecPath] = IF Drafts[w] = {} THEN @ ELSE tree[SpecPath]]
    /\ UNCHANGED <<bench, log, branch, head, tree, job>>

\* git commit of the whole index onto the branch that is checked out.
Commit(f) ==
    /\ Goto(f, "commit", "record")
    /\ Len(log) < MaxCommits
    /\ index # HeadTree
    /\ log' = Append(log, [parent |-> branch[head], tree |-> index])
    /\ branch' = [branch EXCEPT ![head] = Len(log) + 1]
    /\ UNCHANGED <<bench, head, tree, index, job>>

\* git rev-parse HEAD, whose failure is recorded as a hash like any other, then
\* the whole spec.yaml from the copy read at the start.
Record(f) ==
    LET j == job[f] IN
    /\ Goto(f, "record", "idle")
    /\ \E hash \in {branch[head], Unknown} :
          spec' = [spec EXCEPT ![j.work] =
                      [status |-> "finalized", branch |-> j.branch,
                       commits |-> Append(j.copy.commits, hash)]]
    /\ job' = [job EXCEPT ![f] = NoJob]
    /\ UNCHANGED <<artifacts, repo>>

\* A refused check, a failed step or a crash: what was done stays done.
Abort(f) ==
    /\ pc[f] # "idle"
    /\ pc' = [pc EXCEPT ![f] = "idle"]
    /\ job' = [job EXCEPT ![f] = NoJob]
    /\ UNCHANGED <<bench, repo>>

(***************************************************************************)
(* Agents and users, between finalize commands.                            *)
(***************************************************************************)
Quiet == \A f \in Finalizers : pc[f] = "idle"

SetStatus(w, st) ==
    /\ Quiet
    /\ spec' = [spec EXCEPT ![w].status = st]
    /\ UNCHANGED <<artifacts, repo, pc, job>>

EditArtifacts(w, x) ==
    /\ Quiet
    /\ artifacts' = [artifacts EXCEPT ![w] = SymDiff(@, {x})]
    /\ UNCHANGED <<spec, repo, pc, job>>

SwitchBranch(b) ==
    /\ Quiet /\ Clean
    /\ branch[b] # 0
    /\ head' = b
    /\ index' = log[branch[b]].tree
    /\ tree' = [p \in Paths |-> Untracked[p] \cup log[branch[b]].tree[p]]
    /\ UNCHANGED <<bench, log, branch, pc, job>>

DiscardChanges ==
    /\ Quiet
    /\ index' = HeadTree /\ tree' = HeadTree
    /\ UNCHANGED <<bench, log, branch, head, pc, job>>

FinalizeStep(f) ==
    \/ \E w \in Works, b \in Branches : Begin(f, w, b)
    \/ PreFlight(f) \/ CreateBranch(f)
    \/ CopyArtifacts(f) \/ CopyPartly(f)
    \/ Stage(f) \/ Commit(f) \/ Record(f)
    \/ Abort(f)

Surroundings ==
    \/ \E w \in Works, st \in {"working", "ready"} : SetStatus(w, st)
    \/ \E w \in Works, x \in Files : EditArtifacts(w, x)
    \/ \E b \in Branches : SwitchBranch(b)
    \/ DiscardChanges

Next == (\E f \in Finalizers : FinalizeStep(f)) \/ Surroundings

FinalizeSpec == Init /\ [][Next]_vars

----------------------------------------------------------------------------
(***************************************************************************)
(* implementation.branch and implementation.commits belong together        *)
(* (specs/finalization.md, 5): the branch a finalized work records holds a *)
(* commit with the work's mirror, and the last commit the work records is  *)
(* that one, or "unknown" when git would not say which it was.             *)
(***************************************************************************)
RecordedOnBranch ==
    \A w \in Works : spec[w].branch # None =>
        \E c \in Ancestors(log, branch[spec[w].branch]) :
            /\ log[c].tree[w] # {}
            /\ Last(spec[w].commits) \in {c, Unknown}

(***************************************************************************)
(* A commit of kerf changes the mirror of one work only: left-overs of a   *)
(* finalize that failed never slip into the commit of another work.        *)
(***************************************************************************)
OneWorkPerCommit ==
    \A i \in 2..Len(log) :
        \A w, v \in Works :
            /\ log[i].tree[w] # log[log[i].parent].tree[w]
            /\ log[i].tree[v] # log[log[i].parent].tree[v]
            => w = v
============================================================================
