--------------------------- MODULE FinalizeProofs ---------------------------
(***************************************************************************)
(* What kerf finalize leaves in the repository and in spec.yaml, for any   *)
(* works, dependencies, files, drafts and branches, any number of commits, *)
(* and failures, crashes and edits by hand at every step, when one kerf    *)
(* finalize runs at a time (OneFinalizer): git has one index and one HEAD, *)
(* and nothing in the code keeps two finalizers from moving them.          *)
(*                                                                         *)
(* Neither property is inductive.  RecordedOnBranch needs that HEAD is the *)
(* finalizer's own branch from the checkout until the commit is recorded,  *)
(* and that the commit holds the mirror that was staged;                   *)
(* OneWorkPerCommit that the index is the tree of HEAD from the check for  *)
(* uncommitted changes until the files are staged, and differs from it in  *)
(* one work afterwards; and both that the log is a history: the parent of  *)
(* a commit is an older one.                                               *)
(***************************************************************************)
EXTENDS Finalize, TLAPS

OneFinalizer == \A f, g \in Finalizers : f = g

Points == {"idle", "checked", "branch", "copy", "add", "commit", "record"}
Job == [work : Works, branch : Branches, copy : SpecData]
Commits == [parent : Nat, tree : Trees]

TypeOK ==
    /\ spec \in [Works -> SpecData]
    /\ artifacts \in [Works -> SUBSET Files]
    /\ log \in Seq(Commits)
    /\ branch \in [Branches -> Nat]
    /\ head \in Branches
    /\ tree \in Trees /\ index \in Trees
    /\ pc \in [Finalizers -> Points]
    /\ job \in [Finalizers -> Job \cup {NoJob}]

\* The root is the only commit without a parent; HEAD and branches exist.
History ==
    /\ \A i \in DOMAIN log : log[i].parent < i
    /\ \A i \in 2..Len(log) : log[i].parent # 0
    /\ \A b \in Branches : branch[b] <= Len(log)
    /\ branch[head] # 0

\* What a finalizer relies on between two of its steps.
Holding(f) ==
    /\ pc[f] # "idle" => job[f] \in Job
    /\ pc[f] \in {"copy", "add", "commit", "record"} => head = job[f].branch
    /\ pc[f] \in {"branch", "copy", "add"} => index = HeadTree
    /\ pc[f] = "commit" =>
          /\ \A v \in Works \ {job[f].work} : index[v] = HeadTree[v]
          /\ index[job[f].work] # {}
    /\ pc[f] = "record" => HeadTree[job[f].work] # {}

IInv ==
    /\ TypeOK
    /\ History
    /\ \A f \in Finalizers : Holding(f)
    /\ RecordedOnBranch
    /\ OneWorkPerCommit

----------------------------------------------------------------------------
(* History *)

\* The commits of a log.
LEMMA LogOK ==
    ASSUME NEW l \in Seq(Commits)
    PROVE  /\ Len(l) \in Nat /\ DOMAIN l = 1..Len(l)
           /\ \A i \in 1..Len(l) : l[i] \in Commits /\ l[i].parent \in Nat /\ l[i].tree \in Trees
<1>1. Len(l) \in Nat /\ DOMAIN l = 1..Len(l) /\ \A i \in 1..Len(l) : l[i] \in Commits
  OBVIOUS
<1> QED
  BY <1>1 DEF Commits

\* Commits are only added: an ancestor stays one.
LEMMA AncestorsGrow ==
    ASSUME NEW l \in Seq(Commits), NEW new \in Commits, NEW c \in 1..Len(l),
           \A i \in DOMAIN l : l[i].parent < i
    PROVE  Ancestors(l, c) \subseteq Ancestors(Append(l, new), c)
<1> DEFINE m == Append(l, new)
<1>1. /\ Len(m) = Len(l) + 1 /\ DOMAIN l = 1..Len(l) /\ DOMAIN m = 1..(Len(l) + 1)
      /\ Len(l) \in Nat
      /\ \A i \in 1..Len(l) : m[i] = l[i] /\ l[i].parent \in Nat
  BY LogOK
<1> HIDE DEF m
<1>2. SUFFICES ASSUME NEW n \in Ancestors(l, c),
                      NEW S \in SUBSET (0..Len(m)), c \in S, Closed(m, S)
               PROVE  n \in S
  BY <1>1 DEF Ancestors, m
<1> DEFINE T == S \cap (0..Len(l))
<1>3. c \in T
  BY <1>1, <1>2
<1>4. Closed(l, T)
  <2> SUFFICES ASSUME NEW k \in T \ {0} PROVE l[k].parent \in T
    BY DEF Closed
  <2>1. k \in 1..Len(l)
    BY <1>1
  <2>2. m[k].parent \in S
    BY <1>2 DEF Closed
  <2> QED
    BY <2>1, <2>2, <1>1
<1>5. n \in T
  BY <1>3, <1>4 DEF Ancestors
<1> QED
  BY <1>5

\* A new commit has the ancestors of its parent.
LEMMA AncestorsOfParent ==
    ASSUME NEW l \in Seq(Commits), NEW new \in Commits, new.parent \in 1..Len(l),
           \A i \in DOMAIN l : l[i].parent < i
    PROVE  Ancestors(l, new.parent) \subseteq Ancestors(Append(l, new), Len(l) + 1)
<1> DEFINE m == Append(l, new)
<1>1. /\ Len(m) = Len(l) + 1 /\ Len(l) \in Nat /\ m[Len(l) + 1] = new
      /\ DOMAIN l = 1..Len(l) /\ DOMAIN m = 1..(Len(l) + 1)
  OBVIOUS
<1>2. Ancestors(l, new.parent) \subseteq Ancestors(m, new.parent)
  BY AncestorsGrow
<1> HIDE DEF m
<1>3. SUFFICES ASSUME NEW n \in Ancestors(m, new.parent),
                      NEW S \in SUBSET (0..Len(m)), Len(l) + 1 \in S, Closed(m, S)
               PROVE  n \in S
  BY <1>1, <1>2 DEF Ancestors, m
<1>4. new.parent \in S
  BY <1>1, <1>3 DEF Closed
<1> QED
  BY <1>3, <1>4 DEF Ancestors

\* A commit is an ancestor of itself.
LEMMA OwnAncestor ==
    ASSUME NEW l, NEW c \in DOMAIN l
    PROVE  c \in Ancestors(l, c)
BY DEF Ancestors

\* A branch that does not exist has no commits.
LEMMA NoAncestors ==
    ASSUME NEW l \in Seq(Commits)
    PROVE  Ancestors(l, 0) = {}
<1>1. {0} \in SUBSET (0..Len(l)) /\ 0 \in {0} /\ Closed(l, {0})
  BY LogOK DEF Closed
<1>2. \A n \in DOMAIN l : n # 0
  BY LogOK
<1> QED
  BY <1>1, <1>2 DEF Ancestors

\* HEAD is a commit of the log, and has a tree.
LEMMA HeadOK ==
    ASSUME TypeOK, History
    PROVE  /\ branch[head] \in 1..Len(log)
           /\ log[branch[head]] \in Commits
           /\ HeadTree \in Trees
           /\ Len(log) \in Nat /\ DOMAIN log = 1..Len(log)
<1>1. branch[head] \in 1..Len(log)
  BY LogOK DEF TypeOK, History
<1> QED
  BY <1>1, LogOK DEF TypeOK, HeadTree

----------------------------------------------------------------------------
(* The steps *)

\* Steps that leave the repository and what is recorded as they are, such as
\* the checks, an abort, and the edits of agents.
LEMMA QuietInv ==
    ASSUME IInv, TypeOK', UNCHANGED <<log, branch, head, index>>,
           \A w \in Works : spec'[w].branch = spec[w].branch /\ spec'[w].commits = spec[w].commits,
           \A f \in Finalizers :
               \/ pc'[f] \in {"idle", "checked"} /\ (pc'[f] # "idle" => job'[f] \in Job)
               \/ pc'[f] = pc[f] /\ job'[f] = job[f]
    PROVE  IInv'
<1>1. History' /\ RecordedOnBranch' /\ OneWorkPerCommit'
  BY DEF IInv, History, RecordedOnBranch, OneWorkPerCommit
<1>2. \A f \in Finalizers : Holding(f)'
  BY DEF IInv, Holding, HeadTree
<1> QED
  BY <1>1, <1>2 DEF IInv

\* kerf finalize begins.
LEMMA BeginInv ==
    ASSUME IInv, NEW f \in Finalizers, NEW w \in Works, NEW b \in Branches, Begin(f, w, b)
    PROVE  IInv'
<1>1. job'[f] \in Job
  BY DEF Begin, Job, IInv, TypeOK, bench
<1>2. TypeOK'
  BY <1>1 DEF IInv, TypeOK, Begin, Goto, Points, bench, repo
<1> QED
  BY <1>1, <1>2, QuietInv DEF Begin, Goto, bench, repo, IInv, TypeOK

\* It refuses and ends.
LEMMA AbortInv ==
    ASSUME IInv, NEW f \in Finalizers, Abort(f)
    PROVE  IInv'
<1>1. TypeOK'
  BY DEF IInv, TypeOK, Abort, Points, bench, repo
<1> QED
  BY <1>1, QuietInv DEF Abort, bench, repo, IInv, TypeOK

\* The clean working tree is the tree of HEAD.
LEMMA PreFlightInv ==
    ASSUME IInv, NEW f \in Finalizers, PreFlight(f)
    PROVE  IInv'
<1>1. TypeOK'
  BY DEF IInv, TypeOK, PreFlight, Goto, Points, bench, repo
<1>2. History' /\ RecordedOnBranch' /\ OneWorkPerCommit'
  BY DEF PreFlight, bench, repo, IInv, History, RecordedOnBranch, OneWorkPerCommit
<1>3. \A g \in Finalizers : Holding(g)'
  BY DEF PreFlight, Goto, Clean, bench, repo, IInv, TypeOK, Holding, HeadTree
<1> QED
  BY <1>1, <1>2, <1>3 DEF IInv

\* The new branch is at HEAD, and checked out.
LEMMA CreateBranchInv ==
    ASSUME OneFinalizer, IInv, NEW f \in Finalizers, CreateBranch(f)
    PROVE  IInv'
<1>0. job[f] \in Job /\ job[f].branch \in Branches /\ branch[job[f].branch] = 0
  BY DEF IInv, Holding, CreateBranch, Goto, Job
<1>1. branch'[head'] = branch[head] /\ branch[head] \in 1..Len(log)
  BY <1>0, HeadOK DEF IInv, TypeOK, CreateBranch
<1>2. TypeOK'
  BY <1>0, <1>1 DEF IInv, TypeOK, CreateBranch, Goto, Points, bench
<1>3. History'
  BY <1>0, <1>1 DEF IInv, TypeOK, History, CreateBranch, bench
<1>4. \A g \in Finalizers : Holding(g)'
  <2>1. HeadTree' = HeadTree
    BY <1>1 DEF HeadTree, CreateBranch
  <2>2. Holding(f)'
    BY <1>0, <2>1 DEF IInv, TypeOK, Holding, CreateBranch, Goto, bench
  <2> QED
    BY <2>2 DEF OneFinalizer
<1>5. RecordedOnBranch'
  <2> SUFFICES ASSUME NEW w \in Works, spec[w].branch # None
               PROVE  branch'[spec[w].branch] = branch[spec[w].branch]
    BY DEF IInv, RecordedOnBranch, CreateBranch, bench
  <2>1. spec[w].branch \in Branches
    BY DEF IInv, TypeOK, SpecData
  <2>2. Ancestors(log, branch[spec[w].branch]) # {}
    BY DEF IInv, RecordedOnBranch
  <2>3. branch[spec[w].branch] # 0
    BY <2>2, NoAncestors DEF IInv, TypeOK
  <2> QED
    BY <1>0, <2>1, <2>3 DEF IInv, TypeOK, CreateBranch
<1>6. OneWorkPerCommit'
  BY DEF OneWorkPerCommit, CreateBranch, IInv
<1> QED
  BY <1>2, <1>3, <1>4, <1>5, <1>6 DEF IInv

\* What a copy leaves is a tree.
LEMMA OverlayType ==
    ASSUME FinalizeAssumption, TypeOK, NEW w \in Works, NEW files \in SUBSET Files,
           NEW drafts \in SUBSET Files
    PROVE  Overlay(w, files, drafts) \in Trees
BY DEF Overlay, Trees, Paths, TypeOK

\* Files are written beside the index.
LEMMA CopyInv ==
    ASSUME FinalizeAssumption, IInv, NEW f \in Finalizers, CopyArtifacts(f)
    PROVE  IInv'
<1>0. job[f].work \in Works
  BY DEF IInv, Holding, CopyArtifacts, Goto, Job
<1>1. tree' \in Trees
  <2>1. artifacts[job[f].work] \in SUBSET Files /\ Drafts[job[f].work] \in SUBSET Files
    BY <1>0 DEF IInv, TypeOK, FinalizeAssumption
  <2> QED
    BY <1>0, <2>1, OverlayType DEF CopyArtifacts, IInv
<1>2. TypeOK'
  BY <1>1 DEF IInv, TypeOK, CopyArtifacts, Goto, Points, bench
<1>3. History' /\ RecordedOnBranch' /\ OneWorkPerCommit'
  BY DEF CopyArtifacts, bench, IInv, History, RecordedOnBranch, OneWorkPerCommit
<1>4. \A g \in Finalizers : Holding(g)'
  BY DEF CopyArtifacts, Goto, bench, IInv, TypeOK, Holding, HeadTree
<1> QED
  BY <1>2, <1>3, <1>4 DEF IInv

\* A copy that fails half way.
LEMMA CopyPartlyInv ==
    ASSUME FinalizeAssumption, IInv, NEW f \in Finalizers, CopyPartly(f)
    PROVE  IInv'
<1>0. job[f].work \in Works
  BY DEF IInv, Holding, CopyPartly, Goto, Job
<1>1. tree' \in Trees
  <2>1. artifacts[job[f].work] \in SUBSET Files /\ Drafts[job[f].work] \in SUBSET Files
    BY <1>0 DEF IInv, TypeOK, FinalizeAssumption
  <2>2. \A files \in SUBSET artifacts[job[f].work], drafts \in SUBSET Drafts[job[f].work] :
          Overlay(job[f].work, files, drafts) \in Trees
    BY <1>0, <2>1, OverlayType DEF IInv
  <2> QED
    BY <2>2 DEF CopyPartly
<1>2. TypeOK'
  BY <1>1 DEF IInv, TypeOK, CopyPartly, Goto, Points, bench
<1> QED
  BY <1>2, QuietInv DEF CopyPartly, Goto, bench, IInv, TypeOK

\* The index then differs from HEAD in the mirror of the work, and the drafts.
LEMMA StageInv ==
    ASSUME FinalizeAssumption, OneFinalizer, IInv, NEW f \in Finalizers, Stage(f)
    PROVE  IInv'
<1>0. job[f] \in Job /\ job[f].work \in Works /\ index = HeadTree /\ head = job[f].branch
  BY DEF IInv, Holding, Stage, Goto, Job
<1>1. TypeOK'
  <2>1. index' \in Trees
    BY <1>0 DEF Stage, IInv, TypeOK, Trees, Paths
  <2> QED
    BY <2>1 DEF IInv, TypeOK, Stage, Goto, Points, bench
<1>2. History' /\ RecordedOnBranch' /\ OneWorkPerCommit'
  BY DEF Stage, bench, IInv, History, RecordedOnBranch, OneWorkPerCommit
<1>3. /\ \A v \in Works \ {job[f].work} : index'[v] = HeadTree[v]
      /\ index'[job[f].work] # {}
  BY <1>0 DEF Stage, IInv, TypeOK, Trees, Paths, FinalizeAssumption
<1>4. HeadTree' = HeadTree
  BY DEF HeadTree, Stage
<1>5. Holding(f)'
  BY <1>0, <1>3, <1>4 DEF Stage, Goto, bench, IInv, TypeOK, Holding
<1> QED
  BY <1>1, <1>2, <1>5 DEF IInv, OneFinalizer

\* The commit differs from its parent, the HEAD before it, in one work.
LEMMA CommitInv ==
    ASSUME FinalizeAssumption, OneFinalizer, IInv, NEW f \in Finalizers, Commit(f)
    PROVE  IInv'
<1> DEFINE new == [parent |-> branch[head], tree |-> index]
           j == job[f]
<1>0. j \in Job /\ j.work \in Works /\ head = j.branch
      /\ \A v \in Works \ {j.work} : index[v] = HeadTree[v]
      /\ index[j.work] # {}
  BY DEF IInv, Holding, Commit, Goto, Job
<1>1. /\ branch[head] \in 1..Len(log) /\ Len(log) \in Nat /\ DOMAIN log = 1..Len(log)
      /\ new \in Commits /\ new.parent = branch[head] /\ new.tree = index
  BY HeadOK DEF IInv, TypeOK, Commits
<1>2. /\ log' = Append(log, new) /\ log' \in Seq(Commits)
      /\ Len(log') = Len(log) + 1 /\ DOMAIN log' = 1..(Len(log) + 1)
      /\ log'[Len(log) + 1] = new
      /\ \A i \in 1..Len(log) : log'[i] = log[i]
  BY <1>1 DEF Commit, IInv, TypeOK
<1>3. branch' = [branch EXCEPT ![head] = Len(log) + 1] /\ head' = head
  BY DEF Commit
<1> HIDE DEF new
<1>4. TypeOK'
  BY <1>1, <1>2, <1>3 DEF IInv, TypeOK, Commit, Goto, Points, bench
<1>5. History'
  <2>1. \A i \in DOMAIN log' : log'[i].parent < i
    BY <1>1, <1>2 DEF IInv, History
  <2>2. \A i \in 2..Len(log') : log'[i].parent # 0
    BY <1>1, <1>2 DEF IInv, History
  <2>3. \A b \in Branches : branch'[b] <= Len(log')
    BY <1>1, <1>2, <1>3 DEF IInv, TypeOK, History
  <2>4. branch'[head'] # 0
    BY <1>1, <1>3 DEF IInv, TypeOK
  <2> QED
    BY <2>1, <2>2, <2>3, <2>4 DEF History
<1>6. Holding(f)'
  <2>1. HeadTree' = index
    BY <1>1, <1>2, <1>3 DEF HeadTree, IInv, TypeOK
  <2> QED
    BY <1>0, <2>1 DEF Commit, Goto, bench, IInv, TypeOK, Holding
<1>7. RecordedOnBranch'
  <2> SUFFICES ASSUME NEW w \in Works, spec[w].branch # None
               PROVE  \E c \in Ancestors(log', branch'[spec[w].branch]) :
                         /\ log'[c].tree[w] # {}
                         /\ Last(spec[w].commits) \in {c, Unknown}
    BY DEF RecordedOnBranch, Commit, bench
  <2> DEFINE b == spec[w].branch
  <2>1. PICK c \in Ancestors(log, branch[b]) :
               /\ log[c].tree[w] # {}
               /\ Last(spec[w].commits) \in {c, Unknown}
    BY DEF IInv, RecordedOnBranch
  <2>2. \A i \in DOMAIN log : log[i].parent < i
    BY DEF IInv, History
  <2>3. log \in Seq(Commits) /\ b \in Branches
    BY DEF IInv, TypeOK, SpecData
  <2>4. c \in 1..Len(log) /\ branch[b] \in 1..Len(log)
    <3>1. branch[b] # 0
      BY <2>1, <2>3, NoAncestors
    <3> QED
      BY <1>1, <2>1, <2>3, <3>1 DEF IInv, TypeOK, History, Ancestors
  <2>5. c \in Ancestors(log', branch'[b])
    <3>1. CASE b = head
      <4>1. branch'[b] = Len(log) + 1
        BY <1>3, <2>3, <3>1 DEF IInv, TypeOK
      <4>2. Ancestors(log, branch[b]) \subseteq Ancestors(log', Len(log) + 1)
        BY <1>1, <1>2, <2>2, <2>3, <3>1, AncestorsOfParent
      <4> QED
        BY <2>1, <4>1, <4>2
    <3>2. CASE b # head
      <4>1. branch'[b] = branch[b]
        BY <1>3, <2>3, <3>2 DEF IInv, TypeOK
      <4>2. Ancestors(log, branch[b]) \subseteq Ancestors(log', branch[b])
        BY <1>1, <1>2, <2>2, <2>3, <2>4, AncestorsGrow
      <4> QED
        BY <2>1, <4>1, <4>2
    <3> QED
      BY <3>1, <3>2
  <2>6. log'[c] = log[c]
    BY <1>2, <2>4
  <2> QED
    BY <2>1, <2>5, <2>6
<1>8. OneWorkPerCommit'
  <2> SUFFICES ASSUME NEW i \in 2..Len(log'), NEW w \in Works, NEW v \in Works,
                      log'[i].tree[w] # log'[log'[i].parent].tree[w],
                      log'[i].tree[v] # log'[log'[i].parent].tree[v]
               PROVE  w = v
    BY DEF OneWorkPerCommit
  <2>1. CASE i \in 2..Len(log)
    <3>1. log[i].parent \in 1..Len(log)
      <4>1. log[i].parent \in Nat /\ log[i].parent # 0 /\ log[i].parent < i
        BY <1>1, <2>1, LogOK DEF IInv, TypeOK, History
      <4> QED
        BY <1>1, <2>1, <4>1
    <3> QED
      BY <1>1, <1>2, <2>1, <3>1 DEF IInv, OneWorkPerCommit
  <2>2. CASE i = Len(log) + 1
    <3>1. log'[i].tree = index /\ log'[log'[i].parent].tree = HeadTree
      BY <1>1, <1>2, <2>2 DEF HeadTree
    <3> QED
      BY <1>0, <3>1
  <2> QED
    BY <1>1, <1>2, <2>1, <2>2
<1> QED
  BY <1>4, <1>5, <1>6, <1>7, <1>8 DEF IInv, OneFinalizer

\* The commit that is recorded is the one the work's branch is at, or unknown.
LEMMA RecordInv ==
    ASSUME FinalizeAssumption, IInv, NEW f \in Finalizers, Record(f)
    PROVE  IInv'
<1> DEFINE j == job[f]
<1>0. j \in Job /\ j.work \in Works /\ j.branch \in Branches /\ head = j.branch
      /\ j.copy.commits \in Seq(Nat) /\ HeadTree[j.work] # {}
  BY DEF IInv, Holding, Record, Goto, Job, SpecData
<1>1. branch[head] \in 1..Len(log) /\ DOMAIN log = 1..Len(log)
  BY HeadOK DEF IInv
<1>2. PICK hash \in {branch[head], Unknown} :
        spec' = [spec EXCEPT ![j.work] =
                    [status |-> "finalized", branch |-> j.branch,
                     commits |-> Append(j.copy.commits, hash)]]
  BY DEF Record
<1> DEFINE record == [status |-> "finalized", branch |-> j.branch,
                      commits |-> Append(j.copy.commits, hash)]
<1>3. /\ record \in SpecData
      /\ Last(record.commits) = hash /\ record.branch = head
  <2>1. hash \in Nat
    BY <1>1, <1>2 DEF Unknown
  <2>2. record.commits \in Seq(Nat) /\ Last(record.commits) = hash
    BY <1>0, <2>1 DEF Last
  <2> QED
    BY <1>0, <2>2 DEF SpecData, Statuses
<1>4. spec' = [spec EXCEPT ![j.work] = record]
  BY <1>2
<1> HIDE DEF record
<1>5. TypeOK'
  BY <1>0, <1>3, <1>4 DEF IInv, TypeOK, Record, Goto, Points, repo
<1>6. History' /\ OneWorkPerCommit'
  BY DEF Record, repo, IInv, History, OneWorkPerCommit
<1>7. \A g \in Finalizers : Holding(g)'
  BY DEF Record, Goto, repo, IInv, TypeOK, Holding, HeadTree
<1>8. RecordedOnBranch'
  <2> SUFFICES ASSUME NEW w \in Works, spec'[w].branch # None
               PROVE  \E c \in Ancestors(log, branch[spec'[w].branch]) :
                         /\ log[c].tree[w] # {}
                         /\ Last(spec'[w].commits) \in {c, Unknown}
    BY DEF RecordedOnBranch, Record, repo
  <2>1. CASE w = j.work
    <3>1. spec'[w] = record
      BY <1>0, <1>4, <2>1 DEF IInv, TypeOK
    <3>2. branch[head] \in Ancestors(log, branch[head]) /\ log[branch[head]].tree[w] # {}
      BY <1>0, <1>1, <2>1, OwnAncestor DEF HeadTree
    <3> QED
      BY <1>2, <1>3, <3>1, <3>2
  <2>2. CASE w # j.work
    BY <1>4, <2>2 DEF IInv, TypeOK, RecordedOnBranch
  <2> QED
    BY <2>1, <2>2
<1> QED
  BY <1>5, <1>6, <1>7, <1>8 DEF IInv

\* The status goes to finalized.
LEMMA SetStatusInv ==
    ASSUME IInv, NEW w \in Works, NEW st \in {"working", "ready"}, SetStatus(w, st)
    PROVE  IInv'
<1>1. TypeOK'
  <2>1. [spec[w] EXCEPT !.status = st] \in SpecData
    BY DEF IInv, TypeOK, SpecData, Statuses
  <2> QED
    BY <2>1 DEF SetStatus, IInv, TypeOK, repo
<1>2. \A v \in Works : spec'[v].branch = spec[v].branch /\ spec'[v].commits = spec[v].commits
  BY DEF SetStatus, IInv, TypeOK, SpecData
<1> QED
  BY <1>1, <1>2, QuietInv DEF SetStatus, repo

\* Artifacts are edited on the bench.
LEMMA EditArtifactsInv ==
    ASSUME IInv, NEW w \in Works, NEW x \in Files, EditArtifacts(w, x)
    PROVE  IInv'
<1>1. TypeOK'
  BY DEF EditArtifacts, SymDiff, IInv, TypeOK, repo
<1> QED
  BY <1>1, QuietInv DEF EditArtifacts, repo

\* No finalizer runs when somebody switches branches or discards changes.
LEMMA RestInv ==
    ASSUME IInv, Quiet, TypeOK', UNCHANGED <<bench, log, branch, pc, job>>, branch[head'] # 0
    PROVE  IInv'
<1>1. History' /\ RecordedOnBranch' /\ OneWorkPerCommit'
  BY DEF bench, IInv, History, RecordedOnBranch, OneWorkPerCommit
<1>2. \A f \in Finalizers : Holding(f)'
  BY DEF Quiet, Holding
<1> QED
  BY <1>1, <1>2 DEF IInv

\* Somebody checks out another branch.
LEMMA SwitchBranchInv ==
    ASSUME FinalizeAssumption, IInv, NEW b \in Branches, SwitchBranch(b)
    PROVE  IInv'
<1>1. log[branch[b]].tree \in Trees
  <2>1. branch[b] \in 1..Len(log)
    BY LogOK DEF SwitchBranch, IInv, TypeOK, History
  <2> QED
    BY <2>1, LogOK DEF IInv, TypeOK
<1>2. TypeOK'
  BY <1>1 DEF SwitchBranch, IInv, TypeOK, bench, Trees, Untracked
<1> QED
  BY <1>2, RestInv DEF SwitchBranch

\* Somebody discards changes of the tree.
LEMMA DiscardInv ==
    ASSUME IInv, DiscardChanges
    PROVE  IInv'
<1>1. TypeOK'
  BY HeadOK DEF DiscardChanges, IInv, TypeOK, bench
<1> QED
  BY <1>1, RestInv DEF DiscardChanges, IInv, History

----------------------------------------------------------------------------
\* Nothing is committed at first.
LEMMA InitInv ==
    ASSUME FinalizeAssumption, Init
    PROVE  IInv
<1>1. TypeOK
  <2>1. [p \in Paths |-> {}] \in Trees
    BY DEF Trees
  <2>2. log \in Seq(Commits)
    BY <2>1 DEF Init, Commits
  <2>3. artifacts \in [Works -> SUBSET Files]
    BY DEF Init, FinalizeAssumption
  <2>4. spec \in [Works -> SpecData]
    BY DEF Init, SpecData, Statuses
  <2> QED
    BY <2>1, <2>2, <2>3, <2>4 DEF Init, TypeOK, FinalizeAssumption, Points
<1>2. History
  BY DEF Init, History, FinalizeAssumption
<1>3. RecordedOnBranch /\ OneWorkPerCommit
  BY DEF Init, RecordedOnBranch, OneWorkPerCommit
<1> QED
  BY <1>1, <1>2, <1>3 DEF Init, IInv, Holding

\* Every step keeps the invariant.
LEMMA NextInv ==
    ASSUME FinalizeAssumption, OneFinalizer, IInv, [Next]_vars
    PROVE  IInv'
<1>1. ASSUME NEW f \in Finalizers, FinalizeStep(f) PROVE IInv'
  <2>1. ASSUME NEW w \in Works, NEW b \in Branches, Begin(f, w, b) PROVE IInv'
    BY <2>1, BeginInv
  <2> QED
    BY <1>1, <2>1, PreFlightInv, CreateBranchInv, CopyInv, CopyPartlyInv, StageInv,
       CommitInv, RecordInv, AbortInv DEF FinalizeStep
<1>2. CASE Surroundings
  BY <1>2, SetStatusInv, EditArtifactsInv, SwitchBranchInv, DiscardInv DEF Surroundings
<1>3. CASE UNCHANGED vars
  <2>1. TypeOK'
    BY <1>3 DEF vars, IInv, TypeOK
  <2> QED
    BY <1>3, <2>1, QuietInv DEF vars
<1> QED
  BY <1>1, <1>2, <1>3 DEF Next

(***************************************************************************)
(* The inductive invariant holds in every state in which kerf finalize and *)
(* the people around it can leave the repository.                          *)
(***************************************************************************)
THEOREM Invariance ==
    ASSUME OneFinalizer
    PROVE  FinalizeSpec => []IInv
<1>1. Init => IInv
  BY InitInv, FinalizeAssumption
<1>2. IInv /\ [Next]_vars => IInv'
  BY NextInv, FinalizeAssumption
<1> QED
  BY <1>1, <1>2, PTL DEF FinalizeSpec

(***************************************************************************)
(* implementation.branch and implementation.commits belong together: in    *)
(* every state the branch a finalized work records holds a commit with its *)
(* mirror, the last one the work records unless that says "unknown"        *)
(* (cmd/finalize.go, the rev-parse that follows the commit).               *)
(***************************************************************************)
THEOREM CommitIsOnBranch ==
    ASSUME OneFinalizer
    PROVE  FinalizeSpec => []RecordedOnBranch
<1>1. IInv => RecordedOnBranch
  BY DEF IInv
<1> QED
  BY <1>1, Invariance, PTL

(***************************************************************************)
(* No commit of kerf finalize changes the mirror of two works, whatever    *)
(* earlier finalizes that failed have left in the working tree.            *)
(***************************************************************************)
THEOREM CommitsAreSeparate ==
    ASSUME OneFinalizer
    PROVE  FinalizeSpec => []OneWorkPerCommit
<1>1. IInv => OneWorkPerCommit
  BY DEF IInv
<1> QED
  BY <1>1, Invariance, PTL
=============================================================================
