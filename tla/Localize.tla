------------------------------ MODULE Localize ------------------------------
(***************************************************************************)
(* kerf localize (cmd/localize.go) moves a project from the bench to its   *)
(* repository one rename at a time, replaces the bench directory by a link *)
(* and declares `storage: local`; kerf new (cmd/new.go) may run meanwhile. *)
(* Each rename, removal, link and write may fail, and localize then moves  *)
(* back what it moved; a command may also be killed between two steps.     *)
(* Of a work only its directory's place is modelled.                       *)
(***************************************************************************)
EXTENDS Naturals, FiniteSets

CONSTANTS
    Works,      \* codenames
    Localizers, \* kerf localize processes
    Creators,   \* kerf new processes
    None,       \* no work
    MaxFaults   \* bound on the operations that fail during one localize

Config == {"project.yaml", "areas.yaml"}

ASSUME LocalizeAssumption ==
    /\ Config \cap Works = {}
    /\ Localizers \cap Creators = {}
    /\ None \notin Works
    /\ MaxFaults \in Nat

VARIABLES
    place,      \* what ~/.kerf/projects/<id> is
    benchHas,   \* the entries of that directory
    worksHas,   \* the entries of <repo>/.kerf/works
    kerfHas,    \* project.yaml and areas.yaml of <repo>/.kerf
    storage,    \* what <repo>/.kerf/config.yaml declares
    pc, job,    \* the control point of each process and what it holds
    disturbed   \* whether a command was killed or ran beside another one, or
                \* a step of a roll-back failed

vars == <<place, benchHas, worksHas, kerfHas, storage, pc, job, disturbed>>
files == <<place, benchHas, worksHas, kerfHas, storage>>

Entries == Works \cup Config
Procs == Localizers \cup Creators
NoJob == [todo |-> {}, found |-> {}, moved |-> {}, faults |-> 0,
          work |-> None, mode |-> "bench"]

Idle(p) == pc[p] = "idle"
Localizing == {p \in Localizers : ~Idle(p)}

\* Resolver.WorksDir, listed: the path on the bench follows the link.
AtBench == CASE place = "directory" -> benchHas
             [] place = "link"      -> worksHas
             [] place = "missing"   -> {}
WorksDir(mode) == IF mode = "local" THEN worksHas ELSE AtBench
ProjectConfigFound ==
    "project.yaml" \in (IF storage = "local" THEN kerfHas ELSE AtBench)
Held == (benchHas \cup worksHas) \cap Works

----------------------------------------------------------------------------
(* A project on the bench, or the clone of a repository localized elsewhere. *)
Init ==
    /\ \/ /\ storage = "bench" /\ kerfHas = {} /\ worksHas = {}
          /\ benchHas \in SUBSET Entries
          /\ place = IF benchHas = {} THEN "missing" ELSE "directory"
       \/ /\ storage = "local" /\ place = "missing" /\ benchHas = {}
          /\ worksHas \in SUBSET Works
          /\ kerfHas \in SUBSET Config
    /\ pc = [p \in Procs |-> "idle"]
    /\ job = [p \in Procs |-> NoJob]
    /\ disturbed = FALSE

Begin(p, at, j) ==
    /\ Idle(p)
    /\ pc' = [pc EXCEPT ![p] = at]
    /\ job' = [job EXCEPT ![p] = j]
    /\ disturbed' = (disturbed \/ \E q \in Procs : ~Idle(q))

GoTo(p, at) == pc' = [pc EXCEPT ![p] = at]
Exit(p) == GoTo(p, "idle") /\ job' = [job EXCEPT ![p] = NoJob] /\ UNCHANGED disturbed

\* An operation fails, and localize starts to roll back.
MayFail(p) == job[p].faults < MaxFaults
Charged(p) == [job EXCEPT ![p].faults = @ + 1]
GiveUp(p) == GoTo(p, "unlink")

----------------------------------------------------------------------------
(* kerf localize *)

\* Not local, a directory or nothing on the bench, nothing in .kerf/works.
Localizable == storage = "bench" /\ place # "link" /\ worksHas = {}

\* kerf localize --check: what it says would be moved.
Planned == IF Localizable THEN AtBench ELSE {}

LocalizeBegin(p) ==
    /\ Localizable
    /\ Begin(p, "list", NoJob)
    /\ UNCHANGED files

\* The entries are moved in the order of their names; here in any order.
ListBench(p) ==
    /\ pc[p] = "list"
    /\ GoTo(p, "move")
    /\ LET listed == AtBench \ {"areas.yaml"} IN
       job' = [job EXCEPT ![p].todo = listed, ![p].found = listed]
    /\ UNCHANGED <<files, disturbed>>

\* os.Rename from the bench path into .kerf/works, or .kerf for project.yaml;
\* through a link, a work's two paths are the same and nothing changes.
CanMove(e) == e \in AtBench /\ (place = "directory" => e \notin worksHas)
Rename(e) ==
    /\ benchHas' = benchHas \ {e}
    /\ worksHas' = IF e \in Works THEN worksHas \cup {e} ELSE worksHas \ {e}
    /\ kerfHas' = IF e \in Works THEN kerfHas ELSE kerfHas \cup {e}
    /\ UNCHANGED <<place, storage>>

MoveEntry(p, e) ==
    /\ pc[p] = "move" /\ e \in job[p].todo
    /\ CanMove(e) /\ Rename(e)
    /\ job' = [job EXCEPT ![p].todo = @ \ {e}, ![p].moved = @ \cup {e}]
    /\ UNCHANGED <<pc, disturbed>>

\* Mutant of MoveFails: an entry that cannot be moved is skipped.
MoveFailsIgnored(p, e) ==
    /\ pc[p] = "move" /\ e \in job[p].todo
    /\ MayFail(p)
    /\ job' = [Charged(p) EXCEPT ![p].todo = @ \ {e}]
    /\ UNCHANGED <<files, pc, disturbed>>

MoveFails(p, e) ==
    /\ pc[p] = "move" /\ e \in job[p].todo
    /\ \/ ~CanMove(e) /\ UNCHANGED job
       \/ MayFail(p) /\ job' = Charged(p)
    /\ GiveUp(p)
    /\ UNCHANGED <<files, disturbed>>

\* os.RemoveAll takes whatever is in the directory by now.
RemoveBench(p) ==
    /\ pc[p] = "move" /\ job[p].todo = {}
    /\ place' = "missing" /\ benchHas' = {}
    /\ GoTo(p, "link")
    /\ UNCHANGED <<worksHas, kerfHas, storage, job, disturbed>>

\* It may remove some entries before it fails.
RemoveFails(p) ==
    /\ pc[p] = "move" /\ job[p].todo = {}
    /\ MayFail(p) /\ job' = Charged(p)
    /\ benchHas' \in SUBSET benchHas
    /\ GiveUp(p)
    /\ UNCHANGED <<place, worksHas, kerfHas, storage, disturbed>>

MakeLink(p) ==
    /\ pc[p] = "link"
    /\ \/ /\ place # "directory"
          /\ place' = "link"
          /\ GoTo(p, "config") /\ UNCHANGED job
       \/ /\ place = "directory"
          /\ GiveUp(p) /\ UNCHANGED <<place, job>>
       \/ /\ MayFail(p) /\ job' = Charged(p)
          /\ GiveUp(p) /\ UNCHANGED place
    /\ UNCHANGED <<benchHas, worksHas, kerfHas, storage, disturbed>>

DeclareLocal(p) ==
    /\ pc[p] = "config"
    /\ storage' = "local"
    /\ Exit(p)
    /\ UNCHANGED <<place, benchHas, worksHas, kerfHas>>

DeclareFails(p) ==
    /\ pc[p] = "config"
    /\ MayFail(p) /\ job' = Charged(p)
    /\ GiveUp(p)
    /\ UNCHANGED <<files, disturbed>>

----------------------------------------------------------------------------
(* rollbackLocalize: every error is ignored. *)

UndoLink(p) ==
    /\ pc[p] = "unlink"
    /\ \/ place' = "directory" /\ UNCHANGED job
       \/ /\ place # "directory"
          /\ MayFail(p) /\ job' = Charged(p)
          /\ place' \in {place, "missing"}
    /\ disturbed' = (disturbed \/ place' # "directory")
    /\ GoTo(p, "undo")
    /\ UNCHANGED <<benchHas, worksHas, kerfHas, storage>>

\* Through a link that could not be removed, works stay where they are and
\* project.yaml ends among them.
MoveBack(e) ==
    /\ place # "missing"
    /\ benchHas' = IF place = "directory" THEN benchHas \cup {e} ELSE benchHas
    /\ worksHas' = IF place = "directory" THEN worksHas \ {e} ELSE worksHas \cup {e}
    /\ kerfHas' = kerfHas \ {e}
    /\ UNCHANGED <<place, storage>>

\* Mutant of UndoMove: project.yaml is forgotten.
UndoWorksOnly(p, e) ==
    /\ pc[p] = "undo" /\ e \in job[p].moved
    /\ IF e \in Works THEN MoveBack(e) ELSE UNCHANGED files
    /\ job' = [job EXCEPT ![p].moved = @ \ {e}]
    /\ UNCHANGED <<pc, disturbed>>

UndoMove(p, e) ==
    /\ pc[p] = "undo" /\ e \in job[p].moved
    /\ MoveBack(e)
    /\ job' = [job EXCEPT ![p].moved = @ \ {e}]
    /\ UNCHANGED <<pc, disturbed>>

\* It also fails where kerf new has made a directory of that name meanwhile.
UndoMoveFails(p, e) ==
    /\ pc[p] = "undo" /\ e \in job[p].moved
    /\ \/ MayFail(p) /\ job' = [Charged(p) EXCEPT ![p].moved = @ \ {e}]
       \/ /\ place = "missing" \/ e \in benchHas \cap Works
          /\ job' = [job EXCEPT ![p].moved = @ \ {e}]
    /\ disturbed' = TRUE
    /\ UNCHANGED <<files, pc>>

\* Mutant of Aborted: not everything has been moved back.
AbortedEarly(p) ==
    /\ pc[p] = "undo"
    /\ Exit(p)
    /\ UNCHANGED files

Aborted(p) ==
    /\ pc[p] = "undo" /\ job[p].moved = {}
    /\ Exit(p)
    /\ UNCHANGED files

----------------------------------------------------------------------------
(* kerf new *)

\* ensureLocalSymlink: repairs a missing link, refuses a directory.
NewBegin(p, w) ==
    /\ storage = "local" => place # "directory"
    /\ w \notin WorksDir(storage)
    /\ Begin(p, "create", [NoJob EXCEPT !.work = w, !.mode = storage])
    /\ place' = IF storage = "local" THEN "link" ELSE place
    /\ UNCHANGED <<benchHas, worksHas, kerfHas, storage>>

\* os.MkdirAll of the path resolved before, through a link if there is one now.
CreateWork(p) ==
    /\ pc[p] = "create"
    /\ IF job[p].mode = "local" \/ place = "link"
       THEN worksHas' = worksHas \cup {job[p].work} /\ UNCHANGED <<place, benchHas>>
       ELSE /\ place' = "directory"
            /\ benchHas' = benchHas \cup {job[p].work}
            /\ UNCHANGED worksHas
    /\ Exit(p)
    /\ UNCHANGED <<kerfHas, storage>>

Kill(p) ==
    /\ ~Idle(p)
    /\ GoTo(p, "idle") /\ job' = [job EXCEPT ![p] = NoJob]
    /\ disturbed' = TRUE
    /\ UNCHANGED files

Next ==
    \/ \E p \in Localizers :
        \/ LocalizeBegin(p) \/ ListBench(p)
        \/ \E e \in Entries : MoveEntry(p, e) \/ MoveFails(p, e)
        \/ RemoveBench(p) \/ RemoveFails(p)
        \/ MakeLink(p) \/ DeclareLocal(p) \/ DeclareFails(p)
        \/ UndoLink(p) \/ \E e \in Entries : UndoMove(p, e) \/ UndoMoveFails(p, e)
        \/ Aborted(p)
    \/ \E p \in Creators : \E w \in Works : NewBegin(p, w)
    \/ \E p \in Creators : CreateWork(p)
    \/ \E p \in Procs : Kill(p)

LocalizeSpec == Init /\ [][Next]_vars

----------------------------------------------------------------------------
(***************************************************************************)
(* A work that a localize found on the bench is never lost, whichever step *)
(* fails, is killed or meets a kerf new: a work may disappear only with    *)
(* the directory it was created in after that directory had been listed.   *)
(***************************************************************************)
ListedWorksKept ==
    [][\A w \in Held \ Held' :
        \E p \in Localizing : pc[p] = "move" /\ w \notin job[p].found]_vars

(***************************************************************************)
(* Commands that run one after the other and are not killed leave every    *)
(* work, and project.yaml wherever it is, at the path the Resolver gives:  *)
(* after a localize that succeeded, and after one whose roll-back worked.  *)
(***************************************************************************)
EverythingVisible ==
    Localizing = {} /\ ~disturbed =>
        /\ Held \subseteq WorksDir(storage)
        /\ "project.yaml" \in benchHas \cup worksHas \cup kerfHas => ProjectConfigFound

(***************************************************************************)
(* "Localization aborted - no changes made" (cmd/localize.go): the same    *)
(* command can be run again, and its preview lists all that had been       *)
(* listed.                                                                 *)
(***************************************************************************)
AbortRestores ==
    [][\A p \in Localizing :
        pc[p] = "undo" /\ pc'[p] = "idle" /\ ~disturbed' =>
            /\ Localizable /\ place = "directory"
            /\ job[p].found \subseteq Planned]_vars

(***************************************************************************)
(* "Preview: would localize project" (kerf localize --check): an           *)
(* undisturbed localize lists what the preview shows, areas.yaml excepted, *)
(* which the preview promises and localize leaves (AreasKept), and has     *)
(* moved all of it before it declares the storage local.                   *)
(***************************************************************************)
PreviewIsTrue ==
    [][\A p \in Localizing :
        /\ pc[p] = "list" /\ pc'[p] = "move" /\ ~disturbed' =>
            job'[p].found = Planned \ {"areas.yaml"}
        /\ pc[p] = "config" /\ ~disturbed =>
            job[p].found \subseteq worksHas \cup kerfHas]_vars

(***************************************************************************)
(* specs/commands.md, kerf localize, step 8: areas.yaml is moved into the  *)
(* repository like project.yaml.  A step of a command may move the file    *)
(* from one directory to another; it does not make the last copy vanish.   *)
(***************************************************************************)
AreasKept ==
    [][LET all == benchHas \cup worksHas \cup kerfHas IN
       "areas.yaml" \in all => "areas.yaml" \in all']_vars
=============================================================================
