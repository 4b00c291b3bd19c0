------------------------------- MODULE Doctor -------------------------------
(***************************************************************************)
(* kerf doctor (cmd/doctor.go, internal/doctor): the detectors that look   *)
(* at where a project's files are, asked in every state that kerf localize *)
(* and kerf new can leave behind.  The report changes nothing, so each     *)
(* detector is a set of targets, and it is green when the set is empty.    *)
(***************************************************************************)
EXTENDS Localize

CONSTANT Archived   \* the codenames in ~/.kerf/archive/<id>

ASSUME DoctorAssumption == Archived \subseteq Works

----------------------------------------------------------------------------
(* storage-drift *)

\* listDirSet of a path that may be a link: what is a directory there.
Canonical == WorksDir(storage) \cap Works

\* Mutant of Elsewhere: the healthy link is listed too.
ElsewhereListsLink ==
    (IF storage = "local" THEN AtBench ELSE worksHas) \cap Works

\* The directory of the other mode; a bench path that is the link to the
\* canonical directory is not listed.
Elsewhere ==
    CASE storage = "bench" -> worksHas \cap Works
      [] storage = "local" -> IF place = "link" THEN {} ELSE AtBench \cap Works

Doubles == Elsewhere \cap Canonical

\* Mutant of WrongLocation: it looks only for works left on the bench.
WrongLocationLocalOnly ==
    IF storage = "local" THEN Elsewhere \ Canonical ELSE {}

WrongLocation == Elsewhere \ Canonical

\* inspectBenchSymlink leaves a missing link to the next detector; a link of
\* this program always points at the directory of the works.
BenchLinkBroken == storage = "local" /\ place = "directory"

\* Both paths are followed: through the link the bench path is .kerf/works.
DoubleConfigs == Config \cap AtBench \cap kerfHas

Collisions == Archived \cap (Canonical \cup Elsewhere)

Drift ==
    [double     |-> Doubles,
     wrong      |-> WrongLocation,
     link       |-> IF BenchLinkBroken THEN {"link"} ELSE {},
     config     |-> DoubleConfigs,
     collisions |-> Collisions]

----------------------------------------------------------------------------
(* symlink-integrity, project-yaml, archive-orphans *)

SymlinkIntegrity ==
    IF storage = "local" /\ place # "link" THEN {"link"} ELSE {}

ProjectYAML == IF ProjectConfigFound THEN {} ELSE {"project.yaml"}

ArchiveOrphans == Archived \cap Canonical

(* doctor.Run with every detector selected: a row for each *)
Report ==
    [drift   |-> UNION {Drift[class] : class \in DOMAIN Drift},
     symlink |-> SymlinkIntegrity,
     project |-> ProjectYAML,
     orphans |-> ArchiveOrphans]

Green == \A row \in DOMAIN Report : Report[row] = {}

----------------------------------------------------------------------------
(***************************************************************************)
(* A green report can be believed in whatever state a failed, killed or    *)
(* concurrent command has left the directories: every work that exists is  *)
(* where the other commands look for it, under its only copy's path, a     *)
(* kerf new needs no repair of the link, no archived work shares its name  *)
(* with a work somewhere, and the project's configuration is found.        *)
(***************************************************************************)
GreenIsVisible ==
    Green =>
        /\ Held \subseteq WorksDir(storage)
        /\ place = "directory" => benchHas \cap worksHas = {}
        /\ storage = "local" => place = "link" /\ benchHas = {}
        /\ Held \cap Archived = {}
        /\ ProjectConfigFound

(***************************************************************************)
(* The layout that commands leave when they run one after the other, with  *)
(* whatever failures and roll-backs but unkilled, is no drift: doctor does *)
(* not ask to move or merge the works of a healthy project.                *)
(***************************************************************************)
SettledIsNoDrift ==
    Localizing = {} /\ ~disturbed =>
        \A class \in DOMAIN Drift \ {"collisions"} : Drift[class] = {}
=============================================================================
