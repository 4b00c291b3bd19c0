------------------------------- MODULE Bench -------------------------------
(***************************************************************************)
(* The bench of one project: the work directories under projects/ and      *)
(* archive/, changed by kerf's commands run one after the other.  Every    *)
(* action is one command, with the snapshots, prunes and file creations it *)
(* makes; a snapshot may fail, which only kerf snapshot and kerf restore   *)
(* take notice of.  Overlapping commands are the subject of SpecFiles.              *)
(***************************************************************************)
EXTENDS WorkDir

CONSTANTS
  Works,             \* codenames
  InitialStatus,     \* first of the jig's status values
  Outputs,           \* status -> files its pass pre-creates from templates
  SnapshotsEnabled,  \* config.yaml: snapshots.enabled
  MaxSnapshots,      \* config.yaml: snapshots.max_snapshots
  MaxSessions,       \* bound: sessions a work may record
  Reused,            \* bound: codenames given again while a work of that
                     \* name is in the archive
  Absent             \* no directory of this name

ASSUME BenchAssumption ==
  /\ InitialStatus \in Statuses
  /\ Outputs \in [Statuses -> SUBSET Artifacts]
  /\ SnapshotsEnabled \in BOOLEAN
  /\ MaxSnapshots \in Nat
  /\ MaxSessions \in Nat
  /\ Reused \subseteq Works

ASSUME AbsentValue ==
  /\ Absent \notin Dir
  /\ Absent \notin Owners \cup {NoSession}

ASSUME NoSpecIsNoSpec == NoSpec \notin Spec

ASSUME NoSnapIsNoSnap == NoSnap \notin Content

VARIABLES
  active,    \* codename -> directory under projects/ (or .kerf/works)
  archive,   \* codename -> directory under archive/
  clock      \* seconds, as snapshot names record them

vars == <<active, archive, clock>>

Exists(w)   == active[w] # Absent
Archived(w) == archive[w] # Absent

\* LoadWork succeeds: the directory is there and spec.yaml is readable.
Loadable(w) == Exists(w) /\ active[w].spec # NoSpec

Init ==
  /\ active = [w \in Works |-> Absent]
  /\ archive = [w \in Works |-> Absent]
  /\ clock = 0

\* Put directory d in place of the active work w.
Replace(w, d) ==
  /\ active' = [active EXCEPT ![w] = d]
  /\ UNCHANGED <<archive, clock>>

-----------------------------------------------------------------------------
(* Creating, archiving and deleting works.                                 *)

\* Codenames kerf new is given.
Offered(w) == Archived(w) => w \in Reused

\* Mutant of New: the snapshot is taken before spec.yaml is written.
NewSnapshotFirst(w, id) ==
  /\ Offered(w)
  /\ ~ Exists(w)
  /\ \E o \in TakeOutcomes :
       Replace(w, [Take(EmptyDir, clock, AutoLabel, o)
                     EXCEPT !.spec = FreshSpec(InitialStatus, id)])

\* kerf new.  Only projects/ is searched for the codename.
New(w, id) ==
  /\ Offered(w)
  /\ ~ Exists(w)
  /\ LET d == [EmptyDir EXCEPT !.spec = FreshSpec(InitialStatus, id)]
     IN  \E o \in TakeOutcomes : Replace(w, Take(d, clock, AutoLabel, o))

\* kerf new --area with an undefined area: the directory is already made
\* when the areas are validated, and the error leaves it behind.
NewUnknownArea(w) ==
  /\ Offered(w)
  /\ ~ Exists(w)
  /\ Replace(w, EmptyDir)

\* Mutant of Archive: the check for an archived work of the name is gone.
ArchiveOver(w) ==
  /\ Exists(w)
  /\ archive' = [archive EXCEPT ![w] = active[w]]
  /\ active' = [active EXCEPT ![w] = Absent]
  /\ UNCHANGED clock

\* kerf archive: the directory moves with its history, readable or not.
Archive(w) ==
  /\ ~ Archived(w)
  /\ Exists(w)
  /\ archive' = [archive EXCEPT ![w] = active[w]]
  /\ active' = [active EXCEPT ![w] = Absent]
  /\ UNCHANGED clock

\* The mv that kerf archive prints for its user.
Unarchive(w) ==
  /\ Archived(w)
  /\ ~ Exists(w)
  /\ active' = [active EXCEPT ![w] = archive[w]]
  /\ archive' = [archive EXCEPT ![w] = Absent]
  /\ UNCHANGED clock

\* kerf delete: the active directory when there is one, else the archived
\* one; spec.yaml must be readable for the summary.
DeleteActive(w) ==
  /\ Loadable(w)
  /\ Replace(w, Absent)

DeleteArchived(w) ==
  /\ ~ Exists(w)
  /\ Archived(w)
  /\ archive[w].spec # NoSpec
  /\ archive' = [archive EXCEPT ![w] = Absent]
  /\ UNCHANGED <<active, clock>>

-----------------------------------------------------------------------------
(* Sessions.                                                               *)

\* Mutant of Resume: an active session does not stop it.
ResumeUnchecked(w, id) ==
  /\ Loadable(w)
  /\ Len(active[w].spec.sessions) < MaxSessions
  /\ LET d == [active[w] EXCEPT !.spec = StartSession(@, id)]
     IN  \E o \in TakeOutcomes : Replace(w, Take(d, clock, AutoLabel, o))

\* kerf resume: refused while a session is active.
Resume(w, id) ==
  /\ Loadable(w)
  /\ active[w].spec.active = NoSession
  /\ Len(active[w].spec.sessions) < MaxSessions
  /\ LET d == [active[w] EXCEPT !.spec = StartSession(@, id)]
     IN  \E o \in TakeOutcomes : Replace(w, Take(d, clock, AutoLabel, o))

\* kerf shelve <codename>: snapshot first, then end the session.
Shelve(w) ==
  /\ Loadable(w)
  /\ active[w].spec.active # NoSession
  /\ \E o \in TakeOutcomes :
       Replace(w, [Take(active[w], clock, AutoLabel, o)
                     EXCEPT !.spec = EndSession(active[w].spec)])

\* kerf shelve --force <codename>: end the session first, then snapshot.
ForceShelve(w) ==
  /\ Loadable(w)
  /\ LET d == [active[w] EXCEPT !.spec = EndSession(@)]
     IN  \E o \in TakeOutcomes : Replace(w, Take(d, clock, AutoLabel, o))

\* kerf shelve: the only work of the project with an active session.
FindActiveWork == {w \in Works : Loadable(w) /\ active[w].spec.active # NoSession}

ShelveInferred ==
  \E w \in Works : FindActiveWork = {w} /\ Shelve(w)

-----------------------------------------------------------------------------
(* Status, snapshots and restore.                                          *)

\* kerf status <codename> <status>; any status is accepted.
Status(w, st) ==
  /\ Loadable(w)
  /\ LET d == [active[w] EXCEPT !.spec.status = st]
         versions(o) == IF SnapshotsEnabled
                          THEN Prune(Take(d, clock, AutoLabel, o), MaxSnapshots)
                          ELSE {d}
     IN  \E o \in TakeOutcomes : \E v \in versions(o) :
           Replace(w, [v EXCEPT !.files = @ \cup Outputs[st]])

\* kerf snapshot [--name label]: taken whatever snapshots.enabled says; one
\* that fails is reported and prunes nothing.
Snapshot(w, label) ==
  /\ Loadable(w)
  /\ \/ \E v \in Prune(Take(active[w], clock, label, "copied"), MaxSnapshots) :
          Replace(w, v)
     \/ \E o \in TakeFailures : Replace(w, Take(active[w], clock, label, o))

\* kerf restore: nothing is put back unless the pre-restore snapshot succeeds.
Restore(w, name) ==
  /\ Loadable(w)
  /\ active[w].hist[name] # NoSnap
  /\ \/ Replace(w, RestoreFrom(active[w], clock, name))
     \/ \E o \in TakeFailures : Replace(w, Take(active[w], clock, PreRestore, o))

-----------------------------------------------------------------------------
(* Pins.                                                                   *)

PinOwners(b) == {w \in Works : Loadable(w) /\ b \in active[w].spec.pinned}

\* Mutant of Pin: the other works keep the bead.
PinAdditive(w, b) ==
  /\ Loadable(w)
  /\ b \notin active[w].spec.pinned
  /\ \E o \in TakeOutcomes :
       Replace(w, Take(AddPin(active[w], b), clock, AutoLabel, o))

\* kerf pin: take the bead from every other active work, snapshotting each,
\* then give it to w and snapshot w.
Pin(w, b) ==
  /\ Loadable(w)
  /\ b \notin active[w].spec.pinned
  /\ \E o \in [Works -> TakeOutcomes] :
       active' = [v \in Works |->
                    IF v = w
                      THEN Take(AddPin(active[w], b), clock, AutoLabel, o[w])
                    ELSE IF v \in PinOwners(b)
                      THEN Take(RemovePin(active[v], b), clock, AutoLabel, o[v])
                      ELSE active[v]]
  /\ UNCHANGED <<archive, clock>>

-----------------------------------------------------------------------------
(* The environment: time passes and agents edit files in the directory.    *)

Tick ==
  /\ clock < MaxClock
  /\ clock' = clock + 1
  /\ UNCHANGED <<active, archive>>

WriteArtifact(w, a) ==
  /\ Exists(w)
  /\ a \notin active[w].files
  /\ Replace(w, [active[w] EXCEPT !.files = @ \cup {a}])

RemoveArtifact(w, a) ==
  /\ Exists(w)
  /\ a \in active[w].files
  /\ Replace(w, [active[w] EXCEPT !.files = @ \ {a}])

-----------------------------------------------------------------------------

Lifecycle(w) ==
  \/ \E id \in Owners : New(w, id)
  \/ NewUnknownArea(w)
  \/ Archive(w)
  \/ Unarchive(w)
  \/ DeleteActive(w)
  \/ DeleteArchived(w)

Sessions(w) ==
  \/ \E id \in Owners : Resume(w, id)
  \/ Shelve(w)
  \/ ForceShelve(w)

Versions(w) ==
  \/ \E st \in Statuses : Status(w, st)
  \/ \E label \in UserLabels \cup {AutoLabel} : Snapshot(w, label)
  \/ \E name \in SnapName : Restore(w, name)

Edits(w) ==
  \/ \E b \in Beads : Pin(w, b)
  \/ \E a \in Artifacts : WriteArtifact(w, a)
  \/ \E a \in Artifacts : RemoveArtifact(w, a)

Next ==
  \/ \E w \in Works : Lifecycle(w)
  \/ \E w \in Works : Sessions(w)
  \/ \E w \in Works : Versions(w)
  \/ \E w \in Works : Edits(w)
  \/ ShelveInferred
  \/ Tick

BenchSpec == Init /\ [][Next]_vars

=============================================================================
