------------------------------ MODULE WorkDir ------------------------------
(***************************************************************************)
(* One work directory of kerf and the pure operations the commands apply   *)
(* to it: session bookkeeping (internal/session), whole-directory          *)
(* snapshots in .history (internal/snapshot) and the pin list of spec.yaml *)
(* (internal/spec).  The module has no variables; Bench runs these         *)
(* operations one command at a time and SpecFiles one file operation at a  *)
(* time.                                                                   *)
(***************************************************************************)
EXTENDS Naturals, Sequences, FiniteSets

CONSTANTS
  Statuses,      \* every status a work may be given (any string in the code)
  SessionIds,    \* values of KERF_SESSION_ID
  Anonymous,     \* what is recorded when KERF_SESSION_ID is unset
  NoSession,     \* active_session: null
  Beads,         \* bead identifiers
  Artifacts,     \* files of a work other than spec.yaml and .history
  UserLabels,    \* labels given to kerf snapshot --name
  AutoLabel,     \* the empty label of automatic snapshots
  PreRestore,    \* the label "pre-restore"
  MaxClock,      \* bound: last second of the modelled clock
  NoSpec,        \* spec.yaml is missing
  NoSnap         \* .history has no directory of this name

ASSUME ClockAssumption == MaxClock \in Nat

ASSUME DistinctValues ==
  /\ NoSession \notin SessionIds \cup {Anonymous}
  /\ AutoLabel \notin UserLabels
  /\ PreRestore # AutoLabel

-----------------------------------------------------------------------------
(* The data of a work directory.                                           *)

Seconds == 0 .. MaxClock
Labels  == UserLabels \cup {AutoLabel, PreRestore}
Owners  == SessionIds \cup {Anonymous}

\* An entry of `sessions`; `ended` stands for the presence of the timestamp.
SessionEntry == [id : Owners, ended : BOOLEAN]

\* spec.yaml, without the fields no modelled command tells apart.
Spec == [status   : Statuses,
         sessions : Seq(SessionEntry),
         active   : Owners \cup {NoSession},
         pinned   : SUBSET Beads]

\* A directory under .history is named {timestamp}--{label}, to the second.
SnapName == Seconds \X Labels

\* Every command that takes a snapshot has loaded spec.yaml before.
Content == [spec : Spec, files : SUBSET Artifacts]

Dir == [spec  : Spec \cup {NoSpec},
        files : SUBSET Artifacts,
        hist  : [SnapName -> Content \cup {NoSnap}]]

NoHistory == [n \in SnapName |-> NoSnap]
EmptyDir  == [spec |-> NoSpec, files |-> {}, hist |-> NoHistory]

-----------------------------------------------------------------------------
(* Sessions.                                                               *)

StartSession(s, id) ==
  [s EXCEPT !.sessions = Append(s.sessions, [id |-> id, ended |-> FALSE]),
            !.active   = id]

\* The entry EndSession closes: the last one without an end.
LastOpen(s, i) ==
  /\ i \in DOMAIN s.sessions
  /\ ~ s.sessions[i].ended
  /\ \A j \in DOMAIN s.sessions : j > i => s.sessions[j].ended

EndSession(s) ==
  [s EXCEPT
     !.sessions = [i \in DOMAIN s.sessions |->
                     IF LastOpen(s, i) THEN [s.sessions[i] EXCEPT !.ended = TRUE]
                                       ELSE s.sessions[i]],
     !.active = NoSession]

\* spec.yaml as kerf new writes it: first status, no pins, a first session.
FreshSpec(status, id) ==
  StartSession([status   |-> status, sessions |-> << >>,
                active   |-> NoSession, pinned |-> {}], id)

-----------------------------------------------------------------------------
(* Snapshots.                                                              *)

Present(d) == {n \in SnapName : d.hist[n] # NoSnap}

\* MkdirAll accepts a directory that is already there, so a second snapshot
\* under the same name overwrites the files it has and keeps the others.
Overlay(old, new) ==
  IF old = NoSnap THEN new
                  ELSE [spec |-> new.spec, files |-> old.files \cup new.files]

\* How a snapshot ends: copied; its directory could not be made; or the copy
\* failed and the clean-up removed the directory, also when it was there before.
TakeFailures == {"not made", "removed"}
TakeOutcomes == TakeFailures \cup {"copied"}

Take(d, now, label, outcome) ==
  [d EXCEPT !.hist[<<now, label>>] =
     CASE outcome = "copied"   -> Overlay(@, [spec |-> d.spec, files |-> d.files])
       [] outcome = "not made" -> @
       [] outcome = "removed"  -> NoSnap]

\* Mutant of Kept: the list is sorted oldest first.
KeptOldest(d, max) ==
  LET all == Present(d)
  IN  IF Cardinality(all) <= max
        THEN {all}
        ELSE {keep \in SUBSET all :
                /\ Cardinality(keep) = max
                /\ \A k \in keep, r \in all \ keep : k[1] <= r[1]}

\* The sets Prune may leave: newest first by timestamp, and the sort is not
\* stable, so which of several snapshots of one second survive is open.
Kept(d, max) ==
  LET all == Present(d)
  IN  IF Cardinality(all) <= max
        THEN {all}
        ELSE {keep \in SUBSET all :
                /\ Cardinality(keep) = max
                /\ \A k \in keep, r \in all \ keep : k[1] >= r[1]}

KeepOnly(d, keep) ==
  [d EXCEPT !.hist = [n \in SnapName |-> IF n \in keep THEN d.hist[n] ELSE NoSnap]]

Prune(d, max) == {KeepOnly(d, keep) : keep \in Kept(d, max)}

\* Mutant of RestoreFrom: the session data comes from the snapshot too.
RestoreWithSessions(d, now, name) ==
  LET saved == Take(d, now, PreRestore, "copied")
      snap  == saved.hist[name]
  IN  [saved EXCEPT !.files = snap.files, !.spec = snap.spec]

RestoreFrom(d, now, name) ==
  LET saved == Take(d, now, PreRestore, "copied")
      snap  == saved.hist[name]
  IN  [saved EXCEPT !.files = snap.files,
                    !.spec  = [snap.spec EXCEPT !.sessions = d.spec.sessions,
                                                !.active   = d.spec.active]]

-----------------------------------------------------------------------------
(* Pins.                                                                   *)

AddPin(d, b)    == [d EXCEPT !.spec.pinned = @ \cup {b}]
RemovePin(d, b) == [d EXCEPT !.spec.pinned = @ \ {b}]

=============================================================================
