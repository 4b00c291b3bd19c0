---------------------------- MODULE BenchProofs ----------------------------
(***************************************************************************)
(* Proofs about Bench for every set of works, sessions, beads and files    *)
(* and every bound.                                                        *)
(*   1. The type invariant and the session invariant.                      *)
(*   2. The session log of a live work only grows, and the commands        *)
(*      implement the session lease of SessionLease.                       *)
(*   3. What a step may not do to other works: an archived work is left    *)
(*      alone, and a bead that gets a new owner by anything but a restore  *)
(*      or the printed mv has that owner only.                             *)
(*   4. A snapshot goes only with the work's directory, in a prune that    *)
(*      leaves as many as the limit allows and none that is older, or in a *)
(*      failed snapshot of its own name.                                   *)
(* Parts 2 to 4 look at single steps from states that satisfy part 1.      *)
(***************************************************************************)
EXTENDS BenchProperties, SequenceTheorems, TLAPS

-----------------------------------------------------------------------------
(* The operations on one directory.                                        *)

\* Appending an open entry keeps a spec well formed.
LEMMA StartSessionType ==
  ASSUME NEW s \in Spec, NEW id \in Owners
  PROVE  StartSession(s, id) \in Spec
<1>1. [id |-> id, ended |-> FALSE] \in SessionEntry
  BY DEF SessionEntry
<1>2. s.sessions \in Seq(SessionEntry)
  BY DEF Spec
<1>3. Append(s.sessions, [id |-> id, ended |-> FALSE]) \in Seq(SessionEntry)
  BY <1>1, <1>2, AppendProperties
<1> QED
  BY <1>3 DEF StartSession, Spec

\* Closing an entry keeps a spec well formed.
LEMMA EndSessionType ==
  ASSUME NEW s \in Spec
  PROVE  EndSession(s) \in Spec
<1> DEFINE log == [i \in DOMAIN s.sessions |->
                     IF LastOpen(s, i) THEN [s.sessions[i] EXCEPT !.ended = TRUE]
                                       ELSE s.sessions[i]]
<1>1. s.sessions \in Seq(SessionEntry)
  BY DEF Spec
<1>2. DOMAIN s.sessions = 1 .. Len(s.sessions) /\ Len(s.sessions) \in Nat
  BY <1>1, LenProperties
<1>3. \A i \in DOMAIN s.sessions : s.sessions[i] \in SessionEntry
  BY <1>1, <1>2, ElementOfSeq
<1>4. \A i \in 1 .. Len(s.sessions) : log[i] \in SessionEntry
  BY <1>2, <1>3 DEF SessionEntry
<1>5. log \in [1 .. Len(s.sessions) -> SessionEntry]
  BY <1>2, <1>4
<1>6. log \in Seq(SessionEntry)
  BY <1>2, <1>5, SeqDef
<1> QED
  BY <1>6 DEF EndSession, Spec

\* kerf new writes a well formed spec.
LEMMA FreshSpecType ==
  ASSUME NEW st \in Statuses, NEW id \in Owners
  PROVE  FreshSpec(st, id) \in Spec
<1>1. << >> \in Seq(SessionEntry)
  BY EmptySeq
<1>2. [status |-> st, sessions |-> << >>,
       active |-> NoSession, pinned |-> {}] \in Spec
  BY <1>1 DEF Spec
<1> QED
  BY <1>2, StartSessionType DEF FreshSpec

\* A directory kerf keeps: well formed and with consistent sessions.
Sound(d) ==
  /\ d \in Dir
  /\ d.spec # NoSpec => ConsistentSessions(d.spec)

\* A snapshot changes nothing but .history, and there only its own name.
LEMMA TakeSound ==
  ASSUME NEW d \in Dir, d.spec \in Spec, NEW now \in Seconds, NEW l \in Labels,
         NEW o \in TakeOutcomes
  PROVE  /\ Take(d, now, l, o) \in Dir
         /\ Take(d, now, l, o).spec = d.spec
         /\ Take(d, now, l, o).files = d.files
         /\ \A n \in SnapName :
              n # <<now, l>> => Take(d, now, l, o).hist[n] = d.hist[n]
<1> DEFINE new == [spec |-> d.spec, files |-> d.files]
           n0  == <<now, l>>
<1>1. new \in Content
  BY DEF Dir, Content
<1>2. n0 \in SnapName
  BY DEF SnapName
<1>3. d.hist[n0] \in Content \cup {NoSnap}
  BY <1>2 DEF Dir
<1>4. Overlay(d.hist[n0], new) \in Content
  BY <1>1, <1>3 DEF Overlay, Content
<1>5. PICK c \in Content \cup {NoSnap} :
        Take(d, now, l, o) = [d EXCEPT !.hist = [d.hist EXCEPT ![n0] = c]]
  <2>1. CASE o = "copied"
    <3>1. Take(d, now, l, o)
            = [d EXCEPT !.hist = [d.hist EXCEPT ![n0] = Overlay(d.hist[n0], new)]]
      BY <2>1 DEF Take, Dir
    <3> QED
      BY <1>4, <3>1
  <2>2. CASE o = "not made"
    <3>1. Take(d, now, l, o) = [d EXCEPT !.hist = [d.hist EXCEPT ![n0] = d.hist[n0]]]
      BY <2>2 DEF Take, Dir
    <3> QED
      BY <1>3, <3>1
  <2>3. CASE o = "removed"
    <3>1. Take(d, now, l, o) = [d EXCEPT !.hist = [d.hist EXCEPT ![n0] = NoSnap]]
      BY <2>3 DEF Take, Dir
    <3> QED
      BY <3>1
  <2> QED
    BY <2>1, <2>2, <2>3 DEF TakeOutcomes, TakeFailures
<1> DEFINE h == [d.hist EXCEPT ![n0] = c]
<1>6. /\ h \in [SnapName -> Content \cup {NoSnap}]
      /\ \A n \in SnapName : n # n0 => h[n] = d.hist[n]
  BY <1>2, <1>5 DEF Dir
<1>7. Take(d, now, l, o) = [d EXCEPT !.hist = h]
  BY <1>5
<1> HIDE DEF h
<1>8. /\ [d EXCEPT !.hist = h] \in Dir
      /\ [d EXCEPT !.hist = h].spec = d.spec
      /\ [d EXCEPT !.hist = h].files = d.files
      /\ [d EXCEPT !.hist = h].hist = h
  BY <1>6 DEF Dir
<1> QED
  BY <1>6, <1>7, <1>8

\* A snapshot that succeeds is there, and so is every earlier one.
LEMMA CopiedThere ==
  ASSUME NEW d \in Dir, d.spec \in Spec, NEW now \in Seconds, NEW l \in Labels
  PROVE  /\ Take(d, now, l, "copied") \in Dir
         /\ \A n \in SnapName :
              d.hist[n] # NoSnap => Take(d, now, l, "copied").hist[n] \in Content
<1> DEFINE new == [spec |-> d.spec, files |-> d.files]
           n0  == <<now, l>>
<1>1. new \in Content /\ n0 \in SnapName
  BY DEF Dir, Content, SnapName
<1>2. Overlay(d.hist[n0], new) \in Content
  BY <1>1 DEF Overlay, Content, Dir
<1>3. Take(d, now, l, "copied").hist
        = [d.hist EXCEPT ![n0] = Overlay(d.hist[n0], new)]
  <2>1. Take(d, now, l, "copied")
          = [d EXCEPT !.hist = [d.hist EXCEPT ![n0] = Overlay(d.hist[n0], new)]]
    BY DEF Take, Dir
  <2> QED
    BY <2>1 DEF Dir
<1>4. Take(d, now, l, "copied") \in Dir
  BY TakeSound DEF TakeOutcomes
<1>5. \A n \in SnapName :
        d.hist[n] # NoSnap => [d.hist EXCEPT ![n0] = Overlay(d.hist[n0], new)][n] \in Content
  <2> HIDE DEF n0, new
  <2> QED
    BY <1>1, <1>2 DEF Dir
<1> QED
  BY <1>3, <1>4, <1>5

\* Pruning changes nothing but .history.
LEMMA PruneSound ==
  ASSUME NEW d \in Dir, NEW max, NEW v \in Prune(d, max)
  PROVE  v \in Dir /\ v.spec = d.spec /\ v.files = d.files
<1>1. PICK keep \in Kept(d, max) : v = KeepOnly(d, keep)
  BY DEF Prune
<1> QED
  BY <1>1 DEF KeepOnly, Dir

\* A restore puts back a readable spec and keeps the session data.
LEMMA RestoreSound ==
  ASSUME NEW d \in Dir, d.spec \in Spec, NEW now \in Seconds,
         NEW n \in SnapName, d.hist[n] # NoSnap
  PROVE  /\ RestoreFrom(d, now, n) \in Dir
         /\ RestoreFrom(d, now, n).spec \in Spec
         /\ RestoreFrom(d, now, n).spec.sessions = d.spec.sessions
         /\ RestoreFrom(d, now, n).spec.active = d.spec.active
<1> DEFINE saved == Take(d, now, PreRestore, "copied")
           snap  == saved.hist[n]
           back  == [snap.spec EXCEPT !.sessions = d.spec.sessions,
                                      !.active   = d.spec.active]
<1>1. PreRestore \in Labels
  BY DEF Labels
<1>2. saved \in Dir /\ snap \in Content
  BY <1>1, CopiedThere
<1>3. back \in Spec /\ back.sessions = d.spec.sessions /\ back.active = d.spec.active
  BY <1>2 DEF Content, Spec
<1>4. RestoreFrom(d, now, n) = [saved EXCEPT !.files = snap.files, !.spec = back]
  BY DEF RestoreFrom
<1> QED
  BY <1>2, <1>3, <1>4 DEF Dir, Content

\* A session started when none is open leaves one open entry, the last.
LEMMA StartSessionConsistent ==
  ASSUME NEW s \in Spec, NEW id \in Owners,
         ConsistentSessions(s), s.active = NoSession
  PROVE  ConsistentSessions(StartSession(s, id))
<1> DEFINE entry == [id |-> id, ended |-> FALSE]
           t == StartSession(s, id)
<1>1. s.sessions \in Seq(SessionEntry) /\ entry \in SessionEntry
  BY DEF Spec, SessionEntry
<1>2. /\ t.sessions = Append(s.sessions, entry)
      /\ t.active = id
      /\ t.active # NoSession
  BY DistinctValues DEF StartSession, Spec, Owners
<1>3. /\ Len(s.sessions) \in Nat
      /\ DOMAIN s.sessions = 1 .. Len(s.sessions)
      /\ Len(t.sessions) = Len(s.sessions) + 1
      /\ DOMAIN t.sessions = 1 .. Len(s.sessions) + 1
      /\ \A i \in 1 .. Len(s.sessions) : t.sessions[i] = s.sessions[i]
      /\ t.sessions[Len(s.sessions) + 1] = entry
  BY <1>1, <1>2, AppendProperties, LenProperties
<1>4. \A i \in 1 .. Len(s.sessions) : s.sessions[i] \in SessionEntry
  BY <1>1, ElementOfSeq
<1>5. \A i \in 1 .. Len(s.sessions) : s.sessions[i].ended
  <2> SUFFICES ASSUME NEW i \in 1 .. Len(s.sessions), ~ s.sessions[i].ended
               PROVE  FALSE
    OBVIOUS
  <2>1. s.active = s.sessions[i].id
    BY <1>3 DEF ConsistentSessions
  <2> QED
    BY <2>1, <1>4, DistinctValues DEF SessionEntry, Owners
<1> QED
  BY <1>2, <1>3, <1>5 DEF ConsistentSessions

\* Ending a session leaves no entry open.
LEMMA EndSessionConsistent ==
  ASSUME NEW s \in Spec, ConsistentSessions(s)
  PROVE  /\ ConsistentSessions(EndSession(s))
         /\ EndSession(s).active = NoSession
<1> DEFINE t == EndSession(s)
<1>1. s.sessions \in Seq(SessionEntry)
  BY DEF Spec
<1>2. /\ Len(s.sessions) \in Nat
      /\ DOMAIN s.sessions = 1 .. Len(s.sessions)
      /\ \A i \in DOMAIN s.sessions : s.sessions[i] \in SessionEntry
  BY <1>1, LenProperties, ElementOfSeq
<1>3. /\ t.active = NoSession
      /\ DOMAIN t.sessions = DOMAIN s.sessions
      /\ \A i \in DOMAIN s.sessions :
           t.sessions[i] = IF LastOpen(s, i) THEN [s.sessions[i] EXCEPT !.ended = TRUE]
                                             ELSE s.sessions[i]
  BY DEF EndSession, Spec
<1>4. \A i \in DOMAIN t.sessions : t.sessions[i].ended
  <2> SUFFICES ASSUME NEW i \in DOMAIN s.sessions
               PROVE  t.sessions[i].ended
    BY <1>3
  <2>1. CASE s.sessions[i].ended
    BY <2>1, <1>3 DEF LastOpen
  <2>2. CASE ~ s.sessions[i].ended
    <3>1. i = Len(s.sessions)
      BY <2>2 DEF ConsistentSessions
    <3>2. LastOpen(s, i)
      BY <2>2, <3>1, <1>2 DEF LastOpen
    <3> QED
      BY <3>2, <1>2, <1>3 DEF SessionEntry
  <2> QED
    BY <2>1, <2>2
<1> QED
  BY <1>3, <1>4 DEF ConsistentSessions

-----------------------------------------------------------------------------
(* The invariant: the type invariant is needed to know that every loaded   *)
(* or restored spec has a session log at all.                              *)

IInv == TypeOK /\ SessionsConsistent

\* The directory of a live work, and of an archived one, is sound.
LEMMA SoundDirs ==
  ASSUME IInv, NEW w \in Works
  PROVE  /\ Exists(w) => Sound(active[w])
         /\ Loadable(w) => active[w] \in Dir /\ active[w].spec \in Spec
         /\ Archived(w) => Sound(archive[w])
BY AbsentValue
   DEF IInv, TypeOK, SessionsConsistent, Sound, Exists, Archived, Loadable, Dir

\* Replacing a live directory by a sound one, or by none, keeps the invariant.
LEMMA ReplaceInv ==
  ASSUME IInv, NEW w \in Works, NEW d,
         d = Absent \/ Sound(d), Replace(w, d)
  PROVE  IInv'
<1>1. /\ active' = [active EXCEPT ![w] = d]
      /\ archive' = archive
      /\ clock' = clock
  BY DEF Replace
<1>2. TypeOK'
  BY <1>1 DEF IInv, TypeOK, Sound
<1>3. ASSUME NEW v \in Works, Loadable(v)'
      PROVE  ConsistentSessions(active'[v].spec)
  <2>1. CASE v = w
    BY <1>1, <1>3, <2>1 DEF IInv, TypeOK, Sound, Loadable, Exists
  <2>2. CASE v # w
    BY <1>1, <1>3, <2>2 DEF IInv, TypeOK, SessionsConsistent, Loadable, Exists
  <2> QED
    BY <2>1, <2>2
<1>4. ASSUME NEW v \in Works, Archived(v)', archive'[v].spec # NoSpec
      PROVE  ConsistentSessions(archive'[v].spec)
  BY <1>1, <1>4 DEF IInv, SessionsConsistent, Archived
<1> QED
  BY <1>2, <1>3, <1>4 DEF IInv, SessionsConsistent

\* A directory that differs from a sound one in .history and in files only.
LEMMA SameSpecSound ==
  ASSUME NEW d, NEW e \in Dir, Sound(d), e.spec = d.spec
  PROVE  Sound(e)
BY DEF Sound

\* Rewriting spec.yaml by a well formed, consistent spec.
LEMMA NewSpecSound ==
  ASSUME NEW d \in Dir, NEW s \in Spec, ConsistentSessions(s)
  PROVE  /\ [d EXCEPT !.spec = s] \in Dir
         /\ [d EXCEPT !.spec = s].spec = s
         /\ Sound([d EXCEPT !.spec = s])
BY DEF Dir, Sound

\* Writing spec.yaml and taking a snapshot of the result.
LEMMA WriteTakeSound ==
  ASSUME NEW d \in Dir, NEW s \in Spec, ConsistentSessions(s),
         NEW now \in Seconds, NEW l \in Labels, NEW o \in TakeOutcomes
  PROVE  Sound(Take([d EXCEPT !.spec = s], now, l, o))
<1> DEFINE e == [d EXCEPT !.spec = s]
<1>1. e \in Dir /\ e.spec \in Spec /\ Sound(e)
  BY NewSpecSound
<1>2. Take(e, now, l, o) \in Dir /\ Take(e, now, l, o).spec = e.spec
  BY <1>1, TakeSound
<1> QED
  BY <1>1, <1>2, SameSpecSound

\* A directory that has just been made.
LEMMA EmptyDirType == EmptyDir \in Dir /\ EmptyDir.spec = NoSpec
BY DEF EmptyDir, Dir, NoHistory

-----------------------------------------------------------------------------
(* One lemma per command.                                                  *)

\* Making, archiving, un-archiving and deleting works keep the invariant.
LEMMA LifecycleInv ==
  ASSUME IInv, NEW w \in Works, Lifecycle(w)
  PROVE  IInv'
<1>0. clock \in Seconds /\ AutoLabel \in Labels /\ InitialStatus \in Statuses
  BY BenchAssumption DEF IInv, TypeOK, Labels
<1>1. ASSUME NEW id \in Owners, New(w, id)
      PROVE  IInv'
  <2> DEFINE s == FreshSpec(InitialStatus, id)
             d == [EmptyDir EXCEPT !.spec = s]
             s0 == [status |-> InitialStatus, sessions |-> << >>,
                    active |-> NoSession, pinned |-> {}]
  <2>1. s \in Spec
    BY <1>0, FreshSpecType
  <2>2. s0 \in Spec /\ ConsistentSessions(s0) /\ s0.active = NoSession
    BY <1>0, EmptySeq DEF Spec, ConsistentSessions
  <2>3. ConsistentSessions(s)
    BY <2>2, StartSessionConsistent DEF FreshSpec
  <2>4. \A o \in TakeOutcomes : Sound(Take(d, clock, AutoLabel, o))
    BY <1>0, <2>1, <2>3, EmptyDirType, WriteTakeSound
  <2> QED
    BY <1>1, <2>4, ReplaceInv DEF New
<1>2. CASE NewUnknownArea(w)
  BY <1>2, EmptyDirType, ReplaceInv DEF NewUnknownArea, Sound
<1>3. CASE Archive(w)
  <2>1. /\ archive' = [archive EXCEPT ![w] = active[w]]
        /\ active' = [active EXCEPT ![w] = Absent]
        /\ clock' = clock
    BY <1>3 DEF Archive
  <2> QED
    BY <2>1 DEF IInv, TypeOK, SessionsConsistent, Loadable, Exists, Archived
<1>4. CASE Unarchive(w)
  <2>1. /\ active' = [active EXCEPT ![w] = archive[w]]
        /\ archive' = [archive EXCEPT ![w] = Absent]
        /\ clock' = clock
    BY <1>4 DEF Unarchive
  <2> QED
    BY <2>1 DEF IInv, TypeOK, SessionsConsistent, Loadable, Exists, Archived
<1>5. CASE DeleteActive(w)
  BY <1>5, ReplaceInv DEF DeleteActive
<1>6. CASE DeleteArchived(w)
  <2>1. /\ active' = active
        /\ archive' = [archive EXCEPT ![w] = Absent]
        /\ clock' = clock
    BY <1>6 DEF DeleteArchived
  <2> QED
    BY <2>1 DEF IInv, TypeOK, SessionsConsistent, Loadable, Exists, Archived
<1> QED
  BY <1>1, <1>2, <1>3, <1>4, <1>5, <1>6 DEF Lifecycle

\* kerf shelve, with a codename or inferred.
LEMMA ShelveInv ==
  ASSUME IInv, NEW w \in Works, Shelve(w)
  PROVE  IInv'
<1> DEFINE s == EndSession(active[w].spec)
           t(o) == Take(active[w], clock, AutoLabel, o)
<1>1. /\ clock \in Seconds /\ AutoLabel \in Labels
      /\ active[w] \in Dir /\ active[w].spec \in Spec
      /\ ConsistentSessions(active[w].spec)
  BY SoundDirs DEF IInv, TypeOK, SessionsConsistent, Labels, Shelve
<1>2. s \in Spec /\ ConsistentSessions(s)
  BY <1>1, EndSessionType, EndSessionConsistent
<1>3. \A o \in TakeOutcomes : t(o) \in Dir
  BY <1>1, TakeSound
<1>4. \A o \in TakeOutcomes : Sound([t(o) EXCEPT !.spec = s])
  BY <1>2, <1>3, NewSpecSound
<1> QED
  BY <1>4, ReplaceInv DEF Shelve

\* The session commands keep it.
LEMMA SessionsInv ==
  ASSUME IInv, NEW w \in Works, Sessions(w)
  PROVE  IInv'
<1>0. /\ clock \in Seconds /\ AutoLabel \in Labels
      /\ Loadable(w) =>
           /\ active[w] \in Dir /\ active[w].spec \in Spec
           /\ ConsistentSessions(active[w].spec)
  BY SoundDirs DEF IInv, TypeOK, SessionsConsistent, Labels
<1>1. ASSUME NEW id \in Owners, Resume(w, id)
      PROVE  IInv'
  <2> DEFINE s == StartSession(active[w].spec, id)
             d == [active[w] EXCEPT !.spec = s]
  <2>1. Loadable(w) /\ active[w].spec.active = NoSession
    BY <1>1 DEF Resume
  <2>2. s \in Spec /\ ConsistentSessions(s)
    BY <1>0, <2>1, StartSessionType, StartSessionConsistent
  <2>3. \A o \in TakeOutcomes : Sound(Take(d, clock, AutoLabel, o))
    BY <1>0, <2>1, <2>2, WriteTakeSound
  <2>4. \E o \in TakeOutcomes : Replace(w, Take(d, clock, AutoLabel, o))
    BY <1>1 DEF Resume
  <2> QED
    BY <2>3, <2>4, ReplaceInv
<1>2. CASE Shelve(w)
  BY <1>2, ShelveInv
<1>3. CASE ForceShelve(w)
  <2> DEFINE s == EndSession(active[w].spec)
             d == [active[w] EXCEPT !.spec = s]
  <2>1. Loadable(w)
    BY <1>3 DEF ForceShelve
  <2>2. s \in Spec /\ ConsistentSessions(s)
    BY <1>0, <2>1, EndSessionType, EndSessionConsistent
  <2>3. \A o \in TakeOutcomes : Sound(Take(d, clock, AutoLabel, o))
    BY <1>0, <2>1, <2>2, WriteTakeSound
  <2>4. \E o \in TakeOutcomes : Replace(w, Take(d, clock, AutoLabel, o))
    BY <1>3 DEF ForceShelve
  <2> QED
    BY <2>3, <2>4, ReplaceInv
<1> QED
  BY <1>1, <1>2, <1>3 DEF Sessions

\* Creating the outputs of a pass changes the files only.
LEMMA NewFilesSound ==
  ASSUME NEW d \in Dir, Sound(d), NEW fs \in SUBSET Artifacts
  PROVE  Sound([d EXCEPT !.files = fs])
<1>1. /\ [d EXCEPT !.files = fs] \in Dir
      /\ [d EXCEPT !.files = fs].spec = d.spec
  BY DEF Dir
<1> QED
  BY <1>1, SameSpecSound

\* kerf status keeps it, with its snapshot and prune.
LEMMA StatusInv ==
  ASSUME IInv, NEW w \in Works, NEW st \in Statuses, Status(w, st)
  PROVE  IInv'
<1> DEFINE s == [active[w].spec EXCEPT !.status = st]
           d == [active[w] EXCEPT !.spec = s]
<1>1. /\ clock \in Seconds /\ AutoLabel \in Labels
      /\ active[w] \in Dir /\ active[w].spec \in Spec
      /\ ConsistentSessions(active[w].spec)
      /\ Outputs[st] \in SUBSET Artifacts
  BY SoundDirs, BenchAssumption DEF IInv, TypeOK, SessionsConsistent, Labels, Status
<1>2. s \in Spec /\ ConsistentSessions(s)
  BY <1>1 DEF Spec, ConsistentSessions
<1>3. d \in Dir /\ d.spec = s /\ Sound(d)
  BY <1>1, <1>2, NewSpecSound
<1>4. [active[w] EXCEPT !.spec.status = st] = d
  BY <1>1 DEF Dir
<1>5. PICK o \in TakeOutcomes :
        \E v \in IF SnapshotsEnabled THEN Prune(Take(d, clock, AutoLabel, o), MaxSnapshots)
                                     ELSE {d} :
          Replace(w, [v EXCEPT !.files = v.files \cup Outputs[st]])
  BY <1>4 DEF Status
<1>5a. PICK v \in IF SnapshotsEnabled THEN Prune(Take(d, clock, AutoLabel, o), MaxSnapshots)
                                      ELSE {d} :
         Replace(w, [v EXCEPT !.files = v.files \cup Outputs[st]])
  BY <1>5
<1>6. v \in Dir /\ v.spec = d.spec
  <2>1. Take(d, clock, AutoLabel, o) \in Dir /\ Take(d, clock, AutoLabel, o).spec = d.spec
    <3>1. d \in Dir /\ d.spec \in Spec
      BY <1>2, <1>3
    <3> HIDE DEF d
    <3> QED
      BY <1>1, <1>5, <3>1, TakeSound
  <2>2. CASE SnapshotsEnabled
    BY <2>1, <2>2, <1>5a, PruneSound
  <2>3. CASE ~ SnapshotsEnabled
    BY <2>3, <1>3, <1>5a
  <2> QED
    BY <2>2, <2>3
<1>7. Sound(v) /\ v.files \cup Outputs[st] \in SUBSET Artifacts
  BY <1>1, <1>3, <1>6, SameSpecSound DEF Dir
<1>8. Sound([v EXCEPT !.files = v.files \cup Outputs[st]])
  BY <1>6, <1>7, NewFilesSound
<1> QED
  BY <1>5a, <1>8, ReplaceInv

\* kerf snapshot rewrites nothing but .history.
LEMMA SnapshotStep ==
  ASSUME IInv, NEW w \in Works, NEW l \in Labels, Snapshot(w, l)
  PROVE  /\ Loadable(w)
         /\ \E d \in Dir : d.spec = active[w].spec /\ Replace(w, d)
<1>1. /\ clock \in Seconds /\ Loadable(w)
      /\ active[w] \in Dir /\ active[w].spec \in Spec
  BY SoundDirs DEF IInv, TypeOK, Snapshot
<1>2. \A o \in TakeOutcomes : /\ Take(active[w], clock, l, o) \in Dir
                              /\ Take(active[w], clock, l, o).spec = active[w].spec
  BY <1>1, TakeSound
<1>3. CASE \E v \in Prune(Take(active[w], clock, l, "copied"), MaxSnapshots) : Replace(w, v)
  BY <1>1, <1>2, <1>3, PruneSound DEF TakeOutcomes
<1>4. CASE \E o \in TakeFailures : Replace(w, Take(active[w], clock, l, o))
  BY <1>1, <1>2, <1>4 DEF TakeOutcomes
<1> QED
  BY <1>3, <1>4 DEF Snapshot

\* kerf snapshot keeps it.
LEMMA SnapshotInv ==
  ASSUME IInv, NEW w \in Works, NEW l \in Labels, Snapshot(w, l)
  PROVE  IInv'
<1>1. Sound(active[w])
  BY SnapshotStep, SoundDirs DEF Loadable
<1> QED
  BY <1>1, SnapshotStep, SameSpecSound, ReplaceInv

\* kerf restore keeps the session data, whether its snapshot succeeds or not.
LEMMA RestoreStep ==
  ASSUME IInv, NEW w \in Works, NEW n \in SnapName, Restore(w, n)
  PROVE  /\ Loadable(w)
         /\ \E d \in Dir : /\ d.spec \in Spec
                            /\ d.spec.sessions = active[w].spec.sessions
                            /\ d.spec.active = active[w].spec.active
                            /\ Replace(w, d)
<1>1. /\ clock \in Seconds /\ Loadable(w) /\ PreRestore \in Labels
      /\ active[w] \in Dir /\ active[w].spec \in Spec
      /\ active[w].hist[n] # NoSnap
  BY SoundDirs DEF IInv, TypeOK, Restore, Labels
<1>2. CASE Replace(w, RestoreFrom(active[w], clock, n))
  BY <1>1, <1>2, RestoreSound
<1>3. CASE \E o \in TakeFailures : Replace(w, Take(active[w], clock, PreRestore, o))
  BY <1>1, <1>3, TakeSound DEF TakeOutcomes
<1> QED
  BY <1>1, <1>2, <1>3 DEF Restore

\* kerf restore keeps it, session data included.
LEMMA RestoreInv ==
  ASSUME IInv, NEW w \in Works, NEW n \in SnapName, Restore(w, n)
  PROVE  IInv'
<1>1. ConsistentSessions(active[w].spec)
  BY RestoreStep DEF IInv, SessionsConsistent
<1>2. PICK d \in Dir : /\ d.spec \in Spec
                      /\ d.spec.sessions = active[w].spec.sessions
                      /\ d.spec.active = active[w].spec.active
                      /\ Replace(w, d)
  BY RestoreStep
<1>3. Sound(d)
  BY <1>1, <1>2 DEF Sound, ConsistentSessions
<1> QED
  BY <1>2, <1>3, ReplaceInv

\* What kerf pin does to each work, however its snapshot ends.
PinResult(v, w, b, o) ==
  IF v = w THEN Take(AddPin(active[w], b), clock, AutoLabel, o)
  ELSE IF v \in PinOwners(b) THEN Take(RemovePin(active[v], b), clock, AutoLabel, o)
  ELSE active[v]

LEMMA PinStep ==
  ASSUME NEW w \in Works, NEW b \in Beads, Pin(w, b), NEW v \in Works
  PROVE  \E o \in TakeOutcomes : active'[v] = PinResult(v, w, b, o)
BY DEF Pin, PinResult

\* kerf pin keeps it, although it edits every work of the project.
LEMMA PinInv ==
  ASSUME IInv, NEW w \in Works, NEW b \in Beads, Pin(w, b)
  PROVE  IInv'
<1> DEFINE Gain(v) == [active[v].spec EXCEPT !.pinned = @ \cup {b}]
           Lose(v) == [active[v].spec EXCEPT !.pinned = @ \ {b}]
<1>1. clock \in Seconds /\ AutoLabel \in Labels
  BY DEF IInv, TypeOK, Labels
<1>2. ASSUME NEW v \in Works, Loadable(v)
      PROVE  \A o \in TakeOutcomes :
               /\ Sound(Take(AddPin(active[v], b), clock, AutoLabel, o))
               /\ Sound(Take(RemovePin(active[v], b), clock, AutoLabel, o))
  <2>1. /\ active[v] \in Dir /\ active[v].spec \in Spec
        /\ ConsistentSessions(active[v].spec)
    BY <1>2, SoundDirs DEF IInv, SessionsConsistent
  <2>2. /\ Gain(v) \in Spec /\ ConsistentSessions(Gain(v))
        /\ Lose(v) \in Spec /\ ConsistentSessions(Lose(v))
    BY <2>1 DEF Spec, ConsistentSessions
  <2>3. /\ AddPin(active[v], b) = [active[v] EXCEPT !.spec = Gain(v)]
        /\ RemovePin(active[v], b) = [active[v] EXCEPT !.spec = Lose(v)]
    BY <2>1 DEF AddPin, RemovePin, Dir, Spec
  <2> QED
    BY <1>1, <2>1, <2>2, <2>3, WriteTakeSound
<1>3. ASSUME NEW v \in Works
      PROVE  active'[v] = active[v] \/ Sound(active'[v])
  <2>1. PICK o \in TakeOutcomes : active'[v] = PinResult(v, w, b, o)
    BY PinStep
  <2> QED
    BY <2>1, <1>2 DEF Pin, PinOwners, PinResult
<1>4. /\ active' = [v \in Works |-> active'[v]]
      /\ archive' = archive /\ clock' = clock
  BY DEF Pin
<1>5. \A v \in Works : active'[v] \in Dir \cup {Absent}
  BY <1>3 DEF Sound, IInv, TypeOK
<1>6. TypeOK'
  BY <1>4, <1>5 DEF IInv, TypeOK
<1>7. ASSUME NEW v \in Works, Loadable(v)'
      PROVE  ConsistentSessions(active'[v].spec)
  BY <1>3, <1>7 DEF Sound, Loadable, Exists, IInv, SessionsConsistent
<1>8. ASSUME NEW v \in Works, Archived(v)', archive'[v].spec # NoSpec
      PROVE  ConsistentSessions(archive'[v].spec)
  BY <1>4, <1>8 DEF IInv, SessionsConsistent, Archived
<1> QED
  BY <1>6, <1>7, <1>8 DEF IInv, SessionsConsistent

\* Edits of artifacts by hand keep it.
LEMMA EditsInv ==
  ASSUME IInv, NEW w \in Works, Edits(w)
  PROVE  IInv'
<1>1. ASSUME NEW a \in Artifacts, WriteArtifact(w, a) \/ RemoveArtifact(w, a)
      PROVE  IInv'
  <2>1. Exists(w) /\ Sound(active[w]) /\ active[w] \in Dir
    BY <1>1, SoundDirs DEF WriteArtifact, RemoveArtifact, Sound
  <2>2. PICK fs \in SUBSET Artifacts : Replace(w, [active[w] EXCEPT !.files = fs])
    <3>1. /\ active[w].files \cup {a} \in SUBSET Artifacts
          /\ active[w].files \ {a} \in SUBSET Artifacts
      BY <2>1 DEF Dir
    <3> QED
      BY <1>1, <3>1 DEF WriteArtifact, RemoveArtifact
  <2> QED
    BY <2>1, <2>2, NewFilesSound, ReplaceInv
<1>2. ASSUME NEW b \in Beads, Pin(w, b)
      PROVE  IInv'
  BY <1>2, PinInv
<1> QED
  BY <1>1, <1>2 DEF Edits

\* The invariant is inductive.
LEMMA NextInv ==
  ASSUME IInv, [Next]_vars
  PROVE  IInv'
<1>1. ASSUME NEW w \in Works, Versions(w)
      PROVE  IInv'
  <2>1. UserLabels \cup {AutoLabel} \subseteq Labels
    BY DEF Labels
  <2> QED
    BY <1>1, <2>1, StatusInv, SnapshotInv, RestoreInv DEF Versions
<1>2. CASE ShelveInferred
  BY <1>2, ShelveInv DEF ShelveInferred
<1>3. CASE Tick
  <2>1. clock' \in Seconds /\ active' = active /\ archive' = archive
    BY <1>3, ClockAssumption DEF Tick, IInv, TypeOK, Seconds
  <2> QED
    BY <2>1 DEF IInv, TypeOK, SessionsConsistent, Loadable, Exists, Archived
<1>4. CASE UNCHANGED vars
  BY <1>4 DEF vars, IInv, TypeOK, SessionsConsistent, Loadable, Exists, Archived
<1> QED
  BY <1>1, <1>2, <1>3, <1>4, LifecycleInv, SessionsInv, EditsInv DEF Next

\* An empty bench and an empty archive.
LEMMA InitInv ==
  ASSUME Init
  PROVE  IInv
BY ClockAssumption DEF Init, IInv, TypeOK, SessionsConsistent, Seconds,
                       Loadable, Exists, Archived

\* The inductive invariant: types and session data.
THEOREM InvariantTheorem == BenchSpec => []IInv
<1> QED
  BY InitInv, NextInv, PTL DEF BenchSpec

\* Directories, snapshots and the archive stay well formed, so that every
\* restore finds a readable spec.yaml.
THEOREM TypeCorrect == BenchSpec => []TypeOK
BY InvariantTheorem, PTL DEF IInv

\* active_session and the session entries never disagree.
THEOREM SessionsCorrect == BenchSpec => []SessionsConsistent
BY InvariantTheorem, PTL DEF IInv

-----------------------------------------------------------------------------
(* 2. The session log and the session lease                                *)

\* A step that leaves the sessions of work v as they are.
Untouched(v) ==
  /\ Holder(v)' = Holder(v)
  /\ Loadable(v) /\ Loadable(v)' =>
       active'[v].spec.sessions = active[v].spec.sessions

Started(v) ==
  /\ active[v].spec.active = NoSession
  /\ \E id \in Owners :
       /\ active'[v].spec.active = id
       /\ active'[v].spec.sessions = StartSession(active[v].spec, id).sessions

Ended(v) ==
  /\ active'[v].spec.active = NoSession
  /\ active'[v].spec.sessions = EndSession(active[v].spec).sessions

\* What one step may do to the sessions of the work its command names.
Effect(v) ==
  Loadable(v) /\ Loadable(v)' =>
    \/ Started(v)
    \/ Ended(v)
    \/ active'[v].spec.active = active[v].spec.active /\ Untouched(v)

\* A command that rewrites one work leaves the others untouched.
LEMMA ReplaceEffect ==
  ASSUME IInv, NEW w \in Works, NEW d, Replace(w, d)
  PROVE  /\ active'[w] = d
         /\ \A v \in Works \ {w} : Untouched(v)
BY DEF IInv, TypeOK, Replace, Untouched, Holder, Loadable, Exists

\* A command that keeps the session data of the work it rewrites.
LEMMA KeepEffect ==
  ASSUME IInv, NEW w \in Works, NEW d, Replace(w, d), Loadable(w), d.spec # NoSpec, d # Absent,
         d.spec.sessions = active[w].spec.sessions,
         d.spec.active = active[w].spec.active
  PROVE  \A v \in Works : Untouched(v)
<1>1. Untouched(w)
  BY ReplaceEffect DEF Untouched, Holder, Loadable, Exists
<1> QED
  BY <1>1, ReplaceEffect

\* A work appears without sessions, or vanishes.
LEMMA LifecycleEffect ==
  ASSUME IInv, NEW w \in Works, Lifecycle(w)
  PROVE  Effect(w) /\ \A v \in Works \ {w} : Untouched(v)
<1>1. CASE \E id \in Owners : New(w, id)
  BY <1>1, ReplaceEffect DEF New, Effect, Loadable
<1>2. CASE NewUnknownArea(w)
  BY <1>2, ReplaceEffect DEF NewUnknownArea, Effect, Loadable
<1>3. CASE Archive(w)
  BY <1>3 DEF Archive, Effect, Untouched, Holder, Loadable, Exists, IInv, TypeOK
<1>4. CASE Unarchive(w)
  BY <1>4 DEF Unarchive, Effect, Untouched, Holder, Loadable, Exists, IInv, TypeOK
<1>5. CASE DeleteActive(w)
  BY <1>5, ReplaceEffect DEF DeleteActive, Effect, Loadable, Exists
<1>6. CASE DeleteArchived(w)
  BY <1>6 DEF DeleteArchived, Effect, Untouched, Holder, Loadable, Exists
<1> QED
  BY <1>1, <1>2, <1>3, <1>4, <1>5, <1>6 DEF Lifecycle

\* A session is opened at the end of the log, or the last one is closed.
LEMMA SessionsEffect ==
  ASSUME IInv, NEW w \in Works, Sessions(w)
  PROVE  Effect(w) /\ \A v \in Works \ {w} : Untouched(v)
<1>0. /\ clock \in Seconds /\ AutoLabel \in Labels
      /\ Loadable(w) => active[w] \in Dir /\ active[w].spec \in Spec
  BY SoundDirs DEF IInv, TypeOK, Labels
<1>1. ASSUME NEW id \in Owners, Resume(w, id)
      PROVE  Effect(w) /\ \A v \in Works \ {w} : Untouched(v)
  <2> DEFINE s == StartSession(active[w].spec, id)
             d == [active[w] EXCEPT !.spec = s]
  <2>0. PICK o \in TakeOutcomes : Replace(w, Take(d, clock, AutoLabel, o))
    BY <1>1 DEF Resume
  <2> DEFINE t == Take(d, clock, AutoLabel, o)
  <2>1. Loadable(w) /\ active[w].spec.active = NoSession /\ Replace(w, t)
    BY <1>1, <2>0 DEF Resume
  <2>2. s \in Spec /\ s.active = id
    BY <1>0, <2>1, StartSessionType DEF StartSession, Spec
  <2>3. d \in Dir /\ d.spec = s
    BY <1>0, <2>1, <2>2 DEF Dir
  <2>4. t.spec = s
    BY <1>0, <2>0, <2>2, <2>3, TakeSound
  <2>5. Started(w)
    BY <2>1, <2>2, <2>4, ReplaceEffect DEF Started
  <2> QED
    BY <2>1, <2>5, ReplaceEffect DEF Effect
<1>2. CASE Shelve(w)
  <2> DEFINE s == EndSession(active[w].spec)
  <2>0. PICK o \in TakeOutcomes :
          Replace(w, [Take(active[w], clock, AutoLabel, o) EXCEPT !.spec = s])
    BY <1>2 DEF Shelve
  <2> DEFINE t == Take(active[w], clock, AutoLabel, o)
  <2>1. Loadable(w) /\ Replace(w, [t EXCEPT !.spec = s])
    BY <1>2, <2>0 DEF Shelve
  <2>2. s.active = NoSession
    BY <1>0, <2>1 DEF EndSession, Spec
  <2>3. t \in Dir
    BY <1>0, <2>0, <2>1, TakeSound
  <2>4. [t EXCEPT !.spec = s].spec = s
    BY <2>3 DEF Dir
  <2> QED
    BY <2>1, <2>2, <2>4, ReplaceEffect DEF Effect, Ended
<1>3. CASE ForceShelve(w)
  <2> DEFINE s == EndSession(active[w].spec)
             d == [active[w] EXCEPT !.spec = s]
  <2>0. PICK o \in TakeOutcomes : Replace(w, Take(d, clock, AutoLabel, o))
    BY <1>3 DEF ForceShelve
  <2> DEFINE t == Take(d, clock, AutoLabel, o)
  <2>1. Loadable(w) /\ Replace(w, t)
    BY <1>3, <2>0 DEF ForceShelve
  <2>2. s \in Spec /\ s.active = NoSession
    BY <1>0, <2>1, EndSessionType DEF EndSession, Spec
  <2>3. d \in Dir /\ d.spec = s
    BY <1>0, <2>1, <2>2 DEF Dir
  <2>4. t.spec = s
    BY <1>0, <2>0, <2>2, <2>3, TakeSound
  <2> QED
    BY <2>1, <2>2, <2>4, ReplaceEffect DEF Effect, Ended
<1> QED
  BY <1>1, <1>2, <1>3 DEF Sessions

\* A status change touches no session.
LEMMA StatusEffect ==
  ASSUME IInv, NEW w \in Works, NEW st \in Statuses, Status(w, st)
  PROVE  \A v \in Works : Untouched(v)
<1> DEFINE s == [active[w].spec EXCEPT !.status = st]
           d == [active[w] EXCEPT !.spec = s]
<1>1. /\ clock \in Seconds /\ AutoLabel \in Labels /\ Loadable(w)
      /\ active[w] \in Dir /\ active[w].spec \in Spec
      /\ Outputs[st] \in SUBSET Artifacts
  BY SoundDirs, BenchAssumption DEF IInv, TypeOK, Labels, Status
<1>2. /\ s \in Spec
      /\ s.sessions = active[w].spec.sessions /\ s.active = active[w].spec.active
      /\ d \in Dir /\ d.spec = s
  BY <1>1 DEF Spec, Dir
<1>3. [active[w] EXCEPT !.spec.status = st] = d
  BY <1>1 DEF Dir
<1>4a. PICK o \in TakeOutcomes :
         \E v \in IF SnapshotsEnabled THEN Prune(Take(d, clock, AutoLabel, o), MaxSnapshots)
                                      ELSE {d} :
           Replace(w, [v EXCEPT !.files = v.files \cup Outputs[st]])
  BY <1>3 DEF Status
<1>4. PICK v \in IF SnapshotsEnabled THEN Prune(Take(d, clock, AutoLabel, o), MaxSnapshots)
                                     ELSE {d} :
        Replace(w, [v EXCEPT !.files = v.files \cup Outputs[st]])
  BY <1>4a
<1>5. v \in Dir /\ v.spec = s
  <2>1. Take(d, clock, AutoLabel, o) \in Dir /\ Take(d, clock, AutoLabel, o).spec = s
    <3>1. d \in Dir /\ d.spec = s /\ s \in Spec
      BY <1>2
    <3> HIDE DEF d, s
    <3> QED
      BY <1>1, <1>4a, <3>1, TakeSound
  <2>2. CASE SnapshotsEnabled
    BY <2>1, <2>2, <1>4, PruneSound
  <2>3. CASE ~ SnapshotsEnabled
    BY <2>3, <1>2, <1>4
  <2> QED
    BY <2>2, <2>3
<1> DEFINE e == [v EXCEPT !.files = v.files \cup Outputs[st]]
<1>6. e \in Dir /\ e.spec = s
  BY <1>1, <1>5 DEF Dir
<1> HIDE DEF e
<1>7. Replace(w, e)
  BY <1>4 DEF e
<1>8. e # Absent /\ e.spec # NoSpec
  BY <1>2, <1>6, AbsentValue, NoSpecIsNoSpec
<1> QED
  BY <1>1, <1>2, <1>6, <1>7, <1>8, KeepEffect

\* Snapshots and restores touch none.
LEMMA VersionsEffect ==
  ASSUME IInv, NEW w \in Works, Versions(w)
  PROVE  \A v \in Works : Untouched(v)
<1>1. ASSUME NEW l \in Labels, Snapshot(w, l)
      PROVE  \A v \in Works : Untouched(v)
  <2>1. PICK d \in Dir : d.spec = active[w].spec /\ Replace(w, d)
    BY <1>1, SnapshotStep
  <2>2. Loadable(w) /\ active[w].spec \in Spec
    BY <1>1, SnapshotStep, SoundDirs
  <2> QED
    BY <2>1, <2>2, KeepEffect, AbsentValue, NoSpecIsNoSpec
<1>2. ASSUME NEW n \in SnapName, Restore(w, n)
      PROVE  \A v \in Works : Untouched(v)
  <2>1. PICK d \in Dir : /\ d.spec \in Spec
                        /\ d.spec.sessions = active[w].spec.sessions
                        /\ d.spec.active = active[w].spec.active
                        /\ Replace(w, d)
    BY <1>2, RestoreStep
  <2> QED
    BY <1>2, <2>1, RestoreStep, KeepEffect, AbsentValue, NoSpecIsNoSpec
<1>3. UserLabels \cup {AutoLabel} \subseteq Labels
  BY DEF Labels
<1> QED
  BY <1>1, <1>2, <1>3, StatusEffect DEF Versions

\* A pin touches none, of whatever work.
LEMMA PinEffect ==
  ASSUME IInv, NEW w \in Works, NEW b \in Beads, Pin(w, b)
  PROVE  \A v \in Works : Untouched(v)
<1>1. clock \in Seconds /\ AutoLabel \in Labels
  BY DEF IInv, TypeOK, Labels
<1>2. ASSUME NEW d \in Dir, d.spec \in Spec, NEW e, e = AddPin(d, b) \/ e = RemovePin(d, b)
      PROVE  \A o \in TakeOutcomes :
               /\ Take(e, clock, AutoLabel, o) \in Dir
               /\ Take(e, clock, AutoLabel, o).spec \in Spec
               /\ Take(e, clock, AutoLabel, o).spec.sessions = d.spec.sessions
               /\ Take(e, clock, AutoLabel, o).spec.active = d.spec.active
  <2>1. PICK ps \in SUBSET Beads : e = [d EXCEPT !.spec = [d.spec EXCEPT !.pinned = ps]]
    <3>1. d.spec.pinned \cup {b} \in SUBSET Beads /\ d.spec.pinned \ {b} \in SUBSET Beads
      BY <1>2 DEF Spec
    <3>2. /\ AddPin(d, b) = [d EXCEPT !.spec = [d.spec EXCEPT !.pinned = d.spec.pinned \cup {b}]]
          /\ RemovePin(d, b) = [d EXCEPT !.spec = [d.spec EXCEPT !.pinned = d.spec.pinned \ {b}]]
      BY <1>2 DEF AddPin, RemovePin, Dir, Spec
    <3> QED
      BY <1>2, <3>1, <3>2
  <2>2. /\ e \in Dir /\ e.spec \in Spec
        /\ e.spec.sessions = d.spec.sessions /\ e.spec.active = d.spec.active
    BY <1>2, <2>1 DEF Dir, Spec
  <2> QED
    BY <1>1, <2>2, TakeSound
<1> SUFFICES ASSUME NEW v \in Works
             PROVE  Untouched(v)
  OBVIOUS
<1>3. PICK o \in TakeOutcomes : active'[v] = PinResult(v, w, b, o)
  BY PinStep
<1>4. CASE v = w \/ v \in PinOwners(b)
  <2>1. Loadable(v) /\ active[v] \in Dir /\ active[v].spec \in Spec
    BY <1>4, SoundDirs DEF Pin, PinOwners
  <2>2. /\ active'[v] \in Dir
        /\ active'[v].spec \in Spec
        /\ active'[v].spec.sessions = active[v].spec.sessions
        /\ active'[v].spec.active = active[v].spec.active
    BY <1>2, <1>3, <1>4, <2>1 DEF PinResult
  <2> QED
    BY <2>1, <2>2, AbsentValue, NoSpecIsNoSpec DEF Untouched, Holder, Loadable, Exists
<1>5. CASE ~ (v = w \/ v \in PinOwners(b))
  BY <1>3, <1>5 DEF PinResult, Untouched, Holder, Loadable, Exists
<1> QED
  BY <1>4, <1>5

\* Edits of artifacts touch none.
LEMMA EditsEffect ==
  ASSUME IInv, NEW w \in Works, Edits(w)
  PROVE  \A v \in Works : Untouched(v)
<1>1. ASSUME NEW a \in Artifacts, WriteArtifact(w, a) \/ RemoveArtifact(w, a)
      PROVE  \A v \in Works : Untouched(v)
  <2>1. Exists(w) /\ active[w] \in Dir
    BY <1>1, SoundDirs DEF WriteArtifact, RemoveArtifact, Sound
  <2>2. PICK fs \in SUBSET Artifacts : Replace(w, [active[w] EXCEPT !.files = fs])
    <3>1. /\ active[w].files \cup {a} \in SUBSET Artifacts
          /\ active[w].files \ {a} \in SUBSET Artifacts
      BY <2>1 DEF Dir
    <3> QED
      BY <1>1, <3>1 DEF WriteArtifact, RemoveArtifact
  <2> DEFINE d == [active[w] EXCEPT !.files = fs]
  <2>3. d \in Dir /\ d.spec = active[w].spec
    BY <2>1 DEF Dir
  <2>4. active'[w] = d /\ \A v \in Works \ {w} : Untouched(v)
    BY <2>2, ReplaceEffect
  <2>5. Untouched(w)
    BY <2>1, <2>3, <2>4, AbsentValue DEF Untouched, Holder, Loadable, Exists
  <2> QED
    BY <2>4, <2>5
<1>2. ASSUME NEW b \in Beads, Pin(w, b)
      PROVE  \A v \in Works : Untouched(v)
  BY <1>2, PinEffect
<1> QED
  BY <1>1, <1>2 DEF Edits

\* A step has an effect on the sessions of at most one work.
LEMMA NextEffect ==
  ASSUME IInv, [Next]_vars
  PROVE  \/ \A v \in Works : Untouched(v)
         \/ \E w \in Works : Effect(w) /\ \A v \in Works \ {w} : Untouched(v)
<1>1. CASE ShelveInferred
  BY <1>1, SessionsEffect DEF ShelveInferred, Sessions
<1>2. CASE Tick \/ UNCHANGED vars
  BY <1>2 DEF Tick, vars, Untouched, Holder, Loadable, Exists
<1> QED
  BY <1>1, <1>2, LifecycleEffect, SessionsEffect, VersionsEffect, EditsEffect DEF Next

-----------------------------------------------------------------------------
(* The session log grows.                                                  *)

\* Each effect leaves what the log had, as a prefix.
LEMMA EffectGrows ==
  ASSUME IInv, NEW v \in Works, Loadable(v), Loadable(v)', Effect(v) \/ Untouched(v)
  PROVE  Continues(active[v].spec.sessions, active'[v].spec.sessions)
<1> DEFINE a == active[v].spec.sessions
           b == active'[v].spec.sessions
<1>1. active[v].spec \in Spec /\ a \in Seq(SessionEntry)
  BY SoundDirs DEF Spec
<1>2. /\ Len(a) \in Nat
      /\ DOMAIN a = 1 .. Len(a)
      /\ \A i \in DOMAIN a : a[i] \in SessionEntry
  BY <1>1, LenProperties, ElementOfSeq
<1>3. CASE Started(v)
  <2>1. PICK id \in Owners : b = Append(a, [id |-> id, ended |-> FALSE])
    BY <1>1, <1>3 DEF Started, StartSession, Spec
  <2>2. [id |-> id, ended |-> FALSE] \in SessionEntry
    BY DEF SessionEntry
  <2>3. Len(b) = Len(a) + 1 /\ \A i \in 1 .. Len(a) : b[i] = a[i]
    BY <1>1, <2>1, <2>2, AppendProperties
  <2>4. Len(a) <= Len(b)
    BY <1>2, <2>3
  <2>5. \A i \in DOMAIN a : b[i].id = a[i].id /\ (a[i].ended => b[i].ended)
    BY <1>2, <2>3
  <2> QED
    BY <2>4, <2>5 DEF Continues
<1>4. CASE Ended(v)
  <2>1. b = [i \in DOMAIN a |-> IF LastOpen(active[v].spec, i)
                                  THEN [a[i] EXCEPT !.ended = TRUE] ELSE a[i]]
    BY <1>1, <1>4 DEF Ended, EndSession, Spec
  <2>2. \A i \in DOMAIN a : b[i].id = a[i].id /\ (a[i].ended => b[i].ended)
    BY <1>2, <2>1 DEF SessionEntry
  <2>3. EndSession(active[v].spec) \in Spec
    BY <1>1, EndSessionType
  <2>4. b \in Seq(SessionEntry)
    BY <1>4, <2>3 DEF Ended, Spec
  <2>5. Len(b) \in Nat /\ 1 .. Len(b) = 1 .. Len(a)
    BY <1>2, <2>1, <2>4, LenProperties
  <2>6. Len(a) = Len(b)
    BY <1>2, <2>5
  <2> QED
    BY <1>2, <2>2, <2>6 DEF Continues
<1>5. CASE Untouched(v)
  BY <1>2, <1>5 DEF Untouched, Continues
<1> QED
  BY <1>3, <1>4, <1>5 DEF Effect

\* No command, a restore included, drops or rewrites a session entry.
THEOREM LogGrows == BenchSpec => SessionLogGrows
<1>1. IInv /\ [Next]_vars =>
        [\A w \in Works : Loadable(w) /\ Loadable(w)' =>
           Continues(active[w].spec.sessions, active'[w].spec.sessions)]_vars
  BY NextEffect, EffectGrows
<1> QED
  BY <1>1, InvariantTheorem, PTL DEF BenchSpec, SessionLogGrows

-----------------------------------------------------------------------------
(* The lease.                                                              *)

\* The holder read from a directory is a session, the anonymous one, or none.
LEMMA HolderType ==
  ASSUME IInv, NEW v \in Works
  PROVE  /\ Loadable(v) => Holder(v) \in Owners \cup {NoSession}
         /\ ~ Loadable(v) => Holder(v) = Absent
BY SoundDirs DEF Holder, Spec

\* A step that touches work w only is a step of the lease.
LEMMA EffectLease ==
  ASSUME IInv, IInv', NEW w \in Works, Effect(w),
         \A v \in Works \ {w} : Untouched(v)
  PROVE  \/ Lease!Next
         \/ [v \in Works |-> Holder(v)]' = [v \in Works |-> Holder(v)]
<1> DEFINE h  == [v \in Works |-> Holder(v)]
           hp == [v \in Works |-> Holder(v)']
<1>1. /\ hp = [h EXCEPT ![w] = Holder(w)']
      /\ h[w] = Holder(w)
  BY DEF Untouched
<1>2. /\ Loadable(w) => h[w] = active[w].spec.active
      /\ Loadable(w)' => Holder(w)' = active'[w].spec.active
      /\ Loadable(w) => h[w] \in Owners \cup {NoSession}
      /\ Loadable(w)' => Holder(w)' \in Owners \cup {NoSession}
      /\ ~ Loadable(w) => h[w] = Absent
      /\ ~ Loadable(w)' => Holder(w)' = Absent
  <2>1. Loadable(w)' => Holder(w)' \in Owners \cup {NoSession}
    <3>1. Loadable(w)' => (active[w] \in Dir /\ active[w].spec \in Spec)'
      BY AbsentValue
         DEF IInv, TypeOK, SessionsConsistent, Exists, Loadable, Dir
    <3> QED
      BY <3>1 DEF Holder, Spec
  <2> QED
    BY <2>1, HolderType DEF Holder
<1>3. CASE ~ Loadable(w) /\ ~ Loadable(w)'
  BY <1>1, <1>2, <1>3
<1>4. CASE ~ Loadable(w) /\ Loadable(w)'
  <2>1. Lease!Appear(w)
    BY <1>1, <1>2, <1>4 DEF Lease!Appear
  <2> QED
    BY <2>1 DEF Lease!Next
<1>5. CASE Loadable(w) /\ ~ Loadable(w)'
  <2>1. h[w] # Absent
    BY <1>2, <1>5, AbsentValue
  <2>2. Lease!Vanish(w)
    BY <1>1, <1>2, <1>5, <2>1 DEF Lease!Vanish
  <2> QED
    BY <2>2 DEF Lease!Next
<1>6. CASE Loadable(w) /\ Loadable(w)'
  <2>1. CASE Started(w)
    <3>1. PICK id \in Owners : Lease!Acquire(w, id)
      BY <1>1, <1>2, <1>6, <2>1 DEF Started, Lease!Acquire
    <3> QED
      BY <3>1 DEF Lease!Next
  <2>2. CASE Ended(w) /\ h[w] # NoSession
    <3>1. Lease!Release(w)
      BY <1>1, <1>2, <1>6, <2>2 DEF Ended, Lease!Release
    <3> QED
      BY <3>1 DEF Lease!Next
  <2>3. CASE Ended(w) /\ h[w] = NoSession
    BY <1>1, <1>2, <1>6, <2>3 DEF Ended
  <2>4. CASE active'[w].spec.active = active[w].spec.active
    BY <1>1, <1>2, <1>6, <2>4
  <2> QED
    BY <1>6, <2>1, <2>2, <2>3, <2>4 DEF Effect
<1> QED
  BY <1>3, <1>4, <1>5, <1>6

\* The commands of Bench, run one at a time, implement the session lease.
THEOREM ImplementsLease == BenchSpec => LeaseRefined
<1>1. Init => Lease!Init
  BY DEF Init, Lease!Init, Holder, Loadable, Exists
<1>2. ASSUME IInv, IInv', [Next]_vars
      PROVE  \/ Lease!Next
             \/ [v \in Works |-> Holder(v)]' = [v \in Works |-> Holder(v)]
  <2>1. CASE \A v \in Works : Untouched(v)
    BY <2>1 DEF Untouched
  <2>2. CASE \E w \in Works : Effect(w) /\ \A v \in Works \ {w} : Untouched(v)
    BY <1>2, <2>2, EffectLease
  <2> QED
    BY <1>2, <2>1, <2>2, NextEffect
<1>3. IInv /\ IInv' /\ [Next]_vars =>
        [Lease!Next]_([w \in Works |-> Holder(w)])
  BY <1>2
<1> QED
  BY <1>1, <1>3, InvariantTheorem, PTL DEF BenchSpec, LeaseRefined, Lease!LeaseSpec

-----------------------------------------------------------------------------
(* 3. Archived works and the owners of beads                               *)

\* The commands touch the archive in three places, each with its guard.
THEOREM ArchiveKept == BenchSpec => ArchiveUntouched
<1>1. ASSUME IInv, Next \/ UNCHANGED vars, NEW w \in Works
      PROVE  Archived(w) /\ Archived(w)' => archive'[w] = archive[w]
  <2>1. archive \in [Works -> Dir \cup {Absent}]
    BY <1>1 DEF IInv, TypeOK
  <2>2. CASE \E v \in Works : Archive(v)
    BY <2>1, <2>2 DEF Archive, Archived
  <2>3. CASE \E v \in Works : Unarchive(v) \/ DeleteArchived(v)
    BY <2>1, <2>3 DEF Unarchive, DeleteArchived, Archived
  <2>4. CASE UNCHANGED archive
    BY <2>4
  <2>5. \/ \E v \in Works : Archive(v) \/ Unarchive(v) \/ DeleteArchived(v)
        \/ UNCHANGED archive
    BY <1>1 DEF Next, Lifecycle, Sessions, Versions, Edits, ShelveInferred, Tick, vars,
                New, NewUnknownArea, DeleteActive, Resume, Shelve, ForceShelve,
                Status, Snapshot, Restore, Pin, WriteArtifact, RemoveArtifact, Replace
  <2> QED
    BY <2>2, <2>3, <2>4, <2>5
<1>2. IInv /\ [Next]_vars =>
        [\A w \in Works : Archived(w) /\ Archived(w)' => archive'[w] = archive[w]]_vars
  BY <1>1
<1> QED
  BY <1>2, InvariantTheorem, PTL DEF BenchSpec, ArchiveUntouched

-----------------------------------------------------------------------------
\* A step that gives work v no bead.
NoGain(v) ==
  Loadable(v)' => \/ active'[v].spec.pinned = {}
                  \/ Loadable(v) /\ active'[v].spec.pinned \subseteq active[v].spec.pinned

\* A command that rewrites one work and adds no pin.
LEMMA ReplaceNoGain ==
  ASSUME IInv, NEW w \in Works, NEW d, Replace(w, d),
         \/ d = Absent \/ d.spec = NoSpec \/ d.spec.pinned = {}
         \/ Loadable(w) /\ d.spec.pinned \subseteq active[w].spec.pinned
  PROVE  \A v \in Works : NoGain(v)
<1>1. active'[w] = d /\ \A v \in Works \ {w} : active'[v] = active[v]
  BY DEF Replace, IInv, TypeOK
<1>2. NoGain(w)
  BY <1>1 DEF NoGain, Loadable, Exists
<1>3. \A v \in Works \ {w} : NoGain(v)
  BY <1>1 DEF NoGain, Loadable, Exists
<1> QED
  BY <1>2, <1>3

\* What session bookkeeping does to the pins: nothing.
LEMMA SpecPins ==
  ASSUME NEW s \in Spec
  PROVE  /\ \A id \in Owners : StartSession(s, id).pinned = s.pinned
         /\ EndSession(s).pinned = s.pinned
         /\ \A st \in Statuses : [s EXCEPT !.status = st].pinned = s.pinned
BY DEF StartSession, EndSession, Spec

\* Writing a spec with the same pins and taking a snapshot.
LEMMA TakePins ==
  ASSUME NEW d \in Dir, NEW s \in Spec, NEW now \in Seconds, NEW l \in Labels,
         NEW o \in TakeOutcomes
  PROVE  /\ [d EXCEPT !.spec = s] \in Dir /\ [d EXCEPT !.spec = s].spec = s
         /\ Take([d EXCEPT !.spec = s], now, l, o).spec = s
<1>1. [d EXCEPT !.spec = s] \in Dir /\ [d EXCEPT !.spec = s].spec = s
  BY DEF Dir
<1> QED
  BY <1>1, TakeSound

\* New, archive and delete give no work a bead.
LEMMA LifecycleNoGain ==
  ASSUME IInv, NEW w \in Works, Lifecycle(w), ~ Unarchive(w)
  PROVE  \A v \in Works : NoGain(v)
<1>1. ASSUME NEW id \in Owners, New(w, id)
      PROVE  \A v \in Works : NoGain(v)
  <2> DEFINE s == FreshSpec(InitialStatus, id)
             d == [EmptyDir EXCEPT !.spec = s]
  <2>1. s \in Spec /\ s.pinned = {}
    BY FreshSpecType, BenchAssumption DEF FreshSpec, StartSession
  <2>2. clock \in Seconds /\ AutoLabel \in Labels
    BY DEF IInv, TypeOK, Labels
  <2>3. \A o \in TakeOutcomes : Take(d, clock, AutoLabel, o).spec = s
    BY <2>1, <2>2, EmptyDirType, TakePins
  <2>4. \E o \in TakeOutcomes : Replace(w, Take(d, clock, AutoLabel, o))
    BY <1>1 DEF New
  <2> HIDE DEF d, s
  <2> QED
    BY <2>1, <2>3, <2>4, ReplaceNoGain
<1>2. CASE NewUnknownArea(w)
  BY <1>2, EmptyDirType, ReplaceNoGain DEF NewUnknownArea
<1>3. CASE Archive(w)
  BY <1>3 DEF Archive, NoGain, Loadable, Exists, IInv, TypeOK
<1>4. CASE DeleteActive(w)
  BY <1>4, ReplaceNoGain DEF DeleteActive
<1>5. CASE DeleteArchived(w)
  BY <1>5 DEF DeleteArchived, NoGain, Loadable, Exists
<1> QED
  BY <1>1, <1>2, <1>3, <1>4, <1>5 DEF Lifecycle

\* Resume and shelve give no work a bead.
LEMMA SessionsNoGain ==
  ASSUME IInv, NEW w \in Works, Sessions(w)
  PROVE  \A v \in Works : NoGain(v)
<1>0. /\ clock \in Seconds /\ AutoLabel \in Labels /\ Loadable(w)
      /\ active[w] \in Dir /\ active[w].spec \in Spec
  BY SoundDirs DEF IInv, TypeOK, Labels, Sessions, Resume, Shelve, ForceShelve
<1>1. ASSUME NEW id \in Owners, Resume(w, id)
      PROVE  \A v \in Works : NoGain(v)
  <2> DEFINE s == StartSession(active[w].spec, id)
  <2>0. PICK o \in TakeOutcomes :
          Replace(w, Take([active[w] EXCEPT !.spec = s], clock, AutoLabel, o))
    BY <1>1 DEF Resume
  <2> DEFINE t == Take([active[w] EXCEPT !.spec = s], clock, AutoLabel, o)
  <2>1. Replace(w, t)
    BY <2>0
  <2>2. t.spec = s /\ s.pinned = active[w].spec.pinned
    BY <1>0, <2>0, StartSessionType, TakePins, SpecPins
  <2> HIDE DEF t
  <2> QED
    BY <1>0, <2>1, <2>2, ReplaceNoGain
<1>2. CASE Shelve(w)
  <2> DEFINE s == EndSession(active[w].spec)
  <2>0. PICK o \in TakeOutcomes :
          Replace(w, [Take(active[w], clock, AutoLabel, o) EXCEPT !.spec = s])
    BY <1>2 DEF Shelve
  <2> DEFINE t == [Take(active[w], clock, AutoLabel, o) EXCEPT !.spec = s]
  <2>1. Replace(w, t)
    BY <2>0
  <2>2. t.spec = s /\ s.pinned = active[w].spec.pinned
    BY <1>0, <2>0, EndSessionType, TakeSound, TakePins, SpecPins
  <2> HIDE DEF t
  <2> QED
    BY <1>0, <2>1, <2>2, ReplaceNoGain
<1>3. CASE ForceShelve(w)
  <2> DEFINE s == EndSession(active[w].spec)
  <2>0. PICK o \in TakeOutcomes :
          Replace(w, Take([active[w] EXCEPT !.spec = s], clock, AutoLabel, o))
    BY <1>3 DEF ForceShelve
  <2> DEFINE t == Take([active[w] EXCEPT !.spec = s], clock, AutoLabel, o)
  <2>1. Replace(w, t)
    BY <2>0
  <2>2. t.spec = s /\ s.pinned = active[w].spec.pinned
    BY <1>0, <2>0, EndSessionType, TakePins, SpecPins
  <2> HIDE DEF t
  <2> QED
    BY <1>0, <2>1, <2>2, ReplaceNoGain
<1> QED
  BY <1>1, <1>2, <1>3 DEF Sessions

\* kerf status gives no work a bead.
LEMMA StatusNoGain ==
  ASSUME IInv, NEW w \in Works, NEW st \in Statuses, Status(w, st)
  PROVE  \A v \in Works : NoGain(v)
<1> DEFINE s == [active[w].spec EXCEPT !.status = st]
           d == [active[w] EXCEPT !.spec = s]
<1>1. /\ clock \in Seconds /\ AutoLabel \in Labels /\ Loadable(w)
      /\ active[w] \in Dir /\ active[w].spec \in Spec
  BY SoundDirs DEF IInv, TypeOK, Labels, Status
<1>2. s \in Spec /\ s.pinned = active[w].spec.pinned
  BY <1>1 DEF Spec
<1>3. d \in Dir /\ d.spec = s /\ d = [active[w] EXCEPT !.spec.status = st]
  BY <1>1, <1>2 DEF Dir
<1>4a. PICK o \in TakeOutcomes :
         \E v \in IF SnapshotsEnabled THEN Prune(Take(d, clock, AutoLabel, o), MaxSnapshots)
                                      ELSE {d} :
           Replace(w, [v EXCEPT !.files = v.files \cup Outputs[st]])
  BY <1>3 DEF Status
<1>4. PICK v \in IF SnapshotsEnabled THEN Prune(Take(d, clock, AutoLabel, o), MaxSnapshots)
                                     ELSE {d} :
        Replace(w, [v EXCEPT !.files = v.files \cup Outputs[st]])
  BY <1>4a
<1>5. v \in Dir /\ v.spec = s
  <2>1. Take(d, clock, AutoLabel, o) \in Dir /\ Take(d, clock, AutoLabel, o).spec = s
    <3>1. d \in Dir /\ d.spec = s /\ s \in Spec
      BY <1>2, <1>3
    <3> HIDE DEF d, s
    <3> QED
      BY <1>1, <1>4a, <3>1, TakeSound
  <2>2. CASE SnapshotsEnabled
    BY <2>1, <2>2, <1>4, PruneSound
  <2>3. CASE ~ SnapshotsEnabled
    BY <2>3, <1>3, <1>4
  <2> QED
    BY <2>2, <2>3
<1> DEFINE e == [v EXCEPT !.files = v.files \cup Outputs[st]]
<1>6. e.spec.pinned = active[w].spec.pinned /\ Replace(w, e)
  BY <1>2, <1>4, <1>5 DEF Dir
<1> HIDE DEF e
<1> QED
  BY <1>1, <1>6, ReplaceNoGain

\* kerf snapshot gives no work a bead.
LEMMA SnapshotNoGain ==
  ASSUME IInv, NEW w \in Works, NEW l \in Labels, Snapshot(w, l)
  PROVE  \A v \in Works : NoGain(v)
<1>1. PICK d \in Dir : d.spec = active[w].spec /\ Replace(w, d)
  BY SnapshotStep
<1>2. Loadable(w)
  BY SnapshotStep
<1> QED
  BY <1>1, <1>2, ReplaceNoGain

\* What agents write or delete in a work gives no work a bead.
LEMMA ArtifactsNoGain ==
  ASSUME IInv, NEW w \in Works, NEW a \in Artifacts,
         WriteArtifact(w, a) \/ RemoveArtifact(w, a)
  PROVE  \A v \in Works : NoGain(v)
<1>1. Exists(w) /\ active[w] \in Dir
  BY SoundDirs DEF WriteArtifact, RemoveArtifact, Sound
<1>2. PICK fs : Replace(w, [active[w] EXCEPT !.files = fs])
  BY DEF WriteArtifact, RemoveArtifact
<1> DEFINE d == [active[w] EXCEPT !.files = fs]
<1>3. d.spec = active[w].spec
  BY <1>1 DEF Dir
<1>4. Loadable(w) \/ d.spec = NoSpec
  BY <1>1, <1>3 DEF Loadable
<1> HIDE DEF d
<1>5. Replace(w, d)
  BY <1>2 DEF d
<1> QED
  BY <1>3, <1>4, <1>5, ReplaceNoGain

\* kerf pin takes its bead from all others, and gives and takes no other.
LEMMA PinMoves ==
  ASSUME IInv, NEW w \in Works, NEW b \in Beads, Pin(w, b)
  PROVE  /\ PinOwners(b)' = {w}
         /\ \A c \in Beads \ {b} : PinOwners(c)' \subseteq PinOwners(c)
<1>1. clock \in Seconds /\ AutoLabel \in Labels /\ Loadable(w)
  BY DEF IInv, TypeOK, Labels, Pin
<1>2. ASSUME NEW v \in Works, Loadable(v), NEW o \in TakeOutcomes
      PROVE  /\ Take(AddPin(active[v], b), clock, AutoLabel, o) \in Dir
             /\ Take(AddPin(active[v], b), clock, AutoLabel, o).spec \in Spec
             /\ Take(AddPin(active[v], b), clock, AutoLabel, o).spec.pinned
                   = active[v].spec.pinned \cup {b}
             /\ Take(RemovePin(active[v], b), clock, AutoLabel, o).spec.pinned
                   = active[v].spec.pinned \ {b}
  <2> DEFINE more == [active[v].spec EXCEPT !.pinned = active[v].spec.pinned \cup {b}]
             less == [active[v].spec EXCEPT !.pinned = active[v].spec.pinned \ {b}]
  <2>1. active[v] \in Dir /\ active[v].spec \in Spec
    BY <1>2, SoundDirs
  <2>2. /\ more \in Spec /\ more.pinned = active[v].spec.pinned \cup {b}
        /\ less \in Spec /\ less.pinned = active[v].spec.pinned \ {b}
    BY <2>1 DEF Spec
  <2>3. /\ AddPin(active[v], b) = [active[v] EXCEPT !.spec = more]
        /\ RemovePin(active[v], b) = [active[v] EXCEPT !.spec = less]
    BY <2>1 DEF AddPin, RemovePin, Dir, Spec
  <2> HIDE DEF more, less
  <2> DEFINE e == [active[v] EXCEPT !.spec = more]
  <2>4. e \in Dir /\ e.spec = more /\ AddPin(active[v], b) = e
    BY <1>1, <1>2, <2>1, <2>2, <2>3, TakePins
  <2> HIDE DEF e
  <2>5. /\ Take(AddPin(active[v], b), clock, AutoLabel, o) \in Dir
        /\ Take(AddPin(active[v], b), clock, AutoLabel, o).spec = more
    BY <1>1, <1>2, <2>2, <2>4, TakeSound
  <2>6. Take(RemovePin(active[v], b), clock, AutoLabel, o).spec = less
    BY <1>1, <1>2, <2>1, <2>2, <2>3, TakePins
  <2> QED
    BY <2>2, <2>5, <2>6
<1>3. ASSUME NEW v \in Works
      PROVE  \E o \in TakeOutcomes : active'[v] = PinResult(v, w, b, o)
  BY PinStep
<1>4. ASSUME NEW v \in Works \ {w}, Loadable(v)'
      PROVE  /\ Loadable(v)
             /\ active'[v].spec.pinned = active[v].spec.pinned \ {b}
  <2>1. CASE v \in PinOwners(b)
    BY <1>2, <1>3, <2>1 DEF PinOwners, PinResult
  <2>2. CASE v \notin PinOwners(b)
    BY <1>3, <1>4, <2>2 DEF PinOwners, PinResult, Loadable, Exists
  <2> QED
    BY <2>1, <2>2
<1>5. Loadable(w)' /\ active'[w].spec.pinned = active[w].spec.pinned \cup {b}
  BY <1>1, <1>2, <1>3, AbsentValue, NoSpecIsNoSpec DEF PinResult, Loadable, Exists
<1>6. PinOwners(b)' = {w}
  BY <1>4, <1>5 DEF PinOwners
<1>7. \A c \in Beads \ {b} : PinOwners(c)' \subseteq PinOwners(c)
  BY <1>1, <1>4, <1>5 DEF PinOwners
<1> QED
  BY <1>6, <1>7

\* A work gains a bead by kerf pin only, by a restore, or out of the archive.
LEMMA NextPins ==
  ASSUME IInv, [Next]_vars, NEW b \in Beads, NEW w \in Works,
         w \in PinOwners(b)', w \notin PinOwners(b)
  PROVE  \/ PinOwners(b)' = {w}
         \/ Unarchive(w)
         \/ \E n \in SnapName : Restore(w, n)
<1>1. CASE \A v \in Works : NoGain(v)
  BY <1>1 DEF NoGain, PinOwners
<1>2. ASSUME NEW v \in Works, NEW c \in Beads, Pin(v, c)
      PROVE  PinOwners(b)' = {w}
  BY <1>2, PinMoves
<1>3. ASSUME NEW v \in Works, Unarchive(v)
      PROVE  Unarchive(w)
  <2>1. v # w => active'[w] = active[w]
    BY <1>3 DEF Unarchive, IInv, TypeOK
  <2> QED
    BY <1>3, <2>1 DEF PinOwners, Loadable, Exists
<1>4. ASSUME NEW v \in Works, NEW n \in SnapName, Restore(v, n)
      PROVE  Restore(w, n)
  <2>1. v # w => active'[w] = active[w]
    BY <1>4 DEF Restore, Replace, IInv, TypeOK
  <2> QED
    BY <1>4, <2>1 DEF PinOwners, Loadable, Exists
<1>5. CASE ShelveInferred \/ Tick \/ UNCHANGED vars
  <2>1. CASE ShelveInferred
    BY <1>1, <2>1, SessionsNoGain DEF ShelveInferred, Sessions
  <2>2. CASE Tick \/ UNCHANGED vars
    BY <2>2 DEF Tick, vars, PinOwners, Loadable, Exists
  <2> QED
    BY <1>5, <2>1, <2>2
<1>6. UserLabels \cup {AutoLabel} \subseteq Labels
  BY DEF Labels
<1>7. CASE \E v \in Works : Lifecycle(v) \/ Sessions(v)
  BY <1>1, <1>3, <1>7, LifecycleNoGain, SessionsNoGain
<1>8. CASE \E v \in Works : Versions(v)
  BY <1>1, <1>4, <1>6, <1>8, StatusNoGain, SnapshotNoGain DEF Versions
<1>9. CASE \E v \in Works : Edits(v)
  BY <1>1, <1>2, <1>9, ArtifactsNoGain DEF Edits
<1> QED
  BY <1>5, <1>7, <1>8, <1>9 DEF Next

\* Whoever gains a bead is its only owner, restores and the printed mv out of
\* the archive apart.
THEOREM PinsMove == BenchSpec => PinTakesOwnership
<1>1. IInv /\ [Next]_vars =>
        [\A b \in Beads : \A w \in PinOwners(b)' \ PinOwners(b) :
           \/ PinOwners(b)' = {w}
           \/ Unarchive(w)
           \/ \E n \in SnapName : Restore(w, n)]_vars
  BY NextPins DEF PinOwners
<1> QED
  BY <1>1, InvariantTheorem, PTL DEF BenchSpec, PinTakesOwnership

-----------------------------------------------------------------------------
(* 4. Snapshots                                                            *)

\* The only snapshot of work v a step may drop without a prune.
NoLoss(v, l) ==
  Exists(v) /\ Exists(v)' =>
    \A n \in Present(active[v]) \ Present(active'[v]) : n = <<clock, l>>

\* What a prune may do to work v.
Pruned(v) ==
  \A n \in Present(active[v]) \ Present(active'[v]) :
    \/ n = <<clock, AutoLabel>>
    \/ /\ Cardinality(Present(active'[v])) = MaxSnapshots
       /\ \A k \in Present(active'[v]) : k[1] >= n[1]

\* A snapshot changes .history under its own name only.
LEMMA TakeKeeps ==
  ASSUME NEW d \in Dir, d.spec \in Spec, NEW now \in Seconds, NEW l \in Labels,
         NEW o \in TakeOutcomes
  PROVE  Present(d) \ {<<now, l>>} \subseteq Present(Take(d, now, l, o))
BY TakeSound DEF Present

\* One that succeeds leaves all of them there.
LEMMA CopiedKeeps ==
  ASSUME NEW d \in Dir, d.spec \in Spec, NEW now \in Seconds, NEW l \in Labels
  PROVE  Present(d) \subseteq Present(Take(d, now, l, "copied"))
BY CopiedThere, NoSnapIsNoSnap DEF Present

\* The newest stay, as many as the limit allows.
LEMMA PruneKeeps ==
  ASSUME NEW d \in Dir, NEW v \in Prune(d, MaxSnapshots)
  PROVE  \A n \in Present(d) \ Present(v) :
           /\ Cardinality(Present(v)) = MaxSnapshots
           /\ \A k \in Present(v) : k[1] >= n[1]
<1>1. PICK keep \in Kept(d, MaxSnapshots) : v = KeepOnly(d, keep)
  BY DEF Prune
<1>2. keep \subseteq Present(d)
  BY <1>1 DEF Kept
<1>3. Present(v) = keep
  BY <1>1, <1>2 DEF KeepOnly, Present, Dir
<1> QED
  BY <1>1, <1>3 DEF Kept

\* A command that rewrites one work and keeps its snapshots.
LEMMA ReplaceNoLoss ==
  ASSUME IInv, NEW w \in Works, NEW d, Replace(w, d),
         NEW l \in Labels,
         Exists(w) /\ d # Absent => Present(active[w]) \ {<<clock, l>>} \subseteq Present(d)
  PROVE  \A v \in Works : NoLoss(v, l)
<1>1. active'[w] = d /\ \A v \in Works \ {w} : active'[v] = active[v]
  BY DEF Replace, IInv, TypeOK
<1> QED
  BY <1>1 DEF NoLoss, Exists

\* The directory with another spec.yaml, other files or both.
LEMMA SameHistory ==
  ASSUME NEW d \in Dir
  PROVE  /\ \A s : Present([d EXCEPT !.spec = s]) = Present(d)
         /\ \A fs : Present([d EXCEPT !.files = fs]) = Present(d)
         /\ \A s \in Spec : [d EXCEPT !.spec = s] \in Dir /\ [d EXCEPT !.spec = s].spec = s
BY DEF Present, Dir

\* Writing a spec and taking a snapshot of the result.
LEMMA WriteTakeKeeps ==
  ASSUME NEW d \in Dir, NEW s \in Spec, NEW now \in Seconds, NEW l \in Labels,
         NEW o \in TakeOutcomes
  PROVE  Present(d) \ {<<now, l>>} \subseteq Present(Take([d EXCEPT !.spec = s], now, l, o))
<1> DEFINE e == [d EXCEPT !.spec = s]
<1>1. e \in Dir /\ e.spec \in Spec /\ Present(e) = Present(d)
  BY SameHistory
<1> HIDE DEF e
<1>2. Present(e) \ {<<now, l>>} \subseteq Present(Take(e, now, l, o))
  BY <1>1, TakeKeeps
<1> QED
  BY <1>1, <1>2 DEF e

\* New, archive and delete drop no snapshot of a work that stays.
LEMMA LifecycleNoLoss ==
  ASSUME IInv, NEW w \in Works, Lifecycle(w)
  PROVE  \A v \in Works : NoLoss(v, AutoLabel)
<1>0. AutoLabel \in Labels
  BY DEF Labels
<1>1. CASE (\E id \in Owners : New(w, id)) \/ NewUnknownArea(w) \/ DeleteActive(w)
  BY <1>0, <1>1, ReplaceNoLoss DEF New, NewUnknownArea, DeleteActive
<1>2. CASE Archive(w) \/ Unarchive(w) \/ DeleteArchived(w)
  BY <1>2 DEF Archive, Unarchive, DeleteArchived, NoLoss, Exists, IInv, TypeOK
<1> QED
  BY <1>1, <1>2 DEF Lifecycle

\* Resume and shelve drop no snapshot.
LEMMA SessionsNoLoss ==
  ASSUME IInv, NEW w \in Works, Sessions(w)
  PROVE  \A v \in Works : NoLoss(v, AutoLabel)
<1>0. /\ clock \in Seconds /\ AutoLabel \in Labels
      /\ active[w] \in Dir /\ active[w].spec \in Spec
  BY SoundDirs DEF IInv, TypeOK, Labels, Sessions, Resume, Shelve, ForceShelve
<1>1. ASSUME NEW s \in Spec, NEW o \in TakeOutcomes,
             Replace(w, Take([active[w] EXCEPT !.spec = s], clock, AutoLabel, o))
      PROVE  \A v \in Works : NoLoss(v, AutoLabel)
  BY <1>0, <1>1, WriteTakeKeeps, ReplaceNoLoss
<1>2. CASE \E id \in Owners : Resume(w, id)
  BY <1>0, <1>1, <1>2, StartSessionType DEF Resume
<1>3. CASE ForceShelve(w)
  BY <1>0, <1>1, <1>3, EndSessionType DEF ForceShelve
<1>4. CASE Shelve(w)
  <2>0. PICK o \in TakeOutcomes :
          Replace(w, [Take(active[w], clock, AutoLabel, o)
                        EXCEPT !.spec = EndSession(active[w].spec)])
    BY <1>4 DEF Shelve
  <2> DEFINE t == Take(active[w], clock, AutoLabel, o)
             d == [t EXCEPT !.spec = EndSession(active[w].spec)]
  <2>1. t \in Dir /\ Present(active[w]) \ {<<clock, AutoLabel>>} \subseteq Present(t)
    BY <1>0, <2>0, TakeSound, TakeKeeps
  <2>2. Replace(w, d)
    BY <2>0
  <2> HIDE DEF t
  <2>3. Present(active[w]) \ {<<clock, AutoLabel>>} \subseteq Present(d)
    BY <2>1, SameHistory
  <2> HIDE DEF d
  <2> QED
    BY <1>0, <2>2, <2>3, ReplaceNoLoss
<1> QED
  BY <1>2, <1>3, <1>4 DEF Sessions

\* A command that takes a snapshot and prunes.
LEMMA ReplacePruned ==
  ASSUME IInv, NEW w \in Works, NEW d \in Dir, NEW p \in Prune(d, MaxSnapshots), NEW e,
         Present(active[w]) \ {<<clock, AutoLabel>>} \subseteq Present(d),
         Present(e) = Present(p), Replace(w, e)
  PROVE  Pruned(w) /\ \A v \in Works \ {w} : NoLoss(v, AutoLabel)
<1>1. active'[w] = e /\ \A v \in Works \ {w} : active'[v] = active[v]
  BY DEF Replace, IInv, TypeOK
<1>2. \A n \in Present(d) \ Present(p) :
        /\ Cardinality(Present(p)) = MaxSnapshots
        /\ \A k \in Present(p) : k[1] >= n[1]
  BY PruneKeeps
<1> QED
  BY <1>1, <1>2 DEF Pruned, NoLoss

\* kerf status drops the oldest snapshots only.
LEMMA StatusPruned ==
  ASSUME IInv, NEW w \in Works, NEW st \in Statuses, Status(w, st)
  PROVE  (Pruned(w) \/ NoLoss(w, AutoLabel)) /\ \A v \in Works \ {w} : NoLoss(v, AutoLabel)
<1> DEFINE s == [active[w].spec EXCEPT !.status = st]
           d == [active[w] EXCEPT !.spec = s]
           t(o) == Take(d, clock, AutoLabel, o)
<1>1. /\ clock \in Seconds /\ AutoLabel \in Labels
      /\ active[w] \in Dir /\ active[w].spec \in Spec
  BY SoundDirs DEF IInv, TypeOK, Labels, Status
<1>2. s \in Spec /\ d = [active[w] EXCEPT !.spec.status = st]
  BY <1>1 DEF Spec, Dir
<1>3. d \in Dir /\ d.spec \in Spec /\ Present(d) = Present(active[w])
  BY <1>1, <1>2, SameHistory
<1>4a. PICK o \in TakeOutcomes :
         \E v \in IF SnapshotsEnabled THEN Prune(t(o), MaxSnapshots) ELSE {d} :
           Replace(w, [v EXCEPT !.files = v.files \cup Outputs[st]])
  BY <1>2 DEF Status
<1>4. t(o) \in Dir /\ Present(active[w]) \ {<<clock, AutoLabel>>} \subseteq Present(t(o))
  BY <1>1, <1>3, <1>4a, TakeSound, TakeKeeps
<1>5. PICK v \in IF SnapshotsEnabled THEN Prune(t(o), MaxSnapshots) ELSE {d} :
        Replace(w, [v EXCEPT !.files = v.files \cup Outputs[st]])
  BY <1>4a
<1> DEFINE e == [v EXCEPT !.files = v.files \cup Outputs[st]]
<1> HIDE DEF d, t
<1>6. v \in Dir
  BY <1>3, <1>4, <1>5, PruneSound
<1>7. Present(e) = Present(v) /\ Replace(w, e)
  BY <1>5, <1>6, SameHistory
<1> HIDE DEF e
<1>8. CASE SnapshotsEnabled
  BY <1>4, <1>5, <1>7, <1>8, ReplacePruned
<1>9. CASE ~ SnapshotsEnabled
  BY <1>1, <1>3, <1>5, <1>7, <1>9, ReplaceNoLoss
<1> QED
  BY <1>8, <1>9

\* kerf snapshot drops the oldest snapshots only, unless it fails.
LEMMA SnapshotPruned ==
  ASSUME IInv, NEW w \in Works, NEW l \in Labels, Snapshot(w, l)
  PROVE  (Pruned(w) \/ NoLoss(w, l)) /\ \A v \in Works \ {w} : NoLoss(v, l)
<1>1. clock \in Seconds /\ active[w] \in Dir /\ active[w].spec \in Spec
  BY SoundDirs DEF IInv, TypeOK, Snapshot
<1>2. CASE \E v \in Prune(Take(active[w], clock, l, "copied"), MaxSnapshots) : Replace(w, v)
  <2> DEFINE t == Take(active[w], clock, l, "copied")
  <2>1. t \in Dir /\ Present(active[w]) \subseteq Present(t)
    BY <1>1, CopiedThere, CopiedKeeps
  <2>2. PICK v \in Prune(t, MaxSnapshots) : Replace(w, v)
    BY <1>2
  <2> HIDE DEF t
  <2>3. Pruned(w)
    BY <2>1, <2>2, ReplacePruned
  <2>4. \A u \in Works \ {w} : active'[u] = active[u]
    BY <2>2 DEF Replace, IInv, TypeOK
  <2> QED
    BY <2>3, <2>4 DEF NoLoss
<1>3. CASE \E o \in TakeFailures : Replace(w, Take(active[w], clock, l, o))
  BY <1>1, <1>3, TakeKeeps, ReplaceNoLoss DEF TakeOutcomes
<1> QED
  BY <1>2, <1>3 DEF Snapshot

\* A restore drops no snapshot but the pre-restore one of the same second.
LEMMA RestoreNoLoss ==
  ASSUME IInv, NEW w \in Works, NEW n \in SnapName, Restore(w, n)
  PROVE  \A v \in Works : NoLoss(v, PreRestore)
<1> DEFINE t == Take(active[w], clock, PreRestore, "copied")
           d == RestoreFrom(active[w], clock, n)
<1>1. /\ clock \in Seconds /\ PreRestore \in Labels
      /\ active[w] \in Dir /\ active[w].spec \in Spec
  BY SoundDirs DEF IInv, TypeOK, Labels, Restore
<1>2. t \in Dir /\ Present(active[w]) \subseteq Present(t)
  BY <1>1, CopiedThere, CopiedKeeps
<1>3. Present(d) = Present(t)
  BY <1>2 DEF RestoreFrom, Present, Dir
<1>4. CASE Replace(w, d)
  <2> HIDE DEF d
  <2> QED
    BY <1>1, <1>2, <1>3, <1>4, ReplaceNoLoss
<1>5. CASE \E o \in TakeFailures : Replace(w, Take(active[w], clock, PreRestore, o))
  BY <1>1, <1>5, TakeKeeps, ReplaceNoLoss DEF TakeOutcomes
<1> QED
  BY <1>4, <1>5 DEF Restore

\* Pins drop no snapshot but the automatic one of the same second.
LEMMA EditsNoLoss ==
  ASSUME IInv, NEW w \in Works, Edits(w)
  PROVE  \A v \in Works : NoLoss(v, AutoLabel)
<1>1. ASSUME NEW a \in Artifacts, WriteArtifact(w, a) \/ RemoveArtifact(w, a)
      PROVE  \A v \in Works : NoLoss(v, AutoLabel)
  <2>1. active[w] \in Dir
    BY <1>1, SoundDirs DEF WriteArtifact, RemoveArtifact, Sound
  <2>2. AutoLabel \in Labels
    BY DEF Labels
  <2> QED
    BY <1>1, <2>1, <2>2, SameHistory, ReplaceNoLoss DEF WriteArtifact, RemoveArtifact
<1>2. ASSUME NEW b \in Beads, Pin(w, b), NEW v \in Works
      PROVE  NoLoss(v, AutoLabel)
  <2>1. clock \in Seconds /\ AutoLabel \in Labels
    BY DEF IInv, TypeOK, Labels
  <2>2. PICK o \in TakeOutcomes : active'[v] = PinResult(v, w, b, o)
    BY <1>2, PinStep
  <2> DEFINE same == <<clock, AutoLabel>>
  <2>3. ASSUME Loadable(v)
        PROVE  /\ Present(active[v]) \ {same}
                     \subseteq Present(Take(AddPin(active[v], b), clock, AutoLabel, o))
               /\ Present(active[v]) \ {same}
                     \subseteq Present(Take(RemovePin(active[v], b), clock, AutoLabel, o))
    <3> DEFINE more == [active[v].spec EXCEPT !.pinned = active[v].spec.pinned \cup {b}]
               less == [active[v].spec EXCEPT !.pinned = active[v].spec.pinned \ {b}]
    <3>1. active[v] \in Dir /\ active[v].spec \in Spec
      BY <2>3, SoundDirs
    <3>2. more \in Spec /\ less \in Spec
      BY <3>1 DEF Spec
    <3>3. /\ AddPin(active[v], b) = [active[v] EXCEPT !.spec = more]
          /\ RemovePin(active[v], b) = [active[v] EXCEPT !.spec = less]
      BY <3>1 DEF AddPin, RemovePin, Dir, Spec
    <3> HIDE DEF more, less
    <3> QED
      BY <2>1, <2>2, <3>1, <3>2, <3>3, WriteTakeKeeps
  <2> QED
    BY <1>2, <2>2, <2>3 DEF NoLoss, Pin, PinOwners, PinResult
<1> QED
  BY <1>1, <1>2 DEF Edits

\* What a step that is not a prune may drop of a work that stays.
LEMMA NextPrunes ==
  ASSUME IInv, [Next]_vars, NEW w \in Works, Exists(w), Exists(w)',
         NEW n \in Present(active[w]), n \notin Present(active'[w])
  PROVE  \/ /\ Cardinality(Present(active'[w])) = MaxSnapshots
            /\ \A k \in Present(active'[w]) : k[1] >= n[1]
         \/ Snapshotted(w, n)
<1>1. UserLabels \cup {AutoLabel} \subseteq Labels
  BY DEF Labels
<1>2. CASE NoLoss(w, AutoLabel) \/ Pruned(w)
  BY <1>2 DEF NoLoss, Pruned, Snapshotted
<1>3. CASE \E v \in Works : Lifecycle(v) \/ Sessions(v) \/ Edits(v)
  BY <1>2, <1>3, LifecycleNoLoss, SessionsNoLoss, EditsNoLoss
<1>4. CASE \E v \in Works, st \in Statuses : Status(v, st)
  BY <1>2, <1>4, StatusPruned
<1>5. ASSUME NEW v \in Works, NEW l \in UserLabels \cup {AutoLabel}, Snapshot(v, l)
      PROVE  Snapshotted(w, n) \/ Pruned(w)
  <2>1. active'[w] # active[w] => v = w
    BY <1>5 DEF Snapshot, Replace, IInv, TypeOK
  <2>2. v = w
    BY <2>1
  <2>3. NoLoss(w, l) \/ Pruned(w)
    BY <1>1, <1>5, <2>2, SnapshotPruned
  <2> QED
    BY <1>5, <2>2, <2>3 DEF NoLoss, Snapshotted
<1>6. ASSUME NEW v \in Works, NEW m \in SnapName, Restore(v, m)
      PROVE  Snapshotted(w, n)
  <2>1. active'[w] # active[w] => v = w
    BY <1>6 DEF Restore, Replace, IInv, TypeOK
  <2> QED
    BY <1>6, <2>1, RestoreNoLoss DEF NoLoss, Snapshotted
<1>7. CASE ShelveInferred
  BY <1>2, <1>7, SessionsNoLoss DEF ShelveInferred, Sessions
<1>8. CASE Tick \/ UNCHANGED vars
  BY <1>8 DEF Tick, vars
<1> QED
  BY <1>2, <1>3, <1>4, <1>5, <1>6, <1>7, <1>8 DEF Next, Versions

\* Neither a prune nor a failed snapshot takes recent history of another name,
\* whatever the limit.
THEOREM RecentHistoryKept == BenchSpec => PruneKeepsNewest
<1>1. IInv /\ [Next]_vars =>
        [\A w \in Works : Exists(w) /\ Exists(w)' =>
           \A n \in Present(active[w]) \ Present(active[w])' :
             \/ /\ Cardinality(Present(active[w])') = MaxSnapshots
                /\ \A k \in Present(active[w])' : k[1] >= n[1]
             \/ Snapshotted(w, n)]_vars
  BY NextPrunes
<1> QED
  BY <1>1, InvariantTheorem, PTL DEF BenchSpec, PruneKeepsNewest
=============================================================================
