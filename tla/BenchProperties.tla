-------------------------- MODULE BenchProperties --------------------------
(***************************************************************************)
(* What the commands of Bench must keep true, whatever order they run in.  *)
(***************************************************************************)
EXTENDS Bench

\* Every directory is well formed, and every snapshot in it holds a readable
\* spec.yaml for kerf restore to put back.
TypeOK ==
  /\ active \in [Works -> Dir \cup {Absent}]
  /\ archive \in [Works -> Dir \cup {Absent}]
  /\ clock \in Seconds

-----------------------------------------------------------------------------
(* Sessions.                                                               *)

\* active_session names the last session entry exactly while that entry is
\* open, and no earlier entry is ever open.
ConsistentSessions(s) ==
  /\ \A i \in DOMAIN s.sessions :
       ~ s.sessions[i].ended =>
         /\ i = Len(s.sessions)
         /\ s.active = s.sessions[i].id
  /\ s.active # NoSession =>
       \E i \in DOMAIN s.sessions : ~ s.sessions[i].ended

\* Session bookkeeping (internal/session) never disagrees with itself in any
\* live or archived work, through resumes, shelves, force-shelves and
\* restores: FindActiveWork, resume's refusal and EndSession's choice of the
\* entry to close all rest on it.
SessionsConsistent ==
  \A w \in Works :
    /\ Loadable(w) => ConsistentSessions(active[w].spec)
    /\ Archived(w) /\ archive[w].spec # NoSpec =>
         ConsistentSessions(archive[w].spec)

\* Log b continues log a: nothing dropped, renamed or reopened.
Continues(a, b) ==
  /\ Len(a) <= Len(b)
  /\ \A i \in DOMAIN a :
       /\ b[i].id = a[i].id
       /\ a[i].ended => b[i].ended

\* The session history of a live work is append-only: no command, a restore
\* of an older snapshot included, drops, rewrites or reopens an entry
\* (specs/snapshots.md, Session Data Preservation; sessions[1] is the creator).
SessionLogGrows ==
  [][\A w \in Works : Loadable(w) /\ Loadable(w)' =>
       Continues(active[w].spec.sessions, active'[w].spec.sessions)]_vars

\* The session that holds the live work w, NoSession when it is free.
Holder(w) == IF Loadable(w) THEN active[w].spec.active ELSE Absent

Lease == INSTANCE SessionLease
           WITH Free <- NoSession, Gone <- Absent,
                lease <- [w \in Works |-> Holder(w)]

\* Commands run one at a time implement the lease: a work never passes from
\* one session to another without being shelved, archived or deleted between.
LeaseRefined == Lease!LeaseSpec

-----------------------------------------------------------------------------
(* The archive.                                                            *)

\* An archived work is not changed or overwritten while it stays in the
\* archive, although kerf new may reuse its codename and kerf archive may be
\* asked to archive that second work.
ArchiveUntouched ==
  [][\A w \in Works : Archived(w) /\ Archived(w)' => archive'[w] = archive[w]]_vars

-----------------------------------------------------------------------------
(* Snapshots.                                                              *)

\* The step writes, or fails to write, the snapshot n of work w.
Snapshotted(w, n) ==
  /\ n[1] = clock
  /\ \/ n[2] = AutoLabel
     \/ n[2] \in UserLabels /\ Snapshot(w, n[2])
     \/ n[2] = PreRestore /\ \E m \in SnapName : Restore(w, m)

\* A snapshot disappears only in a prune that leaves as many as the limit
\* allows, each at least as new, or with a snapshot of the same second and
\* label that fails and is cleaned up: neither a prune nor a failed copy ever
\* takes recent history of another name (internal/snapshot Take and Prune).
PruneKeepsNewest ==
  [][\A w \in Works : Exists(w) /\ Exists(w)' =>
       \A n \in Present(active[w]) \ Present(active[w])' :
         \/ /\ Cardinality(Present(active[w])') = MaxSnapshots
            /\ \A k \in Present(active[w])' : k[1] >= n[1]
         \/ Snapshotted(w, n)]_vars

-----------------------------------------------------------------------------
(* Pins.                                                                   *)

\* A work that gains a bead is from then on its only owner, unless it gains
\* it by a restore or by moving back from the archive.
PinTakesOwnership ==
  [][\A b \in Beads : \A w \in PinOwners(b)' \ PinOwners(b) :
       \/ PinOwners(b)' = {w}
       \/ Unarchive(w)
       \/ \E n \in SnapName : Restore(w, n)]_vars

=============================================================================
