---------------------------- MODULE SessionLease ----------------------------
(***************************************************************************)
(* What session tracking promises (specs/sessions.md), without spec.yaml,  *)
(* snapshots or the archive: a live work is leased to at most one session, *)
(* a session gets a free work only, and the lease is given up before       *)
(* another session gets it.                                                *)
(***************************************************************************)
CONSTANTS
  Works,   \* codenames
  Owners,  \* sessions that may hold a work
  Free,    \* the work is live and no session holds it
  Gone     \* there is no live, readable work of this name

VARIABLE lease  \* codename -> Gone, Free or the session that holds it

Init == lease = [w \in Works |-> Gone]

\* A work appears: created by a session, or moved back with the lease it had.
Appear(w) ==
  /\ lease[w] = Gone
  /\ \E h \in Owners \cup {Free} : lease' = [lease EXCEPT ![w] = h]

Acquire(w, id) ==
  /\ lease[w] = Free
  /\ lease' = [lease EXCEPT ![w] = id]

Release(w) ==
  /\ lease[w] \in Owners
  /\ lease' = [lease EXCEPT ![w] = Free]

\* The work is archived or deleted, whoever holds it.
Vanish(w) ==
  /\ lease[w] # Gone
  /\ lease' = [lease EXCEPT ![w] = Gone]

Next ==
  \E w \in Works :
    \/ Appear(w)
    \/ \E id \in Owners : Acquire(w, id)
    \/ Release(w)
    \/ Vanish(w)

LeaseSpec == Init /\ [][Next]_lease

=============================================================================
