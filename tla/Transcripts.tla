---------------------------- MODULE Transcripts ----------------------------
(***************************************************************************)
(* The abandoned-dispatch warnings of kerf next (cmd/next.go collectD1-    *)
(* Warnings): transcripts that coding sessions are still appending to are  *)
(* read through a cache of parsed files (internal/kerftranscript), git log *)
(* is indexed by bead, and dispatches that took long without a commit are  *)
(* reported (internal/diagnostics).  Several kerf next share the cache.    *)
(* Every transcript is one session; a line is written in two steps, and a  *)
(* write changes the modification time.  Paths, JSON and text are left     *)
(* out: a line is the event the Claude adapter makes of it.                *)
(***************************************************************************)
EXTENDS Naturals, Sequences, FiniteSets

CONSTANTS
    Files,      \* the transcripts in the directory
    SubAgents,  \* the dispatches (tool_use ids)
    FileOf,     \* the transcript each is dispatched from
    BeadOf,     \* the bead its prompt names first
    Beads,      \* bead IDs
    ParentOf,   \* the bead a subtask ID belongs to, or the bead itself
    Nexts,      \* kerf next processes
    Floor,      \* D1DispatchFloor, in ticks
    Day,        \* the age of an orphan, in ticks
    MaxClock,   \* bound on the clock
    Failing,    \* the sub-agents that come back with an error
    None

ASSUME TranscriptsAssumption ==
    /\ FileOf \in [SubAgents -> Files] /\ BeadOf \in [SubAgents -> Beads]
    /\ ParentOf \in [Beads -> Beads]
    /\ Floor \in Nat \ {0} /\ Day \in Nat /\ MaxClock \in Nat
    /\ None \notin Files

VARIABLES
    clock,
    lines,      \* the complete lines of each transcript
    pending,    \* the line being written to each, or None
    gone,       \* the transcripts that have been deleted
    choked,     \* those with a line that is too long for the scanner
    served,     \* sub-agents that committed for their bead before they returned
    commits,    \* bead IDs in the messages of git log --all
    head,       \* git rev-parse HEAD: how often it has moved
    cache,      \* .kerf/diagnostics-cache.json, or None
    next,       \* each kerf next: its control point and what it holds
    owed        \* what was settled, and unpaid, when each began

sessionVars == <<lines, pending, gone, choked, served, commits, head>>
vars == <<clock, sessionVars, cache, next, owed>>

----------------------------------------------------------------------------
(* The events, and what is made of them. *)

Dispatched(a, t) == [kind |-> "dispatch", agent |-> a, at |-> t, error |-> FALSE]
Returned(a, t) == [kind |-> "tool_result", agent |-> a, at |-> t, error |-> a \in Failing]

Here(f) == f \notin gone
MTime(f) == 2 * Len(lines[f]) + (IF pending[f] = None THEN 0 ELSE 1)

\* A line that is not complete is a parse error, and skipped.
ParseFile(f) == lines[f]

EventSet(events) == {events[i] : i \in DOMAIN events}
\* ExtractBeadIDs: the first ID in the prompt that the pattern matches.
BeadID(event) == BeadOf[event.agent]

Dispatches(events) == {e \in events : e.kind = "dispatch"}
Results(events, a) == {e \in events : e.kind = "tool_result" /\ e.agent = a}

\* Mutant of Keyed: a commit for a subtask does not count for its parent.
KeyedExactly(found) == found

\* Index.ingest: a subtask's commit is found under its parent, too.
Keyed(found) == found \cup {ParentOf[b] : b \in found}

LastActivity(events, d) ==
    LET times == {d.at} \cup {r.at : r \in Results(events, d.agent)} IN
    CHOOSE t \in times : \A u \in times : u <= t

\* A bead_close event, which would excuse an orphan, is made of no line.
Reason(events, d, now) ==
    LET results == Results(events, d.agent) IN
    CASE \E r \in results : r.error                -> "errored_mid_task"
      [] now > LastActivity(events, d) + Day       -> "orphaned"
      [] results = {}                              -> "tool_linkage_broken"
      [] OTHER                                     -> "appears_completed_no_commit"

\* Mutant of Abandoned: a dispatch that lasted as long as the floor is left out.
AbandonedAbove(events, found) ==
    {d \in Dispatches(events) :
        /\ LastActivity(events, d) > d.at + Floor
        /\ BeadID(d) \notin Keyed(found)}

\* DetectD1
Abandoned(events, found) ==
    {d \in Dispatches(events) :
        /\ LastActivity(events, d) >= d.at + Floor
        /\ BeadID(d) \notin Keyed(found)}

Findings(events, found, now) ==
    {[agent |-> d.agent, reason |-> Reason(events, d, now)] :
        d \in Abandoned(events, found)}

----------------------------------------------------------------------------
Idle == [at |-> "idle", head |-> 0, known |-> None, todo |-> {}, file |-> None,
         mtime |-> 0, entries |-> <<>>, found |-> {}]

Init ==
    /\ clock = 0
    /\ lines = [f \in Files |-> <<>>]
    /\ pending = [f \in Files |-> None]
    /\ gone = {} /\ choked = {} /\ served = {} /\ commits = {} /\ head = 0
    /\ cache = None
    /\ next = [p \in Nexts |-> Idle]
    /\ owed = [p \in Nexts |-> {}]

Tick ==
    /\ clock < MaxClock
    /\ clock' = clock + 1
    /\ UNCHANGED <<sessionVars, cache, next, owed>>

----------------------------------------------------------------------------
(* The sessions. *)

All(f) == EventSet(lines[f]) \cup (IF pending[f] = None THEN {} ELSE {pending[f]})
Working(a) == \E d \in Dispatches(All(FileOf[a])) : d.agent = a
Done(a) == Results(All(FileOf[a]), a) # {}

Begin(f, event) ==
    /\ Here(f) /\ pending[f] = None
    /\ pending' = [pending EXCEPT ![f] = event]
    /\ UNCHANGED <<clock, lines, gone, choked, served, commits, head, cache, next, owed>>

Dispatch(a) == ~Working(a) /\ Begin(FileOf[a], Dispatched(a, clock))

Return(a) ==
    /\ Working(a) /\ ~Done(a)
    /\ Begin(FileOf[a], Returned(a, clock))

\* The line may turn out too long: over maxLine, 4 MB.
EndLine(f) ==
    /\ Here(f) /\ pending[f] # None
    /\ lines' = [lines EXCEPT ![f] = Append(@, pending[f])]
    /\ pending' = [pending EXCEPT ![f] = None]
    /\ choked' \in {choked, choked \cup {f}}
    /\ UNCHANGED <<clock, gone, served, commits, head, cache, next, owed>>

\* A sub-agent commits for its bead or a subtask of it, on the branch that is
\* checked out here or in a worktree of its own.
Commit(a, b, here) ==
    /\ Working(a) /\ ~Done(a)
    /\ BeadOf[a] \in {b, ParentOf[b]} /\ b \notin commits
    /\ commits' = commits \cup {b}
    /\ served' = served \cup {a}
    /\ head' = IF here THEN head + 1 ELSE head
    /\ UNCHANGED <<clock, lines, pending, gone, choked, cache, next, owed>>

\* The harness deletes old transcripts.
Remove(f) ==
    /\ Here(f)
    /\ gone' = gone \cup {f}
    /\ UNCHANGED <<clock, lines, pending, choked, served, commits, head, cache, next, owed>>

Session ==
    \/ \E a \in SubAgents : Dispatch(a) \/ Return(a)
    \/ \E a \in SubAgents, b \in Beads, here \in BOOLEAN : Commit(a, b, here)
    \/ \E f \in Files : EndLine(f) \/ Remove(f)

----------------------------------------------------------------------------
(* kerf next *)

At(p, point) == next[p].at = point
Set(p, rec) == next' = [next EXCEPT ![p] = rec]

\* Dispatches that came back late, of a bead that nobody has committed for.
Settled ==
    {a \in SubAgents :
        /\ \E d, r \in EventSet(lines[FileOf[a]]) :
            /\ d.agent = a /\ d.kind = "dispatch"
            /\ r.agent = a /\ r.kind = "tool_result"
            /\ r.at >= d.at + Floor
        /\ BeadOf[a] \notin Keyed(commits)}

Start(p) ==
    /\ At(p, "idle")
    /\ Set(p, [Idle EXCEPT !.at = IF Files \subseteq gone THEN "detect" ELSE "load",
                           !.head = head, !.todo = Files \ gone])
    /\ owed' = [owed EXCEPT ![p] = Settled]
    /\ UNCHANGED <<clock, sessionVars, cache>>

\* loadCache: what is of another HEAD is dropped.
Load(p) ==
    /\ At(p, "load")
    /\ Set(p, [next[p] EXCEPT
                !.at = "stat",
                !.known = IF cache # None /\ cache.head = next[p].head THEN cache.entries ELSE <<>>])
    /\ UNCHANGED <<clock, sessionVars, cache, owed>>

Entry(mtime, events) == [mtime |-> mtime, events |-> events]
With(entries, f, entry) ==
    [g \in DOMAIN entries \cup {f} |-> IF g = f THEN entry ELSE entries[g]]

\* The modification time comes first, the contents later.
Stat(p, f) ==
    /\ At(p, "stat") /\ f \in next[p].todo
    /\ LET rest == [next[p] EXCEPT !.todo = @ \ {f}] IN
       Set(p, IF ~Here(f) THEN rest
              ELSE IF f \in DOMAIN next[p].known /\ next[p].known[f].mtime = MTime(f)
              THEN [rest EXCEPT !.entries = With(@, f, next[p].known[f])]
              ELSE [rest EXCEPT !.at = "parse", !.file = f, !.mtime = MTime(f)])
    /\ UNCHANGED <<clock, sessionVars, cache, owed>>

\* A transcript that the scanner gives up is skipped whole.
Parse(p) ==
    /\ At(p, "parse")
    /\ LET f == next[p].file IN
       Set(p, [next[p] EXCEPT
                !.at = "stat", !.file = None, !.mtime = 0,
                !.entries = IF Here(f) /\ f \notin choked
                            THEN With(@, f, Entry(next[p].mtime, ParseFile(f)))
                            ELSE @])
    /\ UNCHANGED <<clock, sessionVars, cache, owed>>

Events(entries) == UNION {EventSet(entries[f].events) : f \in DOMAIN entries}

\* Mutant of Write: the times are taken when the cache is written.
WriteRestamped(p) ==
    /\ At(p, "stat") /\ next[p].todo = {}
    /\ cache' = [head |-> next[p].head,
                 entries |-> [f \in DOMAIN next[p].entries |->
                                Entry(MTime(f), next[p].entries[f].events)]]
    /\ Set(p, [next[p] EXCEPT
                !.at = IF Events(next[p].entries) = {} THEN "detect" ELSE "index",
                !.known = None, !.head = 0])
    /\ UNCHANGED <<clock, sessionVars, owed>>

\* writeCache replaces the file; its errors are ignored.
Write(p) ==
    /\ At(p, "stat") /\ next[p].todo = {}
    /\ cache' \in {cache, [head |-> next[p].head, entries |-> next[p].entries]}
    /\ Set(p, [next[p] EXCEPT
                !.at = IF Events(next[p].entries) = {} THEN "detect" ELSE "index",
                !.known = None, !.head = 0])
    /\ UNCHANGED <<clock, sessionVars, owed>>

\* NewIndex: git log --all
BuildIndex(p) ==
    /\ At(p, "index")
    /\ Set(p, [next[p] EXCEPT !.at = "detect", !.found = commits])
    /\ UNCHANGED <<clock, sessionVars, cache, owed>>

Exit(p) ==
    /\ Set(p, Idle) /\ owed' = [owed EXCEPT ![p] = {}]
    /\ UNCHANGED <<clock, sessionVars, cache>>

\* DetectD1: what is printed.
Report(p) == Findings(Events(next[p].entries), next[p].found, clock)
Detect(p) == At(p, "detect") /\ Exit(p)

Kill(p) ==
    /\ next[p].at \in {"load", "stat", "parse", "index"}
    /\ Exit(p)

KerfNext(p) ==
    \/ Start(p) \/ Load(p) \/ Parse(p) \/ Write(p) \/ BuildIndex(p) \/ Detect(p)
    \/ \E f \in Files : Stat(p, f)

Next == Tick \/ Session \/ \E p \in Nexts : KerfNext(p) \/ Kill(p)

TranscriptsSpec == Init /\ [][Next]_vars

----------------------------------------------------------------------------
(***************************************************************************)
(* An entry of the shared cache that the next reader would take for the    *)
(* transcript is the transcript's parse, although sessions append to the   *)
(* files while they are read and several kerf next overwrite the cache.    *)
(***************************************************************************)
CacheNeverStale ==
    cache # None =>
        \A f \in DOMAIN cache.entries :
            Here(f) /\ cache.entries[f].mtime = MTime(f)
                => cache.entries[f].events = ParseFile(f)

(***************************************************************************)
(* A sub-agent that committed for its bead, or for a subtask of it, before *)
(* it returned is not reported as abandoned, wherever the commit falls     *)
(* between the reading of its transcript and of the git log.               *)
(***************************************************************************)
NoFalseAlarm ==
    \A p \in Nexts : At(p, "detect") =>
        \A finding \in Report(p) : finding.agent \notin served

(***************************************************************************)
(* A dispatch that had come back late and without a commit when kerf next  *)
(* was started is in its report, unless somebody else has committed for    *)
(* the bead, or the transcript has been deleted, since.  A transcript with *)
(* a line over 4 MB is not read at all (parser.go:80, cache.go:118).       *)
(***************************************************************************)
AbandonedReported ==
    \A p \in Nexts : At(p, "detect") =>
        \A a \in owed[p] :
            \/ \E finding \in Report(p) : finding.agent = a
            \/ BeadOf[a] \in Keyed(commits)
            \/ FileOf[a] \in gone \cup choked
=============================================================================
