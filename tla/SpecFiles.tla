----------------------------- MODULE SpecFiles -----------------------------
(***************************************************************************)
(* Commands as processes over the spec.yaml files of a project, one file   *)
(* operation per step.  kerf resume and kerf shelve rewrite the whole file *)
(* in place (spec.Write: truncate, then write); kerf pin edits several     *)
(* files, each through <path>.tmp and a rename.  Nothing is locked.        *)
(*                                                                         *)
(* A process that has opened a file writes the file it opened, whatever    *)
(* has happened to the name: a rename moves the open files with the names, *)
(* and what is written to a replaced file nobody reads.                    *)
(***************************************************************************)
EXTENDS Naturals

CONSTANTS
    NumWorks,   \* works of the project, in the order of their names
    Beads,
    Procs,      \* command invocations that may run at the same time
    None,       \* no session, no work, no bead, no file
    Torn,       \* the empty file of a writer that has truncated and not yet written
    Garbled,    \* what two writers of different texts leave: it does not parse
    Commands,   \* the commands that are run, a subset of CommandNames
    Serial,     \* whether a command starts only when no other one runs
    Killable    \* the commands that may be killed between two steps

CommandNames == {"resume", "shelve", "pin"}

ASSUME SpecFilesAssumption ==
    /\ NumWorks \in Nat \ {0}
    /\ Commands \subseteq CommandNames /\ Killable \subseteq CommandNames
    /\ None \notin Procs /\ None \notin Beads
    /\ Torn # Garbled
    /\ Serial \in BOOLEAN

Works == 1..NumWorks

(***************************************************************************)
(* What a file holds of the fields that commands change after kerf new.    *)
(***************************************************************************)
SpecText == [active : Procs \cup {None}, pins : SUBSET Beads]

\* The values that stand for something else than a text or a work.
ASSUME MarksAssumption ==
    /\ SpecText \cap {Torn, Garbled, None} = {}
    /\ None \notin Works /\ None # Torn

Fresh == [active |-> None, pins |-> {}]

\* spec.Read: an empty document decodes to the zero SpecYAML, without error.
Decoded(t) == IF t = Torn THEN Fresh ELSE t
Readable(t) == t # Garbled

VARIABLES
    file,     \* the text of each spec.yaml
    tmp,      \* the text of each spec.yaml.tmp, None when there is no such file
    pc, job,  \* the control point of each process and what it holds
    holds,    \* the work each process was told it has the session of
    promised  \* the work each bead was reported pinned to, None when a pin of
              \* the bead has been started since

vars == <<file, tmp, pc, job, holds, promised>>
reports == <<holds, promised>>

NoJob == [work |-> None, text |-> Torn, opened |-> None, kind |-> None,
          bead |-> None, target |-> None, todo |-> {}]

Running == {p \in Procs : pc[p] # "idle"}
First(S) == CHOOSE w \in S : \A v \in S : w <= v

----------------------------------------------------------------------------
Init ==
    /\ file = [w \in Works |-> Fresh]
    /\ tmp = [w \in Works |-> None]
    /\ pc = [p \in Procs |-> "idle"]
    /\ job = [p \in Procs |-> NoJob]
    /\ holds = [p \in Procs |-> None]
    /\ promised = [b \in Beads |-> None]

MayStart(p, command) ==
    /\ command \in Commands
    /\ pc[p] = "idle"
    /\ Serial => Running = {}

At(p, from, to) == pc[p] = from /\ pc' = [pc EXCEPT ![p] = to]
Exit(p) == pc' = [pc EXCEPT ![p] = "idle"] /\ job' = [job EXCEPT ![p] = NoJob]

\* os.WriteFile, second half: the text lands at the start of what is there.
Landed(old, new) == IF old \in {Torn, new} THEN {new} ELSE {new, Garbled}

(***************************************************************************)
(* kerf resume and kerf shelve: read, decide on the copy, truncate, write. *)
(***************************************************************************)
Rewrite(p, w, kind, text) ==
    /\ pc' = [pc EXCEPT ![p] = "truncate"]
    /\ job' = [job EXCEPT ![p] = [NoJob EXCEPT !.work = w, !.kind = kind, !.text = text]]
    /\ UNCHANGED <<file, tmp, reports>>

\* Mutant of Resume: an active session does not stop it.
ResumeUnchecked(p, w) ==
    LET s == Decoded(file[w]) IN
    /\ MayStart(p, "resume")
    /\ Readable(file[w])
    /\ Rewrite(p, w, "resume", [s EXCEPT !.active = p])

Resume(p, w) ==
    LET s == Decoded(file[w]) IN
    /\ MayStart(p, "resume")
    /\ Readable(file[w])
    /\ s.active = None
    /\ Rewrite(p, w, "resume", [s EXCEPT !.active = p])

Shelve(p, w) ==
    LET s == Decoded(file[w]) IN
    /\ MayStart(p, "shelve")
    /\ Readable(file[w])
    /\ s.active # None
    /\ Rewrite(p, w, "shelve", [s EXCEPT !.active = None])

\* kerf shelve --force: also when there is no session.
ForceShelve(p, w) ==
    /\ MayStart(p, "shelve")
    /\ Readable(file[w])
    /\ Rewrite(p, w, "shelve", [Decoded(file[w]) EXCEPT !.active = None])

Truncate(p) ==
    /\ At(p, "truncate", "write")
    /\ file' = [file EXCEPT ![job[p].work] = Torn]
    /\ job' = [job EXCEPT ![p].opened = "spec.yaml"]
    /\ UNCHANGED <<tmp, reports>>

\* The text lands in the file that was opened, under its present name.
WriteOpened(p) ==
    LET j == job[p]
        Land(f) == \E t \in Landed(f[j.work], j.text) : f' = [f EXCEPT ![j.work] = t]
    IN
    CASE j.opened = "spec.yaml"     -> Land(file) /\ UNCHANGED tmp
      [] j.opened = "spec.yaml.tmp" -> Land(tmp) /\ UNCHANGED file
      [] OTHER                      -> UNCHANGED <<file, tmp>>

WriteSpec(p) ==
    LET j == job[p] IN
    /\ pc[p] = "write"
    /\ WriteOpened(p)
    /\ holds' = IF j.kind = "resume" THEN [holds EXCEPT ![p] = j.work]
                ELSE [q \in Procs |-> IF holds[q] = j.work THEN None ELSE holds[q]]
    /\ Exit(p)
    /\ UNCHANGED promised

(***************************************************************************)
(* kerf pin: an edit is read, truncate <path>.tmp, write it, rename it.    *)
(* First every other work that has the bead is edited twice (the list, the *)
(* timestamp), then the target.                                            *)
(***************************************************************************)
Pin(p, w, b) ==
    /\ MayStart(p, "pin")
    /\ Readable(file[w])
    /\ b \notin Decoded(file[w]).pins
    /\ pc' = [pc EXCEPT ![p] = "scan"]
    /\ job' = [job EXCEPT ![p] = [NoJob EXCEPT !.target = w, !.bead = b, !.todo = Works \ {w}]]
    /\ promised' = [promised EXCEPT ![b] = None]
    /\ UNCHANGED <<file, tmp, holds>>

ScanOther(p) ==
    LET j == job[p]
        o == First(j.todo)
        hit == Readable(file[o]) /\ j.bead \in Decoded(file[o]).pins
    IN
    /\ pc[p] = "scan" /\ j.todo # {}
    /\ pc' = [pc EXCEPT ![p] = IF hit THEN "edit" ELSE "scan"]
    /\ job' = [job EXCEPT ![p].todo = @ \ {o},
                          ![p].work = IF hit THEN o ELSE @,
                          ![p].kind = IF hit THEN "remove" ELSE @]
    /\ UNCHANGED <<file, tmp, reports>>

\* Mutant of ScanDone: the works not yet looked at are skipped.
ScanCutShort(p) ==
    /\ At(p, "scan", "edit")
    /\ job' = [job EXCEPT ![p].work = job[p].target, ![p].kind = "add"]
    /\ UNCHANGED <<file, tmp, reports>>

ScanDone(p) ==
    /\ job[p].todo = {}
    /\ At(p, "scan", "edit")
    /\ job' = [job EXCEPT ![p].work = job[p].target, ![p].kind = "add"]
    /\ UNCHANGED <<file, tmp, reports>>

\* Mutant of Edited: the list is written afresh.
EditedAfresh(s, kind, b) ==
    CASE kind = "remove" -> [s EXCEPT !.pins = @ \ {b}]
      [] kind = "add"    -> [s EXCEPT !.pins = {b}]
      [] OTHER           -> s

Edited(s, kind, b) ==
    CASE kind = "remove" -> [s EXCEPT !.pins = @ \ {b}]
      [] kind = "add"    -> [s EXCEPT !.pins = @ \cup {b}]
      [] OTHER           -> s

\* After an edit: the timestamp, then the next work, then the end.
\* `opened` holds the open files of all processes.
FollowUp(p, opened) ==
    LET j == job[p]
        jobs == [q \in Procs |-> [job[q] EXCEPT !.opened = opened[q]]]
    IN
    IF j.kind \in {"remove", "add"}
    THEN /\ pc' = [pc EXCEPT ![p] = "edit"]
         /\ job' = [jobs EXCEPT ![p].kind = "touch"]
         /\ UNCHANGED promised
    ELSE IF j.work # j.target
    THEN /\ pc' = [pc EXCEPT ![p] = "scan"]
         /\ job' = jobs
         /\ UNCHANGED promised
    ELSE /\ pc' = [pc EXCEPT ![p] = "idle"]
         /\ job' = [jobs EXCEPT ![p] = NoJob]
         /\ promised' = [promised EXCEPT ![j.bead] = j.target]

\* An edit that changes nothing writes nothing.
SkipEdit(p) ==
    LET j == job[p] IN
    /\ pc[p] = "edit" /\ j.kind # "touch"
    /\ file[j.work] \in SpecText
    /\ Edited(file[j.work], j.kind, j.bead) = file[j.work]
    /\ FollowUp(p, [q \in Procs |-> job[q].opened])
    /\ UNCHANGED <<file, tmp, holds>>

ReadForEdit(p) ==
    LET j == job[p] IN
    /\ At(p, "edit", "opentmp")
    /\ file[j.work] \in SpecText
    /\ j.kind = "touch" \/ Edited(file[j.work], j.kind, j.bead) # file[j.work]
    /\ job' = [job EXCEPT ![p].text = Edited(file[j.work], j.kind, j.bead)]
    /\ UNCHANGED <<file, tmp, reports>>

\* Mutant of OpenTmp: no temporary file.
OpenInPlace(p) ==
    /\ At(p, "opentmp", "writetmp")
    /\ file' = [file EXCEPT ![job[p].work] = Torn]
    /\ job' = [job EXCEPT ![p].opened = "spec.yaml"]
    /\ UNCHANGED <<tmp, reports>>

OpenTmp(p) ==
    /\ At(p, "opentmp", "writetmp")
    /\ tmp' = [tmp EXCEPT ![job[p].work] = Torn]
    /\ job' = [job EXCEPT ![p].opened = "spec.yaml.tmp"]
    /\ UNCHANGED <<file, reports>>

WriteTmp(p) ==
    /\ At(p, "writetmp", "rename")
    /\ WriteOpened(p)
    /\ job' = [job EXCEPT ![p].opened = None]
    /\ UNCHANGED reports

\* The open files of a work after spec.yaml.tmp has replaced spec.yaml.
Moved(w) ==
    [q \in Procs |->
        IF job[q].work = w /\ job[q].opened = "spec.yaml" THEN "replaced"
        ELSE IF job[q].work = w /\ job[q].opened = "spec.yaml.tmp" THEN "spec.yaml"
        ELSE job[q].opened]

Rename(p) ==
    LET w == job[p].work IN
    /\ pc[p] = "rename"
    /\ tmp[w] # None
    /\ file' = [file EXCEPT ![w] = tmp[w]]
    /\ tmp' = [tmp EXCEPT ![w] = None]
    /\ FollowUp(p, Moved(w))
    /\ UNCHANGED holds

\* Mutant of RenameFails: the edit is made again.
RetryEdit(p) ==
    /\ At(p, "rename", "edit")
    /\ tmp[job[p].work] = None
    /\ UNCHANGED <<file, tmp, job, reports>>

\* Somebody else has renamed the temporary file: it is removed, if there is
\* one again by then, and the command gives up.
RenameFails(p) ==
    /\ At(p, "rename", "removetmp")
    /\ tmp[job[p].work] = None
    /\ UNCHANGED <<file, tmp, job, reports>>

RemoveTmp(p) ==
    LET w == job[p].work IN
    /\ pc[p] = "removetmp"
    /\ tmp' = [tmp EXCEPT ![w] = None]
    /\ pc' = [pc EXCEPT ![p] = "idle"]
    /\ job' = [q \in Procs |->
                 IF q = p THEN NoJob
                 ELSE IF job[q].work = w /\ job[q].opened = "spec.yaml.tmp"
                 THEN [job[q] EXCEPT !.opened = "replaced"]
                 ELSE job[q]]
    /\ UNCHANGED <<file, reports>>

\* The command gives up: the file does not parse, or is empty.
EditFails(p) ==
    /\ pc[p] = "edit" /\ file[job[p].work] \notin SpecText
    /\ Exit(p)
    /\ UNCHANGED <<file, tmp, reports>>

\* The command a process runs: only kerf pin edits.
Command(p) == IF job[p].kind \in {"resume", "shelve"} THEN job[p].kind ELSE "pin"

Crash(p) ==
    /\ pc[p] # "idle" /\ Command(p) \in Killable
    /\ Exit(p)
    /\ UNCHANGED <<file, tmp, reports>>

Start(p) ==
    \E w \in Works :
        Resume(p, w) \/ Shelve(p, w) \/ ForceShelve(p, w) \/ \E b \in Beads : Pin(p, w, b)

Step(p) ==
    \/ Truncate(p) \/ WriteSpec(p)
    \/ ScanOther(p) \/ ScanDone(p)
    \/ SkipEdit(p) \/ ReadForEdit(p) \/ OpenTmp(p) \/ WriteTmp(p) \/ Rename(p)
    \/ RenameFails(p) \/ RemoveTmp(p) \/ EditFails(p)

Next == \E p \in Procs : Start(p) \/ Step(p) \/ Crash(p)

FilesSpec == Init /\ [][Next]_vars

----------------------------------------------------------------------------
(***************************************************************************)
(* mutate.go: writeYAMLNode "writes atomically": a spec.yaml holds one     *)
(* whole text, the old one or the new one, except while kerf resume or     *)
(* kerf shelve rewrites it in place.                                       *)
(***************************************************************************)
NeverTorn ==
    \A w \in Works :
        \/ file[w] \in SpecText
        \/ \E p \in Procs : pc[p] = "write" /\ job[p].work = w

(***************************************************************************)
(* A bead is pinned to at most one work, at every moment and after every   *)
(* crash (specs/coordination.md, Single-owner invariant).                  *)
(***************************************************************************)
SinglePinOwner ==
    \A b \in Beads : \A v, w \in Works :
        /\ file[v] \in SpecText /\ b \in file[v].pins
        /\ file[w] \in SpecText /\ b \in file[w].pins
        => v = w

(***************************************************************************)
(* Commands wait for nobody: whatever the others do to the files it works  *)
(* on, a command that has started comes to an end.                         *)
(***************************************************************************)
CommandsEnd == \A p \in Procs : []<>(pc[p] = "idle")
============================================================================
