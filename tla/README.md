# A TLA+ model of kerf

kerf is a command-line tool that keeps *works* (units of planned change) as directories of
plain files. Every invocation is a short process: it reads files, decides, writes files and
exits. There is no daemon, no database and no lock; several coding agents run it at the same
time on the same machine. The file system is the database (`specs/testing.md`), so the state
machine of the program is the sequence of file operations its commands make. Its second half,
`kerfsim`, is a discrete-event simulator that runs the production queue against a virtual store.

This directory models both. TLC checks small instances of every model; TLAPS proves every
invariant and step property the runs check for every value of the constants. Liveness stays with TLC.

## Inventory of the system

| Component | State it keeps | Operations | Hard part |
|---|---|---|---|
| Bench and storage (`internal/bench`, `internal/storage`, `cmd/new`, `cmd/archive`, `cmd/delete`) | `projects/<id>/<codename>/`, `archive/<id>/<codename>/` | new, archive, delete, un-archive by `mv` | a codename used twice, a directory left half made, a snapshot that re-creates a removed directory |
| spec.yaml (`internal/spec`) | one YAML file per work | `Read`, `Write` (truncate and write), the key mutators of `mutate.go` (temporary file and rename) | whole-file rewrites of stale copies, an empty file that parses as an empty spec |
| Sessions (`internal/session`, `cmd/resume`, `cmd/shelve`) | `sessions`, `active_session` in spec.yaml | start, end, force-end, infer the active work | two views of the same fact; two agents resuming at once |
| Snapshots (`internal/snapshot`, `cmd/snapshot`, `cmd/restore`, `cmd/history`) | `.history/<second>[--label]/` | take, list, prune, restore | names of one second collide; restore in several steps; who prunes |
| Pins (`cmd/pin`, `internal/spec`) | `pinned_beads` of every work | pin | one owner per bead over many files |
| Bead filters (`internal/spec/mutate.go`, `internal/beads`, `cmd/work_edit`, `cmd/bootstrap_filters`) | `bead_filter` of spec.yaml, project.yaml | add and remove clauses, propose, resolve, match | several encodings of the same set |
| Finalize (`cmd/finalize`, `cmd/square`, `internal/dep`) | git branch, working tree, `implementation` in spec.yaml | square check, branch, copy, commit, record | failure between steps, retries, two finalizers in one repository |
| Localize (`cmd/localize`, `internal/storage/symlink.go`) | storage mode, symlink, moved files | migrate bench to repository, roll back | partial moves, concurrent commands |
| Doctor (`cmd/doctor`, `internal/doctor`) | none | detectors over the directories | a half-finished localize that no detector asks about |
| Drift and triage (`internal/drift`, `cmd/triage`) | `.kerf/sync-cache.json`, `.kerf/resolved-counts` | diff, suggest, acknowledge, count | a baseline advanced past something nobody saw; a loop that never ends |
| Queue, feed and next (`internal/queue`, `internal/static`, `internal/feed`, `cmd/next`) | none (derived) | score, order, warn, mark the critical path | advice followed after what it was read from has changed; an empty feed of an unfinished project |
| Transcripts and diagnostics (`internal/kerftranscript`, `internal/diagnostics`) | `.kerf/diagnostics-cache.json` | parse, cache, index commits, report abandoned dispatches | files read while they are written; a shared cache |
| Simulator (`internal/sim/loop`, `store`, `run`, `baselines`, `cmd/kerfsim`) | event heap, virtual store, agents | dispatch, complete, arrive | agents idle for ever, stop conditions, policies that do not serve |
| Simulator metrics (`internal/sim/metrics`) | a ledger of entries | observe, replay twice | ticks at the end of the warm-up, overlaps counted twice |
| Generator, seeds, scenarios, import (`internal/sim/gen`, ...) | none | draw a world, read one | distributions |
| Jigs, areas, projects, config (`internal/jig`, `internal/areas`, `internal/project`, `internal/config`) | definition files | resolve, validate | precedence |
| Text output, listings, help, setup (`cmd/list`, `cmd/show`, `cmd/map`, `cmd/root`, ...) | none | read and print | none a model checker reaches |

Commands share nothing but files. `cmdutil.LoadWork` gives a command a private copy of
spec.yaml, and most commands write that copy back whole. Snapshots copy whole directories.
`kerf pin`, `kerf next` and `kerf triage` read all works of a project and ask the bead tool;
`kerf next` also reads the transcripts of coding sessions and the git log, through a cache all
`kerf next` share; `kerf finalize` drives git. The simulator is a closed world: one goroutine, a
heap of events, and hooks through which the metrics watch it.

What must hold, per component:

- *bench*: an archived work is never overwritten; a directory stays well formed.
- *sessions*: `active_session` and the session entries agree; the log of sessions only grows;
  a work goes from one session to another only through a release.
- *snapshots*: a restore finds what it needs; a prune drops old snapshots only.
- *pins*: one owner per bead, at every moment and after every crash.
- *spec.yaml*: readers never meet a torn file; what a command reported stays true, and where commands
  overlap the damage stays at the file they share; a command always comes to an end.
- *finalize*: branch, commit and status recorded in spec.yaml belong together; a commit holds
  one work and nothing of another.
- *localize and doctor*: no work is lost; what a failed run leaves can be used and run again; a green
  report can be believed and a healthy project gets one.
- *bead filters*: each encoding stands for the set of clauses the edits built.
- *triage*: the baseline advances only past what was read; exit code 0 means that nothing is left;
  suggestions settle what they are made for, and the loop of suggestions ends.
- *feed*: "No items" means done; the critical path is a longest chain; advice runs out.
- *transcripts*: the cache is never stale; work that was committed is not reported, abandoned work is.
- *simulator*: a bead has one agent; no agent idles beside a bead it could take; every policy serves
  when any could; runs end; the numbers printed are those of the run.

## The modules

| Module | Models | Extends or uses |
|---|---|---|
| `WorkDir` | one work directory as a value: session bookkeeping, snapshot, prune, restore, pins | |
| `Bench` | the directories of a project, one command per step | `WorkDir` |
| `SessionLease` | what sessions promise, without files | |
| `BenchProperties` | the properties of `Bench`, the refinement of `SessionLease` | `Bench`, `SessionLease` |
| `SpecFiles` | commands as processes over spec.yaml files, one file operation per step | |
| `SpecReports` | which reports of those commands are in doubt: history variables and the property about them | `SpecFiles` |
| `Finalize` | `kerf finalize` as processes over a git repository | |
| `Localize` | `kerf localize` beside `kerf new`, one rename, removal or link per step | |
| `Doctor` | what `kerf doctor` says in every state of `Localize` | `Localize` |
| `BeadFilter` | the bead filter of one work: edits, proposals, what it attaches | |
| `Triage` | `kerf triage` in the loop its help text prescribes, beside other `--ack` | |
| `Feed` | `kerf next` and the agents that follow it | |
| `Transcripts` | the abandoned-dispatch warnings of `kerf next`: sessions, cache, index | |
| `SimLoop` | the simulator's event loop and store, for any policy | |
| `SimPolicies` | the four policies kerfsim compares | `SimLoop` |
| `SimMetrics` | the metrics collector, watching the loop | `SimLoop` |
| `BenchProofs` | theorems about `Bench` | `BenchProperties` |
| `SpecFilesProofs` | theorems about `SpecFiles` and `SpecReports` | `SpecReports` |
| `FinalizeProofs` | theorems about `Finalize` | `Finalize` |
| `LocalizeProofs` | theorems about `Localize` and `Doctor` | `Doctor` |
| `FeedProofs` | theorems about the filter of a work and about the feed | `BeadFilter`, `Feed` |
| `TriageProofs` | theorems about `Triage` | `Triage` |
| `TranscriptsProofs` | theorems about `Transcripts` | `Transcripts` |
| `SimProofs` | theorems about the loop, the policies and the metrics | `SimMetrics`, `SimPolicies` |
| `MCBench`, `MCSpecFiles`, `MCFinalize`, `MCLocalize`, `MCBeadFilter`, `MCTriage`, `MCFeed`, `MCTranscripts`, `MCSimLoop` | the instances TLC checks; `MCSimLoop` runs loop, policies and metrics together, `MCLocalize` localize and doctor | |

Definitions that begin with a comment "Mutant of ..." are used by no specification. Each is a
plausible bug in the definition it names; put in its place, it breaks one of the properties.

### WorkDir and Bench

A work directory is `[spec, files, hist]`: the fields of spec.yaml that commands change after
`kerf new` (status, sessions, active session, pinned beads), the artifacts by name, and the
snapshots by name. A snapshot name is a pair of the second and the label, because that is what
`<timestamp>[--label]` tells apart; two snapshots of one second with the same label meet.
`Take` is an overlay: files of an older snapshot of that name stay. It has three outcomes, since most
commands ignore its error and go on: copied; nothing, because the directory could not be made; or gone, because
the copy failed and the clean-up removed the directory, with what an earlier snapshot of that name had put
there. Only `kerf snapshot` and `kerf restore` report the error and stop. `RestoreFrom` first takes
the pre-restore snapshot, then copies the files and the fields of spec.yaml except the session
data, in the order of `snapshot.Restore`. `Prune` keeps the newest names; names of one second
are in no particular order, as `sort.Slice` leaves them. `NoSpec` stands for a spec.yaml that is
missing or does not parse. Left out are removals that fail half-way (`os.RemoveAll` in `Take` and `Prune`)
and a restore that fails half-way between its removals and copies: it is one step that succeeds, or one that
stops because its own snapshot failed.

`Bench` holds two functions from codenames to directories, `active` and `archive`, and a clock in
seconds. Every action is one command with all the snapshots, prunes and file creations it makes:
`New`, `NewUnknownArea` (the error after the directory was made), `Archive`, `Unarchive` (the
`mv` that `kerf archive` prints), `DeleteActive`, `DeleteArchived`, `Resume`, `Shelve`,
`ForceShelve`, `ShelveInferred`, `Status`, `Snapshot`, `Restore`, `Pin`; `WriteArtifact`,
`RemoveArtifact` and `Tick` are the environment. Commands are atomic here; what happens
when they overlap or die is the subject of `SpecFiles`.

### SpecFiles

One action per system call. `kerf resume` and `kerf shelve` read, decide on the copy, truncate
and write (`spec.Write`); `kerf pin` visits every other work and then its target, and every edit
is read, truncate `<path>.tmp`, write, rename (`mutate.go`). `file` and `tmp` are the texts under
the two names, `job[p].opened` says where the file that process `p` has open is now: a rename by
somebody else moves it, and a process whose file was replaced writes where nobody reads. Two
constants choose the environment: `Serial` (a command starts only when none runs) and `Killable`
(the commands that may die between two steps). `kerf shelve --force` (`ForceShelve`) ends a session whether there is
one or not, by the same whole-file write.

Two more variables of `SpecFiles` remember what commands have reported: `holds`, the work whose session an agent was
told it has, and `promised`, the work a bead was reported pinned to. `SpecReports` adds which of these
reports are in doubt. A command is *at* a spec.yaml from reading it to its last write. `mixed` are the works that two
commands were at together, until all have left; `doubted` the agents and beads whose report names a work while it
was mixed, or whose file a kill left half-written, or a bead that two commands were pinning at once. A
new report clears the doubt if its file is not mixed. `ReportsHold` says that every other report is true.

### Finalize

A finalizer is a process with one action per git command or copy (square check, pre-flight,
branch, copy, add, commit, record), and `Abort` after any of them: a refusal, a failed step or a
crash, since none of them cleans up. `CopyPartly` fails among the artifacts or among the drafts of the
spec. `Record` reads the hash of the commit back from git; when that fails the code records `unknown`
and goes on, and so does the model (`Unknown`). The repository has a commit log, branches, HEAD, an index
and a working tree; of a file only its presence is modelled. The environment changes statuses and
artifacts, switches branches and discards changes between two runs.

### Localize and Doctor

`place` says what the project's path on the bench is (nothing, a directory, the link); paths are
resolved as the system does, so `AtBench` follows the link. Localize lists, moves entry by entry,
removes the bench directory, links and declares `storage: local`; each operation may fail, and
then `rollbackLocalize` moves back, its own failures ignored. Any command may be killed between
two steps and any may be run again. `kerf new` resolves the storage mode in one step and makes the
directory in another. Entries are moved in any order (the code uses the order of names). The
history variable `disturbed` records that something happened for which the code promises less:
a kill, two commands at once, a roll-back step that failed. `Localizable` and `Planned` are what
`kerf localize --check` answers: whether localize may start and what it is going to move.

`Doctor` adds no action, because the report changes nothing: each detector is the set of targets
it would list in the present state (`Doubles`, `WrongLocation`, `BenchLinkBroken`, `DoubleConfigs`,
`Collisions`, `SymlinkIntegrity`, `ProjectYAML`, `ArchiveOrphans`), and `Green` says that every row is empty.

### BeadFilter

`filter` is the value of the key as it is in the file: no key, an empty one, one clause, or a list.
`Plus` and `Minus` are `addSingleLeafClause` and `removeSingleLeafClause`, each read and write of
the file taken as one step (what happens between the two is the subject of `SpecFiles`); an `any:` option
and a repeated flag are both a sequence of leaves. A command holds the leaves it still has to take
`out` and put `in`, one write each; `kerf bootstrap-filters` finds the work without open beads,
holds the clauses it proposes through the prompt, and puts them in. `Rewrite` is what the
other commands do to the key by reading and writing the whole spec. A bead is the set of its
labels; an id prefix is one of them, and a closed bead carries none, since only open beads are
counted. Which label `kerf init --force` finds, and what the bead tool does, is arbitrary. `goal` is a
history variable: the clauses a command is to leave, forgotten as soon as someone else does
something. The timestamp and the snapshot at the end of an edit are in `Bench`.

### Triage

A triage command reads the works (`Load`), then the bead store (`List`), then the baseline, and
ends there: with `--resolved` it reports, keeps the count and exits 0, 2 or 3 (`Resolve`), with
`--ack` it renames what it has read over the baseline (`Advance`). `Items` are the three kinds
of the report: beads no work claims, beads several claim, beads closed, reopened, added or removed since
the baseline. `Suggestions` are the commands a report may print for an item; the process `Loop`
runs `until kerf triage --resolved; do <act>; done` and carries one out as the other commands do
it (`Do`: `NewState`, `EditState`, `PinState`). Others run `--ack` too, die, and change beads and works
by command or by hand, unreadable and archived works included. `since` is a history variable that
says whether anything has changed since the loop's command began. A filter is a set of labels; what
one of a single label is, `BeadFilter` has.

### Feed

`Blocked`, `Entries` and `Score` are `queue.Compute`; `Visit` and `CriticalPath` the graph signals;
`BeadItems`, `NoAttached`, `WalkOwed` and `Warnings` the items of `internal/feed`; `Above` the order,
`Top` what a reader takes for the first item, `Selection` the effect of `--kinds`, `--only` and `--include`.
An agent reads the works, later the beads, takes the top item and acts on it: claims and closes a
bead, sets the next status, wires a filter (`Claim`, `Finish`, `Walk`, `Wire`). What the agents do
with an item is the help text's loop, the only use the code has for the feed; that a walk sets the status
after the one that was *read* is why stale advice matters. The cleanup that calls for a walk offers `kerf shelve`
too, and an agent may take it (`Shelve`): it ends a session and changes nothing `kerf next` reads. `archived` are
the live works whose codename an archived work has too, since `kerf new` asks only whether a live work has
it; `Excluded` drops their items, as `kerf next` does. `Dies` says that the dependencies have a cycle and the
queue an entry: `kerf next` then recurses without end and gives no item. A bounded number of changes by
others comes at any moment.

### Transcripts

Sessions append lines to their transcripts, each in two steps, so that a reader may meet half a line;
a write changes the modification time. Sub-agents commit, on the branch checked out here (HEAD moves) or in
a worktree of their own (it does not), and return. `kerf next` is one action per read or write: HEAD
and directory (`Start`), cache (`Load`), for each file the time (`Stat`) and then the contents (`Parse`),
the cache written by rename (`Write`), git log (`BuildIndex`), the report (`Detect`). Several share the
cache and any may be killed. `served` and `owed` are history variables: which sub-agents had committed
before they returned, and what was already abandoned when a command began. `choked` are the transcripts
that have a line over 4 MB: the scanner gives up on it, and the whole file is skipped, like a
deleted one. D6, the second detector, is left out: nothing that is read can trigger it (see below).

### SimLoop, SimPolicies, SimMetrics

The heap is a bag of events ordered by (tick, kind, agent, bead); `Peek` is the minimum. One
iteration of the loop is one action: a stop condition, or one popped event (`PopArrival`,
`PopComplete`, `PopAgentFree`). The initial states are all worlds the scenario generator and
hand-written scenarios can produce within the bounds; durations, scores and the dispatch policy
are nondeterministic choices, so the properties of the loop hold for every policy.

`SimPolicies` defines the bead each of the four policies names in a state of the store: `Kerf` down the
queue's entries until one has an open bead, `Random`, `FIFOBead` and `FIFOWork`. `SimMetrics` composes the
collector with the loop: every action of the loop appends the entries its hooks write, asked of the
store at the callback, and when the run is over `Block` folds the ledger, once from the beginning and
once from the end of the warm-up, as `compute` does.

## The runs

Each run is one configuration file. `pass` runs find no error; the `violation` run checks a
statement of the repository's documents that the code does not keep, and TLC shows how.

| Configuration | Result | Question |
|---|---|---|
| `MCBenchSessions` | pass | session data consistent and append-only, lease implemented, history lost only to prunes of the oldest and to a failed snapshot of the same name: one work, two seconds, all commands in any order |
| `MCBenchPins` | pass | pin leaves one owner; no command overwrites an archived work: two works, one bead, a codename used again |
| `MCSpecFilesSerial` | pass | commands one after the other, `kerf pin` killed anywhere: no torn file, no two owners, no report undone but by the next one |
| `MCSpecFilesConcurrent` | pass | `kerf resume` and `kerf pin` overlapping in any order: they always end, whatever they do to each other's files, and undo only reports about a spec.yaml two of them were at, or a bead two pins moved |
| `MCFinalize` | pass | finalize failing or dying at any step, retried under other names, for two works of which one depends on the other |
| `MCLocalize` | pass | localize with two failing operations, kills and retries beside two `kerf new`: nothing listed is lost, a roll-back restores, and doctor is right about every state in between |
| `MCBeadFilter` | pass | edits and proposals stopped anywhere, among changing labels and filters: encodings stay canonical and hold the set of clauses the edits built, proposals attach what they promise, no open bead is detached unasked |
| `MCTriage` | pass | the triage loop beside an `--ack` and changes by others: after a clean exit every ready bead is attached to exactly one work, no late change is acknowledged, suggestions help, the loop ends |
| `MCFeed` | pass | two agents that follow `kerf next` on two dependency graphs, one of them a cycle, with and without a codename that is archived too: no items means done, the critical path is a longest chain, the feed drains |
| `MCTranscripts` | pass | two `kerf next` beside a session that writes, commits and returns: the cache is never stale, no false alarm, no abandoned dispatch missed |
| `MCSimLoop` | pass | every world of two works, four beads, two agents: exclusive beads, no idle agent beside an open bead, policies that serve, runs that end, numbers that are those of the run |
| `MCLocalizeAreas` | violation | areas.yaml moves with the project (`specs/commands.md:1461`) |

### Bounds, and why they are enough

- `MCBenchSessions`: one work, because sessions, snapshots and restores touch one directory; two
  sessions and two owners (one anonymous) reach every transition between owners; two seconds and
  a limit of two snapshots make names collide within a second and prunes bite; one artifact
  makes files differ between snapshots. `Reused = {}`: names are not used twice here.
- `MCBenchPins`: two works are enough for an owner to lose what another gains; no sessions or
  files, which pin does not look at; `Reused = {w1}`: the first codename is used again while it is in the
  archive, the second never.
- `MCSpecFiles*`: two processes show every pairwise race; two works, so that a pin has an owner to
  take from and a target to give to. Processes and beads are symmetric, and symmetry is used where
  only invariants are checked, never with `CommandsEnd`. The concurrent run has one bead and no kills: resume
  against pin is a whole-file write against an edit, pin against pin shares the temporary name, resume against
  resume has the check before the write; the theorem `DamageIsLocal` is about kills as well.
- `MCFinalize`: two works, two branch names besides the default one, two files, two commits of
  finalize: a first attempt, a retry under another name and a second work. `MaxCommits` guards
  `Commit`; a finalizer that meets the bound can only abort, which the code can do as well.
- `MCLocalize`: three codenames give a roll-back after zero, one or two moves; `MaxFaults = 2`
  is the failure that starts a roll-back and one failure within it; one codename is in the
  archive as well. The theorems of `LocalizeProofs` hold without these bounds.
- `MCBeadFilter`: three clauses and options of up to two leaves reach every encoding and every
  change between them, lists of repeated clauses included; one of the clauses means the built-in
  default. Two beads and the floors 2 and 1 (the code has 3 and 2) reach every verdict of the
  sampler: a dominant label, a union, too few, none. One edit and one bootstrap race; everything
  else that may come between is an action of its own. Beads and candidate labels are symmetric.
- `MCTriage`: two works are needed for a bead claimed twice and for a codename label that two may host;
  two beads, of which one changes while the other is an item; one other `--ack`; one change by others,
  which may be at any moment between two steps. More changes multiply the states, and each is as
  far from the next triage command as one alone.
- `MCFeed`: a chain that runs against the order of codenames, with a dependent of both, and a cycle of two
  works beside a third; the two works with a bead each and one without; the third may have an archived
  namesake. The jig has two statuses, the least with something to walk. The weights are the code's default ones, times sixty, so that
  they and their parts are whole numbers.
- `MCTranscripts`: one file and one dispatch, with a bead and a subtask of it, since files do not
  influence each other (the theorems of `TranscriptsProofs` hold for any number); `Floor = 1` and a clock up
  to 1 separate fast from slow. Two commands share the cache; they are symmetric.
- `MCSimLoop`: two agents compete, three beads in one work and one in another, events at, before
  and beyond the cap of two ticks, up to two arrivals scripted at a bead that may already be there,
  every acyclic dependency between the works. `WarmupShare = 2` (ten in the code) lets a warm-up end
  within a run; durations are sorted among beads that nothing else tells apart. Two sets of weights:
  the defaults, and momentum alone, which puts a finished work on top.

Deadlock is checked except where the system really stops: a simulation that has ended, two pins
that have garbled every file (all commands then refuse), a localized project all of whose
codenames are taken.

### Fairness

`MetricsSpec` (and `SimSpec` below it) has weak fairness of its next-state relation: the loop is one
goroutine that never blocks. `FairReportsSpec` has weak fairness of each process's own steps, which is the
operating system scheduling a running process; nothing is assumed of the start of commands. `TriageSpec`
has weak fairness of the loop's own steps: a shell loop goes on. `FeedSpec` has it for each agent that runs
the documented loop; `FeedDrains` claims its end of agents that do not go on choosing `kerf shelve` for ever
(`<>[][no Shelve]` is its premise). Changes by others are bounded and have no fairness: they may stop at any time. The other
specifications have none, and only safety is claimed of them.

## What is proved

All theorems hold for every value of the constants that the assumptions admit. The assumptions
are named, stand in the module that declares the constants, and TLC evaluates them in the
runs of those modules.

**Bench** (`BenchProofs`), for every set of works, sessions, beads, artifacts and labels:

- `TypeCorrect`: every directory is well formed, archived or not, and every snapshot in it holds
  a readable spec.yaml for restore to put back.
- `SessionsCorrect`: `active_session` names the last entry exactly while it is open.
- `LogGrows`: no command drops, renames or reopens a session entry.
- `ImplementsLease`: `Bench` implements `SessionLease` under the mapping that reads the lease of a
  work out of its spec.yaml.
- `ArchiveKept`: no command changes an archived work.
- `PinsMove`: whoever gains a bead, by anything but a restore or the printed `mv`, is its only owner.
- `RecentHistoryKept`: a snapshot that disappears is no newer than any that stays, or one of its second and
  label failed in that step and was cleaned up.

The inductive invariant is `IInv == TypeOK /\ SessionsConsistent`. `SessionsConsistent` speaks of archived
works too, because the printed `mv` brings them back as they are, and it needs the types: closing
a session closes the last open entry of a sequence, and it clears `active_session` with it only
because no earlier entry is open. The argument goes from the bottom up: a lemma for each operation on
a directory value (`TakeSound`, `PruneSound`, `RestoreSound`, ...), one for putting a
sound directory in the place of a work (`ReplaceInv`), one per command, and `NextInv`. The step
properties follow from classifications of the steps: `Effect` and `Untouched` (what a command does to one
work's session log and that it does nothing to the others), `NoGain` (every command but a pin, a restore
and the `mv` adds no owner), `NoLoss` and `Pruned` (only a prune, or a failed snapshot of that name, takes one
away, and which). `NoSnapIsNoSnap`
says that the value that stands for a missing snapshot is not the content of one.

**SpecFiles and SpecReports** (`SpecFilesProofs`), for any number of works, processes and beads. The first
two have the hypothesis `Sequential`: commands run one after the other, and only `kerf pin` is killed. Without it
both are false, as the section on disagreements tells; it is the instance of `MCSpecFilesSerial`, without its
bounds. The third has none.

- `TextsAreWhole`: a reader meets a torn spec.yaml only while a command is rewriting it.
- `OneOwnerPerBead`: no bead has two owners, although a pin rewrites several files and may die between two.
- `DamageIsLocal`: however commands overlap and wherever any of them is killed, a report that is not in doubt
  is true: the session an agent was given is the active one, a pin is in its work. So commands at different
  files undo nothing of each other, nor does a later command that comes upon what an overlap or a kill has left.

The inductive invariant of the first two says that at most one process is away from rest (`Alone`), that a torn
file is in the hands of the process that writes it (`TornByWriter`), and that reports hold in files that can be
read (`Kept`). `Rewriting` and `Pinning` say what the running command has in its hands: a copy that agrees with the
file in the pins, or an edit whose temporary file is the edited text. `Left` is the set of works that can still
have the bead that is being pinned; it shrinks with every edit, and has no other work than the target when the
bead is added. `MarksAssumption` says that the marks for a torn or missing text are no texts.

The invariant of the third, `RInv`, speaks of one command where the first speaks of one at all: at a work that is
not mixed there is at most one (`OneHand`), and what it holds carries every report about that work which is not
in doubt (`Undisturbed`: the text to be written, the temporary file after it was written, the file when only the
date is still to be set). Each work's file tells these reports, or is just being rewritten (`Honest`). One
lemma (`OverlapStep`) turns a step of one command into a step of the invariant: what it does to other files is
nothing, what the others hold stays as it was, and a file two commands are at from then on owes nothing.

**Finalize** (`FinalizeProofs`), for any number of works, branches, files and commits, under the hypothesis
`OneFinalizer` (one at a time; with two, `RecordedOnBranch` is false, because a repository has one HEAD
and one index):

- `CommitIsOnBranch`: the branch a finalized work records holds the commit it records, unless git could not
  say which it is and `unknown` was recorded.
- `CommitsAreSeparate`: no commit of a finalize changes the mirror of two works.

Both speak of the commit; the invariant has to follow what leads to it through every place where a
finalize may stop. `Holding` says what a finalizer relies on between two steps: from checkout to record HEAD is
its own branch, and until it stages its files the index is the tree of HEAD, so that what an
earlier finalize has left behind is not committed with it. `History` says that parents are older than their
children, so that what is reachable from a commit does not change when the log grows.

**Localize and Doctor** (`LocalizeProofs`), for any number of works, localizes, `kerf new` and failures:

- `Visible`: commands that ran one after the other leave every work, and project.yaml, where the Resolver looks.
- `GreenMeansVisible`: a green report can be believed, whatever was killed or ran at once.
- `NoFalseDrift`: doctor reports no drift where commands ran one after the other.
- `AbortMeansRestored`: a roll-back that works puts back all that localize had listed.
- `PreviewsAreTrue`: a localize that nothing disturbs lists what `--check` shows, areas.yaml excepted, and
  has moved all of it before it declares local storage.
- `NothingListedIsLost`: with one localize (`OneLocalizer`), beside any number of `kerf new`, nothing it had
  listed is ever lost. With two it is not true; see below.

The inductive invariant has the types, `SingleCopy` (a configuration file is in one place) and, as long as
nothing was disturbed, `Calm`: one command runs; while it is a localize, `Midway` says for each of its
points what it has already moved and where the link is; while none is, the directories are in one of
the two layouts of `Settled`. None of the properties is inductive, because they speak of the moment when no
localize runs and a localize gets there in many steps. The last theorem needs `FoundKept` besides: at
the moment of removal everything found has been moved.

**BeadFilter** (`FeedProofs`), for any clauses, finite set of beads, editors, bootstraps and floors:

- `FormsAreCanonical`: a filter of no clause is absent or empty, of one direct, of several a union.
- `EditsAreApplied`: a command that nothing interferes with leaves the clauses it was given to leave.
- `BootstrapsAttach`: what `kerf bootstrap-filters` proposed attaches open beads when it is written,
  unless beads or filter have changed during the prompt.
- `AttachedIsKept`: an open bead is detached by the steps the property lists and by no others.

`Normal` ties the encoding to the number of clauses. `Expects` follows an edit through its writes: what is in
the filter, less what is still to be taken out, with what is still to be put in, is the goal at
every step, and while something is to be taken out no clause is there twice. `Promises` keeps the candidate that
was counted: as long as nothing has changed, one clause of the proposal is carried by `MemberFloor` open
beads, and a superset of a finite set of beads has no fewer.

**Feed** (`FeedProofs`), for any number of works, beads, agents and changes by others, any flags:

- `NothingLeftUnsaid`: when `kerf next` has nothing to say and no bead is being worked on, every work is
  complete and every bead closed, outside four situations the property names: a pin that takes a bead from the
  filter of another work, a finalized work with open beads, a live work with an archived codename, and works that
  wait for each other. It has no hypothesis; without any one of the four exceptions `MCFeed` finds a counterexample.
- `CriticalPathIsLongest`: where `kerf next` decorates the queue and the dependencies have no cycle, the works
  on the critical path are a chain, and no set of works with more members is one. `Cyclic` is the only
  hypothesis, and it is part of the property, as `internal/static/static.go:35` makes it the caller's.

The first argument is `SilentIsDone`: among the works that are not complete there would be one that waits for no
other, since they are not stuck; its items are not dropped, since it has no namesake; it has a filter, else it would be a cleanup; not all beads of the filter are closed, else it would
be one too; and an open one of them would be an item. It needs the types (`FeedInv`, which follows each
agent from reading the works to acting on its item). The second property speaks of one state and holds in each.
A work has a height, the number of dependents that a chain from it still can have, because without a cycle
no chain has more works than there are (`Height`). Along the height the recursion of `visit` ends, so it
computes what its equation says (`VisitIs`), and its value falls by one along some dependent and
falls along all (`VisitFalls`): taking the first longest continuation goes down all values (`PathIs`). Of more
works than there are values two have the same one, and neither comes before the other (`EarlierIsHigher`).

**Triage** (`TriageProofs`), for any number of works, beads, labels, other `--ack` and changes by others:

- `CleanExit`: after exit code 0 every ready bead belongs to exactly one work, and nothing was closed,
  reopened, added or removed unseen, unless something has changed since the command began.
- `NothingAckedUnseen`: what happened after an `--ack` had read the store is not acknowledged with it.
- `SuggestionsSettle`: a suggestion that is carried out before anything changes settles its bead.

The inductive invariant follows the loop's command: what it has read is what is there, as long as
`since = "same"` (`Fresh`); it is the command its phase calls for (`InStep`); and the action it hands on
names a bead, a work and one of the bead's labels (`Aiming`, `Sensible`). `NeverApart` says that the value
for "no baseline" is not a state of the store.

**Transcripts** (`TranscriptsProofs`), for any number of files, sub-agents and `kerf next` and without a
bound on time:

- `CacheIsFresh`: no cached parse is taken for a newer file.
- `NoAlarmIsFalse`: no sub-agent that committed before it returned is reported.
- `AbandonedAreReported`: what was abandoned when a `kerf next` began is in its report, unless its transcript
  is deleted or has a line too long to be read.

The cache alone is not inductive, since what a command will write was read
long before: the invariant says of every parse anywhere, in the cache or held by a command, that its
stamp is not from the future and that a stamp which is still right goes with the right lines. The reports
need a second invariant, `History`, on top of it. Parses hold lines of the past (`Past`), in the transcript
of their dispatch (`OwnLines`). A commit comes before the result in the transcript, and the log is
read after all transcripts, so the commits a command has found explain the results it has read (`Explained`).
A dispatch that was owed when a command began is in a file it has still to read or in a parse it
holds (`Tracks`).

**Simulator** (`SimProofs`), for every world and number of agents:

- `ExclusiveBeads`: a bead in progress has one agent, who works on it, whatever the policy.
- `NobodyIdles`: when a tick is over no agent idles beside a bead it could take, whatever the policy.
- `ComparisonIsFair`: for all weights, each of the four policies names dispatchable beads only, and one
  whenever there is one.
- `MeasuringDisturbsNothing`: a run with the ledger is a run of the loop and has the loop's invariants.
- `TicksBalance`: in the full block and in the one after the warm-up, busy ticks are the ticks of the
  dispatches in the window, and with the idle ones they make agents times ticks.
- `CollisionsCounted`: collisions are the pairs of dispatches of one area that overlap, each counted once, in the
  window of the later one.
- `CompletionsCounted`: no finished work is missed, and without arrivals none is counted twice.

The heap is a bag, and the lemmas about the operations on it (`PopBag`, `PopPush`, the minimum that exists by
well-founded induction on the naturals) carry the proof. `WorkConserving` speaks of the end of a
tick; inductive is `Served`: at every step an idle agent beside a dispatchable bead has a wake-up of the
present tick in the heap, which with `Future` (no event lies in the past) must be popped before the
tick ends. `ComparisonIsFair` needs `Announced` (a known bead is one the world began with or one of its
timeline, so they are finitely many) and that a queue which is not empty has a first entry: the place of an
entry is the number of entries before it, and among natural numbers there is a least one.

The numbers of the last three are folds over the ledger at the end of a run. Inductive is `MInv`, which says
what the fold of the ledger *so far* is, at every step. The ledger is in the order of time and ends at the clock
(`Written`); it tells which beads were taken, by whom and when, as store and heap do (`Told`). For
every beginning of a window, so for that of the full block and of the block after the warm-up at once, the
replay holds the dispatches that are still running, and its sums are those of the intervals up to the clock
(`Accounts`). The works it has counted are those whose beads are closed, when none arrives late, and
otherwise no fewer (`Counted`). Each action adds one or two entries at the clock, so each is one or two
steps of the replay.

The provers have no induction over data: the library's induction theorems take an operator. Where a fold or a
recursive function is computed, the modules get by without. Recursion over the numbers up to n has a solution,
because otherwise there would be a least n for which it has none (`UpTo`, `RecursExists` in `FeedProofs`, and the
lemmas on folds in `SimProofs`); what holds of the solution at 0 and passes from one number to the next holds
up to n, by the least counterexample again.

Only model-checked is liveness (`RunEnds`, `CommandsEnd`, `Converges`, `FeedDrains`): the prover does not
reason about fairness or `ENABLED`. Every invariant and every step property of a passing run has a theorem.

## Where code and documents disagree

Besides the `violation` run the models show, with other constants or a property of one line,
these behaviours. They are not kept as runs.

Works, snapshots and sessions:

- `kerf restore` of an older snapshot, and the printed `mv` out of the archive, bring back a pin that
  was given away since: two owners (`specs/coordination.md:337`, `internal/snapshot/snapshot.go:124`).
  `PinTakesOwnership` excepts exactly these two. `PinConflictWarning`, which would say so, is never called;
  `kerf next` then takes the owner with the first codename, triage the last one.
- When the copy of a snapshot fails, the clean-up removes the directory of that second and label, with an
  earlier snapshot that may be there, and most commands go on without a word (`internal/snapshot/snapshot.go:41`).
  `PruneKeepsNewest` excepts exactly this.
- A second snapshot of the same second is laid over the first, so it may hold files the work no longer
  has (`specs/snapshots.md:52`, `internal/snapshot/snapshot.go:37`); a restore within the second of the snapshot
  it asks for meets its own pre-restore copy under that name (`specs/snapshots.md:109`).
- Only `kerf status` and `kerf snapshot` prune; the others let the history grow past the limit
  (`specs/snapshots.md:101`).
- `kerf new --area` with an undefined area leaves a directory without spec.yaml
  (`specs/works.md:35`, `cmd/new.go:210`).

Files:

- A process killed between truncate and write of `spec.Write` leaves an empty file; `spec.Read` takes
  it for an empty spec, and the next `kerf resume` writes it back without codename and jig
  (`specs/testing.md:137`, `internal/spec/spec.go:174`). `NeverTorn` fails in `SpecFiles` as soon as
  `Killable` contains `resume`.
- Two `kerf resume` at once are both told that they have the session (`specs/sessions.md:91`,
  `cmd/resume.go:52`); two `kerf pin` of one bead leave two owners (`cmd/pin.go:160`); a resume's
  stale copy undoes a pin made meanwhile (`cmd/resume.go:71`). kerf is "not a lock manager"
  (`specs/coordination.md:118`); `ReportsHold` says how far the damage goes. With `Serial = FALSE`, two edits share
  one temporary file and a reader may meet a torn spec.yaml (`internal/spec/mutate.go:53`).

Finalize:

- A finalized work passes the square check and is finalized again onto another branch, which replaces
  the one recorded (`specs/finalization.md:173`, `cmd/finalize.go:66`): a status that is in no list
  of the jig counts as past the terminal one. The check is made once, before everything else.
- The finalization branch starts from whatever is checked out (`specs/finalization.md:45`,
  `cmd/finalize.go:90`). Two finalizers in one repository can put one work's commit on the
  other's branch (`cmd/finalize.go:143`): `RecordedOnBranch` fails with two `Finalizers`.

- When `git rev-parse` fails after the commit, `unknown` is appended to `implementation.commits` and the work is
  finalized all the same (`specs/finalization.md:80`, `cmd/finalize.go:315`).

Localize and doctor:

- A work that `kerf new` makes on the bench after `kerf localize` has listed the directory is deleted
  with it (`cmd/localize.go:236`; step 9 of `specs/commands.md` speaks of the "now-empty"
  directory). `ListedWorksKept` excepts exactly this. With two `Localizers` the removal by one can
  also delete a work the other has just moved back, and the roll-back of one removes the link the other has
  made (`cmd/localize.go:278`), so that local storage is declared with a directory on the bench.
- After a localize killed between link and declaration, storage-drift lists every work as present in both
  directories, although the second is the link to the first, and hints at removing the duplicate
  (`internal/doctor/storage_drift.go:77`). The hint for a work in the wrong place is `kerf localize`,
  which refuses while `.kerf/works` is not empty.

Bead filters:

- `kerf new --bead-filter any:a,a` stores the clause twice and `kerf work edit --bead-filter-remove a`
  takes out one copy, so that the clause stays in force (`specs/commands.md:2332`, `cmd/new.go:86`).
  `EditApplied` excepts lists with a clause twice.
- The counts that `kerf work edit` prints resolve the filter without the project's one
  (`specs/coordination.md:275`, `cmd/work_edit.go:465`): for a work without a filter of its own they are those of
  the built-in default. After the last removal the key stays with an empty value
  (`specs/commands.md:2335` wants it gone); the two mean the same.

Triage and next:

- The hint for a label whose codename is archived is `kerf restore <codename>` "to unarchive"; `kerf restore`
  does nothing of the kind (the verb "choose" in `Triage`: the user pins to another work).
- `--resolved` never records a count of zero, so exit 3 after a clean run can claim progress that was
  regress (`specs/commands.md:2203`, `cmd/triage.go:557`).
- Relabelled beads are drift to `internal/drift`, but in no item of triage, although the warning of `kerf
  next` sends there.
- A dependency cycle makes `kerf next` recurse without end (`internal/static/static.go:35`, `:88`) while the queue
  has an entry; works that wait for each other are never in it. `CriticalPathLongest`, `EmptyMeansDone` and `FeedDrains`
  except cycles.
- `kerf next` drops the items of every codename that is in the archive (`cmd/next.go:194`), and `kerf new` gives such a
  codename to a new work (`cmd/new.go:145`): that work is never in the feed, although only items of archived works
  should be left out (`specs/commands.md:1795`).
- The cleanup "beads done, jig walk owed" advises the next status or `kerf shelve` (`internal/feed/cleanup.go:121`,
  `specs/commands.md:1784`). Shelving changes neither status nor filter, and fails without a session: the item stays,
  and an agent that keeps choosing it never gets past it.
- Cleanups go by the filter alone (`internal/feed/cleanup.go:43`): when a pin keeps a bead from another work, or
  after a work is finalized, `kerf next` may print "No items" with the project undone
  (`specs/commands.md:1796`, `specs/coordination.md:330`). `EmptyMeansDone` excepts both.
- A work that cannot be read, or whose status the jig does not list, does not block its dependents; the
  rework bonus counts closed rework beads (`specs/coordination.md:147`), the simulator's summary does not; `kerf
  next` ignores a dependency's `project`, the square check does not; readiness is case-sensitive in
  `feed` and not in `triage`.

Diagnostics:

- `tool_linkage_broken`, and `orphaned` for a sub-agent that never came back, are unreachable: without a
  result the dispatch has lasted zero seconds, below the floor (`specs/diagnostics.md:79`,
  `internal/diagnostics/d1.go`). D1 does not look at the bead's status (`specs/diagnostics.md:63`). A sub-agent
  sent on a subtask whose commit names the parent only is reported.
- D6, the warning that no reviewer looks at the commits, is never given: it counts commit references, and the
  adapter makes none of a Claude transcript (`internal/kerftranscript/claude_adapter.go:35`, `cmd/next.go:431`,
  against `specs/diagnostics.md:113`). Its window goes by the commit time, not the dispatch's.
- A transcript with one line over 4 MB is skipped as a whole, without a word (`internal/kerftranscript/parser.go:80`,
  `cache.go:116`), and with it every dispatch in it. `AbandonedReported` excepts such files.

Simulator:

- A work never leaves the simulator's queue and never counts as complete, so that works with dependencies
  are never dispatched (`internal/sim/store/store.go:331`, `internal/sim/baselines/baselines.go:9`); the loop
  stops when all known beads are closed although arrivals are due (`internal/sim/loop/loop.go:129`).
- A rework bead that arrives after its work was finished makes it finish again, and `work_completed` may
  exceed `work_total` (`specs/simulator.md:280`); `FinishedWorksCounted` therefore claims equality
  without arrivals only. Inversions count beads of blocked works that no policy could take
  (`specs/simulator.md:288`), churn counts queues of one entry (`specs/simulator.md:299`), and the random
  baseline draws from its generator when its queue is only looked at.
- An explicit `bead_id` of a scenario may collide with another bead's, of another work even; the arrival is
  recorded in the metrics though the store ignores it.

## Not modelled, and why

- Text output, listings, help and setup change nothing or write constant text. So do the
  reports of `kerf triage` without `--resolved` and `--ack`, rank labels, near-match hints and `--top`.
- Scenario import is one translation without state; seeds and the generator's distributions are
  nondeterministic choices in `SimLoop`. Queue snapshots, churn, rework waits and inversions only
  observe the run and touch no number that `SimMetrics` has.
- Jigs, areas, projects and configuration are definition files with one writer at a time and a fixed
  precedence; of areas.yaml only its place matters, in `Localize`, of project.yaml its filter.
- Doctor's detector of validation sections searches texts. D6 of the diagnostics is never triggered (above).
- Removals, restores and prunes of snapshots that fail half-way: a restore that has removed files and not yet
  copied them back leaves a directory about which no command promises anything.
- The bead store is an external tool (`bd`/`br`): a bead is a value. That it is missing, and that
  `kerf next` then shows every work as having no beads, is outside the models; in `BeadFilter` it may fail.
- Dependencies on works of other projects, contents of artifacts, titles, dates other than
  the second in snapshot names, and the wording of messages are left out everywhere.
- File systems whose modification times do not tell two appends apart (`Transcripts`), and machines
  that lose what a finished system call has written.
