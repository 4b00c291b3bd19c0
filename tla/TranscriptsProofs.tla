------------------------- MODULE TranscriptsProofs -------------------------
(***************************************************************************)
(* The shared cache of parsed transcripts is never stale, for any number   *)
(* of transcripts, sub-agents and kerf next, and without a bound on time.  *)
(*                                                                         *)
(* CacheNeverStale is about the cache alone and not inductive: what a kerf *)
(* next will write there was read long before.  The inductive invariant    *)
(* says of every parse anywhere, in the cache or held by a command, that   *)
(* its modification time is not beyond the transcript's, and that with the *)
(* same time it has the same lines; and of a command between the stat and  *)
(* the read that its stamp is not from the future.  A read that is late    *)
(* gives an old stamp to new lines, which is harmless: a stamp only        *)
(* matters when it is the latest, and then nothing was written after it.   *)
(***************************************************************************)
EXTENDS Transcripts, TLAPS, WellFoundedInduction

\* The values of the variables.
Line == [kind : {"dispatch", "tool_result"}, agent : SubAgents, at : Nat, error : BOOLEAN]
Parsed == [mtime : Nat, events : Seq(Line)]
Parses == UNION {[S -> Parsed] : S \in SUBSET Files}

Points == {"idle", "load", "stat", "parse", "index", "detect"}
Command ==
    [at : Points, head : Nat, known : Parses \cup {None}, todo : SUBSET Files,
     file : Files \cup {None}, mtime : Nat, entries : Parses, found : SUBSET Beads]

CacheFile == [head : Nat, entries : Parses]

TypeOK ==
    /\ clock \in Nat /\ head \in Nat
    /\ lines \in [Files -> Seq(Line)]
    /\ pending \in [Files -> Line \cup {None}]
    /\ commits \subseteq Beads
    /\ cache \in CacheFile \cup {None}
    /\ next \in [Nexts -> Command]

\* A parse of f that no later reader can mistake.
Sound(parsed, f) ==
    /\ parsed.mtime <= MTime(f)
    /\ parsed.mtime = MTime(f) => parsed.events = lines[f]

AllSound(parses) == \A f \in DOMAIN parses : Sound(parses[f], f)

\* What a command holds between two steps.
Held(rec) ==
    /\ rec \in Command
    /\ AllSound(rec.entries)
    /\ rec.at \in {"stat", "parse"} => rec.known \in Parses /\ AllSound(rec.known)
    /\ rec.at = "parse" => rec.file \in Files /\ rec.mtime <= MTime(rec.file)

IInv ==
    /\ TypeOK
    /\ cache # None => AllSound(cache.entries)
    /\ \A p \in Nexts : Held(next[p])

----------------------------------------------------------------------------
\* The empty cache.
LEMMA EmptyParses == <<>> \in Parses /\ DOMAIN <<>> = {}
<1>1. DOMAIN <<>> = {}
  OBVIOUS
<1>2. <<>> \in [{} -> Parsed]
  OBVIOUS
<1> QED
  BY <1>1, <1>2 DEF Parses

\* What With adds.
LEMMA WithParses ==
  ASSUME NEW parses \in Parses, NEW f \in Files, NEW parsed \in Parsed
  PROVE  /\ With(parses, f, parsed) \in Parses
         /\ DOMAIN With(parses, f, parsed) = DOMAIN parses \cup {f}
<1>1. PICK S \in SUBSET Files : parses \in [S -> Parsed]
  BY DEF Parses
<1>2. With(parses, f, parsed) \in [S \cup {f} -> Parsed]
  BY <1>1 DEF With
<1> QED
  BY <1>1, <1>2 DEF Parses, With

\* What a parse in the cache is.
LEMMA ParsesApply ==
  ASSUME NEW parses \in Parses, NEW f \in DOMAIN parses
  PROVE  parses[f] \in Parsed /\ f \in Files
BY DEF Parses

\* Modification times can be compared.
LEMMA MTimeNat ==
  ASSUME TypeOK, NEW f \in Files
  PROVE  MTime(f) \in Nat
BY DEF TypeOK, MTime

\* What a session may do to a transcript: a line only appears together with
\* a later modification time.
Grows ==
    \A f \in Files :
        /\ MTime(f)' >= MTime(f)
        /\ MTime(f)' = MTime(f) => lines'[f] = lines[f]

\* A sound parse stays sound while transcripts only grow.
LEMMA SoundStays ==
  ASSUME TypeOK, TypeOK', Grows, NEW parses \in Parses, AllSound(parses)
  PROVE  AllSound(parses)'
<1> SUFFICES ASSUME NEW f \in DOMAIN parses
             PROVE  Sound(parses[f], f)'
  BY DEF AllSound
<1>1. f \in Files /\ parses[f].mtime \in Nat
  BY ParsesApply DEF Parsed
<1>2. MTime(f) \in Nat /\ MTime(f)' \in Nat
  BY <1>1, MTimeNat DEF TypeOK, MTime
<1> QED
  BY <1>1, <1>2 DEF AllSound, Sound, Grows

----------------------------------------------------------------------------
(* The sessions and the clock *)

\* A session's step keeps the types and touches no command.
LEMMA SessionTyped ==
  ASSUME TypeOK, Tick \/ Session
  PROVE  TypeOK' /\ UNCHANGED <<cache, next>>
<1> USE TranscriptsAssumption DEF TypeOK
<1>1. CASE Tick
  BY <1>1 DEF Tick, sessionVars
<1>2. ASSUME NEW a \in SubAgents, Dispatch(a)
      PROVE  TypeOK' /\ UNCHANGED <<cache, next>>
  <2>1. Dispatched(a, clock) \in Line
    BY DEF Dispatched, Line
  <2> QED
    BY <1>2, <2>1 DEF Dispatch, Begin
<1>3. ASSUME NEW a \in SubAgents, Return(a)
      PROVE  TypeOK' /\ UNCHANGED <<cache, next>>
  <2>1. Returned(a, clock) \in Line
    BY DEF Returned, Line
  <2> QED
    BY <1>3, <2>1 DEF Return, Begin
<1>4. ASSUME NEW a \in SubAgents, NEW b \in Beads, NEW here \in BOOLEAN, Commit(a, b, here)
      PROVE  TypeOK' /\ UNCHANGED <<cache, next>>
  BY <1>4 DEF Commit
<1>5. ASSUME NEW f \in Files, EndLine(f)
      PROVE  TypeOK' /\ UNCHANGED <<cache, next>>
  <2>1. pending[f] \in Line
    BY <1>5 DEF EndLine
  <2> QED
    BY <1>5, <2>1 DEF EndLine
<1>6. ASSUME NEW f \in Files, Remove(f)
      PROVE  TypeOK' /\ UNCHANGED <<cache, next>>
  BY <1>6 DEF Remove
<1> QED
  BY <1>1, <1>2, <1>3, <1>4, <1>5, <1>6 DEF Session

\* A session's step never changes a line without the modification time.
LEMMA SessionGrows ==
  ASSUME TypeOK, Tick \/ Session
  PROVE  Grows
<1> SUFFICES ASSUME NEW f \in Files
             PROVE  /\ MTime(f)' >= MTime(f)
                    /\ MTime(f)' = MTime(f) => lines'[f] = lines[f]
  BY DEF Grows
<1>1. Len(lines[f]) \in Nat /\ pending[f] \in Line \cup {None}
  BY DEF TypeOK
<1>2. CASE UNCHANGED <<lines, pending>>
  BY <1>1, <1>2 DEF MTime
<1>3. ASSUME NEW g \in Files, NEW event, Begin(g, event)
      PROVE  /\ MTime(f)' >= MTime(f)
             /\ MTime(f)' = MTime(f) => lines'[f] = lines[f]
  BY <1>1, <1>3 DEF Begin, MTime, TypeOK
<1>4. ASSUME NEW g \in Files, EndLine(g)
      PROVE  /\ MTime(f)' >= MTime(f)
             /\ MTime(f)' = MTime(f) => lines'[f] = lines[f]
  <2>1. CASE f = g
    <3>1. Len(lines'[f]) = Len(lines[f]) + 1
      BY <1>4, <2>1 DEF EndLine, TypeOK
    <3>2. pending[f] # None /\ pending'[f] = None
      BY <1>4, <2>1 DEF EndLine, TypeOK
    <3> QED
      BY <1>1, <3>1, <3>2 DEF MTime
  <2>2. CASE f # g
    BY <1>1, <1>4, <2>2 DEF EndLine, MTime, TypeOK
  <2> QED
    BY <2>1, <2>2
<1>5. Tick => UNCHANGED <<lines, pending>>
  BY DEF Tick, sessionVars
<1> QED
  BY <1>2, <1>3, <1>4, <1>5, TranscriptsAssumption
     DEF Session, Dispatch, Return, Commit, Remove

\* A session's step keeps the invariant.
LEMMA SessionKeeps ==
  ASSUME IInv, Tick \/ Session
  PROVE  IInv'
<1>1. TypeOK /\ TypeOK' /\ UNCHANGED <<cache, next>> /\ Grows
  BY SessionTyped, SessionGrows DEF IInv
<1>2. cache # None => AllSound(cache.entries)'
  <2> SUFFICES ASSUME cache # None
               PROVE  AllSound(cache.entries)'
    OBVIOUS
  <2>1. cache.entries \in Parses /\ AllSound(cache.entries)
    BY <1>1 DEF IInv, TypeOK, CacheFile
  <2> QED
    BY <1>1, <2>1, SoundStays
<1>3. ASSUME NEW p \in Nexts, NEW rec, Held(rec)
      PROVE  Held(rec)'
  <2>1. rec \in Command /\ rec.entries \in Parses /\ AllSound(rec.entries)
    BY <1>3 DEF Held, Command
  <2>2. AllSound(rec.entries)'
    BY <1>1, <2>1, SoundStays
  <2>3. ASSUME rec.at \in {"stat", "parse"}
        PROVE  rec.known \in Parses /\ AllSound(rec.known)'
    <3>1. rec.known \in Parses /\ AllSound(rec.known)
      BY <1>3, <2>3 DEF Held
    <3> QED
      BY <1>1, <3>1, SoundStays
  <2>4. ASSUME rec.at = "parse"
        PROVE  rec.file \in Files /\ rec.mtime <= MTime(rec.file)'
    <3>1. rec.file \in Files /\ rec.mtime <= MTime(rec.file)
      BY <1>3, <2>4 DEF Held
    <3>2. ASSUME NEW f \in Files
          PROVE  MTime(f) \in Nat /\ MTime(f)' \in Nat /\ MTime(f)' >= MTime(f)
      BY <1>1, MTimeNat DEF TypeOK, MTime, Grows
    <3> QED
      BY <2>1, <3>1, <3>2 DEF Command
  <2> QED
    BY <2>1, <2>2, <2>3, <2>4 DEF Held
<1>4. ASSUME NEW p \in Nexts
      PROVE  Held(next[p])'
  <2>1. next'[p] = next[p] /\ Held(next[p])
    BY <1>1 DEF IInv
  <2> QED
    BY <1>3, <2>1 DEF Held
<1> QED
  BY <1>1, <1>2, <1>4 DEF IInv

----------------------------------------------------------------------------
(* The commands *)

\* A command's own step leaves the transcripts alone.
LEMMA HeldStays ==
  ASSUME UNCHANGED sessionVars
  PROVE  /\ \A parses : AllSound(parses) => AllSound(parses)'
         /\ \A rec : Held(rec) => Held(rec)'
<1>1. \A f : MTime(f)' = MTime(f) /\ lines'[f] = lines[f]
  BY DEF MTime, sessionVars
<1>2. \A parses : AllSound(parses) => AllSound(parses)'
  BY <1>1 DEF AllSound, Sound
<1>3. \A rec : Held(rec) => Held(rec)'
  BY <1>1, <1>2 DEF Held
<1> QED
  BY <1>2, <1>3

\* A command's step is about its own record, and perhaps the cache.
LEMMA OneCommand ==
  ASSUME IInv, NEW p \in Nexts, NEW rec, Set(p, rec), Held(rec),
         UNCHANGED <<clock, sessionVars>>,
         cache' \in CacheFile \cup {None}, (cache # None => AllSound(cache.entries))'
  PROVE  IInv'
<1>1. next \in [Nexts -> Command] /\ next' = [next EXCEPT ![p] = rec]
  BY DEF Set, IInv, TypeOK
<1>2. ASSUME NEW q \in Nexts
      PROVE  Held(next[q])'
  <2>1. PICK mine : mine = next'[q]
    OBVIOUS
  <2>2. Held(mine)
    BY <1>1, <2>1 DEF IInv
  <2>3. Held(mine)'
    BY <2>2, HeldStays
  <2> QED
    BY <2>1, <2>3 DEF Held
<1>3. TypeOK'
  BY <1>1 DEF IInv, TypeOK, Held, sessionVars
<1> QED
  BY <1>2, <1>3 DEF IInv

\* A step that leaves the cache and the transcripts alone.
LEMMA CacheKept ==
  ASSUME IInv, UNCHANGED <<cache, sessionVars>>
  PROVE  cache' \in CacheFile \cup {None} /\ (cache # None => AllSound(cache.entries))'
BY DEF IInv, TypeOK, AllSound, Sound, MTime, sessionVars

\* Nothing in the empty cache can be mistaken.
LEMMA EmptySound == AllSound(<<>>)
BY EmptyParses DEF AllSound

\* A command that has not begun.
LEMMA IdleHeld == Held(Idle)
<1>1. <<>> \in Parses
  BY EmptyParses
<1> QED
  BY <1>1, EmptySound DEF Idle, Command, Points, Held

\* The command finds the transcripts.
LEMMA StartKeeps ==
  ASSUME IInv, NEW p \in Nexts, Start(p)
  PROVE  IInv'
<1> DEFINE rec == [Idle EXCEPT !.at = IF Files \subseteq gone THEN "detect" ELSE "load",
                               !.head = head, !.todo = Files \ gone]
<1>1. Set(p, rec) /\ UNCHANGED <<clock, sessionVars, cache>>
  BY DEF Start
<1>2. Held(rec)
  BY EmptySound, EmptyParses DEF Idle, Held, Command, Points, IInv, TypeOK
<1> HIDE DEF rec
<1> QED
  BY <1>1, <1>2, OneCommand, CacheKept

\* What it takes over from the cache.
LEMMA LoadKeeps ==
  ASSUME IInv, NEW p \in Nexts, Load(p)
  PROVE  IInv'
<1> DEFINE known == IF cache # None /\ cache.head = next[p].head THEN cache.entries ELSE <<>>
           rec == [next[p] EXCEPT !.at = "stat", !.known = known]
<1>1. Set(p, rec) /\ UNCHANGED <<clock, sessionVars, cache>>
  BY DEF Load
<1>2. known \in Parses /\ AllSound(known)
  BY EmptyParses, EmptySound DEF IInv, TypeOK, CacheFile
<1> HIDE DEF known
<1>3. Held(rec)
  BY <1>2 DEF IInv, Held, Command, Points
<1> HIDE DEF rec
<1> QED
  BY <1>1, <1>3, OneCommand, CacheKept

\* Adding a sound parse of f to sound parses.
LEMMA WithSound ==
  ASSUME NEW parses \in Parses, AllSound(parses),
         NEW f \in Files, NEW parsed \in Parsed, Sound(parsed, f)
  PROVE  With(parses, f, parsed) \in Parses /\ AllSound(With(parses, f, parsed))
<1>1. With(parses, f, parsed) \in Parses
  BY WithParses
<1>2. ASSUME NEW g \in DOMAIN With(parses, f, parsed)
      PROVE  Sound(With(parses, f, parsed)[g], g)
  <2>1. g \in DOMAIN parses \cup {f}
    BY <1>2, WithParses
  <2>2. With(parses, f, parsed)[g] = IF g = f THEN parsed ELSE parses[g]
    BY <2>1 DEF With
  <2>3. CASE g = f
    BY <2>2, <2>3
  <2>4. CASE g # f
    BY <2>1, <2>2, <2>4 DEF AllSound
  <2> QED
    BY <2>3, <2>4
<1> QED
  BY <1>1, <1>2 DEF AllSound

\* It reuses a parse only with the present modification time.
LEMMA StatKeeps ==
  ASSUME IInv, NEW p \in Nexts, NEW f \in Files, Stat(p, f)
  PROVE  IInv'
<1> DEFINE rest == [next[p] EXCEPT !.todo = @ \ {f}]
           reused == [rest EXCEPT !.entries = With(@, f, next[p].known[f])]
           changed == [rest EXCEPT !.at = "parse", !.file = f, !.mtime = MTime(f)]
<1>1. next[p].at = "stat" /\ UNCHANGED <<clock, sessionVars, cache>>
  BY DEF Stat, At
<1>2. /\ Held(next[p]) /\ Held(rest) /\ rest.at = "stat"
      /\ rest.known = next[p].known /\ rest.entries = next[p].entries
  BY <1>1 DEF IInv, Held, Command
<1>3. CASE Set(p, rest)
  BY <1>1, <1>2, <1>3, OneCommand, CacheKept
<1>4. CASE f \in DOMAIN next[p].known /\ Set(p, reused)
  <2>1. next[p].known \in Parses /\ AllSound(next[p].known)
    BY <1>1, <1>2 DEF Held
  <2>2. next[p].known[f] \in Parsed /\ Sound(next[p].known[f], f)
    BY <1>4, <2>1, ParsesApply DEF AllSound
  <2>3. /\ With(rest.entries, f, next[p].known[f]) \in Parses
        /\ AllSound(With(rest.entries, f, next[p].known[f]))
    BY <1>2, <2>2, WithSound DEF Held, Command
  <2> HIDE DEF rest
  <2>4. Held(reused)
    BY <1>2, <2>3 DEF Held, Command
  <2> QED
    BY <1>1, <1>4, <2>4, OneCommand, CacheKept
<1>5. CASE Set(p, changed)
  <2>1. MTime(f) \in Nat
    BY MTimeNat DEF IInv
  <2> HIDE DEF rest
  <2>2. /\ changed \in Command /\ changed.at = "parse"
        /\ changed.file = f /\ changed.mtime = MTime(f)
        /\ changed.entries = rest.entries /\ changed.known = rest.known
    BY <1>2, <2>1 DEF Held, Command, Points
  <2> HIDE DEF changed
  <2>3. MTime(changed.file) = MTime(f)
    BY <2>2
  <2>4. Held(changed)
    BY <1>2, <2>1, <2>2, <2>3 DEF Held
  <2> QED
    BY <1>1, <1>5, <2>4, OneCommand, CacheKept
<1> QED
  BY <1>3, <1>4, <1>5 DEF Stat

\* It stamps what it reads with a time no later than the contents.
LEMMA ParseKeeps ==
  ASSUME IInv, NEW p \in Nexts, Parse(p)
  PROVE  IInv'
<1> DEFINE f == next[p].file
           entries == IF Here(f) /\ f \notin choked
                      THEN With(next[p].entries, f, Entry(next[p].mtime, ParseFile(f)))
                      ELSE next[p].entries
           rec == [next[p] EXCEPT !.at = "stat", !.file = None, !.mtime = 0,
                                  !.entries = entries]
<1>1. next[p].at = "parse" /\ UNCHANGED <<clock, sessionVars, cache>>
  BY DEF Parse, At
<1>2. Set(p, rec)
  BY DEF Parse
<1>3. Held(next[p]) /\ next[p] \in Command
  BY DEF IInv, TypeOK
<1>4. f \in Files /\ next[p].mtime <= MTime(f) /\ next[p].mtime \in Nat
  BY <1>1, <1>3 DEF Held, Command
<1>5. entries \in Parses /\ AllSound(entries)
  <2>1. /\ Entry(next[p].mtime, ParseFile(f)) \in Parsed
        /\ Sound(Entry(next[p].mtime, ParseFile(f)), f)
    BY <1>4 DEF Entry, ParseFile, Parsed, Sound, IInv, TypeOK
  <2>2. next[p].entries \in Parses /\ AllSound(next[p].entries)
    BY <1>3 DEF Held, Command
  <2> QED
    BY <1>4, <2>1, <2>2, WithSound
<1> HIDE DEF entries
<1>6. Held(rec)
  BY <1>1, <1>3, <1>5 DEF Held, Command, Points
<1> QED
  BY <1>1, <1>2, <1>6, OneCommand, CacheKept

\* It replaces the cache by what it holds, or fails to.
LEMMA WriteKeeps ==
  ASSUME IInv, NEW p \in Nexts, Write(p)
  PROVE  IInv'
<1> DEFINE point == IF Events(next[p].entries) = {} THEN "detect" ELSE "index"
           rec == [next[p] EXCEPT !.at = point, !.known = None, !.head = 0]
           file == [head |-> next[p].head, entries |-> next[p].entries]
<1>1. Set(p, rec) /\ UNCHANGED <<clock, sessionVars>> /\ cache' \in {cache, file}
  BY DEF Write
<1>2. Held(next[p]) /\ next[p] \in Command
  BY DEF IInv, TypeOK
<1>3. point \in {"detect", "index"}
  OBVIOUS
<1> HIDE DEF point
<1>4. Held(rec)
  BY <1>2, <1>3 DEF Held, Command, Points
<1>5. file \in CacheFile /\ AllSound(file.entries)
  BY <1>2 DEF Held, Command, CacheFile
<1>6. cache' \in CacheFile \cup {None} /\ (cache' # None => AllSound(cache'.entries))
  BY <1>1, <1>5 DEF IInv, TypeOK
<1>7. (cache # None => AllSound(cache.entries))'
  <2>1. PICK new : new = cache'
    OBVIOUS
  <2>2. new # None => AllSound(new.entries)'
    BY <1>1, <1>6, <2>1, HeldStays
  <2> QED
    BY <2>1, <2>2 DEF AllSound, Sound
<1> QED
  BY <1>1, <1>4, <1>6, <1>7, OneCommand

\* It reads the git log.
LEMMA IndexKeeps ==
  ASSUME IInv, NEW p \in Nexts, BuildIndex(p)
  PROVE  IInv'
<1> DEFINE rec == [next[p] EXCEPT !.at = "detect", !.found = commits]
<1>1. Set(p, rec) /\ UNCHANGED <<clock, sessionVars, cache>>
  BY DEF BuildIndex
<1>2. Held(rec)
  BY DEF IInv, TypeOK, Held, Command, Points
<1> QED
  BY <1>1, <1>2, OneCommand, CacheKept

\* It prints, or is killed.
LEMMA ExitKeeps ==
  ASSUME IInv, NEW p \in Nexts, Exit(p)
  PROVE  IInv'
BY IdleHeld, OneCommand, CacheKept DEF Exit

----------------------------------------------------------------------------
\* There is no cache at first.
LEMMA InitHolds == Init => IInv
<1> SUFFICES ASSUME Init PROVE IInv
  OBVIOUS
<1>1. TypeOK
  BY IdleHeld DEF Init, TypeOK, Held
<1>2. cache = None /\ \A p \in Nexts : next[p] = Idle
  BY DEF Init
<1> QED
  BY <1>1, <1>2, IdleHeld DEF IInv

\* Every step keeps the invariant.
LEMMA StepKeeps == IInv /\ [Next]_vars => IInv'
<1> SUFFICES ASSUME IInv, [Next]_vars PROVE IInv'
  OBVIOUS
<1>1. CASE Tick \/ Session
  BY <1>1, SessionKeeps
<1>2. ASSUME NEW p \in Nexts, KerfNext(p) \/ Kill(p)
      PROVE  IInv'
  BY <1>2, StartKeeps, LoadKeeps, StatKeeps, ParseKeeps, WriteKeeps, IndexKeeps, ExitKeeps
     DEF KerfNext, Kill, Detect
<1>3. CASE UNCHANGED vars
  BY <1>3 DEF vars, sessionVars, IInv, TypeOK, Held, AllSound, Sound, MTime
<1> QED
  BY <1>1, <1>2, <1>3 DEF Next

(***************************************************************************)
(* An entry of the shared cache that the next reader would take for the    *)
(* transcript is the transcript's parse, however many sessions append to   *)
(* the transcripts and however many kerf next overwrite the cache.         *)
(***************************************************************************)
THEOREM CacheIsFresh == TranscriptsSpec => []CacheNeverStale
<1>1. IInv => CacheNeverStale
  <2> SUFFICES ASSUME IInv, cache # None, NEW f \in DOMAIN cache.entries,
                      Here(f), cache.entries[f].mtime = MTime(f)
               PROVE  cache.entries[f].events = ParseFile(f)
    BY DEF CacheNeverStale
  <2> QED
    BY DEF IInv, AllSound, Sound, ParseFile
<1> QED
  BY <1>1, InitHolds, StepKeeps, PTL DEF TranscriptsSpec

----------------------------------------------------------------------------
(* The reports.  A second invariant on top of the first follows a dispatch *)
(* from its lines to the report: parses hold lines of the past, a commit   *)
(* comes before the result, and the log is read after the transcripts.     *)

\* The lines of parses are lines of the transcripts.
Past(parses) ==
    \A f \in DOMAIN parses : EventSet(parses[f].events) \subseteq EventSet(lines[f])

\* The commits a command has found explain the results it has read.
Explained(rec) ==
    \A e \in Events(rec.entries) :
        e.kind = "tool_result" /\ e.agent \in served => BeadOf[e.agent] \in Keyed(rec.found)

Told(rec) ==
    /\ Past(rec.entries)
    /\ rec.at \in {"stat", "parse"} => Past(rec.known)
    /\ rec.found \subseteq commits
    /\ rec.at = "detect" => Explained(rec)

\* A dispatch among the events that came back late.
Late(a, events) ==
    \E d, r \in events :
        /\ d.agent = a /\ d.kind = "dispatch"
        /\ r.agent = a /\ r.kind = "tool_result"
        /\ r.at >= d.at + Floor

\* A command has read of the late dispatch, or will, unless it cannot.
Tracks(rec, a) ==
    LET f == FileOf[a] IN
    /\ Late(a, EventSet(lines[f]))
    /\ \/ f \in gone \cup choked
       \/ rec.at \in {"load", "stat", "parse"} /\ f \in rec.todo
       \/ rec.at = "parse" /\ rec.file = f
       \/ f \in DOMAIN rec.entries /\ Late(a, EventSet(rec.entries[f].events))

\* Lines are in the transcript of their dispatch and not from the future.
OwnLines ==
    \A f \in Files : \A e \in All(f) : FileOf[e.agent] = f /\ e.at <= clock

History ==
    /\ served \subseteq SubAgents
    /\ \A a \in served : BeadOf[a] \in Keyed(commits)
    /\ OwnLines
    /\ cache # None => Past(cache.entries)
    /\ \A p \in Nexts : Told(next[p])
    /\ owed \in [Nexts -> SUBSET SubAgents]
    /\ \A p \in Nexts : \A a \in owed[p] : Tracks(next[p], a)

\* A transcript with one more line.
LEMMA AppendEvents ==
  ASSUME NEW S, NEW l \in Seq(S), NEW e \in S
  PROVE  EventSet(Append(l, e)) = EventSet(l) \cup {e}
<1>1. Len(l) \in Nat /\ DOMAIN l = 1..Len(l)
  OBVIOUS
<1>2. /\ DOMAIN Append(l, e) = 1..(Len(l) + 1)
      /\ \A i \in 1..Len(l) : Append(l, e)[i] = l[i]
      /\ Append(l, e)[Len(l) + 1] = e
  OBVIOUS
<1>3. ASSUME NEW i \in 1..(Len(l) + 1)
      PROVE  i \in 1..Len(l) \/ i = Len(l) + 1
  BY <1>1
<1>4. EventSet(Append(l, e)) \subseteq EventSet(l) \cup {e}
  BY <1>1, <1>2, <1>3 DEF EventSet
<1>5. EventSet(l) \cup {e} \subseteq EventSet(Append(l, e))
  BY <1>1, <1>2 DEF EventSet
<1> QED
  BY <1>4, <1>5

\* The lines of a transcript, and the one being written.
LEMMA LinesOf ==
  ASSUME TypeOK, NEW f \in Files
  PROVE  /\ EventSet(lines[f]) \subseteq Line /\ EventSet(lines[f]) \subseteq All(f)
         /\ All(f) \subseteq Line
<1>1. lines[f] \in Seq(Line) /\ pending[f] \in Line \cup {None}
  BY DEF TypeOK
<1>2. EventSet(lines[f]) \subseteq Line
  BY <1>1 DEF EventSet
<1> QED
  BY <1>1, <1>2 DEF All

\* What the sessions do between two steps of a command: nothing is taken
\* back, and a commit is made by an agent that has not returned.
Onward ==
    /\ \A f \in Files : EventSet(lines[f]) \subseteq EventSet(lines'[f])
    /\ gone \subseteq gone' /\ choked \subseteq choked' /\ commits \subseteq commits'
    /\ served \subseteq served' /\ served' \subseteq SubAgents
    /\ \A a \in served' \ served : ~Done(a) /\ BeadOf[a] \in Keyed(commits')
    /\ OwnLines'
    /\ UNCHANGED <<cache, next, owed>>

\* A new line of the right transcript, with the present time.
LEMMA BeginOnward ==
  ASSUME IInv, History, NEW f \in Files, NEW e \in Line, FileOf[e.agent] = f, e.at = clock,
         Begin(f, e)
  PROVE  Onward
<1>1. /\ lines' = lines /\ pending' = [pending EXCEPT ![f] = e] /\ pending[f] = None
      /\ UNCHANGED <<clock, gone, choked, served, commits, cache, next, owed>>
  BY DEF Begin
<1>2. \A g \in Files : pending'[g] = IF g = f THEN e ELSE pending[g]
  BY <1>1 DEF IInv, TypeOK
<1>3. \A g \in Files : All(g)' \subseteq All(g) \cup (IF g = f THEN {e} ELSE {})
  BY <1>1, <1>2 DEF All
<1>4. clock \in Nat
  BY DEF IInv, TypeOK
<1>5. OwnLines'
  BY <1>1, <1>3, <1>4 DEF History, OwnLines
<1> QED
  BY <1>1, <1>5 DEF Onward, History

\* Every step of a session, and the clock, goes onward.
LEMMA SessionOnward ==
  ASSUME IInv, History, Tick \/ Session
  PROVE  Onward
<1>1. CASE Tick
  <2>1. clock \in Nat /\ clock' = clock + 1 /\ UNCHANGED <<sessionVars, cache, next, owed>>
    BY <1>1 DEF Tick, IInv, TypeOK
  <2>2. \A f \in Files : All(f)' = All(f) /\ \A e \in All(f) : e.at \in Nat
    BY <2>1, LinesOf DEF All, sessionVars, IInv, Line
  <2>3. OwnLines'
    BY <2>1, <2>2 DEF History, OwnLines
  <2> QED
    BY <2>1, <2>3 DEF Onward, History, sessionVars
<1>2. ASSUME NEW a \in SubAgents, Dispatch(a)
      PROVE  Onward
  <2>1. Dispatched(a, clock) \in Line /\ FileOf[a] \in Files
    BY TranscriptsAssumption DEF Dispatched, Line, IInv, TypeOK
  <2>2. Dispatched(a, clock).agent = a /\ Dispatched(a, clock).at = clock
    BY DEF Dispatched
  <2> QED
    BY <1>2, <2>1, <2>2, BeginOnward DEF Dispatch
<1>3. ASSUME NEW a \in SubAgents, Return(a)
      PROVE  Onward
  <2>1. Returned(a, clock) \in Line /\ FileOf[a] \in Files
    BY TranscriptsAssumption DEF Returned, Line, IInv, TypeOK
  <2>2. Returned(a, clock).agent = a /\ Returned(a, clock).at = clock
    BY DEF Returned
  <2> QED
    BY <1>3, <2>1, <2>2, BeginOnward DEF Return
<1>4. ASSUME NEW a \in SubAgents, NEW b \in Beads, NEW here \in BOOLEAN, Commit(a, b, here)
      PROVE  Onward
  <2>1. /\ commits' = commits \cup {b} /\ served' = served \cup {a} /\ ~Done(a)
        /\ BeadOf[a] \in {b, ParentOf[b]}
        /\ UNCHANGED <<clock, lines, pending, gone, choked, cache, next, owed>>
    BY <1>4 DEF Commit
  <2>2. BeadOf[a] \in Keyed(commits')
    BY <2>1 DEF Keyed
  <2>3. OwnLines'
    BY <2>1 DEF History, OwnLines, All
  <2> QED
    BY <2>1, <2>2, <2>3 DEF Onward, History
<1>5. ASSUME NEW f \in Files, EndLine(f)
      PROVE  Onward
  <2>1. /\ lines' = [lines EXCEPT ![f] = Append(@, pending[f])]
        /\ pending' = [pending EXCEPT ![f] = None] /\ pending[f] \in Line
        /\ choked \subseteq choked'
        /\ UNCHANGED <<clock, gone, served, commits, cache, next, owed>>
    BY <1>5 DEF EndLine, IInv, TypeOK
  <2>2. lines[f] \in Seq(Line) /\ pending[f] # None
    BY <1>5 DEF EndLine, IInv, TypeOK
  <2>3. EventSet(lines'[f]) = EventSet(lines[f]) \cup {pending[f]} /\ pending'[f] = None
    BY <2>1, <2>2, AppendEvents DEF IInv, TypeOK
  <2>4. \A g \in Files \ {f} : lines'[g] = lines[g] /\ pending'[g] = pending[g]
    BY <2>1 DEF IInv, TypeOK
  <2>5. \A g \in Files : All(g)' \subseteq All(g)
    <3>1. All(f)' = All(f)
      BY <2>2, <2>3 DEF All
    <3>2. \A g \in Files \ {f} : All(g)' = All(g)
      BY <2>4 DEF All
    <3> QED
      BY <3>1, <3>2
  <2>6. OwnLines'
    BY <2>1, <2>5 DEF History, OwnLines
  <2> QED
    BY <2>1, <2>3, <2>4, <2>6 DEF Onward, History
<1>6. ASSUME NEW f \in Files, Remove(f)
      PROVE  Onward
  <2>1. /\ gone' = gone \cup {f}
        /\ UNCHANGED <<clock, lines, pending, choked, served, commits, cache, next, owed>>
    BY <1>6 DEF Remove
  <2>2. OwnLines'
    BY <2>1 DEF History, OwnLines, All
  <2> QED
    BY <2>1, <2>2 DEF Onward, History
<1> QED
  BY <1>1, <1>2, <1>3, <1>4, <1>5, <1>6 DEF Session

\* More commits explain more, and more lines hold what fewer held.
LEMMA Monotone ==
  /\ \A S, T : S \subseteq T => Keyed(S) \subseteq Keyed(T)
  /\ \A a, S, T : S \subseteq T /\ Late(a, S) => Late(a, T)
BY DEF Keyed, Late

\* What a command was told stays true while the sessions go on.
LEMMA SessionHistory ==
  ASSUME IInv, History, Tick \/ Session
  PROVE  History'
<1>1. Onward
  BY SessionOnward
<1>2. ASSUME NEW parses \in Parses, Past(parses)
      PROVE  Past(parses)'
  BY <1>1, <1>2, ParsesApply DEF Past, Onward
<1>3. ASSUME NEW rec \in Command, Held(rec), Told(rec)
      PROVE  Told(rec)'
  <2>1. rec.entries \in Parses
    BY DEF Command
  <2>2. Past(rec.entries)' /\ (rec.at \in {"stat", "parse"} => Past(rec.known)')
    BY <1>2, <1>3, <2>1 DEF Told, Held
  <2>3. ASSUME rec.at = "detect", NEW e \in Events(rec.entries), e.kind = "tool_result",
               e.agent \in served'
        PROVE  BeadOf[e.agent] \in Keyed(rec.found)
    <3>1. PICK f \in DOMAIN rec.entries : e \in EventSet(rec.entries[f].events)
      BY <2>3 DEF Events
    <3>2. f \in Files /\ e \in EventSet(lines[f])
      BY <1>3, <2>1, <3>1, ParsesApply DEF Told, Past
    <3>3. e \in All(f) /\ FileOf[e.agent] = f
      BY <3>2, LinesOf DEF IInv, History, OwnLines
    <3>4. Done(e.agent)
      BY <2>3, <3>3 DEF Done, Results
    <3>5. e.agent \in served
      BY <1>1, <2>3, <3>4 DEF Onward
    <3> QED
      BY <1>3, <2>3, <3>5 DEF Told, Explained
  <2>4. rec.at = "detect" => Explained(rec)'
    BY <2>3 DEF Explained
  <2>5. rec.found \subseteq commits'
    BY <1>1, <1>3 DEF Told, Onward
  <2> QED
    BY <2>2, <2>4, <2>5 DEF Told
<1>4. ASSUME NEW rec, NEW a \in SubAgents, Tracks(rec, a)
      PROVE  Tracks(rec, a)'
  <2>1. FileOf[a] \in Files
    BY TranscriptsAssumption
  <2>2. /\ Late(a, EventSet(lines'[FileOf[a]]))
        /\ gone \subseteq gone' /\ choked \subseteq choked'
    BY <1>1, <1>4, <2>1, Monotone DEF Onward, Tracks
  <2> QED
    BY <1>4, <2>2 DEF Tracks
<1>5. \A a \in served' : BeadOf[a] \in Keyed(commits')
  BY <1>1, Monotone DEF Onward, History
<1>6. (cache # None => Past(cache.entries))'
  <2> SUFFICES ASSUME cache' # None PROVE Past(cache.entries)'
    OBVIOUS
  <2>1. PICK parses : parses = cache.entries
    OBVIOUS
  <2>2. cache' = cache /\ parses \in Parses /\ Past(parses)
    BY <1>1, <2>1 DEF IInv, TypeOK, CacheFile, History, Onward
  <2>3. Past(parses)'
    BY <1>2, <2>2
  <2> QED
    BY <2>1, <2>2, <2>3 DEF Past
<1>7. ASSUME NEW p \in Nexts
      PROVE  Told(next[p])' /\ \A a \in owed'[p] : Tracks(next[p], a)'
  <2>1. PICK rec : rec = next[p]
    OBVIOUS
  <2>2. rec \in Command /\ Held(rec) /\ Told(rec)
    BY <2>1 DEF IInv, Held, History
  <2>3. Told(rec)'
    BY <1>3, <2>2
  <2>4. \A a \in owed[p] : a \in SubAgents /\ Tracks(rec, a)
    BY <2>1 DEF History
  <2>5. \A a \in owed[p] : Tracks(rec, a)'
    BY <1>4, <2>4
  <2>6. rec = next'[p] /\ owed'[p] = owed[p]
    BY <1>1, <2>1 DEF Onward
  <2> QED
    BY <2>3, <2>5, <2>6 DEF Told, Tracks, Past, Explained
<1> QED
  BY <1>1, <1>5, <1>6, <1>7 DEF History, Onward

\* A command's own step, with what it still has to report.
LEMMA CommandHistory ==
  ASSUME IInv, History, NEW p \in Nexts, NEW rec, Set(p, rec), Told(rec),
         UNCHANGED <<clock, sessionVars>>, (cache # None => Past(cache.entries))',
         NEW S \in SUBSET SubAgents, owed' = [owed EXCEPT ![p] = S],
         \A a \in S : Tracks(rec, a)
  PROVE  History'
<1>1. /\ UNCHANGED <<clock, lines, pending, gone, choked, served, commits>>
      /\ next' = [next EXCEPT ![p] = rec] /\ next \in [Nexts -> Command]
  BY DEF Set, IInv, TypeOK, sessionVars
<1>2. \A r : (Told(r) => Told(r)') /\ \A a : Tracks(r, a) => Tracks(r, a)'
  BY <1>1 DEF Told, Past, Explained, Tracks
<1>3. OwnLines'
  BY <1>1 DEF History, OwnLines, All
<1>4. owed' \in [Nexts -> SUBSET SubAgents]
  BY DEF History
<1>5. ASSUME NEW q \in Nexts
      PROVE  Told(next[q])' /\ \A a \in owed'[q] : Tracks(next[q], a)'
  <2>1. PICK mine : mine = next'[q]
    OBVIOUS
  <2>2. Told(mine) /\ \A a \in owed'[q] : Tracks(mine, a)
    BY <1>1, <2>1 DEF History
  <2>3. Told(mine)' /\ \A a \in owed'[q] : Tracks(mine, a)'
    BY <1>2, <2>2
  <2> QED
    BY <2>1, <2>3 DEF Told, Tracks, Past, Explained
<1> QED
  BY <1>1, <1>3, <1>4, <1>5 DEF History

\* A step that leaves the cache and what is owed alone.
LEMMA QuietHistory ==
  ASSUME IInv, History, NEW p \in Nexts, NEW rec, Set(p, rec), Told(rec),
         UNCHANGED <<clock, sessionVars, cache, owed>>,
         \A a \in owed[p] : Tracks(next[p], a) => Tracks(rec, a)
  PROVE  History'
<1>1. owed[p] \in SUBSET SubAgents /\ owed' = [owed EXCEPT ![p] = owed[p]]
  BY DEF History
<1>2. (cache # None => Past(cache.entries))'
  BY DEF History, Past, sessionVars
<1>3. \A a \in owed[p] : Tracks(rec, a)
  BY DEF History
<1> QED
  BY <1>1, <1>2, <1>3, CommandHistory

\* No parses, no events.
LEMMA NoParses == Past(<<>>) /\ Events(<<>>) = {}
BY EmptyParses DEF Past, Events

\* What was settled at the start is in a transcript that is there, or gone.
LEMMA StartHistory ==
  ASSUME IInv, History, NEW p \in Nexts, Start(p)
  PROVE  History'
<1> DEFINE rec == [Idle EXCEPT !.at = IF Files \subseteq gone THEN "detect" ELSE "load",
                               !.head = head, !.todo = Files \ gone]
<1>1. /\ Set(p, rec) /\ UNCHANGED <<clock, sessionVars, cache>>
      /\ owed' = [owed EXCEPT ![p] = Settled]
  BY DEF Start
<1>2. /\ rec.entries = <<>> /\ rec.found = {} /\ rec.todo = Files \ gone
      /\ rec.at = IF Files \subseteq gone THEN "detect" ELSE "load"
  BY DEF Idle
<1> HIDE DEF rec
<1>3. Told(rec)
  BY <1>2, NoParses DEF Told, Explained
<1>4. ASSUME NEW a \in Settled
      PROVE  Tracks(rec, a)
  <2>1. FileOf[a] \in Files /\ Late(a, EventSet(lines[FileOf[a]]))
    BY TranscriptsAssumption DEF Settled, Late
  <2> QED
    BY <1>2, <2>1 DEF Tracks
<1>5. Settled \in SUBSET SubAgents
  BY DEF Settled
<1>6. (cache # None => Past(cache.entries))'
  BY <1>1 DEF History, Past, sessionVars
<1> QED
  BY <1>1, <1>3, <1>4, <1>5, <1>6, CommandHistory

\* The parses it takes over are of the past.
LEMMA LoadHistory ==
  ASSUME IInv, History, NEW p \in Nexts, Load(p)
  PROVE  History'
<1> DEFINE known == IF cache # None /\ cache.head = next[p].head THEN cache.entries ELSE <<>>
           rec == [next[p] EXCEPT !.at = "stat", !.known = known]
<1>1. /\ Set(p, rec) /\ UNCHANGED <<clock, sessionVars, cache, owed>> /\ next[p].at = "load"
      /\ next[p] \in Command /\ Told(next[p])
  BY DEF Load, At, IInv, TypeOK, History
<1>2. Past(known)
  BY NoParses DEF History
<1> HIDE DEF known
<1>3. /\ rec.at = "stat" /\ rec.known = known /\ rec.todo = next[p].todo
      /\ rec.file = next[p].file /\ rec.entries = next[p].entries /\ rec.found = next[p].found
  BY <1>1 DEF Command
<1> HIDE DEF rec
<1>4. Told(rec)
  BY <1>1, <1>2, <1>3 DEF Told
<1>5. \A a : Tracks(next[p], a) => Tracks(rec, a)
  BY <1>1, <1>3 DEF Tracks
<1> QED
  BY <1>1, <1>4, <1>5, QuietHistory

\* A parse of present lines is added to parses of the past.
LEMMA WithPast ==
  ASSUME NEW parses \in Parses, Past(parses), NEW f \in Files, NEW parsed \in Parsed,
         EventSet(parsed.events) \subseteq EventSet(lines[f])
  PROVE  Past(With(parses, f, parsed))
<1> SUFFICES ASSUME NEW g \in DOMAIN With(parses, f, parsed)
             PROVE  EventSet(With(parses, f, parsed)[g].events) \subseteq EventSet(lines[g])
  BY DEF Past
<1>1. g \in DOMAIN parses \cup {f}
  BY WithParses
<1>2. With(parses, f, parsed)[g] = IF g = f THEN parsed ELSE parses[g]
  BY <1>1 DEF With
<1> QED
  BY <1>1, <1>2 DEF Past

\* All the lines of f are there after they have been read.
LEMMA WithTracks ==
  ASSUME NEW rec, NEW new, NEW parses \in Parses, NEW f \in Files, NEW parsed \in Parsed,
         EventSet(parsed.events) = EventSet(lines[f]),
         rec.entries = parses, new.entries = With(parses, f, parsed),
         rec.at \in {"stat", "parse"}, new.at = "stat",
         rec.todo \subseteq new.todo \cup {f}, rec.at = "parse" => rec.file = f,
         NEW a, Tracks(rec, a)
  PROVE  Tracks(new, a)
<1>1. DOMAIN With(parses, f, parsed) = DOMAIN parses \cup {f}
  BY WithParses
<1>2. \A g \in DOMAIN parses \cup {f} :
        With(parses, f, parsed)[g] = IF g = f THEN parsed ELSE parses[g]
  BY DEF With
<1>3. CASE FileOf[a] = f
  BY <1>1, <1>2, <1>3 DEF Tracks
<1>4. CASE FileOf[a] # f
  BY <1>1, <1>2, <1>4 DEF Tracks
<1> QED
  BY <1>3, <1>4

\* A transcript is taken off the list when it has gone, or with all its lines.
LEMMA StatHistory ==
  ASSUME IInv, History, NEW p \in Nexts, NEW f \in Files, Stat(p, f)
  PROVE  History'
<1> DEFINE rest == [next[p] EXCEPT !.todo = @ \ {f}]
           reused == [rest EXCEPT !.entries = With(@, f, next[p].known[f])]
           changed == [rest EXCEPT !.at = "parse", !.file = f, !.mtime = MTime(f)]
<1>1. /\ next[p].at = "stat" /\ UNCHANGED <<clock, sessionVars, cache, owed>>
      /\ next[p] \in Command /\ Told(next[p]) /\ Held(next[p])
  BY DEF Stat, At, IInv, Held, History
<1>2. /\ rest \in Command /\ rest.at = "stat" /\ rest.todo = next[p].todo \ {f}
      /\ rest.known = next[p].known /\ rest.entries = next[p].entries
      /\ rest.file = next[p].file /\ rest.found = next[p].found
  BY <1>1 DEF Command
<1> HIDE DEF rest
<1>3. CASE Set(p, rest) /\ ~Here(f)
  <2>1. Told(rest)
    BY <1>1, <1>2 DEF Told
  <2>2. \A a : Tracks(next[p], a) => Tracks(rest, a)
    BY <1>1, <1>2, <1>3 DEF Tracks, Here
  <2> QED
    BY <1>1, <1>3, <2>1, <2>2, QuietHistory
<1>4. CASE Set(p, reused) /\ f \in DOMAIN next[p].known /\ next[p].known[f].mtime = MTime(f)
  <2> DEFINE parsed == next[p].known[f]
  <2>1. next[p].known \in Parses /\ AllSound(next[p].known) /\ next[p].entries \in Parses
    BY <1>1 DEF Held, Command
  <2>2. parsed \in Parsed /\ parsed.events = lines[f]
    BY <1>4, <2>1, ParsesApply DEF AllSound, Sound
  <2>3. /\ reused.at = "stat" /\ reused.todo = rest.todo /\ reused.known = rest.known
        /\ reused.entries = With(next[p].entries, f, parsed) /\ reused.found = rest.found
    BY <1>2 DEF Command
  <2> HIDE DEF reused, parsed
  <2>4. Past(reused.entries)
    BY <1>1, <2>1, <2>2, <2>3, WithPast DEF Told
  <2>5. Told(reused)
    BY <1>1, <1>2, <2>3, <2>4 DEF Told
  <2>6. next[p].todo \subseteq reused.todo \cup {f}
    BY <1>2, <2>3
  <2>7. ASSUME NEW a, Tracks(next[p], a)
        PROVE  Tracks(reused, a)
    BY <1>1, <2>1, <2>2, <2>3, <2>6, <2>7, WithTracks
  <2> QED
    BY <1>1, <1>4, <2>5, <2>7, QuietHistory
<1>5. CASE Set(p, changed)
  <2>1. /\ changed.at = "parse" /\ changed.todo = rest.todo /\ changed.known = rest.known
        /\ changed.entries = rest.entries /\ changed.found = rest.found /\ changed.file = f
    BY <1>2 DEF Command
  <2> HIDE DEF changed
  <2>2. Told(changed)
    BY <1>1, <1>2, <2>1 DEF Told
  <2>3. \A a : Tracks(next[p], a) => Tracks(changed, a)
    BY <1>1, <1>2, <2>1 DEF Tracks
  <2> QED
    BY <1>1, <1>5, <2>2, <2>3, QuietHistory
<1> QED
  BY <1>3, <1>4, <1>5 DEF Stat, rest

\* A read of the transcript brings all its lines.
LEMMA ParseHistory ==
  ASSUME IInv, History, NEW p \in Nexts, Parse(p)
  PROVE  History'
<1> DEFINE f == next[p].file
           parsed == Entry(next[p].mtime, ParseFile(f))
           entries == IF Here(f) /\ f \notin choked THEN With(next[p].entries, f, parsed)
                      ELSE next[p].entries
           rec == [next[p] EXCEPT !.at = "stat", !.file = None, !.mtime = 0,
                                  !.entries = entries]
<1>1. /\ next[p].at = "parse" /\ UNCHANGED <<clock, sessionVars, cache, owed>>
      /\ next[p] \in Command /\ Told(next[p]) /\ Held(next[p])
  BY DEF Parse, At, IInv, Held, History
<1>2. Set(p, rec)
  BY DEF Parse
<1>3. f \in Files /\ next[p].entries \in Parses
  BY <1>1 DEF Held, Command
<1>4. parsed \in Parsed /\ parsed.events = lines[f]
  BY <1>1, <1>3 DEF Entry, ParseFile, Parsed, Command, IInv, TypeOK
<1> HIDE DEF parsed
<1>5. Past(entries)
  BY <1>1, <1>3, <1>4, WithPast DEF Told
<1>6. /\ rec.at = "stat" /\ rec.todo = next[p].todo /\ rec.known = next[p].known
      /\ rec.entries = entries /\ rec.found = next[p].found
  BY <1>1 DEF Command
<1> HIDE DEF rec
<1>7. Told(rec)
  BY <1>1, <1>5, <1>6 DEF Told
<1>8. ASSUME NEW a, Tracks(next[p], a)
      PROVE  Tracks(rec, a)
  <2>1. CASE Here(f) /\ f \notin choked
    <3>1. entries = With(next[p].entries, f, parsed)
      BY <2>1
    <3> HIDE DEF entries, f
    <3> QED
      BY <1>1, <1>3, <1>4, <1>6, <1>8, <3>1, WithTracks DEF f
  <2>2. CASE ~Here(f) \/ f \in choked
    BY <1>1, <1>6, <1>8, <2>2 DEF Tracks, Here
  <2> QED
    BY <2>1, <2>2
<1> HIDE DEF entries, f
<1> QED
  BY <1>1, <1>2, <1>7, <1>8, QuietHistory

\* All transcripts have been read by then.
LEMMA WriteHistory ==
  ASSUME IInv, History, NEW p \in Nexts, Write(p)
  PROVE  History'
<1> DEFINE point == IF Events(next[p].entries) = {} THEN "detect" ELSE "index"
           rec == [next[p] EXCEPT !.at = point, !.known = None, !.head = 0]
           file == [head |-> next[p].head, entries |-> next[p].entries]
<1>1. /\ Set(p, rec) /\ UNCHANGED <<clock, sessionVars, owed>> /\ cache' \in {cache, file}
      /\ next[p].at = "stat" /\ next[p].todo = {} /\ next[p] \in Command /\ Told(next[p])
  BY DEF Write, At, IInv, Held, History
<1>2. (point = "detect" /\ Events(next[p].entries) = {}) \/ point = "index"
  OBVIOUS
<1> HIDE DEF point
<1>3. /\ rec.at = point /\ rec.entries = next[p].entries /\ rec.found = next[p].found
      /\ rec.todo = {}
  BY <1>1 DEF Command
<1> HIDE DEF rec
<1>4. Told(rec)
  BY <1>1, <1>2, <1>3 DEF Told, Explained
<1>5. \A a \in owed[p] : Tracks(rec, a)
  BY <1>1, <1>3 DEF History, Tracks
<1>6. owed[p] \in SUBSET SubAgents /\ owed' = [owed EXCEPT ![p] = owed[p]]
  BY <1>1 DEF History
<1>7. (cache # None => Past(cache.entries))'
  <2>1. cache' # None => Past(cache'.entries)
    BY <1>1 DEF History, Told
  <2> QED
    BY <1>1, <2>1 DEF Past, sessionVars
<1> QED
  BY <1>1, <1>4, <1>5, <1>6, <1>7, CommandHistory

\* The log holds a commit for every result that was read of a sub-agent that committed.
LEMMA IndexHistory ==
  ASSUME IInv, History, NEW p \in Nexts, BuildIndex(p)
  PROVE  History'
<1> DEFINE rec == [next[p] EXCEPT !.at = "detect", !.found = commits]
<1>1. /\ Set(p, rec) /\ UNCHANGED <<clock, sessionVars, cache, owed>> /\ next[p].at = "index"
      /\ next[p] \in Command /\ Told(next[p])
  BY DEF BuildIndex, At, IInv, TypeOK, History
<1>2. /\ rec.at = "detect" /\ rec.todo = next[p].todo /\ rec.file = next[p].file
      /\ rec.entries = next[p].entries /\ rec.found = commits
  BY <1>1 DEF Command
<1> HIDE DEF rec
<1>3. Told(rec)
  BY <1>1, <1>2 DEF Told, Explained, History
<1>4. \A a : Tracks(next[p], a) => Tracks(rec, a)
  BY <1>1, <1>2 DEF Tracks
<1> QED
  BY <1>1, <1>3, <1>4, QuietHistory

\* Nothing is owed by a command that has ended.
LEMMA ExitHistory ==
  ASSUME IInv, History, NEW p \in Nexts, Exit(p)
  PROVE  History'
<1>1. Told(Idle)
  BY NoParses DEF Idle, Told
<1>2. (cache # None => Past(cache.entries))'
  BY DEF Exit, History, Past, sessionVars
<1> QED
  BY <1>1, <1>2, CommandHistory DEF Exit

\* Nothing has happened at first.
LEMMA InitHistory == Init => History
<1> SUFFICES ASSUME Init PROVE History
  OBVIOUS
<1>1. Told(Idle)
  BY NoParses DEF Idle, Told
<1>2. \A f \in Files : All(f) = {}
  BY DEF Init, All, EventSet
<1> QED
  BY <1>1, <1>2 DEF Init, History, OwnLines

\* Every step keeps the second invariant.
LEMMA StepHistory == IInv /\ History /\ [Next]_vars => History'
<1> SUFFICES ASSUME IInv, History, [Next]_vars PROVE History'
  OBVIOUS
<1>1. CASE Tick \/ Session
  BY <1>1, SessionHistory
<1>2. ASSUME NEW p \in Nexts, KerfNext(p) \/ Kill(p)
      PROVE  History'
  BY <1>2, StartHistory, LoadHistory, StatHistory, ParseHistory, WriteHistory, IndexHistory,
     ExitHistory DEF KerfNext, Kill, Detect
<1>3. CASE UNCHANGED vars
  BY <1>3 DEF vars, sessionVars, History, OwnLines, All, Told, Past, Explained, Tracks
<1> QED
  BY <1>1, <1>2, <1>3 DEF Next

(***************************************************************************)
(* Both invariants hold: what the parses are, and what they tell.          *)
(***************************************************************************)
THEOREM HistoryIsKept == TranscriptsSpec => [](IInv /\ History)
<1>1. Init => IInv /\ History
  BY InitHolds, InitHistory
<1>2. IInv /\ History /\ [Next]_vars => (IInv /\ History)'
  BY StepKeeps, StepHistory
<1> QED
  BY <1>1, <1>2, PTL DEF TranscriptsSpec

----------------------------------------------------------------------------
(* When a dispatch was last active *)

\* A set of numbers that has a bound has a greatest one.
LEMMA GreatestNat ==
  ASSUME NEW n \in Nat, NEW S \in SUBSET (0..n), S # {}
  PROVE  \E t \in S : \A u \in S : u <= t
<1> DEFINE Bounds == {m \in Nat : \A u \in S : u <= m}
<1>1. n \in Bounds /\ Bounds \in SUBSET Nat
  OBVIOUS
<1>2. PICK t \in Bounds : \A m \in Bounds : ~(<<m, t>> \in OpToRel(<, Nat))
  BY <1>1, WFMin, NatLessThanWellFounded
<1>3. \A m \in Bounds : ~(m < t)
  <2> SUFFICES ASSUME NEW m \in Bounds, m < t PROVE FALSE
    OBVIOUS
  <2>1. <<m, t>> \in OpToRel(<, Nat)
    BY DEF OpToRel
  <2> QED
    BY <1>2, <2>1
<1>4. t \in S
  <2> SUFFICES ASSUME t \notin S PROVE FALSE
    OBVIOUS
  <2>1. \A u \in S : u \in Nat /\ u <= t /\ u # t
    OBVIOUS
  <2>2. PICK u \in S : TRUE
    OBVIOUS
  <2>3. t \in Nat /\ u \in Nat /\ u < t
    BY <2>1
  <2>4. t - 1 \in Bounds
    BY <2>1, <2>3
  <2> QED
    BY <1>3, <2>3, <2>4
<1> QED
  BY <1>4

\* A late result is activity.
LEMMA ActivityIsLast ==
  ASSUME NEW n \in Nat, NEW events, \A e \in events : e.at \in 0..n, NEW d \in events,
         NEW r \in Results(events, d.agent)
  PROVE  r.at <= LastActivity(events, d) /\ LastActivity(events, d) \in 0..n
<1> DEFINE times == {d.at} \cup {u.at : u \in Results(events, d.agent)}
<1>1. times \in SUBSET (0..n) /\ times # {}
  BY DEF Results
<1>2. LastActivity(events, d) = CHOOSE t \in times : \A u \in times : u <= t
  BY DEF LastActivity
<1>3. \E t \in times : \A u \in times : u <= t
  BY <1>1, GreatestNat
<1>4. LastActivity(events, d) \in times /\ \A u \in times : u <= LastActivity(events, d)
  BY <1>2, <1>3
<1> QED
  BY <1>1, <1>4

\* A dispatch without a result has not been active since.
LEMMA NoResultNoActivity ==
  ASSUME NEW events, NEW d \in events, d.at \in Nat, Results(events, d.agent) = {}
  PROVE  LastActivity(events, d) = d.at
BY DEF LastActivity

\* What a command has read are lines of the transcripts.
LEMMA ReadLines ==
  ASSUME IInv, History, NEW p \in Nexts
  PROVE  \A e \in Events(next[p].entries) : e \in Line /\ e.at \in 0..clock
<1> SUFFICES ASSUME NEW e \in Events(next[p].entries)
             PROVE  e \in Line /\ e.at \in 0..clock
  OBVIOUS
<1>1. PICK f \in DOMAIN next[p].entries : e \in EventSet(next[p].entries[f].events)
  BY DEF Events
<1>2. f \in Files /\ e \in EventSet(lines[f])
  BY <1>1, ParsesApply DEF IInv, Held, Command, History, Told, Past
<1>3. e \in Line /\ e.at <= clock
  BY <1>2, LinesOf DEF IInv, History, OwnLines
<1>4. e.at \in Nat /\ clock \in Nat
  BY <1>3 DEF Line, IInv, TypeOK
<1> QED
  BY <1>3, <1>4

(***************************************************************************)
(* The property NoFalseAlarm: a sub-agent that committed for its bead, or  *)
(* a subtask of it, before it returned is not reported as abandoned: the   *)
(* git log is read after the transcripts.                                  *)
(***************************************************************************)
THEOREM NoAlarmIsFalse == TranscriptsSpec => []NoFalseAlarm
<1>1. IInv /\ History => NoFalseAlarm
  <2> SUFFICES ASSUME IInv, History, NEW p \in Nexts, At(p, "detect"),
                      NEW finding \in Report(p), finding.agent \in served
               PROVE  FALSE
    BY DEF NoFalseAlarm
  <2> DEFINE events == Events(next[p].entries)
  <2>1. PICK d \in Abandoned(events, next[p].found) : finding.agent = d.agent
    BY DEF Report, Findings
  <2>2. /\ d \in events /\ LastActivity(events, d) >= d.at + Floor
        /\ BeadOf[d.agent] \notin Keyed(next[p].found)
    BY <2>1 DEF Abandoned, Dispatches, BeadID
  <2>3. d.at \in Nat /\ Floor \in Nat \ {0}
    BY <2>2, ReadLines, TranscriptsAssumption DEF Line
  <2>4. PICK r \in Results(events, d.agent) : TRUE
    BY <2>2, <2>3, NoResultNoActivity
  <2>5. r \in events /\ r.kind = "tool_result" /\ r.agent = d.agent
    BY DEF Results
  <2>6. Explained(next[p])
    BY DEF At, History, Told
  <2> QED
    BY <2>1, <2>2, <2>5, <2>6 DEF Explained
<1> QED
  BY <1>1, HistoryIsKept, PTL

(***************************************************************************)
(* The property AbandonedReported: a dispatch that had come back late and  *)
(* without a commit when kerf next was started is in its report, unless    *)
(* somebody has committed for the bead, or the transcript has gone, since. *)
(***************************************************************************)
THEOREM AbandonedAreReported == TranscriptsSpec => []AbandonedReported
<1>1. IInv /\ History => AbandonedReported
  <2> SUFFICES ASSUME IInv, History, NEW p \in Nexts, At(p, "detect"), NEW a \in owed[p],
                      BeadOf[a] \notin Keyed(commits), FileOf[a] \notin gone \cup choked
               PROVE  \E finding \in Report(p) : finding.agent = a
    BY DEF AbandonedReported
  <2> DEFINE events == Events(next[p].entries)
  <2>1. Tracks(next[p], a) /\ next[p].at = "detect" /\ next[p].found \subseteq commits
    BY DEF At, History, Told
  <2>2. /\ FileOf[a] \in DOMAIN next[p].entries
        /\ Late(a, EventSet(next[p].entries[FileOf[a]].events))
    BY <2>1 DEF Tracks
  <2>3. Late(a, events)
    BY <2>2, Monotone DEF Events
  <2>4. PICK d \in events, r \in events :
          /\ d.agent = a /\ d.kind = "dispatch"
          /\ r.agent = a /\ r.kind = "tool_result"
          /\ r.at >= d.at + Floor
    BY <2>3 DEF Late
  <2>5. r \in Results(events, d.agent) /\ d \in Dispatches(events)
    BY <2>4 DEF Results, Dispatches
  <2>6. clock \in Nat /\ \A e \in events : e.at \in 0..clock
    BY ReadLines DEF IInv, TypeOK
  <2>7. r.at <= LastActivity(events, d)
    BY <2>5, <2>6, ActivityIsLast
  <2>8. LastActivity(events, d) \in 0..clock
    BY <2>5, <2>6, ActivityIsLast
  <2>9. LastActivity(events, d) >= d.at + Floor
    BY <2>4, <2>6, <2>7, <2>8, TranscriptsAssumption
  <2>10. BeadID(d) \notin Keyed(next[p].found)
    BY <2>1, <2>4, Monotone DEF BeadID
  <2>11. d \in Abandoned(events, next[p].found)
    BY <2>5, <2>9, <2>10 DEF Abandoned
  <2> DEFINE reason == Reason(events, d, clock)
             finding == [agent |-> d.agent, reason |-> reason]
  <2>12. finding \in Findings(events, next[p].found, clock)
    BY <2>11 DEF Findings
  <2>13. finding \in Report(p)
    BY <2>12 DEF Report
  <2>14. finding.agent = a
    BY <2>4
  <2> QED
    BY <2>13, <2>14
<1> QED
  BY <1>1, HistoryIsKept, PTL
=============================================================================
