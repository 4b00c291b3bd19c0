--------------------------- MODULE SpecFilesProofs ---------------------------
(***************************************************************************)
(* The commands on spec.yaml, for any works, beads and processes.          *)
(*                                                                         *)
(* One after the other, with a kill of kerf pin at every step: no file is  *)
(* torn outside an in-place rewrite and a bead has one owner (Sequential:  *)
(* commands do not overlap, and the rewrites of kerf resume and kerf       *)
(* shelve are not killed).  Neither is inductive.  The invariant says, for *)
(* each point of a command, what its copy of the text and the temporary    *)
(* file have to do with the file: that the text to be written has the pins *)
(* that are there, that an edit's text is the edited file, and where the   *)
(* bead that is being pinned can still be found.                           *)
(*                                                                         *)
(* Overlapping and killed in any way: what a command reported is undone    *)
(* only by commands that were at the same spec.yaml at the same time       *)
(* (second half of the module).                                            *)
(***************************************************************************)
EXTENDS SpecReports, TLAPS, WellFoundedInduction

Sequential == Serial /\ Killable \subseteq {"pin"}

Editing == {"edit", "opentmp", "writetmp", "rename"}
Points == {"idle", "truncate", "write", "scan"} \cup Editing
Kinds == {"resume", "shelve", "remove", "add", "touch", None}
Openings == {"spec.yaml", "spec.yaml.tmp", "replaced", None}
Job ==
    [work : Works \cup {None}, text : SpecText \cup {Torn}, opened : Openings, kind : Kinds,
     bead : Beads \cup {None}, target : Works \cup {None}, todo : SUBSET Works]

TypeOK ==
    /\ file \in [Works -> SpecText \cup {Torn}]
    /\ tmp \in [Works -> SpecText \cup {Torn, None}]
    /\ pc \in [Procs -> Points]
    /\ job \in [Procs -> Job]
    /\ holds \in [Procs -> Works \cup {None}]
    /\ promised \in [Beads -> Works \cup {None}]

\* At most one process was told that it has the session of a work.
OneSessionHolder ==
    \A p, q \in Procs : holds[p] # None /\ holds[p] = holds[q] => p = q

Alone == \A p, q \in Procs : pc[p] # "idle" /\ pc[q] # "idle" => p = q

\* A file is torn only while a command writes it.
TornByWriter ==
    \A w \in Works : file[w] = Torn => \E p \in Procs : pc[p] = "write" /\ job[p].work = w

\* Reports about files that can be read.
Kept ==
    /\ \A p \in Procs : holds[p] # None /\ file[holds[p]] # Torn =>
           file[holds[p]].active = p
    /\ \A b \in Beads : promised[b] # None /\ file[promised[b]] # Torn =>
           b \in file[promised[b]].pins

\* kerf resume and kerf shelve, with the text they are going to write.
Rewriting(p) ==
    LET j == job[p] IN
    /\ j.work \in Works /\ j.text \in SpecText /\ j.kind \in {"resume", "shelve"}
    /\ j.kind = "resume" => j.text.active = p /\ \A q \in Procs : holds[q] # j.work
    /\ pc[p] = "truncate" => file[j.work] # Torn /\ j.text.pins = file[j.work].pins
    /\ pc[p] = "write" =>
        /\ file[j.work] = Torn /\ j.opened = "spec.yaml"
        /\ \A v \in Works \ {j.work} : file[v] # Torn => j.text.pins \cap file[v].pins = {}
        /\ \A b \in Beads : promised[b] = j.work => b \in j.text.pins

\* The works that can still have the bead that is being pinned.
Left(j) ==
    CASE j.kind = "remove" -> j.todo \cup {j.work}
      [] j.kind = "add"    -> {}
      [] j.kind = "touch"  -> IF j.work = j.target THEN {j.target} ELSE j.todo
      [] OTHER             -> j.todo

\* kerf pin, between two of its steps.
Pinning(p) ==
    LET j == job[p] IN
    /\ j.target \in Works /\ j.bead \in Beads /\ j.target \notin j.todo
    /\ promised[j.bead] = None
    /\ \A v \in Works : file[v] # Torn
    /\ pc[p] = "scan" => \A v \in Works : j.bead \in file[v].pins => v \in j.todo
    /\ pc[p] \in Editing =>
        /\ j.work \in Works /\ j.kind \in {"remove", "add", "touch"}
        /\ j.kind = "remove" => j.work # j.target
        /\ j.kind = "add" => j.work = j.target
        /\ \A v \in Works : j.bead \in file[v].pins => v \in Left(j)
        /\ j.kind = "touch" /\ j.work = j.target => j.bead \in file[j.target].pins
    /\ pc[p] \in Editing \ {"edit"} => j.text = Edited(file[j.work], j.kind, j.bead)
    /\ pc[p] = "writetmp" => tmp[j.work] = Torn /\ j.opened = "spec.yaml.tmp"
    /\ pc[p] = "rename" => tmp[j.work] = j.text

Control(p) ==
    /\ pc[p] = "idle" => job[p] = NoJob
    /\ pc[p] \in {"truncate", "write"} => Rewriting(p)
    /\ pc[p] \in {"scan"} \cup Editing => Pinning(p)

IInv ==
    /\ TypeOK
    /\ Alone
    /\ TornByWriter
    /\ Kept
    /\ SinglePinOwner
    /\ OneSessionHolder
    /\ \A p \in Procs : Control(p)

----------------------------------------------------------------------------
(* Texts and sets of works *)

\* A set of numbers has a least one.
LEMMA LeastNat ==
    ASSUME NEW S \in SUBSET Nat, S # {}
    PROVE  \E n \in S : \A m \in S : n <= m
<1>1. PICK n \in S : \A m \in S : ~(<<m, n>> \in OpToRel(<, Nat))
  BY WFMin, NatLessThanWellFounded
<1>2. ASSUME NEW m \in S
      PROVE  n <= m
  <2>1. m \in Nat /\ n \in Nat
    OBVIOUS
  <2>2. ~(m < n)
    BY <1>1, <2>1 DEF OpToRel
  <2> QED
    BY <2>1, <2>2
<1> QED
  BY <1>2

\* A text is no mark, and a file that is not torn holds one.
LEMMA TextOK ==
    /\ \A s \in SpecText : /\ s.active \in Procs \cup {None} /\ s.pins \in SUBSET Beads
                           /\ s # Torn /\ s # Garbled /\ s # None
                           /\ Readable(s) /\ Decoded(s) = s
    /\ Torn # None /\ Torn # Garbled /\ None \notin Works
BY MarksAssumption, SpecFilesAssumption DEF SpecText, Readable, Decoded

\* What is not torn is a text.
LEMMA FileOK ==
    ASSUME TypeOK, NEW w \in Works, file[w] # Torn
    PROVE  file[w] \in SpecText
BY DEF TypeOK

\* What an edit does to the pins, and that it does nothing else.
LEMMA EditedOK ==
    ASSUME NEW s \in SpecText, NEW b \in Beads, NEW kind \in {"remove", "add", "touch"}
    PROVE  /\ Edited(s, kind, b) \in SpecText
           /\ Edited(s, kind, b).active = s.active
           /\ kind = "remove" => Edited(s, kind, b).pins = s.pins \ {b}
           /\ kind = "add" => Edited(s, kind, b).pins = s.pins \cup {b}
           /\ kind = "touch" => Edited(s, kind, b) = s
<1>1. CASE kind = "remove"
  BY <1>1 DEF Edited, SpecText
<1>2. CASE kind = "add"
  BY <1>2 DEF Edited, SpecText
<1>3. CASE kind = "touch"
  BY <1>3 DEF Edited
<1> QED
  BY <1>1, <1>2, <1>3

\* The job of a process that runs nothing.
LEMMA NoJobOK == NoJob \in Job /\ [NoJob EXCEPT !.opened = NoJob.opened] = NoJob
BY DEF NoJob, Job, Kinds, Openings

----------------------------------------------------------------------------
(* The shape of a step: one process moves, and the others are idle. *)

\* While one process runs, the others have nothing to do.
LEMMA OthersIdle ==
    ASSUME IInv, NEW p \in Procs, pc[p] # "idle"
    PROVE  \A q \in Procs \ {p} : pc[q] = "idle" /\ job[q] = NoJob
BY DEF IInv, Alone, Control

\* A command starts when nobody runs, and all files can be read then.
LEMMA AllIdle ==
    ASSUME Sequential, IInv, NEW p \in Procs, NEW command, MayStart(p, command)
    PROVE  /\ \A q \in Procs : pc[q] = "idle" /\ job[q] = NoJob
           /\ \A w \in Works : file[w] # Torn /\ file[w] \in SpecText
           /\ \A w \in Works : Decoded(file[w]) = file[w] /\ Readable(file[w])
<1>1. \A q \in Procs : pc[q] = "idle" /\ job[q] = NoJob
  BY DEF Sequential, MayStart, Running, IInv, Control
<1>2. \A w \in Works : file[w] # Torn
  BY <1>1 DEF IInv, TornByWriter
<1> QED
  BY <1>1, <1>2, FileOK, TextOK DEF IInv

\* The invariant after a step of p, with the others idle.
LEMMA SoloInv ==
    ASSUME IInv, NEW p \in Procs, TypeOK',
           \A q \in Procs \ {p} : pc'[q] = "idle" /\ job'[q] = NoJob,
           Control(p)', TornByWriter', Kept', SinglePinOwner', OneSessionHolder'
    PROVE  IInv'
<1>1. Alone'
  BY DEF Alone
<1>2. \A q \in Procs : Control(q)'
  BY DEF Control, Editing
<1> QED
  BY <1>1, <1>2 DEF IInv

\* Nothing that was reported or written is touched by a step of the copies.
LEMMA SameFiles ==
    ASSUME IInv, UNCHANGED <<file, holds, promised>>
    PROVE  Kept' /\ SinglePinOwner' /\ OneSessionHolder'
BY DEF IInv, Kept, SinglePinOwner, OneSessionHolder

----------------------------------------------------------------------------
(* kerf resume and kerf shelve *)

\* The start of a rewrite: the text has the pins of the file, and a new session no holder.
LEMMA RewriteInv ==
    ASSUME Sequential, IInv, NEW p \in Procs, NEW w \in Works, NEW command, MayStart(p, command),
           NEW kind \in {"resume", "shelve"}, NEW text \in SpecText,
           Rewrite(p, w, kind, text), text.pins = file[w].pins,
           kind = "resume" => text.active = p /\ file[w].active = None
    PROVE  IInv'
<1>1. /\ \A q \in Procs : pc[q] = "idle" /\ job[q] = NoJob
      /\ \A v \in Works : file[v] # Torn /\ file[v] \in SpecText
  BY AllIdle
<1> DEFINE j == [NoJob EXCEPT !.work = w, !.kind = kind, !.text = text]
<1>2. /\ j \in Job /\ j.work = w /\ j.kind = kind /\ j.text = text
  BY DEF NoJob, Job, Kinds, Openings
<1>3. /\ job' = [job EXCEPT ![p] = j] /\ pc' = [pc EXCEPT ![p] = "truncate"]
      /\ UNCHANGED <<file, tmp, holds, promised>>
  BY DEF Rewrite, reports
<1> HIDE DEF j
<1>4. TypeOK'
  BY <1>2, <1>3 DEF IInv, TypeOK, Points
<1>5. pc'[p] = "truncate" /\ job'[p] = j
  BY <1>3 DEF IInv, TypeOK
<1>6. Control(p)'
  <2>1. kind = "resume" => \A q \in Procs : holds[q] # w
    <3> SUFFICES ASSUME kind = "resume", NEW q \in Procs, holds[q] = w PROVE FALSE
      OBVIOUS
    <3>1. holds[q] # None
      BY TextOK
    <3>2. file[w].active = q
      BY <1>1, <3>1 DEF IInv, Kept
    <3> QED
      BY <3>2, SpecFilesAssumption
  <2>2. Rewriting(p)'
    BY <1>1, <1>2, <1>3, <1>5, <2>1 DEF Rewriting
  <2> QED
    BY <1>5, <2>2 DEF Control, Editing
<1>7. TornByWriter'
  BY <1>1, <1>3 DEF TornByWriter
<1>8. \A q \in Procs \ {p} : pc'[q] = "idle" /\ job'[q] = NoJob
  BY <1>1, <1>3 DEF IInv, TypeOK
<1> QED
  BY <1>3, <1>4, <1>6, <1>7, <1>8, SameFiles, SoloInv

\* kerf resume begins.
LEMMA ResumeInv ==
    ASSUME Sequential, IInv, NEW p \in Procs, NEW w \in Works, Resume(p, w)
    PROVE  IInv'
<1>1. file[w] \in SpecText /\ Decoded(file[w]) = file[w]
  BY AllIdle DEF Resume
<1> DEFINE text == [file[w] EXCEPT !.active = p]
<1>2. text \in SpecText /\ text.pins = file[w].pins /\ text.active = p
  BY <1>1 DEF SpecText
<1>3. /\ Rewrite(p, w, "resume", text) /\ MayStart(p, "resume") /\ file[w].active = None
  BY <1>1 DEF Resume
<1> HIDE DEF text
<1> QED
  BY <1>2, <1>3, RewriteInv

\* kerf shelve begins.
LEMMA ShelveInv ==
    ASSUME Sequential, IInv, NEW p \in Procs, NEW w \in Works, Shelve(p, w)
    PROVE  IInv'
<1>1. file[w] \in SpecText /\ Decoded(file[w]) = file[w]
  BY AllIdle DEF Shelve
<1> DEFINE text == [file[w] EXCEPT !.active = None]
<1>2. text \in SpecText /\ text.pins = file[w].pins
  BY <1>1 DEF SpecText
<1>3. Rewrite(p, w, "shelve", text) /\ MayStart(p, "shelve")
  BY <1>1 DEF Shelve
<1> HIDE DEF text
<1> QED
  BY <1>2, <1>3, RewriteInv

\* kerf shelve --force begins.
LEMMA ForceShelveInv ==
    ASSUME Sequential, IInv, NEW p \in Procs, NEW w \in Works, ForceShelve(p, w)
    PROVE  IInv'
<1>1. file[w] \in SpecText /\ Decoded(file[w]) = file[w]
  BY AllIdle DEF ForceShelve
<1> DEFINE text == [file[w] EXCEPT !.active = None]
<1>2. text \in SpecText /\ text.pins = file[w].pins
  BY <1>1 DEF SpecText
<1>3. Rewrite(p, w, "shelve", text) /\ MayStart(p, "shelve")
  BY <1>1 DEF ForceShelve
<1> HIDE DEF text
<1> QED
  BY <1>2, <1>3, RewriteInv

\* The file is emptied, and the text in memory stands for it.
LEMMA TruncateInv ==
    ASSUME IInv, NEW p \in Procs, Truncate(p)
    PROVE  IInv'
<1> DEFINE j == job[p]
           w == j.work
<1>1. pc[p] = "truncate" /\ Rewriting(p) /\ j \in Job
  BY DEF Truncate, At, IInv, Control, TypeOK
<1>2. /\ pc' = [pc EXCEPT ![p] = "write"] /\ file' = [file EXCEPT ![w] = Torn]
      /\ job' = [job EXCEPT ![p] = [j EXCEPT !.opened = "spec.yaml"]]
      /\ UNCHANGED <<tmp, holds, promised>>
  BY DEF Truncate, At, reports
<1>3. w \in Works /\ file[w] # Torn /\ j.text \in SpecText /\ j.text.pins = file[w].pins
  BY <1>1 DEF Rewriting
<1> DEFINE k == [j EXCEPT !.opened = "spec.yaml"]
<1>4. /\ k \in Job /\ k.work = w /\ k.text = j.text /\ k.kind = j.kind
      /\ k.opened = "spec.yaml"
  BY <1>1 DEF Job, Openings
<1>5. pc'[p] = "write" /\ job'[p] = k
  BY <1>2 DEF IInv, TypeOK
<1> HIDE DEF k
<1>6. TypeOK'
  BY <1>2, <1>3, <1>4, <1>5 DEF IInv, TypeOK, Points
<1>7. \A q \in Procs \ {p} : pc'[q] = "idle" /\ job'[q] = NoJob
  BY <1>1, <1>2, OthersIdle DEF IInv, TypeOK
<1>8. \A v \in Works : file'[v] = IF v = w THEN Torn ELSE file[v]
  BY <1>2 DEF IInv, TypeOK
<1>9. Rewriting(p)'
  <2>1. \A v \in Works \ {w} : file[v] # Torn => j.text.pins \cap file[v].pins = {}
    <3> SUFFICES ASSUME NEW v \in Works \ {w}, file[v] # Torn, NEW b \in file[w].pins,
                        b \in file[v].pins
                 PROVE  FALSE
      BY <1>3
    <3>1. file[w] \in SpecText /\ file[v] \in SpecText /\ b \in Beads
      BY <1>3, FileOK, TextOK DEF IInv
    <3> QED
      BY <1>3, <3>1 DEF IInv, SinglePinOwner
  <2>2. \A b \in Beads : promised[b] = w => b \in j.text.pins
    BY <1>3, TextOK DEF IInv, Kept
  <2> QED
    BY <1>1, <1>2, <1>3, <1>4, <1>5, <1>8, <2>1, <2>2 DEF Rewriting
<1>10. Control(p)'
  BY <1>5, <1>9 DEF Control, Editing
<1>11. TornByWriter'
  BY <1>1, <1>4, <1>5, <1>8, OthersIdle DEF IInv, TornByWriter
<1>12. Kept'
  BY <1>2, <1>3, <1>8 DEF IInv, Kept, TypeOK
<1>13. SinglePinOwner'
  BY <1>8, TextOK DEF IInv, SinglePinOwner
<1>14. OneSessionHolder'
  BY <1>2 DEF IInv, OneSessionHolder
<1> QED
  BY <1>6, <1>7, <1>10, <1>11, <1>12, <1>13, <1>14, SoloInv

\* What a write leaves in a file that was empty.
LEMMA LandedOK == \A new : Landed(Torn, new) = {new}
BY DEF Landed

\* The text lands, and the session is the one that was reported.
LEMMA WriteSpecInv ==
    ASSUME IInv, NEW p \in Procs, WriteSpec(p)
    PROVE  IInv'
<1> DEFINE j == job[p]
           w == j.work
<1>1. pc[p] = "write" /\ Rewriting(p) /\ j \in Job
  BY DEF WriteSpec, IInv, Control, TypeOK
<1>2. /\ w \in Works /\ j.text \in SpecText /\ file[w] = Torn /\ j.opened = "spec.yaml"
      /\ j.kind \in {"resume", "shelve"}
  BY <1>1 DEF Rewriting
<1>3. file' = [file EXCEPT ![w] = j.text] /\ tmp' = tmp
  BY <1>2, LandedOK DEF WriteSpec, WriteOpened
<1>4. /\ pc' = [pc EXCEPT ![p] = "idle"] /\ job' = [job EXCEPT ![p] = NoJob]
      /\ promised' = promised
  BY DEF WriteSpec, Exit
<1>5. \A v \in Works : file'[v] = IF v = w THEN j.text ELSE file[v]
  BY <1>3 DEF IInv, TypeOK
<1>6. pc'[p] = "idle" /\ job'[p] = NoJob
  BY <1>4 DEF IInv, TypeOK
<1>7. \A q \in Procs \ {p} : pc'[q] = "idle" /\ job'[q] = NoJob
  BY <1>1, <1>4, OthersIdle DEF IInv, TypeOK
<1>8. holds' \in [Procs -> Works \cup {None}]
  BY <1>2 DEF WriteSpec, IInv, TypeOK
<1>9. TypeOK'
  BY <1>2, <1>3, <1>4, <1>8, NoJobOK DEF IInv, TypeOK, Points
<1>10. Control(p)'
  BY <1>6 DEF Control, Editing
<1>11. \A v \in Works \ {w} : file[v] # Torn
  BY <1>1, OthersIdle DEF IInv, TornByWriter
<1>12. TornByWriter'
  BY <1>2, <1>5, <1>11, TextOK DEF TornByWriter
<1>13. \A q \in Procs : holds'[q] # None => file'[holds'[q]].active = q
  <2> SUFFICES ASSUME NEW q \in Procs, holds'[q] # None PROVE file'[holds'[q]].active = q
    OBVIOUS
  <2>1. CASE j.kind = "resume"
    <3>1. /\ holds' = [holds EXCEPT ![p] = w] /\ j.text.active = p
          /\ \A r \in Procs : holds[r] # w
      BY <1>1, <2>1 DEF WriteSpec, Rewriting
    <3>2. CASE q = p
      BY <1>2, <1>5, <3>1, <3>2 DEF IInv, TypeOK
    <3>3. CASE q # p
      <4>1. holds'[q] = holds[q] /\ holds[q] \in Works \ {w}
        BY <3>1, <3>3 DEF IInv, TypeOK
      <4> QED
        BY <1>5, <1>11, <4>1 DEF IInv, Kept
    <3> QED
      BY <3>2, <3>3
  <2>2. CASE j.kind = "shelve"
    <3>1. holds' = [r \in Procs |-> IF holds[r] = w THEN None ELSE holds[r]]
      BY <2>2 DEF WriteSpec
    <3>2. holds'[q] = holds[q] /\ holds[q] \in Works \ {w}
      BY <3>1 DEF IInv, TypeOK
    <3> QED
      BY <1>5, <1>11, <3>2 DEF IInv, Kept
  <2> QED
    BY <1>2, <2>1, <2>2
<1>14. \A b \in Beads : promised[b] # None => b \in file'[promised[b]].pins
  <2> SUFFICES ASSUME NEW b \in Beads, promised[b] # None PROVE b \in file'[promised[b]].pins
    OBVIOUS
  <2>1. promised[b] \in Works
    BY DEF IInv, TypeOK
  <2>2. CASE promised[b] = w
    BY <1>1, <1>5, <2>1, <2>2 DEF Rewriting
  <2>3. CASE promised[b] # w
    BY <1>5, <1>11, <2>1, <2>3 DEF IInv, Kept
  <2> QED
    BY <2>2, <2>3
<1>15. Kept'
  BY <1>4, <1>13, <1>14 DEF Kept
<1>16. SinglePinOwner'
  <2> SUFFICES ASSUME NEW b \in Beads, NEW v \in Works, NEW u \in Works,
                      file'[v] \in SpecText, b \in file'[v].pins,
                      file'[u] \in SpecText, b \in file'[u].pins
               PROVE  v = u
    BY DEF SinglePinOwner
  <2>1. \A x \in Works \ {w} : j.text.pins \cap file[x].pins = {}
    BY <1>1, <1>11 DEF Rewriting
  <2> QED
    BY <1>5, <2>1 DEF IInv, SinglePinOwner
<1>17. OneSessionHolder'
  BY <1>13 DEF OneSessionHolder
<1> QED
  BY <1>7, <1>9, <1>10, <1>12, <1>15, <1>16, <1>17, SoloInv

----------------------------------------------------------------------------
(* kerf pin *)

\* kerf pin begins: the bead may be in any of the other works.
LEMMA PinInv ==
    ASSUME Sequential, IInv, NEW p \in Procs, NEW w \in Works, NEW b \in Beads, Pin(p, w, b)
    PROVE  IInv'
<1>1. /\ \A q \in Procs : pc[q] = "idle" /\ job[q] = NoJob
      /\ \A v \in Works : file[v] # Torn
      /\ b \notin file[w].pins
  BY AllIdle DEF Pin
<1> DEFINE j == [NoJob EXCEPT !.target = w, !.bead = b, !.todo = Works \ {w}]
<1>2. j \in Job /\ j.target = w /\ j.bead = b /\ j.todo = Works \ {w}
  BY DEF NoJob, Job, Kinds, Openings
<1>3. /\ job' = [job EXCEPT ![p] = j] /\ pc' = [pc EXCEPT ![p] = "scan"]
      /\ promised' = [promised EXCEPT ![b] = None]
      /\ UNCHANGED <<file, tmp, holds>>
  BY DEF Pin
<1> HIDE DEF j
<1>4. TypeOK'
  BY <1>2, <1>3 DEF IInv, TypeOK, Points
<1>5. pc'[p] = "scan" /\ job'[p] = j /\ promised'[b] = None
  BY <1>3 DEF IInv, TypeOK
<1>6. Pinning(p)'
  BY <1>1, <1>2, <1>3, <1>5 DEF Pinning, Editing
<1>7. Control(p)'
  BY <1>5, <1>6 DEF Control, Editing
<1>8. TornByWriter'
  BY <1>1, <1>3 DEF TornByWriter
<1>9. \A q \in Procs \ {p} : pc'[q] = "idle" /\ job'[q] = NoJob
  BY <1>1, <1>3 DEF IInv, TypeOK
<1>10. Kept'
  BY <1>3 DEF IInv, TypeOK, Kept
<1>11. SinglePinOwner' /\ OneSessionHolder'
  BY <1>3 DEF IInv, SinglePinOwner, OneSessionHolder
<1> QED
  BY <1>4, <1>7, <1>8, <1>9, <1>10, <1>11, SoloInv

\* Steps of kerf pin that change nothing but its own state.
LEMMA CopyInv ==
    ASSUME IInv, NEW p \in Procs, pc[p] \in {"scan"} \cup Editing,
           NEW k \in Job, NEW at \in {"scan"} \cup Editing,
           pc' = [pc EXCEPT ![p] = at], job' = [job EXCEPT ![p] = k],
           tmp' \in [Works -> SpecText \cup {Torn, None}],
           UNCHANGED <<file, holds, promised>>, Pinning(p)'
    PROVE  IInv'
<1>1. TypeOK'
  BY DEF IInv, TypeOK, Points
<1>2. \A q \in Procs \ {p} : pc'[q] = "idle" /\ job'[q] = NoJob
  BY OthersIdle DEF IInv, TypeOK, Editing
<1>3. Control(p)'
  BY DEF Control, Editing, IInv, TypeOK
<1>4. TornByWriter'
  BY DEF Pinning, TornByWriter
<1> QED
  BY <1>1, <1>2, <1>3, <1>4, SameFiles, SoloInv

\* The works are numbered, so there is a first one.
LEMMA FirstOK ==
    ASSUME NEW S \in SUBSET Works, S # {}
    PROVE  First(S) \in S
<1>1. S \in SUBSET Nat
  BY SpecFilesAssumption DEF Works
<1>2. \E w \in S : \A v \in S : w <= v
  BY <1>1, LeastNat
<1> QED
  BY <1>2 DEF First

\* One of the other works is looked at.
LEMMA ScanOtherInv ==
    ASSUME IInv, NEW p \in Procs, ScanOther(p)
    PROVE  IInv'
<1> DEFINE j == job[p]
           o == First(j.todo)
           hit == Readable(file[o]) /\ j.bead \in Decoded(file[o]).pins
           k == [j EXCEPT !.todo = @ \ {o}, !.work = IF hit THEN o ELSE @,
                          !.kind = IF hit THEN "remove" ELSE @]
           at == IF hit THEN "edit" ELSE "scan"
<1>1. pc[p] = "scan" /\ Pinning(p) /\ j \in Job /\ j.todo # {}
  BY DEF ScanOther, IInv, Control, TypeOK
<1>2. j.todo \in SUBSET Works
  BY <1>1 DEF Job
<1>3. o \in j.todo
  BY <1>1, <1>2, FirstOK
<1>4. hit <=> j.bead \in file[o].pins
  BY <1>1, <1>2, <1>3, FileOK, TextOK DEF Pinning, IInv
<1>5. /\ k \in Job /\ k.todo = j.todo \ {o} /\ k.target = j.target /\ k.bead = j.bead
      /\ hit => k.work = o /\ k.kind = "remove"
  BY <1>1, <1>2, <1>3 DEF Job, Kinds
<1>6. /\ pc' = [pc EXCEPT ![p] = at] /\ job' = [job EXCEPT ![p] = k]
      /\ UNCHANGED <<file, tmp, holds, promised>>
  BY DEF ScanOther, reports
<1>7. pc'[p] = at /\ job'[p] = k
  BY <1>6 DEF IInv, TypeOK
<1> HIDE DEF k, hit
<1>8. Pinning(p)'
  <2>1. CASE hit
    <3>1. at = "edit"
      BY <2>1
    <3> QED
      BY <1>1, <1>2, <1>3, <1>5, <1>6, <1>7, <2>1, <3>1 DEF Pinning, Editing, Left
  <2>2. CASE ~hit
    <3>1. at = "scan"
      BY <2>2
    <3> QED
      BY <1>1, <1>2, <1>3, <1>4, <1>5, <1>6, <1>7, <2>2, <3>1 DEF Pinning, Editing
  <2> QED
    BY <2>1, <2>2
<1>9. at \in {"scan"} \cup Editing
  BY DEF Editing
<1> QED
  BY <1>1, <1>5, <1>6, <1>8, <1>9, CopyInv DEF IInv, TypeOK

\* No other work has the bead any more.
LEMMA ScanDoneInv ==
    ASSUME IInv, NEW p \in Procs, ScanDone(p)
    PROVE  IInv'
<1> DEFINE j == job[p]
           k == [j EXCEPT !.work = j.target, !.kind = "add"]
<1>1. pc[p] = "scan" /\ Pinning(p) /\ j \in Job /\ j.todo = {}
  BY DEF ScanDone, At, IInv, Control, TypeOK
<1>2. /\ k \in Job /\ k.todo = {} /\ k.target = j.target /\ k.bead = j.bead
      /\ k.work = j.target /\ k.kind = "add"
  BY <1>1 DEF Job, Kinds
<1>3. /\ pc' = [pc EXCEPT ![p] = "edit"] /\ job' = [job EXCEPT ![p] = k]
      /\ UNCHANGED <<file, tmp, holds, promised>>
  BY DEF ScanDone, At, reports
<1>4. pc'[p] = "edit" /\ job'[p] = k
  BY <1>3 DEF IInv, TypeOK
<1> HIDE DEF k
<1>5. Pinning(p)'
  BY <1>1, <1>2, <1>3, <1>4 DEF Pinning, Editing, Left
<1> QED
  BY <1>1, <1>2, <1>3, <1>5, CopyInv DEF IInv, TypeOK, Editing

\* The edited copy is made.
LEMMA ReadForEditInv ==
    ASSUME IInv, NEW p \in Procs, ReadForEdit(p)
    PROVE  IInv'
<1> DEFINE j == job[p]
           text == Edited(file[j.work], j.kind, j.bead)
           k == [j EXCEPT !.text = text]
<1>1. pc[p] = "edit" /\ Pinning(p) /\ j \in Job
  BY DEF ReadForEdit, At, IInv, Control, TypeOK, Editing
<1>2. text \in SpecText
  BY <1>1, EditedOK DEF ReadForEdit, Pinning, Editing
<1>3. /\ k \in Job /\ k.todo = j.todo /\ k.target = j.target /\ k.bead = j.bead
      /\ k.work = j.work /\ k.kind = j.kind /\ k.text = text
  BY <1>1, <1>2 DEF Job
<1>4. /\ pc' = [pc EXCEPT ![p] = "opentmp"] /\ job' = [job EXCEPT ![p] = k]
      /\ UNCHANGED <<file, tmp, holds, promised>>
  BY DEF ReadForEdit, At, reports
<1>5. pc'[p] = "opentmp" /\ job'[p] = k
  BY <1>4 DEF IInv, TypeOK
<1> HIDE DEF k
<1>6. Pinning(p)'
  BY <1>1, <1>3, <1>4, <1>5 DEF Pinning, Editing, Left
<1> QED
  BY <1>1, <1>3, <1>4, <1>6, CopyInv DEF IInv, TypeOK, Editing

\* The temporary file is emptied.
LEMMA OpenTmpInv ==
    ASSUME IInv, NEW p \in Procs, OpenTmp(p)
    PROVE  IInv'
<1> DEFINE j == job[p]
           k == [j EXCEPT !.opened = "spec.yaml.tmp"]
<1>1. pc[p] = "opentmp" /\ Pinning(p) /\ j \in Job
  BY DEF OpenTmp, At, IInv, Control, TypeOK, Editing
<1>2. /\ k \in Job /\ k.todo = j.todo /\ k.target = j.target /\ k.bead = j.bead
      /\ k.work = j.work /\ k.kind = j.kind /\ k.text = j.text /\ k.opened = "spec.yaml.tmp"
  BY <1>1 DEF Job, Openings
<1>3. /\ pc' = [pc EXCEPT ![p] = "writetmp"] /\ job' = [job EXCEPT ![p] = k]
      /\ tmp' = [tmp EXCEPT ![j.work] = Torn]
      /\ UNCHANGED <<file, holds, promised>>
  BY DEF OpenTmp, At, reports
<1>4. pc'[p] = "writetmp" /\ job'[p] = k /\ j.work \in Works
  BY <1>1, <1>3 DEF IInv, TypeOK, Pinning, Editing
<1>5. tmp'[j.work] = Torn /\ tmp' \in [Works -> SpecText \cup {Torn, None}]
  BY <1>3, <1>4 DEF IInv, TypeOK
<1> HIDE DEF k
<1>6. Pinning(p)'
  BY <1>1, <1>2, <1>3, <1>4, <1>5 DEF Pinning, Editing, Left
<1> QED
  BY <1>1, <1>2, <1>3, <1>5, <1>6, CopyInv DEF Editing

\* The temporary file holds the edited copy.
LEMMA WriteTmpInv ==
    ASSUME IInv, NEW p \in Procs, WriteTmp(p)
    PROVE  IInv'
<1> DEFINE j == job[p]
           k == [j EXCEPT !.opened = None]
<1>1. pc[p] = "writetmp" /\ Pinning(p) /\ j \in Job
  BY DEF WriteTmp, At, IInv, Control, TypeOK, Editing
<1>2. /\ k \in Job /\ k.todo = j.todo /\ k.target = j.target /\ k.bead = j.bead
      /\ k.work = j.work /\ k.kind = j.kind /\ k.text = j.text
  BY <1>1 DEF Job, Openings
<1>3. /\ j.opened = "spec.yaml.tmp" /\ tmp[j.work] = Torn /\ j.work \in Works
      /\ j.text \in SpecText
  <2>1. /\ j.opened = "spec.yaml.tmp" /\ tmp[j.work] = Torn /\ j.work \in Works
        /\ j.text = Edited(file[j.work], j.kind, j.bead)
    BY <1>1 DEF Pinning, Editing
  <2> QED
    BY <1>1, <2>1, EditedOK, FileOK DEF Pinning, Editing, IInv
<1>4. /\ pc' = [pc EXCEPT ![p] = "rename"] /\ job' = [job EXCEPT ![p] = k]
      /\ tmp' = [tmp EXCEPT ![j.work] = j.text]
      /\ UNCHANGED <<file, holds, promised>>
  BY <1>3, LandedOK DEF WriteTmp, At, reports, WriteOpened
<1>5. pc'[p] = "rename" /\ job'[p] = k
  BY <1>4 DEF IInv, TypeOK
<1>6. tmp'[j.work] = j.text /\ tmp' \in [Works -> SpecText \cup {Torn, None}]
  BY <1>3, <1>4 DEF IInv, TypeOK
<1> HIDE DEF k
<1>7. Pinning(p)'
  BY <1>1, <1>2, <1>4, <1>5, <1>6 DEF Pinning, Editing, Left
<1> QED
  BY <1>1, <1>2, <1>4, <1>6, <1>7, CopyInv DEF Editing

\* Where a command goes on after an edit.
LEMMA FollowUpOK ==
    ASSUME IInv, NEW p \in Procs, pc[p] \in Editing, NEW opened, FollowUp(p, opened),
           \A q \in Procs \ {p} : opened[q] = NoJob.opened, opened[p] \in Openings
    PROVE  /\ pc' \in [Procs -> Points] /\ job' \in [Procs -> Job]
           /\ \A q \in Procs \ {p} : pc'[q] = "idle" /\ job'[q] = NoJob
           /\ \/ /\ job[p].kind \in {"remove", "add"}
                 /\ pc'[p] = "edit" /\ promised' = promised
                 /\ job'[p].kind = "touch" /\ job'[p].work = job[p].work
                 /\ job'[p].target = job[p].target /\ job'[p].bead = job[p].bead
                 /\ job'[p].todo = job[p].todo
              \/ /\ job[p].kind = "touch" /\ job[p].work # job[p].target
                 /\ pc'[p] = "scan" /\ promised' = promised
                 /\ job'[p].target = job[p].target /\ job'[p].bead = job[p].bead
                 /\ job'[p].todo = job[p].todo
              \/ /\ job[p].kind = "touch" /\ job[p].work = job[p].target
                 /\ pc'[p] = "idle" /\ job'[p] = NoJob
                 /\ promised' = [promised EXCEPT ![job[p].bead] = job[p].target]
<1> DEFINE j == job[p]
           jobs == [q \in Procs |-> [job[q] EXCEPT !.opened = opened[q]]]
<1>1. Pinning(p) /\ j \in Job /\ j.kind \in {"remove", "add", "touch"}
  BY DEF IInv, TypeOK, Control, Pinning, Editing
<1>2. \A q \in Procs \ {p} : pc[q] = "idle" /\ jobs[q] = NoJob
  BY OthersIdle, NoJobOK DEF Editing
<1> DEFINE k == [j EXCEPT !.opened = opened[p]]
<1>3. /\ k \in Job /\ k.work = j.work /\ k.target = j.target /\ k.bead = j.bead
      /\ k.todo = j.todo /\ k.kind = j.kind
  BY <1>1 DEF Job
<1>4. jobs \in [Procs -> Job] /\ jobs[p] = k
  BY <1>2, <1>3, NoJobOK
<1> HIDE DEF jobs, k
<1>5. pc \in [Procs -> Points]
  BY DEF IInv, TypeOK
<1>6. CASE j.kind \in {"remove", "add"}
  <2>1. /\ pc' = [pc EXCEPT ![p] = "edit"] /\ job' = [jobs EXCEPT ![p].kind = "touch"]
        /\ promised' = promised
    BY <1>6 DEF FollowUp, jobs
  <2>2. [k EXCEPT !.kind = "touch"] \in Job
    BY <1>3 DEF Job, Kinds
  <2>3. job' = [jobs EXCEPT ![p] = [k EXCEPT !.kind = "touch"]]
    BY <1>4, <2>1
  <2>4. job'[p] = [k EXCEPT !.kind = "touch"] /\ job' \in [Procs -> Job]
    BY <1>4, <2>2, <2>3
  <2>5. /\ job'[p].kind = "touch" /\ job'[p].work = j.work /\ job'[p].target = j.target
        /\ job'[p].bead = j.bead /\ job'[p].todo = j.todo
    BY <1>3, <2>4 DEF Job
  <2>6. pc' \in [Procs -> Points] /\ pc'[p] = "edit"
    BY <1>5, <2>1 DEF Points, Editing
  <2> QED
    BY <1>2, <1>4, <1>5, <1>6, <2>1, <2>3, <2>4, <2>5, <2>6
<1>7. CASE j.kind = "touch" /\ j.work # j.target
  <2>1. pc' = [pc EXCEPT ![p] = "scan"] /\ job' = jobs /\ promised' = promised
    BY <1>7 DEF FollowUp, jobs
  <2> QED
    BY <1>2, <1>3, <1>4, <1>5, <1>7, <2>1 DEF Points
<1>8. CASE j.kind = "touch" /\ j.work = j.target
  <2>1. /\ pc' = [pc EXCEPT ![p] = "idle"] /\ job' = [jobs EXCEPT ![p] = NoJob]
        /\ promised' = [promised EXCEPT ![j.bead] = j.target]
    BY <1>8 DEF FollowUp, jobs
  <2> QED
    BY <1>2, <1>3, <1>4, <1>5, <1>8, <2>1, NoJobOK DEF Points
<1> QED
  BY <1>1, <1>6, <1>7, <1>8

\* An edit that is in the file, by a rename or because it changes nothing.
LEMMA EditInv ==
    ASSUME IInv, NEW p \in Procs, pc[p] \in Editing, NEW opened, FollowUp(p, opened),
           \A q \in Procs \ {p} : opened[q] = NoJob.opened, opened[p] \in Openings,
           file' = [file EXCEPT ![job[p].work] =
                       Edited(file[job[p].work], job[p].kind, job[p].bead)],
           tmp' \in [Works -> SpecText \cup {Torn, None}], holds' = holds
    PROVE  IInv'
<1> DEFINE j == job[p]
           w == j.work
           text == Edited(file[w], j.kind, j.bead)
<1>1. Pinning(p)
  BY DEF IInv, Control, Editing
<1>2. /\ w \in Works /\ j.kind \in {"remove", "add", "touch"} /\ j.bead \in Beads
      /\ j.target \in Works /\ promised[j.bead] = None
      /\ \A v \in Works : file[v] # Torn
      /\ \A v \in Works : j.bead \in file[v].pins => v \in Left(j)
  BY <1>1 DEF Pinning
<1>3. \A v \in Works : file[v] \in SpecText
  BY <1>2, FileOK DEF IInv
<1>4. /\ text \in SpecText /\ text.active = file[w].active
      /\ j.kind = "remove" => text.pins = file[w].pins \ {j.bead}
      /\ j.kind = "add" => text.pins = file[w].pins \cup {j.bead}
      /\ j.kind = "touch" => text = file[w]
  BY <1>2, <1>3, EditedOK
<1> HIDE DEF text
<1>5. \A v \in Works : file'[v] = IF v = w THEN text ELSE file[v]
  BY DEF text, IInv, TypeOK
<1>6. \A v \in Works : file'[v] \in SpecText /\ file'[v] # Torn /\ file'[v].active = file[v].active
  BY <1>3, <1>4, <1>5, TextOK
<1>7. \A v \in Works, b \in Beads \ {j.bead} : b \in file'[v].pins <=> b \in file[v].pins
  BY <1>2, <1>4, <1>5
<1>8. /\ pc' \in [Procs -> Points] /\ job' \in [Procs -> Job]
      /\ \A q \in Procs \ {p} : pc'[q] = "idle" /\ job'[q] = NoJob
  BY FollowUpOK
<1>9. promised' \in [Beads -> Works \cup {None}]
  BY <1>2, FollowUpOK DEF IInv, TypeOK
<1>10. TypeOK'
  BY <1>4, <1>8, <1>9 DEF IInv, TypeOK, text
<1>11. TornByWriter'
  BY <1>6 DEF TornByWriter
<1>12. SinglePinOwner'
  <2> SUFFICES ASSUME NEW b \in Beads, NEW v \in Works, NEW u \in Works,
                      b \in file'[v].pins, b \in file'[u].pins
               PROVE  v = u
    BY DEF SinglePinOwner
  <2>1. CASE b # j.bead
    BY <1>3, <1>7, <2>1 DEF IInv, SinglePinOwner
  <2>2. CASE b = j.bead /\ j.kind = "add"
    <3>1. \A x \in Works : j.bead \notin file[x].pins
      BY <1>2, <2>2 DEF Left
    <3> QED
      BY <1>5, <2>2, <3>1
  <2>3. CASE b = j.bead /\ j.kind \in {"remove", "touch"}
    <3>1. b \in file[v].pins /\ b \in file[u].pins
      BY <1>4, <1>5, <2>3
    <3> QED
      BY <1>3, <3>1 DEF IInv, SinglePinOwner
  <2> QED
    BY <1>2, <2>1, <2>2, <2>3
<1>13. OneSessionHolder'
  BY DEF IInv, OneSessionHolder
<1>14. \A q \in Procs : holds[q] # None => file'[holds[q]].active = q
  BY <1>2, <1>6 DEF IInv, TypeOK, Kept
<1>15. \A b \in Beads : promised'[b] # None => b \in file'[promised'[b]].pins
  <2> SUFFICES ASSUME NEW b \in Beads, promised'[b] # None PROVE b \in file'[promised'[b]].pins
    OBVIOUS
  <2>1. CASE promised' = promised
    <3>1. b # j.bead /\ promised[b] \in Works
      BY <1>2, <2>1 DEF IInv, TypeOK
    <3> QED
      BY <1>2, <1>7, <2>1, <3>1 DEF IInv, Kept
  <2>2. CASE /\ j.kind = "touch" /\ w = j.target
             /\ promised' = [promised EXCEPT ![j.bead] = j.target]
    <3>1. CASE b = j.bead
      <4>1. promised'[b] = w
        BY <1>2, <2>2, <3>1 DEF IInv, TypeOK
      <4>2. j.bead \in file[w].pins
        BY <1>1, <2>2 DEF Pinning
      <4> QED
        BY <1>2, <1>4, <1>5, <2>2, <3>1, <4>1, <4>2
    <3>2. CASE b # j.bead
      <4>1. promised'[b] = promised[b] /\ promised[b] \in Works
        BY <2>2, <3>2 DEF IInv, TypeOK
      <4> QED
        BY <1>2, <1>7, <3>2, <4>1 DEF IInv, Kept
    <3> QED
      BY <3>1, <3>2
  <2> QED
    BY <2>1, <2>2, FollowUpOK
<1>16. Kept'
  BY <1>14, <1>15 DEF Kept
<1>17. Control(p)'
  <2>1. CASE /\ j.kind \in {"remove", "add"}
             /\ pc'[p] = "edit" /\ promised' = promised
             /\ job'[p].kind = "touch" /\ job'[p].work = w
             /\ job'[p].target = j.target /\ job'[p].bead = j.bead
             /\ job'[p].todo = j.todo
    <3>1. CASE j.kind = "remove"
      <4>1. w # j.target
        BY <1>1, <3>1 DEF Pinning
      <4>2. \A v \in Works : j.bead \in file'[v].pins => v \in j.todo
        BY <1>2, <1>4, <1>5, <3>1 DEF Left
      <4> QED
        BY <1>1, <1>2, <1>6, <2>1, <3>1, <4>1, <4>2 DEF Control, Pinning, Editing, Left
    <3>2. CASE j.kind = "add"
      <4>1. w = j.target
        BY <1>1, <3>2 DEF Pinning
      <4>2. \A v \in Works : j.bead \in file'[v].pins <=> v = w
        BY <1>2, <1>4, <1>5, <3>2 DEF Left
      <4> QED
        BY <1>1, <1>2, <1>6, <2>1, <3>2, <4>1, <4>2 DEF Control, Pinning, Editing, Left
    <3> QED
      BY <2>1, <3>1, <3>2
  <2>2. CASE /\ j.kind = "touch" /\ w # j.target
             /\ pc'[p] = "scan" /\ promised' = promised
             /\ job'[p].target = j.target /\ job'[p].bead = j.bead
             /\ job'[p].todo = j.todo
    <3>1. \A v \in Works : j.bead \in file'[v].pins => v \in j.todo
      BY <1>2, <1>4, <1>5, <2>2 DEF Left
    <3> QED
      BY <1>1, <1>2, <1>6, <2>2, <3>1 DEF Control, Pinning, Editing
  <2>3. CASE pc'[p] = "idle" /\ job'[p] = NoJob
    BY <2>3 DEF Control, Editing
  <2> QED
    BY <2>1, <2>2, <2>3, FollowUpOK
<1> QED
  BY <1>8, <1>10, <1>11, <1>12, <1>13, <1>16, <1>17, SoloInv

\* An edit that changes nothing counts as made.
LEMMA SkipEditInv ==
    ASSUME IInv, NEW p \in Procs, SkipEdit(p)
    PROVE  IInv'
<1> DEFINE opened == [q \in Procs |-> job[q].opened]
<1>1. /\ pc[p] \in Editing /\ FollowUp(p, opened) /\ UNCHANGED <<file, tmp, holds>>
      /\ Edited(file[job[p].work], job[p].kind, job[p].bead) = file[job[p].work]
  BY DEF SkipEdit, Editing
<1>2. \A q \in Procs \ {p} : opened[q] = NoJob.opened
  BY <1>1, OthersIdle DEF Editing
<1>3. opened[p] \in Openings
  BY DEF IInv, TypeOK, Job
<1>4. /\ file' = [file EXCEPT ![job[p].work] =
                     Edited(file[job[p].work], job[p].kind, job[p].bead)]
      /\ tmp' \in [Works -> SpecText \cup {Torn, None}] /\ holds' = holds
  BY <1>1 DEF IInv, TypeOK
<1> HIDE DEF opened
<1> QED
  BY <1>1, <1>2, <1>3, <1>4, EditInv

\* The rename puts the edited copy in the place of the file.
LEMMA RenameInv ==
    ASSUME IInv, NEW p \in Procs, Rename(p)
    PROVE  IInv'
<1> DEFINE w == job[p].work
           opened == Moved(w)
<1>1. /\ pc[p] = "rename" /\ pc[p] \in Editing /\ FollowUp(p, opened) /\ holds' = holds
      /\ file' = [file EXCEPT ![w] = tmp[w]] /\ tmp' = [tmp EXCEPT ![w] = None]
  BY DEF Rename, Editing
<1>2. /\ w \in Works /\ tmp[w] = job[p].text
      /\ job[p].text = Edited(file[w], job[p].kind, job[p].bead)
  BY <1>1 DEF IInv, Control, Pinning, Editing
<1>3. \A q \in Procs \ {p} : opened[q] = NoJob.opened
  <2> SUFFICES ASSUME NEW q \in Procs \ {p} PROVE opened[q] = NoJob.opened
    OBVIOUS
  <2>1. job[q] = NoJob
    BY <1>1, OthersIdle DEF Editing
  <2>2. job[q].work = None
    BY <2>1 DEF NoJob
  <2>3. job[q].work # w
    BY <1>2, <2>2, TextOK
  <2> QED
    BY <2>1, <2>3 DEF Moved
<1>4. opened[p] \in Openings
  BY DEF Moved, Openings, IInv, TypeOK, Job
<1>5. tmp' \in [Works -> SpecText \cup {Torn, None}]
  BY <1>1 DEF IInv, TypeOK
<1>6. file' = [file EXCEPT ![job[p].work] =
                  Edited(file[job[p].work], job[p].kind, job[p].bead)]
  BY <1>1, <1>2
<1> HIDE DEF opened
<1> QED
  BY <1>1, <1>3, <1>4, <1>5, <1>6, EditInv

\* No edit fails: the temporary file is there and the file can be read.
LEMMA NoFailure ==
    ASSUME IInv, NEW p \in Procs
    PROVE  ~RenameFails(p) /\ ~RemoveTmp(p) /\ ~EditFails(p)
<1>1. ~RenameFails(p)
  <2> SUFFICES ASSUME RenameFails(p) PROVE FALSE
    OBVIOUS
  <2>1. pc[p] = "rename" /\ tmp[job[p].work] = None
    BY DEF RenameFails, At
  <2>2. Pinning(p)
    BY <2>1 DEF IInv, Control, Editing
  <2>3. /\ tmp[job[p].work] = job[p].text
        /\ job[p].text = Edited(file[job[p].work], job[p].kind, job[p].bead)
        /\ job[p].work \in Works /\ job[p].bead \in Beads
        /\ job[p].kind \in {"remove", "add", "touch"} /\ file[job[p].work] # Torn
    BY <2>1, <2>2 DEF Pinning, Editing
  <2>4. job[p].text \in SpecText
    BY <2>3, FileOK, EditedOK DEF IInv
  <2> QED
    BY <2>1, <2>3, <2>4, TextOK
<1>2. ~RemoveTmp(p)
  BY DEF RemoveTmp, IInv, TypeOK, Points, Editing
<1>3. ~EditFails(p)
  <2> SUFFICES ASSUME EditFails(p) PROVE FALSE
    OBVIOUS
  <2>1. pc[p] = "edit" /\ file[job[p].work] \notin SpecText
    BY DEF EditFails
  <2>2. job[p].work \in Works /\ file[job[p].work] # Torn
    BY <2>1 DEF IInv, Control, Pinning, Editing
  <2> QED
    BY <2>1, <2>2, FileOK DEF IInv
<1> QED
  BY <1>1, <1>2, <1>3

\* A kill of kerf pin leaves the files as they are.
LEMMA CrashInv ==
    ASSUME Sequential, IInv, NEW p \in Procs, Crash(p)
    PROVE  IInv'
<1>1. /\ pc[p] # "idle" /\ pc' = [pc EXCEPT ![p] = "idle"] /\ job' = [job EXCEPT ![p] = NoJob]
      /\ UNCHANGED <<file, tmp, holds, promised>>
  BY DEF Crash, Exit, reports
<1>2. job[p].kind \notin {"resume", "shelve"}
  BY DEF Crash, Command, Sequential
<1>3. pc[p] \in {"scan"} \cup Editing
  BY <1>1, <1>2 DEF IInv, TypeOK, Points, Control, Rewriting
<1>4. \A v \in Works : file[v] # Torn
  BY <1>3 DEF IInv, Control, Pinning
<1>5. pc'[p] = "idle" /\ job'[p] = NoJob
  BY <1>1 DEF IInv, TypeOK
<1>6. Control(p)'
  BY <1>5 DEF Control, Editing
<1>7. TypeOK'
  BY <1>1, NoJobOK DEF IInv, TypeOK, Points
<1>8. TornByWriter'
  BY <1>1, <1>4 DEF TornByWriter
<1>9. \A q \in Procs \ {p} : pc'[q] = "idle" /\ job'[q] = NoJob
  BY <1>1, OthersIdle DEF IInv, TypeOK
<1> QED
  BY <1>1, <1>6, <1>7, <1>8, <1>9, SameFiles, SoloInv

----------------------------------------------------------------------------
(* The invariance *)

\* Fresh files and nobody running.
LEMMA InitInv == Init => IInv
<1> SUFFICES ASSUME Init PROVE IInv
  OBVIOUS
<1>1. Fresh \in SpecText /\ Fresh.pins = {} /\ Fresh.active = None
  BY DEF Fresh, SpecText
<1>2. TypeOK
  BY <1>1, NoJobOK DEF Init, TypeOK, Points
<1>3. TornByWriter
  BY <1>1, TextOK DEF Init, TornByWriter
<1>4. SinglePinOwner
  BY <1>1 DEF Init, SinglePinOwner
<1> QED
  BY <1>2, <1>3, <1>4 DEF Init, IInv, Alone, Kept, OneSessionHolder, Control, Editing

\* Every step keeps the invariant.
LEMMA NextInv == Sequential /\ IInv /\ [Next]_vars => IInv'
<1> SUFFICES ASSUME Sequential, IInv, [Next]_vars PROVE IInv'
  OBVIOUS
<1>1. ASSUME NEW p \in Procs, Start(p) PROVE IInv'
  BY <1>1, ResumeInv, ShelveInv, ForceShelveInv, PinInv DEF Start
<1>2. ASSUME NEW p \in Procs, Step(p) PROVE IInv'
  BY <1>2, TruncateInv, WriteSpecInv, ScanOtherInv, ScanDoneInv, SkipEditInv, ReadForEditInv,
     OpenTmpInv, WriteTmpInv, RenameInv, NoFailure DEF Step
<1>3. ASSUME NEW p \in Procs, Crash(p) PROVE IInv'
  BY <1>3, CrashInv
<1>4. ASSUME UNCHANGED vars PROVE IInv'
  BY <1>4 DEF vars, IInv, TypeOK, Alone, TornByWriter, Kept, SinglePinOwner, OneSessionHolder,
     Control, Rewriting, Pinning, Left
<1> QED
  BY <1>1, <1>2, <1>3, <1>4 DEF Next

(***************************************************************************)
(* The invariant of the commands one after the other.                      *)
(***************************************************************************)
THEOREM Invariance == ASSUME Sequential PROVE FilesSpec => []IInv
<1>1. Init => IInv
  BY InitInv
<1>2. IInv /\ [Next]_vars => IInv'
  BY NextInv
<1> QED
  BY <1>1, <1>2, PTL DEF FilesSpec

(***************************************************************************)
(* The property NeverTorn: a spec.yaml is a whole text unless kerf resume  *)
(* or kerf shelve is rewriting it, through every kill of a kerf pin.       *)
(***************************************************************************)
THEOREM TextsAreWhole == ASSUME Sequential PROVE FilesSpec => []NeverTorn
<1>1. IInv => NeverTorn
  BY DEF IInv, TypeOK, TornByWriter, NeverTorn
<1> QED
  BY <1>1, Invariance, PTL

(***************************************************************************)
(* The property SinglePinOwner: kerf pin takes a bead from every other     *)
(* work before it gives it to its target, and a kill between two edits     *)
(* leaves the bead with one owner or none.                                 *)
(***************************************************************************)
THEOREM OneOwnerPerBead == ASSUME Sequential PROVE FilesSpec => []SinglePinOwner
<1>1. IInv => SinglePinOwner
  BY DEF IInv
<1> QED
  BY <1>1, Invariance, PTL

----------------------------------------------------------------------------
(***************************************************************************)
(* Commands that overlap and are killed in any way: what was reported      *)
(* about a spec.yaml that no two commands were at.  The invariant says     *)
(* what the only command at such a file has in its hands: a text that      *)
(* carries every report about the file, and the file or the temporary file *)
(* in the state its next step expects.                                     *)
(***************************************************************************)
Copying == {"opentmp", "writetmp", "rename"}
Hands == {"truncate", "write", "edit", "removetmp"} \cup Copying

ReportsTypeOK ==
    /\ file \in [Works -> SpecText \cup {Torn, Garbled}]
    /\ tmp \in [Works -> SpecText \cup {Torn, Garbled, None}]
    /\ pc \in [Procs -> {"idle", "scan"} \cup Hands]
    /\ job \in [Procs -> Job]
    /\ holds \in [Procs -> Works \cup {None}]
    /\ promised \in [Beads -> Works \cup {None}]
    /\ mixed \in SUBSET Works /\ doubted \in SUBSET (Procs \cup Beads)

OneHand ==
    \A w \in Works \ mixed : \A p, q \in Procs : AtWork(p, w) /\ AtWork(q, w) => p = q

\* The job of a command at any of its steps.
Equipped(p) ==
    LET j == job[p] IN
    /\ pc[p] \in Hands => j.work \in Works
    /\ pc[p] \in {"truncate", "write"} => j.text \in SpecText /\ j.kind \in {"resume", "shelve"}
    /\ pc[p] \notin {"idle", "truncate", "write"} =>
        /\ j.bead \in Beads /\ j.target \in Works /\ j.target \notin j.todo
        /\ promised[j.bead] = None \/ j.bead \in doubted
    /\ pc[p] \in {"edit", "removetmp"} \cup Copying =>
        /\ j.kind \in {"remove", "add", "touch"}
        /\ j.kind = "remove" => j.work # j.target
        /\ j.kind = "add" => j.work = j.target
    /\ pc[p] \in Copying => j.text \in SpecText

\* A text that carries every report about w that is not in doubt.
CarriesPins(t, w) == \A b \in Beads \ doubted : promised[b] = w => b \in t.pins
CarriesSession(t, w) == \A q \in Procs \ doubted : holds[q] = w => t.active = q

\* A command at a spec.yaml that no other one was at meanwhile.
Undisturbed(p) ==
    LET j == job[p]
        w == j.work
    IN
    pc[p] \in Hands /\ w \notin mixed =>
        /\ pc[p] # "removetmp"
        /\ pc[p] \in {"truncate", "write"} =>
            /\ CarriesPins(j.text, w)
            /\ j.kind = "resume" => /\ j.text.active = p
                                    /\ \A q \in Procs \ doubted : holds[q] # w
        /\ pc[p] = "write" => file[w] = Torn /\ j.opened = "spec.yaml"
        /\ pc[p] = "edit" /\ j.kind = "touch" /\ w = j.target =>
            file[w] \in SpecText /\ j.bead \in file[w].pins
        /\ pc[p] \in Copying =>
            /\ CarriesPins(j.text, w) /\ CarriesSession(j.text, w)
            /\ j.kind \in {"add", "touch"} /\ w = j.target => j.bead \in j.text.pins
        /\ pc[p] = "writetmp" => tmp[w] = Torn /\ j.opened = "spec.yaml.tmp"
        /\ pc[p] = "rename" => tmp[w] = j.text

\* The file of w tells what was reported about w.
Tells(w) ==
    /\ \A b \in Beads \ doubted : promised[b] = w => file[w] \in SpecText /\ b \in file[w].pins
    /\ \A q \in Procs \ doubted : holds[q] = w => file[w] \in SpecText /\ file[w].active = q
Honest(w) == Tells(w) \/ \E p \in Procs : pc[p] = "write" /\ job[p].work = w

RInv ==
    /\ ReportsTypeOK
    /\ OneHand
    /\ \A p \in Procs : Equipped(p) /\ Undisturbed(p)
    /\ \A w \in Works : Honest(w)

\* What the marks and names are not.
LEMMA Marks ==
    /\ \A s \in SpecText : s # Torn /\ s # Garbled /\ s # None
    /\ Torn # None /\ Torn # Garbled /\ None \notin Works
    /\ \A p \in Procs : p # None
    /\ \A b \in Beads : b \notin Procs
BY TextOK, SpecFilesAssumption, NamesAssumption

\* What Note remembers.
LEMMA NoteOK ==
    ASSUME NEW works, NEW said, Note(works, said)
    PROVE  /\ mixed' \in SUBSET Works /\ doubted' \in SUBSET (Procs \cup Beads)
           /\ OneHand'
           /\ \A w \in Works, p \in Procs : w \in mixed /\ AtWork(p, w)' => w \in mixed'
           /\ \A x \in Procs \cup Beads : x \notin doubted' /\ About(x)' # None =>
                  /\ About(x)' \notin works
                  /\ x \in said \/ x \notin doubted
                  /\ x \in Beads => ~Rivals(x)
<1>1. mixed' = {w \in Works :
                    \/ w \in mixed /\ \E p \in Procs : AtWork(p, w)'
                    \/ \E p, q \in Procs : p # q /\ AtWork(p, w)' /\ AtWork(q, w)'}
  BY DEF Note
<1>2. doubted' = {x \in Procs \cup Beads :
                    /\ About(x)' # None
                    /\ \/ x \in doubted \ said
                       \/ About(x)' \in works
                       \/ x \in Beads /\ Rivals(x)}
  BY DEF Note
<1>3. OneHand'
  BY <1>1 DEF OneHand
<1> QED
  BY <1>1, <1>2, <1>3

\* A step of p that leaves the other commands, and the files p is not at, alone.
Local(p) ==
    /\ \A q \in Procs \ {p} :
        /\ pc'[q] = pc[q]
        /\ job'[q].work = job[q].work /\ job'[q].text = job[q].text
        /\ job'[q].kind = job[q].kind /\ job'[q].bead = job[q].bead
        /\ job'[q].target = job[q].target /\ job'[q].todo = job[q].todo
        /\ ~AtWork(p, job[q].work) => job'[q].opened = job[q].opened
    /\ \A w \in Works : ~AtWork(p, w) => file'[w] = file[w] /\ tmp'[w] = tmp[w]

\* A step of p that reports no more than `said`, and about the work p is at.
Telling(p, said) ==
    /\ \A x \in Procs \cup Beads : x \notin said => About(x)' \in {About(x), None}
    /\ \A x \in said : About(x)' # None => AtWork(p, About(x)')
    /\ \A b \in Beads : b \in said => promised'[b] # promised[b] /\ job[p].bead = b

\* A report the step does not make is one from before.
LEMMA ReportBefore ==
    ASSUME NEW works, NEW said, Note(works, said), NEW p \in Procs, Telling(p, said),
           NEW w \in Works,
           NEW x \in Procs \cup Beads, x \notin said \/ ~AtWork(p, w),
           x \notin doubted', About(x)' = w
    PROVE  x \notin doubted /\ About(x) = w /\ w \notin works
<1>1. w # None
  BY Marks
<1>2. x \notin said
  BY <1>1 DEF Telling
<1>3. About(x) = w
  BY <1>1, <1>2 DEF Telling
<1> QED
  BY <1>1, <1>2, <1>3, NoteOK

\* The pins and the session of a text carry on.
LEMMA CarriesOn ==
    ASSUME NEW works, NEW said, Note(works, said), NEW p \in Procs, Telling(p, said),
           NEW w \in Works, said = {} \/ ~AtWork(p, w), NEW t
    PROVE  /\ CarriesPins(t, w) => CarriesPins(t, w)'
           /\ CarriesSession(t, w) => CarriesSession(t, w)'
           /\ (\A q \in Procs \ doubted : holds[q] # w) =>
                  \A q \in Procs \ doubted' : holds'[q] # w
           /\ Tells(w) /\ file'[w] = file[w] => Tells(w)'
<1>1. \A b \in Beads \ doubted' : promised'[b] = w => b \notin doubted /\ promised[b] = w
  BY ReportBefore, Marks DEF About
<1>2. \A q \in Procs \ doubted' : holds'[q] = w => q \notin doubted /\ holds[q] = w
  BY ReportBefore DEF About
<1> QED
  BY <1>1, <1>2 DEF CarriesPins, CarriesSession, Tells

\* The invariant after a step: what has to be shown is what p itself holds.
LEMMA OverlapStep ==
    ASSUME RInv, NEW works, NEW said, Note(works, said), mixed \subseteq works,
           NEW p \in Procs, Local(p), Telling(p, said),
           file' \in [Works -> SpecText \cup {Torn, Garbled}],
           tmp' \in [Works -> SpecText \cup {Torn, Garbled, None}],
           pc' \in [Procs -> {"idle", "scan"} \cup Hands],
           job' \in [Procs -> Job],
           holds' \in [Procs -> Works \cup {None}],
           promised' \in [Beads -> Works \cup {None}],
           Equipped(p)', Undisturbed(p)',
           \A w \in Works : AtWork(p, w) /\ w \notin works => Honest(w)'
    PROVE  RInv'
<1>1. ReportsTypeOK' /\ OneHand'
  BY NoteOK DEF ReportsTypeOK
<1>2. ASSUME NEW w \in Works PROVE Honest(w)'
  <2>1. CASE w \in works
    <3>1. \A x \in (Procs \cup Beads) \ doubted' : About(x)' # w
      BY <2>1, NoteOK, Marks
    <3>2. /\ \A b \in Beads \ doubted' : promised'[b] # w
          /\ \A q \in Procs \ doubted' : holds'[q] # w
      BY <3>1, Marks DEF About
    <3> QED
      BY <3>2 DEF Honest, Tells
  <2>2. CASE ~AtWork(p, w) /\ w \notin works
    <3>1. file'[w] = file[w] /\ Honest(w)
      BY <2>2 DEF Local, RInv
    <3>2. CASE \E q \in Procs : pc[q] = "write" /\ job[q].work = w
      <4>1. PICK q \in Procs : pc[q] = "write" /\ job[q].work = w
        BY <3>2
      <4>2. q # p
        BY <2>2, <4>1 DEF AtWork
      <4>3. pc'[q] = "write" /\ job'[q].work = w
        BY <4>1, <4>2 DEF Local
      <4> QED
        BY <4>3 DEF Honest
    <3>3. CASE Tells(w)
      <4>1. Tells(w)'
        BY <2>2, <3>1, <3>3, CarriesOn
      <4> QED
        BY <4>1 DEF Honest
    <3> QED
      BY <3>1, <3>2, <3>3 DEF Honest
  <2>3. CASE AtWork(p, w) /\ w \notin works
    BY <2>3
  <2> QED
    BY <2>1, <2>2, <2>3
<1>3. ASSUME NEW q \in Procs \ {p} PROVE Equipped(q)' /\ Undisturbed(q)'
  <2> DEFINE j == job[q]
             w == j.work
  <2>1. /\ pc'[q] = pc[q] /\ job'[q].work = w /\ job'[q].text = j.text
        /\ job'[q].kind = j.kind /\ job'[q].bead = j.bead
        /\ job'[q].target = j.target /\ job'[q].todo = j.todo
        /\ ~AtWork(p, w) => job'[q].opened = j.opened
    BY DEF Local
  <2>2. Equipped(q) /\ Undisturbed(q)
    BY DEF RInv
  <2>3. ASSUME j.bead \in Beads, promised[j.bead] = None \/ j.bead \in doubted
        PROVE  promised'[j.bead] = None \/ j.bead \in doubted'
    <3> SUFFICES ASSUME promised'[j.bead] # None, j.bead \notin doubted' PROVE FALSE
      OBVIOUS
    <3>0. PICK b \in Beads : b = j.bead
      BY <2>3
    <3>1. About(b)' = promised'[b] /\ About(b) = promised[b]
      BY Marks DEF About
    <3>2. (b \in said \/ b \notin doubted) /\ ~Rivals(b)
      BY <3>0, <3>1, NoteOK
    <3>3. promised'[b] = promised[b] \/ b \in said
      BY <3>0, <3>1 DEF Telling
    <3>4. b \in said
      BY <2>3, <3>0, <3>2, <3>3
    <3>5. job[p].bead = b
      BY <3>4 DEF Telling
    <3> QED
      BY <3>0, <3>2, <3>5 DEF Rivals
  <2>4. Equipped(q)'
    BY <2>1, <2>2, <2>3 DEF Equipped
  <2>5. Undisturbed(q)'
    <3> SUFFICES ASSUME pc[q] \in Hands, w \notin mixed' PROVE Undisturbed(q)'
      BY <2>1 DEF Undisturbed
    <3>0. PICK v \in Works : v = w
      BY <2>2 DEF Equipped
    <3>1. w \in Works /\ AtWork(q, w) /\ AtWork(q, v)'
      BY <2>1, <3>0 DEF AtWork, Hands, Copying
    <3>2. w \notin mixed
      BY <3>0, <3>1, NoteOK
    <3>3. ~AtWork(p, w)
      BY <3>1, <3>2 DEF RInv, OneHand
    <3>4. file'[w] = file[w] /\ tmp'[w] = tmp[w] /\ job'[q].opened = j.opened
      BY <2>1, <3>1, <3>3 DEF Local
    <3>5. PICK t : t = j.text /\ t = job'[q].text
      BY <2>1
    <3>6. /\ CarriesPins(t, w) => CarriesPins(t, w)'
          /\ CarriesSession(t, w) => CarriesSession(t, w)'
          /\ (\A r \in Procs \ doubted : holds[r] # w) =>
                  \A r \in Procs \ doubted' : holds'[r] # w
      <4>1. ~AtWork(p, v)
        BY <3>0, <3>3
      <4>2. /\ CarriesPins(t, v) => CarriesPins(t, v)'
            /\ CarriesSession(t, v) => CarriesSession(t, v)'
            /\ (\A r \in Procs \ doubted : holds[r] # v) =>
                  \A r \in Procs \ doubted' : holds'[r] # v
        BY <4>1, CarriesOn
      <4> QED
        BY <2>1, <3>0, <4>2 DEF CarriesPins, CarriesSession
    <3> QED
      BY <2>1, <2>2, <3>2, <3>4, <3>5, <3>6 DEF Undisturbed, CarriesPins, CarriesSession
  <2> QED
    BY <2>4, <2>5
<1> QED
  BY <1>1, <1>2, <1>3 DEF RInv

\* A step that changes the job of p only.
LEMMA OwnStep ==
    ASSUME RInv, NEW works, NEW said, Note(works, said), mixed \subseteq works,
           NEW p \in Procs, Telling(p, said),
           NEW c \in {"idle", "scan"} \cup Hands, pc' = [pc EXCEPT ![p] = c],
           NEW k \in Job, job' = [job EXCEPT ![p] = k],
           file' \in [Works -> SpecText \cup {Torn, Garbled}],
           tmp' \in [Works -> SpecText \cup {Torn, Garbled, None}],
           \A w \in Works : ~AtWork(p, w) => file'[w] = file[w] /\ tmp'[w] = tmp[w],
           holds' \in [Procs -> Works \cup {None}],
           promised' \in [Beads -> Works \cup {None}],
           Equipped(p)', Undisturbed(p)',
           \A w \in Works : AtWork(p, w) /\ w \notin works => Honest(w)'
    PROVE  RInv'
<1>1. Local(p)
  BY DEF Local, RInv, ReportsTypeOK
<1>2. pc' \in [Procs -> {"idle", "scan"} \cup Hands] /\ job' \in [Procs -> Job]
  BY DEF RInv, ReportsTypeOK
<1> QED
  BY <1>1, <1>2, OverlapStep

\* A step that reports nothing.
LEMMA NothingSaid ==
    ASSUME NEW p \in Procs, UNCHANGED reports
    PROVE  Telling(p, {}) /\ (pc[p] # "write" => Said(p) = {})
<1>1. \A x : About(x)' = About(x)
  BY DEF About, reports
<1>2. pc[p] # "write" => Said(p) = {}
  BY DEF Said, reports
<1> QED
  BY <1>1, <1>2 DEF Telling

\* The file of the only command at it.
LEMMA OwnFile ==
    ASSUME RInv, NEW p \in Procs, NEW w \in Works, AtWork(p, w), w \notin mixed, pc[p] # "write"
    PROVE  Tells(w)
<1>1. ASSUME NEW q \in Procs, pc[q] = "write", job[q].work = w PROVE FALSE
  <2>1. AtWork(q, w)
    BY <1>1 DEF AtWork
  <2> QED
    BY <1>1, <2>1 DEF RInv, OneHand
<1> QED
  BY <1>1 DEF RInv, Honest

\* A step after which p is at no file, or is at one where others are too.
LEMMA StepAway ==
    ASSUME NEW p \in Procs, pc'[p] \notin Hands
    PROVE  Undisturbed(p)'
BY DEF Undisturbed

\* A kill: what p was writing in place is in doubt, the rest as it was.
LEMMA CrashReports ==
    ASSUME RInv, NEW p \in Procs, Crash(p), Note(mixed \cup CutShort(p), {})
    PROVE  RInv'
<1>1. /\ pc' = [pc EXCEPT ![p] = "idle"] /\ job' = [job EXCEPT ![p] = NoJob]
      /\ UNCHANGED <<file, tmp, reports>>
  BY DEF Crash, Exit
<1>2. pc'[p] = "idle"
  BY <1>1 DEF RInv, ReportsTypeOK
<1>3. Equipped(p)' /\ Undisturbed(p)'
  BY <1>2, StepAway DEF Equipped, Hands, Copying
<1>4. Telling(p, {})
  BY <1>1, NothingSaid
<1>5. ASSUME NEW w \in Works, AtWork(p, w), w \notin mixed \cup CutShort(p)
      PROVE  Honest(w)'
  <2>1. pc[p] # "write"
    BY <1>5 DEF CutShort, AtWork
  <2>2. Tells(w)
    BY <1>5, <2>1, OwnFile
  <2> DEFINE works == mixed \cup CutShort(p)
  <2>3. Note(works, {})
    OBVIOUS
  <2> HIDE DEF works
  <2>4. Tells(w)'
    BY <1>1, <1>4, <2>2, <2>3, CarriesOn
  <2> QED
    BY <2>4 DEF Honest
<1> DEFINE works == mixed \cup CutShort(p)
<1>6. Note(works, {}) /\ mixed \subseteq works
  OBVIOUS
<1>7. \A w \in Works : AtWork(p, w) /\ w \notin works => Honest(w)'
  BY <1>5
<1> HIDE DEF works
<1>8. /\ file' = file /\ tmp' = tmp /\ holds' = holds /\ promised' = promised
  BY <1>1 DEF reports
<1> QED
  BY <1>1, <1>3, <1>4, <1>6, <1>7, <1>8, NoJobOK, OwnStep DEF RInv, ReportsTypeOK

\* A step of p that touches no file and reports nothing, at c with the job k.
LEMMA QuietStep ==
    ASSUME RInv, NEW p \in Procs, Note(mixed, {}),
           NEW c \in {"idle", "scan"} \cup Hands, pc' = [pc EXCEPT ![p] = c],
           NEW k \in Job, job' = [job EXCEPT ![p] = k],
           pc[p] # "write", UNCHANGED <<file, tmp>>, Telling(p, {}),
           holds' \in [Procs -> Works \cup {None}],
           promised' \in [Beads -> Works \cup {None}],
           Equipped(p)', Undisturbed(p)'
    PROVE  RInv'
<1>1. ASSUME NEW w \in Works, AtWork(p, w), w \notin mixed PROVE Honest(w)'
  <2>1. Tells(w)
    BY <1>1, OwnFile
  <2>2. Tells(w)'
    BY <2>1, CarriesOn
  <2> QED
    BY <2>2 DEF Honest
<1> QED
  BY <1>1, OwnStep DEF RInv, ReportsTypeOK

\* The start of a rewrite: the text carries what the file tells.
LEMMA RewriteReports ==
    ASSUME RInv, NEW p \in Procs, NEW w \in Works, Note(mixed, {}), pc[p] = "idle",
           Readable(file[w]), NEW active \in Procs \cup {None},
           NEW kind \in {"resume", "shelve"},
           Rewrite(p, w, kind, [Decoded(file[w]) EXCEPT !.active = active]),
           kind = "resume" => active = p /\ Decoded(file[w]).active = None
    PROVE  RInv'
<1> DEFINE text == [Decoded(file[w]) EXCEPT !.active = active]
           k == [NoJob EXCEPT !.work = w, !.kind = kind, !.text = text]
<1>1. /\ Decoded(file[w]) \in SpecText
      /\ file[w] \in SpecText => Decoded(file[w]) = file[w]
  <2>1. file[w] \in SpecText \cup {Torn}
    BY DEF Readable, RInv, ReportsTypeOK
  <2>2. Fresh \in SpecText
    BY DEF Fresh, SpecText
  <2> QED
    BY <2>1, <2>2, Marks DEF Decoded
<1>2. text \in SpecText /\ text.pins = Decoded(file[w]).pins /\ text.active = active
  BY <1>1 DEF SpecText
<1> HIDE DEF text
<1>3. k \in Job /\ k.work = w /\ k.kind = kind /\ k.text = text
  BY <1>2 DEF NoJob, Job, Kinds, Openings
<1>4. /\ pc' = [pc EXCEPT ![p] = "truncate"] /\ job' = [job EXCEPT ![p] = k]
      /\ UNCHANGED <<file, tmp, reports>>
  BY DEF Rewrite, text
<1> HIDE DEF k
<1>5. pc'[p] = "truncate" /\ job'[p] = k
  BY <1>4 DEF RInv, ReportsTypeOK
<1>6. Telling(p, {})
  BY <1>4, NothingSaid
<1>7. Equipped(p)'
  BY <1>2, <1>3, <1>5 DEF Equipped, Copying
<1>8. Undisturbed(p)'
  <2> SUFFICES ASSUME w \notin mixed' PROVE Undisturbed(p)'
    BY <1>3, <1>5 DEF Undisturbed
  <2>1. AtWork(p, w)'
    BY <1>3, <1>5 DEF AtWork
  <2>2. w \notin mixed
    BY <2>1, NoteOK
  <2>3. Tells(w)
    <3>1. ASSUME NEW q \in Procs, pc[q] = "write", job[q].work = w PROVE FALSE
      <4>1. q # p
        BY <3>1
      <4>2. AtWork(q, w)'
        BY <1>4, <3>1, <4>1 DEF AtWork, RInv, ReportsTypeOK
      <4> QED
        BY <2>1, <4>1, <4>2, NoteOK DEF OneHand
    <3> QED
      BY <3>1 DEF RInv, Honest
  <2>4. Tells(w)'
    BY <1>4, <1>6, <2>3, CarriesOn
  <2>5. \A b \in Beads \ doubted' : promised'[b] = w => b \in text.pins
    BY <1>1, <1>2, <1>4, <2>4 DEF Tells
  <2>6. kind = "resume" => \A q \in Procs \ doubted' : holds'[q] # w
    BY <1>1, <1>4, <2>4, Marks DEF Tells
  <2> QED
    BY <1>2, <1>3, <1>5, <2>5, <2>6 DEF Undisturbed, CarriesPins, Copying
<1>9. holds' = holds /\ promised' = promised
  BY <1>4 DEF reports
<1> QED
  BY <1>3, <1>4, <1>6, <1>7, <1>8, <1>9, QuietStep DEF Hands, RInv, ReportsTypeOK

\* kerf resume, kerf shelve and kerf shelve --force begin.
LEMMA RewritesReports ==
    ASSUME RInv, NEW p \in Procs, NEW w \in Works, Note(mixed, {}),
           Resume(p, w) \/ Shelve(p, w) \/ ForceShelve(p, w)
    PROVE  RInv'
<1>1. CASE Resume(p, w)
  BY <1>1, RewriteReports DEF Resume, MayStart
<1>2. CASE Shelve(p, w)
  BY <1>2, RewriteReports DEF Shelve, MayStart
<1>3. CASE ForceShelve(p, w)
  BY <1>3, RewriteReports DEF ForceShelve, MayStart
<1> QED
  BY <1>1, <1>2, <1>3

\* kerf pin begins: what was reported of the bead is taken back.
LEMMA PinReports ==
    ASSUME RInv, NEW p \in Procs, NEW w \in Works, NEW b \in Beads, Note(mixed, {}), Pin(p, w, b)
    PROVE  RInv'
<1> DEFINE k == [NoJob EXCEPT !.target = w, !.bead = b, !.todo = Works \ {w}]
<1>1. /\ k \in Job /\ k.target = w /\ k.bead = b /\ k.todo = Works \ {w}
  BY DEF NoJob, Job, Kinds, Openings
<1>2. /\ pc' = [pc EXCEPT ![p] = "scan"] /\ job' = [job EXCEPT ![p] = k]
      /\ promised' = [promised EXCEPT ![b] = None] /\ UNCHANGED <<file, tmp, holds>>
      /\ pc[p] = "idle"
  BY DEF Pin, MayStart
<1> HIDE DEF k
<1>3. pc'[p] = "scan" /\ job'[p] = k /\ promised'[b] = None
  BY <1>2 DEF RInv, ReportsTypeOK
<1>4. Telling(p, {})
  BY <1>2 DEF Telling, About, RInv, ReportsTypeOK
<1>5. Equipped(p)' /\ Undisturbed(p)'
  BY <1>1, <1>3, StepAway DEF Equipped, Hands, Copying
<1>6. promised' \in [Beads -> Works \cup {None}]
  BY <1>2 DEF RInv, ReportsTypeOK
<1> QED
  BY <1>1, <1>2, <1>4, <1>5, <1>6, QuietStep DEF RInv, ReportsTypeOK

\* The text that replaces the one in the file stands in for it.
LEMMA TruncateReports ==
    ASSUME RInv, NEW p \in Procs, Truncate(p), Note(mixed, {})
    PROVE  RInv'
<1> DEFINE j == job[p]
           k == [j EXCEPT !.opened = "spec.yaml"]
<1>1. /\ pc[p] = "truncate" /\ pc' = [pc EXCEPT ![p] = "write"]
      /\ file' = [file EXCEPT ![j.work] = Torn] /\ job' = [job EXCEPT ![p] = k]
      /\ tmp' = tmp /\ UNCHANGED reports /\ j \in Job
      /\ Equipped(p) /\ Undisturbed(p)
  BY DEF Truncate, At, RInv, ReportsTypeOK
<1>2. /\ k \in Job /\ k.work = j.work /\ k.text = j.text /\ k.kind = j.kind
      /\ k.opened = "spec.yaml"
  BY <1>1 DEF Job, Openings
<1>3. PICK w \in Works : w = j.work
  BY <1>1 DEF Equipped, Hands
<1> HIDE DEF k
<1>4. pc'[p] = "write" /\ job'[p] = k /\ file'[w] = Torn
  BY <1>1, <1>3 DEF RInv, ReportsTypeOK
<1>5. Telling(p, {})
  BY <1>1, NothingSaid
<1>6. Equipped(p)'
  BY <1>1, <1>2, <1>4 DEF Equipped, Hands, Copying
<1>7. Undisturbed(p)'
  <2> SUFFICES ASSUME w \notin mixed' PROVE Undisturbed(p)'
    BY <1>2, <1>3, <1>4 DEF Undisturbed
  <2>0. AtWork(p, w)'
    BY <1>2, <1>3, <1>4 DEF AtWork
  <2>1. w \notin mixed
    BY <2>0, NoteOK
  <2>2. PICK t : t = j.text
    OBVIOUS
  <2>3. CarriesPins(t, w) /\ (j.kind = "resume" => /\ t.active = p
                                                   /\ \A q \in Procs \ doubted : holds[q] # w)
    BY <1>1, <1>3, <2>1, <2>2 DEF Undisturbed, Hands
  <2>4. /\ CarriesPins(t, w)'
        /\ j.kind = "resume" => \A q \in Procs \ doubted' : holds'[q] # w
    BY <1>5, <2>3, CarriesOn
  <2> QED
    BY <1>2, <1>3, <1>4, <2>2, <2>3, <2>4 DEF Undisturbed, CarriesPins, Copying
<1>8. \A v \in Works : AtWork(p, v) => Honest(v)'
  BY <1>2, <1>3, <1>4 DEF AtWork, Honest
<1>9. \A v \in Works : ~AtWork(p, v) => file'[v] = file[v] /\ tmp'[v] = tmp[v]
  BY <1>1 DEF AtWork, RInv, ReportsTypeOK
<1>10. /\ file' \in [Works -> SpecText \cup {Torn, Garbled}]
       /\ holds' = holds /\ promised' = promised
  BY <1>1 DEF RInv, ReportsTypeOK, reports
<1> QED
  BY <1>1, <1>2, <1>5, <1>6, <1>7, <1>8, <1>9, <1>10, OwnStep DEF Hands, RInv, ReportsTypeOK

\* The text lands, and the session is the one that was reported.
LEMMA WriteSpecReports ==
    ASSUME RInv, NEW p \in Procs, WriteSpec(p), Note(mixed, Said(p))
    PROVE  RInv'
<1> DEFINE j == job[p]
<1>1. /\ pc[p] = "write" /\ pc' = [pc EXCEPT ![p] = "idle"] /\ job' = [job EXCEPT ![p] = NoJob]
      /\ WriteOpened(p) /\ promised' = promised /\ j \in Job
      /\ holds' = IF j.kind = "resume" THEN [holds EXCEPT ![p] = j.work]
                  ELSE [q \in Procs |-> IF holds[q] = j.work THEN None ELSE holds[q]]
      /\ Equipped(p) /\ Undisturbed(p)
  BY DEF WriteSpec, Exit, RInv, ReportsTypeOK
<1>2. PICK w \in Works : w = j.work
  BY <1>1 DEF Equipped, Hands
<1>3. j.text \in SpecText /\ j.kind \in {"resume", "shelve"} /\ AtWork(p, w)
  BY <1>1, <1>2 DEF Equipped, AtWork
<1>4. /\ file' \in [Works -> SpecText \cup {Torn, Garbled}]
      /\ tmp' \in [Works -> SpecText \cup {Torn, Garbled, None}]
      /\ \A v \in Works : ~AtWork(p, v) => file'[v] = file[v] /\ tmp'[v] = tmp[v]
  <2>1. /\ \E t \in SpecText \cup {Garbled} : file' = [file EXCEPT ![w] = t] \/ file' = file
        /\ \E t \in SpecText \cup {Garbled} : tmp' = [tmp EXCEPT ![w] = t] \/ tmp' = tmp
    <3>1. \A old : Landed(old, j.text) \subseteq SpecText \cup {Garbled}
      BY <1>3 DEF Landed
    <3> QED
      BY <1>1, <1>2, <1>3, <3>1 DEF WriteOpened
  <2>2. \A v \in Works : ~AtWork(p, v) => v # w
    BY <1>3
  <2> QED
    BY <2>1, <2>2 DEF RInv, ReportsTypeOK
<1>5. holds' \in [Procs -> Works \cup {None}]
  BY <1>1, <1>2 DEF RInv, ReportsTypeOK
<1>6. Said(p) = IF j.kind = "resume" THEN {p} ELSE {}
  BY <1>1 DEF Said
<1>7. /\ j.kind = "resume" => holds'[p] = w
      /\ \A q \in Procs : q # p \/ j.kind # "resume" => holds'[q] \in {holds[q], None}
      /\ j.kind # "resume" => \A q \in Procs : holds'[q] # w
  BY <1>1, <1>2, Marks DEF RInv, ReportsTypeOK
<1>8. Telling(p, Said(p))
  BY <1>1, <1>3, <1>6, <1>7, Marks DEF Telling, About
<1>9. pc'[p] = "idle"
  BY <1>1 DEF RInv, ReportsTypeOK
<1>10. Equipped(p)' /\ Undisturbed(p)'
  BY <1>9, StepAway DEF Equipped, Hands, Copying
<1>11. ASSUME NEW v \in Works, AtWork(p, v), v \notin mixed PROVE Honest(v)'
  <2>1. v = w
    BY <1>2, <1>11 DEF AtWork
  <2>2. /\ CarriesPins(j.text, w) /\ file[w] = Torn /\ j.opened = "spec.yaml"
        /\ j.kind = "resume" => /\ j.text.active = p
                                /\ \A q \in Procs \ doubted : holds[q] # w
    BY <1>1, <1>2, <1>11, <2>1 DEF Undisturbed, Hands
  <2>3. file'[w] = j.text
    BY <1>1, <1>2, <2>2, LandedOK DEF WriteOpened, RInv, ReportsTypeOK
  <2>4. ASSUME NEW b \in Beads \ doubted', promised'[b] = w PROVE b \in file'[w].pins
    <3>1. About(b)' = w /\ b \notin Said(p)
      BY <1>6, <2>4, Marks DEF About
    <3>2. b \notin doubted /\ About(b) = w
      BY <1>8, <3>1, <2>4, ReportBefore
    <3>3. promised[b] = w
      BY <3>2, Marks DEF About
    <3> QED
      BY <2>2, <2>3, <3>2, <3>3 DEF CarriesPins
  <2>5. ASSUME NEW q \in Procs \ doubted', holds'[q] = w PROVE file'[w].active = q
    <3>1. j.kind = "resume"
      BY <1>7, <2>5
    <3>2. CASE q = p
      BY <2>2, <2>3, <3>1, <3>2
    <3>3. CASE q # p
      <4>1. About(q)' = w /\ q \notin Said(p)
        BY <1>6, <2>5, <3>3 DEF About
      <4>2. q \notin doubted /\ About(q) = w
        BY <1>8, <4>1, <2>5, ReportBefore
      <4> QED
        BY <2>2, <3>1, <4>2 DEF About
    <3> QED
      BY <3>2, <3>3
  <2>6. Tells(v)'
    BY <1>3, <2>1, <2>3, <2>4, <2>5 DEF Tells
  <2> QED
    BY <2>6 DEF Honest
<1>12. PICK said : said = Said(p)
  OBVIOUS
<1>13. Note(mixed, said) /\ Telling(p, said)
  BY <1>8, <1>12
<1> QED
  BY <1>1, <1>4, <1>5, <1>10, <1>11, <1>13, NoJobOK, OwnStep DEF RInv, ReportsTypeOK

\* A step of kerf pin between two files, or to the text of the next edit.
LEMMA ScanReports ==
    ASSUME RInv, NEW p \in Procs, ScanOther(p) \/ ScanDone(p), Note(mixed, {})
    PROVE  RInv'
<1> DEFINE j == job[p]
<1>1. /\ pc[p] = "scan" /\ j \in Job /\ Equipped(p) /\ UNCHANGED <<file, tmp, reports>>
      /\ j.bead \in Beads /\ j.target \in Works /\ j.target \notin j.todo
      /\ promised[j.bead] = None \/ j.bead \in doubted
      /\ j.todo \in SUBSET Works
  BY DEF ScanOther, ScanDone, At, RInv, ReportsTypeOK, Equipped, Job
<1>2. PICK c \in {"scan", "edit"}, k \in Job :
        /\ pc' = [pc EXCEPT ![p] = c] /\ job' = [job EXCEPT ![p] = k]
        /\ k.bead = j.bead /\ k.target = j.target /\ k.target \notin k.todo
        /\ c = "edit" => \/ k.kind = "remove" /\ k.work \in Works \ {k.target}
                         \/ k.kind = "add" /\ k.work = k.target
  <2>1. CASE ScanOther(p)
    <3> DEFINE o == First(j.todo)
               hit == Readable(file[o]) /\ j.bead \in Decoded(file[o]).pins
               k == [j EXCEPT !.todo = @ \ {o}, !.work = IF hit THEN o ELSE @,
                              !.kind = IF hit THEN "remove" ELSE @]
               c == IF hit THEN "edit" ELSE "scan"
    <3>1. o \in j.todo
      BY <1>1, <2>1, FirstOK DEF ScanOther
    <3>2. pc' = [pc EXCEPT ![p] = c] /\ job' = [job EXCEPT ![p] = k]
      BY <2>1 DEF ScanOther
    <3> HIDE DEF o, hit
    <3>3. /\ k \in Job /\ k.bead = j.bead /\ k.target = j.target /\ k.todo = j.todo \ {o}
          /\ hit => k.kind = "remove" /\ k.work = o
      BY <1>1, <3>1 DEF Job, Kinds
    <3>4. c \in {"scan", "edit"} /\ (c = "edit" => hit)
      OBVIOUS
    <3> HIDE DEF k, c
    <3> QED
      BY <1>1, <3>1, <3>2, <3>3, <3>4
  <2>2. CASE ScanDone(p)
    <3> DEFINE k == [j EXCEPT !.work = j.target, !.kind = "add"]
    <3>1. pc' = [pc EXCEPT ![p] = "edit"] /\ job' = [job EXCEPT ![p] = k]
      BY <2>2 DEF ScanDone, At
    <3>2. /\ k \in Job /\ k.bead = j.bead /\ k.target = j.target /\ k.todo = j.todo
          /\ k.kind = "add" /\ k.work = j.target
      BY <1>1 DEF Job, Kinds
    <3> HIDE DEF k
    <3> QED
      BY <1>1, <3>1, <3>2
  <2> QED
    BY <2>1, <2>2
<1>3. pc'[p] = c /\ job'[p] = k
  BY <1>2 DEF RInv, ReportsTypeOK
<1>4. Telling(p, {}) /\ holds' = holds /\ promised' = promised
  BY <1>1, NothingSaid DEF reports
<1>5. promised'[k.bead] = None \/ k.bead \in doubted'
  <2>1. PICK b \in Beads : b = k.bead /\ b = j.bead
    BY <1>1, <1>2
  <2>2. About(b)' = promised[b] /\ b \notin {}
    BY <1>4, Marks DEF About
  <2> QED
    BY <1>1, <1>4, <2>1, <2>2, NoteOK
<1>6. Equipped(p)'
  BY <1>1, <1>2, <1>3, <1>5 DEF Equipped, Hands, Copying
<1>7. Undisturbed(p)'
  BY <1>2, <1>3 DEF Undisturbed, Copying
<1> QED
  BY <1>1, <1>2, <1>4, <1>6, <1>7, QuietStep DEF Hands, RInv, ReportsTypeOK

\* The bead that is being pinned has no report that is not in doubt.
LEMMA BeadInHand ==
    ASSUME RInv, NEW works, NEW said, Note(works, said), NEW p \in Procs,
           pc[p] \notin {"idle", "truncate", "write"}, promised' = promised, said = {}
    PROVE  promised'[job[p].bead] = None \/ job[p].bead \in doubted'
<1>1. PICK b \in Beads : b = job[p].bead /\ (promised[b] = None \/ b \in doubted)
  BY DEF RInv, Equipped
<1>2. About(b)' = promised[b] /\ b \notin said
  BY Marks DEF About
<1> QED
  BY <1>1, <1>2, NoteOK

\* The edited copy is made.
LEMMA ReadForEditReports ==
    ASSUME RInv, NEW p \in Procs, ReadForEdit(p), Note(mixed, {})
    PROVE  RInv'
<1> DEFINE j == job[p]
           text == Edited(file[j.work], j.kind, j.bead)
           k == [j EXCEPT !.text = text]
<1>1. /\ pc[p] = "edit" /\ pc' = [pc EXCEPT ![p] = "opentmp"] /\ job' = [job EXCEPT ![p] = k]
      /\ file[j.work] \in SpecText /\ UNCHANGED <<file, tmp, reports>>
      /\ j \in Job /\ Equipped(p) /\ Undisturbed(p)
  BY DEF ReadForEdit, At, RInv, ReportsTypeOK
<1>2. PICK w \in Works, b \in Beads : w = j.work /\ b = j.bead /\ j.kind \in {"remove", "add", "touch"}
  BY <1>1 DEF Equipped, Hands
<1>3. /\ text \in SpecText /\ text.active = file[w].active
      /\ j.kind = "remove" => text.pins = file[w].pins \ {b}
      /\ j.kind = "add" => text.pins = file[w].pins \cup {b}
      /\ j.kind = "touch" => text = file[w]
  BY <1>1, <1>2, EditedOK
<1> HIDE DEF text
<1>4. /\ k \in Job /\ k.todo = j.todo /\ k.target = j.target /\ k.bead = j.bead
      /\ k.work = j.work /\ k.kind = j.kind /\ k.text = text
  BY <1>1, <1>3 DEF Job
<1> HIDE DEF k
<1>5. pc'[p] = "opentmp" /\ job'[p] = k /\ holds' = holds /\ promised' = promised
  BY <1>1 DEF RInv, ReportsTypeOK, reports
<1>6. Telling(p, {})
  BY <1>1, NothingSaid
<1>7. promised'[b] = None \/ b \in doubted'
  BY <1>1, <1>2, <1>5, BeadInHand
<1>8. Equipped(p)'
  BY <1>1, <1>2, <1>3, <1>4, <1>5, <1>7 DEF Equipped, Hands, Copying
<1>9. Undisturbed(p)'
  <2> SUFFICES ASSUME w \notin mixed' PROVE Undisturbed(p)'
    BY <1>2, <1>4, <1>5 DEF Undisturbed
  <2>0. AtWork(p, w)' /\ AtWork(p, w)
    BY <1>1, <1>2, <1>4, <1>5 DEF AtWork
  <2>1. w \notin mixed
    BY <2>0, NoteOK
  <2>2. Tells(w)
    BY <1>1, <2>0, <2>1, OwnFile
  <2>3. Tells(w)'
    BY <1>1, <1>6, <2>2, CarriesOn
  <2>4. \A x \in Beads \ doubted' : promised'[x] = w => x \in text.pins
    <3> SUFFICES ASSUME NEW x \in Beads \ doubted', promised'[x] = w PROVE x \in text.pins
      OBVIOUS
    <3>1. x \in file[w].pins /\ x # b
      BY <1>1, <1>7, <2>3, Marks DEF Tells
    <3> QED
      BY <1>2, <1>3, <3>1
  <2>5. \A q \in Procs \ doubted' : holds'[q] = w => text.active = q
    BY <1>1, <1>3, <2>3 DEF Tells
  <2>6. j.kind \in {"add", "touch"} /\ w = j.target => b \in text.pins
    BY <1>1, <1>2, <1>3, <2>1 DEF Undisturbed, Hands
  <2> QED
    BY <1>2, <1>4, <1>5, <2>4, <2>5, <2>6 DEF Undisturbed, CarriesPins, CarriesSession, Copying
<1> QED
  BY <1>1, <1>4, <1>5, <1>6, <1>8, <1>9, QuietStep DEF Hands, Copying, RInv, ReportsTypeOK

\* A step from one point of the copy to the next, with the same text.
LEMMA CopyStep ==
    ASSUME RInv, NEW p \in Procs, Note(mixed, {}), pc[p] \in Copying,
           NEW c \in {"writetmp", "rename"}, pc' = [pc EXCEPT ![p] = c],
           NEW opened \in Openings, job' = [job EXCEPT ![p] = [job[p] EXCEPT !.opened = opened]],
           UNCHANGED reports,
           file' \in [Works -> SpecText \cup {Torn, Garbled}],
           tmp' \in [Works -> SpecText \cup {Torn, Garbled, None}],
           \A w \in Works : ~AtWork(p, w) => file'[w] = file[w] /\ tmp'[w] = tmp[w],
           job[p].work \notin mixed =>
               /\ file'[job[p].work] = file[job[p].work]
               /\ c = "writetmp" => tmp'[job[p].work] = Torn /\ opened = "spec.yaml.tmp"
               /\ c = "rename" => tmp'[job[p].work] = job[p].text
    PROVE  RInv'
<1> DEFINE j == job[p]
           k == [j EXCEPT !.opened = opened]
<1>1. j \in Job /\ Equipped(p) /\ Undisturbed(p) /\ pc[p] \in Hands /\ pc[p] # "write"
  BY DEF RInv, ReportsTypeOK, Hands, Copying
<1>2. /\ k \in Job /\ k.todo = j.todo /\ k.target = j.target /\ k.bead = j.bead
      /\ k.work = j.work /\ k.kind = j.kind /\ k.text = j.text /\ k.opened = opened
  BY <1>1 DEF Job
<1>3. job' = [job EXCEPT ![p] = k]
  OBVIOUS
<1> HIDE DEF k
<1>4. pc'[p] = c /\ job'[p] = k /\ holds' = holds /\ promised' = promised
  BY <1>3 DEF RInv, ReportsTypeOK, reports
<1>5. PICK w \in Works, b \in Beads, t \in SpecText : w = j.work /\ b = j.bead /\ t = j.text
  BY <1>1 DEF Equipped, Copying
<1>6. Telling(p, {})
  BY NothingSaid
<1>7. promised'[b] = None \/ b \in doubted'
  BY <1>4, <1>5, BeadInHand DEF Copying
<1>8. Equipped(p)'
  BY <1>1, <1>2, <1>4, <1>5, <1>7 DEF Equipped, Hands, Copying
<1>9. AtWork(p, w) /\ AtWork(p, w)'
  BY <1>1, <1>2, <1>4, <1>5 DEF AtWork, Copying
<1>10. Undisturbed(p)'
  <2> SUFFICES ASSUME w \notin mixed' PROVE Undisturbed(p)'
    BY <1>2, <1>4, <1>5 DEF Undisturbed
  <2>1. w \notin mixed
    BY <1>9, NoteOK
  <2>2. /\ CarriesPins(t, w) /\ CarriesSession(t, w)
        /\ j.kind \in {"add", "touch"} /\ w = j.target => b \in t.pins
    BY <1>1, <1>5, <2>1 DEF Undisturbed
  <2>3. CarriesPins(t, w)' /\ CarriesSession(t, w)'
    BY <1>6, <2>2, CarriesOn
  <2> QED
    BY <1>2, <1>4, <1>5, <2>1, <2>2, <2>3 DEF Undisturbed, CarriesPins, CarriesSession, Copying
<1>11. ASSUME NEW v \in Works, AtWork(p, v), v \notin mixed PROVE Honest(v)'
  <2>1. Tells(v) /\ file'[v] = file[v]
    BY <1>1, <1>11, OwnFile DEF AtWork
  <2>2. Tells(v)'
    BY <1>6, <2>1, CarriesOn
  <2> QED
    BY <2>2 DEF Honest
<1>12. c \in {"idle", "scan"} \cup Hands /\ mixed \subseteq mixed
  BY DEF Hands, Copying
<1>13. /\ holds' \in [Procs -> Works \cup {None}]
       /\ promised' \in [Beads -> Works \cup {None}]
  BY <1>4 DEF RInv, ReportsTypeOK
<1> QED
  BY <1>2, <1>3, <1>6, <1>8, <1>10, <1>11, <1>12, <1>13, OwnStep

\* The temporary file is emptied.
LEMMA OpenTmpReports ==
    ASSUME RInv, NEW p \in Procs, OpenTmp(p), Note(mixed, {})
    PROVE  RInv'
<1> DEFINE w == job[p].work
<1>1. /\ pc[p] = "opentmp" /\ pc' = [pc EXCEPT ![p] = "writetmp"] /\ file' = file
      /\ tmp' = [tmp EXCEPT ![w] = Torn] /\ UNCHANGED reports
      /\ job' = [job EXCEPT ![p] = [job[p] EXCEPT !.opened = "spec.yaml.tmp"]]
  BY DEF OpenTmp, At
<1>2. w \in Works /\ AtWork(p, w)
  BY <1>1 DEF RInv, Equipped, AtWork, Hands, Copying
<1>3. /\ tmp'[w] = Torn /\ tmp' \in [Works -> SpecText \cup {Torn, Garbled, None}]
      /\ \A v \in Works : ~AtWork(p, v) => file'[v] = file[v] /\ tmp'[v] = tmp[v]
  BY <1>1, <1>2 DEF RInv, ReportsTypeOK
<1>4. /\ pc[p] \in Copying /\ "spec.yaml.tmp" \in Openings /\ file'[w] = file[w]
      /\ file' \in [Works -> SpecText \cup {Torn, Garbled}]
  BY <1>1 DEF Copying, Openings, RInv, ReportsTypeOK
<1> QED
  BY <1>1, <1>3, <1>4, CopyStep

\* The temporary file holds the edited copy.
LEMMA WriteTmpReports ==
    ASSUME RInv, NEW p \in Procs, WriteTmp(p), Note(mixed, Said(p))
    PROVE  RInv'
<1> DEFINE j == job[p]
<1>1. /\ pc[p] = "writetmp" /\ pc' = [pc EXCEPT ![p] = "rename"] /\ WriteOpened(p)
      /\ UNCHANGED reports /\ job' = [job EXCEPT ![p] = [job[p] EXCEPT !.opened = None]]
      /\ j \in Job /\ Equipped(p) /\ Undisturbed(p)
  BY DEF WriteTmp, At, RInv, ReportsTypeOK
<1>2. PICK w \in Works, t \in SpecText : w = j.work /\ t = j.text
  BY <1>1 DEF Equipped, Hands, Copying
<1>3. AtWork(p, w) /\ Note(mixed, {})
  <2>1. pc[p] # "write" /\ UNCHANGED reports
    BY <1>1
  <2>2. Said(p) = {}
    BY <2>1, NothingSaid
  <2>3. Note(mixed, {})
    BY <2>2
  <2> QED
    BY <1>1, <1>2, <2>3 DEF AtWork
<1>4. /\ \E x \in SpecText \cup {Garbled} : file' = [file EXCEPT ![w] = x] \/ file' = file
      /\ \E x \in SpecText \cup {Garbled} : tmp' = [tmp EXCEPT ![w] = x] \/ tmp' = tmp
  <2>1. \A old : Landed(old, j.text) \subseteq SpecText \cup {Garbled}
    BY <1>2 DEF Landed
  <2> QED
    BY <1>1, <1>2, <2>1 DEF WriteOpened
<1>5. \A v \in Works : ~AtWork(p, v) => v # w
  BY <1>3
<1>6. /\ file' \in [Works -> SpecText \cup {Torn, Garbled}]
      /\ tmp' \in [Works -> SpecText \cup {Torn, Garbled, None}]
      /\ \A v \in Works : ~AtWork(p, v) => file'[v] = file[v] /\ tmp'[v] = tmp[v]
  BY <1>4, <1>5 DEF RInv, ReportsTypeOK
<1>7. w \notin mixed => file'[w] = file[w] /\ tmp'[w] = t
  <2> SUFFICES ASSUME w \notin mixed PROVE file'[w] = file[w] /\ tmp'[w] = t
    OBVIOUS
  <2>1. tmp[w] = Torn /\ j.opened = "spec.yaml.tmp"
    BY <1>1, <1>2 DEF Undisturbed, Hands, Copying
  <2>2. tmp' = [tmp EXCEPT ![w] = t] /\ file' = file
    BY <1>1, <1>2, <2>1, LandedOK DEF WriteOpened
  <2> QED
    BY <2>2 DEF RInv, ReportsTypeOK
<1>8. pc[p] \in Copying /\ None \in Openings
  BY <1>1 DEF Copying, Openings
<1> QED
  BY <1>1, <1>2, <1>3, <1>6, <1>7, <1>8, CopyStep

\* kerf pin gives up: the file cannot be read, or the temporary file is gone.
LEMMA GivesUpReports ==
    ASSUME RInv, NEW p \in Procs, RenameFails(p) \/ EditFails(p), Note(mixed, {})
    PROVE  RInv'
<1> DEFINE j == job[p]
<1>1. /\ Equipped(p) /\ Undisturbed(p) /\ j \in Job /\ UNCHANGED <<file, tmp, reports>>
      /\ pc[p] \in {"edit", "rename"}
  BY DEF RInv, ReportsTypeOK, RenameFails, EditFails, At
<1>2. Telling(p, {}) /\ holds' = holds /\ promised' = promised
  BY <1>1, NothingSaid DEF reports
<1>3. CASE EditFails(p)
  <2>1. pc' = [pc EXCEPT ![p] = "idle"] /\ job' = [job EXCEPT ![p] = NoJob]
    BY <1>3 DEF EditFails, Exit
  <2>2. pc'[p] = "idle"
    BY <2>1 DEF RInv, ReportsTypeOK
  <2>3. Equipped(p)' /\ Undisturbed(p)'
    BY <2>2, StepAway DEF Equipped, Hands, Copying
  <2> QED
    BY <1>1, <1>2, <2>1, <2>3, NoJobOK, QuietStep DEF RInv, ReportsTypeOK
<1>4. CASE RenameFails(p)
  <2>1. /\ pc[p] = "rename" /\ pc' = [pc EXCEPT ![p] = "removetmp"]
        /\ job' = [job EXCEPT ![p] = j] /\ tmp[j.work] = None
    BY <1>4 DEF RenameFails, At, RInv, ReportsTypeOK
  <2>2. pc'[p] = "removetmp" /\ job'[p] = j
    BY <2>1 DEF RInv, ReportsTypeOK
  <2>3. PICK w \in Works, b \in Beads, t \in SpecText : w = j.work /\ b = j.bead /\ t = j.text
    BY <1>1, <2>1 DEF Equipped, Hands, Copying
  <2>4. w \in mixed
    BY <1>1, <2>1, <2>3, Marks DEF Undisturbed, Hands, Copying
  <2>5. AtWork(p, w)'
    BY <2>2, <2>3 DEF AtWork
  <2>6. w \in mixed'
    BY <2>4, <2>5, NoteOK
  <2>7. Undisturbed(p)'
    BY <2>2, <2>3, <2>6 DEF Undisturbed
  <2>8. promised'[b] = None \/ b \in doubted'
    BY <1>2, <2>1, <2>3, BeadInHand
  <2>9. Equipped(p)'
    BY <1>1, <2>1, <2>2, <2>3, <2>8 DEF Equipped, Hands, Copying
  <2>10. "removetmp" \in Hands /\ pc[p] # "write"
    BY <2>1 DEF Hands
  <2> QED
    BY <1>1, <1>2, <2>1, <2>7, <2>9, <2>10, QuietStep DEF RInv, ReportsTypeOK
<1> QED
  BY <1>3, <1>4

\* The temporary file of somebody else is removed.
LEMMA RemoveTmpReports ==
    ASSUME RInv, NEW p \in Procs, RemoveTmp(p), Note(mixed, {})
    PROVE  RInv'
<1> DEFINE j == job[p]
<1>1. /\ pc[p] = "removetmp" /\ pc' = [pc EXCEPT ![p] = "idle"] /\ UNCHANGED <<file, reports>>
      /\ tmp' = [tmp EXCEPT ![j.work] = None]
      /\ job' = [q \in Procs |->
                   IF q = p THEN NoJob
                   ELSE IF job[q].work = j.work /\ job[q].opened = "spec.yaml.tmp"
                   THEN [job[q] EXCEPT !.opened = "replaced"]
                   ELSE job[q]]
      /\ Equipped(p) /\ Undisturbed(p)
  BY DEF RemoveTmp, RInv
<1>2. PICK w \in Works : w = j.work
  BY <1>1 DEF Equipped, Hands
<1>3. w \in mixed
  BY <1>1, <1>2 DEF Undisturbed, Hands
<1>4. \A v \in Works : AtWork(p, v) <=> v = w
  BY <1>1, <1>2 DEF AtWork
<1>5. /\ job' \in [Procs -> Job] /\ pc' \in [Procs -> {"idle", "scan"} \cup Hands]
      /\ tmp' \in [Works -> SpecText \cup {Torn, Garbled, None}]
      /\ \A v \in Works : v # w => tmp'[v] = tmp[v]
  <2>1. ASSUME NEW q \in Procs PROVE [job[q] EXCEPT !.opened = "replaced"] \in Job
    BY DEF RInv, ReportsTypeOK, Job, Openings
  <2>2. ASSUME NEW q \in Procs PROVE job[q] \in Job
    BY DEF RInv, ReportsTypeOK
  <2>3. job' \in [Procs -> Job]
    BY <1>1, <2>1, <2>2, NoJobOK
  <2>4. pc' \in [Procs -> {"idle", "scan"} \cup Hands]
    BY <1>1 DEF RInv, ReportsTypeOK
  <2>5. /\ tmp' \in [Works -> SpecText \cup {Torn, Garbled, None}]
        /\ \A v \in Works : v # w => tmp'[v] = tmp[v]
    BY <1>1, <1>2 DEF RInv, ReportsTypeOK
  <2> QED
    BY <2>3, <2>4, <2>5
<1>6. Local(p)
  <2>1. ASSUME NEW q \in Procs \ {p}
        PROVE  /\ pc'[q] = pc[q]
               /\ job'[q].work = job[q].work /\ job'[q].text = job[q].text
               /\ job'[q].kind = job[q].kind /\ job'[q].bead = job[q].bead
               /\ job'[q].target = job[q].target /\ job'[q].todo = job[q].todo
               /\ ~AtWork(p, job[q].work) => job'[q].opened = job[q].opened
    <3>1. job[q] \in Job /\ pc'[q] = pc[q]
      BY <1>1 DEF RInv, ReportsTypeOK
    <3>2. CASE job[q].work = j.work /\ job[q].opened = "spec.yaml.tmp"
      <4>1. job'[q] = [job[q] EXCEPT !.opened = "replaced"] /\ AtWork(p, job[q].work)
        BY <1>1, <1>2, <1>4, <3>2
      <4> QED
        BY <3>1, <4>1 DEF Job
    <3>3. CASE ~(job[q].work = j.work /\ job[q].opened = "spec.yaml.tmp")
      <4>1. job'[q] = job[q]
        BY <1>1, <3>3
      <4> QED
        BY <3>1, <4>1
    <3> QED
      BY <3>2, <3>3
  <2>2. \A v \in Works : ~AtWork(p, v) => file'[v] = file[v] /\ tmp'[v] = tmp[v]
    BY <1>1, <1>4, <1>5
  <2> QED
    BY <2>1, <2>2 DEF Local
<1>7. pc'[p] = "idle" /\ holds' = holds /\ promised' = promised
  BY <1>1 DEF RInv, ReportsTypeOK, reports
<1>8. Equipped(p)' /\ Undisturbed(p)'
  BY <1>7, StepAway DEF Equipped, Hands, Copying
<1>9. Telling(p, {}) /\ \A v \in Works : AtWork(p, v) /\ v \notin mixed => Honest(v)'
  BY <1>1, <1>3, <1>4, NothingSaid
<1> QED
  BY <1>1, <1>5, <1>6, <1>7, <1>8, <1>9, OverlapStep DEF RInv, ReportsTypeOK

\* Where a command goes on after an edit, with the open files of all.
LEMMA FollowUpShape ==
    ASSUME RInv, NEW p \in Procs, NEW opened, FollowUp(p, opened),
           \A q \in Procs : opened[q] \in Openings,
           pc[p] \in {"edit", "rename"}
    PROVE  LET j == job[p] IN
           /\ pc' \in [Procs -> {"idle", "scan"} \cup Hands] /\ job' \in [Procs -> Job]
           /\ \A q \in Procs \ {p} :
                /\ pc'[q] = pc[q] /\ job'[q].opened = opened[q]
                /\ job'[q].work = job[q].work /\ job'[q].text = job[q].text
                /\ job'[q].kind = job[q].kind /\ job'[q].bead = job[q].bead
                /\ job'[q].target = job[q].target /\ job'[q].todo = job[q].todo
           /\ \/ /\ j.kind \in {"remove", "add"}
                 /\ pc'[p] = "edit" /\ promised' = promised
                 /\ job'[p].kind = "touch" /\ job'[p].work = j.work
                 /\ job'[p].target = j.target /\ job'[p].bead = j.bead
                 /\ job'[p].todo = j.todo
              \/ /\ j.kind = "touch" /\ j.work # j.target
                 /\ pc'[p] = "scan" /\ promised' = promised
                 /\ job'[p].target = j.target /\ job'[p].bead = j.bead
                 /\ job'[p].todo = j.todo
              \/ /\ j.kind = "touch" /\ j.work = j.target
                 /\ pc'[p] = "idle"
                 /\ promised' = [promised EXCEPT ![j.bead] = j.target]
<1> DEFINE j == job[p]
           jobs == [q \in Procs |-> [job[q] EXCEPT !.opened = opened[q]]]
<1>1. /\ j \in Job /\ j.kind \in {"remove", "add", "touch"} /\ job \in [Procs -> Job]
      /\ pc \in [Procs -> {"idle", "scan"} \cup Hands]
  BY DEF RInv, ReportsTypeOK, Equipped, Copying
<1>2. \A q \in Procs :
        /\ jobs[q] \in Job /\ jobs[q].opened = opened[q]
        /\ jobs[q].work = job[q].work /\ jobs[q].text = job[q].text
        /\ jobs[q].kind = job[q].kind /\ jobs[q].bead = job[q].bead
        /\ jobs[q].target = job[q].target /\ jobs[q].todo = job[q].todo
  BY <1>1 DEF Job
<1>3. jobs \in [Procs -> Job]
  BY <1>2
<1>4. CASE j.kind \in {"remove", "add"}
  <2> DEFINE k == [jobs[p] EXCEPT !.kind = "touch"]
  <2>1. /\ pc' = [pc EXCEPT ![p] = "edit"] /\ promised' = promised
        /\ job' = [jobs EXCEPT ![p] = k]
    BY <1>4 DEF FollowUp
  <2>2. /\ k \in Job /\ k.kind = "touch" /\ k.work = jobs[p].work /\ k.bead = jobs[p].bead
        /\ k.target = jobs[p].target /\ k.todo = jobs[p].todo
    BY <1>2 DEF Job, Kinds
  <2> HIDE DEF k, jobs
  <2> QED
    BY <1>1, <1>2, <1>3, <1>4, <2>1, <2>2 DEF Hands
<1>5. CASE j.kind = "touch" /\ j.work # j.target
  <2>1. /\ pc' = [pc EXCEPT ![p] = "scan"] /\ promised' = promised /\ job' = jobs
    BY <1>5 DEF FollowUp
  <2> HIDE DEF jobs
  <2> QED
    BY <1>1, <1>2, <1>3, <1>5, <2>1
<1>6. CASE j.kind = "touch" /\ j.work = j.target
  <2>1. /\ pc' = [pc EXCEPT ![p] = "idle"] /\ job' = [jobs EXCEPT ![p] = NoJob]
        /\ promised' = [promised EXCEPT ![j.bead] = j.target]
    BY <1>6 DEF FollowUp
  <2> HIDE DEF jobs
  <2> QED
    BY <1>1, <1>2, <1>3, <1>6, <2>1, NoJobOK
<1> QED
  BY <1>1, <1>4, <1>5, <1>6

\* An edit that is in the file, by a rename or because it changes nothing.
LEMMA EditReports ==
    ASSUME RInv, NEW p \in Procs, pc[p] \in {"edit", "rename"}, Note(mixed, Said(p)),
           NEW opened, FollowUp(p, opened),
           \A q \in Procs : opened[q] \in Openings,
           \A q \in Procs \ {p} : job[q].work # job[p].work => opened[q] = job[q].opened,
           NEW text, file' = [file EXCEPT ![job[p].work] = text],
           text \in SpecText \cup {Torn, Garbled},
           tmp' \in [Works -> SpecText \cup {Torn, Garbled, None}],
           \A w \in Works : w # job[p].work => tmp'[w] = tmp[w],
           holds' = holds,
           job[p].work \notin mixed =>
               /\ text \in SpecText
               /\ \A b \in Beads \ doubted :
                    promised[b] = job[p].work /\ b # job[p].bead => b \in text.pins
               /\ CarriesSession(text, job[p].work)
               /\ job[p].kind \in {"add", "touch"} /\ job[p].work = job[p].target =>
                    job[p].bead \in text.pins
    PROVE  RInv'
<1> DEFINE j == job[p]
<1>1. /\ Equipped(p) /\ j \in Job /\ pc[p] \in Hands /\ pc[p] # "write"
      /\ pc[p] \notin {"idle", "truncate", "write"}
  BY DEF RInv, ReportsTypeOK, Hands, Copying
<1>2. PICK w \in Works, b \in Beads :
        /\ w = j.work /\ b = j.bead /\ j.target \in Works /\ j.target \notin j.todo
        /\ promised[b] = None \/ b \in doubted
        /\ j.kind \in {"remove", "add", "touch"}
        /\ j.kind = "remove" => w # j.target
        /\ j.kind = "add" => w = j.target
  BY <1>1 DEF Equipped, Copying
<1>3. \A v \in Works : AtWork(p, v) <=> v = w
  BY <1>1, <1>2 DEF AtWork, Hands
<1>4. /\ pc' \in [Procs -> {"idle", "scan"} \cup Hands] /\ job' \in [Procs -> Job]
      /\ \A q \in Procs \ {p} :
                /\ pc'[q] = pc[q] /\ job'[q].opened = opened[q]
                /\ job'[q].work = job[q].work /\ job'[q].text = job[q].text
                /\ job'[q].kind = job[q].kind /\ job'[q].bead = job[q].bead
                /\ job'[q].target = job[q].target /\ job'[q].todo = job[q].todo
      /\ \/ /\ j.kind \in {"remove", "add"}
            /\ pc'[p] = "edit" /\ promised' = promised
            /\ job'[p].kind = "touch" /\ job'[p].work = w
            /\ job'[p].target = j.target /\ job'[p].bead = b
            /\ job'[p].todo = j.todo
         \/ /\ j.kind = "touch" /\ w # j.target
            /\ pc'[p] = "scan" /\ promised' = promised
            /\ job'[p].target = j.target /\ job'[p].bead = b
            /\ job'[p].todo = j.todo
         \/ /\ j.kind = "touch" /\ w = j.target
            /\ pc'[p] = "idle"
            /\ promised' = [promised EXCEPT ![b] = w]
  BY <1>2, FollowUpShape
<1>5. /\ file' \in [Works -> SpecText \cup {Torn, Garbled}] /\ file'[w] = text
      /\ \A v \in Works : v # w => file'[v] = file[v]
  BY <1>2 DEF RInv, ReportsTypeOK
<1>6. Local(p)
  <2>1. ASSUME NEW q \in Procs \ {p}, ~AtWork(p, job[q].work)
        PROVE  job'[q].opened = job[q].opened
    <3>1. job[q].work # w
      BY <1>3, <2>1
    <3> QED
      BY <1>2, <1>4, <3>1
  <2> QED
    BY <1>2, <1>3, <1>4, <1>5, <2>1 DEF Local
<1>7. promised' \in [Beads -> Works \cup {None}]
  BY <1>4 DEF RInv, ReportsTypeOK
<1>8. Said(p) = {x \in Beads : promised'[x] # promised[x]}
  BY <1>1 DEF Said
<1>9. \A x \in Beads : promised'[x] # promised[x] => x = b /\ promised'[x] = w
  BY <1>4 DEF RInv, ReportsTypeOK
<1>10. Telling(p, Said(p))
  BY <1>2, <1>3, <1>8, <1>9, Marks DEF Telling, About
<1>11. promised' = promised => promised'[b] = None \/ b \in doubted'
  <2> SUFFICES ASSUME promised' = promised PROVE promised'[b] = None \/ b \in doubted'
    OBVIOUS
  <2>1. Said(p) = {} /\ About(b)' = promised[b]
    BY <1>8, Marks DEF About
  <2> QED
    BY <1>2, <2>1, NoteOK
<1>12. Equipped(p)'
  <2>1. CASE pc'[p] = "edit"
    BY <1>2, <1>4, <1>11, <2>1 DEF Equipped, Copying
  <2>2. CASE pc'[p] = "scan"
    BY <1>2, <1>4, <1>11, <2>2 DEF Equipped, Copying, Hands
  <2>3. CASE pc'[p] = "idle"
    BY <2>3 DEF Equipped, Copying, Hands
  <2> QED
    BY <1>4, <2>1, <2>2, <2>3
<1>13. Undisturbed(p)'
  <2>1. CASE pc'[p] # "edit"
    BY <1>4, <2>1 DEF Undisturbed, Hands, Copying
  <2>2. CASE pc'[p] = "edit"
    <3> SUFFICES ASSUME w \notin mixed' PROVE Undisturbed(p)'
      BY <1>4, <2>2 DEF Undisturbed
    <3>1. AtWork(p, w)'
      BY <1>4, <2>2 DEF AtWork
    <3>2. w \notin mixed
      BY <3>1, <1>3, NoteOK
    <3>3. text \in SpecText /\ (j.kind = "add" /\ w = j.target => b \in text.pins)
      BY <1>2, <3>2
    <3> QED
      BY <1>2, <1>4, <1>5, <2>2, <3>3 DEF Undisturbed, Copying
  <2> QED
    BY <2>1, <2>2
<1>14. ASSUME NEW v \in Works, AtWork(p, v), v \notin mixed PROVE Honest(v)'
  <2>1. v = w
    BY <1>3, <1>14
  <2>2. /\ text \in SpecText /\ CarriesSession(text, w)
        /\ \A x \in Beads \ doubted : promised[x] = w /\ x # b => x \in text.pins
        /\ j.kind \in {"add", "touch"} /\ w = j.target => b \in text.pins
    BY <1>2, <1>14, <2>1
  <2>3. ASSUME NEW x \in Beads \ doubted', promised'[x] = w PROVE x \in text.pins
    <3>1. CASE promised'[x] = promised[x]
      <4>1. x \notin Said(p) /\ About(x)' = w
        BY <1>8, <2>3, <3>1, Marks DEF About
      <4>2. x \notin doubted
        BY <1>10, <2>3, <4>1, ReportBefore
      <4>3. x # b
        BY <1>2, <2>3, <3>1, <4>2, Marks
      <4> QED
        BY <2>2, <2>3, <3>1, <4>2, <4>3
    <3>2. CASE promised'[x] # promised[x]
      <4>1. x = b /\ j.kind = "touch" /\ w = j.target
        BY <1>4, <1>9, <3>2
      <4> QED
        BY <2>2, <4>1
    <3> QED
      BY <3>1, <3>2
  <2>4. ASSUME NEW q \in Procs \ doubted', holds'[q] = w PROVE text.active = q
    <3>1. About(q)' = w /\ q \notin Said(p)
      BY <1>8, <2>4, Marks DEF About
    <3>2. q \notin doubted /\ holds[q] = w
      BY <1>10, <2>4, <3>1, ReportBefore
    <3> QED
      BY <2>2, <3>2 DEF CarriesSession
  <2>5. Tells(v)'
    BY <1>5, <2>1, <2>2, <2>3, <2>4 DEF Tells
  <2> QED
    BY <2>5 DEF Honest
<1>15. PICK said : said = Said(p)
  OBVIOUS
<1>16. Note(mixed, said) /\ Telling(p, said)
  BY <1>10, <1>15
<1> QED
  BY <1>4, <1>5, <1>6, <1>7, <1>12, <1>13, <1>14, <1>16, OverlapStep DEF RInv, ReportsTypeOK

\* An edit that changes nothing counts as made.
LEMMA SkipEditReports ==
    ASSUME RInv, NEW p \in Procs, SkipEdit(p), Note(mixed, Said(p))
    PROVE  RInv'
<1> DEFINE j == job[p]
           opened == [q \in Procs |-> job[q].opened]
<1>1. /\ pc[p] = "edit" /\ j.kind # "touch" /\ file[j.work] \in SpecText
      /\ Edited(file[j.work], j.kind, j.bead) = file[j.work]
      /\ FollowUp(p, opened) /\ UNCHANGED <<file, tmp, holds>>
      /\ j \in Job /\ Equipped(p)
  BY DEF SkipEdit, RInv, ReportsTypeOK
<1>2. PICK w \in Works, b \in Beads :
        w = j.work /\ b = j.bead /\ j.kind \in {"remove", "add", "touch"}
  BY <1>1 DEF Equipped, Hands
<1>3. \A q \in Procs : opened[q] \in Openings
  BY DEF RInv, ReportsTypeOK, Job
<1>4. PICK text : text = file[w]
  OBVIOUS
<1>5. file' = [file EXCEPT ![w] = text] /\ text \in SpecText
  BY <1>1, <1>2, <1>4 DEF RInv, ReportsTypeOK
<1>6. ASSUME w \notin mixed
      PROVE  /\ \A x \in Beads \ doubted : promised[x] = w => x \in text.pins
             /\ CarriesSession(text, w)
             /\ j.kind \in {"add", "touch"} => b \in text.pins
  <2>1. AtWork(p, w)
    BY <1>1, <1>2 DEF AtWork
  <2>2. Tells(w)
    BY <1>1, <1>6, <2>1, OwnFile
  <2>3. j.kind = "add" => b \in text.pins
    BY <1>1, <1>2, <1>4, EditedOK
  <2> QED
    BY <1>1, <1>4, <2>2, <2>3 DEF Tells, CarriesSession
<1>7. /\ tmp' \in [Works -> SpecText \cup {Torn, Garbled, None}]
      /\ \A v \in Works : tmp'[v] = tmp[v]
  BY <1>1 DEF RInv, ReportsTypeOK
<1>8. \A q \in Procs \ {p} : job[q].work # j.work => opened[q] = job[q].opened
  OBVIOUS
<1> HIDE DEF opened
<1> QED
  BY <1>1, <1>2, <1>3, <1>5, <1>6, <1>7, <1>8, EditReports

\* The rename puts the edited copy in the place of the file.
LEMMA RenameReports ==
    ASSUME RInv, NEW p \in Procs, Rename(p), Note(mixed, Said(p))
    PROVE  RInv'
<1> DEFINE j == job[p]
           opened == Moved(j.work)
<1>1. /\ pc[p] = "rename" /\ tmp[j.work] # None
      /\ file' = [file EXCEPT ![j.work] = tmp[j.work]]
      /\ tmp' = [tmp EXCEPT ![j.work] = None]
      /\ FollowUp(p, opened) /\ holds' = holds
      /\ j \in Job /\ Equipped(p) /\ Undisturbed(p)
  BY DEF Rename, RInv, ReportsTypeOK
<1>2. PICK w \in Works, b \in Beads : w = j.work /\ b = j.bead /\ j.text \in SpecText
  BY <1>1 DEF Equipped, Hands, Copying
<1>3. /\ \A q \in Procs : opened[q] \in Openings
      /\ \A q \in Procs \ {p} : job[q].work # j.work => opened[q] = job[q].opened
  BY DEF Moved, Openings, RInv, ReportsTypeOK, Job
<1>4. PICK text : text = tmp[w]
  OBVIOUS
<1>5. /\ file' = [file EXCEPT ![w] = text] /\ text \in SpecText \cup {Torn, Garbled}
  BY <1>1, <1>2, <1>4 DEF RInv, ReportsTypeOK
<1>6. ASSUME w \notin mixed
      PROVE  /\ text \in SpecText
             /\ \A x \in Beads \ doubted : promised[x] = w => x \in text.pins
             /\ CarriesSession(text, w)
             /\ j.kind \in {"add", "touch"} /\ w = j.target => b \in text.pins
  <2>1. /\ tmp[w] = j.text /\ CarriesPins(j.text, w) /\ CarriesSession(j.text, w)
        /\ j.kind \in {"add", "touch"} /\ w = j.target => b \in j.text.pins
    BY <1>1, <1>2, <1>6 DEF Undisturbed, Hands, Copying
  <2> QED
    BY <1>2, <1>4, <2>1 DEF CarriesPins, CarriesSession
<1>7. /\ tmp' \in [Works -> SpecText \cup {Torn, Garbled, None}]
      /\ \A v \in Works : v # w => tmp'[v] = tmp[v]
  BY <1>1, <1>2 DEF RInv, ReportsTypeOK
<1> HIDE DEF opened
<1> QED
  BY <1>1, <1>2, <1>3, <1>5, <1>6, <1>7, EditReports

----------------------------------------------------------------------------
(* The invariance under every overlap *)

\* Nothing was reported, and nobody runs.
LEMMA InitReports == ReportsInit => RInv
<1> SUFFICES ASSUME ReportsInit PROVE RInv
  OBVIOUS
<1>1. Fresh \in SpecText
  BY DEF Fresh, SpecText
<1>2. ReportsTypeOK
  BY <1>1, NoJobOK DEF ReportsInit, Init, ReportsTypeOK
<1>3. \A w \in Works : Honest(w)
  BY Marks DEF ReportsInit, Init, Honest, Tells
<1> QED
  BY <1>2, <1>3 DEF ReportsInit, Init, RInv, OneHand, AtWork, Equipped, Undisturbed, Hands, Copying

\* The start of a command.
LEMMA StartReports ==
    ASSUME RInv, NEW p \in Procs, Start(p), Note(mixed, {})
    PROVE  RInv'
<1>1. PICK w \in Works : Resume(p, w) \/ Shelve(p, w) \/ ForceShelve(p, w) \/ \E b \in Beads : Pin(p, w, b)
  BY DEF Start
<1> QED
  BY <1>1, RewritesReports, PinReports

\* Every step of a command.
LEMMA StepReports ==
    ASSUME RInv, NEW p \in Procs, Step(p), Note(mixed, Said(p))
    PROVE  RInv'
<1>1. CASE \/ Truncate(p) \/ ScanOther(p) \/ ScanDone(p) \/ ReadForEdit(p) \/ OpenTmp(p)
           \/ RenameFails(p) \/ RemoveTmp(p) \/ EditFails(p)
  <2>1. pc[p] # "write" /\ UNCHANGED reports
    BY <1>1 DEF Truncate, ScanOther, ScanDone, ReadForEdit, OpenTmp, RenameFails, RemoveTmp,
       EditFails, At
  <2>2. Note(mixed, {})
    BY <2>1, NothingSaid
  <2> QED
    BY <1>1, <2>2, TruncateReports, ScanReports, ReadForEditReports, OpenTmpReports,
       GivesUpReports, RemoveTmpReports
<1>2. CASE WriteSpec(p) \/ SkipEdit(p) \/ WriteTmp(p) \/ Rename(p)
  BY <1>2, WriteSpecReports, SkipEditReports, WriteTmpReports, RenameReports
<1> QED
  BY <1>1, <1>2 DEF Step

\* Every step keeps the invariant.
LEMMA NextReports == RInv /\ [ReportsNext]_reportVars => RInv'
<1> SUFFICES ASSUME RInv, [ReportsNext]_reportVars PROVE RInv'
  OBVIOUS
<1>1. CASE ReportsNext
  BY <1>1, StartReports, StepReports, CrashReports DEF ReportsNext
<1>2. CASE UNCHANGED reportVars
  BY <1>2 DEF reportVars, vars, RInv, ReportsTypeOK, OneHand, AtWork, Equipped, Undisturbed,
     CarriesPins, CarriesSession, Honest, Tells
<1> QED
  BY <1>1, <1>2

(***************************************************************************)
(* The property ReportsHold, for any number of commands that overlap and   *)
(* are killed in any way: what was reported about a spec.yaml is undone    *)
(* only by two commands that were at that spec.yaml at once, by two pins   *)
(* of one bead, or by the kill of a rewrite in place.                      *)
(***************************************************************************)
THEOREM DamageIsLocal == ReportsSpec => []ReportsHold
<1>1. RInv => ReportsHold
  <2> SUFFICES ASSUME RInv, NEW x \in (Procs \cup Beads) \ doubted, About(x) # None,
                      ~ \E p \in Procs : pc[p] = "write" /\ job[p].work = About(x)
               PROVE  /\ file[About(x)] \in SpecText
                      /\ IF x \in Procs THEN file[About(x)].active = x
                         ELSE x \in file[About(x)].pins
    BY DEF ReportsHold
  <2>1. About(x) \in Works
    BY Marks DEF About, RInv, ReportsTypeOK
  <2>2. Tells(About(x))
    BY <2>1 DEF RInv, Honest
  <2> QED
    BY <2>2 DEF Tells, About
<1> QED
  BY <1>1, InitReports, NextReports, PTL DEF ReportsSpec
==============================================================================
