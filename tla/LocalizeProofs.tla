--------------------------- MODULE LocalizeProofs ---------------------------
(***************************************************************************)
(* Where the works of a project are while kerf localize, its roll-backs    *)
(* and kerf new run, for any number of works, commands and failures, and   *)
(* what kerf doctor says of it.                                            *)
(***************************************************************************)
EXTENDS Doctor, TLAPS

\* What a process may hold.
Jobs == [todo : SUBSET Entries, found : SUBSET Entries, moved : SUBSET Entries,
         faults : 0..MaxFaults, work : Works \cup {None}, mode : {"bench", "local"}]
FilesOK ==
    /\ place \in {"missing", "directory", "link"}
    /\ benchHas \in SUBSET Entries /\ worksHas \in SUBSET Entries
    /\ place # "directory" => benchHas = {}
    /\ kerfHas \in SUBSET Config
    /\ storage \in {"bench", "local"}

ProcsOK ==
    /\ pc \in [Procs -> {"idle", "create", "list", "move", "link", "config", "unlink", "undo"}]
    /\ \A p \in Creators : pc[p] \in {"idle", "create"}
    /\ \A p \in Localizers : pc[p] # "create"
    /\ job \in [Procs -> Jobs]
    /\ \A p \in Creators : pc[p] = "create" => job[p].work \in Works
    /\ \A p \in Localizers :
        job[p].moved \cap job[p].todo = {} /\ (pc[p] = "list" => job[p].moved = {})
    /\ disturbed \in BOOLEAN

\* A configuration file is in one place, or nowhere.
SingleCopy ==
    \A c \in Config :
        /\ ~(c \in benchHas /\ c \in worksHas)
        /\ ~(c \in benchHas /\ c \in kerfHas)
        /\ ~(c \in worksHas /\ c \in kerfHas)

\* What a localize at the point `at` that holds j has done to the files.
Midway(at, j) ==
    /\ storage = "bench"
    /\ worksHas = j.moved \cap Works /\ kerfHas = j.moved \cap Config
    /\ at = "list" => place # "link"
    /\ at = "move" => place # "link" /\ j.todo \subseteq benchHas /\ j.found \subseteq j.moved \cup j.todo
    /\ at = "link" => place = "missing" /\ j.found \subseteq j.moved
    /\ at = "config" => place = "link" /\ j.found \subseteq j.moved
    /\ at \in {"unlink", "undo"} => j.found \subseteq j.moved \cup benchHas
    /\ at = "undo" => place = "directory"

Settled ==
    \/ storage = "bench" /\ place # "link" /\ worksHas = {} /\ kerfHas = {}
    \/ storage = "local" /\ place # "directory" /\ worksHas \subseteq Works

\* As long as commands run one after the other and are not killed.
Calm ==
    /\ \A p, q \in Procs : pc[p] # "idle" /\ pc[q] # "idle" => p = q
    /\ (\A p \in Localizers : pc[p] = "idle") => Settled
    /\ \A p \in Localizers : pc[p] # "idle" => Midway(pc[p], job[p])
    /\ \A p \in Creators : pc[p] = "create" => job[p].mode = storage

IInv == FilesOK /\ ProcsOK /\ SingleCopy /\ (~disturbed => Calm)

----------------------------------------------------------------------------
(* Lemmas for the steps *)

\* Works are not configuration files.
LEMMA Apart == Works \cap Config = {}
BY LocalizeAssumption

\* What a process holds at first.
LEMMA NoJobOK == NoJob \in Jobs
BY LocalizeAssumption DEF NoJob, Jobs

LocalizePoints == {"move", "link", "config", "unlink", "undo"}

Changes(p, at, j) == pc' = [pc EXCEPT ![p] = at] /\ job' = [job EXCEPT ![p] = j]

\* A localize goes on, with its files as they should be.
LEMMA StepOK ==
  ASSUME IInv, NEW p \in Localizers, pc[p] # "idle",
         NEW j \in Jobs, j.moved \cap j.todo = {},
         NEW at \in LocalizePoints, Changes(p, at, j),
         disturbed' \in BOOLEAN, disturbed => disturbed',
         storage' = storage,
         ~disturbed' => Midway(at, j)'
  PROVE  ProcsOK' /\ (~disturbed' => Calm')
<1>0. p \in Procs /\ p \notin Creators
  BY LocalizeAssumption DEF Procs
<1>1. ProcsOK'
  BY <1>0 DEF IInv, ProcsOK, Procs, Changes, LocalizePoints
<1>2. ASSUME ~disturbed'
      PROVE  Calm'
  <2>1. ~disturbed /\ Calm
    BY <1>2 DEF IInv, ProcsOK
  <2>2. pc'[p] = at /\ job'[p] = j /\ at # "idle"
    BY <1>0 DEF Changes, IInv, ProcsOK, LocalizePoints
  <2>3. \A q \in Procs : q # p => pc[q] = "idle" /\ pc'[q] = "idle" /\ job'[q] = job[q]
    BY <1>0, <2>1 DEF Calm, Changes, IInv, ProcsOK
  <2>4. Midway(at, j)'
    BY <1>2
  <2>5. ASSUME NEW q \in Localizers, pc'[q] # "idle"
        PROVE  Midway(pc[q], job[q])'
    <3>1. q = p
      BY <2>3, <2>5 DEF Procs
    <3> QED
      BY <2>2, <2>4, <3>1 DEF Midway
  <2>6. \A q \in Creators : pc'[q] = "idle"
    BY <1>0, <2>3 DEF Procs
  <2> QED
    BY <1>0, <2>2, <2>3, <2>5, <2>6 DEF Calm
<1> QED
  BY <1>1, <1>2

\* A command is over, killed or done, with the files as they should be.
LEMMA ExitOK ==
  ASSUME IInv, NEW p \in Procs, pc[p] # "idle", Changes(p, "idle", NoJob),
         disturbed' \in BOOLEAN, disturbed => disturbed',
         ~disturbed' => Settled'
  PROVE  ProcsOK' /\ (~disturbed' => Calm')
<1>1. ProcsOK'
  BY NoJobOK DEF IInv, ProcsOK, Procs, Changes, NoJob
<1>2. ASSUME ~disturbed'
      PROVE  Calm'
  <2>1. ~disturbed /\ Calm
    BY <1>2 DEF IInv, ProcsOK
  <2>2. \A q \in Procs : pc'[q] = "idle"
    BY <2>1 DEF Calm, Changes, IInv, ProcsOK
  <2> QED
    BY <1>2, <2>2 DEF Calm, Procs
<1> QED
  BY <1>1, <1>2

----------------------------------------------------------------------------
(* kerf localize *)

\* It begins on a project that is on the bench.
LEMMA BeginInv ==
  ASSUME IInv, NEW p \in Localizers, LocalizeBegin(p)
  PROVE  IInv'
<1>0. p \in Procs /\ p \notin Creators
  BY LocalizeAssumption DEF Procs
<1>1. /\ pc[p] = "idle" /\ Changes(p, "list", NoJob)
      /\ disturbed' = (disturbed \/ \E q \in Procs : pc[q] # "idle")
      /\ UNCHANGED files /\ storage = "bench" /\ place # "link" /\ worksHas = {}
  BY DEF LocalizeBegin, Localizable, Begin, Idle, Changes
<1>2. ProcsOK'
  BY <1>0, <1>1, NoJobOK DEF IInv, ProcsOK, Procs, Changes, NoJob
<1>3. ASSUME ~disturbed'
      PROVE  Calm'
  <2>1. ~disturbed /\ Calm /\ \A q \in Procs : pc[q] = "idle"
    BY <1>1, <1>3 DEF IInv, ProcsOK
  <2>2. Settled
    BY <2>1 DEF Calm, Procs
  <2>3. \A q \in Procs : q # p => pc'[q] = "idle"
    BY <1>1, <2>1 DEF Changes, IInv, ProcsOK
  <2>4. pc'[p] = "list" /\ job'[p] = NoJob
    BY <1>0, <1>1 DEF Changes, IInv, ProcsOK
  <2>5. Midway("list", NoJob)'
    BY <1>1, <2>2 DEF Midway, Settled, files, NoJob
  <2>6. ASSUME NEW q \in Localizers, pc'[q] # "idle"
        PROVE  Midway(pc[q], job[q])'
    <3>1. q = p
      BY <2>3, <2>6 DEF Procs
    <3> QED
      BY <2>4, <2>5, <3>1 DEF Midway
  <2>7. \A q \in Creators : pc'[q] = "idle"
    BY <1>0, <2>3 DEF Procs
  <2> QED
    BY <2>3, <2>4, <2>6, <2>7, <1>0 DEF Calm
<1> QED
  BY <1>1, <1>2, <1>3 DEF IInv, FilesOK, SingleCopy, files

\* It finds what is to be moved.
LEMMA ListInv ==
  ASSUME IInv, NEW p \in Localizers, ListBench(p)
  PROVE  IInv'
<1>0. p \in Procs /\ pc[p] = "list" /\ UNCHANGED <<files, disturbed>>
  BY DEF ListBench, Procs
<1>1. job[p] \in Jobs /\ AtBench \subseteq Entries /\ job[p].moved = {}
  BY <1>0 DEF IInv, ProcsOK, FilesOK, AtBench
<1>2. PICK listed \in SUBSET AtBench :
          job' = [job EXCEPT ![p].todo = listed, ![p].found = listed]
  BY DEF ListBench
<1>3. PICK j \in Jobs :
          j = [job[p] EXCEPT !.todo = listed, !.found = listed]
  BY <1>1, <1>2 DEF Jobs
<1>4. Changes(p, "move", j)
  BY <1>0, <1>1, <1>2, <1>3 DEF ListBench, GoTo, Changes, IInv, ProcsOK
<1>5. j.moved = {} /\ j.todo = listed /\ j.found = listed
  BY <1>1, <1>3 DEF Jobs
<1>6. ~disturbed' => Midway("move", j)'
  <2>1. ~disturbed => Midway("list", job[p])
    BY <1>0 DEF IInv, Calm
  <2>2. place # "link" => AtBench \subseteq benchHas
    BY DEF AtBench, IInv, FilesOK
  <2> QED
    BY <1>0, <1>1, <1>2, <1>5, <2>1, <2>2 DEF Midway, files
<1>7. ProcsOK' /\ (~disturbed' => Calm')
  BY <1>0, <1>4, <1>5, <1>6, StepOK DEF LocalizePoints, files, IInv, ProcsOK
<1> QED
  BY <1>0, <1>7 DEF IInv, FilesOK, SingleCopy, files

\* It moves one entry to the repository; a configuration file stays single.
LEMMA MoveInv ==
  ASSUME IInv, NEW p \in Localizers, NEW e \in Entries, MoveEntry(p, e)
  PROVE  IInv'
<1>0. /\ p \in Procs /\ pc[p] = "move" /\ e \in job[p].todo /\ pc' = pc
      /\ CanMove(e) /\ Rename(e) /\ UNCHANGED <<place, storage, disturbed>>
  BY DEF MoveEntry, Rename, Procs
<1>1. job[p] \in Jobs /\ job[p].moved \cap job[p].todo = {}
  BY <1>0 DEF IInv, ProcsOK
<1>2. PICK j \in Jobs : j = [job[p] EXCEPT !.todo = @ \ {e}, !.moved = @ \cup {e}]
  BY <1>1 DEF Jobs
<1>3. Changes(p, "move", j)
  BY <1>0, <1>1, <1>2 DEF MoveEntry, Changes, IInv, ProcsOK
<1>4. /\ j.moved = job[p].moved \cup {e} /\ j.todo = job[p].todo \ {e}
      /\ j.found = job[p].found /\ j.moved \cap j.todo = {}
  BY <1>1, <1>2 DEF Jobs
<1>5. FilesOK' /\ SingleCopy'
  BY <1>0, Apart DEF IInv, FilesOK, SingleCopy, Rename, CanMove, AtBench, Entries
<1>6. ~disturbed' => Midway("move", j)'
  <2>1. ~disturbed => Midway("move", job[p])
    BY <1>0 DEF IInv, Calm
  <2> QED
    BY <1>0, <1>1, <1>4, <2>1, Apart DEF Midway, Rename, Entries
<1>7. ProcsOK' /\ (~disturbed' => Calm')
  BY <1>0, <1>3, <1>4, <1>6, StepOK DEF LocalizePoints, IInv, ProcsOK
<1> QED
  BY <1>5, <1>7 DEF IInv

\* Held as before, but for one more failure.
Like(i, j) == j.todo = i.todo /\ j.found = i.found /\ j.moved = i.moved

\* A failure is counted, and changes nothing else that is held.
LEMMA ChargedOK ==
  ASSUME IInv, NEW p \in Localizers, MayFail(p)
  PROVE  \E j \in Jobs : Charged(p) = [job EXCEPT ![p] = j] /\ Like(job[p], j)
<1>1. p \in Procs /\ job[p] \in Jobs
  BY DEF IInv, ProcsOK, Procs
<1>2. job[p].faults + 1 \in 0..MaxFaults
  BY <1>1, LocalizeAssumption DEF MayFail, Jobs
<1>3. PICK j \in Jobs : j = [job[p] EXCEPT !.faults = @ + 1]
  BY <1>1, <1>2 DEF Jobs
<1>4. Like(job[p], j)
  BY <1>1, <1>3 DEF Jobs, Like
<1>5. Charged(p) = [job EXCEPT ![p] = j]
  BY <1>3 DEF Charged
<1> QED
  BY <1>4, <1>5

\* It gives up, holding what it held.
LEMMA GiveUpOK ==
  ASSUME IInv, NEW p \in Localizers, pc[p] # "idle", GiveUp(p),
         \/ job' = job
         \/ MayFail(p) /\ job' = Charged(p),
         disturbed' = disturbed, storage' = storage,
         \A j \in Jobs : Like(job[p], j) /\ ~disturbed => Midway("unlink", j)'
  PROVE  ProcsOK' /\ (~disturbed' => Calm')
<1>0. p \in Procs /\ job[p] \in Jobs /\ job[p].moved \cap job[p].todo = {}
  BY DEF IInv, ProcsOK, Procs
<1>1. PICK j \in Jobs : job' = [job EXCEPT ![p] = j] /\ Like(job[p], j)
  <2>1. job = [job EXCEPT ![p] = job[p]] /\ Like(job[p], job[p])
    BY <1>0 DEF IInv, ProcsOK, Like
  <2> QED
    BY <1>0, <2>1, ChargedOK
<1>2. Changes(p, "unlink", j) /\ j.moved \cap j.todo = {}
  BY <1>0, <1>1 DEF GiveUp, GoTo, Changes, Like
<1>3. ~disturbed' => Midway("unlink", j)'
  BY <1>1
<1> QED
  BY <1>1, <1>2, <1>3, StepOK DEF LocalizePoints, IInv, ProcsOK

\* What a localize at a point has done, while commands run one by one.
LEMMA InTheMiddle ==
  ASSUME IInv, NEW p \in Localizers, pc[p] # "idle", ~disturbed
  PROVE  Midway(pc[p], job[p])
BY DEF IInv, Calm

\* An entry cannot be moved.
LEMMA MoveFailsInv ==
  ASSUME IInv, NEW p \in Localizers, NEW e \in Entries, MoveFails(p, e)
  PROVE  IInv'
<1>1. /\ pc[p] = "move" /\ GiveUp(p) /\ UNCHANGED <<files, disturbed>>
      /\ \/ job' = job
         \/ MayFail(p) /\ job' = Charged(p)
  BY DEF MoveFails
<1>2. \A j \in Jobs : Like(job[p], j) /\ ~disturbed => Midway("unlink", j)'
  BY <1>1, InTheMiddle DEF Midway, files, Like
<1>3. ProcsOK' /\ (~disturbed' => Calm')
  BY <1>1, <1>2, GiveUpOK DEF files
<1> QED
  BY <1>1, <1>3 DEF IInv, FilesOK, SingleCopy, files

\* The bench directory goes, with what is in it.
LEMMA RemoveInv ==
  ASSUME IInv, NEW p \in Localizers, RemoveBench(p)
  PROVE  IInv'
<1>0. /\ p \in Procs /\ pc[p] = "move" /\ job[p].todo = {}
      /\ place' = "missing" /\ benchHas' = {} /\ job' = job
      /\ UNCHANGED <<worksHas, kerfHas, storage, disturbed>>
  BY DEF RemoveBench, Procs
<1>1. job[p] \in Jobs /\ job[p].moved \cap job[p].todo = {}
  BY <1>0 DEF IInv, ProcsOK
<1>2. PICK j \in Jobs : j = job[p]
  BY <1>1
<1>3. Changes(p, "link", j)
  BY <1>0, <1>2 DEF RemoveBench, GoTo, Changes, IInv, ProcsOK
<1>4. ~disturbed' => Midway("link", j)'
  BY <1>0, <1>2, InTheMiddle DEF Midway
<1>5. ProcsOK' /\ (~disturbed' => Calm')
  BY <1>0, <1>1, <1>2, <1>3, <1>4, StepOK DEF LocalizePoints, IInv, ProcsOK
<1> QED
  BY <1>0, <1>5 DEF IInv, FilesOK, SingleCopy

\* It cannot be removed, or not entirely.
LEMMA RemoveFailsInv ==
  ASSUME IInv, NEW p \in Localizers, RemoveFails(p)
  PROVE  IInv'
<1>1. /\ pc[p] = "move" /\ job[p].todo = {} /\ GiveUp(p) /\ MayFail(p) /\ job' = Charged(p)
      /\ benchHas' \in SUBSET benchHas
      /\ UNCHANGED <<place, worksHas, kerfHas, storage, disturbed>>
  BY DEF RemoveFails
<1>2. \A j \in Jobs : Like(job[p], j) /\ ~disturbed => Midway("unlink", j)'
  BY <1>1, InTheMiddle DEF Midway, Like
<1>3. ProcsOK' /\ (~disturbed' => Calm')
  BY <1>1, <1>2, GiveUpOK
<1> QED
  BY <1>1, <1>3 DEF IInv, FilesOK, SingleCopy

\* The link is made, or is not.
LEMMA LinkInv ==
  ASSUME IInv, NEW p \in Localizers, MakeLink(p)
  PROVE  IInv'
<1>0. p \in Procs /\ pc[p] = "link" /\ UNCHANGED <<benchHas, worksHas, kerfHas, storage, disturbed>>
  BY DEF MakeLink, Procs
<1>1. CASE place # "directory" /\ place' = "link" /\ GoTo(p, "config") /\ job' = job
  <2>1. job[p] \in Jobs /\ job[p].moved \cap job[p].todo = {}
    BY <1>0 DEF IInv, ProcsOK
  <2>2. PICK j \in Jobs : j = job[p]
    BY <2>1
  <2>3. Changes(p, "config", j)
    BY <1>0, <1>1, <2>2 DEF GoTo, Changes, IInv, ProcsOK
  <2>4. ~disturbed' => Midway("config", j)'
    BY <1>0, <1>1, <2>2, InTheMiddle DEF Midway
  <2>5. ProcsOK' /\ (~disturbed' => Calm')
    BY <1>0, <2>1, <2>2, <2>3, <2>4, StepOK DEF LocalizePoints, IInv, ProcsOK
  <2> QED
    BY <1>0, <1>1, <2>5 DEF IInv, FilesOK, SingleCopy
<1>2. CASE /\ GiveUp(p) /\ place' = place
           /\ job' = job \/ (MayFail(p) /\ job' = Charged(p))
  <2>1. \A j \in Jobs : Like(job[p], j) /\ ~disturbed => Midway("unlink", j)'
    BY <1>0, <1>2, InTheMiddle DEF Midway, Like
  <2>2. ProcsOK' /\ (~disturbed' => Calm')
    BY <1>0, <1>2, <2>1, GiveUpOK
  <2> QED
    BY <1>0, <1>2, <2>2 DEF IInv, FilesOK, SingleCopy
<1> QED
  BY <1>1, <1>2 DEF MakeLink

\* Local storage is declared, or is not.
LEMMA DeclareInv ==
  ASSUME IInv, NEW p \in Localizers, DeclareLocal(p)
  PROVE  IInv'
<1>0. /\ p \in Procs /\ pc[p] = "config" /\ storage' = "local" /\ disturbed' = disturbed
      /\ Changes(p, "idle", NoJob)
      /\ UNCHANGED <<place, benchHas, worksHas, kerfHas>>
  BY DEF DeclareLocal, Exit, GoTo, Changes, Procs
<1>1. ~disturbed => Settled'
  BY <1>0, InTheMiddle DEF Midway, Settled
<1>2. ProcsOK' /\ (~disturbed' => Calm')
  BY <1>0, <1>1, ExitOK DEF IInv, ProcsOK
<1> QED
  BY <1>0, <1>2 DEF IInv, FilesOK, SingleCopy

\* It cannot be declared.
LEMMA DeclareFailsInv ==
  ASSUME IInv, NEW p \in Localizers, DeclareFails(p)
  PROVE  IInv'
<1>1. /\ pc[p] = "config" /\ GiveUp(p) /\ UNCHANGED <<files, disturbed>>
      /\ MayFail(p) /\ job' = Charged(p)
  BY DEF DeclareFails
<1>2. \A j \in Jobs : Like(job[p], j) /\ ~disturbed => Midway("unlink", j)'
  BY <1>1, InTheMiddle DEF Midway, files, Like
<1>3. ProcsOK' /\ (~disturbed' => Calm')
  BY <1>1, <1>2, GiveUpOK DEF files
<1> QED
  BY <1>1, <1>3 DEF IInv, FilesOK, SingleCopy, files

----------------------------------------------------------------------------
(* The roll-back *)

\* The link is replaced by a directory, or the roll-back has failed.
LEMMA UndoLinkInv ==
  ASSUME IInv, NEW p \in Localizers, UndoLink(p)
  PROVE  IInv'
<1>0. /\ p \in Procs /\ pc[p] = "unlink" /\ GoTo(p, "undo")
      /\ disturbed' = (disturbed \/ place' # "directory")
      /\ UNCHANGED <<benchHas, worksHas, kerfHas, storage>>
      /\ \/ place' = "directory" /\ job' = job
         \/ /\ place # "directory" /\ MayFail(p) /\ job' = Charged(p)
            /\ place' \in {place, "missing"}
  BY DEF UndoLink, Procs
<1>1. job[p] \in Jobs /\ job[p].moved \cap job[p].todo = {}
  BY <1>0 DEF IInv, ProcsOK
<1>2. PICK j \in Jobs : job' = [job EXCEPT ![p] = j] /\ Like(job[p], j)
  <2>1. job = [job EXCEPT ![p] = job[p]] /\ Like(job[p], job[p])
    BY <1>0 DEF IInv, ProcsOK, Like
  <2> QED
    BY <1>0, <1>1, <2>1, ChargedOK
<1>3. Changes(p, "undo", j) /\ j.moved \cap j.todo = {}
  BY <1>0, <1>1, <1>2 DEF GoTo, Changes, Like
<1>4. ~disturbed' => Midway("undo", j)'
  BY <1>0, <1>2, InTheMiddle DEF Midway, Like
<1>5. disturbed' \in BOOLEAN /\ (disturbed => disturbed')
  BY <1>0 DEF IInv, ProcsOK
<1>6. ProcsOK' /\ (~disturbed' => Calm')
  BY <1>0, <1>3, <1>4, <1>5, StepOK DEF LocalizePoints
<1>7. FilesOK' /\ SingleCopy'
  BY <1>0 DEF IInv, FilesOK, SingleCopy
<1> QED
  BY <1>6, <1>7 DEF IInv

\* One entry less is to be moved back.
Undone(i, e) == [i EXCEPT !.moved = @ \ {e}]

\* What is held then.
LEMMA UndoneOK ==
  ASSUME IInv, NEW p \in Localizers, NEW i \in Jobs, NEW e, Like(job[p], i)
  PROVE  \E j \in Jobs : /\ j = Undone(i, e)
                         /\ j.moved = job[p].moved \ {e} /\ j.found = job[p].found
                         /\ j.moved \cap j.todo = {}
<1>1. job[p].moved \cap job[p].todo = {}
  BY DEF IInv, ProcsOK
<1>2. PICK j \in Jobs : j = [i EXCEPT !.moved = @ \ {e}]
  BY DEF Jobs
<1> QED
  BY <1>1, <1>2 DEF Jobs, Like, Undone

\* It is moved back.
LEMMA UndoMoveInv ==
  ASSUME IInv, NEW p \in Localizers, NEW e \in Entries, UndoMove(p, e)
  PROVE  IInv'
<1>0. /\ p \in Procs /\ pc[p] = "undo" /\ pc' = pc
      /\ e \in job[p].moved /\ MoveBack(e) /\ disturbed' = disturbed
      /\ UNCHANGED <<place, storage>>
  BY DEF UndoMove, MoveBack, Procs
<1>1. job[p] \in Jobs /\ Like(job[p], job[p])
  BY <1>0 DEF IInv, ProcsOK, Like
<1>2. PICK j \in Jobs : /\ j = Undone(job[p], e)
                        /\ j.moved = job[p].moved \ {e} /\ j.found = job[p].found
                        /\ j.moved \cap j.todo = {}
  BY <1>1, UndoneOK
<1>3. Changes(p, "undo", j)
  BY <1>0, <1>1, <1>2 DEF UndoMove, Undone, Changes, IInv, ProcsOK
<1>4. ~disturbed' => Midway("undo", j)'
  <2>1. ~disturbed => Midway("undo", job[p])
    BY <1>0, InTheMiddle
  <2>2. place = "directory" =>
          /\ benchHas' = benchHas \cup {e}
          /\ worksHas' = worksHas \ {e} /\ kerfHas' = kerfHas \ {e}
    BY <1>0 DEF MoveBack
  <2> QED
    BY <1>0, <1>2, <2>1, <2>2 DEF Midway
<1>5. disturbed' \in BOOLEAN
  BY <1>0 DEF IInv, ProcsOK
<1>6. ProcsOK' /\ (~disturbed' => Calm')
  BY <1>0, <1>2, <1>3, <1>4, <1>5, StepOK DEF LocalizePoints
<1>7. FilesOK' /\ SingleCopy'
  BY <1>0 DEF IInv, FilesOK, SingleCopy, MoveBack
<1> QED
  BY <1>6, <1>7 DEF IInv

\* It is not, and the roll-back has failed.
LEMMA UndoMoveFailsInv ==
  ASSUME IInv, NEW p \in Localizers, NEW e \in Entries, UndoMoveFails(p, e)
  PROVE  IInv'
<1>0. /\ p \in Procs /\ pc[p] = "undo" /\ UNCHANGED <<files, pc>> /\ disturbed' = TRUE
      /\ \/ MayFail(p) /\ job' = [Charged(p) EXCEPT ![p].moved = @ \ {e}]
         \/ job' = [job EXCEPT ![p].moved = @ \ {e}]
  BY DEF UndoMoveFails, Procs
<1>1. job[p] \in Jobs /\ Like(job[p], job[p])
  BY <1>0 DEF IInv, ProcsOK, Like
<1>2. PICK i \in Jobs : Like(job[p], i) /\ job' = [job EXCEPT ![p] = Undone(i, e)]
  <2>1. CASE MayFail(p) /\ job' = [Charged(p) EXCEPT ![p].moved = @ \ {e}]
    <3>1. PICK i \in Jobs : Charged(p) = [job EXCEPT ![p] = i] /\ Like(job[p], i)
      BY <2>1, ChargedOK
    <3>2. job' = [[job EXCEPT ![p] = i] EXCEPT ![p].moved = @ \ {e}]
      BY <2>1, <3>1
    <3> QED
      BY <1>0, <3>1, <3>2 DEF IInv, ProcsOK, Undone
  <2>2. CASE job' = [job EXCEPT ![p].moved = @ \ {e}]
    BY <1>1, <2>2 DEF Undone
  <2> QED
    BY <1>0, <2>1, <2>2
<1>3. PICK j \in Jobs : /\ j = Undone(i, e)
                        /\ j.moved \cap j.todo = {}
  BY <1>2, UndoneOK
<1>4. Changes(p, "undo", j)
  BY <1>0, <1>2, <1>3 DEF Changes, IInv, ProcsOK
<1>5. ProcsOK' /\ (~disturbed' => Calm')
  BY <1>0, <1>3, <1>4, StepOK DEF LocalizePoints, files
<1> QED
  BY <1>0, <1>5 DEF IInv, FilesOK, SingleCopy, files

\* The roll-back ends, with everything on the bench.
LEMMA AbortedInv ==
  ASSUME IInv, NEW p \in Localizers, Aborted(p)
  PROVE  IInv'
<1>0. /\ p \in Procs /\ pc[p] = "undo" /\ job[p].moved = {} /\ UNCHANGED <<files, disturbed>>
      /\ Changes(p, "idle", NoJob)
  BY DEF Aborted, Exit, GoTo, Changes, Procs
<1>1. ~disturbed => Settled'
  BY <1>0, InTheMiddle DEF Midway, Settled, files
<1>2. ProcsOK' /\ (~disturbed' => Calm')
  BY <1>0, <1>1, ExitOK DEF IInv, ProcsOK
<1> QED
  BY <1>0, <1>2 DEF IInv, FilesOK, SingleCopy, files

----------------------------------------------------------------------------
(* kerf new, and a kill *)

\* The codename is free; a missing link is repaired.
LEMMA NewBeginInv ==
  ASSUME IInv, NEW p \in Creators, NEW w \in Works, NewBegin(p, w)
  PROVE  IInv'
<1>0. p \in Procs /\ p \notin Localizers
  BY LocalizeAssumption DEF Procs
<1>1. PICK j \in Jobs : j = [NoJob EXCEPT !.work = w, !.mode = storage]
  BY NoJobOK DEF IInv, FilesOK, Jobs
<1>2. /\ j.work = w /\ j.mode = storage
  BY <1>1 DEF NoJob
<1>3. /\ pc[p] = "idle" /\ Changes(p, "create", j)
      /\ disturbed' = (disturbed \/ \E q \in Procs : pc[q] # "idle")
      /\ UNCHANGED <<benchHas, worksHas, kerfHas, storage>>
      /\ place' = (IF storage = "local" THEN "link" ELSE place)
      /\ (storage = "local" => place # "directory")
  BY <1>1 DEF NewBegin, Begin, Idle, Changes
<1>4. ProcsOK'
  BY <1>0, <1>2, <1>3 DEF IInv, ProcsOK, Procs, Changes
<1>5. ASSUME ~disturbed'
      PROVE  Calm'
  <2>1. ~disturbed /\ Calm /\ \A q \in Procs : pc[q] = "idle"
    BY <1>3, <1>5 DEF IInv, ProcsOK
  <2>2. Settled
    BY <2>1 DEF Calm, Procs
  <2>3. \A q \in Procs : q # p => pc'[q] = "idle" /\ job'[q] = job[q]
    BY <1>3, <2>1 DEF Changes, IInv, ProcsOK
  <2>4. pc'[p] = "create" /\ job'[p] = j
    BY <1>0, <1>3 DEF Changes, IInv, ProcsOK
  <2>5. Settled'
    BY <1>3, <2>2 DEF Settled
  <2>6. \A q \in Localizers : pc'[q] = "idle"
    BY <1>0, <2>3 DEF Procs
  <2>7. \A q \in Creators : pc'[q] = "create" => q = p
    BY <2>3 DEF Procs
  <2>8. \A q, r \in Procs : pc'[q] # "idle" /\ pc'[r] # "idle" => q = r
    BY <2>3
  <2> QED
    BY <1>2, <1>3, <2>4, <2>5, <2>6, <2>7, <2>8 DEF Calm
<1> QED
  BY <1>3, <1>4, <1>5 DEF IInv, FilesOK, SingleCopy

\* The work's directory is made.
LEMMA CreateWorkInv ==
  ASSUME IInv, NEW p \in Creators, CreateWork(p)
  PROVE  IInv'
<1>0. /\ p \in Procs /\ pc[p] = "create" /\ Changes(p, "idle", NoJob)
      /\ UNCHANGED <<kerfHas, storage, disturbed>> /\ job[p].work \in Works
      /\ \/ /\ job[p].mode = "local" \/ place = "link"
            /\ worksHas' = worksHas \cup {job[p].work} /\ UNCHANGED <<place, benchHas>>
         \/ /\ job[p].mode # "local" /\ place # "link" /\ place' = "directory"
            /\ benchHas' = benchHas \cup {job[p].work} /\ UNCHANGED worksHas
  BY DEF CreateWork, Exit, GoTo, Changes, IInv, ProcsOK, Procs
<1>1. FilesOK' /\ SingleCopy'
  BY <1>0, Apart DEF IInv, FilesOK, SingleCopy, Entries
<1>2. ASSUME ~disturbed
      PROVE  Settled'
  <2>1. Calm /\ p \notin Localizers
    BY <1>2, LocalizeAssumption DEF IInv
  <2>2. Settled /\ job[p].mode = storage
    BY <1>0, <2>1 DEF Calm, Procs
  <2> QED
    BY <1>0, <2>2 DEF Settled
<1>3. ProcsOK' /\ (~disturbed' => Calm')
  BY <1>0, <1>2, ExitOK DEF IInv, ProcsOK
<1> QED
  BY <1>1, <1>3 DEF IInv

\* A command is killed between two steps.
LEMMA KillInv ==
  ASSUME IInv, NEW p \in Procs, Kill(p)
  PROVE  IInv'
<1>0. pc[p] # "idle" /\ Changes(p, "idle", NoJob) /\ disturbed' = TRUE /\ UNCHANGED files
  BY DEF Kill, Idle, GoTo, Changes
<1>1. ProcsOK' /\ (~disturbed' => Calm')
  BY <1>0, ExitOK
<1> QED
  BY <1>0, <1>1 DEF IInv, FilesOK, SingleCopy, files

----------------------------------------------------------------------------
(* The invariant *)

\* A project on the bench, or the clone of one localized elsewhere.
LEMMA InitInv == Init => IInv
<1> SUFFICES ASSUME Init PROVE IInv
  OBVIOUS
<1>1. FilesOK /\ SingleCopy /\ Settled
  BY Apart DEF Init, FilesOK, SingleCopy, Settled, Entries
<1>2. ProcsOK
  BY NoJobOK DEF Init, ProcsOK, Procs, NoJob
<1>3. \A p \in Procs : pc[p] = "idle"
  BY DEF Init
<1>4. Calm
  BY <1>1, <1>3 DEF Calm, Procs
<1> QED
  BY <1>1, <1>2, <1>4 DEF IInv

\* Every step keeps it.
LEMMA NextInv == IInv /\ [Next]_vars => IInv'
<1> SUFFICES ASSUME IInv, [Next]_vars PROVE IInv'
  OBVIOUS
<1>1. ASSUME NEW p \in Localizers,
             \/ LocalizeBegin(p) \/ ListBench(p)
             \/ \E e \in Entries : MoveEntry(p, e) \/ MoveFails(p, e)
             \/ RemoveBench(p) \/ RemoveFails(p)
             \/ MakeLink(p) \/ DeclareLocal(p) \/ DeclareFails(p)
             \/ UndoLink(p) \/ \E e \in Entries : UndoMove(p, e) \/ UndoMoveFails(p, e)
             \/ Aborted(p)
      PROVE  IInv'
  BY <1>1, BeginInv, ListInv, MoveInv, MoveFailsInv, RemoveInv, RemoveFailsInv, LinkInv,
     DeclareInv, DeclareFailsInv, UndoLinkInv, UndoMoveInv, UndoMoveFailsInv, AbortedInv
<1>2. ASSUME NEW p \in Creators, NEW w \in Works, NewBegin(p, w)
      PROVE  IInv'
  BY <1>2, NewBeginInv
<1>3. ASSUME NEW p \in Creators, CreateWork(p)
      PROVE  IInv'
  BY <1>3, CreateWorkInv
<1>4. ASSUME NEW p \in Procs, Kill(p)
      PROVE  IInv'
  BY <1>4, KillInv
<1>5. CASE UNCHANGED vars
  BY <1>5 DEF IInv, FilesOK, ProcsOK, SingleCopy, Calm, Settled, Midway, vars
<1> QED
  BY <1>1, <1>2, <1>3, <1>4, <1>5 DEF Next

(***************************************************************************)
(* What the files and the commands are in every state: configuration files *)
(* are in one place, and commands that ran one after the other and were    *)
(* not killed leave one of the two layouts of Settled.                     *)
(***************************************************************************)
THEOREM Invariance == LocalizeSpec => []IInv
BY InitInv, NextInv, PTL DEF LocalizeSpec

(***************************************************************************)
(* Commands that run one after the other leave every work, and the         *)
(* project's configuration, where the Resolver looks for them (Localize).  *)
(***************************************************************************)
THEOREM Visible == LocalizeSpec => []EverythingVisible
<1>1. IInv => EverythingVisible
  <2> SUFFICES ASSUME IInv, Localizing = {}, ~disturbed
               PROVE  /\ Held \subseteq WorksDir(storage)
                      /\ "project.yaml" \in benchHas \cup worksHas \cup kerfHas
                            => ProjectConfigFound
    BY DEF EverythingVisible
  <2>1. Settled
    BY DEF IInv, Calm, Localizing, Idle
  <2>2. CASE storage = "bench" /\ place # "link" /\ worksHas = {} /\ kerfHas = {}
    BY <2>2 DEF IInv, FilesOK, Held, WorksDir, AtBench, ProjectConfigFound
  <2>3. CASE storage = "local" /\ place # "directory" /\ worksHas \subseteq Works
    <3>1. benchHas = {} /\ "project.yaml" \notin Works
      BY <2>3, LocalizeAssumption DEF IInv, FilesOK, Config
    <3> QED
      BY <2>3, <3>1 DEF Held, WorksDir, ProjectConfigFound
  <2> QED
    BY <2>1, <2>2, <2>3 DEF Settled
<1> QED
  BY <1>1, Invariance, PTL

\* A green report has no drift of any class.
LEMMA GreenOK ==
  Green => /\ Doubles = {} /\ WrongLocation = {} /\ Collisions = {}
           /\ SymlinkIntegrity = {} /\ ProjectYAML = {}
<1> SUFFICES ASSUME Green PROVE /\ Doubles = {} /\ WrongLocation = {} /\ Collisions = {}
                                /\ SymlinkIntegrity = {} /\ ProjectYAML = {}
  OBVIOUS
<1>1. Report.drift = {} /\ Report.symlink = {} /\ Report.project = {}
  BY DEF Green, Report
<1>2. SymlinkIntegrity = {} /\ ProjectYAML = {}
  BY <1>1 DEF Report
<1>3. \A class \in DOMAIN Drift : Drift[class] = {}
  BY <1>1 DEF Report
<1>4. Drift["double"] = {} /\ Drift["wrong"] = {} /\ Drift["collisions"] = {}
  BY <1>3 DEF Drift
<1> QED
  BY <1>2, <1>4 DEF Drift

(***************************************************************************)
(* A green report of kerf doctor can be believed, whatever was killed or   *)
(* ran at once (Doctor): the works are where the commands look for them.   *)
(***************************************************************************)
THEOREM GreenMeansVisible == LocalizeSpec => []GreenIsVisible
<1>1. IInv => GreenIsVisible
  <2> SUFFICES ASSUME IInv, Green
               PROVE  /\ Held \subseteq WorksDir(storage)
                      /\ place = "directory" => benchHas \cap worksHas = {}
                      /\ storage = "local" => place = "link" /\ benchHas = {}
                      /\ Held \cap Archived = {}
                      /\ ProjectConfigFound
    BY DEF GreenIsVisible
  <2>1. /\ Doubles = {} /\ WrongLocation = {} /\ SymlinkIntegrity = {}
        /\ ProjectYAML = {} /\ Collisions = {}
    BY GreenOK
  <2>2. storage = "local" => place = "link" /\ benchHas = {}
    BY <2>1 DEF SymlinkIntegrity, IInv, FilesOK
  <2>3. ProjectConfigFound
    BY <2>1 DEF ProjectYAML
  <2>4. Elsewhere = {}
    BY <2>1 DEF Doubles, WrongLocation
  <2>5. Held = Canonical \cup Elsewhere
    BY <2>2, <2>4 DEF Held, Canonical, Elsewhere, WorksDir, AtBench, IInv, FilesOK
  <2>6. Held \subseteq WorksDir(storage)
    BY <2>4, <2>5 DEF Canonical
  <2>7. Held \cap Archived = {}
    BY <2>1, <2>5 DEF Collisions
  <2>8. place = "directory" => benchHas \cap worksHas = {}
    <3> SUFFICES ASSUME place = "directory" PROVE benchHas \cap worksHas = {}
      OBVIOUS
    <3>1. storage = "bench"
      BY <2>2 DEF IInv, FilesOK
    <3>2. worksHas \cap Works = {}
      BY <2>4, <3>1 DEF Elsewhere
    <3> QED
      BY <3>2 DEF IInv, FilesOK, SingleCopy, Entries
  <2> QED
    BY <2>2, <2>3, <2>6, <2>7, <2>8
<1> QED
  BY <1>1, Invariance, PTL

(***************************************************************************)
(* Nor does it ask to move or merge the works of a project where commands  *)
(* ran one after the other, whatever failed in them (Doctor).              *)
(***************************************************************************)
THEOREM NoFalseDrift == LocalizeSpec => []SettledIsNoDrift
<1>1. IInv => SettledIsNoDrift
  <2> SUFFICES ASSUME IInv, Localizing = {}, ~disturbed
               PROVE  \A class \in DOMAIN Drift \ {"collisions"} : Drift[class] = {}
    BY DEF SettledIsNoDrift
  <2>1. Settled
    BY DEF IInv, Calm, Localizing, Idle
  <2>2. /\ Elsewhere = {} /\ ~BenchLinkBroken /\ DoubleConfigs = {}
    <3>1. CASE storage = "bench" /\ place # "link" /\ worksHas = {} /\ kerfHas = {}
      BY <3>1 DEF Elsewhere, BenchLinkBroken, DoubleConfigs
    <3>2. CASE storage = "local" /\ place # "directory" /\ worksHas \subseteq Works
      BY <3>2, Apart DEF Elsewhere, BenchLinkBroken, DoubleConfigs, AtBench, IInv, FilesOK
    <3> QED
      BY <2>1, <3>1, <3>2 DEF Settled
  <2>3. Doubles = {} /\ WrongLocation = {}
    BY <2>2 DEF Doubles, WrongLocation
  <2> QED
    BY <2>2, <2>3 DEF Drift
<1> QED
  BY <1>1, Invariance, PTL

----------------------------------------------------------------------------
(* What a roll-back restores *)

\* A roll-back ends only with nothing left to move back, unless it is killed.
LEMMA UndoEnds ==
  ASSUME IInv, Next, NEW p \in Localizers,
         pc[p] = "undo", pc'[p] = "idle", ~disturbed'
  PROVE  ~disturbed /\ job[p].moved = {}
<1>0. /\ p \notin Creators /\ p \in Procs /\ DOMAIN pc = Procs
      /\ disturbed \in BOOLEAN
  BY LocalizeAssumption DEF IInv, ProcsOK, Procs
<1>1. ASSUME NEW q \in Localizers, Aborted(q)
      PROVE  ~disturbed /\ job[p].moved = {}
  BY <1>0, <1>1 DEF Aborted, Exit, GoTo
<1>2. ASSUME NEW q \in Localizers, LocalizeBegin(q) \/ ListBench(q)
      PROVE  FALSE
  BY <1>0, <1>2 DEF LocalizeBegin, ListBench, Begin, Idle, GoTo
<1>3. ASSUME NEW q \in Localizers, NEW e \in Entries,
             MoveEntry(q, e) \/ MoveFails(q, e) \/ UndoMove(q, e) \/ UndoMoveFails(q, e)
      PROVE  FALSE
  BY <1>0, <1>3 DEF MoveEntry, MoveFails, UndoMove, UndoMoveFails, GiveUp, GoTo
<1>4. ASSUME NEW q \in Localizers,
             RemoveBench(q) \/ RemoveFails(q) \/ MakeLink(q) \/ UndoLink(q)
      PROVE  FALSE
  BY <1>0, <1>4 DEF RemoveBench, RemoveFails, MakeLink, UndoLink, GiveUp, GoTo
<1>5. ASSUME NEW q \in Localizers, DeclareLocal(q) \/ DeclareFails(q)
      PROVE  FALSE
  BY <1>0, <1>5 DEF DeclareLocal, DeclareFails, Exit, GiveUp, GoTo
<1>6. ASSUME NEW q \in Creators, NEW w \in Works, NewBegin(q, w)
      PROVE  FALSE
  BY <1>0, <1>6 DEF NewBegin, Begin, Idle
<1>7. ASSUME NEW q \in Creators, CreateWork(q)
      PROVE  FALSE
  BY <1>0, <1>7 DEF CreateWork, Exit, GoTo
<1>8. ASSUME NEW q \in Procs, Kill(q)
      PROVE  FALSE
  BY <1>8 DEF Kill
<1> QED
  BY <1>1, <1>2, <1>3, <1>4, <1>5, <1>6, <1>7, <1>8 DEF Next

(***************************************************************************)
(* "Localization aborted - no changes made": what a localize that fails    *)
(* had listed is back on the bench, and it can be run again (Localize).    *)
(***************************************************************************)
THEOREM AbortMeansRestored == LocalizeSpec => AbortRestores
<1> DEFINE Restored ==
      \A p \in Localizing :
        pc[p] = "undo" /\ pc'[p] = "idle" /\ ~disturbed' =>
            /\ Localizable /\ place = "directory"
            /\ job[p].found \subseteq Planned
<1>1. IInv /\ [Next]_vars => [Restored]_vars
  <2> SUFFICES ASSUME IInv, Next, NEW p \in Localizing,
                      pc[p] = "undo", pc'[p] = "idle", ~disturbed'
               PROVE  /\ Localizable /\ place = "directory"
                      /\ job[p].found \subseteq Planned
    OBVIOUS
  <2>1. p \in Localizers
    BY DEF Localizing
  <2>2. ~disturbed /\ job[p].moved = {}
    BY <2>1, UndoEnds
  <2>3. Midway("undo", job[p])
    BY <2>1, <2>2, InTheMiddle
  <2> QED
    BY <2>2, <2>3 DEF Midway, Localizable, Planned, AtBench
<1>2. AbortRestores <=> [][Restored]_vars
  BY DEF AbortRestores
<1> QED
  BY <1>1, <1>2, Invariance, PTL DEF LocalizeSpec

----------------------------------------------------------------------------
(* What the preview promises *)

\* Only the listing of the bench brings a localize to its first move.
LEMMA MovesAfterListing ==
  ASSUME IInv, Next, NEW p \in Localizers, pc[p] = "list", pc'[p] = "move"
  PROVE  ListBench(p)
<1>0. /\ p \notin Creators /\ p \in Procs /\ DOMAIN pc = Procs
  BY LocalizeAssumption DEF IInv, ProcsOK, Procs
<1>1. ASSUME NEW q \in Localizers, ListBench(q)
      PROVE  ListBench(p)
  BY <1>0, <1>1 DEF ListBench, GoTo
<1>2. ASSUME NEW q \in Localizers, LocalizeBegin(q) \/ Aborted(q)
      PROVE  FALSE
  BY <1>0, <1>2 DEF LocalizeBegin, Begin, Aborted, Exit, Idle, GoTo
<1>3. ASSUME NEW q \in Localizers, NEW e \in Entries,
             MoveEntry(q, e) \/ MoveFails(q, e) \/ UndoMove(q, e) \/ UndoMoveFails(q, e)
      PROVE  FALSE
  BY <1>0, <1>3 DEF MoveEntry, MoveFails, UndoMove, UndoMoveFails, GiveUp, GoTo
<1>4. ASSUME NEW q \in Localizers,
             RemoveBench(q) \/ RemoveFails(q) \/ MakeLink(q) \/ UndoLink(q)
      PROVE  FALSE
  BY <1>0, <1>4 DEF RemoveBench, RemoveFails, MakeLink, UndoLink, GiveUp, GoTo
<1>5. ASSUME NEW q \in Localizers, DeclareLocal(q) \/ DeclareFails(q)
      PROVE  FALSE
  BY <1>0, <1>5 DEF DeclareLocal, DeclareFails, Exit, GiveUp, GoTo
<1>6. ASSUME NEW q \in Creators, NEW w \in Works, NewBegin(q, w)
      PROVE  FALSE
  BY <1>0, <1>6 DEF NewBegin, Begin, Idle
<1>7. ASSUME NEW q \in Creators, CreateWork(q)
      PROVE  FALSE
  BY <1>0, <1>7 DEF CreateWork, Exit, GoTo
<1>8. ASSUME NEW q \in Procs, Kill(q)
      PROVE  FALSE
  BY <1>0, <1>8 DEF Kill, GoTo
<1> QED
  BY <1>1, <1>2, <1>3, <1>4, <1>5, <1>6, <1>7, <1>8 DEF Next

(***************************************************************************)
(* "Preview: would localize project": an undisturbed localize lists what   *)
(* its preview shows, areas.yaml excepted, and has moved all that it       *)
(* listed before it declares the storage local (Localize).                 *)
(***************************************************************************)
THEOREM PreviewsAreTrue == LocalizeSpec => PreviewIsTrue
<1> DEFINE AsPlanned ==
      \A p \in Localizing :
        /\ pc[p] = "list" /\ pc'[p] = "move" /\ ~disturbed' =>
            job'[p].found = Planned \ {"areas.yaml"}
        /\ pc[p] = "config" /\ ~disturbed =>
            job[p].found \subseteq worksHas \cup kerfHas
<1>1. IInv /\ [Next]_vars => [AsPlanned]_vars
  <2> SUFFICES ASSUME IInv, Next, NEW p \in Localizing
               PROVE  /\ pc[p] = "list" /\ pc'[p] = "move" /\ ~disturbed' =>
                          job'[p].found = Planned \ {"areas.yaml"}
                      /\ pc[p] = "config" /\ ~disturbed =>
                          job[p].found \subseteq worksHas \cup kerfHas
    OBVIOUS
  <2>1. p \in Localizers /\ p \in Procs /\ job \in [Procs -> Jobs]
    BY DEF Localizing, Procs, IInv, ProcsOK
  <2>2. ASSUME pc[p] = "list", pc'[p] = "move", ~disturbed'
        PROVE  job'[p].found = Planned \ {"areas.yaml"}
    <3>1. ListBench(p)
      BY <2>1, <2>2, MovesAfterListing
    <3>2. Midway("list", job[p]) /\ job[p].moved = {}
      BY <2>1, <2>2, <3>1, InTheMiddle DEF ListBench, IInv, ProcsOK
    <3>3. Planned = AtBench
      BY <3>2 DEF Midway, Planned, Localizable
    <3>4. job'[p].found = AtBench \ {"areas.yaml"}
      BY <2>1, <3>1 DEF ListBench, Jobs
    <3> QED
      BY <3>3, <3>4
  <2>3. ASSUME pc[p] = "config", ~disturbed
        PROVE  job[p].found \subseteq worksHas \cup kerfHas
    <3>1. Midway("config", job[p])
      BY <2>1, <2>3, InTheMiddle
    <3>2. job[p].moved \subseteq Works \cup Config
      BY <2>1 DEF Jobs, Entries
    <3> QED
      BY <3>1, <3>2 DEF Midway
  <2> QED
    BY <2>2, <2>3
<1>2. PreviewIsTrue <=> [][AsPlanned]_vars
  BY DEF PreviewIsTrue
<1> QED
  BY <1>1, <1>2, Invariance, PTL DEF LocalizeSpec

----------------------------------------------------------------------------
(* What one localize, beside any number of kerf new, may lose *)

OneLocalizer == \A p, q \in Localizers : p = q

\* What it found is moved, or waits to be.
FoundKept ==
    \A p \in Localizers : pc[p] = "move" =>
        job[p].found \cap Works \subseteq job[p].todo \cup worksHas

\* Only the removal of the bench directory makes works disappear.
Lost(w) == w \in Held /\ w \notin Held'

\* Steps of the localize itself keep what it found.
LEMMA FoundByLocalize ==
  ASSUME OneLocalizer, IInv, FoundKept, NEW q \in Localizers,
         \/ LocalizeBegin(q) \/ ListBench(q)
         \/ \E e \in Entries : MoveEntry(q, e) \/ MoveFails(q, e)
         \/ RemoveBench(q) \/ RemoveFails(q)
         \/ MakeLink(q) \/ DeclareLocal(q) \/ DeclareFails(q)
         \/ UndoLink(q) \/ \E e \in Entries : UndoMove(q, e) \/ UndoMoveFails(q, e)
         \/ Aborted(q)
  PROVE  FoundKept'
<1>0. q \in Procs /\ DOMAIN pc = Procs /\ DOMAIN job = Procs /\ job[q] \in Jobs
  BY DEF IInv, ProcsOK, Procs
<1> SUFFICES ASSUME pc'[q] = "move"
             PROVE  job'[q].found \cap Works \subseteq job'[q].todo \cup worksHas'
  BY DEF FoundKept, OneLocalizer
<1>1. CASE ListBench(q)
  <2>1. PICK listed : job' = [job EXCEPT ![q].todo = listed, ![q].found = listed]
    BY <1>1 DEF ListBench
  <2> QED
    BY <1>0, <2>1 DEF Jobs
<1>2. CASE \E e \in Entries : MoveEntry(q, e)
  <2>1. PICK e \in Entries : MoveEntry(q, e)
    BY <1>2
  <2>2. /\ pc[q] = "move"
        /\ worksHas' = (IF e \in Works THEN worksHas \cup {e} ELSE worksHas \ {e})
        /\ job' = [job EXCEPT ![q].todo = @ \ {e}, ![q].moved = @ \cup {e}]
    BY <2>1 DEF MoveEntry, Rename
  <2>3. job'[q].todo = job[q].todo \ {e} /\ job'[q].found = job[q].found
    BY <1>0, <2>2 DEF Jobs
  <2> QED
    BY <2>2, <2>3 DEF FoundKept
<1>3. ~LocalizeBegin(q)
  BY <1>0 DEF LocalizeBegin, Begin
<1>4. \A e \in Entries : ~MoveFails(q, e) /\ ~UndoMove(q, e) /\ ~UndoMoveFails(q, e)
  BY <1>0 DEF MoveFails, UndoMove, UndoMoveFails, GiveUp, GoTo
<1>5. ~RemoveBench(q) /\ ~RemoveFails(q) /\ ~MakeLink(q) /\ ~UndoLink(q)
  BY <1>0 DEF RemoveBench, RemoveFails, MakeLink, UndoLink, GiveUp, GoTo
<1>6. ~DeclareLocal(q) /\ ~DeclareFails(q) /\ ~Aborted(q)
  BY <1>0 DEF DeclareLocal, DeclareFails, Aborted, Exit, GiveUp, GoTo
<1> QED
  BY <1>1, <1>2, <1>3, <1>4, <1>5, <1>6

\* So do the steps of every other command, and a kill.
LEMMA FoundByOthers ==
  ASSUME IInv, FoundKept,
         \/ \E q \in Creators : \E w \in Works : NewBegin(q, w)
         \/ \E q \in Creators : CreateWork(q)
         \/ \E q \in Procs : Kill(q)
  PROVE  FoundKept'
<1>0. DOMAIN pc = Procs /\ DOMAIN job = Procs /\ Localizers \subseteq Procs
  BY DEF IInv, ProcsOK, Procs
<1> SUFFICES ASSUME NEW p \in Localizers, pc'[p] = "move"
             PROVE  job'[p].found \cap Works \subseteq job'[p].todo \cup worksHas'
  BY DEF FoundKept
<1>1. p \in Procs /\ p \notin Creators
  BY <1>0, LocalizeAssumption
<1>2. ASSUME NEW q \in Creators, NEW w \in Works, NewBegin(q, w)
      PROVE  pc[p] = "move" /\ job'[p] = job[p] /\ worksHas \subseteq worksHas'
  BY <1>0, <1>1, <1>2 DEF NewBegin, Begin
<1>3. ASSUME NEW q \in Creators, CreateWork(q)
      PROVE  pc[p] = "move" /\ job'[p] = job[p] /\ worksHas \subseteq worksHas'
  BY <1>0, <1>1, <1>3 DEF CreateWork, Exit, GoTo
<1>4. ASSUME NEW q \in Procs, Kill(q)
      PROVE  pc[p] = "move" /\ job'[p] = job[p] /\ worksHas \subseteq worksHas'
  BY <1>0, <1>1, <1>4 DEF Kill, GoTo, files
<1>5. pc[p] = "move" /\ job'[p] = job[p] /\ worksHas \subseteq worksHas'
  BY <1>2, <1>3, <1>4
<1> QED
  BY <1>5 DEF FoundKept

\* In every state of one localize.
LEMMA FoundInvariance ==
  ASSUME OneLocalizer
  PROVE  LocalizeSpec => [](IInv /\ FoundKept)
<1>1. Init => IInv /\ FoundKept
  BY InitInv DEF Init, FoundKept, Procs
<1>2. IInv /\ FoundKept /\ [Next]_vars => (IInv /\ FoundKept)'
  <2> SUFFICES ASSUME IInv, FoundKept, [Next]_vars PROVE FoundKept'
    BY NextInv
  <2>1. CASE UNCHANGED vars
    BY <2>1 DEF FoundKept, vars
  <2>2. CASE Next
    BY <2>2, FoundByLocalize, FoundByOthers DEF Next
  <2> QED
    BY <2>1, <2>2
<1> QED
  BY <1>1, <1>2, PTL DEF LocalizeSpec

\* A work leaves both directories only with the bench directory.
LEMMA LosesOnlyByRemoval ==
  ASSUME IInv, Next, NEW w, Lost(w)
  PROVE  \E q \in Localizers : /\ pc[q] = "move" /\ job[q].todo = {}
                               /\ w \in Works \ worksHas
<1>0. w \in Works /\ (w \in benchHas \/ w \in worksHas)
      /\ w \notin benchHas' /\ w \notin worksHas'
  BY DEF Lost, Held
<1>1. ASSUME NEW q \in Localizers, NEW e \in Entries, MoveEntry(q, e) \/ UndoMove(q, e)
      PROVE  FALSE
  BY <1>0, <1>1, Apart DEF MoveEntry, Rename, CanMove, AtBench, UndoMove, MoveBack, Entries, IInv, FilesOK
<1>2. ASSUME NEW q \in Localizers, RemoveBench(q) \/ RemoveFails(q)
      PROVE  pc[q] = "move" /\ job[q].todo = {} /\ w \in Works \ worksHas
  BY <1>0, <1>2 DEF RemoveBench, RemoveFails
<1>3. ASSUME NEW q \in Localizers, NEW e \in Entries, MoveFails(q, e) \/ UndoMoveFails(q, e)
      PROVE  FALSE
  BY <1>0, <1>3 DEF MoveFails, UndoMoveFails, files
<1>4. ASSUME NEW q \in Localizers,
             \/ LocalizeBegin(q) \/ ListBench(q) \/ MakeLink(q) \/ DeclareLocal(q)
             \/ DeclareFails(q) \/ UndoLink(q) \/ Aborted(q)
      PROVE  FALSE
  BY <1>0, <1>4 DEF LocalizeBegin, ListBench, MakeLink, DeclareLocal, DeclareFails,
                    UndoLink, Aborted, files
<1>5. ASSUME NEW q \in Creators, NEW v \in Works, NewBegin(q, v)
      PROVE  FALSE
  BY <1>0, <1>5 DEF NewBegin
<1>6. ASSUME NEW q \in Creators, CreateWork(q)
      PROVE  FALSE
  BY <1>0, <1>6 DEF CreateWork
<1>7. ASSUME NEW q \in Procs, Kill(q)
      PROVE  FALSE
  BY <1>0, <1>7 DEF Kill, files
<1> QED
  BY <1>1, <1>2, <1>3, <1>4, <1>5, <1>6, <1>7 DEF Next

(***************************************************************************)
(* A work that the localize found is never lost, whichever step of it      *)
(* fails and whatever is killed or created meanwhile (Localize).           *)
(***************************************************************************)
THEOREM NothingListedIsLost ==
  ASSUME OneLocalizer
  PROVE  LocalizeSpec => ListedWorksKept
<1> DEFINE Kept == \A w \in Held \ Held' :
                     \E p \in Localizing : pc[p] = "move" /\ w \notin job[p].found
<1>1. IInv /\ FoundKept /\ [Next]_vars => [Kept]_vars
  <2> SUFFICES ASSUME IInv, FoundKept, Next, NEW w \in Held \ Held'
               PROVE  \E p \in Localizing : pc[p] = "move" /\ w \notin job[p].found
    OBVIOUS
  <2>1. PICK q \in Localizers : pc[q] = "move" /\ job[q].todo = {} /\ w \in Works \ worksHas
    BY LosesOnlyByRemoval DEF Lost
  <2>2. q \in Localizing /\ w \notin job[q].found
    BY <2>1 DEF Localizing, Idle, FoundKept
  <2> QED
    BY <2>1, <2>2
<1>2. ListedWorksKept <=> [][Kept]_vars
  BY DEF ListedWorksKept
<1> QED
  BY <1>1, <1>2, FoundInvariance, PTL DEF LocalizeSpec

=============================================================================
