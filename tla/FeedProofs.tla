----------------------------- MODULE FeedProofs -----------------------------
(***************************************************************************)
(* Which beads are a work's, and what kerf next makes of them: theorems    *)
(* about BeadFilter and about Feed.                                        *)
(*                                                                         *)
(* The bead_filter of one work, for any beads, labels and processes: every *)
(* edit leaves a canonical form, an edit that nothing interferes with does *)
(* what it was asked to, a bootstrap attaches what it promised, and a bead *)
(* is detached only in the ways KeepsAttached lists.                       *)
(*                                                                         *)
(* Canonical says nothing of the length of a union, and the other          *)
(* properties speak of the last write of a process.  The invariant says of *)
(* a process in the middle what it still owes: the clauses that are there, *)
(* less those to take out, and those to put in, are its goal, as long as   *)
(* nothing has come between; and no clause to take out is there twice.     *)
(*                                                                         *)
(* The feed, for any works, beads and agents: on dependencies without a    *)
(* cycle an empty feed means that all is done, and the works marked as the *)
(* critical path are a longest chain.                                      *)
(***************************************************************************)
EXTENDS BeadFilter, Feed, SequenceTheorems, FiniteSetTheorems, WellFoundedInduction, TLAPS

Forms == {"no work", "absent", "null", "leaf", "any"}
Filter == [form : Forms, clauses : Seq(Clause)]
Job == [active : BOOLEAN, out : Seq(Clause), in : Seq(Clause)]

\* Empty, one clause, or more: each has its form.
Normal(f) ==
    /\ Unfiltered(f) <=> f.clauses = <<>>
    /\ f.form = "leaf" <=> Len(f.clauses) = 1

TypeOK ==
    /\ filter \in Filter /\ Normal(filter)
    /\ project \in SUBSET Labels
    /\ carries \in [BeadIDs -> SUBSET Labels]
    /\ edit \in [Procs -> Job]
    /\ goal \in [Procs -> (SUBSET Clause) \cup {Unknown}]

\* Nothing has come between the steps of the process.
Undisturbed(p) == edit[p].active /\ goal[p] # Unknown

\* What is still to be done makes the goal of what is there.
Expects(p) ==
    /\ ~edit[p].active => edit[p] = NoEdit
    /\ Undisturbed(p) =>
        /\ (Holds(filter) \ ToSet(edit[p].out)) \cup ToSet(edit[p].in) = goal[p]
        /\ edit[p].out # <<>> => IsInjective(filter.clauses)

\* A bootstrap puts in only, for a work without open beads, a filter with a
\* candidate that enough open beads carry.
Promises(p) ==
    /\ edit[p].out = <<>>
    /\ Undisturbed(p) =>
        /\ Exists
        /\ Unfiltered(filter) => AttachedBeads = {}
        /\ \E c \in Candidates \cap goal[p] : Count(c) >= MemberFloor

IInv ==
    /\ TypeOK
    /\ \A p \in Procs : Expects(p)
    /\ \A p \in Bootstrappers : Promises(p)

----------------------------------------------------------------------------
(* Numbers and sequences *)

\* The least element of a set of numbers.
LEMMA LeastOf ==
  ASSUME NEW S \in SUBSET Nat, S # {}
  PROVE  \E n \in S : \A m \in S : n <= m
<1>1. PICK n \in S : \A m \in S : ~(<<m, n>> \in OpToRel(<, Nat))
  BY WFMin, NatLessThanWellFounded
<1>2. ASSUME NEW m \in S
      PROVE  n <= m
  <2>1. m \in Nat /\ n \in Nat
    OBVIOUS
  <2>2. ~(m < n)
    BY <1>1, <2>1 DEF OpToRel
  <2> QED
    BY <2>1, <2>2
<1> QED
  BY <1>2

\* The minimum that Min names exists.
LEMMA LeastNat ==
    ASSUME NEW S \in SUBSET Nat, S # {}
    PROVE  Min(S) \in S
<1>1. \E x \in S : \A y \in S : x =< y
  BY LeastOf
<1> QED
  BY <1>1 DEF Min

\* Lengths: none, one, or more.
LEMMA Lengths ==
    /\ 1..0 = {} /\ 0 # 1
    /\ \A n \in Nat : (n > 1 <=> n # 0 /\ n # 1) /\ (n \in Nat \ {0} <=> n # 0)
OBVIOUS

\* What is left when the element at one place goes.
LEMMA RemoveAtOK ==
    ASSUME NEW S, NEW s \in Seq(S), NEW k \in 1..Len(s)
    PROVE  /\ RemoveAt(s, k) \in Seq(S) /\ Len(RemoveAt(s, k)) = Len(s) - 1
           /\ \A i \in 1..(Len(s) - 1) : RemoveAt(s, k)[i] = s[IF i < k THEN i ELSE i + 1]
<1> DEFINE before == SubSeq(s, 1, k - 1)
           after == SubSeq(s, k + 1, Len(s))
<1>1. Len(s) \in Nat /\ k \in Nat /\ 1 <= k /\ k <= Len(s) /\ \A i \in 1..Len(s) : s[i] \in S
  BY ElementOfSeq, LenProperties
<1>2. /\ before \in Seq(S) /\ Len(before) = k - 1
      /\ \A i \in 1..(k - 1) : before[i] = s[i]
  <2>1. \A i \in 1..(k - 1) : s[i] \in S
    BY <1>1
  <2>2. /\ before \in Seq(S) /\ Len(before) = IF 1 <= k - 1 THEN k - 1 - 1 + 1 ELSE 0
        /\ \A i \in 1..(k - 1 - 1 + 1) : before[i] = s[1 + i - 1]
    BY <1>1, <2>1, SubSeqProperties
  <2> QED
    BY <1>1, <2>2
<1>3. /\ after \in Seq(S) /\ Len(after) = Len(s) - k
      /\ \A i \in 1..(Len(s) - k) : after[i] = s[k + i]
  <2>1. \A i \in (k + 1)..Len(s) : s[i] \in S
    BY <1>1
  <2>2. /\ after \in Seq(S)
        /\ Len(after) = IF k + 1 <= Len(s) THEN Len(s) - (k + 1) + 1 ELSE 0
        /\ \A i \in 1..(Len(s) - (k + 1) + 1) : after[i] = s[(k + 1) + i - 1]
    BY <1>1, <2>1, SubSeqProperties
  <2> QED
    BY <1>1, <2>2
<1> HIDE DEF before, after
<1>4. /\ before \o after \in Seq(S) /\ Len(before \o after) = Len(before) + Len(after)
      /\ \A i \in 1..(Len(before) + Len(after)) : (before \o after)[i] =
             IF i <= Len(before) THEN before[i] ELSE after[i - Len(before)]
  BY <1>2, <1>3, ConcatProperties
<1>5. RemoveAt(s, k) = before \o after
  BY DEF RemoveAt, before, after
<1>6. ASSUME NEW i \in 1..(Len(s) - 1)
      PROVE  (before \o after)[i] = s[IF i < k THEN i ELSE i + 1]
  <2>1. i \in Nat /\ i \in 1..(Len(before) + Len(after))
    BY <1>1, <1>2, <1>3
  <2>2. CASE i < k
    BY <1>1, <1>2, <1>4, <2>1, <2>2
  <2>3. CASE ~(i < k)
    <3>1. i - (k - 1) \in 1..(Len(s) - k) /\ k + (i - (k - 1)) = i + 1
      BY <1>1, <2>1, <2>3
    <3> QED
      BY <1>1, <1>2, <1>3, <1>4, <2>1, <2>3, <3>1
  <2> QED
    BY <2>2, <2>3
<1>7. Len(before \o after) = Len(s) - 1
  BY <1>1, <1>2, <1>3, <1>4
<1>8. before \o after \in Seq(S)
  BY <1>4
<1> QED
  BY <1>5, <1>6, <1>7, <1>8

\* The first of the equal elements is one of them.
LEMMA RemoveFirstAt ==
    ASSUME NEW S, NEW s \in Seq(S), NEW e \in ToSet(s)
    PROVE  \E k \in 1..Len(s) : s[k] = e /\ RemoveFirst(s, e) = RemoveAt(s, k)
<1> DEFINE I == {i \in 1..Len(s) : s[i] = e}
<1>1. \E i \in 1..Len(s) : s[i] = e
  BY LenProperties DEF ToSet
<1>2. I \in SUBSET Nat /\ I # {}
  BY <1>1
<1>3. Min(I) \in I
  BY <1>2, LeastNat
<1>4. RemoveFirst(s, e) = RemoveAt(s, Min(I))
  BY <1>1, <1>2 DEF RemoveFirst, SelectInSeq
<1> QED
  BY <1>3, <1>4

\* Without repetitions the first of the equal elements is the only one.
LEMMA RemoveFirstOK ==
    ASSUME NEW S, NEW s \in Seq(S), NEW e \in ToSet(s)
    PROVE  /\ RemoveFirst(s, e) \in Seq(S) /\ Len(RemoveFirst(s, e)) = Len(s) - 1
           /\ IsInjective(s) => /\ IsInjective(RemoveFirst(s, e))
                                /\ ToSet(RemoveFirst(s, e)) = ToSet(s) \ {e}
<1> DEFINE t == RemoveFirst(s, e)
<1>1. PICK k \in 1..Len(s) : s[k] = e /\ t = RemoveAt(s, k)
  BY RemoveFirstAt
<1>2. /\ t \in Seq(S) /\ Len(t) = Len(s) - 1
      /\ \A i \in 1..(Len(s) - 1) : t[i] = s[IF i < k THEN i ELSE i + 1]
  BY <1>1, RemoveAtOK
<1> HIDE DEF t
<1>3. DOMAIN t = 1..(Len(s) - 1) /\ DOMAIN s = 1..Len(s) /\ Len(s) \in Nat /\ k \in Nat
  BY <1>2, LenProperties
<1>4. ASSUME IsInjective(s)
      PROVE  IsInjective(t)
  <2> SUFFICES ASSUME NEW i \in DOMAIN t, NEW j \in DOMAIN t, t[i] = t[j]
               PROVE  i = j
    BY DEF IsInjective
  <2> DEFINE place(n) == IF n < k THEN n ELSE n + 1
  <2>1. t[i] = s[place(i)] /\ t[j] = s[place(j)]
    BY <1>2, <1>3
  <2>2. i \in Nat /\ j \in Nat /\ place(i) \in DOMAIN s /\ place(j) \in DOMAIN s
    BY <1>3
  <2>3. place(i) = place(j)
    BY <1>4, <2>1, <2>2 DEF IsInjective
  <2> QED
    BY <1>3, <2>2, <2>3
<1>5. ASSUME IsInjective(s), NEW i \in DOMAIN t
      PROVE  t[i] \in ToSet(s) \ {e}
  <2>1. PICK j \in 1..Len(s) : j # k /\ t[i] = s[j]
    BY <1>2, <1>3
  <2>2. s[j] # e
    BY <1>1, <1>3, <1>5, <2>1 DEF IsInjective
  <2> QED
    BY <1>3, <2>1, <2>2 DEF ToSet
<1>6. ASSUME NEW j \in 1..Len(s), s[j] # e
      PROVE  \E i \in DOMAIN t : t[i] = s[j]
  <2>1. j # k
    BY <1>1, <1>6
  <2>2. CASE j < k
    BY <1>2, <1>3, <2>2
  <2>3. CASE j > k
    <3>1. j - 1 \in 1..(Len(s) - 1) /\ ~(j - 1 < k) /\ (j - 1) + 1 = j
      BY <1>3, <2>3
    <3> QED
      BY <1>2, <1>3, <3>1
  <2> QED
    BY <1>3, <2>1, <2>2, <2>3
<1>7. ASSUME IsInjective(s)
      PROVE  ToSet(t) = ToSet(s) \ {e}
  BY <1>3, <1>5, <1>6, <1>7 DEF ToSet
<1> QED
  BY <1>2, <1>4, <1>7 DEF t

\* The elements of a sequence are its head and those of its tail.
LEMMA TailOK ==
    ASSUME NEW S, NEW s \in Seq(S), s # <<>>
    PROVE  /\ Head(s) \in S /\ Tail(s) \in Seq(S)
           /\ ToSet(s) = {Head(s)} \cup ToSet(Tail(s))
<1>1. /\ Head(s) \in S /\ Tail(s) \in Seq(S) /\ Len(Tail(s)) = Len(s) - 1
      /\ \A i \in 1..Len(Tail(s)) : Tail(s)[i] = s[i + 1]
  BY HeadTailProperties
<1>2. Len(s) \in Nat \ {0} /\ DOMAIN s = 1..Len(s) /\ DOMAIN Tail(s) = 1..(Len(s) - 1)
  BY <1>1, EmptySeq, LenProperties
<1>3. Head(s) = s[1]
  BY <1>2
<1>4. ASSUME NEW i \in 1..Len(s)
      PROVE  i = 1 \/ (i - 1 \in 1..(Len(s) - 1) /\ Tail(s)[i - 1] = s[i])
  BY <1>1, <1>2
<1>5. ToSet(s) \subseteq {Head(s)} \cup ToSet(Tail(s))
  BY <1>2, <1>3, <1>4 DEF ToSet
<1>6. {Head(s)} \cup ToSet(Tail(s)) \subseteq ToSet(s)
  BY <1>1, <1>2, <1>3 DEF ToSet
<1> QED
  BY <1>1, <1>5, <1>6

\* One element more.
LEMMA AppendOK ==
    ASSUME NEW S, NEW s \in Seq(S), NEW e \in S
    PROVE  /\ Append(s, e) \in Seq(S) /\ Len(Append(s, e)) = Len(s) + 1
           /\ ToSet(Append(s, e)) = ToSet(s) \cup {e}
<1>1. /\ Append(s, e) \in Seq(S) /\ Len(Append(s, e)) = Len(s) + 1
      /\ \A i \in 1..Len(s) : Append(s, e)[i] = s[i]
      /\ Append(s, e)[Len(s) + 1] = e
  BY AppendProperties
<1>2. /\ DOMAIN Append(s, e) = 1..(Len(s) + 1) /\ DOMAIN s = 1..Len(s) /\ Len(s) \in Nat
  BY <1>1, LenProperties
<1> QED
  BY <1>1, <1>2 DEF ToSet

\* The elements of a sequence.
LEMMA SetOfSeq ==
    ASSUME NEW S, NEW s \in Seq(S)
    PROVE  ToSet(s) \subseteq S /\ (ToSet(s) = {} <=> s = <<>>)
<1>1. DOMAIN s = 1..Len(s) /\ Len(s) \in Nat /\ \A i \in 1..Len(s) : s[i] \in S
  BY LenProperties, ElementOfSeq
<1>2. s # <<>> => 1 \in DOMAIN s
  BY <1>1, EmptySeq
<1>3. ToSet(<<>>) = {}
  BY DEF ToSet
<1> QED
  BY <1>1, <1>2, <1>3 DEF ToSet

\* One clause.
LEMMA LeafOK ==
    ASSUME NEW c \in Clause
    PROVE  /\ Leaf(c) \in Filter /\ Normal(Leaf(c)) /\ Leaf(c).form = "leaf"
           /\ Holds(Leaf(c)) = {c} /\ IsInjective(Leaf(c).clauses)
<1>1. <<c>> \in Seq(Clause) /\ Len(<<c>>) = 1 /\ <<c>> # <<>> /\ DOMAIN <<c>> = {1}
  OBVIOUS
<1>2. Leaf(c) = [form |-> "leaf", clauses |-> <<c>>]
  BY DEF Leaf
<1>3. ToSet(<<c>>) = {c}
  BY <1>1 DEF ToSet
<1>4. IsInjective(<<c>>)
  BY <1>1 DEF IsInjective
<1> QED
  BY <1>1, <1>2, <1>3, <1>4 DEF Filter, Forms, Normal, Unfiltered, Holds

\* Several clauses.
LEMMA AnyOfOK ==
    ASSUME NEW s \in Seq(Clause), Len(s) > 1
    PROVE  /\ AnyOf(s) \in Filter /\ Normal(AnyOf(s)) /\ AnyOf(s).form = "any"
           /\ AnyOf(s).clauses = s /\ Holds(AnyOf(s)) = ToSet(s)
<1>1. Len(s) \in Nat /\ s # <<>>
  BY EmptySeq, LenProperties
<1>2. AnyOf(s).form = "any" /\ AnyOf(s).clauses = s /\ AnyOf(s) \in Filter
  BY DEF AnyOf, Filter, Forms
<1>3. ~Unfiltered(AnyOf(s))
  BY <1>2 DEF Unfiltered
<1>4. Len(s) # 1
  <2>1. Len(s) \in Nat
    BY LenProperties
  <2> QED
    BY <2>1, Lengths, Zenon
<1>5. Normal(AnyOf(s))
  BY <1>1, <1>2, <1>3, <1>4 DEF Normal
<1> QED
  BY <1>2, <1>5 DEF Holds

\* No clause.
LEMMA WithoutOK ==
    ASSUME NEW form \in {"no work", "absent", "null"}
    PROVE  /\ Without(form) \in Filter /\ Normal(Without(form)) /\ Without(form).form = form
           /\ Holds(Without(form)) = {} /\ IsInjective(Without(form).clauses)
<1>1. PICK s \in Seq(Clause) : s = <<>> /\ Len(s) = 0
  BY EmptySeq
<1>2. DOMAIN s = {}
  <2>1. DOMAIN s = 1..Len(s)
    BY LenProperties
  <2> QED
    BY <1>1, <2>1, Lengths, Zenon
<1>3. Without(form).form = form /\ Without(form).clauses = s
  BY <1>1 DEF Without
<1>4. ToSet(s) = {} /\ IsInjective(s)
  BY <1>2 DEF ToSet, IsInjective
<1>5. Unfiltered(Without(form)) /\ form # "leaf"
  BY <1>3 DEF Unfiltered
<1>6. Normal(Without(form))
  <2>1. Len(Without(form).clauses) # 1
    BY <1>1, <1>3, Lengths, Zenon
  <2> QED
    BY <1>1, <1>3, <1>5, <2>1, Zenon DEF Normal
<1>7. Without(form) \in Filter
  BY <1>1 DEF Without, Filter, Forms
<1> QED
  BY <1>3, <1>4, <1>6, <1>7 DEF Holds

----------------------------------------------------------------------------
(* One clause in, one clause out *)

\* The clauses of a normal filter.
LEMMA HoldsOK ==
    ASSUME NEW f \in Filter, Normal(f)
    PROVE  Holds(f) \subseteq Clause /\ (Unfiltered(f) <=> Holds(f) = {})
BY SetOfSeq DEF Filter, Normal, Holds

\* A clause is put in: it is there, with those that were, in the form for that many.
LEMMA PlusOK ==
    ASSUME NEW f \in Filter, Normal(f), NEW c \in Clause
    PROVE  /\ Plus(f, c) \in Filter /\ Normal(Plus(f, c))
           /\ Holds(Plus(f, c)) = Holds(f) \cup {c} /\ ~Unfiltered(Plus(f, c))
<1>1. CASE Unfiltered(f)
  BY <1>1, HoldsOK, LeafOK DEF Plus, Unfiltered
<1>2. CASE ~Unfiltered(f) /\ c \in Holds(f)
  BY <1>2 DEF Plus
<1>3. CASE ~Unfiltered(f) /\ c \notin Holds(f)
  <2>1. f.clauses \in Seq(Clause) /\ f.clauses # <<>>
    BY <1>3 DEF Filter, Normal
  <2>2. Len(f.clauses) \in Nat \ {0}
    BY <2>1, EmptySeq
  <2>3. /\ Append(f.clauses, c) \in Seq(Clause) /\ Len(Append(f.clauses, c)) > 1
        /\ ToSet(Append(f.clauses, c)) = Holds(f) \cup {c}
    BY <2>1, <2>2, AppendOK DEF Holds
  <2>4. Plus(f, c) = AnyOf(Append(f.clauses, c))
    BY <1>3 DEF Plus
  <2> QED
    BY <2>3, <2>4, AnyOfOK DEF Unfiltered
<1> QED
  BY <1>1, <1>2, <1>3

\* A clause is taken out: without repetitions it is gone.
LEMMA MinusOK ==
    ASSUME NEW f \in Filter, Normal(f), NEW c \in Clause
    PROVE  /\ Minus(f, c) \in Filter /\ Normal(Minus(f, c))
           /\ IsInjective(f.clauses) => /\ IsInjective(Minus(f, c).clauses)
                                        /\ Holds(Minus(f, c)) = Holds(f) \ {c}
<1>1. CASE c \notin Holds(f)
  BY <1>1 DEF Minus
<1>2. CASE c \in Holds(f)
  <2> DEFINE kept == RemoveFirst(f.clauses, c)
  <2>1. f.clauses \in Seq(Clause) /\ c \in ToSet(f.clauses)
    BY <1>2 DEF Filter, Holds
  <2>2. /\ kept \in Seq(Clause)
        /\ IsInjective(f.clauses) => IsInjective(kept) /\ ToSet(kept) = Holds(f) \ {c}
    BY <2>1, RemoveFirstOK DEF Holds
  <2>3. Minus(f, c) = IF kept = <<>> THEN Without("null")
                      ELSE IF Len(kept) = 1 THEN Leaf(kept[1])
                      ELSE AnyOf(kept)
    BY <1>2 DEF Minus
  <2> HIDE DEF kept
  <2>4. CASE kept = <<>>
    BY <2>2, <2>3, <2>4, WithoutOK, SetOfSeq
  <2>5. CASE kept # <<>> /\ Len(kept) = 1
    <3>1. kept[1] \in Clause
      BY <2>2, <2>5, ElementOfSeq
    <3>2. ToSet(kept) = {kept[1]}
      BY <2>2, <2>5, LenProperties DEF ToSet
    <3> QED
      BY <2>2, <2>3, <2>5, <3>1, <3>2, LeafOK
  <2>6. CASE kept # <<>> /\ Len(kept) # 1
    <3>1. Len(kept) > 1
      <4>1. Len(kept) \in Nat \ {0}
        BY <2>2, <2>6, EmptySeq
      <4>2. Len(kept) # 1
        BY <2>6
      <4> QED
        BY <4>1, <4>2, Lengths, Zenon
    <3> QED
      BY <2>2, <2>3, <2>6, <3>1, AnyOfOK
  <2> QED
    BY <2>4, <2>5, <2>6
<1> QED
  BY <1>1, <1>2

----------------------------------------------------------------------------
(* The shape of a step *)

\* A process whose expectations are gone has kept its promises.
LEMMA Disturbed ==
    ASSUME NEW p \in Procs, IInv, edit'[p] = edit[p], goal'[p] = Unknown
    PROVE  Expects(p)' /\ (p \in Bootstrappers => Promises(p)')
BY DEF IInv, Expects, Promises, Undisturbed

\* The step of one process that writes the filter.
LEMMA OneWrites ==
    ASSUME IInv, NEW p \in Procs, TypeOK', Surprise(p),
           \A q \in Procs \ {p} : edit'[q] = edit[q],
           Expects(p)', p \in Bootstrappers => Promises(p)'
    PROVE  IInv'
<1>1. \A q \in Procs \ {p} : goal'[q] = Unknown
  BY DEF Surprise
<1>2. \A q \in Procs \ {p} : Expects(q)' /\ (q \in Bootstrappers => Promises(q)')
  BY <1>1, Disturbed
<1>3. Bootstrappers \subseteq Procs
  BY DEF Procs
<1> QED
  BY <1>2, <1>3 DEF IInv

\* A step of somebody who is none of the processes.
LEMMA OutsiderInv ==
    ASSUME IInv, TypeOK', SurpriseAll, UNCHANGED edit
    PROVE  IInv'
<1>1. \A q \in Procs : Expects(q)' /\ (q \in Bootstrappers => Promises(q)')
  BY Disturbed DEF SurpriseAll
<1>2. Bootstrappers \subseteq Procs
  BY DEF Procs
<1> QED
  BY <1>1, <1>2 DEF IInv

\* What is seen of the filter when nothing of it changes.
LEMMA SameSight ==
    ASSUME UNCHANGED <<filter, project, carries>>
    PROVE  /\ Exists' = Exists /\ Unfiltered(filter)' = Unfiltered(filter)
           /\ AttachedBeads' = AttachedBeads /\ Holds(filter)' = Holds(filter)
           /\ \A c \in Candidates : Count(c)' = Count(c)
BY DEF Exists, Unfiltered, AttachedBeads, Matches, Resolve, Holds, Count

\* A step of one process that changes nothing but what it is about to do.
LEMMA OneThinks ==
    ASSUME IInv, NEW p \in Procs, NEW j \in Job, NEW g \in (SUBSET Clause) \cup {Unknown},
           edit' = [edit EXCEPT ![p] = j], goal' = [goal EXCEPT ![p] = g],
           UNCHANGED <<filter, project, carries>>,
           Expects(p)', p \in Bootstrappers => Promises(p)'
    PROVE  IInv'
<1>1. TypeOK'
  BY DEF IInv, TypeOK, Normal, Unfiltered
<1>2. ASSUME NEW q \in Procs \ {p}
      PROVE  Expects(q)' /\ (q \in Bootstrappers => Promises(q)')
  <2>1. edit'[q] = edit[q] /\ goal'[q] = goal[q]
    BY DEF IInv, TypeOK
  <2>2. Expects(q)'
    BY <2>1 DEF IInv, Expects, Undisturbed, Holds
  <2>3. q \in Bootstrappers => Promises(q)'
    BY <2>1, SameSight DEF IInv, Promises, Undisturbed
  <2> QED
    BY <2>2, <2>3
<1>3. Bootstrappers \subseteq Procs
  BY DEF Procs
<1> QED
  BY <1>1, <1>2, <1>3 DEF IInv

----------------------------------------------------------------------------
(* The steps of others *)

\* Candidates are labels, and may be clauses.
LEMMA CandidateOK ==
    /\ \A c \in Candidates : c \in Clause /\ c \in Labels /\ c # Templated
    /\ \A c \in Clause : Substitute(c) \in Labels
BY BeadFilterAssumption DEF Substitute

\* No expectation is left.
LEMMA NoGoals ==
    ASSUME SurpriseAll
    PROVE  goal' \in [Procs -> (SUBSET Clause) \cup {Unknown}]
BY DEF SurpriseAll

\* The leaves of an option are clauses.
LEMMA LeavesOK ==
    ASSUME NEW s \in Leaves
    PROVE  s \in Seq(Clause)
BY BeadFilterAssumption DEF Leaves, BoundedSeq, SeqOf

\* kerf new writes the first filter.
LEMMA NewInv ==
    ASSUME IInv, NEW leaves \in Leaves, New(leaves)
    PROVE  IInv'
<1>1. leaves \in Seq(Clause)
  BY LeavesOK
<1>2. filter' \in Filter /\ Normal(filter')
  <2>1. CASE Len(leaves) = 1 /\ filter' = Leaf(leaves[1])
    <3>1. leaves[1] \in Clause
      BY <1>1, <2>1, ElementOfSeq
    <3> QED
      BY <2>1, <3>1, LeafOK
  <2>2. CASE Len(leaves) > 1 /\ filter' = AnyOf(leaves)
    BY <1>1, <2>2, AnyOfOK
  <2>3. CASE \E c \in Dominant : filter' = Leaf(c)
    BY <2>3, CandidateOK, LeafOK DEF Dominant
  <2>4. CASE filter' = Without("null")
    BY <2>4, WithoutOK
  <2> QED
    BY <2>1, <2>2, <2>3, <2>4 DEF New
<1>3. TypeOK'
  BY <1>2, NoGoals DEF New, IInv, TypeOK, Normal, Unfiltered
<1> QED
  BY <1>3, OutsiderInv DEF New

\* A command writes spec.yaml again.
LEMMA RewriteInv ==
    ASSUME IInv, Rewrite
    PROVE  IInv'
<1>1. filter' \in Filter /\ Normal(filter')
  BY WithoutOK DEF Rewrite, IInv, TypeOK
<1>2. TypeOK'
  BY <1>1, NoGoals DEF Rewrite, IInv, TypeOK, Normal, Unfiltered
<1> QED
  BY <1>2, OutsiderInv DEF Rewrite

\* The project has another filter.
LEMMA InitForceInv ==
    ASSUME IInv, NEW l \in Labels, InitForce(l)
    PROVE  IInv'
<1>1. TypeOK'
  BY NoGoals DEF InitForce, IInv, TypeOK, Normal, Unfiltered
<1> QED
  BY <1>1, OutsiderInv DEF InitForce

\* A bead has other labels.
LEMMA RelabelInv ==
    ASSUME IInv, NEW b \in BeadIDs, NEW labels \in SUBSET Labels, Relabel(b, labels)
    PROVE  IInv'
<1>1. TypeOK'
  BY NoGoals DEF Relabel, IInv, TypeOK, Normal, Unfiltered
<1> QED
  BY <1>1, OutsiderInv DEF Relabel

----------------------------------------------------------------------------
(* The steps of the processes *)

\* kerf work edit begins: the goal is set, if no clause is there twice.
LEMMA EditBeginInv ==
    ASSUME IInv, NEW p \in Editors, NEW out \in Leaves, NEW in \in Leaves,
           EditBegin(p, out, in)
    PROVE  IInv'
<1> DEFINE j == [active |-> TRUE, out |-> out, in |-> in]
           g == IF IsInjective(filter.clauses)
                THEN (Holds(filter) \ ToSet(out)) \cup ToSet(in) ELSE Unknown
<1>1. out \in Seq(Clause) /\ in \in Seq(Clause) /\ p \in Procs /\ p \notin Bootstrappers
  BY LeavesOK, BeadFilterAssumption DEF Procs
<1>2. j \in Job
  BY <1>1 DEF Job
<1>3. ToSet(out) \subseteq Clause /\ ToSet(in) \subseteq Clause /\ Holds(filter) \subseteq Clause
  BY <1>1, SetOfSeq, HoldsOK DEF IInv, TypeOK
<1>4. g \in (SUBSET Clause) \cup {Unknown}
  BY <1>3
<1>5. /\ edit' = [edit EXCEPT ![p] = j] /\ goal' = [goal EXCEPT ![p] = g]
      /\ UNCHANGED <<filter, project, carries>>
  BY DEF EditBegin
<1>6. edit'[p] = j /\ goal'[p] = g
  BY <1>1, <1>5 DEF IInv, TypeOK
<1>7. Holds(filter)' = Holds(filter)
  BY <1>5 DEF Holds
<1>8. j.active /\ j.out = out /\ j.in = in
  OBVIOUS
<1> HIDE DEF j
<1>9. Expects(p)'
  BY <1>5, <1>6, <1>7, <1>8 DEF Expects, Undisturbed
<1> HIDE DEF g
<1> QED
  BY <1>1, <1>2, <1>4, <1>5, <1>9, OneThinks

\* A proposal starts with a candidate that enough open beads carry.
LEMMA ProposalsOK ==
    ASSUME NEW s \in Proposals
    PROVE  /\ s \in Seq(Clause)
           /\ \E c \in Candidates \cap ToSet(s) : Count(c) >= MemberFloor
<1>1. \A c \in Candidates : Count(c) \in Nat
  <2> SUFFICES ASSUME NEW c \in Candidates PROVE Count(c) \in Nat
    OBVIOUS
  <2>1. IsFiniteSet({b \in BeadIDs : c \in carries[b]})
    BY BeadFilterAssumption, FS_Subset
  <2> QED
    BY <2>1, FS_CardinalityType DEF Count
<1>2. MemberFloor \in Nat /\ AbsoluteFloor \in Nat /\ AbsoluteFloor >= MemberFloor
  BY BeadFilterAssumption
<1>3. CASE Dominant # {}
  <2>1. PICK c \in Dominant : s = <<c>>
    BY <1>3 DEF Proposals
  <2>2. c \in Candidates /\ Count(c) >= AbsoluteFloor
    BY DEF Dominant
  <2>3. c \in Clause /\ Count(c) >= MemberFloor
    BY <1>1, <1>2, <2>2, CandidateOK
  <2>4. s \in Seq(Clause) /\ ToSet(s) = {c}
    BY <2>1, <2>3, LeafOK DEF Leaf, Holds, Filter
  <2> QED
    BY <2>2, <2>3, <2>4
<1>4. CASE Dominant = {}
  <2>1. ~(Cardinality(Members) < 2) /\ s \in SetToSeqs(Members)
    BY <1>4 DEF Proposals
  <2>2. Members \subseteq Candidates /\ Cardinality(Members) \in Nat
    BY BeadFilterAssumption, FS_Subset, FS_CardinalityType DEF Members
  <2>3. s \in [1..Cardinality(Members) -> Members]
    BY <2>1 DEF SetToSeqs
  <2>4. 1 \in DOMAIN s /\ s[1] \in Members
    BY <2>1, <2>2, <2>3
  <2>5. s[1] \in Candidates /\ s[1] \in ToSet(s) /\ Count(s[1]) >= MemberFloor
    BY <2>4 DEF Members, ToSet
  <2>6. Members \subseteq Clause
    BY <2>2, CandidateOK
  <2>7. s \in Seq(Clause)
    BY <2>2, <2>3, <2>6
  <2> QED
    BY <2>5, <2>7
<1> QED
  BY <1>3, <1>4

\* kerf bootstrap-filters proposes, for a work without open beads.
LEMMA BootstrapBeginInv ==
    ASSUME IInv, NEW p \in Bootstrappers, BootstrapBegin(p)
    PROVE  IInv'
<1>1. PICK s \in Proposals :
        /\ edit' = [edit EXCEPT ![p] = [active |-> TRUE, out |-> <<>>, in |-> s]]
        /\ goal' = [goal EXCEPT ![p] = Holds(filter) \cup ToSet(s)]
  BY DEF BootstrapBegin
<1> DEFINE j == [active |-> TRUE, out |-> <<>>, in |-> s]
           g == Holds(filter) \cup ToSet(s)
<1>2. p \in Procs /\ UNCHANGED <<filter, project, carries>> /\ Exists /\ AttachedBeads = {}
  BY DEF Procs, BootstrapBegin
<1>3. s \in Seq(Clause) /\ \E c \in Candidates \cap ToSet(s) : Count(c) >= MemberFloor
  BY ProposalsOK
<1>4. j \in Job
  BY <1>3 DEF Job
<1>5. g \in (SUBSET Clause) \cup {Unknown}
  BY <1>3, SetOfSeq, HoldsOK DEF IInv, TypeOK
<1>6. edit'[p] = j /\ goal'[p] = g
  BY <1>1, <1>2 DEF IInv, TypeOK
<1>7. j.active /\ j.out = <<>> /\ j.in = s /\ ToSet(<<>>) = {}
  BY DEF ToSet
<1>8. /\ Holds(filter)' = Holds(filter) /\ Exists' /\ AttachedBeads' = {}
      /\ \A c : Count(c)' = Count(c)
  BY <1>2 DEF Holds, Exists, AttachedBeads, Matches, Resolve, Unfiltered, Count
<1> HIDE DEF j
<1>9. Expects(p)'
  BY <1>6, <1>7, <1>8 DEF Expects, Undisturbed
<1>10. Promises(p)'
  BY <1>3, <1>6, <1>7, <1>8 DEF Promises, Undisturbed
<1> HIDE DEF g
<1> QED
  BY <1>1, <1>2, <1>4, <1>5, <1>9, <1>10, OneThinks DEF j, g

\* The next clause goes.
LEMMA TakeOutInv ==
    ASSUME IInv, NEW p \in Procs, TakeOut(p)
    PROVE  IInv'
<1> DEFINE c == Head(edit[p].out)
           j == [edit[p] EXCEPT !.out = Tail(@)]
<1>1. edit[p] \in Job /\ edit[p].out \in Seq(Clause) /\ edit[p].out # <<>> /\ Expects(p)
  BY DEF TakeOut, IInv, TypeOK, Job
<1>2. /\ c \in Clause /\ Tail(edit[p].out) \in Seq(Clause)
      /\ ToSet(edit[p].out) = {c} \cup ToSet(Tail(edit[p].out))
  BY <1>1, TailOK
<1>3. /\ j \in Job /\ j.active = edit[p].active /\ j.in = edit[p].in
      /\ j.out = Tail(edit[p].out)
  BY <1>1, <1>2 DEF Job
<1>4. /\ filter' = Minus(filter, c) /\ edit' = [edit EXCEPT ![p] = j] /\ Surprise(p)
      /\ UNCHANGED <<project, carries>>
  BY DEF TakeOut
<1> HIDE DEF c, j
<1>5. edit'[p] = j /\ goal'[p] = goal[p]
  BY <1>4 DEF IInv, TypeOK, Surprise
<1>6. /\ filter' \in Filter /\ Normal(filter')
      /\ IsInjective(filter.clauses) => /\ IsInjective(filter'.clauses)
                                        /\ Holds(filter)' = Holds(filter) \ {c}
  BY <1>2, <1>4, MinusOK DEF IInv, TypeOK, Holds
<1>7. TypeOK'
  BY <1>3, <1>4, <1>6 DEF IInv, TypeOK, Surprise, Normal, Unfiltered
<1>8. edit[p].active
  <2>1. NoEdit.out = <<>>
    BY DEF NoEdit
  <2> QED
    BY <1>1, <2>1 DEF Expects
<1>9. Undisturbed(p)' =>
        /\ (Holds(filter)' \ ToSet(j.out)) \cup ToSet(j.in) = goal[p]
        /\ IsInjective(filter'.clauses)
  <2> SUFFICES ASSUME goal[p] # Unknown
               PROVE  /\ (Holds(filter)' \ ToSet(j.out)) \cup ToSet(j.in) = goal[p]
                      /\ IsInjective(filter'.clauses)
    BY <1>5 DEF Undisturbed
  <2>1. /\ (Holds(filter) \ ToSet(edit[p].out)) \cup ToSet(edit[p].in) = goal[p]
        /\ IsInjective(filter.clauses)
    BY <1>1, <1>8 DEF Expects, Undisturbed
  <2>2. Holds(filter)' \ ToSet(j.out) = Holds(filter) \ ToSet(edit[p].out)
    BY <1>2, <1>3, <1>6, <2>1
  <2> QED
    BY <1>3, <1>6, <2>1, <2>2
<1>10. Expects(p)'
  BY <1>3, <1>5, <1>8, <1>9 DEF Expects
<1>11. p \notin Bootstrappers
  BY <1>1 DEF IInv, Promises
<1>12. \A q \in Procs \ {p} : edit'[q] = edit[q]
  BY <1>4 DEF IInv, TypeOK
<1> QED
  BY <1>4, <1>7, <1>10, <1>11, <1>12, OneWrites

\* The next clause comes.
LEMMA PutInInv ==
    ASSUME IInv, NEW p \in Procs, PutIn(p)
    PROVE  IInv'
<1> DEFINE c == Head(edit[p].in)
           j == [edit[p] EXCEPT !.in = Tail(@)]
<1>1. /\ edit[p] \in Job /\ edit[p].in \in Seq(Clause) /\ edit[p].in # <<>> /\ edit[p].out = <<>>
      /\ Expects(p)
  BY DEF PutIn, IInv, TypeOK, Job
<1>2. /\ c \in Clause /\ Tail(edit[p].in) \in Seq(Clause)
      /\ ToSet(edit[p].in) = {c} \cup ToSet(Tail(edit[p].in))
  BY <1>1, TailOK
<1>3. /\ j \in Job /\ j.active = edit[p].active /\ j.out = <<>>
      /\ j.in = Tail(edit[p].in)
  BY <1>1, <1>2 DEF Job
<1>4. /\ filter' = Plus(filter, c) /\ edit' = [edit EXCEPT ![p] = j] /\ Surprise(p)
      /\ UNCHANGED <<project, carries>>
  BY DEF PutIn
<1> HIDE DEF c, j
<1>5. edit'[p] = j /\ goal'[p] = goal[p]
  BY <1>4 DEF IInv, TypeOK, Surprise
<1>6. /\ filter' \in Filter /\ Normal(filter') /\ ~Unfiltered(filter')
      /\ Holds(filter)' = Holds(filter) \cup {c}
  BY <1>2, <1>4, PlusOK DEF IInv, TypeOK, Holds
<1>7. TypeOK'
  BY <1>3, <1>4, <1>6 DEF IInv, TypeOK, Surprise, Normal, Unfiltered
<1>8. edit[p].active
  <2>1. NoEdit.in = <<>>
    BY DEF NoEdit
  <2> QED
    BY <1>1, <2>1 DEF Expects
<1>9. Undisturbed(p)' => (Holds(filter)' \ ToSet(j.out)) \cup ToSet(j.in) = goal[p]
  <2> SUFFICES ASSUME goal[p] # Unknown
               PROVE  (Holds(filter)' \ ToSet(j.out)) \cup ToSet(j.in) = goal[p]
    BY <1>5 DEF Undisturbed
  <2>1. (Holds(filter) \ ToSet(<<>>)) \cup ToSet(edit[p].in) = goal[p]
    BY <1>1, <1>8 DEF Expects, Undisturbed
  <2>2. ToSet(<<>>) = {}
    BY DEF ToSet
  <2> QED
    BY <1>2, <1>3, <1>6, <2>1, <2>2
<1>10. Expects(p)'
  BY <1>3, <1>5, <1>8, <1>9 DEF Expects
<1>11. ASSUME p \in Bootstrappers
       PROVE  Promises(p)'
  <2>1. Promises(p)
    BY <1>11 DEF IInv
  <2>2. Exists'
    BY <1>6 DEF Exists, Unfiltered
  <2>3. ~Unfiltered(filter)' /\ \A x \in Candidates : Count(x)' = Count(x)
    BY <1>4, <1>6 DEF Unfiltered, Count
  <2> QED
    BY <1>3, <1>5, <1>8, <2>1, <2>2, <2>3 DEF Promises, Undisturbed
<1>12. \A q \in Procs \ {p} : edit'[q] = edit[q]
  BY <1>4 DEF IInv, TypeOK
<1> QED
  BY <1>4, <1>7, <1>10, <1>11, <1>12, OneWrites

\* The process ends, at whatever point.
LEMMA EndInv ==
    ASSUME IInv, NEW p \in Procs, End(p)
    PROVE  IInv'
<1>1. NoEdit \in Job /\ NoEdit.out = <<>> /\ NoEdit.active = FALSE
  BY DEF NoEdit, Job
<1>2. /\ edit' = [edit EXCEPT ![p] = NoEdit] /\ goal' = [goal EXCEPT ![p] = Unknown]
      /\ UNCHANGED <<filter, project, carries>>
  BY DEF End
<1>3. edit'[p] = NoEdit /\ goal'[p] = Unknown
  BY <1>2 DEF IInv, TypeOK
<1>4. Expects(p)' /\ Promises(p)'
  BY <1>1, <1>3 DEF Expects, Promises, Undisturbed
<1> QED
  BY <1>1, <1>2, <1>4, OneThinks

----------------------------------------------------------------------------
(* The invariance *)

\* No process runs at first.
LEMMA InitInv == FilterInit => IInv
<1> SUFFICES ASSUME FilterInit PROVE IInv
  OBVIOUS
<1>1. NoEdit \in Job /\ NoEdit.out = <<>> /\ NoEdit.active = FALSE
  BY DEF NoEdit, Job
<1>2. filter \in Filter /\ Normal(filter)
  BY WithoutOK DEF FilterInit
<1>3. TypeOK
  BY <1>1, <1>2 DEF FilterInit, TypeOK
<1>4. Bootstrappers \subseteq Procs
  BY DEF Procs
<1> QED
  BY <1>1, <1>3, <1>4 DEF FilterInit, IInv, Expects, Promises, Undisturbed

\* Every step keeps the invariant.
LEMMA NextInv == IInv /\ [FilterNext]_filterVars => IInv'
<1> SUFFICES ASSUME IInv, [FilterNext]_filterVars PROVE IInv'
  OBVIOUS
<1>1. CASE \/ \E leaves \in Leaves : New(leaves)
           \/ Rewrite
           \/ \E l \in Labels : InitForce(l)
           \/ \E b \in BeadIDs : \E labels \in SUBSET Labels : Relabel(b, labels)
  BY <1>1, NewInv, RewriteInv, InitForceInv, RelabelInv
<1>2. CASE \/ \E p \in Editors : \E out, in \in Leaves : EditBegin(p, out, in)
           \/ \E p \in Bootstrappers : BootstrapBegin(p)
           \/ \E p \in Procs : TakeOut(p) \/ PutIn(p) \/ End(p)
  BY <1>2, EditBeginInv, BootstrapBeginInv, TakeOutInv, PutInInv, EndInv
<1>3. CASE UNCHANGED filterVars
  <2>1. TypeOK'
    BY <1>3 DEF filterVars, IInv, TypeOK, Normal, Unfiltered
  <2>2. \A p \in Procs : Expects(p)'
    BY <1>3 DEF filterVars, IInv, Expects, Undisturbed, Holds
  <2>3. \A p \in Bootstrappers : Promises(p)'
    BY <1>3, SameSight DEF filterVars, IInv, Promises, Undisturbed
  <2> QED
    BY <2>1, <2>2, <2>3 DEF IInv
<1> QED
  BY <1>1, <1>2, <1>3 DEF FilterNext

(***************************************************************************)
(* The invariant of the filter and of the processes that edit it.          *)
(***************************************************************************)
THEOREM Invariance == FilterSpec => []IInv
BY InitInv, NextInv, PTL DEF FilterSpec

(***************************************************************************)
(* The property Canonical: after any sequence of edits, rewrites and       *)
(* bootstraps the filter has one of the forms that spec.Read accepts.      *)
(***************************************************************************)
THEOREM FormsAreCanonical == FilterSpec => []Canonical
<1>1. IInv => Canonical
  <2> SUFFICES ASSUME IInv PROVE Canonical
    OBVIOUS
  <2>1. filter.clauses \in Seq(Clause) /\ Normal(filter)
    BY DEF IInv, TypeOK, Filter
  <2>2. filter.clauses = <<>> <=> Len(filter.clauses) = 0
    BY <2>1, EmptySeq
  <2> QED
    BY <2>1, <2>2, Zenon DEF Normal, Canonical
<1> QED
  BY <1>1, Invariance, PTL

(***************************************************************************)
(* The property EditApplied: an edit that nothing interferes with leaves   *)
(* the clauses that were there, less those taken out, and those put in.    *)
(***************************************************************************)
THEOREM EditsAreApplied == FilterSpec => []EditApplied
<1>1. IInv => EditApplied
  <2> SUFFICES ASSUME IInv, NEW p \in Procs, edit[p].active, edit[p].out = <<>>,
                      edit[p].in = <<>>, goal[p] # Unknown
               PROVE  Holds(filter) = goal[p]
    BY DEF EditApplied
  <2>1. (Holds(filter) \ ToSet(<<>>)) \cup ToSet(<<>>) = goal[p]
    BY DEF IInv, Expects, Undisturbed
  <2>2. ToSet(<<>>) = {}
    BY DEF ToSet
  <2> QED
    BY <2>1, <2>2
<1> QED
  BY <1>1, Invariance, PTL

\* The beads that a clause of the filter matches are attached.
LEMMA CandidateAttaches ==
    ASSUME IInv, Exists, NEW c \in Candidates \cap Holds(filter), Count(c) >= MemberFloor
    PROVE  Cardinality(AttachedBeads) >= MemberFloor /\ AttachedBeads # {}
<1>1. ~Unfiltered(filter)
  BY HoldsOK DEF IInv, TypeOK
<1>2. Substitute(c) = c
  BY CandidateOK DEF Substitute
<1>3. c \in Resolve
  BY <1>1, <1>2 DEF Resolve
<1> DEFINE C == {b \in BeadIDs : c \in carries[b]}
<1>4. C \subseteq AttachedBeads /\ AttachedBeads \subseteq BeadIDs
  BY <1>3 DEF AttachedBeads, Matches
<1>5. IsFiniteSet(AttachedBeads) /\ Cardinality(AttachedBeads) \in Nat
  BY <1>4, BeadFilterAssumption, FS_Subset, FS_CardinalityType
<1>6. IsFiniteSet(C) /\ Cardinality(C) <= Cardinality(AttachedBeads)
  BY <1>4, <1>5, FS_Subset
<1>7. Cardinality(C) \in Nat /\ Cardinality(C) >= MemberFloor /\ MemberFloor \in Nat \ {0}
  BY <1>6, FS_CardinalityType, BeadFilterAssumption DEF Count
<1>8. Cardinality(AttachedBeads) >= MemberFloor /\ Cardinality(AttachedBeads) # 0
  BY <1>5, <1>6, <1>7
<1> QED
  BY <1>8, FS_EmptySet

(***************************************************************************)
(* The property BootstrapAttaches: what kerf bootstrap-filters proposed    *)
(* for a work without open beads gives it some, unless beads or filter     *)
(* have changed during the prompt.                                         *)
(***************************************************************************)
THEOREM BootstrapsAttach == FilterSpec => []BootstrapAttaches
<1>1. IInv => BootstrapAttaches
  <2> SUFFICES ASSUME IInv, NEW p \in Bootstrappers, edit[p].active, edit[p].in = <<>>,
                      goal[p] # Unknown
               PROVE  Cardinality(AttachedBeads) >= MemberFloor /\ Coverage = "wired"
    BY DEF BootstrapAttaches
  <2>1. p \in Procs
    BY DEF Procs
  <2>2. /\ (Holds(filter) \ ToSet(<<>>)) \cup ToSet(<<>>) = goal[p] /\ Exists
        /\ \E c \in Candidates \cap goal[p] : Count(c) >= MemberFloor
    BY <2>1 DEF IInv, Expects, Promises, Undisturbed
  <2>3. ToSet(<<>>) = {}
    BY DEF ToSet
  <2>4. PICK c \in Candidates \cap Holds(filter) : Count(c) >= MemberFloor
    BY <2>2, <2>3
  <2>5. Cardinality(AttachedBeads) >= MemberFloor /\ AttachedBeads # {}
    BY <2>2, <2>4, CandidateAttaches
  <2>6. ~Unfiltered(filter)
    BY <2>4, HoldsOK DEF IInv, TypeOK
  <2> QED
    BY <2>2, <2>5, <2>6 DEF Coverage
<1> QED
  BY <1>1, Invariance, PTL

\* A filter that has clauses keeps its beads when it gets one more.
LEMMA PutInKeeps ==
    ASSUME IInv, NEW p \in Procs, PutIn(p), ~Unfiltered(filter)
    PROVE  AttachedBeads \subseteq AttachedBeads'
<1> DEFINE c == Head(edit[p].in)
<1>1. c \in Clause /\ filter' = Plus(filter, c) /\ carries' = carries
  BY TailOK DEF PutIn, IInv, TypeOK, Job
<1>2. Holds(filter') = Holds(filter) \cup {c} /\ ~Unfiltered(filter')
  BY <1>1, PlusOK DEF IInv, TypeOK
<1>3. Resolve \subseteq Resolve'
  BY <1>2 DEF Resolve, Holds
<1>4. Exists'
  BY <1>2 DEF Exists, Unfiltered
<1> QED
  BY <1>1, <1>3, <1>4 DEF AttachedBeads, Matches

(***************************************************************************)
(* The property KeepsAttached: an open bead is detached only by a removal, *)
(* a relabelling, a change of the project's filter, or the first clause of *)
(* a work that had none, and never by a bootstrap whose picture holds.     *)
(***************************************************************************)
THEOREM AttachedIsKept == FilterSpec => KeepsAttached
<1> DEFINE Allowed ==
             \/ carries' # carries
             \/ project' # project
             \/ \E p \in Procs : TakeOut(p)
             \/ Unfiltered(filter) /\ \E p \in Editors : PutIn(p)
             \/ Unfiltered(filter) /\ \E p \in Bootstrappers : PutIn(p) /\ goal[p] = Unknown
<1>1. ASSUME IInv, FilterNext, ~Allowed
      PROVE  AttachedBeads \subseteq AttachedBeads'
  <2>1. ASSUME UNCHANGED <<filter, project, carries>>
        PROVE  AttachedBeads \subseteq AttachedBeads'
    BY <2>1 DEF AttachedBeads, Exists, Matches, Resolve, Unfiltered, Holds
  <2>2. ASSUME NEW leaves \in Leaves, New(leaves)
        PROVE  AttachedBeads \subseteq AttachedBeads'
    BY <2>2 DEF New, AttachedBeads
  <2>3. ASSUME Rewrite
        PROVE  AttachedBeads \subseteq AttachedBeads'
    <3>1. CASE filter.form = "absent"
      BY <2>3, <3>1 DEF Rewrite, AttachedBeads, Exists, Matches, Resolve, Unfiltered, Without
    <3>2. CASE filter.form # "absent"
      BY <2>1, <2>3, <3>2 DEF Rewrite
    <3> QED
      BY <3>1, <3>2
  <2>4. ASSUME NEW l \in Labels, InitForce(l)
        PROVE  AttachedBeads \subseteq AttachedBeads'
    BY <1>1, <2>1, <2>4 DEF InitForce
  <2>5. ASSUME NEW b \in BeadIDs, NEW labels \in SUBSET Labels, Relabel(b, labels)
        PROVE  AttachedBeads \subseteq AttachedBeads'
    BY <1>1, <2>1, <2>5 DEF Relabel
  <2>6. ASSUME NEW p \in Procs, PutIn(p)
        PROVE  AttachedBeads \subseteq AttachedBeads'
    <3>1. CASE ~Unfiltered(filter)
      BY <1>1, <2>6, <3>1, PutInKeeps
    <3>2. CASE Unfiltered(filter)
      <4>1. p \in Bootstrappers /\ goal[p] # Unknown
        BY <1>1, <2>6, <3>2 DEF Procs
      <4>2. edit[p].active
        BY <1>1, <2>6 DEF IInv, Expects, NoEdit, PutIn
      <4>3. AttachedBeads = {}
        BY <1>1, <3>2, <4>1, <4>2 DEF IInv, Promises, Undisturbed
      <4> QED
        BY <4>3
    <3> QED
      BY <3>1, <3>2
  <2>7. ASSUME NEW p \in Procs, TakeOut(p)
        PROVE  AttachedBeads \subseteq AttachedBeads'
    BY <1>1, <2>7
  <2>8. CASE \/ \E p \in Editors : \E out, in \in Leaves : EditBegin(p, out, in)
             \/ \E p \in Bootstrappers : BootstrapBegin(p)
             \/ \E p \in Procs : End(p)
    BY <2>1, <2>8 DEF EditBegin, BootstrapBegin, End
  <2> QED
    BY <1>1, <2>2, <2>3, <2>4, <2>5, <2>6, <2>7, <2>8 DEF FilterNext
<1>2. IInv /\ [FilterNext]_filterVars => [~(AttachedBeads \subseteq AttachedBeads') => Allowed]_filterVars
  BY <1>1
<1> QED
  BY <1>2, Invariance, PTL DEF FilterSpec, KeepsAttached

----------------------------------------------------------------------------
(***************************************************************************)
(* The feed.  What agents hold in hand is a work, a bead and a status of   *)
(* the project; the rest follows from the state kerf next reads.           *)
(***************************************************************************)

WorkStates ==
    [stage : Odd..Finalized, asks : SUBSET Beads, pins : SUBSET Beads, corrupt : BOOLEAN]
Items == [kind : {"bead", "wire", "walk"}, work : Works, bead : Beads \cup {None}]
Jobs ==
    [step : {"idle", "loaded", "holds", "works"}, ws : {None} \cup [Works -> WorkStates],
     item : {None} \cup Items, stage : {None} \cup Odd..Finalized]

FeedTypeOK ==
    /\ deps \in DepChoices
    /\ work \in [Works -> WorkStates]
    /\ store \in [Beads -> {"open", "busy", "closed"}]
    /\ job \in [Agents -> Jobs]

\* A work that is to be walked on is not yet at the last status.
Advice(a) ==
    /\ job[a].step = "loaded" => job[a].ws \in [Works -> WorkStates]
    /\ job[a].step = "holds" /\ job[a].item.kind = "walk" => job[a].stage \in Odd..(LastStage - 1)

FeedInv == FeedTypeOK /\ \A a \in Agents : Advice(a)

\* A bead is attached to works that can be read.
LEMMA AttachedWorks ==
  ASSUME NEW ws, NEW b
  PROVE  Attached(ws, b) \subseteq Readable(ws) /\ Readable(ws) \subseteq Works
<1>1. Owners(ws, b) \subseteq Readable(ws) /\ Readable(ws) \subseteq Works /\ Works \subseteq Nat
  BY FeedAssumption DEF Owners, Readable, Works
<1>2. Owners(ws, b) # {} => Min(Owners(ws, b)) \in Owners(ws, b)
  BY <1>1, LeastNat
<1> QED
  BY <1>1, <1>2 DEF Attached

\* What an agent is given to do.
LEMMA TopItems ==
  ASSUME NEW ws \in [Works -> WorkStates], NEW s, NEW f, NEW i \in Top(ws, s, f)
  PROVE  /\ i \in Items
         /\ ws[i.work].stage \in Odd..Finalized
         /\ i.kind = "walk" => ws[i.work].stage \in Odd..(LastStage - 1)
<1>1. i \in BeadItems(ws, s) \cup Cleanups(ws, s)
  BY DEF Top, Feed
<1>2. LastStage \in Nat \ {0}
  BY FeedAssumption
<1>3. CASE i \in BeadItems(ws, s)
  <2>0. PICK b \in Beads : \E w \in Attached(ws, b) : i = Item("bead", w, b)
    BY <1>3 DEF BeadItems
  <2>1. PICK w \in Attached(ws, b) : i = Item("bead", w, b)
    BY <2>0
  <2>2. w \in Works
    BY AttachedWorks
  <2>3. i \in Items /\ i.work = w /\ i.kind = "bead"
    BY <2>1, <2>2 DEF Item, Items
  <2> QED
    BY <2>2, <2>3 DEF WorkStates
<1>4. CASE i \in NoAttached(ws)
  <2>1. PICK w \in Readable(ws) : i = Item("wire", w, None)
    BY <1>4 DEF NoAttached
  <2>2. w \in Works
    BY DEF Readable
  <2> QED
    BY <2>1, <2>2 DEF Item, Items, WorkStates
<1>5. CASE i \in WalkOwed(ws, s)
  <2>1. PICK w \in Readable(ws) \ Excluded(ws) :
           i = Item("walk", w, None) /\ ws[w].stage # LastStage
    BY <1>5 DEF WalkOwed
  <2>2. w \in Works /\ ws[w].stage # Finalized
    BY DEF Readable, Excluded
  <2>3. ws[w].stage \in Odd..Finalized
    BY <2>2 DEF WorkStates
  <2>4. ws[w].stage \in Odd..(LastStage - 1)
    BY <1>2, <2>1, <2>2, <2>3 DEF Odd, Finalized
  <2> QED
    BY <2>1, <2>2, <2>3, <2>4 DEF Item, Items
<1> QED
  BY <1>1, <1>3, <1>4, <1>5 DEF Cleanups

\* The invariant holds at first,
LEMMA FeedInit ==
  ASSUME Init
  PROVE  FeedInv
<1>1. LastStage \in Nat \ {0}
  BY FeedAssumption
<1>2. work \in [Works -> WorkStates]
  <2>1. PICK A \in FilterChoices :
           work = [w \in Works |-> [stage |-> 1, asks |-> A[w], pins |-> {}, corrupt |-> FALSE]]
    BY DEF Init
  <2>2. \A w \in Works : A[w] \in SUBSET Beads
    BY FeedAssumption
  <2>3. 1 \in Odd..Finalized
    BY <1>1 DEF Odd, Finalized
  <2> QED
    BY <2>1, <2>2, <2>3 DEF WorkStates
<1>3. Idle \in Jobs
  BY DEF Idle, Jobs
<1>4. FeedTypeOK
  BY <1>2, <1>3 DEF Init, FeedTypeOK
<1> QED
  BY <1>4 DEF Init, Idle, FeedInv, Advice

\* Others leave the jobs and the dependencies alone.
LEMMA OutsidersKeep ==
  ASSUME FeedInv, UNCHANGED <<deps, job>>,
         work' \in [Works -> WorkStates], store' \in [Beads -> {"open", "busy", "closed"}]
  PROVE  FeedInv'
BY DEF FeedInv, FeedTypeOK, Advice

\* An agent turns to another job.
LEMMA JobTurns ==
  ASSUME FeedInv, NEW a \in Agents, NEW j \in Jobs, job' = [job EXCEPT ![a] = j], deps' = deps,
         work' \in [Works -> WorkStates], store' \in [Beads -> {"open", "busy", "closed"}],
         j.step = "loaded" => j.ws \in [Works -> WorkStates],
         j.step = "holds" /\ j.item.kind = "walk" => j.stage \in Odd..(LastStage - 1)
  PROVE  FeedInv'
<1>1. job' \in [Agents -> Jobs]
  BY DEF FeedInv, FeedTypeOK
<1>2. \A c \in Agents : job'[c] = IF c = a THEN j ELSE job[c]
  BY DEF FeedInv, FeedTypeOK
<1>3. \A c \in Agents : Advice(c)'
  BY <1>2 DEF FeedInv, Advice
<1> QED
  BY <1>1, <1>3 DEF FeedInv, FeedTypeOK

\* after every step of an agent or of others,
LEMMA FeedNext ==
  ASSUME FeedInv, [Next]_vars
  PROVE  FeedInv'
<1> USE DEF FeedInv, FeedTypeOK
<1>1. LastStage \in Nat \ {0} /\ 0..LastStage \subseteq Odd..Finalized
  BY FeedAssumption DEF Odd, Finalized
<1>2. Idle \in Jobs /\ Idle.step = "idle"
  BY DEF Idle, Jobs
<1>3. ASSUME NEW a \in Agents, Load(a)
      PROVE  FeedInv'
  <2> DEFINE j == [Idle EXCEPT !.step = "loaded", !.ws = work]
  <2>1. j \in Jobs /\ j.step = "loaded" /\ j.ws = work
    BY DEF Idle, Jobs
  <2>2. job' = [job EXCEPT ![a] = j] /\ UNCHANGED <<deps, work, store>>
    BY <1>3 DEF Load, fixed
  <2> HIDE DEF j
  <2> QED
    BY <2>1, <2>2, JobTurns
<1>4. ASSUME NEW a \in Agents, List(a)
      PROVE  FeedInv'
  <2> DEFINE ws == job[a].ws
             j(i) == [Idle EXCEPT !.step = "holds", !.item = i, !.stage = ws[i.work].stage]
  <2>1. ws \in [Works -> WorkStates] /\ UNCHANGED <<deps, work, store>>
    BY <1>4 DEF List, Advice, fixed
  <2>2. CASE job' = [job EXCEPT ![a] = Idle]
    BY <1>2, <2>1, <2>2, JobTurns
  <2>3. CASE \E i \in Top(ws, store, Flags[a]) : job' = [job EXCEPT ![a] = j(i)]
    <3>1. PICK i \in Top(ws, store, Flags[a]) : job' = [job EXCEPT ![a] = j(i)]
      BY <2>3
    <3>2. /\ i \in Items /\ ws[i.work].stage \in Odd..Finalized
          /\ i.kind = "walk" => ws[i.work].stage \in Odd..(LastStage - 1)
      <4> HIDE DEF ws
      <4> QED
        BY <2>1, TopItems
    <3>3. /\ j(i) \in Jobs /\ j(i).step = "holds" /\ j(i).item = i
          /\ j(i).stage = ws[i.work].stage
      BY <3>2 DEF Idle, Jobs
    <3> HIDE DEF j, ws
    <3> QED
      BY <2>1, <3>1, <3>2, <3>3, JobTurns
  <2> QED
    BY <1>4, <2>2, <2>3 DEF List
<1>5. ASSUME NEW a \in Agents, Claim(a)
      PROVE  FeedInv'
  <2> DEFINE j == [job[a] EXCEPT !.step = "works"]
  <2>1. j \in Jobs /\ j.step = "works"
    BY DEF Jobs
  <2>2. /\ job' = [job EXCEPT ![a] = j] \/ job' = [job EXCEPT ![a] = Idle]
        /\ UNCHANGED <<deps, work>>
        /\ store' \in [Beads -> {"open", "busy", "closed"}]
    BY <1>5 DEF Claim, fixed
  <2> HIDE DEF j
  <2> QED
    BY <1>2, <2>1, <2>2, JobTurns
<1>6. ASSUME NEW a \in Agents, Finish(a)
      PROVE  FeedInv'
  <2>1. /\ job' = [job EXCEPT ![a] = Idle] /\ UNCHANGED <<deps, work>>
        /\ store' \in [Beads -> {"open", "busy", "closed"}]
    BY <1>6 DEF Finish, fixed
  <2> QED
    BY <1>2, <2>1, JobTurns
<1>7. ASSUME NEW a \in Agents, Walk(a)
      PROVE  FeedInv'
  <2>1. job' = [job EXCEPT ![a] = Idle] /\ UNCHANGED <<deps, store>>
    BY <1>7 DEF Walk, fixed
  <2>2. work' \in [Works -> WorkStates]
    <3>1. CASE work' = work
      BY <3>1
    <3>2. CASE \E n \in Following(job[a].stage) :
                  work' = [work EXCEPT ![job[a].item.work].stage = n]
      <4>1. PICK n \in Following(job[a].stage) :
                  work' = [work EXCEPT ![job[a].item.work].stage = n]
        BY <3>2
      <4>2. job[a].stage \in Odd..(LastStage - 1)
        BY <1>7 DEF Walk, Advice
      <4>3. n \in Odd..Finalized
        BY <1>1, <4>1, <4>2 DEF Following, Odd, Finalized
      <4> QED
        BY <4>1, <4>3 DEF WorkStates
    <3> QED
      BY <1>7, <3>1, <3>2 DEF Walk, fixed
  <2> QED
    BY <1>2, <2>1, <2>2, JobTurns
<1>8. ASSUME NEW a \in Agents, Wire(a)
      PROVE  FeedInv'
  <2>1. job' = [job EXCEPT ![a] = Idle] /\ UNCHANGED <<deps, store>>
    BY <1>8 DEF Wire, fixed
  <2>2. work' \in [Works -> WorkStates]
    <3>1. CASE work' = work
      BY <3>1
    <3>2. CASE \E b \in Beads : work' = [work EXCEPT ![job[a].item.work].asks = @ \cup {b}]
      <4>1. PICK b \in Beads : work' = [work EXCEPT ![job[a].item.work].asks = @ \cup {b}]
        BY <3>2
      <4>2. \A v \in Works : [work[v] EXCEPT !.asks = @ \cup {b}] \in WorkStates
        BY DEF WorkStates
      <4> QED
        BY <4>1, <4>2
    <3> QED
      BY <1>8, <3>1, <3>2 DEF Wire, fixed
  <2> QED
    BY <1>2, <2>1, <2>2, JobTurns
<1>9. ASSUME NEW w \in Works, NEW n \in Odd..Finalized, SetStatus(w, n)
      PROVE  FeedInv'
  <2>1. work' \in [Works -> WorkStates]
    BY <1>9 DEF SetStatus, WorkStates
  <2> QED
    BY <1>9, <2>1, OutsidersKeep DEF SetStatus, Interfere, fixed
<1>10. ASSUME NEW w \in Works, NEW b \in Beads, Pin(w, b)
       PROVE  FeedInv'
  <2>1. work' \in [Works -> WorkStates]
    <3>1. \A v \in Works :
             /\ [work[v] EXCEPT !.pins = @ \cup {b}] \in WorkStates
             /\ [work[v] EXCEPT !.pins = @ \ {b}] \in WorkStates
      BY DEF WorkStates
    <3> QED
      BY <1>10, <3>1 DEF Pin
  <2> QED
    BY <1>10, <2>1, OutsidersKeep DEF Pin, Interfere, fixed
<1>11. ASSUME NEW w \in Works, NEW d \in BOOLEAN, Damage(w, d)
       PROVE  FeedInv'
  <2>1. work' \in [Works -> WorkStates]
    BY <1>11 DEF Damage, WorkStates
  <2> QED
    BY <1>11, <2>1, OutsidersKeep DEF Damage, Interfere, fixed
<1>12. ASSUME NEW b \in Beads, NEW st \in {"open", "closed"}, ChangeBead(b, st)
       PROVE  FeedInv'
  <2>1. store' \in [Beads -> {"open", "busy", "closed"}]
    BY <1>12 DEF ChangeBead
  <2> QED
    BY <1>12, <2>1, OutsidersKeep DEF ChangeBead, Interfere, fixed
<1>13. CASE Ack
  BY <1>13, OutsidersKeep DEF Ack, Interfere, fixed
<1>14. CASE UNCHANGED vars
  BY <1>14, OutsidersKeep DEF vars, fixed
<1>15. ASSUME NEW a \in Agents, Shelve(a)
       PROVE  FeedInv'
  <2>1. job' = [job EXCEPT ![a] = Idle] /\ UNCHANGED <<deps, work, store>>
    BY <1>15 DEF Shelve, fixed
  <2> QED
    BY <1>2, <2>1, JobTurns
<1> QED
  BY <1>3, <1>4, <1>5, <1>6, <1>7, <1>8, <1>9, <1>10, <1>11, <1>12, <1>13, <1>14,
     <1>15
  DEF Next, AgentStep

\* and so always.
LEMMA FeedInvariant == FeedSpec => []FeedInv
BY FeedInit, FeedNext, PTL DEF FeedSpec

----------------------------------------------------------------------------
(* No items *)

\* Nothing is left when nothing is said.
LEMMA SilentIsDone ==
  ASSUME FeedInv
  PROVE  EmptyMeansDone
<1> SUFFICES ASSUME Silent(work, store, baseline, Default), \A b \in Beads : store[b] # "busy",
                    ~OutOfReach(work, store), ~PinnedAway(work, store),
                    Namesakes(work) = {}, ~Stuck(work)
             PROVE  AllDone
  BY DEF EmptyMeansDone
<1> USE DEF FeedInv, FeedTypeOK
<1>1. Selection(Default) = {"bead", "cleanup", "warning"}
  BY DEF Selection, Default
<1>2. BeadItems(work, store) = {} /\ NoAttached(work) = {} /\ WalkOwed(work, store) = {}
  BY <1>1 DEF Silent, Feed, Cleanups
<1>3. Warnings(work, store, baseline) = {}
  BY <1>1 DEF Silent, Shown
<1>4. Corrupt(work) = {} /\ Untriaged(work, store) = {}
  <2>1. [kind : {"corrupt_spec"}, of : Corrupt(work)] = {}
    BY <1>3 DEF Warnings
  <2>2. ASSUME NEW w \in Corrupt(work)
        PROVE  FALSE
    <3>1. [kind |-> "corrupt_spec", of |-> w] \in [kind : {"corrupt_spec"}, of : Corrupt(work)]
      OBVIOUS
    <3> QED
      BY <2>1, <3>1
  <2> QED
    BY <1>3, <2>2 DEF Warnings
<1>5. Readable(work) = Works
  BY <1>4 DEF Corrupt, Readable
<1>6. LastStage \in Nat \ {0} /\ \A w \in Works : work[w] \in WorkStates
  BY FeedAssumption
\* An open bead of a work that is neither blocked nor finalized is an item.
<1>7. ASSUME NEW b \in Beads, store[b] # "closed", NEW w \in Attached(work, b),
             w \notin Blocked(work), w \notin Excluded(work)
      PROVE  FALSE
  <2>1. store[b] = "open"
    BY <1>7
  <2>2. Item("bead", w, b) \in BeadItems(work, store)
    BY <1>7, <2>1 DEF BeadItems
  <2> QED
    BY <1>2, <2>2
<1>8. \A w \in Works : Complete(work, w)
  <2> DEFINE S == {w \in Works : ~Complete(work, w)}
  <2> SUFFICES ASSUME S # {}
               PROVE  FALSE
    OBVIOUS
  <2>1. PICK w \in S : deps[w] \cap S = {}
    BY DEF Stuck
  <2>2. w \in Works /\ work[w].stage \in 1..(LastStage - 1)
    BY DEF Complete
  <2>3. w \notin Blocked(work)
    BY <1>5, <2>1 DEF Blocked
  <2>4. w \notin Excluded(work) /\ work[w].stage # LastStage
    BY <1>6, <2>1, <2>2 DEF Excluded, Finalized, Namesakes
  <2>5. work[w].asks # {}
    <3>1. CASE work[w].asks = {}
      <4>1. Item("wire", w, None) \in NoAttached(work)
        BY <1>5, <2>2, <2>4, <3>1 DEF NoAttached
      <4> QED
        BY <1>2, <4>1
    <3> QED
      BY <3>1
  <2>6. PICK b \in work[w].asks : b \notin Done(store, Beads)
    <3>1. CASE work[w].asks \subseteq Done(store, Beads)
      <4>1. Item("walk", w, None) \in WalkOwed(work, store)
        BY <1>5, <2>2, <2>4, <2>5, <3>1 DEF WalkOwed
      <4> QED
        BY <1>2, <4>1
    <3> QED
      BY <3>1
  <2>7. b \in Beads /\ store[b] = "open"
    BY <1>6, <2>2, <2>6 DEF Done, WorkStates
  <2>8. w \in Askers(work, b)
    BY <1>5, <2>2, <2>6 DEF Askers
  <2>9. w \in Attached(work, b)
    <3>1. CASE Owners(work, b) = {}
      BY <2>8, <3>1 DEF Attached, Askers
    <3>2. CASE Owners(work, b) # {}
      BY <2>7, <2>8, <3>2 DEF PinnedAway
    <3> QED
      BY <3>1, <3>2
  <2> QED
    BY <1>7, <2>3, <2>4, <2>7, <2>9
<1>9. Blocked(work) = {}
  BY <1>8 DEF Blocked, Readable
<1>10. ASSUME NEW b \in Beads, store[b] # "closed"
       PROVE  FALSE
  <2>1. store[b] = "open"
    BY <1>10
  <2>2. PICK w : w \in Attached(work, b)
    <3>1. CASE Owners(work, b) = {}
      BY <1>4, <2>1, <3>1 DEF Untriaged, Unpinned, Askers, Attached
    <3>2. CASE Owners(work, b) # {}
      BY <3>2 DEF Attached
    <3> QED
      BY <3>1, <3>2
  <2>3. w \notin Excluded(work)
    BY <1>10, <2>2 DEF OutOfReach
  <2> QED
    BY <1>7, <1>9, <1>10, <2>2, <2>3
<1> QED
  BY <1>8, <1>10 DEF AllDone

(***************************************************************************)
(* Whatever agents and others do, for any dependencies, filters and        *)
(* archived codenames: when kerf next has nothing to say, the project is   *)
(* done, but for the cases that EmptyMeansDone names (feed.go, next.go).   *)
(***************************************************************************)
THEOREM NothingLeftUnsaid == FeedSpec => []EmptyMeansDone
BY FeedInvariant, SilentIsDone, PTL

----------------------------------------------------------------------------
(* Recursion over the numbers up to n.  The provers have no induction: it  *)
(* is had from the least number that would be a counterexample.            *)

\* What holds of 0, and of a number after each of which it holds, holds up to n.
LEMMA UpTo ==
  ASSUME NEW n \in Nat, NEW P, 0 \in P, \A k \in 1..n : k - 1 \in P => k \in P
  PROVE  \A k \in 0..n : k \in P
<1> DEFINE Bad == {k \in 0..n : k \notin P}
<1> SUFFICES ASSUME Bad # {}
             PROVE  FALSE
  OBVIOUS
<1>1. Bad \in SUBSET Nat
  OBVIOUS
<1>2. PICK k \in Bad : \A m \in Bad : k <= m
  <2> HIDE DEF Bad
  <2> QED
    BY <1>1, LeastOf
<1>3. k \in 1..n /\ k - 1 \in 0..n /\ k - 1 \notin Bad
  BY <1>2
<1> QED
  BY <1>2, <1>3

\* A recursion over the numbers up to n has a solution.
Recurs(g, V, base, step, n) ==
    /\ g \in [0..n -> V]
    /\ g[0] = base /\ \A k \in 1..n : g[k] = step[g[k - 1]]

\* From every base, by every step.
LEMMA RecursExists ==
  ASSUME NEW V, NEW base \in V, NEW step \in [V -> V], NEW n \in Nat
  PROVE  \E g : Recurs(g, V, base, step, n)
<1> DEFINE P == {k \in Nat : \E g : Recurs(g, V, base, step, k)}
<1>1. 0 \in P
  <2>1. Recurs([k \in 0..0 |-> base], V, base, step, 0)
    BY DEF Recurs
  <2> QED
    BY <2>1
<1>2. ASSUME NEW k \in 1..n, k - 1 \in P
      PROVE  k \in P
  <2>1. PICK g : Recurs(g, V, base, step, k - 1)
    BY <1>2
  <2> DEFINE h == [m \in 0..k |-> IF m = k THEN step[g[k - 1]] ELSE g[m]]
  <2>2. g \in [0..(k - 1) -> V] /\ g[k - 1] \in V
    BY <2>1 DEF Recurs
  <2>3. h \in [0..k -> V]
    BY <2>2
  <2>4. \A m \in 0..(k - 1) : h[m] = g[m]
    OBVIOUS
  <2>5. h[0] = base /\ \A m \in 1..(k - 1) : h[m] = step[h[m - 1]]
    BY <2>1, <2>4 DEF Recurs
  <2>6. h[k] = step[h[k - 1]]
    BY <2>4
  <2>7. Recurs(h, V, base, step, k)
    <3> HIDE DEF h
    <3>1. \A m \in 1..k : m = k \/ m \in 1..(k - 1)
      OBVIOUS
    <3> QED
      BY <2>3, <2>5, <2>6, <3>1 DEF Recurs
  <2> QED
    BY <2>7
<1> HIDE DEF P
<1>3. \A k \in 0..n : k \in P
  BY <1>1, <1>2, UpTo
<1> QED
  BY <1>3 DEF P

\* The greatest of some of the numbers up to n.
LEMMA GreatestOf ==
  ASSUME NEW n \in Nat, NEW S \in SUBSET (1..n), S # {}
  PROVE  Max(S) \in S /\ \A m \in S : m <= Max(S)
<1> DEFINE T == {n - m : m \in S}
<1>1. T \in SUBSET Nat /\ T # {}
  <2>1. \A m \in S : n - m \in Nat
    OBVIOUS
  <2> QED
    BY <2>1
<1>2. PICK k \in T : \A m \in T : k <= m
  <2> HIDE DEF T
  <2> QED
    BY <1>1, LeastOf
<1>3. PICK x \in S : k = n - x
  BY <1>2
<1>4. \A m \in S : n - x <= n - m
  BY <1>2, <1>3
<1>5. \A m \in S : x >= m
  BY <1>4
<1>6. Max(S) \in S /\ \A m \in S : Max(S) >= m
  BY <1>5 DEF Max
<1> QED
  BY <1>6

----------------------------------------------------------------------------
(* The critical path *)

\* The works from which a chain of n dependents begins, by n.
Starting(ws, g) ==
    /\ g \in [0..NumWorks -> SUBSET Works]
    /\ g[0] = Readable(ws)
    /\ \A n \in 1..NumWorks : g[n] = {w \in Readable(ws) : After(ws, w) \cap g[n - 1] # {}}

\* Without a cycle no chain has as many works as there are, and one more.
LEMMA CycleIs ==
  ASSUME NEW ws, ~Cyclic(ws)
  PROVE  \E g : Starting(ws, g) /\ g[NumWorks] = {}
<1> DEFINE R == Readable(ws)
           N == NumWorks
           F(g) == [n \in 0..N |-> IF n = 0 THEN R ELSE {w \in R : After(ws, w) \cap g[n - 1] # {}}]
           later == CHOOSE g : g = F(g)
           step == [X \in SUBSET Works |-> {w \in R : After(ws, w) \cap X # {}}]
           V == SUBSET Works
<1>1. N \in Nat /\ R \in V /\ step \in [V -> V]
  BY FeedAssumption DEF Readable
<1>2. Cyclic(ws) <=> later[N] # {}
  BY DEF Cyclic
<1>3. PICK g : Recurs(g, V, R, step, N)
  <2> HIDE DEF V, step, R, N
  <2> QED
    BY <1>1, RecursExists
<1>4. g = F(g)
  <2>1. g \in [0..N -> V]
    BY <1>3 DEF Recurs
  <2>2. \A n \in 0..N : g[n] = F(g)[n]
    <3>1. g[0] = R
      BY <1>3 DEF Recurs
    <3>2. ASSUME NEW n \in 1..N
          PROVE  g[n] = {w \in R : After(ws, w) \cap g[n - 1] # {}}
      <4>1. g[n] = step[g[n - 1]] /\ n - 1 \in 0..N
        <5> HIDE DEF step, V, R
        <5> QED
          BY <1>1, <1>3 DEF Recurs
      <4>2. g[n - 1] \in V
        BY <2>1, <4>1
      <4> QED
        BY <4>1, <4>2
    <3>3. \A n \in 0..N : n = 0 \/ n \in 1..N
      BY <1>1
    <3> HIDE DEF R
    <3> QED
      BY <3>1, <3>2, <3>3
  <2>3. F(g) = [n \in 0..N |-> F(g)[n]]
    OBVIOUS
  <2> HIDE DEF F
  <2> QED
    BY <2>1, <2>2, <2>3
<1>5. later = F(later)
  <2> HIDE DEF F
  <2> QED
    BY <1>4
<1> HIDE DEF later
<1>6. \A n \in 0..N : later[n] = IF n = 0 THEN R ELSE {w \in R : After(ws, w) \cap later[n - 1] # {}}
  BY <1>5
<1>7. later \in [0..N -> SUBSET Works]
  <2>1. \A n \in 0..N : later[n] \subseteq R
    BY <1>6
  <2> QED
    BY <1>1, <1>5, <2>1
<1>8. Starting(ws, later)
  BY <1>1, <1>6, <1>7 DEF Starting
<1> QED
  BY <1>2, <1>8

\* Without a cycle there is a height that falls along every chain of dependents.
Falls(ws, h) ==
    /\ h \in [Works -> 1..(NumWorks + 1)]
    /\ \A w \in Readable(ws) : h[w] <= NumWorks
    /\ \A w \in Works : \A v \in After(ws, w) : v \in Readable(ws) /\ h[v] < h[w]

\* The number of dependents that a chain from a work still can have.
LEMMA Height ==
  ASSUME NEW ws, ~Cyclic(ws)
  PROVE  \E h : Falls(ws, h)
<1> DEFINE N == NumWorks
<1>0. N \in Nat /\ Readable(ws) \subseteq Works
  BY FeedAssumption DEF Readable
<1>1. PICK g : Starting(ws, g) /\ g[N] = {}
  BY CycleIs
<1>2. \A w \in Readable(ws) : \E m \in 1..N : w \notin g[m] /\ \A k \in 0..(m - 1) : w \in g[k]
  <2> SUFFICES ASSUME NEW w \in Readable(ws)
               PROVE  \E m \in 1..N : w \notin g[m] /\ \A k \in 0..(m - 1) : w \in g[k]
    OBVIOUS
  <2> DEFINE S == {m \in 0..N : w \notin g[m]}
  <2>1. S \in SUBSET Nat /\ S # {}
    BY <1>0, <1>1
  <2>2. PICK m \in S : \A k \in S : m <= k
    <3> HIDE DEF S
    <3> QED
      BY <2>1, LeastOf
  <2>3. m # 0
    BY <1>1, <2>2 DEF Starting
  <2> QED
    BY <1>0, <2>2, <2>3
<1> DEFINE Last1(w, m) == w \notin g[m] /\ \A k \in 0..(m - 1) : w \in g[k]
           h == [w \in Works |-> IF w \in Readable(ws) THEN CHOOSE m \in 1..N : Last1(w, m)
                                 ELSE N + 1]
<1>3. \A w \in Readable(ws) : h[w] \in 1..N /\ Last1(w, h[w])
  <2> SUFFICES ASSUME NEW w \in Readable(ws)
               PROVE  h[w] \in 1..N /\ Last1(w, h[w])
    OBVIOUS
  <2>1. h[w] = CHOOSE m \in 1..N : Last1(w, m)
    BY <1>0
  <2>2. \E m \in 1..N : Last1(w, m)
    BY <1>2
  <2> HIDE DEF Last1, h
  <2> QED
    BY <2>1, <2>2
<1>4. \A w \in Works \ Readable(ws) : h[w] = N + 1
  OBVIOUS
<1>a. h = [w \in Works |-> h[w]]
  OBVIOUS
<1> HIDE DEF h
<1>5. h \in [Works -> 1..(N + 1)]
  BY <1>0, <1>3, <1>4, <1>a
<1>6. ASSUME NEW w \in Works, NEW v \in After(ws, w)
      PROVE  v \in Readable(ws) /\ h[v] < h[w]
  <2>1. v \in Readable(ws)
    BY DEF After
  <2>2. h[v] \in 1..N /\ \A k \in 0..(h[v] - 1) : v \in g[k]
    BY <1>3, <2>1
  <2>3. CASE w \notin Readable(ws)
    BY <1>0, <1>4, <2>1, <2>2, <2>3
  <2>4. CASE w \in Readable(ws)
    <3>1. h[w] \in 1..N /\ w \notin g[h[w]]
      BY <1>3, <2>4
    <3>2. CASE h[w] <= h[v]
      <4>1. h[w] - 1 \in 0..(h[v] - 1)
        BY <2>2, <3>1, <3>2
      <4>2. v \in g[h[w] - 1]
        BY <2>2, <4>1
      <4>3. g[h[w]] = {u \in Readable(ws) : After(ws, u) \cap g[h[w] - 1] # {}}
        BY <1>1, <3>1 DEF Starting
      <4> QED
        BY <2>4, <3>1, <4>2, <4>3
    <3> QED
      BY <2>1, <2>2, <3>1, <3>2
  <2> QED
    BY <2>1, <2>3, <2>4
<1>7. \A w \in Readable(ws) : h[w] <= N
  BY <1>3
<1> QED
  BY <1>5, <1>6, <1>7 DEF Falls

\* One step of visit.
Longest(ws, g, w) ==
    IF After(ws, w) = {} THEN 1 ELSE 1 + Max({g[v] : v \in After(ws, w)})

\* It looks at the direct dependents only.
LEMMA SameLongest ==
  ASSUME NEW ws, NEW w, NEW g, NEW h, \A v \in After(ws, w) : g[v] = h[v]
  PROVE  Longest(ws, g, w) = Longest(ws, h, w)
<1>1. {g[v] : v \in After(ws, w)} = {h[v] : v \in After(ws, w)}
  OBVIOUS
<1> QED
  BY <1>1 DEF Longest

\* Where there is a height, the recursion of visit ends.
LEMMA VisitIs ==
  ASSUME NEW ws, NEW h, Falls(ws, h)
  PROVE  \A w \in Works : Visit(ws)[w] = Longest(ws, Visit(ws), w)
<1> DEFINE N == NumWorks
           Solves(g, n) == /\ g = [w \in Works |-> g[w]]
                           /\ \A w \in Works : h[w] <= n => g[w] = Longest(ws, g, w)
           P == {n \in Nat : \E g : Solves(g, n)}
<1>0. N \in Nat /\ \A w \in Works : h[w] \in 1..(N + 1)
  BY FeedAssumption DEF Falls
<1>1. 0 \in P
  <2>1. Solves([w \in Works |-> 1], 0)
    BY <1>0
  <2> QED
    BY <2>1
<1>2. ASSUME NEW n \in 1..(N + 1), n - 1 \in P
      PROVE  n \in P
  <2>1. PICK g : Solves(g, n - 1)
    BY <1>2
  <2> DEFINE k == [w \in Works |-> IF h[w] <= n - 1 THEN g[w] ELSE Longest(ws, g, w)]
  <2>2. ASSUME NEW w \in Works, h[w] <= n
        PROVE  k[w] = Longest(ws, k, w)
    <3>1. \A v \in After(ws, w) : v \in Works /\ h[v] \in 1..(N + 1) /\ h[v] < h[w]
      BY <1>0 DEF Falls, Readable
    <3>2. \A v \in After(ws, w) : h[v] <= n - 1
      BY <1>0, <2>2, <3>1
    <3>3. \A v \in After(ws, w) : k[v] = g[v]
      BY <3>1, <3>2
    <3>4. k[w] = Longest(ws, g, w)
      BY <2>1
    <3> HIDE DEF k
    <3>5. Longest(ws, k, w) = Longest(ws, g, w)
      BY <3>3, SameLongest
    <3> QED
      BY <3>4, <3>5
  <2>3. Solves(k, n)
    <3>1. k = [w \in Works |-> k[w]]
      OBVIOUS
    <3> HIDE DEF k
    <3> QED
      BY <2>2, <3>1
  <2> HIDE DEF Solves, k
  <2> QED
    BY <2>3
<1> HIDE DEF P
<1>3. N + 1 \in P
  <2>1. \A n \in 0..(N + 1) : n \in P
    BY <1>0, <1>1, <1>2, UpTo
  <2> QED
    BY <1>0, <2>1
<1>4. PICK g : Solves(g, N + 1)
  BY <1>3 DEF P
<1> DEFINE F(f) == [w \in Works |-> IF After(ws, w) = {} THEN 1
                                     ELSE 1 + Max({f[v] : v \in After(ws, w)})]
<1>5. g = F(g)
  <2>1. \A w \in Works : g[w] = IF After(ws, w) = {} THEN 1
                                ELSE 1 + Max({g[v] : v \in After(ws, w)})
    BY <1>0, <1>4 DEF Longest
  <2>2. g = [w \in Works |-> g[w]]
    BY <1>4
  <2> QED
    BY <2>1, <2>2
<1> DEFINE v0 == CHOOSE f : f = F(f)
<1>6. v0 = F(v0)
  <2> HIDE DEF F
  <2> QED
    BY <1>5
<1>7. Visit(ws) = v0
  BY DEF Visit
<1> HIDE DEF v0
<1>8. \A w \in Works : v0[w] = Longest(ws, v0, w)
  BY <1>6 DEF Longest
<1> QED
  BY <1>7, <1>8

\* A work is visited at its longest chain of dependents.
Visited(ws, f, h) ==
    \A w \in Works :
        /\ f[w] \in 1..h[w]
        /\ \A v \in After(ws, w) : f[v] < f[w]
        /\ f[w] # 1 => \E v \in After(ws, w) : f[w] = 1 + f[v]

\* The longest chain shrinks by one along one dependent, and along all of them.
LEMMA VisitFalls ==
  ASSUME NEW ws, NEW h, Falls(ws, h)
  PROVE  Visited(ws, Visit(ws), h)
<1> DEFINE N == NumWorks
           f == Visit(ws)
           Good(w) == f[w] \in 1..h[w]
           P == {n \in Nat : \A w \in Works : h[w] <= n => Good(w)}
<1>0. N \in Nat /\ \A w \in Works : h[w] \in 1..(N + 1)
  BY FeedAssumption DEF Falls
<1>1. \A w \in Works : \A v \in After(ws, w) : v \in Works /\ h[v] < h[w]
  BY DEF Falls, Readable
<1>2. \A w \in Works : f[w] = Longest(ws, f, w)
  BY VisitIs
<1> HIDE DEF f
<1>3. ASSUME NEW w \in Works, \A v \in After(ws, w) : Good(v)
      PROVE  /\ Good(w) /\ \A v \in After(ws, w) : f[v] < f[w]
             /\ f[w] # 1 => \E v \in After(ws, w) : f[w] = 1 + f[v]
  <2> DEFINE S == {f[v] : v \in After(ws, w)}
             n == h[w] - 1
  <2>1. n \in Nat /\ h[w] \in Nat /\ \A v \in After(ws, w) : f[v] \in 1..n
    <3>1. h[w] \in 1..(N + 1)
      BY <1>0
    <3>2. \A v \in After(ws, w) : h[v] \in 1..(N + 1) /\ h[v] < h[w] /\ f[v] \in 1..h[v]
      BY <1>0, <1>1, <1>3
    <3> QED
      BY <1>0, <3>1, <3>2
  <2>2. CASE After(ws, w) = {}
    <3>1. f[w] = 1
      BY <1>2, <2>2 DEF Longest
    <3> QED
      BY <2>1, <2>2, <3>1
  <2>3. CASE After(ws, w) # {}
    <3>1. f[w] = 1 + Max(S)
      BY <1>2, <2>3 DEF Longest
    <3>2. S \in SUBSET (1..n) /\ S # {}
      BY <2>1, <2>3
    <3>3. Max(S) \in S /\ \A m \in S : m <= Max(S)
      <4> HIDE DEF S, n
      <4> QED
        BY <2>1, <3>2, GreatestOf
    <3> DEFINE m == Max(S)
    <3>4. m \in 1..n /\ f[w] = 1 + m /\ (\E v \in After(ws, w) : m = f[v])
          /\ \A v \in After(ws, w) : f[v] <= m
      BY <3>1, <3>2, <3>3
    <3> HIDE DEF m, S
    <3>5. f[w] \in 1..h[w]
      BY <2>1, <3>4
    <3>6. \A v \in After(ws, w) : f[v] < f[w]
      BY <2>1, <3>4
    <3> QED
      BY <3>4, <3>5, <3>6
  <2> QED
    BY <2>2, <2>3
<1>4. 0 \in P
  BY <1>0
<1>5. ASSUME NEW n \in 1..(N + 1), n - 1 \in P
      PROVE  n \in P
  <2> SUFFICES ASSUME NEW w \in Works, h[w] <= n
               PROVE  Good(w)
    OBVIOUS
  <2>1. ASSUME NEW v \in After(ws, w)
        PROVE  Good(v)
    <3>1. v \in Works /\ h[v] < h[w] /\ h[v] \in 1..(N + 1) /\ h[w] \in 1..(N + 1)
      BY <1>0, <1>1
    <3>2. h[v] <= n - 1
      BY <1>0, <3>1
    <3> QED
      BY <1>5, <3>1, <3>2
  <2> HIDE DEF Good
  <2> QED
    BY <1>3, <2>1
<1>6. N + 1 \in P
  <2> HIDE DEF P
  <2>1. \A n \in 0..(N + 1) : n \in P
    BY <1>0, <1>4, <1>5, UpTo
  <2> QED
    BY <1>0, <2>1
<1>7. \A w \in Works : Good(w)
  BY <1>0, <1>6
<1>8. ASSUME NEW w \in Works
      PROVE  /\ Good(w) /\ \A v \in After(ws, w) : f[v] < f[w]
             /\ f[w] # 1 => \E v \in After(ws, w) : f[w] = 1 + f[v]
  <2>1. \A v \in After(ws, w) : Good(v)
    BY <1>1, <1>7
  <2> QED
    BY <1>3, <2>1
<1> QED
  BY <1>8 DEF Visited, f

\* The first of the works with the longest chains.
LEMMA FirstOf ==
  ASSUME NEW S \in SUBSET Works, S # {}, NEW f, NEW n \in Nat, \A w \in S : f[w] \in 1..n
  PROVE  First(S, f) \in S /\ \A v \in S : f[v] <= f[First(S, f)]
<1> DEFINE V == {f[w] : w \in S}
<1>1. V \in SUBSET (1..n) /\ V # {}
  OBVIOUS
<1>2. Max(V) \in V /\ \A m \in V : m <= Max(V)
  <2> HIDE DEF V
  <2> QED
    BY <1>1, GreatestOf
<1>3. PICK u \in S : f[u] = Max(V)
  BY <1>2
<1>4. \A v \in S : f[v] <= f[u]
  BY <1>2, <1>3
<1> DEFINE T == {w \in S : f[w] = f[u]}
<1>5. T \in SUBSET Nat /\ T # {}
  <2>1. S \subseteq Nat
    BY FeedAssumption DEF Works
  <2>2. T \subseteq S /\ u \in T
    OBVIOUS
  <2> QED
    BY <2>1, <2>2
<1>6. PICK w \in T : \A v \in T : w <= v
  <2> HIDE DEF T
  <2> QED
    BY <1>5, LeastOf
<1>7. \A v \in S : f[v] < f[w] \/ (f[v] = f[w] /\ w <= v)
  <2> SUFFICES ASSUME NEW v \in S
               PROVE  f[v] < f[w] \/ (f[v] = f[w] /\ w <= v)
    OBVIOUS
  <2>1. f[w] = f[u] /\ f[v] \in 1..n /\ f[u] \in 1..n /\ f[v] <= f[u]
    BY <1>3, <1>4, <1>6
  <2>2. f[v] = f[u] => w <= v
    BY <1>6
  <2> HIDE DEF T
  <2> QED
    BY <2>1, <2>2
<1> DEFINE First1 == First(S, f)
<1>8. First1 \in S /\ \A v \in S : f[v] < f[First1] \/ (f[v] = f[First1] /\ First1 <= v)
  <2>1. w \in S
    OBVIOUS
  <2> QED
    BY <1>7, <2>1 DEF First
<1> HIDE DEF First1
<1>9. \A v \in S : f[v] <= f[First1]
  BY <1>8
<1> QED
  BY <1>8, <1>9 DEF First1

\* A chain of dependents, each with the longest chain after it.
Chained(ws, f, g, n) ==
    /\ \A k \in 1..n : g[k] \in Readable(ws) /\ f[g[k]] = n - k + 1
    /\ \A k \in 1..n : k # 1 => g[k] \in After(ws, g[k - 1])

\* The critical path is such a chain.
LEMMA PathIs ==
  ASSUME NEW ws, NEW h, Falls(ws, h), Readable(ws) # {}, NEW f, f = Visit(ws)
  PROVE  \E g : LET n == f[First(Readable(ws), f)] IN
                /\ n \in 1..NumWorks /\ \A w \in Readable(ws) : f[w] <= n
                /\ Chained(ws, f, g, n) /\ CriticalPath(ws) = {g[k] : k \in 1..n}
<1> DEFINE N == NumWorks
           R == Readable(ws)
           top == First(R, f)
           n == f[top]
<1>1. N \in Nat /\ R \in SUBSET Works /\ \A w \in R : h[w] \in Nat /\ h[w] <= N
  BY FeedAssumption DEF Falls, Readable
<1>2. Visited(ws, f, h)
  BY VisitFalls
<1>3. \A w \in R : f[w] \in 1..N
  BY <1>1, <1>2 DEF Visited
<1>4. top \in R /\ (\A w \in R : f[w] <= n) /\ n \in 1..N
  BY <1>1, <1>3, FirstOf
<1> DEFINE F(g) == [k \in 1..N |-> IF k = 1 THEN First(R, f) ELSE First(After(ws, g[k - 1]), f)]
           V == Works \cup {First({}, f)}
           step == [w \in V |-> First(After(ws, w), f)]
<1>5. \A w \in R : After(ws, w) \subseteq R
  BY DEF After
<1>6. step \in [V -> V] /\ top \in V
  <2>1. ASSUME NEW w \in V
        PROVE  First(After(ws, w), f) \in V
    <3>1. CASE After(ws, w) = {}
      BY <3>1
    <3>2. CASE After(ws, w) # {}
      <4>1. After(ws, w) \in SUBSET Works /\ \A v \in After(ws, w) : f[v] \in 1..N
        BY <1>1, <1>3 DEF After
      <4>2. First(After(ws, w), f) \in After(ws, w)
        BY <1>1, <3>2, <4>1, FirstOf
      <4> QED
        BY <4>1, <4>2
    <3> QED
      BY <3>1, <3>2
  <2> QED
    BY <1>1, <1>4, <2>1
<1>7. PICK r : Recurs(r, V, top, step, N)
  <2> HIDE DEF V, step, N, top
  <2> QED
    BY <1>1, <1>6, RecursExists
<1> DEFINE g0 == [k \in 1..N |-> r[k - 1]]
<1>8. g0 = F(g0)
  <2>1. ASSUME NEW k \in 1..N
        PROVE  g0[k] = IF k = 1 THEN First(R, f) ELSE First(After(ws, g0[k - 1]), f)
    <3>1. g0[k] = r[k - 1]
      OBVIOUS
    <3>2. CASE k = 1
      BY <1>7, <3>1, <3>2 DEF Recurs
    <3>3. CASE k # 1
      <4>1. k - 1 \in 1..N /\ k - 2 \in 0..N /\ g0[k - 1] = r[k - 2] /\ (k - 1) - 1 = k - 2
        BY <1>1, <3>3
      <4>2. r[k - 1] = step[r[k - 2]] /\ r[k - 2] \in V
        <5> HIDE DEF V, step, top, g0
        <5> QED
          BY <1>7, <4>1 DEF Recurs
      <4> HIDE DEF g0
      <4> QED
        BY <3>1, <3>3, <4>1, <4>2
    <3> QED
      BY <3>2, <3>3
  <2>2. g0 = [k \in 1..N |-> g0[k]]
    OBVIOUS
  <2> HIDE DEF g0
  <2> QED
    BY <2>1, <2>2
<1> DEFINE chain == CHOOSE g : g = F(g)
<1>9. chain = F(chain)
  <2> HIDE DEF F, g0
  <2> QED
    BY <1>8
<1>10. CriticalPath(ws) = {chain[k] : k \in 1..n}
  BY DEF CriticalPath
<1> HIDE DEF chain, g0, step, V
<1>11. \A k \in 1..N : chain[k] = IF k = 1 THEN top ELSE First(After(ws, chain[k - 1]), f)
  BY <1>9
<1> HIDE DEF F
<1> DEFINE Good(k) == chain[k] \in R /\ f[chain[k]] = n - k + 1
           P == {k \in Nat : k + 1 <= n => Good(k + 1)}
<1>12. ASSUME NEW k \in 2..n, Good(k - 1)
       PROVE  Good(k) /\ chain[k] \in After(ws, chain[k - 1])
  <2> DEFINE u == chain[k - 1]
             A == After(ws, u)
  <2>1. u \in R /\ u \in Works /\ f[u] = n - k + 2 /\ f[u] # 1
    BY <1>1, <1>4, <1>12
  <2>2. /\ A \in SUBSET Works /\ A \subseteq R /\ \A v \in A : f[v] \in 1..N /\ f[v] < f[u]
    BY <1>1, <1>2, <1>3, <1>5, <2>1 DEF Visited
  <2>3. PICK v \in A : f[u] = 1 + f[v]
    BY <1>2, <2>1 DEF Visited
  <2>4. chain[k] = First(A, f)
    BY <1>1, <1>4, <1>11
  <2> HIDE DEF u, A
  <2>5. chain[k] \in A /\ f[v] <= f[chain[k]]
    BY <1>1, <2>2, <2>3, <2>4, FirstOf
  <2>6. f[chain[k]] \in 1..N /\ f[chain[k]] < f[u] /\ f[v] \in 1..N
    BY <2>2, <2>3, <2>5
  <2>7. f[chain[k]] = n - k + 1
    BY <1>1, <1>4, <2>1, <2>3, <2>5, <2>6
  <2> QED
    BY <2>2, <2>5, <2>7 DEF u, A
<1>13. 0 \in P
  BY <1>1, <1>4, <1>11
<1>14. ASSUME NEW k \in 1..N, k - 1 \in P
       PROVE  k \in P
  <2> SUFFICES ASSUME k + 1 <= n
               PROVE  Good(k + 1)
    OBVIOUS
  <2>1. k + 1 \in 2..n /\ (k + 1) - 1 = k /\ (k - 1) + 1 = k
    BY <1>1, <1>4
  <2>2. Good(k)
    BY <1>1, <1>4, <1>14, <2>1
  <2> HIDE DEF Good
  <2>3. Good((k + 1) - 1)
    BY <2>1, <2>2
  <2> QED
    BY <1>12, <2>1, <2>3
<1>15. \A k \in 0..N : k \in P
  <2> HIDE DEF P
  <2> QED
    BY <1>1, <1>13, <1>14, UpTo
<1>16. \A k \in 1..n : Good(k)
  <2> SUFFICES ASSUME NEW k \in 1..n
               PROVE  Good(k)
    OBVIOUS
  <2>1. k - 1 \in 0..N /\ (k - 1) + 1 = k /\ k <= n
    BY <1>1, <1>4
  <2> HIDE DEF Good
  <2> QED
    BY <1>15, <2>1
<1>17. ASSUME NEW k \in 1..n, k # 1
       PROVE  chain[k] \in After(ws, chain[k - 1])
  <2>1. k \in 2..n /\ k - 1 \in 1..n
    BY <1>4, <1>17
  <2> HIDE DEF Good
  <2> QED
    BY <1>12, <1>16, <2>1
<1>18. Chained(ws, f, chain, n)
  BY <1>16, <1>17 DEF Chained
<1> HIDE DEF n
<1> QED
  BY <1>4, <1>10, <1>18 DEF n

\* What some works depend on, and what a work depends on in so many steps.
DepsOf(ws, X) == UNION {deps[v] \cap Readable(ws) : v \in X}
Before(ws, w, g) ==
    /\ g \in [0..NumWorks -> SUBSET Works]
    /\ g[0] = {} /\ \A n \in 1..NumWorks : g[n] = DepsOf(ws, {w} \cup g[n - 1])

\* They are works that can be read.
LEMMA DepsOfIs ==
  ASSUME NEW ws, NEW X
  PROVE  \A x : x \in DepsOf(ws, X) <=> x \in Readable(ws) /\ \E v \in X : x \in deps[v]
BY DEF DepsOf

\* Earlier is what that recursion ends with.
LEMMA EarlierIs ==
  ASSUME NEW ws, NEW w \in Works
  PROVE  \E g : Before(ws, w, g) /\ Earlier(ws, w) = g[NumWorks]
<1> DEFINE N == NumWorks
           V == SUBSET Works
           step == [X \in V |-> DepsOf(ws, {w} \cup X)]
           F(g) == [n \in 0..N |-> IF n = 0 THEN {}
                                   ELSE UNION {deps[v] \cap Readable(ws) : v \in {w} \cup g[n - 1]}]
           D(g) == [n \in 0..N |-> IF n = 0 THEN {} ELSE DepsOf(ws, {w} \cup g[n - 1])]
           before == CHOOSE g : g = F(g)
<1>1. N \in Nat /\ {} \in V /\ step \in [V -> V]
  <2>1. \A X : DepsOf(ws, X) \subseteq Works
    BY DepsOfIs DEF Readable
  <2> QED
    BY <2>1, FeedAssumption
<1>2. Earlier(ws, w) = before[N]
  BY DEF Earlier
<1>a. \A g : F(g) = D(g)
  BY DEF DepsOf
<1>3. PICK g : Recurs(g, V, {}, step, N)
  <2> HIDE DEF V, step, N
  <2> QED
    BY <1>1, RecursExists
<1> HIDE DEF F
<1>4. g = D(g)
  <2>1. g \in [0..N -> V]
    BY <1>3 DEF Recurs
  <2>2. \A n \in 0..N : g[n] = D(g)[n]
    <3>1. g[0] = {}
      BY <1>3 DEF Recurs
    <3>2. ASSUME NEW n \in 1..N
          PROVE  g[n] = DepsOf(ws, {w} \cup g[n - 1])
      <4>1. g[n] = step[g[n - 1]] /\ n - 1 \in 0..N
        <5> HIDE DEF step, V
        <5> QED
          BY <1>1, <1>3 DEF Recurs
      <4>2. g[n - 1] \in V
        BY <2>1, <4>1
      <4> QED
        BY <4>1, <4>2
    <3>3. \A n \in 0..N : n = 0 \/ n \in 1..N
      BY <1>1
    <3> QED
      BY <3>1, <3>2, <3>3
  <2>3. D(g) = [n \in 0..N |-> D(g)[n]]
    OBVIOUS
  <2> HIDE DEF D
  <2> QED
    BY <2>1, <2>2, <2>3
<1>5. before = D(before)
  <2>1. g = F(g)
    BY <1>4, <1>a
  <2>2. before = F(before)
    BY <2>1
  <2> HIDE DEF before, D
  <2> QED
    BY <2>2, <1>a
<1> HIDE DEF before
<1>6. \A n \in 0..N : before[n] = IF n = 0 THEN {} ELSE DepsOf(ws, {w} \cup before[n - 1])
  BY <1>5
<1>7. before \in [0..N -> V]
  <2>a. \A X : DepsOf(ws, X) \subseteq Works
    BY DepsOfIs DEF Readable
  <2>1. \A n \in 0..N : before[n] \subseteq Works
    <3> HIDE DEF before, N
    <3> QED
      BY <1>6, <2>a
  <2> QED
    BY <1>5, <2>1
<1>8. Before(ws, w, before)
  <2>1. before[0] = {}
    <3>1. 0 \in 0..N
      BY <1>1
    <3> HIDE DEF N, V, step, D
    <3> QED
      BY <1>6, <3>1
  <2>2. \A n \in 1..N : before[n] = DepsOf(ws, {w} \cup before[n - 1])
    BY <1>1, <1>6
  <2> QED
    BY <1>7, <2>1, <2>2 DEF Before
<1> QED
  BY <1>2, <1>8

\* What comes earlier has a longer chain after it.
LEMMA EarlierIsHigher ==
  ASSUME NEW ws, NEW f, NEW h, Falls(ws, h), Visited(ws, f, h),
         NEW w \in Readable(ws), NEW v \in Earlier(ws, w)
  PROVE  v \in Readable(ws) /\ f[w] < f[v]
<1> DEFINE N == NumWorks
           Higher(x) == x \in Readable(ws) /\ f[w] < f[x]
<1>1. N \in Nat /\ Readable(ws) \subseteq Works
  BY FeedAssumption DEF Readable
<1>2. PICK g : Before(ws, w, g) /\ Earlier(ws, w) = g[N]
  BY <1>1, EarlierIs
<1> DEFINE P == {n \in Nat : n <= N => \A x \in g[n] : Higher(x)}
<1>3. 0 \in P
  BY <1>2 DEF Before
<1>4. ASSUME NEW n \in 1..N, n - 1 \in P
      PROVE  n \in P
  <2>1. g[n] = DepsOf(ws, {w} \cup g[n - 1]) /\ \A x \in g[n - 1] : Higher(x)
    BY <1>1, <1>2, <1>4 DEF Before
  <2>2. ASSUME NEW x \in g[n]
        PROVE  Higher(x)
    <3>1. x \in Readable(ws) /\ \E u \in {w} \cup g[n - 1] : x \in deps[u]
      BY <2>1, DepsOfIs
    <3>2. PICK u \in {w} \cup g[n - 1] : x \in deps[u]
      BY <3>1
    <3>3. u \in Readable(ws) /\ (u = w \/ f[w] < f[u])
      BY <2>1
    <3>4. u \in After(ws, x)
      BY <3>2, <3>3 DEF After
    <3>5. f[u] < f[x]
      BY <1>1, <3>1, <3>4 DEF Visited
    <3>6. f[u] \in Nat /\ f[x] \in Nat /\ f[w] \in Nat
      BY <1>1, <3>1, <3>3, FeedAssumption DEF Visited, Falls
    <3> QED
      BY <3>1, <3>3, <3>5, <3>6
  <2> QED
    BY <2>2
<1>5. N \in P
  <2> HIDE DEF P
  <2> QED
    BY <1>1, <1>3, <1>4, UpTo
<1> QED
  BY <1>1, <1>2, <1>5

\* On a chain of dependents what comes before a work comes earlier.
LEMMA ChainIsEarlier ==
  ASSUME NEW ws, NEW f, NEW chain, NEW n \in 1..NumWorks, Chained(ws, f, chain, n),
         NEW j \in 1..n, NEW i \in 1..(j - 1)
  PROVE  chain[i] \in Earlier(ws, chain[j])
<1> DEFINE N == NumWorks
           w == chain[j]
<1>1. N \in Nat /\ n \in Nat /\ n <= N /\ j \in 1..n /\ i \in 1..(j - 1)
  BY FeedAssumption
<1>2. w \in Readable(ws) /\ w \in Works
  BY DEF Chained, Readable
<1>3. PICK g : Before(ws, w, g) /\ Earlier(ws, w) = g[N]
  <2> HIDE DEF w
  <2> QED
    BY <1>2, EarlierIs
<1>4. \A k \in 1..n : k # 1 => chain[k - 1] \in deps[chain[k]] /\ chain[k - 1] \in Readable(ws)
  <2> SUFFICES ASSUME NEW k \in 1..n, k # 1
               PROVE  chain[k - 1] \in deps[chain[k]] /\ chain[k - 1] \in Readable(ws)
    OBVIOUS
  <2>1. chain[k] \in After(ws, chain[k - 1]) /\ k - 1 \in 1..n
    BY DEF Chained
  <2> QED
    BY <2>1 DEF Chained, After
<1> DEFINE P == {m \in Nat : m <= N => \A k \in 1..n : k < j /\ j - k <= m => chain[k] \in g[m]}
<1>5. 0 \in P
  BY <1>1
<1>6. ASSUME NEW m \in 1..N, m - 1 \in P
      PROVE  m \in P
  <2>1. g[m] = DepsOf(ws, {w} \cup g[m - 1])
    BY <1>1, <1>3 DEF Before
  <2>2. ASSUME NEW k \in 1..n, k < j, j - k <= m
        PROVE  chain[k] \in g[m]
    <3>1. k + 1 \in 1..n /\ k + 1 # 1 /\ (k + 1) - 1 = k
      BY <1>1, <2>2
    <3>2. chain[k] \in deps[chain[k + 1]] /\ chain[k] \in Readable(ws)
      BY <1>4, <3>1
    <3>3. chain[k + 1] \in {w} \cup g[m - 1]
      <4>1. CASE k + 1 = j
        BY <4>1
      <4>2. CASE k + 1 # j
        <5>1. k + 1 < j /\ j - (k + 1) <= m - 1
          BY <1>1, <2>2, <4>2
        <5> QED
          BY <1>1, <1>6, <3>1, <5>1
      <4> QED
        BY <4>1, <4>2
    <3> QED
      BY <2>1, <3>2, <3>3, DepsOfIs
  <2> QED
    BY <2>2
<1>7. N \in P
  <2> HIDE DEF P
  <2> QED
    BY <1>1, <1>5, <1>6, UpTo
<1>8. i \in 1..n /\ i < j /\ j - i <= N
  BY <1>1
<1>9. chain[i] \in g[N]
  BY <1>1, <1>7, <1>8
<1> QED
  BY <1>3, <1>9

\* As many elements as there are in what they are the images of.
LEMMA AsMany ==
  ASSUME NEW n \in Nat, NEW g, \A x, y \in 1..n : g[x] = g[y] => x = y,
         NEW U, U = {g[x] : x \in 1..n}
  PROVE  Cardinality(U) = n
<1> DEFINE h == [x \in 1..n |-> g[x]]
<1>1. h \in Bijection(1..n, U)
  BY DEF Bijection, Injection, Surjection, IsInjective
<1>2. ExistsBijection(1..n, U)
  BY <1>1 DEF ExistsBijection
<1>3. IsFiniteSet(1..n) /\ Cardinality(1..n) = n
  BY FS_Interval
<1> QED
  BY <1>2, <1>3, FS_Bijection

\* The critical path of works that have one.
\* It is a chain of works that can be read, and of longer ones two works would
\* be at one level, of which neither comes earlier.
LEMMA PathIsLongest ==
  ASSUME Readable(work) # {}, NEW h, Falls(work, h)
  PROVE  CriticalPathLongest
<1> DEFINE ws == work
           N == NumWorks
           R == Readable(ws)
           f == Visit(ws)
           earlier == [w \in Works |-> Earlier(ws, w)]
           IsChain(C) == \A v, w \in C : v < w => v \in earlier[w] \/ w \in earlier[v]
           path == CriticalPath(ws)
           n == f[First(R, f)]
<1>1. N \in Nat /\ R \subseteq Works /\ Works \subseteq Nat
  BY FeedAssumption DEF Readable, Works
<1>2. PICK chain : /\ n \in 1..N /\ \A w \in R : f[w] <= n
                   /\ Chained(ws, f, chain, n) /\ path = {chain[k] : k \in 1..n}
  BY PathIs
<1>3. Visited(ws, f, h)
  BY VisitFalls
<1>4. \A w \in R : earlier[w] = Earlier(ws, w) /\ w \in Nat
  BY <1>1
<1>5. \A w \in R : f[w] \in 1..n
  <2> SUFFICES ASSUME NEW w \in R
               PROVE  f[w] \in 1..n
    OBVIOUS
  <2>1. f[w] \in 1..h[w] /\ h[w] \in 1..(N + 1)
    BY <1>1, <1>3 DEF Visited, Falls
  <2>2. f[w] <= n /\ n \in 1..N
    BY <1>2
  <2> HIDE DEF f, n, N
  <2> QED
    BY <1>1, <2>1, <2>2
<1>6. \A w \in R : \A v \in Earlier(ws, w) : v \in R /\ f[w] < f[v]
  BY <1>3, EarlierIsHigher
<1> HIDE DEF n, f, earlier, path
<1>7. path \subseteq R
  BY <1>2 DEF Chained
<1>8. IsChain(path)
  <2> SUFFICES ASSUME NEW i \in 1..n, NEW j \in 1..n, chain[i] < chain[j]
               PROVE  chain[i] \in earlier[chain[j]] \/ chain[j] \in earlier[chain[i]]
    BY <1>2
  <2>0. chain[i] \in R /\ chain[j] \in R
    BY <1>2 DEF Chained
  <2>1. i # j
    BY <1>4, <2>0
  <2>2. CASE i < j
    <3>1. i \in 1..(j - 1)
      BY <1>2, <2>2
    <3> QED
      BY <1>2, <1>4, <2>0, <3>1, ChainIsEarlier
  <2>3. CASE j < i
    <3>1. j \in 1..(i - 1)
      BY <1>2, <2>3
    <3> QED
      BY <1>2, <1>4, <2>0, <3>1, ChainIsEarlier
  <2> QED
    BY <1>2, <2>1, <2>2, <2>3
<1>9. Cardinality(path) = n
  <2>1. \A x, y \in 1..n : chain[x] = chain[y] => x = y
    BY <1>2 DEF Chained
  <2> QED
    BY <1>2, <2>1, AsMany
<1>10. ASSUME NEW C \in SUBSET R, Cardinality(C) > Cardinality(path), IsChain(C)
       PROVE  FALSE
  <2>1. IsFiniteSet(C)
    <3>1. IsFiniteSet(Works)
      BY FeedAssumption, FS_Interval DEF Works
    <3> QED
      BY <1>1, <3>1, FS_Subset
  <2>2. IsFiniteSet(1..n) /\ Cardinality(1..n) = n
    BY <1>2, FS_Interval
  <2> DEFINE level == [w \in C |-> f[w]]
  <2>3. level \in [C -> 1..n]
    BY <1>5
  <2>4. Cardinality(1..n) < Cardinality(C)
    BY <1>2, <1>9, <1>10, <2>1, <2>2, FS_CardinalityType
  <2>5. PICK x \in C, y \in C : x # y /\ level[x] = level[y]
    <3> HIDE DEF level
    <3> QED
      BY <2>1, <2>2, <2>3, <2>4, FS_PigeonHole
  <2>6. f[x] = f[y] /\ f[x] \in Nat
    BY <1>5, <2>5
  <2>7. x \in Nat /\ y \in Nat /\ x \in R /\ y \in R
    BY <1>4
  <2>8. x \in Earlier(ws, y) \/ y \in Earlier(ws, x)
    BY <1>4, <1>10, <2>5, <2>7
  <2> QED
    BY <1>6, <2>6, <2>7, <2>8
<1> QED
  BY <1>7, <1>8, <1>10 DEF CriticalPathLongest, path, earlier

(***************************************************************************)
(* Whatever the dependencies, and whatever agents and others do: where     *)
(* kerf next decorates the queue and they have no cycle, what it marks as  *)
(* on the critical path is a chain, and none is longer (static.go).        *)
(***************************************************************************)
THEOREM CriticalPathIsLongest == FeedSpec => []CriticalPathLongest
<1>1. CriticalPathLongest
  <2>1. CASE Cyclic(work) \/ ~Decorates(work)
    BY <2>1 DEF CriticalPathLongest
  <2>2. CASE ~Cyclic(work) /\ Decorates(work)
    <3>1. Readable(work) # {}
      BY <2>2 DEF Decorates, Entries
    <3>2. PICK h : Falls(work, h)
      BY <2>2, Height
    <3> QED
      BY <3>1, <3>2, PathIsLongest
  <2> QED
    BY <2>1, <2>2
<1> QED
  BY <1>1, PTL
=============================================================================
