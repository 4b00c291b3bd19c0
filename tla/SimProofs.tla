----------------------------- MODULE SimProofs -----------------------------
(***************************************************************************)
(* The simulator, for every world, any number of works, beads and agents,  *)
(* and every policy: an agent has one bead, no agent idles beside a bead   *)
(* it could take, the policies are compared on the same beads, and what    *)
(* the metrics report of a run is what happened in it.                     *)
(***************************************************************************)
EXTENDS SimMetrics, SimPolicies, Integers, TLAPS, WellFoundedInduction, FiniteSetTheorems

Events ==
    [tick : Nat, kind : {KindComplete, KindArrival, KindAgentFree}, agent : Agents,
     bead : Beads \cup {NoBead}]

TypeOK ==
    /\ world \in Worlds
    /\ status \in [Beads -> {"absent", "open", "in-progress", "closed"}]
    /\ owner \in [Beads -> Agents]
    /\ idle \in [Agents -> BOOLEAN]
    /\ IsABag(heap) /\ BagToSet(heap) \subseteq Events
    /\ \A e \in BagToSet(heap) : e.kind # KindAgentFree => e.bead \in Beads
    /\ clock \in Nat

\* An idle agent with something to do has a wake-up in the present tick.
Awake(a) ==
    \E e \in BagToSet(heap) : e.kind = KindAgentFree /\ e.agent = a /\ e.tick = clock

Served == \A a \in IdleAgents : Dispatchable(status) = {} \/ Awake(a)

\* No event lies in the past.
Future == \A e \in BagToSet(heap) : clock <= e.tick

IInv == TypeOK /\ OneBeadPerAgent /\ Future /\ Served

----------------------------------------------------------------------------
(* The heap *)

\* A set of numbers has a least one.
LEMMA LeastNat ==
  ASSUME NEW S \in SUBSET Nat, S # {}
  PROVE  \E n \in S : \A m \in S : n <= m
<1>1. PICK n \in S : \A m \in S : ~ (<<m, n>> \in OpToRel(<, Nat))
  BY WFMin, NatLessThanWellFounded
<1>2. ASSUME NEW m \in S
      PROVE  n <= m
  <2>1. m \in Nat /\ n \in Nat
    OBVIOUS
  <2>2. ~(m < n)
    BY <1>1, <2>1 DEF OpToRel
  <2> QED
    BY <2>1, <2>2
<1> QED
  BY <1>2

\* A set of numbers has one that is no greater than any of them.
LEMMA LeastValue ==
  ASSUME NEW S, NEW f, f \in [S -> Nat], S # {}
  PROVE  \E e \in S : \A d \in S : f[e] <= f[d]
<1> DEFINE V == {f[e] : e \in S}
<1>1. V \in SUBSET Nat /\ V # {}
  OBVIOUS
<1>2. PICK n \in V : \A m \in V : n <= m
  BY <1>1, LeastNat
<1> QED
  BY <1>2

\* The order of events is total, so that a heap has a first one.
LEMMA PeekFirst ==
  ASSUME NEW h, BagToSet(h) \subseteq Events, BagToSet(h) # {}
  PROVE  /\ Peek(h) \in BagToSet(h)
         /\ \A f \in BagToSet(h) : Peek(h).tick <= f.tick
         /\ \A f \in BagToSet(h) \ {Peek(h)} : Less(Peek(h), f)
<1> DEFINE S == BagToSet(h)
<1>a. \A e \in S : /\ e.tick \in Nat /\ e.kind \in Nat /\ e.agent \in Nat /\ e.bead \in Nat
  <2>1. Agents \subseteq Nat /\ Beads \cup {NoBead} \subseteq Nat
    BY SimAssumption DEF Agents, Beads, NoBead
  <2>2. Events \subseteq [tick : Nat, kind : Nat, agent : Nat, bead : Nat]
    <3> DEFINE R == [tick : Nat, kind : Nat, agent : Nat, bead : Nat]
    <3>1. ASSUME NEW e \in Events
          PROVE  e \in R
      <4>1. /\ e = [tick |-> e.tick, kind |-> e.kind, agent |-> e.agent, bead |-> e.bead]
            /\ e.tick \in Nat /\ e.kind \in {0, 1, 2} /\ e.agent \in Agents
            /\ e.bead \in Beads \cup {NoBead}
        BY DEF Events, KindComplete, KindArrival, KindAgentFree
      <4>2. e.kind \in Nat /\ e.agent \in Nat /\ e.bead \in Nat
        BY <2>1, <4>1
      <4> QED
        BY <4>1, <4>2
    <3> HIDE DEF R
    <3>2. Events \subseteq R
      BY <3>1
    <3> QED
      BY <3>2 DEF R
  <2> QED
    BY <2>2
<1>b. \A e, f \in S : e.tick = f.tick /\ e.kind = f.kind /\ e.agent = f.agent /\ e.bead = f.bead => e = f
  BY DEF Events
<1> HIDE DEF S
<1>1. PICK t \in S : \A d \in S : t.tick <= d.tick
  <2> DEFINE g == [e \in S |-> e.tick]
  <2>1. g \in [S -> Nat]
    BY <1>a
  <2>2. S # {}
    BY DEF S
  <2>3. PICK e \in S : \A d \in S : g[e] <= g[d]
    BY <2>1, <2>2, LeastValue
  <2> QED
    BY <2>3
<1> DEFINE S1 == {e \in S : e.tick = t.tick}
<1>2. PICK k \in S1 : \A d \in S1 : k.kind <= d.kind
  <2> DEFINE g == [e \in S1 |-> e.kind]
  <2>1. g \in [S1 -> Nat] /\ S1 # {}
    BY <1>a, <1>1
  <2> HIDE DEF S1
  <2>3. PICK e \in S1 : \A d \in S1 : g[e] <= g[d]
    BY <2>1, LeastValue
  <2> QED
    BY <2>3
<1> DEFINE S2 == {e \in S1 : e.kind = k.kind}
<1>3. PICK a \in S2 : \A d \in S2 : a.agent <= d.agent
  <2> DEFINE g == [e \in S2 |-> e.agent]
  <2>1. g \in [S2 -> Nat] /\ S2 # {}
    BY <1>a, <1>2
  <2> HIDE DEF S2
  <2>3. PICK e \in S2 : \A d \in S2 : g[e] <= g[d]
    BY <2>1, LeastValue
  <2> QED
    BY <2>3
<1> DEFINE S3 == {e \in S2 : e.agent = a.agent}
<1>4. PICK e \in S3 : \A d \in S3 : e.bead <= d.bead
  <2> DEFINE g == [d \in S3 |-> d.bead]
  <2>1. g \in [S3 -> Nat] /\ S3 # {}
    BY <1>a, <1>3
  <2> HIDE DEF S3
  <2>3. PICK d \in S3 : \A f \in S3 : g[d] <= g[f]
    BY <2>1, LeastValue
  <2> QED
    BY <2>3
<1>5. \A f \in S \ {e} : Less(e, f)
  <2> SUFFICES ASSUME NEW f \in S, f # e
               PROVE  Less(e, f)
    OBVIOUS
  <2>0. /\ e \in S /\ e \in S1 /\ e \in S2
        /\ e.tick = t.tick /\ e.kind = k.kind /\ e.agent = a.agent
    OBVIOUS
  <2>1. CASE f \notin S1
    BY <1>a, <1>1, <2>0, <2>1 DEF Less
  <2>2. CASE f \in S1 \ S2
    BY <1>a, <1>2, <2>0, <2>2 DEF Less
  <2>3. CASE f \in S2 \ S3
    BY <1>a, <1>3, <2>0, <2>3 DEF Less
  <2>4. CASE f \in S3
    <3>1. e.bead <= f.bead /\ e.tick = f.tick /\ e.kind = f.kind /\ e.agent = f.agent
      BY <1>4, <2>0, <2>4
    <3>2. e.bead # f.bead
      BY <1>b, <2>0, <3>1
    <3> QED
      BY <1>a, <2>0, <3>1, <3>2 DEF Less
  <2> QED
    BY <2>1, <2>2, <2>3, <2>4
<1>6. Peek(h) \in S /\ \A f \in S \ {Peek(h)} : Less(Peek(h), f)
  <2>1. e \in S
    OBVIOUS
  <2> QED
    BY <2>1, <1>5 DEF Peek, S
<1>7. \A f \in S : Peek(h).tick <= f.tick
  BY <1>6, <1>a DEF Less
<1> QED
  BY <1>6, <1>7 DEF S

\* What Push and Pop do to a bag.
LEMMA PushBag ==
  ASSUME NEW h, IsABag(h), NEW S
  PROVE  /\ IsABag(Push(h, S)) /\ BagToSet(Push(h, S)) = BagToSet(h) \cup S
         /\ \A e \in BagToSet(h) \ S : Push(h, S)[e] = h[e]
         /\ \A e \in S \ BagToSet(h) : Push(h, S)[e] = 1
BY DEF Push, IsABag, BagToSet, SetToBag, (+)

\* What is left of the heap is a bag without that one event.
LEMMA PopBag ==
  ASSUME NEW h, IsABag(h), Peek(h) \in BagToSet(h)
  PROVE  /\ IsABag(Pop(h))
         /\ BagToSet(Pop(h)) = IF h[Peek(h)] = 1 THEN BagToSet(h) \ {Peek(h)} ELSE BagToSet(h)
         /\ \A e \in BagToSet(h) \ {Peek(h)} : Pop(h)[e] = h[e]
<1> DEFINE p == Peek(h)
<1> HIDE DEF p
<1>1. Pop(h) = [e \in {d \in DOMAIN h : (IF d = p THEN h[d] - 1 ELSE h[d]) > 0} |->
                  IF e = p THEN h[e] - 1 ELSE h[e]]
  BY DEF Pop, SetToBag, (-), p
<1> QED
  BY <1>1 DEF IsABag, BagToSet, p

\* The heap g is the heap h without its first event, and with the events of S.
Replaced(h, g, S) ==
    /\ IsABag(g)
    /\ BagToSet(g) \subseteq BagToSet(h) \cup S
    /\ (BagToSet(h) \ {Peek(h)}) \cup S \subseteq BagToSet(g)
    /\ h[Peek(h)] = 1 /\ Peek(h) \notin S => Peek(h) \notin BagToSet(g)
    /\ \A e \in BagToSet(h) \ (S \cup {Peek(h)}) : g[e] = h[e]
    /\ \A e \in S \ BagToSet(h) : g[e] = 1

\* The heap after an event is taken and another one is added.
LEMMA PopPush ==
  ASSUME NEW h, IsABag(h), Peek(h) \in BagToSet(h), NEW S, NEW g,
         \/ g = Push(Pop(h), S)
         \/ S = {} /\ g = Pop(h)
  PROVE  Replaced(h, g, S)
<1>1. /\ IsABag(Pop(h))
      /\ BagToSet(Pop(h)) = IF h[Peek(h)] = 1 THEN BagToSet(h) \ {Peek(h)} ELSE BagToSet(h)
      /\ \A e \in BagToSet(h) \ {Peek(h)} : Pop(h)[e] = h[e]
  BY PopBag
<1>2. CASE g = Pop(h) /\ S = {}
  BY <1>1, <1>2 DEF Replaced
<1>3. CASE g = Push(Pop(h), S)
  <2> DEFINE q == Pop(h)
  <2> HIDE DEF q
  <2>1. /\ IsABag(q)
        /\ BagToSet(q) = IF h[Peek(h)] = 1 THEN BagToSet(h) \ {Peek(h)} ELSE BagToSet(h)
        /\ \A e \in BagToSet(h) \ {Peek(h)} : q[e] = h[e]
    BY <1>1 DEF q
  <2>2. g = Push(q, S)
    BY <1>3 DEF q
  <2>3. /\ IsABag(g) /\ BagToSet(g) = BagToSet(q) \cup S
        /\ \A e \in BagToSet(q) \ S : g[e] = q[e]
        /\ \A e \in S \ BagToSet(q) : g[e] = 1
    BY <2>1, <2>2, PushBag
  <2>4. BagToSet(q) \subseteq BagToSet(h) /\ BagToSet(h) \ {Peek(h)} \subseteq BagToSet(q)
    BY <2>1
  <2> QED
    BY <2>1, <2>3, <2>4 DEF Replaced
<1> QED
  BY <1>2, <1>3

\* A heap with an event has a first one, which the loop takes.
LEMMA FirstEvent ==
  ASSUME TypeOK, heap # EmptyBag
  PROVE  /\ Peek(heap) \in BagToSet(heap)
         /\ \A f \in BagToSet(heap) : Peek(heap).tick <= f.tick
         /\ \A f \in BagToSet(heap) \ {Peek(heap)} : Less(Peek(heap), f)
<1>1. BagToSet(heap) # {}
  BY DEF TypeOK, IsABag, BagToSet, EmptyBag, SetToBag
<1> QED
  BY <1>1, PeekFirst DEF TypeOK

----------------------------------------------------------------------------
(* The steps *)

\* What the initial heap holds, and that it is a bag.
LEMMA InitInv == ASSUME Init PROVE IInv
<1> DEFINE A == {Event(x.tick, KindArrival, 0, x.bead) : x \in world.timeline}
           W == {Event(0, KindAgentFree, a, NoBead) : a \in Agents}
<1>1. heap = SetToBag(A \cup W) /\ clock = 0 /\ idle = [a \in Agents |-> TRUE]
  BY DEF Init
<1>2. IsABag(heap) /\ BagToSet(heap) = A \cup W
  <2> HIDE DEF A, W
  <2> QED
    BY <1>1 DEF IsABag, BagToSet, SetToBag
<1>3. 0 \in Agents
  BY SimAssumption DEF Agents
<1>4. \A x \in world.timeline : x.tick \in Nat /\ x.bead \in Beads
  BY SimAssumption DEF Init, Worlds, Timelines, Arrivals
<1>5. A \subseteq Events /\ \A e \in A : e.kind = KindArrival /\ e.bead \in Beads
  BY <1>3, <1>4 DEF Event, Events, KindArrival
<1>6. W \subseteq Events /\ \A e \in W : e.kind = KindAgentFree
  BY DEF Event, Events, KindAgentFree
<1> HIDE DEF A
<1>7. status \in [Beads -> {"absent", "open"}] /\ owner \in [Beads -> Agents]
  BY <1>3 DEF Init, From
<1>8. TypeOK
  BY <1>1, <1>2, <1>5, <1>6, <1>7 DEF TypeOK, Init, KindAgentFree
<1>9. OneBeadPerAgent
  <2>1. \A a \in Agents : HeldBy(a) = {} /\ CompletionsOf(a) = {}
    BY <1>2, <1>5, <1>6, <1>7 DEF HeldBy, CompletionsOf, KindArrival, KindAgentFree, KindComplete
  <2> QED
    BY <1>1, <2>1 DEF OneBeadPerAgent
<1>10. Future
  BY <1>1, <1>2, <1>5, <1>6 DEF Future, Events
<1>11. Served
  <2>1. \A a \in Agents : Event(0, KindAgentFree, a, NoBead) \in BagToSet(heap)
    BY <1>2
  <2> QED
    BY <1>1, <2>1 DEF Served, Awake, IdleAgents, Event
<1> QED
  BY <1>8, <1>9, <1>10, <1>11 DEF IInv

\* Works are the same all along, so only a bead's status decides.
LEMMA SameWorks ==
  ASSUME world' = world
  PROVE  Dispatchable(status)' = {b \in Beads : status'[b] = "open" /\ Actionable(WorkOf[b])}
<1>1. \A w : Actionable(w)' = Actionable(w)
  BY DEF Actionable, HasUnmetDeps, WorkStatus, IsComplete, InitialStatus, StatusValues
<1> QED
  BY <1>1 DEF Dispatchable

\* The first event, taken, and the heap that is left with the events of S.
LEMMA TakenEvent ==
  ASSUME IInv, HasNext, NEW k, Due(Peek(heap), k)
  PROVE  \E e \in BagToSet(heap) :
            /\ e = Peek(heap) /\ e \in Events /\ e.kind = k /\ clock' = e.tick
            /\ k # KindAgentFree => e.bead \in Beads
            /\ clock <= e.tick /\ \A f \in BagToSet(heap) : e.tick <= f.tick
            /\ world' = world
<1>1. heap # EmptyBag
  BY DEF HasNext
<1>2. Peek(heap) \in BagToSet(heap) /\ \A f \in BagToSet(heap) : Peek(heap).tick <= f.tick
  BY <1>1, FirstEvent DEF IInv
<1> QED
  BY <1>2 DEF IInv, TypeOK, Future, Due

\* An arrival wakes every idle agent.
LEMMA ArriveKeeps ==
  ASSUME IInv, PopArrival
  PROVE  IInv'
<1>0. HasNext /\ Due(Peek(heap), KindArrival) /\ Arrive(Peek(heap))
  BY DEF PopArrival, Due
<1>1. PICK e \in BagToSet(heap) :
            /\ e = Peek(heap) /\ e \in Events /\ e.kind = KindArrival /\ clock' = e.tick
            /\ e.bead \in Beads
            /\ clock <= e.tick /\ \A f \in BagToSet(heap) : e.tick <= f.tick
            /\ world' = world
  BY <1>0, TakenEvent DEF KindArrival, KindAgentFree
<1> DEFINE S == {Event(e.tick, KindAgentFree, a, NoBead) : a \in IdleAgents}
<1>2. /\ status' = [status EXCEPT ![e.bead] = IF @ = "absent" THEN "open" ELSE @]
      /\ heap' = Push(Pop(heap), S)
      /\ owner' = owner /\ idle' = idle
  BY <1>0, <1>1 DEF Arrive
<1>3. S \subseteq Events /\ \A f \in S : f.kind = KindAgentFree /\ f.tick = e.tick
  BY <1>1 DEF Event, Events, IdleAgents
<1>w. \A a \in IdleAgents :
         \E w \in S : w.kind = KindAgentFree /\ w.agent = a /\ w.tick = e.tick
  <2>1. \A a \in IdleAgents : Event(e.tick, KindAgentFree, a, NoBead) \in S
    OBVIOUS
  <2> HIDE DEF S
  <2> QED
    BY <2>1 DEF Event
<1> HIDE DEF S
<1>4. Replaced(heap, heap', S)
  BY <1>1, <1>2, PopPush DEF IInv, TypeOK
<1>5. TypeOK'
  BY <1>1, <1>2, <1>3, <1>4 DEF IInv, TypeOK, Replaced, Events
<1>6. OneBeadPerAgent'
  <2>1. ASSUME NEW a \in Agents
        PROVE  /\ HeldBy(a)' = HeldBy(a)
               /\ CompletionsOf(a)' = CompletionsOf(a)
               /\ \A c \in CompletionsOf(a) : c \in BagToSet(heap') /\ heap'[c] = heap[c]
    <3>1. HeldBy(a)' = HeldBy(a)
      BY <1>2 DEF HeldBy, IInv, TypeOK
    <3>2. \A c : c \in CompletionsOf(a) => c \notin S /\ c # e
      BY <1>1, <1>3 DEF CompletionsOf, KindComplete, KindArrival, KindAgentFree
    <3>3. CompletionsOf(a)' = CompletionsOf(a)
      BY <1>1, <1>3, <1>4, <3>2 DEF CompletionsOf, Replaced, KindComplete, KindAgentFree
    <3> QED
      BY <1>1, <1>4, <3>1, <3>2, <3>3 DEF CompletionsOf, Replaced
  <2> QED
    BY <1>2, <2>1 DEF IInv, OneBeadPerAgent
<1>7. Future'
  BY <1>1, <1>3, <1>4 DEF Future, Replaced, Events
<1>8. Served'
  BY <1>1, <1>2, <1>w, <1>4 DEF Served, Awake, IdleAgents, Replaced
<1> QED
  BY <1>5, <1>6, <1>7, <1>8 DEF IInv

\* A completion frees its agent and wakes it.
LEMMA CompleteKeeps ==
  ASSUME IInv, PopComplete
  PROVE  IInv'
<1>0. HasNext /\ Due(Peek(heap), KindComplete) /\ CompleteBead(Peek(heap))
  BY DEF PopComplete, Due
<1>1. PICK e \in BagToSet(heap) :
            /\ e = Peek(heap) /\ e \in Events /\ e.kind = KindComplete /\ clock' = e.tick
            /\ e.bead \in Beads
            /\ clock <= e.tick /\ \A f \in BagToSet(heap) : e.tick <= f.tick
            /\ world' = world
  BY <1>0, TakenEvent DEF KindComplete, KindAgentFree
<1> DEFINE n == Event(e.tick, KindAgentFree, e.agent, NoBead)
           S == {n}
<1>2. /\ status' = [status EXCEPT ![e.bead] = "closed"]
      /\ idle' = [idle EXCEPT ![e.agent] = TRUE]
      /\ heap' = Push(Pop(heap), S)
      /\ owner' = owner
  BY <1>0, <1>1 DEF CompleteBead
<1>3. /\ n \in Events /\ n.kind = KindAgentFree /\ n.tick = e.tick /\ n.agent = e.agent
      /\ e.agent \in Agents /\ e.tick \in Nat
  BY <1>1 DEF Event, Events
<1> HIDE DEF n
<1>4. Replaced(heap, heap', S)
  BY <1>1, <1>2, PopPush DEF IInv, TypeOK
<1>5. /\ CompletionsOf(e.agent) = {e} /\ heap[e] = 1 /\ HeldBy(e.agent) = {e.bead}
  BY <1>1, <1>3 DEF IInv, OneBeadPerAgent, CompletionsOf
<1>6. TypeOK'
  <2>1. /\ status' \in [Beads -> {"absent", "open", "in-progress", "closed"}]
        /\ idle' \in [Agents -> BOOLEAN]
    BY <1>1, <1>2, <1>3 DEF IInv, TypeOK
  <2>2. /\ IsABag(heap') /\ BagToSet(heap') \subseteq Events
        /\ \A f \in BagToSet(heap') : f.kind # KindAgentFree => f.bead \in Beads
    BY <1>3, <1>4 DEF IInv, TypeOK, Replaced
  <2> QED
    BY <1>1, <1>2, <1>3, <2>1, <2>2 DEF IInv, TypeOK
<1>7. OneBeadPerAgent'
  <2>1. e \notin BagToSet(heap')
    BY <1>1, <1>3, <1>4, <1>5 DEF Replaced, KindComplete, KindAgentFree
  <2>2. CompletionsOf(e.agent)' = {}
    BY <1>3, <1>4, <1>5, <2>1 DEF Replaced, CompletionsOf, KindComplete, KindAgentFree
  <2>3. HeldBy(e.agent)' = {}
    BY <1>1, <1>2, <1>5 DEF HeldBy, IInv, TypeOK
  <2>4. ASSUME NEW a \in Agents \ {e.agent}
        PROVE  /\ HeldBy(a)' = HeldBy(a)
               /\ CompletionsOf(a)' = CompletionsOf(a)
               /\ \A c \in CompletionsOf(a) : c \in BagToSet(heap') /\ heap'[c] = heap[c]
    <3>1. HeldBy(a)' = HeldBy(a)
      BY <1>1, <1>2, <1>5 DEF HeldBy, IInv, TypeOK
    <3>2. \A c : c \in CompletionsOf(a) => c \notin S /\ c # e
      BY <1>1, <1>3 DEF CompletionsOf, KindComplete, KindAgentFree
    <3>3. CompletionsOf(a)' = CompletionsOf(a)
      BY <1>1, <1>3, <1>4, <3>2 DEF CompletionsOf, Replaced, KindComplete, KindAgentFree
    <3> QED
      BY <1>1, <1>4, <3>1, <3>2, <3>3 DEF CompletionsOf, Replaced
  <2>5. /\ idle'[e.agent] = TRUE /\ \A a \in Agents \ {e.agent} : idle'[a] = idle[a]
    BY <1>2, <1>3 DEF IInv, TypeOK
  <2>6. ASSUME NEW a \in Agents
        PROVE  IF idle'[a] THEN HeldBy(a)' = {} /\ CompletionsOf(a)' = {}
               ELSE \E c \in BagToSet(heap') :
                       CompletionsOf(a)' = {c} /\ heap'[c] = 1 /\ HeldBy(a)' = {c.bead}
    <3>1. CASE a = e.agent
      BY <3>1, <2>2, <2>3, <2>5
    <3>2. CASE a # e.agent
      BY <3>2, <2>4, <2>5 DEF IInv, OneBeadPerAgent
    <3> QED
      BY <3>1, <3>2
  <2> QED
    BY <2>6 DEF OneBeadPerAgent
<1>8. Future'
  BY <1>1, <1>3, <1>4 DEF Future, Replaced
<1>9. Served'
  <2>1. Dispatchable(status)' \subseteq Dispatchable(status)
    BY <1>1, <1>2, SameWorks DEF Dispatchable, IInv, TypeOK
  <2>2. ASSUME NEW a \in IdleAgents', a # e.agent
        PROVE  Dispatchable(status)' = {} \/ Awake(a)'
    <3>1. a \in IdleAgents
      BY <1>2, <1>3, <2>2 DEF IdleAgents, IInv, TypeOK
    <3>2. CASE Dispatchable(status) = {}
      BY <2>1, <3>2
    <3>3. CASE Awake(a)
      <4>1. PICK w \in BagToSet(heap) : w.kind = KindAgentFree /\ w.agent = a /\ w.tick = clock
        BY <3>3 DEF Awake
      <4>2. w # e /\ w.tick = e.tick
        BY <1>1, <1>3, <2>2, <4>1 DEF IInv, TypeOK
      <4> QED
        BY <1>1, <1>4, <4>1, <4>2 DEF Awake, Replaced
    <3> QED
      BY <3>1, <3>2, <3>3 DEF IInv, Served
  <2>3. Awake(e.agent)'
    BY <1>1, <1>3, <1>4 DEF Awake, Replaced
  <2> QED
    BY <2>2, <2>3 DEF Served
<1> QED
  BY <1>6, <1>7, <1>8, <1>9 DEF IInv

\* An agent that wakes up takes a bead, or finds none, or has one already.
LEMMA WakeKeeps ==
  ASSUME IInv, PopAgentFree
  PROVE  IInv'
<1>0. HasNext /\ Due(Peek(heap), KindAgentFree) /\ AgentFree(Peek(heap))
  BY DEF PopAgentFree, Due
<1>1. PICK e \in BagToSet(heap) :
            /\ e = Peek(heap) /\ e \in Events /\ e.kind = KindAgentFree /\ clock' = e.tick
            /\ clock <= e.tick /\ \A f \in BagToSet(heap) : e.tick <= f.tick
            /\ world' = world
  BY <1>0, TakenEvent
<1>2. e.agent \in Agents /\ e.tick \in Nat
  BY <1>1 DEF Events
<1>3. \A c, a : c \in CompletionsOf(a) => c # e
  BY <1>1 DEF CompletionsOf, KindComplete, KindAgentFree
\* Whoever else is idle keeps the wake-up of this tick.
<1>4. ASSUME NEW a \in Agents, idle[a], Dispatchable(status) # {}, a # e.agent,
             (BagToSet(heap) \ {e}) \subseteq BagToSet(heap')
      PROVE  Awake(a)'
  <2>1. PICK w \in BagToSet(heap) : w.kind = KindAgentFree /\ w.agent = a /\ w.tick = clock
    BY <1>4 DEF IInv, Served, IdleAgents, Awake
  <2>2. w # e /\ w.tick = e.tick
    BY <1>1, <1>2, <1>4, <2>1 DEF IInv, TypeOK
  <2> QED
    BY <1>1, <1>4, <2>1, <2>2 DEF Awake
<1>5. CASE StaleWake(e) \/ NothingToDo(e)
  <2>1. heap' = Pop(heap) /\ status' = status /\ owner' = owner /\ idle' = idle
    BY <1>1, <1>5 DEF StaleWake, NothingToDo
  <2>2. Replaced(heap, heap', {})
    BY <1>1, <2>1, PopPush DEF IInv, TypeOK
  <2>3. TypeOK'
    BY <1>1, <1>2, <2>1, <2>2 DEF IInv, TypeOK, Replaced
  <2>4. OneBeadPerAgent'
    <3>1. ASSUME NEW a \in Agents
          PROVE  /\ HeldBy(a)' = HeldBy(a)
                 /\ CompletionsOf(a)' = CompletionsOf(a)
                 /\ \A c \in CompletionsOf(a) : c \in BagToSet(heap') /\ heap'[c] = heap[c]
      <4>1. HeldBy(a)' = HeldBy(a)
        BY <2>1 DEF HeldBy
      <4>2. CompletionsOf(a)' = CompletionsOf(a)
        BY <1>1, <1>3, <2>2 DEF CompletionsOf, Replaced
      <4> QED
        BY <1>1, <1>3, <2>2, <4>1, <4>2 DEF CompletionsOf, Replaced
    <3> QED
      BY <2>1, <3>1 DEF IInv, OneBeadPerAgent
  <2>5. Future'
    BY <1>1, <2>2 DEF Future, Replaced
  <2>6. Served'
    <3>1. Dispatchable(status)' = Dispatchable(status)
      BY <1>1, <2>1, SameWorks DEF Dispatchable
    <3>2. Dispatchable(status) # {} => ~idle[e.agent]
      BY <1>5 DEF StaleWake, NothingToDo
    <3>3. (BagToSet(heap) \ {e}) \subseteq BagToSet(heap')
      BY <1>1, <2>2 DEF Replaced
    <3> QED
      BY <1>4, <2>1, <3>1, <3>2, <3>3 DEF Served, IdleAgents
  <2> QED
    BY <2>3, <2>4, <2>5, <2>6 DEF IInv
<1>6. CASE Dispatch(e)
  <2>1. PICK b \in Dispatchable(status) : DispatchTo(e, b)
    BY <1>6 DEF Dispatch
  <2> DEFINE n == Event(e.tick + world.duration[b], KindComplete, e.agent, b)
             S == {n}
  <2>2. /\ status' = [status EXCEPT ![b] = "in-progress"]
        /\ owner' = [owner EXCEPT ![b] = e.agent]
        /\ idle' = [idle EXCEPT ![e.agent] = FALSE]
        /\ heap' = Push(Pop(heap), S)
    BY <2>1 DEF DispatchTo
  <2>3. b \in Beads /\ status[b] = "open" /\ idle[e.agent]
    BY <1>6, <2>1 DEF Dispatchable, Dispatch
  <2>4. /\ n \in Events /\ n.kind = KindComplete /\ n.agent = e.agent /\ n.bead = b
        /\ e.tick <= n.tick
    <3>1. world.duration[b] \in Nat
      BY <2>3, SimAssumption DEF IInv, TypeOK, Worlds, Durations
    <3>2. e.tick + world.duration[b] \in Nat /\ e.tick <= e.tick + world.duration[b]
      BY <1>2, <3>1
    <3> QED
      BY <1>2, <2>3, <3>2 DEF Event, Events
  <2> HIDE DEF n
  <2>5. Replaced(heap, heap', S)
    BY <1>1, <2>2, PopPush DEF IInv, TypeOK
  <2>6. HeldBy(e.agent) = {} /\ CompletionsOf(e.agent) = {}
    BY <1>2, <2>3 DEF IInv, OneBeadPerAgent
  <2>7. n \notin BagToSet(heap)
    BY <2>4, <2>6 DEF CompletionsOf
  <2>8. TypeOK'
    <3>1. /\ status' \in [Beads -> {"absent", "open", "in-progress", "closed"}]
          /\ idle' \in [Agents -> BOOLEAN] /\ owner' \in [Beads -> Agents]
      BY <1>2, <2>2, <2>3 DEF IInv, TypeOK
    <3>2. /\ IsABag(heap') /\ BagToSet(heap') \subseteq Events
          /\ \A f \in BagToSet(heap') : f.kind # KindAgentFree => f.bead \in Beads
      BY <2>3, <2>4, <2>5 DEF IInv, TypeOK, Replaced
    <3> QED
      BY <1>1, <1>2, <3>1, <3>2 DEF IInv, TypeOK
  <2>9. OneBeadPerAgent'
    <3>1. CompletionsOf(e.agent)' = {n} /\ n \in BagToSet(heap') /\ heap'[n] = 1
      BY <2>4, <2>5, <2>6, <2>7 DEF Replaced, CompletionsOf
    <3>2. HeldBy(e.agent)' = {b}
      BY <1>2, <2>2, <2>3, <2>6 DEF HeldBy, IInv, TypeOK
    <3>3. ASSUME NEW a \in Agents \ {e.agent}
          PROVE  /\ HeldBy(a)' = HeldBy(a)
                 /\ CompletionsOf(a)' = CompletionsOf(a)
                 /\ \A c \in CompletionsOf(a) : c \in BagToSet(heap') /\ heap'[c] = heap[c]
      <4>1. HeldBy(a)' = HeldBy(a)
        BY <1>2, <2>2, <2>3 DEF HeldBy, IInv, TypeOK
      <4>2. \A c : c \in CompletionsOf(a) => c \notin S /\ c # e
        BY <1>3, <2>4, <3>3 DEF CompletionsOf
      <4>3. CompletionsOf(a)' = CompletionsOf(a)
        BY <1>1, <2>4, <2>5, <3>3, <4>2 DEF CompletionsOf, Replaced
      <4> QED
        BY <1>1, <2>5, <4>1, <4>2, <4>3 DEF CompletionsOf, Replaced
    <3>4. ~idle'[e.agent] /\ \A a \in Agents \ {e.agent} : idle'[a] = idle[a]
      BY <1>2, <2>2 DEF IInv, TypeOK
    <3>5. ASSUME NEW a \in Agents
          PROVE  IF idle'[a] THEN HeldBy(a)' = {} /\ CompletionsOf(a)' = {}
                 ELSE \E c \in BagToSet(heap') :
                         CompletionsOf(a)' = {c} /\ heap'[c] = 1 /\ HeldBy(a)' = {c.bead}
      <4>1. CASE a = e.agent
        BY <4>1, <2>4, <3>1, <3>2, <3>4
      <4>2. CASE a # e.agent
        BY <4>2, <3>3, <3>4 DEF IInv, OneBeadPerAgent
      <4> QED
        BY <4>1, <4>2
    <3> QED
      BY <3>5 DEF OneBeadPerAgent
  <2>10. Future'
    BY <1>1, <2>4, <2>5 DEF Future, Replaced
  <2>11. Served'
    <3>1. Dispatchable(status)' \subseteq Dispatchable(status)
      BY <1>1, <2>2, <2>3, SameWorks DEF Dispatchable, IInv, TypeOK
    <3>2. \A a \in IdleAgents' : a \in Agents /\ idle[a] /\ a # e.agent
      BY <1>2, <2>2 DEF IdleAgents, IInv, TypeOK
    <3>3. (BagToSet(heap) \ {e}) \subseteq BagToSet(heap')
      BY <1>1, <2>5 DEF Replaced
    <3> QED
      BY <1>4, <3>1, <3>2, <3>3 DEF Served
  <2> QED
    BY <2>8, <2>9, <2>10, <2>11 DEF IInv
<1> QED
  BY <1>0, <1>1, <1>5, <1>6 DEF AgentFree

\* No step of the loop, and no stuttering, breaks the invariant.
LEMMA NextInv ==
  ASSUME IInv, [Next]_vars
  PROVE  IInv'
<1>1. ASSUME UNCHANGED <<world, status, owner, idle, heap, clock>>
      PROVE  IInv'
  <2>1. Dispatchable(status)' = Dispatchable(status)
    BY <1>1, SameWorks DEF Dispatchable
  <2>2. \A a \in Agents : HeldBy(a)' = HeldBy(a) /\ CompletionsOf(a)' = CompletionsOf(a)
    BY <1>1 DEF HeldBy, CompletionsOf
  <2>3. OneBeadPerAgent'
    BY <1>1, <2>2 DEF IInv, OneBeadPerAgent
  <2> QED
    BY <1>1, <2>1, <2>3 DEF IInv, TypeOK, Future, Served, Awake, IdleAgents
<1>2. CASE StopAllClosed \/ StopIdle \/ StopCap
  BY <1>1, <1>2 DEF StopAllClosed, StopIdle, StopCap, Finish
<1>3. CASE UNCHANGED vars
  BY <1>1, <1>3 DEF vars
<1> QED
  BY <1>2, <1>3, ArriveKeeps, CompleteKeeps, WakeKeeps DEF Next

\* The inductive invariant holds in every run of the loop.
LEMMA Invariant == SimSpec => []IInv
<1>1. Init => IInv
  BY InitInv
<1>2. IInv /\ [Next]_vars => IInv'
  BY NextInv
<1> QED
  BY <1>1, <1>2, PTL DEF SimSpec

----------------------------------------------------------------------------
(* The theorems *)

(***************************************************************************)
(* A busy agent of the event loop holds exactly one bead and has exactly   *)
(* one completion pending, that bead's; an idle one has neither.           *)
(***************************************************************************)
THEOREM ExclusiveBeads == SimSpec => []OneBeadPerAgent
<1>1. IInv => OneBeadPerAgent
  BY DEF IInv
<1> QED
  BY <1>1, Invariant, PTL

\* Whoever is idle when a tick is over has nothing to take.
LEMMA Conserves == IInv => WorkConserving
<1> SUFFICES ASSUME IInv, TickOver, NEW a \in IdleAgents
             PROVE  Dispatchable(status) = {}
  BY DEF WorkConserving
<1>1. \A f \in BagToSet(heap) : clock < f.tick
  <2>1. CASE heap = EmptyBag
    BY <2>1 DEF EmptyBag, SetToBag, BagToSet
  <2>2. CASE heap # EmptyBag
    <3>1. Peek(heap).tick > clock /\ \A f \in BagToSet(heap) : Peek(heap).tick <= f.tick
      BY <2>2, FirstEvent DEF TickOver, IInv
    <3>2. \A f \in BagToSet(heap) : f.tick \in Nat
      BY DEF IInv, TypeOK, Events
    <3> QED
      BY <2>2, <3>1, <3>2, FirstEvent DEF IInv, TypeOK
  <2> QED
    BY <2>1, <2>2
<1>2. ~Awake(a)
  BY <1>1 DEF Awake, IInv, TypeOK
<1> QED
  BY <1>2 DEF IInv, Served

(***************************************************************************)
(* When the loop has taken every event of a tick, no agent is idle beside  *)
(* a bead that can be dispatched: whoever was idle had a wake-up in it.    *)
(***************************************************************************)
THEOREM NobodyIdles == SimSpec => []WorkConserving
BY Conserves, Invariant, PTL

----------------------------------------------------------------------------
(* The policies *)

\* A least element of numbers that are ordered by a value, then by themselves.
LEMMA LeastByValue ==
  ASSUME NEW S \in SUBSET Nat, S # {}, NEW f \in [S -> Nat]
  PROVE  \E b \in S : \A c \in S \ {b} : f[b] < f[c] \/ (f[b] = f[c] /\ b < c)
<1>1. PICK e \in S : \A d \in S : f[e] <= f[d]
  BY LeastValue
<1> DEFINE Ties == {d \in S : f[d] = f[e]}
<1>2. Ties \in SUBSET Nat /\ Ties # {}
  BY <1>1
<1>3. PICK b \in Ties : \A c \in Ties : b <= c
  <2> HIDE DEF Ties
  <2> QED
    BY <1>2, LeastNat
<1>4. ASSUME NEW c \in S \ {b}
      PROVE  f[b] < f[c] \/ (f[b] = f[c] /\ b < c)
  <2>1. f[b] = f[e] /\ f[b] \in Nat /\ f[c] \in Nat /\ b \in Nat /\ c \in Nat /\ f[e] <= f[c]
    BY <1>1, <1>3
  <2>2. CASE f[c] = f[b]
    <3>1. b <= c
      BY <1>3, <2>1, <2>2
    <3> QED
      BY <2>1, <2>2, <3>1
  <2>3. CASE f[c] # f[b]
    BY <2>1, <2>3
  <2> QED
    BY <2>2, <2>3
<1> QED
  BY <1>3, <1>4

\* The works are finitely many, and so are those of any kind.
LEMMA SomeWorks ==
  ASSUME NEW S \in SUBSET Works
  PROVE  IsFiniteSet(S) /\ Cardinality(S) \in Nat
<1>1. IsFiniteSet(Works)
  BY FS_Interval, SimAssumption DEF Works
<1>2. IsFiniteSet(S)
  BY <1>1, FS_Subset
<1> QED
  BY <1>2, FS_CardinalityType

\* The same of beads.
LEMMA SomeBeads ==
  ASSUME NEW S \in SUBSET Beads
  PROVE  IsFiniteSet(S) /\ Cardinality(S) \in Nat
<1>1. IsFiniteSet(Beads)
  BY FS_Interval, SimAssumption DEF Beads
<1>2. IsFiniteSet(S)
  BY <1>1, FS_Subset
<1> QED
  BY <1>2, FS_CardinalityType

\* Among finitely many works one has the highest score, and is the earliest
\* of those: the one that the fewest others come before.
LEMMA HighestScore ==
  ASSUME NEW S \in SUBSET Works, S # {}, NEW score \in [S -> Int]
  PROVE  \E w \in S : \A v \in S \ {w} :
            score[w] > score[v] \/ (score[w] = score[v] /\ w < v)
<1> DEFINE Before(v, w) == score[v] > score[w] \/ (score[v] = score[w] /\ v < w)
           Better == [w \in S |-> {v \in S : Before(v, w)}]
           rank == [w \in S |-> Cardinality(Better[w])]
<1>1. S \subseteq Nat
  BY SimAssumption DEF Works
<1>2. \A w \in S : Better[w] \in SUBSET Works /\ IsFiniteSet(Better[w]) /\ rank[w] \in Nat
  BY SomeWorks
<1>3. PICK w \in S : \A v \in S : rank[w] <= rank[v]
  <2>1. rank \in [S -> Nat]
    BY <1>2
  <2> HIDE DEF rank
  <2> QED
    BY <2>1, LeastValue
<1>4. ASSUME NEW v \in S \ {w}
      PROVE  Before(w, v)
  <2> SUFFICES ASSUME ~Before(w, v)
               PROVE  FALSE
    OBVIOUS
  <2>1. v \in Nat /\ w \in Nat /\ score[v] \in Int /\ score[w] \in Int
    BY <1>1
  <2>2. Before(v, w)
    BY <2>1
  <2>3. \A u \in S : Before(u, v) => Before(u, w)
    BY <1>1, <2>1, <2>2
  <2>4. ~Before(v, v)
    BY <2>1
  <2> HIDE DEF Before
  <2>5. v \in Better[w] /\ v \notin Better[v] /\ Better[v] \in SUBSET Better[w]
    BY <2>2, <2>3, <2>4
  <2> HIDE DEF Better
  <2>6. rank[v] <= rank[w] /\ rank[v] # rank[w]
    BY <1>2, <2>5, FS_Subset
  <2> QED
    BY <1>2, <1>3, <2>6
<1> QED
  BY <1>4

\* Scores are numbers.
LEMMA ScoreIsNumber ==
  ASSUME TypeOK, NEW weights \in WeightSets, NEW w \in Works
  PROVE  Score(w, weights) \in Int
<1> DEFINE s == SummaryByWork(w)
           later == {v \in Entries : v > w}
<1>1. /\ weights.fanOut \in Nat /\ weights.momentum \in Nat
      /\ weights.rework \in Nat /\ weights.creation \in Nat
  BY PolicyAssumption
<1>2. FanOut(w) \in Nat
  BY SomeWorks DEF FanOut
<1>3. BeadsOf(w) \in SUBSET Beads
  BY DEF BeadsOf, Known
<1>4. s.total \in Nat /\ s.complete \in Nat /\ s.rework \in Nat
  <2>1. s.total = Cardinality(BeadsOf(w)) /\ s.total \in Nat
    BY <1>3, SomeBeads DEF SummaryByWork
  <2>2. Cardinality({b \in BeadsOf(w) : status[b] = "closed"}) \in Nat
    BY <1>3, SomeBeads
  <2>3. Cardinality({b \in BeadsOf(w) \cap Rework : status[b] # "closed"}) \in Nat
    BY <1>3, SomeBeads
  <2> QED
    BY <2>1, <2>2, <2>3 DEF SummaryByWork
<1>5. Cardinality(later) \in Nat
  <2>1. later \in SUBSET Works
    BY DEF Entries
  <2> HIDE DEF later
  <2> QED
    BY <2>1, SomeWorks
<1> DEFINE total == s.total
           complete == s.complete
           momentum == weights.momentum
           share == IF total = 0 THEN 0 ELSE (momentum * complete) \div total
<1>6. share \in Int
  <2>1. total \in Nat /\ complete \in Nat /\ momentum \in Nat
    BY <1>1, <1>4
  <2> HIDE DEF total, complete, momentum
  <2>2. momentum * complete \in Int
    BY <2>1
  <2> QED
    BY <2>1, <2>2
<1>7. Score(w, weights) =
        weights.fanOut * FanOut(w) + weights.rework * s.rework + share
          + weights.creation * Cardinality(later)
  BY DEF Score
<1> HIDE DEF s, later, share
<1>8. weights.fanOut * FanOut(w) \in Int /\ weights.rework * s.rework \in Int
  BY <1>1, <1>2, <1>4
<1>9. weights.creation * Cardinality(later) \in Int
  BY <1>1, <1>5
<1> QED
  BY <1>6, <1>7, <1>8, <1>9

\* The entry that the queue puts first is one of them.
LEMMA FirstIsOne ==
  ASSUME TypeOK, NEW weights \in WeightSets, NEW S \in SUBSET Works, S # {}
  PROVE  First(S, weights) \in S
<1> DEFINE score == [w \in S |-> Score(w, weights)]
<1>1. score \in [S -> Int]
  BY ScoreIsNumber
<1>2. \E w \in S : \A v \in S \ {w} :
        score[w] > score[v] \/ (score[w] = score[v] /\ w < v)
  <2> HIDE DEF score
  <2> QED
    BY <1>1, HighestScore
<1>3. \E w \in S : \A v \in S \ {w} :
        \/ Score(w, weights) > Score(v, weights)
        \/ Score(w, weights) = Score(v, weights) /\ w < v
  BY <1>2
<1> QED
  BY <1>3 DEF First

\* The least of some beads is one of them.
LEMMA MinIsOne ==
  ASSUME NEW S \in SUBSET Nat, S # {}
  PROVE  Min(S) \in S
<1>1. \E n \in S : \A m \in S : n <= m
  BY LeastNat
<1> QED
  BY <1>1 DEF Min

\* Each policy names beads that can be dispatched, and names one if there is.
LEMMA KerfServes ==
  ASSUME TypeOK, NEW weights \in WeightSets
  PROVE  /\ Kerf(weights) \subseteq Dispatchable(status)
         /\ Kerf(weights) = {} <=> Dispatchable(status) = {}
<1> DEFINE serving == {w \in Entries : OpenOf(w) # {}}
<1>0. \A b \in Beads : WorkOf[b] \in Works
  BY SimAssumption
<1>1. serving \in SUBSET Works
  BY DEF Entries
<1>2. \A w \in Entries : OpenOf(w) \in SUBSET Nat /\ OpenOf(w) \subseteq Dispatchable(status)
  BY SimAssumption DEF OpenOf, BeadsOf, Known, Entries, Dispatchable, Beads
<1>3. \A b \in Dispatchable(status) : WorkOf[b] \in serving
  BY <1>0 DEF OpenOf, BeadsOf, Known, Entries, Dispatchable
<1>4. CASE serving = {}
  BY <1>3, <1>4 DEF Kerf
<1>5. CASE serving # {}
  <2> DEFINE w == First(serving, weights)
  <2>1. Kerf(weights) = {Min(OpenOf(w))}
    BY <1>5 DEF Kerf
  <2>2. w \in serving
    <3> HIDE DEF serving
    <3> QED
      BY <1>1, <1>5, FirstIsOne
  <2> HIDE DEF w
  <2>3. w \in Entries /\ OpenOf(w) # {} /\ OpenOf(w) \in SUBSET Nat
    BY <1>2, <2>2
  <2>4. Min(OpenOf(w)) \in OpenOf(w)
    BY <2>3, MinIsOne
  <2> QED
    BY <1>2, <2>1, <2>3, <2>4
<1> QED
  BY <1>4, <1>5

----------------------------------------------------------------------------
(* When a bead arrived is known of every bead that is in the store. *)

FromWorld(b) == b \in world.initial \/ \E x \in world.timeline : x.bead = b

Announced ==
    /\ \A e \in BagToSet(heap) : e.kind = KindArrival => FromWorld(e.bead)
    /\ \A b \in Known : FromWorld(b)

\* At first the store holds the initial beads, and the heap the timeline.
LEMMA InitAnnounced == Init => Announced
<1> SUFFICES ASSUME Init
             PROVE  Announced
  OBVIOUS
<1> DEFINE A == {Event(x.tick, KindArrival, 0, x.bead) : x \in world.timeline}
           W == {Event(0, KindAgentFree, a, NoBead) : a \in Agents}
<1>1. BagToSet(heap) = A \cup W
  BY DEF Init, BagToSet, SetToBag
<1>2. ASSUME NEW e \in A
      PROVE  FromWorld(e.bead)
  BY <1>2 DEF Event, FromWorld
<1>3. ASSUME NEW e \in W
      PROVE  e.kind # KindArrival
  BY <1>3 DEF Event, KindArrival, KindAgentFree
<1>4. ASSUME NEW b \in Known
      PROVE  FromWorld(b)
  BY <1>4 DEF Known, Init, From, FromWorld
<1> HIDE DEF A, W
<1> QED
  BY <1>1, <1>2, <1>3, <1>4 DEF Announced

\* Only an arrival makes a bead known, and none is put on the heap.
LEMMA StepAnnounced ==
  ASSUME IInv, Announced, [Next]_vars
  PROVE  Announced'
<1>1. ASSUME world' = world,
             \A e \in BagToSet(heap') :
                 e.kind = KindArrival => e \in BagToSet(heap),
             \A b \in Known' : b \in Known \/ FromWorld(b)
      PROVE  Announced'
  BY <1>1 DEF Announced, FromWorld
<1>2. CASE UNCHANGED <<world, status, owner, idle, heap, clock>>
  BY <1>1, <1>2 DEF Known
<1>3. ASSUME NEW k, HasNext, Due(Peek(heap), k), NEW S, \A e \in S : e.kind # KindArrival,
             \/ heap' = Push(Pop(heap), S)
             \/ S = {} /\ heap' = Pop(heap)
      PROVE  /\ world' = world
             /\ \A e \in BagToSet(heap') :
                    e.kind = KindArrival => e \in BagToSet(heap)
  <2>1. heap # EmptyBag /\ world' = world
    BY <1>3 DEF HasNext, Due
  <2>2. IsABag(heap) /\ Peek(heap) \in BagToSet(heap)
    BY <2>1, FirstEvent DEF IInv, TypeOK
  <2>3. Replaced(heap, heap', S)
    BY <1>3, <2>2, PopPush
  <2> QED
    BY <1>3, <2>1, <2>3 DEF Replaced
<1>4. CASE PopArrival
  <2>0. HasNext /\ Due(Peek(heap), KindArrival) /\ Arrive(Peek(heap))
    BY <1>4 DEF PopArrival, Due
  <2> DEFINE S == {Event(Peek(heap).tick, KindAgentFree, a, NoBead) : a \in IdleAgents}
  <2>1. \A e \in S : e.kind # KindArrival
    BY DEF Event, KindAgentFree, KindArrival
  <2>2. heap' = Push(Pop(heap), S)
    BY <2>0 DEF Arrive
  <2> HIDE DEF S
  <2>3. Peek(heap) \in BagToSet(heap) /\ Peek(heap).kind = KindArrival
    BY <2>0, FirstEvent DEF HasNext, Due, IInv
  <2>4. FromWorld(Peek(heap).bead)
    BY <2>3 DEF Announced
  <2>5. \A b \in Known' : b \in Known \/ FromWorld(b)
    BY <2>0, <2>4 DEF Arrive, Known, IInv, TypeOK
  <2> QED
    BY <1>1, <1>3, <2>0, <2>1, <2>2, <2>5
<1>5. CASE PopComplete
  <2>0. HasNext /\ Due(Peek(heap), KindComplete) /\ CompleteBead(Peek(heap))
    BY <1>5 DEF PopComplete, Due
  <2> DEFINE e == Peek(heap)
             S == {Event(e.tick, KindAgentFree, e.agent, NoBead)}
  <2>1. \A f \in S : f.kind # KindArrival
    BY DEF Event, KindAgentFree, KindArrival
  <2>2. heap' = Push(Pop(heap), S)
    BY <2>0 DEF CompleteBead
  <2> HIDE DEF S
  <2>3. e \in BagToSet(heap) /\ e.kind = KindComplete
    BY <2>0, FirstEvent DEF HasNext, Due, IInv
  <2>4. CompletionsOf(e.agent) # {} /\ e.agent \in Agents
    BY <2>3 DEF CompletionsOf, IInv, TypeOK, Events
  <2>5. e.bead \in HeldBy(e.agent)
    <3>1. ~idle[e.agent]
      BY <2>4 DEF IInv, OneBeadPerAgent
    <3>2. PICK f \in BagToSet(heap) : CompletionsOf(e.agent) = {f} /\ HeldBy(e.agent) = {f.bead}
      BY <2>4, <3>1 DEF IInv, OneBeadPerAgent
    <3>3. e \in CompletionsOf(e.agent)
      BY <2>3 DEF CompletionsOf
    <3> QED
      BY <3>2, <3>3
  <2>6. \A b \in Known' : b \in Known \/ FromWorld(b)
    BY <2>0, <2>5 DEF CompleteBead, Known, HeldBy, IInv, TypeOK
  <2> QED
    BY <1>1, <1>3, <2>0, <2>1, <2>2, <2>6
<1>6. CASE PopAgentFree
  <2>0. HasNext /\ Due(Peek(heap), KindAgentFree) /\ AgentFree(Peek(heap))
    BY <1>6 DEF PopAgentFree, Due
  <2>1. CASE StaleWake(Peek(heap)) \/ NothingToDo(Peek(heap))
    <3>1. heap' = Pop(heap) /\ Known' = Known
      BY <2>1 DEF StaleWake, NothingToDo, Known
    <3>2. PICK S : S = {}
      OBVIOUS
    <3>3. /\ world' = world
          /\ \A e \in BagToSet(heap') : e.kind = KindArrival => e \in BagToSet(heap)
      BY <1>3, <2>0, <3>1, <3>2
    <3> QED
      BY <1>1, <3>1, <3>3
  <2>2. ASSUME NEW b \in Dispatchable(status), DispatchTo(Peek(heap), b)
        PROVE  Announced'
    <3> DEFINE e == Peek(heap)
               S == {Event(e.tick + world.duration[b], KindComplete, e.agent, b)}
    <3>1. \A f \in S : f.kind # KindArrival
      BY DEF Event, KindComplete, KindArrival
    <3>2. heap' = Push(Pop(heap), S)
      BY <2>2 DEF DispatchTo
    <3> HIDE DEF S
    <3>3. \A c \in Known' : c \in Known
      BY <2>2 DEF DispatchTo, Known, Dispatchable, IInv, TypeOK
    <3> QED
      BY <1>1, <1>3, <2>0, <3>1, <3>2, <3>3
  <2> QED
    BY <2>0, <2>1, <2>2 DEF AgentFree, Dispatch
<1>7. CASE StopAllClosed \/ StopIdle \/ StopCap
  BY <1>2, <1>7 DEF StopAllClosed, StopIdle, StopCap, Finish
<1> QED
  BY <1>2, <1>4, <1>5, <1>6, <1>7 DEF Next, vars

\* When it arrived.
LEMMA ArrivalIsNumber ==
  ASSUME TypeOK, Announced, NEW b \in Known
  PROVE  ArrivedAt(b) \in Nat
<1> DEFINE ticks == {x.tick : x \in {y \in world.timeline : y.bead = b}}
<1>1. world.timeline \subseteq Arrivals
  BY DEF TypeOK, Worlds, Timelines
<1>2. ticks \in SUBSET Nat
  BY <1>1, SimAssumption DEF Arrivals
<1>3. b \notin world.initial => ticks # {}
  BY DEF Announced, FromWorld
<1>4. b \notin world.initial => Min(ticks) \in Nat
  <2> HIDE DEF ticks
  <2> QED
    BY <1>2, <1>3, MinIsOne
<1> QED
  BY <1>4 DEF ArrivedAt

\* Among some beads one is the oldest.
LEMMA OldestIsOne ==
  ASSUME TypeOK, Announced, NEW S \in SUBSET Known, S # {}
  PROVE  \E b \in S : \A c \in S \ {b} : Older(b, c)
<1> DEFINE arrived == [b \in S |-> ArrivedAt(b)]
<1>1. S \in SUBSET Nat
  BY SimAssumption DEF Known, Beads
<1>2. arrived \in [S -> Nat]
  BY ArrivalIsNumber
<1>3. \E b \in S : \A c \in S \ {b} :
        arrived[b] < arrived[c] \/ (arrived[b] = arrived[c] /\ b < c)
  <2> HIDE DEF arrived
  <2> QED
    BY <1>1, <1>2, LeastByValue
<1> QED
  BY <1>3 DEF Older

\* The oldest bead, and the oldest of the first work.
LEMMA FIFOServes ==
  ASSUME TypeOK, Announced, Dispatchable(status) # {}
  PROVE  FIFOBead # {} /\ FIFOWork # {}
<1> DEFINE S == Dispatchable(status)
<1>0. S \in SUBSET Known /\ S \subseteq Beads
  BY DEF Dispatchable, Known
<1> HIDE DEF S
<1>1. FIFOBead # {}
  <2>1. PICK b \in S : \A c \in S \ {b} : Older(b, c)
    BY <1>0, OldestIsOne DEF S
  <2> QED
    BY <2>1 DEF FIFOBead, S
<1>2. FIFOWork # {}
  <2> DEFINE work == [b \in S |-> WorkOf[b]]
  <2>1. work \in [S -> Nat]
    BY <1>0, SimAssumption DEF Works
  <2>2. PICK e \in S : \A d \in S : work[e] <= work[d]
    <3> HIDE DEF work
    <3> QED
      BY <2>1, LeastValue DEF S
  <2> DEFINE T == {d \in S : WorkOf[d] = WorkOf[e]}
  <2>3. T \in SUBSET Known /\ T # {}
    BY <1>0
  <2>4. PICK b \in T : \A c \in T \ {b} : Older(b, c)
    <3> HIDE DEF T
    <3> QED
      BY <2>3, OldestIsOne
  <2>5. ASSUME NEW c \in S \ {b}
        PROVE  WorkOf[b] < WorkOf[c] \/ (WorkOf[b] = WorkOf[c] /\ Older(b, c))
    <3>1. WorkOf[b] = WorkOf[e] /\ WorkOf[e] <= WorkOf[c]
          /\ WorkOf[b] \in Nat /\ WorkOf[c] \in Nat
      BY <1>0, <2>1, <2>2, <2>4
    <3>2. CASE WorkOf[c] = WorkOf[e]
      BY <2>4, <3>1, <3>2
    <3>3. CASE WorkOf[c] # WorkOf[e]
      BY <3>1, <3>3
    <3> QED
      BY <3>2, <3>3
  <2> QED
    BY <2>4, <2>5 DEF FIFOWork, S
<1> QED
  BY <1>1, <1>2

\* Every policy, in one state of the loop.
LEMMA Fair == IInv /\ Announced => PoliciesServe
<1> SUFFICES ASSUME IInv, Announced, NEW picks \in Policies
             PROVE  /\ picks \subseteq Dispatchable(status)
                    /\ picks = {} <=> Dispatchable(status) = {}
  BY DEF PoliciesServe
<1>1. TypeOK
  BY DEF IInv
<1>2. CASE picks = Random
  BY <1>2 DEF Random
<1>3. CASE picks = FIFOBead
  BY <1>1, <1>3, FIFOServes DEF FIFOBead
<1>4. CASE picks = FIFOWork
  BY <1>1, <1>4, FIFOServes DEF FIFOWork
<1>5. ASSUME NEW weights \in WeightSets, picks = Kerf(weights)
      PROVE  /\ picks \subseteq Dispatchable(status)
             /\ picks = {} <=> Dispatchable(status) = {}
  BY <1>1, <1>5, KerfServes
<1> QED
  BY <1>2, <1>3, <1>4, <1>5 DEF Policies

(***************************************************************************)
(* The comparison is fair for every world and every choice of weights: the *)
(* kerf policy and the three baselines name only beads that can be         *)
(* dispatched, and name none only when there is none (SimPolicies).        *)
(***************************************************************************)
THEOREM ComparisonIsFair == SimSpec => []PoliciesServe
<1>1. SimSpec => []Announced
  BY InitAnnounced, StepAnnounced, Invariant, PTL DEF SimSpec
<1> QED
  BY <1>1, Fair, Invariant, PTL

----------------------------------------------------------------------------
(* The measured loop *)

(***************************************************************************)
(* The hooks of the metrics only watch: a run with the collector's ledger  *)
(* is a run of the loop, with every invariant of it (SimMetrics).          *)
(***************************************************************************)
THEOREM MeasuringDisturbsNothing ==
  MetricsSpec => /\ Init /\ [][Next]_vars
                 /\ [](OneBeadPerAgent /\ WorkConserving /\ PoliciesServe)
<1>1. MetricsInit => Init
  BY DEF MetricsInit
<1>2. [MetricsNext]_metricsVars => [Next]_vars
  BY DEF MetricsNext, Next, metricsVars, vars
<1>3. Init => IInv /\ Announced
  BY InitInv, InitAnnounced
<1>4. IInv /\ Announced /\ [Next]_vars => (IInv /\ Announced)'
  BY NextInv, StepAnnounced
<1>5. IInv /\ Announced => OneBeadPerAgent /\ WorkConserving /\ PoliciesServe
  BY Conserves, Fair DEF IInv
<1> QED
  BY <1>1, <1>2, <1>3, <1>4, <1>5, PTL DEF MetricsSpec

----------------------------------------------------------------------------
(* Folds.  The operators of the library are recursive functions on the     *)
(* subsets of a finite set; that there is such a function comes first.     *)

\* The function pick has an element of every set, and step a value for each of
\* them and for the value of the rest.
Picks(pick, S) == \A s \in SUBSET S : s # {} => pick[s] \in s
Solution(g, S, V, base, pick, step) ==
    /\ g \in [SUBSET S -> V]
    /\ \A s \in SUBSET S : g[s] = IF s = {} THEN base ELSE step[<<pick[s], g[s \ {pick[s]}]>>]

\* A recursion that takes the elements of a finite set one by one has a solution.
LEMMA Iterates ==
  ASSUME NEW S, IsFiniteSet(S), NEW V, NEW base \in V, NEW pick, Picks(pick, S),
         NEW step, step \in [S \X V -> V]
  PROVE  \E g : Solution(g, S, V, base, pick, step)
<1> DEFINE Upto(n) == {s \in SUBSET S : Cardinality(s) <= n}
           After1(g, s) == IF s = {} THEN base ELSE step[<<pick[s], g[s \ {pick[s]}]>>]
           Solves(g, n) == g \in [Upto(n) -> V] /\ \A s \in Upto(n) : g[s] = After1(g, s)
           Bad == {n \in Nat : ~ \E g : Solves(g, n)}
<1>1. \A s \in SUBSET S : IsFiniteSet(s) /\ Cardinality(s) \in Nat
  BY FS_Subset, FS_CardinalityType
<1>0. \A s \in SUBSET S : s # {} => pick[s] \in s
  BY DEF Picks
<1>2. \A s \in SUBSET S : s # {} => /\ s \ {pick[s]} \in SUBSET S
                                    /\ Cardinality(s \ {pick[s]}) = Cardinality(s) - 1
                                    /\ Cardinality(s) # 0
  BY <1>0, <1>1, FS_RemoveElement, FS_EmptySet
<1>3. \A s \in Upto(0) : s = {}
  BY <1>1, FS_EmptySet
<1>4. 0 \notin Bad
  <2>1. Solves([s \in Upto(0) |-> base], 0)
    BY <1>3
  <2> HIDE DEF Solves
  <2> QED
    BY <2>1
<1>5. ASSUME NEW n \in Nat, n \notin Bad
      PROVE  n + 1 \notin Bad
  <2>1. PICK g : Solves(g, n)
    BY <1>5
  <2> DEFINE h == [s \in Upto(n + 1) |-> After1(g, s)]
  <2>a. Upto(n) \subseteq Upto(n + 1)
    BY <1>1
  <2>b. g \in [Upto(n) -> V] /\ \A s \in Upto(n) : g[s] = After1(g, s)
    BY <2>1
  <2>c. \A s \in Upto(n + 1) : h[s] = After1(g, s)
    <3> HIDE DEF After1, Upto
    <3> QED
      OBVIOUS
  <2>2. \A s \in Upto(n) : s \in Upto(n + 1) /\ h[s] = g[s]
    <3> HIDE DEF After1, Upto, h
    <3> QED
      BY <2>a, <2>b, <2>c
  <2>3. \A s \in Upto(n + 1) : s # {} => s \ {pick[s]} \in Upto(n)
    BY <1>0, <1>1, <1>2
  <2>4. \A s \in Upto(n + 1) : After1(h, s) = After1(g, s)
    <3> HIDE DEF h, Upto
    <3> QED
      BY <2>2, <2>3
  <2>5. \A s \in Upto(n + 1) : After1(g, s) \in V
    <3> SUFFICES ASSUME NEW s \in Upto(n + 1), s # {}
                 PROVE  step[<<pick[s], g[s \ {pick[s]}]>>] \in V
      OBVIOUS
    <3>1. s \ {pick[s]} \in Upto(n) /\ pick[s] \in S
      BY <1>0, <2>3
    <3> HIDE DEF Upto
    <3>2. g[s \ {pick[s]}] \in V
      BY <3>1, <2>b
    <3> QED
      BY <3>1, <3>2
  <2>6. Solves(h, n + 1)
    <3> HIDE DEF After1, Upto
    <3> QED
      BY <2>4, <2>5
  <2> HIDE DEF Solves
  <2> QED
    BY <2>6
<1>6. Bad = {}
  <2> HIDE DEF Bad
  <2> SUFFICES ASSUME Bad # {}
               PROVE  FALSE
    OBVIOUS
  <2>1. Bad \in SUBSET Nat
    BY DEF Bad
  <2>2. PICK n \in Bad : \A m \in Bad : n <= m
    BY <2>1, LeastNat
  <2>3. n \in Nat /\ n # 0 /\ n - 1 \in Nat /\ n - 1 \notin Bad
    BY <1>4, <2>1, <2>2
  <2> QED
    BY <1>5, <2>2, <2>3
<1>7. Cardinality(S) \in Nat
  BY <1>1
<1>8. PICK g : Solves(g, Cardinality(S))
  BY <1>6, <1>7
<1>9. Upto(Cardinality(S)) = SUBSET S
  BY <1>1, <1>7, FS_Subset
<1> QED
  BY <1>8, <1>9 DEF Solution

\* What holds of a set whenever it holds of it without any one element holds of
\* all subsets of a finite set.
LEMMA Subsets ==
  ASSUME NEW S, IsFiniteSet(S), NEW P,
         \A T \in SUBSET S : (\A x \in T : T \ {x} \in P) => T \in P
  PROVE  \A T \in SUBSET S : T \in P
<1> DEFINE Bad == {n \in Nat : \E T \in SUBSET S : T \notin P /\ Cardinality(T) = n}
<1> SUFFICES ASSUME NEW T \in SUBSET S, T \notin P
             PROVE  FALSE
  OBVIOUS
<1>1. \A R \in SUBSET S : IsFiniteSet(R) /\ Cardinality(R) \in Nat
  BY FS_Subset, FS_CardinalityType
<1>2. Bad \in SUBSET Nat /\ Bad # {}
  BY <1>1
<1> HIDE DEF Bad
<1>3. PICK n \in Bad : \A m \in Bad : n <= m
  BY <1>2, LeastNat
<1>4. PICK R \in SUBSET S : R \notin P /\ Cardinality(R) = n
  BY <1>3 DEF Bad
<1>5. PICK x \in R : R \ {x} \notin P
  BY <1>4
<1>6. Cardinality(R \ {x}) = n - 1 /\ n \in Nat /\ n - 1 \in Nat
  BY <1>1, <1>2, <1>4, <1>5, FS_RemoveElement, FS_EmptySet
<1>7. n - 1 \in Bad
  BY <1>5, <1>6 DEF Bad
<1> QED
  BY <1>3, <1>6, <1>7

\* The sum of f over S, as SimMetrics has it.
Total(f, S) == FoldFunctionOnSet(+, 0, f, S)

\* The sums over the subsets of S, in whatever order they are taken.
Sums(G, f, S) ==
    /\ G \in [SUBSET S -> Int]
    /\ Total(f, S) = G[S] /\ G[{}] = 0
    /\ \A T \in SUBSET S : \A x \in T : G[T] = f[x] + G[T \ {x}]

\* A fold that adds up is such a sum.
LEMMA SumOf ==
  ASSUME NEW S, IsFiniteSet(S), NEW f, \A x \in S : f[x] \in Int
  PROVE  \E G : Sums(G, f, S)
<1> DEFINE G == CHOOSE g : g = [s \in SUBSET S |->
                  IF s = {} THEN 0
                  ELSE f[CHOOSE x \in s : TRUE] + g[s \ {CHOOSE x \in s : TRUE}]]
           c == [s \in SUBSET S |-> CHOOSE x \in s : TRUE]
           Size(n) == {s \in SUBSET S : Cardinality(s) = n}
<1>1. Total(f, S) = G[S]
  BY DEF Total, FoldFunctionOnSet, MapThenFoldSet
<1>2. \A s \in SUBSET S : s # {} => c[s] \in s
  OBVIOUS
<1> HIDE DEF c
<1>3. \A s \in SUBSET S : s # {} => c[s] = CHOOSE x \in s : TRUE
  BY DEF c
<1>4. PICK g \in [SUBSET S -> Int] :
         \A s \in SUBSET S : g[s] = IF s = {} THEN 0 ELSE f[c[s]] + g[s \ {c[s]}]
  <2> DEFINE step == [y \in S \X Int |-> f[y[1]] + y[2]]
  <2>1. step \in [S \X Int -> Int] /\ 0 \in Int
    OBVIOUS
  <2>2. \A x \in S, n \in Int : step[<<x, n>>] = f[x] + n
    OBVIOUS
  <2> HIDE DEF step
  <2>3. PICK g \in [SUBSET S -> Int] :
           \A s \in SUBSET S : g[s] = IF s = {} THEN 0 ELSE step[<<c[s], g[s \ {c[s]}]>>]
    <3> DEFINE V == Int
               base == 0
    <3>1. base \in V /\ step \in [S \X V -> V]
      BY <2>1
    <3> HIDE DEF V, base
    <3>2. \E g : Solution(g, S, V, base, c, step)
      <4>1. Picks(c, S)
        BY <1>2 DEF Picks
      <4> QED
        BY <3>1, <4>1, Iterates
    <3> QED
      BY <3>2 DEF V, base, Solution
  <2>4. \A s \in SUBSET S : g[s] = IF s = {} THEN 0 ELSE f[c[s]] + g[s \ {c[s]}]
    <3> SUFFICES ASSUME NEW s \in SUBSET S, s # {}
                 PROVE  g[s] = f[c[s]] + g[s \ {c[s]}]
      BY <2>3
    <3>1. c[s] \in S /\ s \ {c[s]} \in SUBSET S
      BY <1>2
    <3>2. g[s \ {c[s]}] \in Int
      BY <3>1
    <3> QED
      BY <2>2, <2>3, <3>1, <3>2
  <2> QED
    BY <2>4
<1> DEFINE F == [s \in SUBSET S |->
                  IF s = {} THEN 0
                  ELSE f[CHOOSE x \in s : TRUE] + g[s \ {CHOOSE x \in s : TRUE}]]
<1>5. g = F
  <2>1. \A s \in SUBSET S : g[s] = F[s]
    BY <1>3, <1>4
  <2>2. F = [s \in SUBSET S |-> F[s]]
    OBVIOUS
  <2> HIDE DEF F
  <2> QED
    BY <2>1, <2>2
<1>6. G = [s \in SUBSET S |->
                  IF s = {} THEN 0
                  ELSE f[CHOOSE x \in s : TRUE] + G[s \ {CHOOSE x \in s : TRUE}]]
  BY <1>5
<1> HIDE DEF G, F
<1>7. \A s \in SUBSET S : G[s] = IF s = {} THEN 0 ELSE f[c[s]] + G[s \ {c[s]}]
  BY <1>3, <1>6
<1>8. \A s \in SUBSET S : G[s] \in Int
  <2> DEFINE P == {s \in SUBSET S : G[s] \in Int}
  <2>1. ASSUME NEW T \in SUBSET S, \A x \in T : T \ {x} \in P
        PROVE  T \in P
    <3>1. CASE T = {}
      <4>1. G[T] = 0 /\ 0 \in Int
        <5>1. G[T] = IF T = {} THEN 0 ELSE f[c[T]] + G[T \ {c[T]}]
          BY <1>7
        <5> QED
          BY <3>1, <5>1
      <4> QED
        BY <4>1
    <3>2. CASE T # {}
      <4>1. c[T] \in T /\ T \ {c[T]} \in P
        BY <1>2, <2>1, <3>2
      <4>2. G[T] = f[c[T]] + G[T \ {c[T]}]
        BY <1>7, <3>2
      <4>3. f[c[T]] \in Int /\ G[T \ {c[T]}] \in Int
        BY <4>1
      <4> QED
        BY <4>2, <4>3
    <3> QED
      BY <3>1, <3>2
  <2> HIDE DEF P
  <2>2. \A T \in SUBSET S : T \in P
    BY <2>1, Subsets
  <2> QED
    BY <2>2 DEF P
<1>9. \A T \in SUBSET S : \A x \in T : G[T] = f[x] + G[T \ {x}]
  <2> DEFINE P == {s \in SUBSET S : \A x \in s : G[s] = f[x] + G[s \ {x}]}
  <2>1. ASSUME NEW T \in SUBSET S, \A x \in T : T \ {x} \in P
        PROVE  T \in P
    <3> SUFFICES ASSUME NEW x \in T, x # c[T]
                 PROVE  G[T] = f[x] + G[T \ {x}]
      BY <1>7
    <3>1. c[T] \in T /\ G[T] = f[c[T]] + G[T \ {c[T]}]
      BY <1>2, <1>7
    <3>2. G[T \ {c[T]}] = f[x] + G[(T \ {c[T]}) \ {x}]
      BY <2>1, <3>1
    <3>3. G[T \ {x}] = f[c[T]] + G[(T \ {x}) \ {c[T]}]
      BY <2>1, <3>1
    <3>4. (T \ {c[T]}) \ {x} = (T \ {x}) \ {c[T]}
      OBVIOUS
    <3>5. f[x] \in Int /\ f[c[T]] \in Int /\ G[(T \ {c[T]}) \ {x}] \in Int
      BY <1>8, <3>1
    <3> DEFINE m == f[x]
               n == f[c[T]]
               rest == G[(T \ {c[T]}) \ {x}]
    <3>6. G[T] = n + (m + rest) /\ G[T \ {x}] = n + rest
      BY <3>1, <3>2, <3>3, <3>4
    <3>7. m \in Int /\ n \in Int /\ rest \in Int
      BY <3>5
    <3> HIDE DEF m, n, rest
    <3>8. n + (m + rest) = m + (n + rest)
      BY <3>7
    <3> QED
      BY <3>6, <3>8 DEF m
  <2> HIDE DEF P
  <2>2. \A T \in SUBSET S : T \in P
    BY <2>1, Subsets
  <2> QED
    BY <2>2 DEF P
<1>10. G \in [SUBSET S -> Int] /\ G[{}] = 0
  BY <1>6, <1>7, <1>8
<1> QED
  BY <1>1, <1>9, <1>10 DEF Sums

\* Where the summands of a set B grow by c each, the sum grows by c for each.
LEMMA SumMore ==
  ASSUME NEW S, IsFiniteSet(S), NEW B \in SUBSET S, NEW c \in Int, NEW f, NEW h,
         \A x \in S : f[x] \in Int /\ h[x] = f[x] + (IF x \in B THEN c ELSE 0)
  PROVE  /\ Total(h, S) = Total(f, S) + c * Cardinality(B)
         /\ Total(h, S) \in Int /\ Total(f, S) \in Int
<1>1. PICK F : Sums(F, f, S)
  BY SumOf
<1>2. PICK H : Sums(H, h, S)
  <2>1. \A x \in S : h[x] \in Int
    OBVIOUS
  <2> QED
    BY <2>1, SumOf
<1> USE <1>1, <1>2 DEF Sums
<1> DEFINE P == {T \in SUBSET S : H[T] = F[T] + c * Cardinality(B \cap T)}
<1>3. \A T \in SUBSET S : IsFiniteSet(B \cap T) /\ Cardinality(B \cap T) \in Int
  <2> SUFFICES ASSUME NEW T \in SUBSET S
               PROVE  IsFiniteSet(B \cap T) /\ Cardinality(B \cap T) \in Int
    OBVIOUS
  <2>1. IsFiniteSet(B \cap T)
    BY FS_Subset
  <2> QED
    BY <2>1, FS_CardinalityType
<1>4. ASSUME NEW T \in SUBSET S, \A x \in T : T \ {x} \in P
      PROVE  T \in P
  <2>1. CASE T = {}
    <3>1. B \cap T = {} /\ Cardinality(B \cap T) = 0 /\ F[T] = 0 /\ H[T] = 0
      BY <1>1, <1>2, <2>1, FS_EmptySet
    <3>2. c * 0 = 0
      OBVIOUS
    <3> QED
      BY <3>1, <3>2
  <2>2. ASSUME NEW x \in T
        PROVE  T \in P
    <3> DEFINE R == T \ {x}
               m == Cardinality(B \cap R)
    <3>1. H[R] = F[R] + c * m /\ m \in Int /\ F[R] \in Int
      BY <1>3, <1>4
    <3>2. F[T] = f[x] + F[R] /\ H[T] = h[x] + H[R] /\ f[x] \in Int /\ x \in S
      BY <1>1, <1>2
    <3>3. Cardinality(B \cap T) = IF x \in B THEN m + 1 ELSE m
      <4>1. CASE x \in B
        <5>1. B \cap T = (B \cap R) \cup {x} /\ x \notin B \cap R
          BY <4>1
        <5> QED
          BY <1>3, <4>1, <5>1, FS_AddElement
      <4>2. CASE x \notin B
        <5>1. B \cap T = B \cap R
          BY <4>2
        <5> QED
          BY <4>2, <5>1
      <4> QED
        BY <4>1, <4>2
    <3>4. h[x] = f[x] + (IF x \in B THEN c ELSE 0)
      BY <3>2
    <3> HIDE DEF R, m
    <3>5. c * (m + 1) = c * m + c /\ c * m \in Int
      BY <3>1
    <3> DEFINE k == c * m
    <3>6. H[T] = F[T] + c * Cardinality(B \cap T)
      <4>1. CASE x \in B
        <5>1. H[T] = (f[x] + c) + (F[R] + k) /\ c * Cardinality(B \cap T) = k + c
          BY <3>1, <3>2, <3>3, <3>4, <3>5, <4>1
        <5>2. k \in Int
          BY <3>5
        <5> HIDE DEF k
        <5> QED
          BY <3>1, <3>2, <5>1, <5>2
      <4>2. CASE x \notin B
        <5>1. H[T] = f[x] + (F[R] + k) /\ c * Cardinality(B \cap T) = k
          BY <3>1, <3>2, <3>3, <3>4, <4>2
        <5>2. k \in Int
          BY <3>5
        <5> HIDE DEF k
        <5> QED
          BY <3>1, <3>2, <5>1, <5>2
      <4> QED
        BY <4>1, <4>2
    <3> QED
      BY <3>6
  <2> QED
    BY <2>1, <2>2
<1> HIDE DEF P
<1>5. S \in P
  BY <1>4, Subsets
<1>6. H[S] = F[S] + c * Cardinality(B \cap S) /\ B \cap S = B
  BY <1>5 DEF P
<1>7. H[S] = F[S] + c * Cardinality(B)
  BY <1>6
<1>8. Total(h, S) = H[S] /\ Total(f, S) = F[S] /\ H[S] \in Int /\ F[S] \in Int
  OBVIOUS
<1> QED
  BY <1>7, <1>8

\* One summand more.
LEMMA SumAdd ==
  ASSUME NEW S, IsFiniteSet(S), NEW x, x \notin S, NEW f, NEW g, f[x] \in Int,
         \A y \in S : f[y] \in Int /\ g[y] = f[y]
  PROVE  Total(f, S \cup {x}) = f[x] + Total(g, S)
<1> DEFINE U == S \cup {x}
<1>0. IsFiniteSet(U) /\ S \in SUBSET U /\ x \in U /\ U \ {x} = S /\ \A y \in U : f[y] \in Int
  BY FS_AddElement
<1> HIDE DEF U
<1>1. PICK F : Sums(F, f, U)
  BY <1>0, SumOf
<1>2. PICK G : Sums(G, g, S)
  <2>1. \A y \in S : g[y] \in Int
    OBVIOUS
  <2> QED
    BY <2>1, SumOf
<1> USE <1>1, <1>2 DEF Sums
<1> DEFINE P == {T \in SUBSET S : F[T] = G[T]}
<1>3. ASSUME NEW T \in SUBSET S, \A y \in T : T \ {y} \in P
      PROVE  T \in P
  <2>1. CASE T = {}
    BY <1>1, <1>2, <2>1
  <2>2. ASSUME NEW y \in T
        PROVE  T \in P
    <3>1. F[T \ {y}] = G[T \ {y}]
      BY <1>3
    <3>2. T \in SUBSET U /\ y \in S
      BY <1>0
    <3>3. F[T] = f[y] + F[T \ {y}] /\ G[T] = g[y] + G[T \ {y}] /\ g[y] = f[y]
      BY <1>1, <1>2, <3>2
    <3> QED
      BY <3>1, <3>3
  <2> QED
    BY <2>1, <2>2
<1> HIDE DEF P
<1>4. \A T \in SUBSET S : (\A y \in T : T \ {y} \in P) => T \in P
  BY <1>3
<1>5. \A T \in SUBSET S : T \in P
  BY <1>4, Subsets
<1>6. F[S] = G[S]
  BY <1>5 DEF P
<1>7. F[U] = f[x] + F[U \ {x}]
  BY <1>0, <1>1
<1> QED
  BY <1>0, <1>1, <1>2, <1>6, <1>7 DEF U

----------------------------------------------------------------------------
(* The replay of a sequence of entries is a fold of the library, which     *)
(* takes the elements of the domain from the greatest down.                *)

\* The greatest of the first numbers of some.
LEMMA MaxOf ==
  ASSUME NEW n \in Nat, NEW s \in SUBSET (1..n), s # {}
  PROVE  Max(s) \in s /\ \A y \in s : Max(s) >= y
<1> DEFINE f == [x \in s |-> n - x]
<1>1. f \in [s -> Nat]
  OBVIOUS
<1>2. PICK x \in s : \A y \in s : f[x] <= f[y]
  <2> HIDE DEF f
  <2> QED
    BY <1>1, LeastValue
<1>3. \A y \in s : x >= y
  BY <1>2
<1> QED
  BY <1>3 DEF Max

\* It is the last one, when that is among them.
LEMMA LastIsMax ==
  ASSUME NEW n \in Nat, NEW s \in SUBSET (1..n), n \in s
  PROVE  Max(s) = n
<1> DEFINE x == Max(s)
<1>1. x \in s /\ \A y \in s : x >= y
  BY MaxOf
<1> HIDE DEF x
<1>2. x \in 1..n /\ x >= n
  BY <1>1
<1>3. x = n
  BY <1>2
<1> QED
  BY <1>3 DEF x

\* A replay of the ledger es from the measures `base` on.
Folded(base, es, from, postOnly) ==
    LET replay(acc, e) == Replay(acc, e, from, postOnly) IN FoldLeft(replay, base, es)

Replayed(g, base, es, n, from, postOnly) ==
    /\ g = [s \in SUBSET (1..n) |-> g[s]]
    /\ \A s \in SUBSET (1..n) :
          g[s] = IF s = {} THEN base
                 ELSE Replay(g[s \ {Max(s)}], es[Max(s)], from, postOnly)

\* There is a function that replays every part of a sequence.
LEMMA ReplayExists ==
  ASSUME NEW base, NEW es, NEW from, NEW postOnly, NEW n \in Nat
  PROVE  \E g : Replayed(g, base, es, n, from, postOnly)
<1> DEFINE Bad == {m \in Nat : ~\E g : Replayed(g, base, es, m, from, postOnly)}
<1> SUFFICES ASSUME Bad # {}
             PROVE  FALSE
  OBVIOUS
<1>0. Bad \in SUBSET Nat /\ Bad # {}
  OBVIOUS
<1> HIDE DEF Bad
<1>1. PICK m \in Bad : \A k \in Bad : m <= k
  BY <1>0, LeastNat
<1>2. m \in Nat /\ ~\E g : Replayed(g, base, es, m, from, postOnly)
  BY DEF Bad
<1>3. m # 0
  <2> SUFFICES ASSUME m = 0
               PROVE  FALSE
    OBVIOUS
  <2> DEFINE g == [s \in SUBSET (1..m) |-> base]
  <2>1. \A s \in SUBSET (1..m) : s = {}
    OBVIOUS
  <2>2. Replayed(g, base, es, m, from, postOnly)
    BY <2>1 DEF Replayed
  <2> QED
    BY <1>2, <2>2
<1>4. m - 1 \in Nat /\ m - 1 \notin Bad
  BY <1>1, <1>2, <1>3
<1>5. PICK g : Replayed(g, base, es, m - 1, from, postOnly)
  BY <1>4 DEF Bad
<1> DEFINE h == [s \in SUBSET (1..m) |->
                   IF m \in s THEN Replay(g[s \ {m}], es[m], from, postOnly) ELSE g[s]]
<1>6. \A s \in SUBSET (1..m) : s \ {m} \in SUBSET (1..(m - 1))
  BY <1>2
<1>7. ASSUME NEW s \in SUBSET (1..m)
      PROVE  h[s] = IF s = {} THEN base
                    ELSE Replay(h[s \ {Max(s)}], es[Max(s)], from, postOnly)
  <2>1. CASE s = {}
    BY <1>5, <2>1 DEF Replayed
  <2>2. CASE m \in s
    <3>1. Max(s) = m
      BY <1>2, <2>2, LastIsMax
    <3>2. h[s] = Replay(g[s \ {m}], es[m], from, postOnly) /\ h[s \ {m}] = g[s \ {m}]
      BY <2>2
    <3> QED
      BY <2>2, <3>1, <3>2
  <2>3. CASE s # {} /\ m \notin s
    <3> DEFINE x == Max(s)
    <3>1. s \ {m} = s /\ x \in s
      BY <1>2, <2>3, MaxOf
    <3>2. s \in SUBSET (1..(m - 1))
      BY <1>6, <3>1
    <3>3. g[s] = Replay(g[s \ {x}], es[x], from, postOnly)
      BY <1>5, <2>3, <3>2 DEF Replayed
    <3> HIDE DEF x
    <3>4. h[s] = g[s] /\ h[s \ {x}] = g[s \ {x}]
      BY <2>3
    <3> QED
      BY <2>3, <3>3, <3>4 DEF x
  <2> QED
    BY <2>1, <2>2, <2>3
<1>8. Replayed(h, base, es, m, from, postOnly)
  BY <1>7 DEF Replayed
<1> QED
  BY <1>2, <1>8

\* The library's fold is that replay.
LEMMA FoldReplays ==
  ASSUME NEW base, NEW E, NEW es \in Seq(E), NEW from, NEW postOnly
  PROVE  \E g : /\ Replayed(g, base, es, Len(es), from, postOnly)
                /\ Folded(base, es, from, postOnly) = g[1..Len(es)]
<1> DEFINE D == DOMAIN es
           G == CHOOSE g : g = [s \in SUBSET D |-> IF s = {} THEN base
                             ELSE Replay(g[s \ {Max(s)}], es[Max(s)], from, postOnly)]
<1>1. Folded(base, es, from, postOnly) = G[D]
  BY DEF Folded, FoldLeft, MapThenFoldSet
<1>2. D = 1..Len(es) /\ Len(es) \in Nat
  OBVIOUS
<1> HIDE DEF D
<1>3. PICK g : Replayed(g, base, es, Len(es), from, postOnly)
  BY <1>2, ReplayExists
<1> DEFINE F == [s \in SUBSET D |-> IF s = {} THEN base
                             ELSE Replay(g[s \ {Max(s)}], es[Max(s)], from, postOnly)]
<1>4. g = F
  <2>1. \A s \in SUBSET D : g[s] = F[s]
    BY <1>2, <1>3 DEF Replayed
  <2>2. F = [s \in SUBSET D |-> F[s]] /\ g = [s \in SUBSET D |-> g[s]]
    BY <1>2, <1>3 DEF Replayed
  <2> HIDE DEF F
  <2> QED
    BY <2>1, <2>2
<1>5. G = [s \in SUBSET D |-> IF s = {} THEN base
                             ELSE Replay(G[s \ {Max(s)}], es[Max(s)], from, postOnly)]
  BY <1>4
<1> HIDE DEF G, F
<1>6. Replayed(G, base, es, Len(es), from, postOnly)
  BY <1>2, <1>5 DEF Replayed
<1> QED
  BY <1>1, <1>2, <1>6

\* Nothing to replay.
LEMMA FoldEmpty ==
  ASSUME NEW base, NEW from, NEW postOnly
  PROVE  Folded(base, <<>>, from, postOnly) = base
<1>1. <<>> \in Seq({}) /\ Len(<<>>) = 0 /\ 1..0 = {}
  OBVIOUS
<1>2. PICK g : /\ Replayed(g, base, <<>>, 0, from, postOnly)
               /\ Folded(base, <<>>, from, postOnly) = g[1..0]
  BY <1>1, FoldReplays
<1> QED
  BY <1>1, <1>2 DEF Replayed

\* One entry more.
LEMMA FoldAppend ==
  ASSUME NEW base, NEW E, NEW es \in Seq(E), NEW e \in E, NEW from, NEW postOnly
  PROVE  Folded(base, Append(es, e), from, postOnly) =
            Replay(Folded(base, es, from, postOnly), e, from, postOnly)
<1> DEFINE n == Len(es)
           fs == Append(es, e)
<1>1. /\ n \in Nat /\ fs \in Seq(E) /\ Len(fs) = n + 1 /\ fs[n + 1] = e
      /\ \A i \in 1..n : fs[i] = es[i]
  OBVIOUS
<1> HIDE DEF n, fs
<1>2. PICK g : Replayed(g, base, es, n, from, postOnly)
               /\ Folded(base, es, from, postOnly) = g[1..n]
  BY FoldReplays DEF n
<1>3. PICK h : Replayed(h, base, fs, n + 1, from, postOnly)
               /\ Folded(base, fs, from, postOnly) = h[1..(n + 1)]
  BY <1>1, FoldReplays
<1> DEFINE P == {s \in SUBSET (1..n) : g[s] = h[s]}
<1>4. ASSUME NEW s \in SUBSET (1..n), \A x \in s : s \ {x} \in P
      PROVE  s \in P
  <2>1. s \in SUBSET (1..(n + 1))
    BY <1>1
  <2>2. CASE s = {}
    BY <1>2, <1>3, <2>1, <2>2 DEF Replayed
  <2>3. CASE s # {}
    <3> DEFINE x == Max(s)
    <3>1. x \in s
      BY <1>1, <2>3, MaxOf
    <3> HIDE DEF x
    <3>2. g[s] = Replay(g[s \ {x}], es[x], from, postOnly)
      BY <1>2, <2>3 DEF Replayed, x
    <3>3. h[s] = Replay(h[s \ {x}], fs[x], from, postOnly)
      BY <1>3, <2>1, <2>3 DEF Replayed, x
    <3>4. g[s \ {x}] = h[s \ {x}] /\ es[x] = fs[x]
      BY <1>1, <1>4, <3>1
    <3> QED
      BY <3>2, <3>3, <3>4
  <2> QED
    BY <2>2, <2>3
<1>5. \A s \in SUBSET (1..n) : (\A x \in s : s \ {x} \in P) => s \in P
  BY <1>4
<1> HIDE DEF P
<1>6. \A s \in SUBSET (1..n) : s \in P
  <2>1. IsFiniteSet(1..n)
    BY <1>1, FS_Interval
  <2> QED
    BY <1>5, <2>1, Subsets
<1>7. g[1..n] = h[1..n]
  BY <1>6 DEF P
<1>8. h[1..(n + 1)] = Replay(h[1..n], e, from, postOnly)
  <2> DEFINE s == 1..(n + 1)
  <2>1. n + 1 \in s /\ s \in SUBSET (1..(n + 1)) /\ \A y \in s : y <= n + 1
    BY <1>1
  <2>a. s \ {n + 1} = 1..n
    BY <1>1
  <2> HIDE DEF s
  <2>2. Max(s) = n + 1
    <3>1. n + 1 \in Nat
      BY <1>1
    <3> QED
      BY <2>1, <3>1, LastIsMax
  <2>3. h[s] = Replay(h[s \ {Max(s)}], fs[Max(s)], from, postOnly)
    BY <1>3, <2>1 DEF Replayed
  <2> QED
    BY <1>1, <2>a, <2>2, <2>3 DEF s
<1> QED
  BY <1>2, <1>3, <1>7, <1>8 DEF fs

----------------------------------------------------------------------------
(* Replaying one entry.  S are the dispatch entries so far, R those of the *)
(* beads that are worked on, t the tick of the last entry.                 *)

Areas == {AreaOf[w] : w \in Works}

Measures ==
    [prev : Nat, idleTicks : Int, busyTicks : Int, busy : Nat,
     active : SUBSET (Areas \X Agents), overlapping : SUBSET (Areas \X SUBSET Agents),
     collisions : Nat, completed : Nat]

\* The overlap of an interval and the window, as far as tick t; and the
\* window's own length.
Worked(d, from, t) ==
    LET lo == IF d.tick < from THEN from ELSE d.tick
        hi == IF Ends(d) < t THEN Ends(d) ELSE t IN
    IF hi > lo THEN hi - lo ELSE 0

Span(t, from) == IF t > from THEN t - from ELSE 0

WorkedBy(S, from, t) == [d \in S |-> Worked(d, from, t)]

Begun(S) ==
    /\ IsFiniteSet(S)
    /\ \A d \in S : /\ d.tick \in Nat /\ Ends(d) \in Nat /\ d.tick < Ends(d)
                    /\ d.agent \in Agents /\ d.area \in Areas

Under(S, R, t) ==
    /\ Begun(S) /\ R \in SUBSET S /\ t \in Nat
    /\ \A d \in S : d.tick <= t
    /\ \A d \in R : t <= Ends(d)
    /\ \A d \in S \ R : Ends(d) <= t
    /\ \A d, f \in R : d.agent = f.agent => d = f

ActiveOf(R) == {<<d.area, d.agent>> : d \in {f \in R : f.area # NoArea}}

OverlapsOf(R) ==
    {p \in Areas \X SUBSET Agents :
        \E d, f \in R : /\ d # f /\ d.area = f.area /\ d.area # NoArea
                        /\ p = <<d.area, {d.agent, f.agent}>>}

\* Those of R in the area of x.
Alongside(x, R) == {f \in R : f.area = x.area /\ x.area # NoArea}

CollidingIn(S, window) ==
    {p \in SUBSET S :
        /\ Cardinality(p) = 2
        /\ \A d \in p : d.area # NoArea
        /\ \A d, f \in p : d.area = f.area /\ d.tick < Ends(f)
        /\ \E d \in p : d.tick \in window /\ \A f \in p : f.tick <= d.tick}

\* The measures after the entries that began S, up to tick t.
Measured(acc, S, R, t, from, window) ==
    /\ acc \in Measures
    /\ acc.prev = t /\ acc.busy = Cardinality(R)
    /\ acc.busyTicks = Total(WorkedBy(S, from, t), S)
    /\ acc.idleTicks + acc.busyTicks = NumAgents * Span(t, from)
    /\ acc.active = ActiveOf(R) /\ acc.overlapping = OverlapsOf(R)
    /\ acc.collisions = Cardinality(CollidingIn(S, window))

\* Time goes on: whoever is busy stays so until tick u.
LEMMA Advances ==
  ASSUME NEW S, NEW R, NEW t, Under(S, R, t), NEW u \in Nat, t <= u,
         \A d \in R : u <= Ends(d),
         NEW from \in Nat, NEW window, NEW acc, Measured(acc, S, R, t, from, window)
  PROVE  /\ Under(S, R, u)
         /\ Measured(AdvanceTime(acc, u, from), S, R, u, from, window)
         /\ AdvanceTime(acc, u, from).completed = acc.completed
<1> DEFINE lo == IF acc.prev < from THEN from ELSE acc.prev
           c == IF u > lo THEN u - lo ELSE 0
           now == AdvanceTime(acc, u, from)
<1>1. /\ S \in {S} /\ IsFiniteSet(S) /\ R \in SUBSET S /\ t \in Nat /\ acc.prev = t
      /\ acc \in Measures
  BY DEF Under, Begun, Measured
<1>2. c \in Nat /\ Span(u, from) = Span(t, from) + c /\ Span(t, from) \in Nat
  BY <1>1 DEF Span
<1>3. /\ now \in Measures /\ now.prev = u /\ now.busy = acc.busy /\ now.active = acc.active
      /\ now.overlapping = acc.overlapping /\ now.collisions = acc.collisions
      /\ now.completed = acc.completed
      /\ now.idleTicks = acc.idleTicks + c * (NumAgents - acc.busy)
      /\ now.busyTicks = acc.busyTicks + c * acc.busy
  <2>1. now = [acc EXCEPT !.idleTicks = acc.idleTicks + c * (NumAgents - acc.busy),
                          !.busyTicks = acc.busyTicks + c * acc.busy,
                          !.prev = u]
    BY DEF AdvanceTime
  <2>2. /\ acc.idleTicks + c * (NumAgents - acc.busy) \in Int
        /\ acc.busyTicks + c * acc.busy \in Int
    <3>1. acc.busy \in Nat /\ acc.idleTicks \in Int /\ acc.busyTicks \in Int /\ NumAgents \in Nat
      BY <1>1, SimAssumption DEF Measures
    <3> HIDE DEF c
    <3>2. c * (NumAgents - acc.busy) \in Int /\ c * acc.busy \in Int
      BY <1>2, <3>1
    <3> QED
      BY <3>1, <3>2
  <2> HIDE DEF c, now
  <2> QED
    BY <1>1, <2>1, <2>2 DEF Measures
<1>4. ASSUME NEW d \in S
      PROVE  /\ Worked(d, from, t) \in Int
             /\ Worked(d, from, u) = Worked(d, from, t) + (IF d \in R THEN c ELSE 0)
  <2>1. d.tick \in Nat /\ Ends(d) \in Nat /\ d.tick <= t /\ d.tick < Ends(d)
    BY DEF Under, Begun
  <2>2. CASE d \in R
    <3>1. u <= Ends(d)
      BY <2>2
    <3> QED
      BY <1>1, <2>1, <2>2, <3>1 DEF Worked
  <2>3. CASE d \notin R
    <3>1. Ends(d) <= t
      BY <2>3 DEF Under
    <3> QED
      BY <1>1, <2>1, <2>3, <3>1 DEF Worked
  <2> QED
    BY <2>2, <2>3
<1> HIDE DEF c, now
<1>5. Total(WorkedBy(S, from, u), S) = Total(WorkedBy(S, from, t), S) + c * Cardinality(R)
  <2>1. \A d \in S : /\ WorkedBy(S, from, t)[d] \in Int
                     /\ WorkedBy(S, from, u)[d] =
                          WorkedBy(S, from, t)[d] + (IF d \in R THEN c ELSE 0)
    BY <1>4 DEF WorkedBy
  <2>2. c \in Int
    BY <1>2
  <2> QED
    BY <1>1, <2>1, <2>2, SumMore
<1>6. now.idleTicks + now.busyTicks = NumAgents * Span(u, from)
  <2>1. /\ acc.busy \in Nat /\ acc.idleTicks \in Int /\ acc.busyTicks \in Int /\ NumAgents \in Nat
        /\ acc.idleTicks + acc.busyTicks = NumAgents * Span(t, from)
    BY <1>1, SimAssumption DEF Measures, Measured
  <2> DEFINE s == Span(t, from)
             b == acc.busy
  <2>2. NumAgents * (s + c) = NumAgents * s + NumAgents * c
        /\ c * (NumAgents - b) + c * b = NumAgents * c
        /\ c * (NumAgents - b) \in Int /\ c * b \in Int
    <3> HIDE DEF s, b
    <3> QED
      BY <1>2, <2>1 DEF s, b
  <2> DEFINE x == c * (NumAgents - b)
             y == c * b
             z == NumAgents * c
             v == NumAgents * s
  <2>3. /\ now.idleTicks = acc.idleTicks + x /\ now.busyTicks = acc.busyTicks + y
        /\ NumAgents * Span(u, from) = v + z /\ x + y = z /\ x \in Int /\ y \in Int
        /\ acc.idleTicks + acc.busyTicks = v
    BY <1>2, <1>3, <2>1, <2>2
  <2> HIDE DEF x, y, z, v
  <2> QED
    BY <2>1, <2>3
<1>7. Measured(now, S, R, u, from, window)
  BY <1>3, <1>5, <1>6 DEF Measured
<1>8. Under(S, R, u)
  BY <1>1 DEF Under, Begun
<1> QED
  BY <1>3, <1>7, <1>8 DEF now

----------------------------------------------------------------------------
(* The pairs that collide *)

\* A set has as many elements as its image under a one-to-one function.
LEMMA ImageSize ==
  ASSUME NEW T, IsFiniteSet(T), NEW g, \A x, y \in T : g[x] = g[y] => x = y,
         NEW U, U = {g[x] : x \in T}
  PROVE  IsFiniteSet(U) /\ Cardinality(U) = Cardinality(T)
<1> DEFINE h == [x \in T |-> g[x]]
<1>1. h \in Bijection(T, U)
  BY DEF Bijection, Injection, Surjection, IsInjective
<1>2. ExistsBijection(T, U)
  BY <1>1 DEF ExistsBijection
<1> QED
  BY <1>2, FS_Bijection

\* A finite set of two elements is a pair.
LEMMA PairIsTwo ==
  ASSUME NEW p, IsFiniteSet(p)
  PROVE  Cardinality(p) = 2 <=> \E d, f : d # f /\ p = {d, f}
<1>1. ASSUME NEW d, NEW f, d # f, p = {d, f}
      PROVE  Cardinality(p) = 2
  <2>1. p = {d} \cup {f} /\ f \notin {d}
    BY <1>1
  <2>2. IsFiniteSet({d}) /\ Cardinality({d}) = 1
    BY FS_Singleton
  <2>3. Cardinality({d} \cup {f}) = 1 + 1
    BY <2>1, <2>2, FS_AddElement
  <2> QED
    BY <2>1, <2>3
<1>2. ASSUME Cardinality(p) = 2
      PROVE  \E d, f : d # f /\ p = {d, f}
  <2>1. p # {}
    BY <1>2, FS_EmptySet
  <2>2. PICK d : d \in p
    BY <2>1
  <2>3. IsFiniteSet(p \ {d}) /\ Cardinality(p \ {d}) = 1
    BY <1>2, <2>2, FS_RemoveElement
  <2>4. PICK f : p \ {d} = {f}
    BY <2>3, FS_Singleton
  <2>5. d # f /\ p = {d, f}
    BY <2>2, <2>4
  <2> QED
    BY <2>5
<1> QED
  BY <1>1, <1>2

\* The measures once the completion of x is replayed.
AfterCompletion(acc, then, S, R, x, t, from, window, counts) ==
    /\ Measured(then, S, R \ {x}, t, from, window)
    /\ then.completed = acc.completed + One(counts)

\* A bead is done.
LEMMA Completes ==
  ASSUME NEW S, NEW R, NEW t, Under(S, R, t), NEW x \in R, Ends(x) = t,
         NEW from \in Nat, NEW window, NEW acc, Measured(acc, S, R, t, from, window),
         NEW e, e.agent = x.agent, e.area = x.area, NEW inWindow \in BOOLEAN,
         NEW counts \in BOOLEAN, counts <=> e.workCompleted /\ inWindow,
         NEW then, then = ReplayComplete(acc, e, inWindow)
  PROVE  AfterCompletion(acc, then, S, R, x, t, from, window, counts)
<1> DEFINE Q == R \ {x}
<1>1. /\ IsFiniteSet(R) /\ R \in SUBSET S /\ x \in S /\ acc \in Measures
      /\ \A d \in R : d.agent \in Agents /\ d.area \in Areas
      /\ \A d, f \in R : d.agent = f.agent => d = f
  BY FS_Subset DEF Under, Begun, Measured
<1>2. Cardinality(R) \in Nat /\ Cardinality(R) > 0 /\ Cardinality(Q) = Cardinality(R) - 1
  BY <1>1, FS_CardinalityType, FS_EmptySet, FS_RemoveElement
<1>3. /\ then \in Measures /\ then.prev = acc.prev /\ then.busy = acc.busy - 1
      /\ then.idleTicks = acc.idleTicks /\ then.busyTicks = acc.busyTicks
      /\ then.collisions = acc.collisions
      /\ then.active = acc.active \ {<<x.area, x.agent>>}
      /\ then.overlapping = {p \in acc.overlapping : ~(p[1] = x.area /\ x.agent \in p[2])}
      /\ then.completed = acc.completed + One(counts)
  <2>1. acc.busy > 0 /\ acc.busy - 1 \in Nat
    BY <1>2 DEF Measured
  <2>2. acc.completed + One(counts) \in Nat
    BY <1>1 DEF One, Measures
  <2> DEFINE a == acc.active \ {<<x.area, x.agent>>}
             o == {p \in acc.overlapping : ~(p[1] = x.area /\ x.agent \in p[2])}
             n == acc.completed + One(counts)
  <2>3. a \in SUBSET (Areas \X Agents) /\ o \in SUBSET (Areas \X SUBSET Agents)
    BY <1>1 DEF Measures
  <2>4. then = [acc EXCEPT !.busy = acc.busy - 1, !.active = a, !.overlapping = o,
                           !.completed = n]
    BY <2>1 DEF ReplayComplete
  <2> HIDE DEF a, o, n
  <2>5. n \in Nat
    BY <2>2 DEF n
  <2> QED
    BY <1>1, <2>1, <2>3, <2>4, <2>5 DEF Measures, a, o, n
<1>4. ActiveOf(R) \ {<<x.area, x.agent>>} = ActiveOf(Q)
  BY <1>1 DEF ActiveOf
<1>5. {p \in OverlapsOf(R) : ~(p[1] = x.area /\ x.agent \in p[2])} = OverlapsOf(Q)
  <2>1. ASSUME NEW p \in OverlapsOf(R), ~(p[1] = x.area /\ x.agent \in p[2])
        PROVE  p \in OverlapsOf(Q)
    <3>1. PICK d \in R, f \in R : /\ d # f /\ d.area = f.area /\ d.area # NoArea
                                  /\ p = <<d.area, {d.agent, f.agent}>>
      BY DEF OverlapsOf
    <3>2. d # x /\ f # x
      BY <2>1, <3>1
    <3> QED
      BY <3>1, <3>2 DEF OverlapsOf
  <2>2. ASSUME NEW p \in OverlapsOf(Q)
        PROVE  p \in OverlapsOf(R) /\ ~(p[1] = x.area /\ x.agent \in p[2])
    <3>1. PICK d \in Q, f \in Q : /\ d # f /\ d.area = f.area /\ d.area # NoArea
                                  /\ p = <<d.area, {d.agent, f.agent}>>
      BY DEF OverlapsOf
    <3>2. x.agent # d.agent /\ x.agent # f.agent
      BY <1>1, <3>1
    <3> QED
      BY <3>1, <3>2 DEF OverlapsOf
  <2> QED
    BY <2>1, <2>2
<1> HIDE DEF Q
<1>6. Measured(then, S, Q, t, from, window)
  BY <1>2, <1>3, <1>4, <1>5 DEF Measured
<1> QED
  BY <1>3, <1>6 DEF Q, AfterCompletion

\* With the dispatch x, one pair more collides for each of R in its area.
OneMorePairEach(S, R, x, t, window) ==
    Cardinality(CollidingIn(S \cup {x}, window)) =
        Cardinality(CollidingIn(S, window))
            + (IF t \in window THEN Cardinality(Alongside(x, R)) ELSE 0)

\* The pairs of dispatches that the bead taken adds to the collisions.
LEMMA NewlyColliding ==
  ASSUME NEW S, NEW R, NEW t, Under(S, R, t), NEW x, x \notin S, Begun(S \cup {x}),
         x.tick = t, \A d \in R : t < Ends(d),
         NEW window
  PROVE  OneMorePairEach(S, R, x, t, window)
<1> DEFINE same == Alongside(x, R)
           U == S \cup {x}
           new == IF t \in window THEN {{x, f} : f \in same} ELSE {}
           old == CollidingIn(S, window)
<1> USE DEF Alongside
<1>1. /\ IsFiniteSet(S) /\ IsFiniteSet(U) /\ R \in SUBSET S /\ t \in Nat /\ x \in U
      /\ S \in SUBSET U /\ same \in SUBSET R
      /\ \A d \in U : d.tick \in Nat /\ Ends(d) \in Nat /\ d.tick < Ends(d) /\ d.tick <= t
      /\ \A d \in S \ R : Ends(d) <= t
  BY DEF Under, Begun
<1>2. IsFiniteSet(same) /\ IsFiniteSet(new)
      /\ Cardinality(new) = IF t \in window THEN Cardinality(same) ELSE 0
  <2>1. IsFiniteSet(same)
    BY <1>1, FS_Subset
  <2> DEFINE g == [f \in same |-> {x, f}]
  <2>2. \A d, f \in same : g[d] = g[f] => d = f
    BY <1>1
  <2> DEFINE V == {{x, f} : f \in same}
  <2>3. V = {g[f] : f \in same}
    OBVIOUS
  <2>4. IsFiniteSet(V) /\ Cardinality(V) = Cardinality(same)
    <3> HIDE DEF same, g, V
    <3> QED
      BY <2>1, <2>2, <2>3, ImageSize
  <2> HIDE DEF same, V
  <2>5. new = IF t \in window THEN V ELSE {}
    BY DEF V
  <2> QED
    BY <2>1, <2>4, <2>5, FS_EmptySet
<1>3. \A p \in SUBSET U : Cardinality(p) = 2 <=> \E d, f \in p : d # f /\ p = {d, f}
  <2> SUFFICES ASSUME NEW p \in SUBSET U
               PROVE  Cardinality(p) = 2 <=> \E d, f \in p : d # f /\ p = {d, f}
    OBVIOUS
  <2>1. IsFiniteSet(p)
    BY <1>1, FS_Subset
  <2> QED
    BY <2>1, PairIsTwo
<1>4. ASSUME NEW p \in CollidingIn(U, window), x \in p
      PROVE  p \in new
  <2>1. PICK d \in p, f \in p : d # f /\ p = {d, f}
    BY <1>3 DEF CollidingIn
  <2>2. PICK y \in p : y # x /\ p = {x, y}
    BY <1>4, <2>1
  <2>3. y \in S /\ y.area = x.area /\ x.area # NoArea /\ x.tick < Ends(y)
    BY <1>4, <2>2 DEF CollidingIn
  <2>4. y \in same
    BY <1>1, <2>3
  <2>5. PICK z \in p : z.tick \in window /\ \A g \in p : g.tick <= z.tick
    BY DEF CollidingIn
  <2>6. z.tick = t
    BY <1>1, <1>4, <2>2, <2>3, <2>5
  <2> QED
    BY <2>2, <2>4, <2>5, <2>6
<1>5. ASSUME NEW p \in new
      PROVE  p \in CollidingIn(U, window) /\ x \in p
  <2>1. PICK y \in same : p = {x, y}
    BY <1>5
  <2>2. y \in S /\ y # x /\ p \in SUBSET U /\ x \in p /\ y \in p
    BY <1>1, <2>1
  <2>3. Cardinality(p) = 2
    BY <1>3, <2>1, <2>2
  <2>4. y.tick <= t /\ t < Ends(y) /\ y.tick < Ends(y) /\ t < Ends(x)
        /\ y.tick \in Nat /\ Ends(x) \in Nat /\ Ends(y) \in Nat
    BY <1>1, <2>1, <2>2
  <2>5. y.tick < Ends(x)
    BY <1>1, <2>4
  <2>6. t \in window
    BY <1>5
  <2>7. \A d, f \in p : d.area = f.area /\ d.tick < Ends(f)
    BY <2>1, <2>4, <2>5
  <2>8. \A d \in p : d.area # NoArea
    BY <2>1
  <2>9. x \in p /\ x.tick \in window /\ \A f \in p : f.tick <= x.tick
    BY <1>1, <2>1, <2>4, <2>6
  <2> HIDE DEF U, same, new
  <2> QED
    BY <2>2, <2>3, <2>7, <2>8, <2>9 DEF CollidingIn
<1>6. \A p : x \notin p => (p \in CollidingIn(U, window) <=> p \in old)
  BY DEF CollidingIn
<1>7. \A p \in old : x \notin p
  BY DEF CollidingIn
<1> HIDE DEF new, old, U, same
<1>8. CollidingIn(U, window) = old \cup new /\ old \cap new = {}
  BY <1>4, <1>5, <1>6, <1>7
<1>9. IsFiniteSet(old)
  <2>1. old \in SUBSET SUBSET S
    BY DEF old, CollidingIn
  <2> QED
    BY <1>1, <2>1, FS_SUBSET, FS_Subset
<1>10. Cardinality(old \cup new) = Cardinality(old) + Cardinality(new)
  <2>1. Cardinality(old \cap new) = 0
    BY <1>8, FS_EmptySet
  <2>2. Cardinality(old) \in Nat /\ Cardinality(new) \in Nat
    BY <1>2, <1>9, FS_CardinalityType
  <2>3. Cardinality(old \cup new) = Cardinality(old) + Cardinality(new) - Cardinality(old \cap new)
    BY <1>2, <1>9, FS_Union
  <2> QED
    BY <2>1, <2>2, <2>3
<1> QED
  BY <1>2, <1>8, <1>10 DEF U, same, old, OneMorePairEach

\* The measures once the dispatch x is replayed.
AfterDispatch(acc, then, S, R, x, t, from, window) ==
    /\ Under(S \cup {x}, R \cup {x}, t)
    /\ Measured(then, S \cup {x}, R \cup {x}, t, from, window)
    /\ then.completed = acc.completed

\* A bead is taken by an agent that has none.
LEMMA Dispatches ==
  ASSUME NEW S, NEW R, NEW t, Under(S, R, t), NEW x, x \notin S, Begun(S \cup {x}),
         x.tick = t, \A d \in R : t < Ends(d) /\ d.agent # x.agent,
         NEW from \in Nat, NEW window, NEW acc,
         Measured(acc, S, R, t, from, window),
         NEW then, NEW inWindow \in BOOLEAN, inWindow <=> t \in window,
         then = ReplayDispatch(acc, x, inWindow)
  PROVE  AfterDispatch(acc, then, S, R, x, t, from, window)
<1> DEFINE U == S \cup {x}
           Q == R \cup {x}
           others == {o \in Agents : x.area # NoArea /\ <<x.area, o>> \in acc.active}
           pairs == {<<x.area, {x.agent, o}>> : o \in others}
           same == Alongside(x, R)
<1> USE DEF Alongside
<1>1. /\ IsFiniteSet(S) /\ IsFiniteSet(R) /\ R \in SUBSET S /\ x \notin R /\ acc \in Measures
      /\ x.agent \in Agents /\ x.area \in Areas /\ x.tick \in Nat /\ Ends(x) \in Nat
      /\ x.tick < Ends(x) /\ t \in Nat
      /\ \A d \in R : d.agent \in Agents /\ d.area \in Areas /\ d.agent # x.agent
      /\ \A d, f \in R : d.agent = f.agent => d = f
      /\ acc.active = ActiveOf(R) /\ acc.overlapping = OverlapsOf(R)
  BY FS_Subset DEF Under, Begun, Measured
<1>2. pairs = {<<x.area, {x.agent, f.agent}>> : f \in same}
  <2>1. others = {f.agent : f \in same}
    BY <1>1 DEF ActiveOf
  <2> HIDE DEF others, same
  <2> QED
    BY <2>1
<1>3. pairs \cap acc.overlapping = {}
  <2> SUFFICES ASSUME NEW p \in pairs, p \in OverlapsOf(R)
               PROVE  FALSE
    BY <1>1
  <2>1. x.agent \in p[2]
    <3>1. PICK f \in same : p = <<x.area, {x.agent, f.agent}>>
      <4> HIDE DEF pairs
      <4> QED
        BY <1>2
    <3> QED
      BY <3>1
  <2>2. PICK d \in R, f \in R : p = <<d.area, {d.agent, f.agent}>>
    BY DEF OverlapsOf
  <2> QED
    BY <1>1, <2>1, <2>2
<1>4. IsFiniteSet(same) /\ Cardinality(pairs) = Cardinality(same) /\ Cardinality(same) \in Nat
  <2>1. IsFiniteSet(same)
    BY <1>1, FS_Subset
  <2> DEFINE g == [f \in same |-> <<x.area, {x.agent, f.agent}>>]
  <2>2. \A d, f \in same : g[d] = g[f] => d = f
    BY <1>1
  <2>3. pairs = {g[f] : f \in same}
    BY <1>2
  <2> HIDE DEF same, pairs, g
  <2>4. Cardinality(pairs) = Cardinality(same)
    BY <2>1, <2>2, <2>3, ImageSize
  <2> QED
    BY <2>1, <2>4, FS_CardinalityType
<1>5. pairs \in SUBSET (Areas \X SUBSET Agents)
  <2> SUFFICES ASSUME NEW o \in others
               PROVE  <<x.area, {x.agent, o}>> \in Areas \X SUBSET Agents
    OBVIOUS
  <2>1. {x.agent, o} \in SUBSET Agents
    BY <1>1
  <2> QED
    BY <1>1, <2>1
<1>6. pairs \ acc.overlapping = pairs
  BY <1>3
<1> HIDE DEF others, pairs, same, U, Q, Alongside
<1>7. /\ then \in Measures /\ then.prev = acc.prev /\ then.busy = acc.busy + 1
      /\ then.idleTicks = acc.idleTicks /\ then.busyTicks = acc.busyTicks
      /\ then.collisions =
            acc.collisions + (IF t \in window THEN Cardinality(same) ELSE 0)
      /\ then.overlapping = acc.overlapping \cup pairs
      /\ then.active = IF x.area = NoArea THEN acc.active
                       ELSE acc.active \cup {<<x.area, x.agent>>}
      /\ then.completed = acc.completed
  <2> DEFINE a == IF x.area = NoArea THEN acc.active ELSE acc.active \cup {<<x.area, x.agent>>}
             o == acc.overlapping \cup pairs
             n == acc.collisions + (IF t \in window THEN Cardinality(same) ELSE 0)
  <2>1. /\ a \in SUBSET (Areas \X Agents) /\ o \in SUBSET (Areas \X SUBSET Agents)
        /\ acc.busy + 1 \in Nat
    BY <1>1, <1>5 DEF Measures
  <2>2. n \in Nat
    BY <1>1, <1>4 DEF Measures
  <2>3. then = [acc EXCEPT !.busy = acc.busy + 1,
                           !.collisions = acc.collisions
                              + (IF inWindow THEN Cardinality(pairs \ acc.overlapping) ELSE 0),
                           !.overlapping = o, !.active = a]
    BY DEF ReplayDispatch, pairs, others
  <2>4. n = acc.collisions + (IF inWindow THEN Cardinality(pairs \ acc.overlapping) ELSE 0)
    BY <1>4, <1>6
  <2> HIDE DEF a, o, n
  <2>5. then = [acc EXCEPT !.busy = acc.busy + 1, !.collisions = n,
                           !.overlapping = o, !.active = a]
    BY <2>3, <2>4
  <2> QED
    BY <1>1, <2>1, <2>2, <2>5 DEF Measures, a, o, n
<1>8. then.active = ActiveOf(Q)
  BY <1>1, <1>7 DEF ActiveOf, Q
<1>9. then.overlapping = OverlapsOf(Q)
  <2>1. ASSUME NEW p \in OverlapsOf(Q)
        PROVE  p \in OverlapsOf(R) \/ p \in pairs
    <3>1. PICK d \in Q, f \in Q : /\ d # f /\ d.area = f.area /\ d.area # NoArea
                                  /\ p = <<d.area, {d.agent, f.agent}>>
      BY DEF OverlapsOf
    <3>2. CASE d \in R /\ f \in R
      BY <2>1, <3>1, <3>2 DEF OverlapsOf
    <3>3. CASE d = x
      <4>1. f \in same
        BY <3>1, <3>3 DEF same, Q, Alongside
      <4> QED
        BY <1>2, <3>1, <3>3, <4>1
    <3>4. CASE f = x
      <4>1. d \in same
        BY <3>1, <3>4 DEF same, Q, Alongside
      <4>2. p = <<x.area, {x.agent, d.agent}>>
        BY <3>1, <3>4
      <4> QED
        BY <1>2, <4>1, <4>2
    <3> QED
      BY <3>1, <3>2, <3>3, <3>4 DEF Q
  <2>2. \A p \in OverlapsOf(R) : p \in OverlapsOf(Q)
    BY DEF OverlapsOf, Q
  <2>3. ASSUME NEW p \in pairs
        PROVE  p \in OverlapsOf(Q)
    <3>1. PICK f \in same : p = <<x.area, {x.agent, f.agent}>>
      BY <1>2
    <3>2. x \in Q /\ f \in Q /\ x # f /\ x.area = f.area /\ x.area # NoArea
      BY <1>1 DEF same, Q, Alongside
    <3> QED
      BY <1>5, <3>1, <3>2 DEF OverlapsOf
  <2> QED
    BY <1>1, <1>7, <2>1, <2>2, <2>3
<1>10. then.collisions = Cardinality(CollidingIn(U, window))
  <2>1. \A d \in R : t < Ends(d)
    OBVIOUS
  <2>2. Cardinality(CollidingIn(U, window)) =
           Cardinality(CollidingIn(S, window))
              + (IF t \in window THEN Cardinality(same) ELSE 0)
    <3>1. OneMorePairEach(S, R, x, t, window)
      BY <2>1, NewlyColliding
    <3> QED
      BY <3>1 DEF OneMorePairEach, U, same
  <2>3. acc.collisions = Cardinality(CollidingIn(S, window))
    BY DEF Measured
  <2> QED
    BY <1>7, <2>2, <2>3
<1>11. then.busy = Cardinality(Q)
  <2>1. Cardinality(Q) = Cardinality(R) + 1
    BY <1>1, FS_AddElement DEF Q
  <2> QED
    BY <1>7, <2>1 DEF Measured
<1>12. Total(WorkedBy(U, from, t), U) = Total(WorkedBy(S, from, t), S)
  <2>1. Worked(x, from, t) = 0
    BY <1>1 DEF Worked
  <2>2. \A d \in S : d \in U /\ Worked(d, from, t) \in Int
    <3> SUFFICES ASSUME NEW d \in S
                 PROVE  Worked(d, from, t) \in Int
      BY DEF U
    <3>1. d.tick \in Nat /\ Ends(d) \in Nat
      BY DEF Under, Begun
    <3> QED
      BY <1>1, <3>1 DEF Worked
  <2>3. /\ WorkedBy(U, from, t)[x] = 0
        /\ \A d \in S : /\ WorkedBy(U, from, t)[d] \in Int
                        /\ WorkedBy(S, from, t)[d] = WorkedBy(U, from, t)[d]
    BY <2>1, <2>2 DEF WorkedBy, U
  <2>4. Total(WorkedBy(U, from, t), U) = WorkedBy(U, from, t)[x] + Total(WorkedBy(S, from, t), S)
    <3> DEFINE f == WorkedBy(U, from, t)
               g == WorkedBy(S, from, t)
    <3>1. f[x] \in Int /\ \A y \in S : f[y] \in Int /\ g[y] = f[y]
      BY <2>3
    <3> HIDE DEF f, g
    <3>2. Total(f, S \cup {x}) = f[x] + Total(g, S)
      BY <1>1, <3>1, SumAdd
    <3> QED
      BY <3>2 DEF f, g, U
  <2>5. Total(WorkedBy(S, from, t), S) \in Int
    BY <1>1 DEF Measured, Measures
  <2> QED
    BY <2>3, <2>4, <2>5
<1>13. Measured(then, U, Q, t, from, window)
  BY <1>7, <1>8, <1>9, <1>10, <1>11, <1>12 DEF Measured
<1>14. Under(U, Q, t)
  BY <1>1 DEF Under, U, Q
<1> QED
  BY <1>7, <1>13, <1>14 DEF U, Q, AfterDispatch

----------------------------------------------------------------------------
(* The ledger *)

LedgerEntries ==
         [kind : {"observe"}, tick : Nat]
    \cup [kind : {"arrival"}, tick : Nat, bead : Beads]
    \cup [kind : {"dispatch"}, tick : Nat, agent : Agents, bead : Beads, area : Areas]
    \cup [kind : {"complete"}, tick : Nat, agent : Agents, bead : Beads, area : Areas,
          workCompleted : BOOLEAN]

\* The entries es are in order, from tick 0 as far as tick t.
InOrder(es, t) ==
    /\ es \in Seq(LedgerEntries)
    /\ \A i \in DOMAIN es : es[i].tick <= t
    /\ es # <<>> => es[1].tick = 0 /\ \E i \in DOMAIN es : es[i].tick = t

Written ==
    /\ InOrder(entries, clock)
    /\ entries = <<>> => clock = 0 /\ \E e \in BagToSet(heap) : e.tick = 0

StartsOf(es) == {es[i] : i \in {j \in DOMAIN es : es[j].kind = "dispatch"}}
Running == {d \in Starts : status[d.bead] = "in-progress"}
Completion(d) == Event(Ends(d), KindComplete, d.agent, d.bead)

\* The ledger tells of every bead that was taken, and what the store and the
\* heap say of it.
Told ==
    /\ \A d \in Starts : status[d.bead] \in {"in-progress", "closed"}
    /\ \A d, f \in Starts : d.bead = f.bead => d = f
    /\ \A b \in Beads : status[b] \in {"in-progress", "closed"} => \E d \in Starts : d.bead = b
    /\ \A d \in Running : owner[d.bead] = d.agent /\ Completion(d) \in BagToSet(heap)
    /\ \A d \in Starts \ Running : Ends(d) <= clock
    /\ \A d \in Starts : d.area = AreaOf[WorkOf[d.bead]]
    /\ \A e \in BagToSet(heap) : e.kind = KindArrival => world.timeline # {}

Zero ==
    [prev |-> 0, idleTicks |-> 0, busyTicks |-> 0, busy |-> 0, active |-> {},
     overlapping |-> {}, collisions |-> 0, completed |-> 0]

Window(from, postOnly) == {n \in Nat : postOnly => n > from}

\* Whatever the window, the replay of the ledger measures what was dispatched.
AccountsOf(es, S, R, t) ==
    \A from \in Nat, postOnly \in BOOLEAN :
        Measured(Folded(Zero, es, from, postOnly), S, R, t, from, Window(from, postOnly))

Accounts == AccountsOf(entries, Starts, Running, clock)

Finished == {w \in Works : \A b \in Known : WorkOf[b] = w => status[b] = "closed"}

CompletedOf(es) == Folded(Zero, es, 0, FALSE).completed

\* Works are counted when their last bead is closed, and again when one that was
\* closed gets a new bead.
Counted ==
    /\ CompletedOf(entries) >= Cardinality(Finished)
    /\ world.timeline = {} => CompletedOf(entries) = Cardinality(Finished)

\* The loop's invariant, a ledger that is in order and tells what happened, and
\* sums that are those of what it tells.
MInv == IInv /\ Written /\ Told /\ Accounts /\ Counted

\* The fields of an entry.
LEMMA EntryFields ==
  ASSUME NEW e \in LedgerEntries
  PROVE  /\ e.tick \in Nat /\ e.kind \in {"observe", "arrival", "dispatch", "complete"}
         /\ e.kind = "dispatch" =>
               /\ e.agent \in Agents /\ e.bead \in Beads /\ e.area \in Areas
               /\ e = [kind |-> "dispatch", tick |-> e.tick, agent |-> e.agent,
                       bead |-> e.bead, area |-> e.area]
         /\ e.kind = "complete" =>
               /\ e.agent \in Agents /\ e.bead \in Beads /\ e.area \in Areas
               /\ e.workCompleted \in BOOLEAN
BY DEF LedgerEntries

\* One entry more, or two.
LEMMA OneMore ==
  ASSUME NEW es, NEW t \in Nat, InOrder(es, t), NEW e \in LedgerEntries, t <= e.tick,
         es = <<>> => e.tick = 0
  PROVE  InOrder(Append(es, e), e.tick) /\ Append(es, e) # <<>>
<1> DEFINE fs == Append(es, e)
<1>1. /\ es \in Seq(LedgerEntries) /\ fs \in Seq(LedgerEntries) /\ Len(es) \in Nat
      /\ Len(fs) = Len(es) + 1 /\ DOMAIN fs = 1..Len(fs) /\ DOMAIN es = 1..Len(es)
      /\ fs[Len(fs)] = e /\ \A i \in 1..Len(es) : fs[i] = es[i]
  BY DEF InOrder
<1> HIDE DEF fs
<1>2. \A i \in DOMAIN fs : i = Len(fs) \/ i \in DOMAIN es
  BY <1>1
<1>3. e.tick \in Nat /\ \A i \in DOMAIN es : es[i] \in LedgerEntries /\ es[i].tick \in Nat
  BY <1>1, EntryFields
<1>4. \A i \in DOMAIN fs : fs[i].tick <= e.tick
  BY <1>1, <1>2, <1>3 DEF InOrder
<1>5. fs # <<>> /\ Len(fs) \in DOMAIN fs
  BY <1>1
<1>6. fs[1].tick = 0
  <2>1. CASE es = <<>>
    BY <1>1, <2>1
  <2>2. CASE es # <<>>
    BY <1>1, <2>2 DEF InOrder
  <2> QED
    BY <2>1, <2>2
<1> QED
  BY <1>1, <1>4, <1>5, <1>6 DEF InOrder, fs

\* The dispatches of a longer ledger.
LEMMA StartsAppend ==
  ASSUME NEW es \in Seq(LedgerEntries), NEW e \in LedgerEntries
  PROVE  StartsOf(Append(es, e)) =
            IF e.kind = "dispatch" THEN StartsOf(es) \cup {e} ELSE StartsOf(es)
<1> DEFINE fs == Append(es, e)
<1>1. /\ Len(es) \in Nat /\ DOMAIN es = 1..Len(es) /\ DOMAIN fs = 1..(Len(es) + 1)
      /\ fs[Len(es) + 1] = e /\ \A i \in 1..Len(es) : fs[i] = es[i]
  OBVIOUS
<1> HIDE DEF fs
<1>2. \A i \in DOMAIN fs : i = Len(es) + 1 \/ i \in DOMAIN es
  BY <1>1
<1>3. DOMAIN es \subseteq DOMAIN fs /\ Len(es) + 1 \in DOMAIN fs
  BY <1>1
<1>4. ASSUME NEW d \in StartsOf(fs)
      PROVE  d \in StartsOf(es) \/ (d = e /\ e.kind = "dispatch")
  BY <1>1, <1>2 DEF StartsOf
<1>5. ASSUME NEW d \in StartsOf(es)
      PROVE  d \in StartsOf(fs)
  BY <1>1, <1>3 DEF StartsOf
<1>6. e.kind = "dispatch" => e \in StartsOf(fs)
  BY <1>1, <1>3 DEF StartsOf
<1> QED
  BY <1>4, <1>5, <1>6 DEF fs

\* What a step of the collector writes: two entries, none, or one.
LEMMA WriteTwo ==
  ASSUME NEW E, NEW es \in Seq(E), NEW a \in E, NEW b \in E
  PROVE  es \o <<a, b>> = Append(Append(es, a), b)
OBVIOUS

\* None adds nothing,
LEMMA WriteNone ==
  ASSUME NEW E, NEW es \in Seq(E)
  PROVE  es \o SetToSeq({}) = es
<1>1. Cardinality({}) = 0
  BY FS_EmptySet
<1>2. SetToSeq({}) = <<>>
  BY <1>1 DEF SetToSeq
<1> QED
  BY <1>2

\* and one is added at the end.
LEMMA WriteOne ==
  ASSUME NEW E, NEW es \in Seq(E), NEW a \in E
  PROVE  es \o SetToSeq({a}) = Append(es, a)
<1>1. Cardinality({a}) = 1
  BY FS_Singleton
<1> DEFINE s == SetToSeq({a})
<1>2. s \in [1..1 -> {a}]
  <2>1. <<a>> \in [1..1 -> {a}] /\ IsInjective(<<a>>)
    BY DEF IsInjective
  <2>2. s = CHOOSE f \in [1..1 -> {a}] : IsInjective(f)
    BY <1>1 DEF SetToSeq
  <2> HIDE DEF s
  <2> DEFINE F == [1..1 -> {a}]
  <2>3. \E f \in F : IsInjective(f)
    BY <2>1
  <2> HIDE DEF F
  <2>4. s = CHOOSE f \in F : IsInjective(f)
    BY <2>2 DEF F
  <2>5. s \in F
    BY <2>3, <2>4
  <2> QED
    BY <2>5 DEF F
<1> HIDE DEF s
<1>3. s = <<a>>
  BY <1>2
<1>4. es \o <<a>> = Append(es, a)
  OBVIOUS
<1>5. es \o s = Append(es, a)
  BY <1>3, <1>4
<1> QED
  BY <1>5 DEF s

----------------------------------------------------------------------------
(* The steps of the measured loop *)

\* The store and the ledger agree on who is at work on what.
LEMMA AtWork ==
  ASSUME IInv, Written, Told
  PROVE  /\ Under(Starts, Running, clock)
         /\ \A d \in Starts : d \in LedgerEntries /\ d.kind = "dispatch" /\ d.bead \in Beads
<1>1. entries \in Seq(LedgerEntries) /\ \A i \in DOMAIN entries : entries[i].tick <= clock
  BY DEF Written, InOrder
<1>2. ASSUME NEW d \in Starts
      PROVE  /\ d \in LedgerEntries /\ d.kind = "dispatch" /\ d.bead \in Beads
             /\ d.tick \in Nat /\ d.tick <= clock /\ d.agent \in Agents /\ d.area \in Areas
             /\ Ends(d) \in Nat /\ d.tick < Ends(d)
  <2>1. PICK i \in DOMAIN entries : d = entries[i] /\ entries[i].kind = "dispatch"
    BY DEF Starts
  <2>2. d \in LedgerEntries /\ d.tick <= clock
    BY <1>1, <2>1
  <2>3. d.bead \in Beads /\ d.tick \in Nat /\ d.agent \in Agents /\ d.area \in Areas
    BY <2>1, <2>2, EntryFields
  <2>4. world.duration \in [Beads -> 1..MaxDuration]
    BY SimAssumption DEF IInv, TypeOK, Worlds, Durations
  <2>5. world.duration[d.bead] \in Nat /\ world.duration[d.bead] > 0
    BY <2>3, <2>4, SimAssumption
  <2>6. Ends(d) = d.tick + world.duration[d.bead]
    BY DEF Ends
  <2> QED
    BY <2>1, <2>2, <2>3, <2>5, <2>6
<1>3. IsFiniteSet(Starts)
  <2> DEFINE I == {j \in DOMAIN entries : entries[j].kind = "dispatch"}
  <2>1. DOMAIN entries = 1..Len(entries) /\ Len(entries) \in Nat
    BY <1>1
  <2>2. IsFiniteSet(I)
    <3>1. IsFiniteSet(1..Len(entries))
      BY <2>1, FS_Interval
    <3> QED
      BY <2>1, <3>1, FS_Subset
  <2>3. Starts = {entries[i] : i \in I}
    BY DEF Starts
  <2> HIDE DEF I
  <2> DEFINE g == [i \in I |-> entries[i]]
  <2>4. g \in Surjection(I, Starts)
    BY <2>3 DEF Surjection
  <2> QED
    BY <2>2, <2>4, FS_Surjection
<1>4. Running \in SUBSET Starts /\ clock \in Nat
  BY DEF Running, IInv, TypeOK
<1>5. \A d \in Running : clock <= Ends(d)
  <2> SUFFICES ASSUME NEW d \in Running
               PROVE  clock <= Ends(d)
    OBVIOUS
  <2>1. Completion(d) \in BagToSet(heap) /\ Completion(d).tick = Ends(d)
    BY DEF Told, Completion, Event
  <2> QED
    BY <2>1 DEF IInv, Future
<1>6. \A d, f \in Running : d.agent = f.agent => d = f
  <2> SUFFICES ASSUME NEW d \in Running, NEW f \in Running, d.agent = f.agent
               PROVE  d = f
    OBVIOUS
  <2>1. d \in Starts /\ f \in Starts /\ d.bead \in Beads /\ f.bead \in Beads /\ d.agent \in Agents
    BY <1>2, <1>4
  <2>2. d.bead \in HeldBy(d.agent) /\ f.bead \in HeldBy(d.agent)
    BY <2>1 DEF Told, HeldBy, Running
  <2>3. d.bead = f.bead
    <3>1. \E b : HeldBy(d.agent) = {b}
      BY <2>1, <2>2 DEF IInv, OneBeadPerAgent
    <3> QED
      BY <2>2, <3>1
  <2> QED
    BY <2>1, <2>3 DEF Told
<1>7. \A d \in Starts \ Running : Ends(d) <= clock
  BY DEF Told
<1>8. Begun(Starts)
  BY <1>2, <1>3 DEF Begun
<1>9. \A d \in Starts : d.tick <= clock
  BY <1>2
<1>10. Under(Starts, Running, clock)
  BY <1>4, <1>5, <1>6, <1>7, <1>8, <1>9 DEF Under
<1> QED
  BY <1>2, <1>10

\* The entry of an observation or an arrival only lets time pass.
LEMMA Passes ==
  ASSUME NEW es \in Seq(LedgerEntries), NEW e \in LedgerEntries,
         e.kind \in {"observe", "arrival"},
         NEW S, NEW R, NEW t, Under(S, R, t), AccountsOf(es, S, R, t),
         t <= e.tick, \A d \in R : e.tick <= Ends(d)
  PROVE  /\ Under(S, R, e.tick) /\ AccountsOf(Append(es, e), S, R, e.tick)
         /\ CompletedOf(Append(es, e)) = CompletedOf(es)
<1>1. e.tick \in Nat /\ e.kind # "dispatch" /\ e.kind # "complete"
  BY EntryFields
<1>2. ASSUME NEW from \in Nat, NEW postOnly \in BOOLEAN
      PROVE  /\ Under(S, R, e.tick)
             /\ Measured(Folded(Zero, Append(es, e), from, postOnly), S, R, e.tick, from,
                         Window(from, postOnly))
             /\ Folded(Zero, Append(es, e), from, postOnly).completed =
                  Folded(Zero, es, from, postOnly).completed
  <2> DEFINE acc == Folded(Zero, es, from, postOnly)
             w == Window(from, postOnly)
  <2>1. Folded(Zero, Append(es, e), from, postOnly) = AdvanceTime(acc, e.tick, from)
    <3>1. Folded(Zero, Append(es, e), from, postOnly) = Replay(acc, e, from, postOnly)
      BY FoldAppend
    <3> QED
      BY <1>1, <3>1 DEF Replay
  <2>2. Measured(acc, S, R, t, from, w)
    BY DEF AccountsOf
  <2> HIDE DEF acc, w
  <2>3. /\ Under(S, R, e.tick)
        /\ Measured(AdvanceTime(acc, e.tick, from), S, R, e.tick, from, w)
        /\ AdvanceTime(acc, e.tick, from).completed = acc.completed
    BY <1>1, <2>2, Advances
  <2> QED
    BY <2>1, <2>3 DEF acc, w
<1>3. AccountsOf(Append(es, e), S, R, e.tick)
  BY <1>2 DEF AccountsOf
<1>4. 0 \in Nat /\ FALSE \in BOOLEAN
  OBVIOUS
<1> QED
  BY <1>2, <1>3, <1>4 DEF CompletedOf

\* The entry of a dispatch starts an interval.
LEMMA Begins ==
  ASSUME NEW es \in Seq(LedgerEntries), NEW x \in LedgerEntries, x.kind = "dispatch",
         NEW S, NEW R, Under(S, R, x.tick), AccountsOf(es, S, R, x.tick),
         x \notin S, Begun(S \cup {x}),
         \A d \in R : x.tick < Ends(d) /\ d.agent # x.agent
  PROVE  /\ Under(S \cup {x}, R \cup {x}, x.tick)
         /\ AccountsOf(Append(es, x), S \cup {x}, R \cup {x}, x.tick)
         /\ CompletedOf(Append(es, x)) = CompletedOf(es)
<1> DEFINE t == x.tick
           U == S \cup {x}
           Q == R \cup {x}
<1>1. t \in Nat /\ \A d \in R : t <= Ends(d)
  BY EntryFields DEF Under, Begun
<1>2. ASSUME NEW from \in Nat, NEW postOnly \in BOOLEAN
      PROVE  /\ Under(U, Q, t)
             /\ Measured(Folded(Zero, Append(es, x), from, postOnly), U, Q, t, from,
                         Window(from, postOnly))
             /\ Folded(Zero, Append(es, x), from, postOnly).completed =
                  Folded(Zero, es, from, postOnly).completed
  <2> DEFINE acc == Folded(Zero, es, from, postOnly)
             w == Window(from, postOnly)
             now == AdvanceTime(acc, t, from)
             inWindow == (postOnly => t > from)
  <2>1. Folded(Zero, Append(es, x), from, postOnly) = ReplayDispatch(now, x, inWindow)
    <3>1. Folded(Zero, Append(es, x), from, postOnly) = Replay(acc, x, from, postOnly)
      BY FoldAppend
    <3> QED
      BY <3>1 DEF Replay
  <2>2. Measured(acc, S, R, t, from, w)
    BY DEF AccountsOf
  <2>3. inWindow \in BOOLEAN /\ (inWindow <=> t \in w)
    BY <1>1 DEF Window
  <2> HIDE DEF acc, w, now, inWindow
  <2>4. /\ Measured(now, S, R, t, from, w) /\ now.completed = acc.completed
    <3>1. t <= t
      BY <1>1
    <3> QED
      BY <1>1, <2>2, <3>1, Advances DEF now
  <2> DEFINE then == ReplayDispatch(now, x, inWindow)
  <2>5. AfterDispatch(now, then, S, R, x, t, from, w)
    <3>1. then = ReplayDispatch(now, x, inWindow)
      OBVIOUS
    <3> HIDE DEF then
    <3> QED
      BY <2>3, <2>4, <3>1, Dispatches
  <2> QED
    BY <2>1, <2>4, <2>5 DEF acc, w, AfterDispatch
<1>3. AccountsOf(Append(es, x), U, Q, t)
  BY <1>2 DEF AccountsOf
<1>4. 0 \in Nat /\ FALSE \in BOOLEAN
  OBVIOUS
<1> QED
  BY <1>2, <1>3, <1>4 DEF CompletedOf

\* The entry of a completion ends it.
LEMMA Ceases ==
  ASSUME NEW es \in Seq(LedgerEntries), NEW e \in LedgerEntries, e.kind = "complete",
         NEW S, NEW R, Under(S, R, e.tick), AccountsOf(es, S, R, e.tick),
         NEW x \in R, Ends(x) = e.tick, x.agent = e.agent, x.area = e.area
  PROVE  /\ AccountsOf(Append(es, e), S, R \ {x}, e.tick)
         /\ CompletedOf(Append(es, e)) = CompletedOf(es) + One(e.workCompleted)
         /\ CompletedOf(es) \in Nat
<1> DEFINE t == e.tick
           Q == R \ {x}
<1>1. t \in Nat /\ \A d \in R : t <= Ends(d)
  BY EntryFields DEF Under
<1>2. ASSUME NEW from \in Nat, NEW postOnly \in BOOLEAN
      PROVE  /\ Measured(Folded(Zero, Append(es, e), from, postOnly), S, Q, t, from,
                         Window(from, postOnly))
             /\ Folded(Zero, Append(es, e), from, postOnly).completed =
                  Folded(Zero, es, from, postOnly).completed
                    + One(e.workCompleted /\ (postOnly => t > from))
             /\ Folded(Zero, es, from, postOnly).completed \in Nat
  <2> DEFINE acc == Folded(Zero, es, from, postOnly)
             w == Window(from, postOnly)
             now == AdvanceTime(acc, t, from)
             inWindow == (postOnly => t > from)
  <2>1. Folded(Zero, Append(es, e), from, postOnly) = ReplayComplete(now, e, inWindow)
    <3>1. Folded(Zero, Append(es, e), from, postOnly) = Replay(acc, e, from, postOnly)
      BY FoldAppend
    <3> QED
      BY <3>1 DEF Replay
  <2>2. Measured(acc, S, R, t, from, w)
    BY DEF AccountsOf
  <2>3. inWindow \in BOOLEAN
    OBVIOUS
  <2> HIDE DEF acc, w, now, inWindow
  <2>4. /\ Measured(now, S, R, t, from, w) /\ now.completed = acc.completed
    <3>1. t <= t
      BY <1>1
    <3> QED
      BY <1>1, <2>2, <3>1, Advances DEF now
  <2> DEFINE then == ReplayComplete(now, e, inWindow)
             counts == e.workCompleted /\ inWindow
  <2>5. AfterCompletion(now, then, S, R, x, t, from, w, counts)
    <3>1. /\ then = ReplayComplete(now, e, inWindow)
          /\ counts \in BOOLEAN /\ (counts <=> e.workCompleted /\ inWindow)
      OBVIOUS
    <3> HIDE DEF then, counts
    <3> QED
      BY <2>3, <2>4, <3>1, Completes
  <2>6. acc.completed \in Nat
    BY <2>2 DEF Measured, Measures
  <2> QED
    BY <2>1, <2>4, <2>5, <2>6 DEF acc, w, inWindow, AfterCompletion
<1>3. AccountsOf(Append(es, e), S, Q, t)
  BY <1>2 DEF AccountsOf
<1>4. /\ CompletedOf(Append(es, e)) = CompletedOf(es) + One(e.workCompleted /\ (FALSE => t > 0))
      /\ CompletedOf(es) \in Nat
  <2>1. 0 \in Nat /\ FALSE \in BOOLEAN
    OBVIOUS
  <2> QED
    BY <1>2, <2>1 DEF CompletedOf
<1>5. One(e.workCompleted /\ (FALSE => t > 0)) = One(e.workCompleted)
  BY DEF One
<1> QED
  BY <1>3, <1>4, <1>5

\* The world, and with it the intervals, stay the same.
LEMMA SameIntervals ==
  ASSUME world' = world, NEW es, NEW S, NEW R, NEW t,
         entries' = es, Starts' = S, Running' = R, clock' = t, AccountsOf(es, S, R, t)
  PROVE  Accounts'
<1>1. \A d : Ends(d)' = Ends(d)
  BY DEF Ends
<1>2. ASSUME NEW from, NEW w
      PROVE  /\ WorkedBy(S, from, t)' = WorkedBy(S, from, t)
             /\ CollidingIn(S, w)' = CollidingIn(S, w)
  BY <1>1 DEF WorkedBy, Worked, CollidingIn
<1>3. ASSUME NEW acc, NEW from, NEW w, Measured(acc, S, R, t, from, w)
      PROVE  Measured(acc, S, R, t, from, w)'
  BY <1>2, <1>3 DEF Measured
<1> QED
  BY <1>3 DEF Accounts, AccountsOf

\* Every step that takes an event first notes the time.
LEMMA Observes ==
  ASSUME IInv, Written, Told, Accounts, HasNext, NEW k, Due(Peek(heap), k),
         NEW e, e = Peek(heap), NEW es, es = Append(entries, Observed)
  PROVE  /\ e \in BagToSet(heap) /\ e \in Events /\ e.kind = k /\ clock' = e.tick
         /\ e.tick \in Nat /\ clock <= e.tick /\ world' = world /\ heap # EmptyBag
         /\ k # KindAgentFree => e.bead \in Beads
         /\ \A f \in BagToSet(heap) \ {e} : Less(e, f)
         /\ es \in Seq(LedgerEntries) /\ InOrder(es, e.tick) /\ es # <<>>
         /\ StartsOf(es) = Starts
         /\ Under(Starts, Running, e.tick)
         /\ AccountsOf(es, Starts, Running, e.tick)
         /\ CompletedOf(es) = CompletedOf(entries)
<1>1. heap # EmptyBag
  BY DEF HasNext
<1>2. /\ e \in BagToSet(heap) /\ \A f \in BagToSet(heap) : e.tick <= f.tick
      /\ \A f \in BagToSet(heap) \ {e} : Less(e, f)
  BY <1>1, FirstEvent DEF IInv
<1>3. /\ e \in Events /\ e.kind = k /\ clock' = e.tick /\ clock <= e.tick /\ world' = world
      /\ k # KindAgentFree => e.bead \in Beads
  BY <1>2 DEF IInv, TypeOK, Future, Due
<1>4. e.tick \in Nat /\ clock \in Nat
  BY <1>3 DEF Events, IInv, TypeOK
<1> DEFINE o == Observed
<1>5. o \in LedgerEntries /\ o.kind = "observe" /\ o.tick = e.tick
  BY <1>4 DEF Observed, LedgerEntries
<1> HIDE DEF o
<1>6. entries = <<>> => e.tick = 0
  <2>1. ASSUME entries = <<>>
        PROVE  e.tick = 0
    <3>1. PICK f \in BagToSet(heap) : f.tick = 0
      BY <2>1 DEF Written
    <3> QED
      BY <1>2, <1>4, <3>1
  <2> QED
    BY <2>1
<1>7. entries \in Seq(LedgerEntries) /\ es = Append(entries, o)
  BY DEF Written, InOrder, o
<1>8. InOrder(es, e.tick) /\ es # <<>>
  BY <1>3, <1>4, <1>5, <1>6, <1>7, OneMore DEF Written
<1>9. StartsOf(es) = Starts
  <2>1. StartsOf(Append(entries, o)) = StartsOf(entries)
    BY <1>5, <1>7, StartsAppend
  <2> QED
    BY <1>7, <2>1 DEF StartsOf, Starts
<1>10. \A d \in Running : e.tick <= Ends(d)
  <2> SUFFICES ASSUME NEW d \in Running
               PROVE  e.tick <= Ends(d)
    OBVIOUS
  <2>1. Completion(d) \in BagToSet(heap) /\ Completion(d).tick = Ends(d)
    BY DEF Told, Completion, Event
  <2> QED
    BY <1>2, <2>1
<1>11. Under(Starts, Running, clock)
  BY AtWork
<1>12. /\ Under(Starts, Running, o.tick) /\ AccountsOf(Append(entries, o), Starts, Running, o.tick)
       /\ CompletedOf(Append(entries, o)) = CompletedOf(entries)
  BY <1>3, <1>5, <1>7, <1>10, <1>11, Passes DEF Accounts
<1>13. es \in Seq(LedgerEntries)
  BY <1>8 DEF InOrder
<1> QED
  BY <1>1, <1>2, <1>3, <1>4, <1>5, <1>7, <1>8, <1>9, <1>12, <1>13

\* An arrival.
LEMMA ArriveMeasured ==
  ASSUME MInv, PopArrival, entries' = entries \o <<Observed, ArrivalEntry>>
  PROVE  Written' /\ Told' /\ Accounts' /\ Counted'
<1> USE DEF MInv
<1>0. HasNext /\ Due(Peek(heap), KindArrival) /\ Arrive(Peek(heap))
  BY DEF PopArrival, Due
<1> DEFINE e == Peek(heap)
           es == Append(entries, Observed)
           a == ArrivalEntry
           fs == Append(es, a)
<1>1. /\ e \in BagToSet(heap) /\ e \in Events /\ e.kind = KindArrival /\ clock' = e.tick
      /\ e.tick \in Nat /\ clock <= e.tick /\ world' = world
      /\ e.bead \in Beads
      /\ es \in Seq(LedgerEntries) /\ InOrder(es, e.tick) /\ es # <<>>
      /\ StartsOf(es) = Starts
      /\ Under(Starts, Running, e.tick)
      /\ AccountsOf(es, Starts, Running, e.tick)
      /\ CompletedOf(es) = CompletedOf(entries)
  <2>1. KindArrival # KindAgentFree
    BY DEF KindArrival, KindAgentFree
  <2> HIDE DEF e, es
  <2>2. e = Peek(heap) /\ es = Append(entries, Observed)
    BY DEF e, es
  <2> QED
    BY <1>0, <2>1, <2>2, Observes
<1>2. a \in LedgerEntries /\ a.kind = "arrival" /\ a.tick = e.tick
  BY <1>1 DEF ArrivalEntry, LedgerEntries
<1>3. entries' = fs
  <2>1. Observed \in LedgerEntries /\ entries \in Seq(LedgerEntries)
    BY <1>1 DEF Observed, LedgerEntries, Written, InOrder
  <2> QED
    BY <1>2, <2>1, WriteTwo
<1> HIDE DEF a, es
<1>4. fs # <<>> /\ InOrder(fs, e.tick) /\ StartsOf(fs) = Starts
      /\ AccountsOf(fs, Starts, Running, e.tick)
      /\ CompletedOf(fs) = CompletedOf(entries)
  <2>1. \A d \in Running : a.tick <= Ends(d)
    BY <1>1, <1>2 DEF Under
  <2>2. a.tick <= a.tick /\ a.tick \in Nat
    BY <1>1, <1>2
  <2>3. StartsOf(fs) = Starts
    BY <1>1, <1>2, StartsAppend
  <2>4. fs # <<>> /\ InOrder(fs, e.tick)
    BY <1>1, <1>2, <2>2, OneMore
  <2>5. AccountsOf(fs, Starts, Running, e.tick) /\ CompletedOf(fs) = CompletedOf(es)
    BY <1>1, <1>2, <2>1, <2>2, Passes
  <2> QED
    BY <1>1, <2>3, <2>4, <2>5
<1> DEFINE S == {Event(e.tick, KindAgentFree, b, NoBead) : b \in IdleAgents}
<1>5. /\ status' = [status EXCEPT ![e.bead] = IF @ = "absent" THEN "open" ELSE @]
      /\ heap' = Push(Pop(heap), S)
      /\ owner' = owner
  BY <1>0 DEF Arrive
<1>6. \A f \in S : f.kind = KindAgentFree
  BY DEF Event
<1> HIDE DEF fs, S, e
<1>7. Starts' = Starts
  BY <1>3, <1>4 DEF Starts, StartsOf
<1>8. \A b \in Beads : /\ status'[b] = status[b] \/ (status[b] = "absent" /\ status'[b] = "open")
  BY <1>1, <1>5 DEF IInv, TypeOK
<1>9. \A d \in Starts : d.bead \in Beads
  BY AtWork
<1>10. Running' = Running
  BY <1>7, <1>8, <1>9 DEF Running, Told
<1>11. Accounts'
  BY <1>1, <1>3, <1>4, <1>7, <1>10, SameIntervals
<1>12. Written'
  <2>1. entries' # <<>> /\ InOrder(entries', clock')
    BY <1>1, <1>3, <1>4
  <2> QED
    BY <2>1 DEF Written
<1>p. Replaced(heap, heap', S)
  BY <1>1, <1>5, PopPush DEF IInv, TypeOK, e
<1>13. \A f \in BagToSet(heap) \ {e} : f \in BagToSet(heap')
  BY <1>p DEF Replaced, e
<1>14. \A f \in BagToSet(heap') : f.kind = KindArrival => f \in BagToSet(heap)
  <2>1. BagToSet(heap') \subseteq BagToSet(heap) \cup S
    BY <1>p DEF Replaced
  <2> QED
    BY <1>6, <2>1 DEF KindArrival, KindAgentFree
<1>15. \A d : Completion(d)' = Completion(d) /\ Ends(d)' = Ends(d) /\ Completion(d) # e
  BY <1>1 DEF Completion, Ends, Event, KindComplete, KindArrival
<1>16. Told'
  <2>1. \A d \in Starts : status'[d.bead] \in {"in-progress", "closed"}
    BY <1>8, <1>9 DEF Told
  <2>2. \A b \in Beads : status'[b] \in {"in-progress", "closed"} => \E d \in Starts : d.bead = b
    BY <1>8 DEF Told
  <2>3. \A d \in Running : owner'[d.bead] = d.agent /\ Completion(d)' \in BagToSet(heap')
    BY <1>5, <1>13, <1>15 DEF Told
  <2>4. \A d \in Starts \ Running : Ends(d)' <= clock'
    <3> SUFFICES ASSUME NEW d \in Starts \ Running
                 PROVE  Ends(d) <= e.tick
      BY <1>1, <1>15
    <3>1. Ends(d) <= clock /\ Ends(d) \in Nat /\ clock \in Nat
      BY <1>1 DEF Told, Under, Begun, IInv, TypeOK
    <3> QED
      BY <1>1, <3>1
  <2>5. \A f \in BagToSet(heap') : f.kind = KindArrival => world'.timeline # {}
    BY <1>1, <1>14 DEF Told
  <2> QED
    BY <1>7, <1>10, <2>1, <2>2, <2>3, <2>4, <2>5 DEF Told
<1>17. Counted'
  <2>1. Finished' \in SUBSET Finished
    BY <1>8 DEF Finished, Known
  <2>2. Finished \in SUBSET Works
    BY DEF Finished
  <2>3. Cardinality(Finished') <= Cardinality(Finished)
        /\ Cardinality(Finished) \in Nat /\ Cardinality(Finished') \in Nat
    <3>1. Finished' \in SUBSET Works
      BY <2>1, <2>2
    <3> QED
      BY <2>1, <2>2, <3>1, SomeWorks, FS_Subset
  <2>4. CompletedOf(entries') = CompletedOf(entries)
    BY <1>3, <1>4
  <2>5. world.timeline # {}
    BY <1>1 DEF Told
  <2>6. CompletedOf(entries) \in Nat
    <3>1. Measured(Folded(Zero, entries, 0, FALSE), Starts, Running, clock, 0, Window(0, FALSE))
      BY DEF Accounts, AccountsOf
    <3> QED
      BY <3>1 DEF Measured, Measures, CompletedOf
  <2> QED
    BY <1>1, <2>3, <2>4, <2>5, <2>6 DEF Counted
<1> QED
  BY <1>11, <1>12, <1>16, <1>17

\* A completion.
LEMMA CompleteMeasured ==
  ASSUME MInv, PopComplete, entries' = entries \o <<Observed, CompleteEntry>>
  PROVE  Written' /\ Told' /\ Accounts' /\ Counted'
<1> USE DEF MInv
<1>0. HasNext /\ Due(Peek(heap), KindComplete) /\ CompleteBead(Peek(heap))
  BY DEF PopComplete, Due
<1> DEFINE e == Peek(heap)
           es == Append(entries, Observed)
           c == CompleteEntry
           fs == Append(es, c)
           closes == TerminallyClosed(WorkOf[e.bead])
<1>1. /\ e \in BagToSet(heap) /\ e \in Events /\ e.kind = KindComplete /\ clock' = e.tick
      /\ e.tick \in Nat /\ clock <= e.tick /\ world' = world
      /\ e.bead \in Beads
      /\ es \in Seq(LedgerEntries) /\ InOrder(es, e.tick) /\ es # <<>>
      /\ StartsOf(es) = Starts
      /\ Under(Starts, Running, e.tick)
      /\ AccountsOf(es, Starts, Running, e.tick)
      /\ CompletedOf(es) = CompletedOf(entries)
  <2>1. KindComplete # KindAgentFree
    BY DEF KindComplete, KindAgentFree
  <2> HIDE DEF e, es
  <2>2. e = Peek(heap) /\ es = Append(entries, Observed)
    BY DEF e, es
  <2> QED
    BY <1>0, <2>1, <2>2, Observes
\* The bead is its agent's, and the ledger knows when it was taken.
<1>2. e.agent \in Agents /\ HeldBy(e.agent) = {e.bead} /\ CompletionsOf(e.agent) = {e}
      /\ heap[e] = 1
  <2>1. e.agent \in Agents /\ e \in CompletionsOf(e.agent)
    BY <1>1 DEF CompletionsOf, Events
  <2> HIDE DEF e
  <2> QED
    BY <2>1 DEF IInv, OneBeadPerAgent
<1>3. status[e.bead] = "in-progress" /\ owner[e.bead] = e.agent
  <2> HIDE DEF e
  <2> QED
    BY <1>2 DEF HeldBy
<1>a. \A d \in Starts : d \in LedgerEntries /\ d.kind = "dispatch" /\ d.bead \in Beads
  BY AtWork
<1>4. PICK x \in Starts : x.bead = e.bead
  <2> HIDE DEF e
  <2> QED
    BY <1>1, <1>3 DEF Told
<1>5. /\ x \in Running /\ x.agent = e.agent /\ Completion(x) = e /\ Ends(x) = e.tick
      /\ x.area = AreaOf[WorkOf[e.bead]] /\ x.area \in Areas
  <2> HIDE DEF e
  <2>1. x \in Running /\ x.agent = e.agent /\ x.area = AreaOf[WorkOf[e.bead]]
    BY <1>3, <1>4 DEF Running, Told
  <2>2. Completion(x) \in CompletionsOf(e.agent) /\ Completion(x).tick = Ends(x)
    BY <2>1 DEF Told, CompletionsOf, Completion, Event
  <2>3. Completion(x) = e
    BY <1>2, <2>2
  <2>4. x.area \in Areas
    BY <1>a, EntryFields
  <2> QED
    BY <2>1, <2>2, <2>3, <2>4
<1>6. closes \in BOOLEAN
  BY DEF TerminallyClosed
<1>7. c \in LedgerEntries /\ c.kind = "complete" /\ c.tick = e.tick /\ c.agent = e.agent
      /\ c.area = x.area /\ c.workCompleted = closes
  <2>1. c = [kind |-> "complete", tick |-> e.tick, agent |-> e.agent, bead |-> e.bead,
             area |-> x.area, workCompleted |-> closes]
    BY <1>3, <1>5 DEF CompleteEntry
  <2> HIDE DEF c, e, closes
  <2> QED
    BY <1>1, <1>2, <1>5, <1>6, <2>1 DEF LedgerEntries
<1> HIDE DEF c, closes
<1>8. entries' = fs
  <2>1. Observed \in LedgerEntries /\ entries \in Seq(LedgerEntries)
    BY <1>1 DEF Observed, LedgerEntries, Written, InOrder
  <2>2. entries' = entries \o <<Observed, c>>
    BY DEF c
  <2> QED
    BY <1>7, <2>1, <2>2, WriteTwo
<1> HIDE DEF es
<1> DEFINE Q == Running \ {x}
<1>9. /\ fs # <<>> /\ InOrder(fs, e.tick) /\ StartsOf(fs) = Starts
      /\ AccountsOf(fs, Starts, Q, e.tick)
      /\ CompletedOf(fs) = CompletedOf(entries) + One(closes) /\ CompletedOf(entries) \in Nat
  <2> HIDE DEF e
  <2>1. c.tick <= c.tick /\ c.tick \in Nat
    BY <1>1, <1>7
  <2>2. StartsOf(fs) = Starts
    BY <1>1, <1>7, StartsAppend
  <2>3. fs # <<>> /\ InOrder(fs, e.tick)
    BY <1>1, <1>7, <2>1, OneMore
  <2>4. /\ Under(Starts, Running, c.tick) /\ AccountsOf(es, Starts, Running, c.tick)
        /\ Ends(x) = c.tick /\ x.agent = c.agent /\ x.area = c.area /\ x \in Running
    BY <1>1, <1>5, <1>7
  <2>5. /\ AccountsOf(fs, Starts, Q, c.tick)
        /\ CompletedOf(fs) = CompletedOf(es) + One(c.workCompleted)
        /\ CompletedOf(es) \in Nat
    <3> HIDE DEF fs, Q
    <3> QED
      BY <1>1, <1>7, <2>4, Ceases DEF fs, Q
  <2> QED
    BY <1>1, <1>7, <2>2, <2>3, <2>5
<1> DEFINE S == {Event(e.tick, KindAgentFree, e.agent, NoBead)}
<1>10. /\ status' = [status EXCEPT ![e.bead] = "closed"]
       /\ heap' = Push(Pop(heap), S)
       /\ owner' = owner
  BY <1>0 DEF CompleteBead
<1>11. \A f \in S : f.kind = KindAgentFree
  BY DEF Event
<1>p. Replaced(heap, heap', S)
  BY <1>1, <1>10, PopPush DEF IInv, TypeOK
<1>12. \A f \in BagToSet(heap) \ {e} : f \in BagToSet(heap')
  BY <1>p DEF Replaced
<1>13. \A f \in BagToSet(heap') : f.kind = KindArrival => f \in BagToSet(heap)
  <2> HIDE DEF S
  <2>1. BagToSet(heap') \subseteq BagToSet(heap) \cup S
    BY <1>p DEF Replaced
  <2> QED
    BY <1>11, <2>1 DEF KindArrival, KindAgentFree
<1> HIDE DEF fs, S, e
<1>14. Starts' = Starts
  BY <1>8, <1>9 DEF Starts, StartsOf
<1>15. /\ status'[e.bead] = "closed" /\ \A b \in Beads \ {e.bead} : status'[b] = status[b]
  BY <1>1, <1>10 DEF IInv, TypeOK
<1>16. Running' = Q
  <2>1. \A d \in Starts : d.bead = e.bead <=> d = x
    BY <1>4 DEF Told
  <2> QED
    BY <1>a, <1>14, <1>15, <2>1 DEF Running
<1>17. Accounts'
  BY <1>1, <1>8, <1>9, <1>14, <1>16, SameIntervals
<1>18. Written'
  <2>1. entries' # <<>> /\ InOrder(entries', clock')
    BY <1>1, <1>8, <1>9
  <2> QED
    BY <2>1 DEF Written
<1>19. \A d : Completion(d)' = Completion(d) /\ Ends(d)' = Ends(d)
  BY <1>1 DEF Completion, Ends
<1>20. Told'
  <2>1. \A d \in Starts : status'[d.bead] \in {"in-progress", "closed"}
    BY <1>a, <1>15 DEF Told
  <2>2. \A b \in Beads : status'[b] \in {"in-progress", "closed"} => \E d \in Starts : d.bead = b
    BY <1>4, <1>15 DEF Told
  <2>3. ASSUME NEW d \in Q
        PROVE  owner'[d.bead] = d.agent /\ Completion(d)' \in BagToSet(heap')
    <3>1. owner[d.bead] = d.agent /\ Completion(d) \in BagToSet(heap) /\ d \in Starts
      BY DEF Told, Running
    <3>2. d.bead # e.bead
      BY <1>4, <3>1 DEF Told
    <3>3. Completion(d).bead = d.bead
      BY DEF Completion, Event
    <3>4. Completion(d) # e
      BY <3>2, <3>3
    <3> QED
      BY <1>10, <1>12, <1>19, <3>1, <3>4
  <2>4. \A d \in Starts \ Q : Ends(d)' <= clock'
    <3> SUFFICES ASSUME NEW d \in Starts \ Q
                 PROVE  Ends(d) <= e.tick
      BY <1>1, <1>19
    <3>1. CASE d = x
      BY <1>1, <1>5, <3>1
    <3>2. CASE d # x
      <4>1. Ends(d) <= clock /\ Ends(d) \in Nat /\ clock \in Nat
        BY <1>1, <3>2 DEF Told, Under, Begun, IInv, TypeOK
      <4> QED
        BY <1>1, <4>1
    <3> QED
      BY <3>1, <3>2
  <2>5. \A f \in BagToSet(heap') : f.kind = KindArrival => world'.timeline # {}
    BY <1>1, <1>13 DEF Told
  <2> HIDE DEF Q
  <2> QED
    BY <1>14, <1>16, <2>1, <2>2, <2>3, <2>4, <2>5 DEF Told
<1>21. Counted'
  <2> DEFINE w == WorkOf[e.bead]
  <2>1. w \in Works /\ e.bead \in Known
    BY <1>1, <1>3, SimAssumption DEF Known
  <2>2. w \notin Finished
    BY <1>3, <2>1 DEF Finished
  <2>3. Known' = Known
    BY <1>3, <1>15 DEF Known
  <2>4. closes <=> w \in Finished'
    <3>1. closes <=> \A b \in Beads : WorkOf[b] = w => status'[b] \in {"absent", "closed"}
      BY DEF closes, TerminallyClosed
    <3> QED
      BY <2>1, <3>1 DEF Finished, Known
  <2>5. Finished' = IF closes THEN Finished \cup {w} ELSE Finished
    <3>1. \A v \in Works : v # w => (v \in Finished' <=> v \in Finished)
      <4> SUFFICES ASSUME NEW v \in Works, v # w
                   PROVE  v \in Finished' <=> v \in Finished
        OBVIOUS
      <4>1. \A b \in Known : b \in Beads
        BY DEF Known
      <4>2. \A b \in Known : WorkOf[b] = v => status'[b] = status[b]
        BY <1>15, <4>1
      <4> QED
        BY <2>3, <4>2 DEF Finished
    <3>2. Finished' \subseteq Works /\ Finished \subseteq Works
      BY DEF Finished
    <3>3. w \in Works /\ w \notin Finished /\ (closes <=> w \in Finished')
      BY <2>1, <2>2, <2>4
    <3> HIDE DEF w, closes
    <3> DEFINE F == Finished
               G == Finished'
    <3>4. /\ F \subseteq Works /\ G \subseteq Works /\ w \notin F /\ (closes <=> w \in G)
          /\ \A v \in Works : v # w => (v \in G <=> v \in F)
      BY <3>1, <3>2, <3>3
    <3> HIDE DEF F, G
    <3>5. CASE closes
      BY <3>4, <3>5 DEF F, G
    <3>6. CASE ~closes
      <4>1. w \notin G
        BY <3>4, <3>6
      <4>2. \A v : v \in G <=> v \in F
        BY <3>4, <4>1
      <4>3. G = F
        BY <4>2
      <4>4. Finished' = Finished
        BY <4>3 DEF F, G
      <4> QED
        BY <3>6, <4>4
    <3> QED
      BY <3>5, <3>6
  <2> HIDE DEF w
  <2>6. IsFiniteSet(Finished) /\ Cardinality(Finished) \in Nat
    <3>1. Finished \in SUBSET Works
      BY DEF Finished
    <3> QED
      BY <3>1, SomeWorks
  <2>7. Cardinality(Finished') = Cardinality(Finished) + One(closes)
    <3>1. CASE closes
      BY <2>2, <2>5, <2>6, <3>1, FS_AddElement DEF One
    <3>2. CASE ~closes
      BY <2>5, <2>6, <3>2 DEF One
    <3> QED
      BY <3>1, <3>2
  <2>8. CompletedOf(entries') = CompletedOf(entries) + One(closes) /\ One(closes) \in Nat
    BY <1>8, <1>9 DEF One
  <2>9. /\ CompletedOf(entries') >= Cardinality(Finished')
        /\ world.timeline = {} => CompletedOf(entries') = Cardinality(Finished')
    BY <1>9, <2>6, <2>7, <2>8 DEF Counted
  <2> QED
    BY <1>1, <2>9 DEF Counted
<1> QED
  BY <1>17, <1>18, <1>20, <1>21

\* A wake-up.
LEMMA WakeMeasured ==
  ASSUME MInv, PopAgentFree,
         entries' = Append(entries, Observed) \o SetToSeq({DispatchEntry(b) : b \in Taken})
  PROVE  Written' /\ Told' /\ Accounts' /\ Counted'
<1> USE DEF MInv
<1>0. HasNext /\ Due(Peek(heap), KindAgentFree) /\ AgentFree(Peek(heap))
  BY DEF PopAgentFree, Due
<1> DEFINE e == Peek(heap)
           es == Append(entries, Observed)
<1>1. /\ e \in BagToSet(heap) /\ e \in Events /\ e.kind = KindAgentFree /\ clock' = e.tick
      /\ e.tick \in Nat /\ clock <= e.tick /\ world' = world
      /\ \A f \in BagToSet(heap) \ {e} : Less(e, f)
      /\ es \in Seq(LedgerEntries) /\ InOrder(es, e.tick) /\ es # <<>>
      /\ StartsOf(es) = Starts
      /\ Under(Starts, Running, e.tick)
      /\ AccountsOf(es, Starts, Running, e.tick)
      /\ CompletedOf(es) = CompletedOf(entries)
  <2> HIDE DEF e, es
  <2>2. e = Peek(heap) /\ es = Append(entries, Observed)
    BY DEF e, es
  <2> QED
    BY <1>0, <2>2, Observes
<1>2. e.agent \in Agents
  BY <1>1 DEF Events
<1>3. \A d \in Starts : d \in LedgerEntries /\ d.kind = "dispatch" /\ d.bead \in Beads
  BY AtWork
<1>4. \A d : /\ Completion(d)' = Completion(d) /\ Ends(d)' = Ends(d)
             /\ Completion(d).kind = KindComplete /\ Completion(d).tick = Ends(d)
  BY <1>1 DEF Completion, Ends, Event
<1>5. \A d : Completion(d) # e
  BY <1>1, <1>4 DEF KindComplete, KindAgentFree
\* What the heap says, whichever way the agent turns.
<1>6. ASSUME NEW S, \/ heap' = Push(Pop(heap), S)
                    \/ S = {} /\ heap' = Pop(heap),
             \A f \in S : f.kind # KindArrival
      PROVE  /\ S \subseteq BagToSet(heap')
             /\ \A d \in Running : Completion(d) \in BagToSet(heap')
             /\ \A f \in BagToSet(heap') : f.kind = KindArrival => world.timeline # {}
  <2>1. Replaced(heap, heap', S)
    BY <1>1, <1>6, PopPush DEF IInv, TypeOK
  <2>2. S \subseteq BagToSet(heap') /\ BagToSet(heap') \subseteq BagToSet(heap) \cup S
        /\ \A f \in BagToSet(heap) \ {e} : f \in BagToSet(heap')
    BY <2>1 DEF Replaced
  <2> HIDE DEF e
  <2>3. \A d \in Running : Completion(d) \in BagToSet(heap')
    BY <1>5, <2>2 DEF Told
  <2> QED
    BY <1>6, <2>2, <2>3 DEF Told
<1>7. CASE StaleWake(e) \/ NothingToDo(e)
  <2>1. heap' = Pop(heap) /\ status' = status /\ owner' = owner
    BY <1>7 DEF StaleWake, NothingToDo
  <2>2. entries' = es
    <3>1. {DispatchEntry(b) : b \in Taken} = {}
      BY <2>1 DEF Taken
    <3>2. es \o SetToSeq({}) = es
      BY <1>1, WriteNone
    <3> QED
      BY <3>1, <3>2
  <2> HIDE DEF es, e
  <2>3. Starts' = Starts
    BY <1>1, <2>2 DEF Starts, StartsOf
  <2>4. Running' = Running
    BY <2>1, <2>3 DEF Running
  <2>5. Accounts'
    BY <1>1, <2>2, <2>3, <2>4, SameIntervals
  <2>6. Written'
    <3>1. entries' # <<>> /\ InOrder(entries', clock')
      BY <1>1, <2>2
    <3> QED
      BY <3>1 DEF Written
  <2>7. Told'
    <3>1. /\ \A d \in Running : Completion(d) \in BagToSet(heap')
          /\ \A f \in BagToSet(heap') : f.kind = KindArrival => world.timeline # {}
      <4>1. Replaced(heap, heap', {})
        <5>1. IsABag(heap) /\ Peek(heap) \in BagToSet(heap)
          BY <1>1 DEF IInv, TypeOK, e
        <5> QED
          BY <2>1, <5>1, PopPush
      <4>2. /\ BagToSet(heap') \subseteq BagToSet(heap)
            /\ \A f \in BagToSet(heap) \ {e} : f \in BagToSet(heap')
        BY <4>1 DEF Replaced, e
      <4>3. \A d \in Running : Completion(d) \in BagToSet(heap')
        BY <1>5, <4>2 DEF Told
      <4> QED
        BY <4>2, <4>3 DEF Told
    <3>2. \A d \in Running : owner'[d.bead] = d.agent /\ Completion(d)' \in BagToSet(heap')
      BY <1>4, <2>1, <3>1 DEF Told
    <3>3. \A d \in Starts \ Running : Ends(d)' <= clock'
      BY <1>1, <1>4 DEF Under
    <3> QED
      BY <1>1, <2>1, <2>3, <2>4, <3>1, <3>2, <3>3 DEF Told
  <2>8. Counted'
    <3>1. Finished' = Finished
      BY <2>1 DEF Finished, Known
    <3>2. CompletedOf(entries') = CompletedOf(entries)
      BY <1>1, <2>2
    <3> QED
      BY <1>1, <3>1, <3>2 DEF Counted
  <2> QED
    BY <2>5, <2>6, <2>7, <2>8
<1>8. CASE Dispatch(e)
  <2>1. PICK b \in Dispatchable(status) : DispatchTo(e, b)
    BY <1>8 DEF Dispatch
  <2> DEFINE n == Event(e.tick + world.duration[b], KindComplete, e.agent, b)
             x == DispatchEntry(b)
             fs == Append(es, x)
             U == Starts \cup {x}
             Q == Running \cup {x}
  <2>2. /\ status' = [status EXCEPT ![b] = "in-progress"]
        /\ owner' = [owner EXCEPT ![b] = e.agent]
        /\ heap' = Push(Pop(heap), {n})
    BY <2>1 DEF DispatchTo
  <2>3. b \in Beads /\ status[b] = "open" /\ idle[e.agent]
    BY <1>8, <2>1 DEF Dispatchable, Dispatch
  <2>4. /\ status'[b] = "in-progress" /\ \A a \in Beads \ {b} : status'[a] = status[a]
        /\ owner'[b] = e.agent /\ \A a \in Beads \ {b} : owner'[a] = owner[a]
    BY <2>2, <2>3 DEF IInv, TypeOK
  <2>5. x.tick = e.tick /\ x.agent = e.agent /\ x.bead = b /\ x.kind = "dispatch"
        /\ x.area = AreaOf[WorkOf[b]]
    BY DEF DispatchEntry
  <2>6. x \in LedgerEntries
    <3>1. AreaOf[WorkOf[b]] \in Areas
      BY <2>3, SimAssumption DEF Areas
    <3>2. x = [kind |-> "dispatch", tick |-> e.tick, agent |-> e.agent, bead |-> b,
               area |-> AreaOf[WorkOf[b]]]
      BY DEF DispatchEntry
    <3> HIDE DEF x, e
    <3> QED
      BY <1>1, <1>2, <2>3, <3>1, <3>2 DEF LedgerEntries
  <2>7. entries' = fs
    <3>1. {DispatchEntry(a) : a \in Taken} = {x}
      <4>1. \A a \in Beads : status[a] = "open" /\ status'[a] = "in-progress" <=> a = b
        BY <2>3, <2>4
      <4>2. Taken = {b}
        BY <2>3, <4>1 DEF Taken
      <4> QED
        BY <4>2
    <3>2. es \o SetToSeq({x}) = Append(es, x)
      <4> HIDE DEF x, es
      <4> QED
        BY <1>1, <2>6, WriteOne
    <3> QED
      BY <3>1, <3>2
  <2>8. Completion(x) = n /\ Ends(x) = e.tick + world.duration[b]
    BY <2>5 DEF Completion, Ends
  <2> HIDE DEF n, x, e, es
  <2>9. Ends(x) \in Nat /\ x.tick < Ends(x) /\ x.area \in Areas
    <3>1. world.duration \in [Beads -> 1..MaxDuration]
      BY SimAssumption DEF IInv, TypeOK, Worlds, Durations
    <3>2. world.duration[b] \in Nat /\ world.duration[b] > 0
      BY <2>3, <3>1, SimAssumption
    <3> QED
      BY <1>1, <2>3, <2>5, <2>6, <2>8, <3>2, EntryFields
  <2>10. x \notin Starts /\ \A d \in Starts : d.bead # b
    BY <2>3, <2>5 DEF Told
  <2>11. Begun(U)
    <3>1. IsFiniteSet(U)
      BY <1>1, FS_AddElement DEF Under, Begun
    <3>2. x.tick \in Nat /\ x.agent \in Agents
      BY <1>1, <1>2, <2>5
    <3> QED
      BY <1>1, <2>9, <3>1, <3>2 DEF Under, Begun
  <2>12. \A d \in Running : x.tick < Ends(d) /\ d.agent # x.agent
    <3> SUFFICES ASSUME NEW d \in Running
                 PROVE  e.tick < Ends(d) /\ d.agent # e.agent
      BY <2>5
    <3>1. d \in Starts /\ status[d.bead] = "in-progress" /\ owner[d.bead] = d.agent
          /\ Completion(d) \in BagToSet(heap) /\ d.bead \in Beads
      BY <1>3 DEF Told, Running
    <3>2. Less(e, Completion(d))
      BY <1>1, <1>5, <3>1
    <3>3. e.tick < Ends(d)
      BY <1>1, <1>4, <3>2 DEF Less, KindComplete, KindAgentFree
    <3>4. HeldBy(e.agent) = {}
      BY <1>2, <2>3 DEF IInv, OneBeadPerAgent
    <3>5. d.bead \in HeldBy(d.agent)
      BY <3>1 DEF HeldBy
    <3> QED
      BY <3>3, <3>4, <3>5
  <2>13. /\ AccountsOf(fs, U, Q, e.tick) /\ CompletedOf(fs) = CompletedOf(entries)
         /\ Under(U, Q, e.tick)
    <3>1. Under(Starts, Running, x.tick) /\ AccountsOf(es, Starts, Running, x.tick)
      BY <1>1, <2>5
    <3>2. /\ Under(U, Q, x.tick) /\ AccountsOf(fs, U, Q, x.tick)
          /\ CompletedOf(fs) = CompletedOf(es)
      BY <1>1, <2>5, <2>6, <2>10, <2>11, <2>12, <3>1, Begins
    <3> QED
      BY <1>1, <2>5, <3>2
  <2>14. StartsOf(fs) = U /\ fs # <<>> /\ InOrder(fs, e.tick)
    <3>1. StartsOf(fs) = U
      BY <1>1, <2>5, <2>6, StartsAppend
    <3>2. x.tick <= x.tick /\ x.tick = e.tick /\ e.tick <= x.tick
      BY <1>1, <2>5
    <3>3. InOrder(Append(es, x), x.tick) /\ Append(es, x) # <<>>
      BY <1>1, <2>6, <3>2, OneMore
    <3> QED
      BY <3>1, <3>2, <3>3
  <2> HIDE DEF fs, U, Q
  <2>15. Starts' = U
    BY <2>7, <2>14 DEF Starts, StartsOf
  <2>16. Running' = Q
    <3>1. \A d \in Starts : status'[d.bead] = status[d.bead]
      BY <1>3, <2>4, <2>10
    <3>2. status'[x.bead] = "in-progress"
      BY <2>4, <2>5
    <3> QED
      BY <2>15, <3>1, <3>2 DEF Running, U, Q
  <2>17. Accounts'
    BY <1>1, <2>7, <2>13, <2>15, <2>16, SameIntervals
  <2>18. Written'
    <3>1. entries' # <<>> /\ InOrder(entries', clock')
      BY <1>1, <2>7, <2>14
    <3> QED
      BY <3>1 DEF Written
  <2>19. Told'
    <3>1. /\ {n} \subseteq BagToSet(heap')
          /\ \A d \in Running : Completion(d) \in BagToSet(heap')
          /\ \A f \in BagToSet(heap') : f.kind = KindArrival => world.timeline # {}
      <4>1. \A f \in {n} : f.kind # KindArrival
        BY <1>4, <2>8 DEF KindComplete, KindArrival
      <4> QED
        BY <1>6, <2>2, <4>1
    <3>2. \A d \in U : status'[d.bead] \in {"in-progress", "closed"}
      BY <1>3, <2>4, <2>5, <2>10 DEF Told, U
    <3>3. \A d, f \in U : d.bead = f.bead => d = f
      BY <2>5, <2>10 DEF Told, U
    <3>4. \A a \in Beads : status'[a] \in {"in-progress", "closed"} => \E d \in U : d.bead = a
      BY <2>4, <2>5 DEF Told, U
    <3>5. ASSUME NEW d \in Q
          PROVE  owner'[d.bead] = d.agent /\ Completion(d)' \in BagToSet(heap')
      <4>1. CASE d = x
        BY <1>4, <2>4, <2>5, <2>8, <3>1, <4>1
      <4>2. CASE d \in Running
        <5>1. d \in Starts /\ owner[d.bead] = d.agent
          BY <4>2 DEF Told, Running
        <5>2. owner'[d.bead] = owner[d.bead]
          BY <1>3, <2>4, <2>10, <5>1
        <5> QED
          BY <1>4, <3>1, <4>2, <5>1, <5>2
      <4> QED
        BY <4>1, <4>2 DEF Q
    <3>6. \A d \in U \ Q : Ends(d)' <= clock'
      BY <1>1, <1>4, <2>13 DEF Under
    <3>7. \A d \in U : d.area = AreaOf[WorkOf[d.bead]]
      BY <2>5 DEF Told, U
    <3> QED
      BY <1>1, <2>15, <2>16, <3>1, <3>2, <3>3, <3>4, <3>5, <3>6, <3>7 DEF Told
  <2>20. Counted'
    <3>1. Known' = Known
      BY <2>3, <2>4 DEF Known
    <3>2. \A a \in Known : status'[a] = "closed" <=> status[a] = "closed"
      BY <2>3, <2>4 DEF Known
    <3>3. Finished' = Finished
      BY <3>1, <3>2 DEF Finished
    <3>4. CompletedOf(entries') = CompletedOf(entries)
      BY <2>7, <2>13
    <3> QED
      BY <1>1, <3>3, <3>4 DEF Counted
  <2> QED
    BY <2>17, <2>18, <2>19, <2>20
<1> QED
  BY <1>0, <1>7, <1>8 DEF AgentFree

\* Nothing has been measured of a run that has not begun.
LEMMA NothingMeasured ==
  ASSUME NEW from \in Nat, NEW w
  PROVE  Measured(Zero, {}, {}, 0, from, w)
<1>1. Zero \in Measures
  BY DEF Zero, Measures
<1>2. Total(WorkedBy({}, from, 0), {}) = 0
  <2> DEFINE f == WorkedBy({}, from, 0)
             none == {}
  <2>1. IsFiniteSet(none) /\ \A x \in none : f[x] \in Int
    BY FS_EmptySet
  <2> HIDE DEF f, none
  <2>2. PICK G : Sums(G, f, none)
    BY <2>1, SumOf
  <2> QED
    BY <2>2 DEF Sums, f, none
<1>3. Span(0, from) = 0 /\ NumAgents * 0 = 0
  BY SimAssumption DEF Span
<1>4. Cardinality({}) = 0
  BY FS_EmptySet
<1>5. ActiveOf({}) = {} /\ OverlapsOf({}) = {}
  BY DEF ActiveOf, OverlapsOf
<1>6. CollidingIn({}, w) = {}
  BY <1>4 DEF CollidingIn
<1>7. /\ Zero.prev = 0 /\ Zero.idleTicks = 0 /\ Zero.busyTicks = 0 /\ Zero.busy = 0
      /\ Zero.active = {} /\ Zero.overlapping = {} /\ Zero.collisions = 0
  BY DEF Zero
<1> QED
  BY <1>1, <1>2, <1>3, <1>4, <1>5, <1>6, <1>7 DEF Measured

\* The invariant at the start, in every step, and so throughout.
LEMMA InitMeasured ==
  ASSUME MetricsInit
  PROVE  MInv
<1>1. Init /\ entries = <<>>
  BY DEF MetricsInit
<1>2. IInv /\ clock = 0
  BY <1>1, InitInv DEF Init
<1> DEFINE A == {Event(x.tick, KindArrival, 0, x.bead) : x \in world.timeline}
           W == {Event(0, KindAgentFree, a, NoBead) : a \in Agents}
<1>3. BagToSet(heap) = A \cup W
  <2>1. heap = SetToBag(A \cup W)
    BY <1>1 DEF Init
  <2> HIDE DEF A, W
  <2> QED
    BY <2>1 DEF BagToSet, SetToBag
<1>4. Starts = {} /\ Running = {}
  BY <1>1 DEF Starts, Running
<1>5. \A b \in Beads : status[b] \in {"absent", "open"}
  BY <1>1 DEF Init, From
<1>6. Written
  <2>1. Event(0, KindAgentFree, 0, NoBead) \in W /\ Event(0, KindAgentFree, 0, NoBead).tick = 0
    BY SimAssumption DEF Agents, Event
  <2>2. InOrder(<<>>, 0)
    BY DEF InOrder
  <2> HIDE DEF A, W
  <2> QED
    BY <1>1, <1>2, <1>3, <2>1, <2>2 DEF Written
<1>7. Told
  <2>1. \A e \in BagToSet(heap) : e.kind = KindArrival => world.timeline # {}
    BY <1>3 DEF Event, KindArrival, KindAgentFree
  <2> HIDE DEF A, W
  <2> QED
    BY <1>4, <1>5, <2>1 DEF Told
<1>8. Accounts
  <2>1. ASSUME NEW from \in Nat, NEW postOnly \in BOOLEAN
        PROVE  Measured(Folded(Zero, <<>>, from, postOnly), {}, {}, 0, from,
                        Window(from, postOnly))
    BY FoldEmpty, NothingMeasured
  <2>2. AccountsOf(<<>>, {}, {}, 0)
    BY <2>1 DEF AccountsOf
  <2> QED
    BY <1>1, <1>2, <1>4, <2>2 DEF Accounts
<1>9. Counted
  <2>1. ASSUME NEW w \in Works
        PROVE  \E b \in Known : WorkOf[b] = w /\ status[b] # "closed"
    <3>1. world.initial \in InitialBeads
      BY <1>1 DEF Init, Worlds
    <3>2. PICK b \in world.initial : WorkOf[b] = w
      BY <3>1 DEF InitialBeads
    <3>3. b \in Beads
      BY <3>1, <3>2 DEF InitialBeads
    <3>4. status = From(world)
      BY <1>1 DEF Init
    <3>5. status[b] = "open"
      BY <3>2, <3>3, <3>4 DEF From
    <3>6. b \in Known /\ status[b] # "closed"
      BY <3>3, <3>5 DEF Known
    <3> QED
      BY <3>2, <3>6
  <2>2. Finished = {}
    BY <2>1 DEF Finished
  <2>3. CompletedOf(entries) = 0
    <3>1. Folded(Zero, <<>>, 0, FALSE) = Zero /\ Zero.completed = 0
      BY FoldEmpty DEF Zero
    <3>2. CompletedOf(entries) = Folded(Zero, <<>>, 0, FALSE).completed
      BY <1>1 DEF CompletedOf
    <3> QED
      BY <3>1, <3>2
  <2>4. Cardinality({}) = 0
    BY FS_EmptySet
  <2> QED
    BY <2>2, <2>3, <2>4 DEF Counted
<1> QED
  BY <1>2, <1>6, <1>7, <1>8, <1>9 DEF MInv

\* A stop, and a step that changes nothing of the store and the ledger.
LEMMA RestMeasured ==
  ASSUME MInv, UNCHANGED <<world, status, owner, idle, heap, clock, entries>>
  PROVE  Written' /\ Told' /\ Accounts' /\ Counted'
<1>1. Starts' = Starts /\ Running' = Running
  BY DEF Starts, Running
<1>2. Written'
  <2>1. InOrder(entries, clock)' = InOrder(entries, clock)
    BY DEF InOrder
  <2> QED
    BY <2>1 DEF MInv, Written
<1>3. \A d : Completion(d)' = Completion(d) /\ Ends(d)' = Ends(d)
  BY DEF Completion, Ends, Event
<1>4. Told'
  BY <1>1, <1>3 DEF MInv, Told
<1>5. Accounts'
  BY <1>1, SameIntervals DEF MInv, Accounts
<1>6. Counted'
  <2>1. Finished' = Finished
    BY DEF Finished, Known
  <2>2. CompletedOf(entries)' = CompletedOf(entries)
    OBVIOUS
  <2> QED
    BY <2>1, <2>2 DEF MInv, Counted
<1> QED
  BY <1>2, <1>4, <1>5, <1>6

\* Every step keeps the sums right,
LEMMA NextMeasured ==
  ASSUME MInv, [MetricsNext]_metricsVars
  PROVE  MInv'
<1>1. [Next]_vars
  BY DEF MetricsNext, Next, metricsVars, vars
<1>2. IInv'
  BY <1>1, NextInv DEF MInv
<1>3. Written' /\ Told' /\ Accounts' /\ Counted'
  <2>1. CASE (StopAllClosed \/ StopIdle \/ StopCap) /\ UNCHANGED entries
    BY <2>1, RestMeasured DEF StopAllClosed, StopIdle, StopCap, Finish
  <2>2. CASE PopArrival /\ entries' = entries \o <<Observed, ArrivalEntry>>
    BY <2>2, ArriveMeasured
  <2>3. CASE PopComplete /\ entries' = entries \o <<Observed, CompleteEntry>>
    BY <2>3, CompleteMeasured
  <2>4. CASE PopAgentFree /\ entries' = Append(entries, Observed) \o
                                           SetToSeq({DispatchEntry(b) : b \in Taken})
    BY <2>4, WakeMeasured
  <2>5. CASE UNCHANGED metricsVars
    BY <2>5, RestMeasured DEF metricsVars, vars
  <2> QED
    BY <2>1, <2>2, <2>3, <2>4, <2>5 DEF MetricsNext
<1> QED
  BY <1>2, <1>3 DEF MInv

\* so they always are.
LEMMA AlwaysMeasured == MetricsSpec => []MInv
BY InitMeasured, NextMeasured, PTL DEF MetricsSpec

----------------------------------------------------------------------------
(* What Result reports *)

\* The last tick of the ledger is the loop's clock.
LEMMA WallIsClock ==
  ASSUME MInv
  PROVE  Wall = clock /\ clock \in Nat /\ Fresh = Zero
<1> DEFINE ticks == {entries[i].tick : i \in DOMAIN entries}
<1>1. clock \in Nat
  BY DEF MInv, IInv, TypeOK
<1>2. Wall = clock
  <2>1. CASE entries = <<>>
    <3>1. ticks = {}
      BY <2>1
    <3>2. Wall = 0
      BY <3>1 DEF Wall
    <3> QED
      BY <2>1, <3>2 DEF MInv, Written
  <2>2. CASE entries # <<>>
    <3>1. clock \in ticks /\ \A u \in ticks : u <= clock
      BY <2>2 DEF MInv, Written, InOrder
    <3>2. ticks \subseteq Nat
      BY EntryFields DEF MInv, Written, InOrder
    <3>3. Wall = CHOOSE t \in ticks : \A u \in ticks : u <= t
      BY <3>1 DEF Wall
    <3> HIDE DEF ticks
    <3>4. Wall \in ticks /\ \A u \in ticks : u <= Wall
      BY <3>1, <3>3
    <3> QED
      BY <1>1, <3>1, <3>2, <3>4
  <2> QED
    BY <2>1, <2>2
<1>3. Fresh = Zero
  <2>1. entries = <<>> \/ entries[1].tick = 0
    BY DEF MInv, Written, InOrder
  <2> QED
    BY <2>1 DEF Fresh, Zero
<1> QED
  BY <1>1, <1>2, <1>3

\* A quotient is no greater than what is divided.
LEMMA Quotient ==
  ASSUME NEW a \in Nat, NEW k \in Nat \ {0}
  PROVE  a \div k \in Nat /\ a \div k <= a
OBVIOUS

\* The warm-up ends within the run.
LEMMA CutoffWithin ==
  ASSUME MInv
  PROVE  Cutoff \in Nat /\ Cutoff <= clock
<1> DEFINE m == IF Wall < TicksCap THEN Wall ELSE TicksCap
<1>1. m \in Nat /\ m <= clock
  BY WallIsClock, SimAssumption
<1>2. Cutoff = m \div WarmupShare
  BY DEF Cutoff
<1> HIDE DEF m
<1>3. m \div WarmupShare \in Nat /\ m \div WarmupShare <= m
  BY <1>1, MetricsAssumption, Quotient
<1> QED
  BY <1>1, <1>2, <1>3, WallIsClock

\* A block is what the replay of the ledger measured in its window.
LEMMA BlockMeasured ==
  ASSUME MInv, NEW postOnly \in BOOLEAN, NEW from, from = IF postOnly THEN Cutoff ELSE 0
  PROVE  /\ Block(postOnly) = Folded(Zero, entries, from, postOnly)
         /\ Measured(Block(postOnly), Starts, Running, clock, from, Window(from, postOnly))
         /\ from \in Nat /\ from <= clock
<1>1. Block(postOnly) = Folded(Fresh, entries, IF postOnly THEN Cutoff ELSE 0, postOnly)
  BY DEF Block, Folded
<1>2. Block(postOnly) = Folded(Zero, entries, from, postOnly)
  BY <1>1, WallIsClock
<1>3. from \in Nat /\ from <= clock
  BY CutoffWithin, WallIsClock
<1>4. Measured(Folded(Zero, entries, from, postOnly), Starts, Running, clock, from,
               Window(from, postOnly))
  BY <1>3 DEF MInv, Accounts, AccountsOf
<1> QED
  BY <1>2, <1>3, <1>4

\* The ticks of a block.
LEMMA BlockAccounted ==
  ASSUME MInv, NEW postOnly \in BOOLEAN, NEW from, from = IF postOnly THEN Cutoff ELSE 0
  PROVE  TicksAccounted(Block(postOnly), from)
<1> DEFINE block == Block(postOnly)
           f == [d \in Starts |-> Overlap(d, from)]
<1>1. Measured(block, Starts, Running, clock, from, Window(from, postOnly))
      /\ from \in Nat /\ from <= clock /\ clock \in Nat /\ Wall = clock
  BY BlockMeasured, WallIsClock
<1>2. f = WorkedBy(Starts, from, clock)
  BY <1>1 DEF Overlap, Worked, WorkedBy
<1>3. Span(clock, from) = clock - from
  BY <1>1 DEF Span
<1> HIDE DEF f, block
<1>4. block.busyTicks = FoldFunctionOnSet(+, 0, f, Starts)
  BY <1>1, <1>2 DEF Measured, Total
<1>5. block.idleTicks + block.busyTicks = NumAgents * (Wall - from)
  BY <1>1, <1>3 DEF Measured
<1> QED
  BY <1>4, <1>5 DEF TicksAccounted, f, block

(***************************************************************************)
(* Every tick of every agent is counted as busy or idle, and as busy       *)
(* exactly while a bead of it is worked on (metrics.go, advanceTime).      *)
(***************************************************************************)
THEOREM TicksBalance == MetricsSpec => []AgentTicksAccounted
<1>1. MInv => AgentTicksAccounted
  <2> SUFFICES ASSUME MInv
               PROVE  TicksAccounted(Full, 0) /\ TicksAccounted(Warmup, WindowStart)
    BY DEF AgentTicksAccounted
  <2>1. TicksAccounted(Block(FALSE), 0) /\ TicksAccounted(Block(TRUE), Cutoff)
    BY BlockAccounted
  <2> QED
    BY <2>1 DEF Full, Warmup, WindowStart
<1> QED
  BY <1>1, AlwaysMeasured, PTL

(***************************************************************************)
(* The collisions counted are the pairs of beads of one area whose         *)
(* intervals overlap (metrics.go, replay of the active sets).              *)
(***************************************************************************)
THEOREM CollisionsCounted == MetricsSpec => []CollisionsAreOverlaps
<1>1. MInv => CollisionsAreOverlaps
  <2> SUFFICES ASSUME MInv
               PROVE  CollisionsAreOverlaps
    OBVIOUS
  <2> DEFINE always(t) == TRUE
  <2>1. \A d \in Starts : d.tick \in Nat
    BY AtWork DEF MInv, Under, Begun
  <2>2. Colliding(always) = CollidingIn(Starts, Window(0, FALSE))
    <3>1. \A d \in Starts : d.tick \in Window(0, FALSE)
      BY <2>1 DEF Window
    <3> QED
      BY <3>1 DEF Colliding, CollidingIn
  <2>3. ~WarmupSkipped => Colliding(InWindow) = CollidingIn(Starts, Window(Cutoff, TRUE))
    <3>1. ~WarmupSkipped => \A d \in Starts : d.tick \in Window(Cutoff, TRUE) <=> InWindow(d.tick)
      BY <2>1 DEF Window, InWindow
    <3> QED
      BY <3>1 DEF Colliding, CollidingIn
  <2>4. WarmupSkipped => Colliding(InWindow) = Colliding(always)
    <3>1. WarmupSkipped => \A t : InWindow(t) <=> TRUE
      BY DEF InWindow
    <3> QED
      BY <3>1 DEF Colliding
  <2>5. Full.collisions = Cardinality(Colliding(always))
    BY <2>2, BlockMeasured DEF Full, Measured
  <2>6. Warmup.collisions = Cardinality(Colliding(InWindow))
    <3>1. CASE WarmupSkipped
      BY <2>4, <2>5, <3>1 DEF Warmup
    <3>2. CASE ~WarmupSkipped
      <4>1. Block(TRUE).collisions = Cardinality(CollidingIn(Starts, Window(Cutoff, TRUE)))
        BY BlockMeasured DEF Measured
      <4> QED
        BY <2>3, <3>2, <4>1 DEF Warmup
    <3> QED
      BY <3>1, <3>2
  <2> QED
    BY <2>5, <2>6 DEF CollisionsAreOverlaps
<1> QED
  BY <1>1, AlwaysMeasured, PTL

(***************************************************************************)
(* No finished work is missed by the count of completed works, and none is *)
(* counted twice where nothing arrives (metrics.go, workCompleted).        *)
(***************************************************************************)
THEOREM CompletionsCounted == MetricsSpec => []FinishedWorksCounted
<1>1. MInv => FinishedWorksCounted
  <2> SUFFICES ASSUME MInv
               PROVE  FinishedWorksCounted
    OBVIOUS
  <2>1. Block(FALSE) = Folded(Zero, entries, 0, FALSE)
    BY BlockMeasured
  <2>2. Full.completed = CompletedOf(entries)
    BY <2>1 DEF Full, CompletedOf
  <2> QED
    BY <2>2 DEF FinishedWorksCounted, MInv, Counted, Finished
<1> QED
  BY <1>1, AlwaysMeasured, PTL
============================================================================
