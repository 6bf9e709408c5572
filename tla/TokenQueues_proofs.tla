-------------------------- MODULE TokenQueues_proofs --------------------------
(***************************************************************************)
(* For any clients, phases, priorities and size of a batch: the queues of  *)
(* both token schedulers hold what was added and not handed out, in the    *)
(* order of its arrival, and handing out a batch overtakes nobody.         *)
(***************************************************************************)
EXTENDS TokenQueues, QueueLemmas

\* The queues of the scheduler that is not used are empty, and the history is about
\* requests that are queued.
Unused == /\ kind = "phases" => \A p \in Priorities : queues[p] = <<>>
          /\ kind = "priorities" => \A p \in Phases : phaseQueue[p] = <<>>
          /\ \A pair \in before : Queued(pair[1]) /\ Queued(pair[2])

QueuesInv == TypeOK /\ KeptInOrder /\ Unused

\* The requests that a queue of the phases or of the priorities is to hold.
OfPhase(p) == {c \in Clients : Queued(c) /\ Phase[c] = p}
OfPriority(p) == {c \in Clients : Queued(c) /\ Priority[c] = p}

-----------------------------------------------------------------------------
(* Queues *)

\* A request joins its queue at the end, and it came after all that are queued.
LEMMA JoinsInOrder ==
    ASSUME NEW q \in Seq(Clients), NEW own \in SUBSET Clients, NEW c \in Clients, c \notin own,
           NEW order, InOrder(q, own, order), IsInjective(q),
           NEW waiting \in SUBSET Clients, own \subseteq waiting,
           order \subseteq waiting \X waiting, c \notin waiting,
           NEW now, now = order \cup (waiting \X {c})
    PROVE  /\ Append(q, c) \in Seq(Clients) /\ IsInjective(Append(q, c))
           /\ InOrder(Append(q, c), own \cup {c}, now)
<1> DEFINE a == Append(q, c)
<1>1. /\ a \in Seq(Clients) /\ IsInjective(a) /\ Range(a) = own \cup {c}
  BY AppendMembers DEF InOrder
<1>2. /\ DOMAIN a = 1 .. Len(q) + 1 /\ DOMAIN q = 1 .. Len(q) /\ Len(q) \in Nat
      /\ a[Len(q) + 1] = c /\ \A k \in DOMAIN q : a[k] = q[k]
  OBVIOUS
<1>3. \A k \in DOMAIN q : q[k] \in own
  BY DEF InOrder, Range
<1> HIDE DEF a
<1>4. ASSUME NEW i \in DOMAIN a, NEW j \in DOMAIN a
      PROVE  i < j <=> <<a[i], a[j]>> \in now
  <2>1. CASE i \in DOMAIN q /\ j \in DOMAIN q
    <3>1. a[i] = q[i] /\ a[j] = q[j] /\ q[j] # c
      BY <1>2, <1>3, <2>1
    <3> QED
      BY <2>1, <3>1 DEF InOrder
  <2>2. CASE i \in DOMAIN q /\ j = Len(q) + 1
    <3>1. a[i] \in waiting /\ a[j] = c /\ i < j
      BY <1>2, <1>3, <2>2
    <3> QED
      BY <3>1
  <2>3. CASE i = Len(q) + 1
    <3>1. a[i] = c /\ ~(i < j)
      BY <1>2, <2>3
    <3> QED
      BY <3>1
  <2> QED
    BY <1>2, <2>1, <2>2, <2>3
<1> QED
  BY <1>1, <1>4 DEF InOrder, a

\* The two relations are the same among the members of own.
SameOrder(own, order, now) == \A c, d \in own : <<c, d>> \in now <=> <<c, d>> \in order

\* A queue that keeps its requests keeps its order, as long as the history of them does.
LEMMA StaysInOrder ==
    ASSUME NEW q, NEW own, NEW order, NEW now, InOrder(q, own, order), SameOrder(own, order, now)
    PROVE  InOrder(q, own, now)
BY DEF InOrder, SameOrder, Range

\* What is left of a queue when its first n requests are gone.
LEMMA RestInOrder ==
    ASSUME NEW q \in Seq(Clients), NEW own \in SUBSET Clients, NEW order, NEW now,
           InOrder(q, own, order), IsInjective(q), NEW n \in Int, NEW first,
           NEW rest \in Seq(Clients), Cut(q, n, first, rest),
           SameOrder(own \ Range(first), order, now)
    PROVE  /\ IsInjective(rest) /\ Range(first) \subseteq own
           /\ InOrder(rest, own \ Range(first), now)
           /\ \A c \in Range(first), d \in own \ Range(first) : <<c, d>> \in order
<1>1. /\ Len(q) \in Nat /\ DOMAIN q = 1 .. Len(q)
      /\ 1 <= n /\ n <= Len(q) /\ DOMAIN first = 1 .. n /\ \A k \in 1 .. n : first[k] = q[k]
      /\ DOMAIN rest = 1 .. Len(q) - n /\ \A k \in 1 .. Len(q) - n : rest[k] = q[k + n]
  BY DEF Cut
<1>2. Range(first) = {q[k] : k \in 1 .. n}
  BY <1>1 DEF Range
<1>3. Range(rest) = {q[k] : k \in n + 1 .. Len(q)}
  <2>1. ASSUME NEW k \in n + 1 .. Len(q)
        PROVE  k - n \in DOMAIN rest /\ rest[k - n] = q[k]
    <3>1. k \in Int /\ k - n \in 1 .. Len(q) - n /\ (k - n) + n = k
      BY <1>1
    <3> QED
      BY <1>1, <3>1
  <2>2. ASSUME NEW k \in DOMAIN rest
        PROVE  k + n \in n + 1 .. Len(q) /\ rest[k] = q[k + n]
    <3>1. k \in 1 .. Len(q) - n
      BY <1>1
    <3> QED
      BY <1>1, <3>1
  <2>3. ASSUME NEW k \in n + 1 .. Len(q) PROVE q[k] \in Range(rest)
    BY <2>1, <2>3 DEF Range
  <2>4. ASSUME NEW k \in DOMAIN rest PROVE rest[k] \in {q[j] : j \in n + 1 .. Len(q)}
    BY <2>2, <2>4
  <2>5. Range(rest) = {rest[k] : k \in DOMAIN rest}
    BY DEF Range
  <2> QED
    BY <2>3, <2>4, <2>5
<1>4. own = {q[k] : k \in 1 .. Len(q)}
  BY <1>1 DEF InOrder, Range
<1>5. \A i, j \in 1 .. Len(q) : q[i] = q[j] => i = j
  BY <1>1 DEF IsInjective
<1>6. Range(rest) = own \ Range(first)
  BY <1>1, <1>2, <1>3, <1>4, <1>5
<1>7. IsInjective(rest)
  BY <1>1, <1>5 DEF IsInjective
<1>8. ASSUME NEW i \in DOMAIN rest, NEW j \in DOMAIN rest
      PROVE  i < j <=> <<rest[i], rest[j]>> \in now
  <2>1. rest[i] \in own \ Range(first) /\ rest[j] \in own \ Range(first)
    BY <1>6 DEF Range
  <2>2. rest[i] = q[i + n] /\ rest[j] = q[j + n] /\ i + n \in DOMAIN q /\ j + n \in DOMAIN q
    BY <1>1
  <2>3. i < j <=> i + n < j + n
    BY <1>1
  <2> QED
    BY <2>1, <2>2, <2>3 DEF InOrder, SameOrder
<1>9. ASSUME NEW c \in Range(first), NEW d \in own \ Range(first)
       PROVE  <<c, d>> \in order
  <2>1. PICK i \in 1 .. n : c = q[i]
    BY <1>2
  <2>2. PICK j \in n + 1 .. Len(q) : d = q[j]
    BY <1>3, <1>6
  <2>3. i \in DOMAIN q /\ j \in DOMAIN q /\ i < j
    BY <1>1
  <2> QED
    BY <2>1, <2>2, <2>3 DEF InOrder
<1>10. Range(first) \subseteq own
  BY <1>1, <1>2, <1>4
<1> QED
  BY <1>6, <1>7, <1>8, <1>9, <1>10 DEF InOrder
-----------------------------------------------------------------------------
(* The invariant *)

LEMMA QueuesInit == Init => QueuesInv
<1> SUFFICES ASSUME Init PROVE QueuesInv
  OBVIOUS
<1>2. <<>> \in Seq(Clients) /\ IsInjective(<<>>) /\ Range(<<>>) = {} /\ DOMAIN <<>> = {}
  BY NoMembers
<1>3. \A c \in Clients : ~Queued(c)
  BY DEF Init, Queued
<1>4. TypeOK
  BY <1>2 DEF Init, TypeOK, IsQueue, Phases
<1>5. ASSUME NEW own, own = {} PROVE InOrder(<<>>, own, before)
  BY <1>2, <1>5 DEF InOrder
<1>6. KeptInOrder
  BY <1>3, <1>5 DEF Init, KeptInOrder
<1> QED
  BY <1>4, <1>6 DEF Init, QueuesInv, Unused

\* A step of a queue for each phase keeps the invariant when it keeps that of each queue.
LEMMA PhasesKeep ==
    ASSUME QueuesInv, kind = "phases", UNCHANGED <<kind, queues>>, place' \in [Clients -> {"idle", "queued", "taken"}],
           before' \in SUBSET (Clients \X Clients),
           \A pair \in before' : Queued(pair[1])' /\ Queued(pair[2])',
           elapsed' \in SUBSET Phases, DOMAIN phaseQueue' = Phases,
           \A p \in Phases : IsQueue(phaseQueue'[p]) /\ InOrder(phaseQueue'[p], OfPhase(p)', before')
    PROVE  QueuesInv'
BY DEF QueuesInv, TypeOK, KeptInOrder, Unused, OfPhase

LEMMA PrioritiesKeep ==
    ASSUME QueuesInv, kind = "priorities", UNCHANGED <<kind, phaseQueue, elapsed>>,
           place' \in [Clients -> {"idle", "queued", "taken"}],
           before' \in SUBSET (Clients \X Clients),
           \A pair \in before' : Queued(pair[1])' /\ Queued(pair[2])',
           DOMAIN queues' = Priorities,
           \A p \in Priorities : IsQueue(queues'[p]) /\ InOrder(queues'[p], OfPriority(p)', before')
    PROVE  QueuesInv'
BY DEF QueuesInv, TypeOK, KeptInOrder, Unused, OfPriority
LEMMA AddStep ==
    ASSUME QueuesInv, NEW c \in Clients, Add(c)
    PROVE  QueuesInv'
<1> DEFINE waiting == {d \in Clients : Queued(d)}
<1>1. /\ place' \in [Clients -> {"idle", "queued", "taken"}] /\ ~Queued(c)
      /\ \A d \in Clients : Queued(d)' <=> Queued(d) \/ d = c
  BY DEF QueuesInv, TypeOK, Add, Queued
<1>2. /\ before \subseteq waiting \X waiting /\ before' = before \cup (waiting \X {c})
      /\ waiting \in SUBSET Clients /\ c \notin waiting
  BY <1>1 DEF QueuesInv, TypeOK, Unused, Add
<1>3. /\ before' \in SUBSET (Clients \X Clients)
      /\ \A pair \in before' : Queued(pair[1])' /\ Queued(pair[2])'
  <2>1. \A pair \in waiting \X waiting : Queued(pair[1])' /\ Queued(pair[2])'
    BY <1>1
  <2>2. \A pair \in waiting \X {c} : Queued(pair[1])' /\ Queued(pair[2])'
    BY <1>1
  <2> QED
    BY <1>2, <2>1, <2>2
<1>4. \A d, e \in waiting : <<d, e>> \in before' <=> <<d, e>> \in before
  BY <1>2
<1> HIDE DEF waiting
<1>5. CASE kind = "phases"
  <2>1. /\ phaseQueue' = [phaseQueue EXCEPT ![Phase[c]] = Append(@, c)]
        /\ UNCHANGED <<kind, queues, elapsed>> /\ Phase[c] \in Phases
    BY <1>5, TokenAssumption DEF Add, Phases
  <2>2. ASSUME NEW p \in Phases
        PROVE  IsQueue(phaseQueue'[p]) /\ InOrder(phaseQueue'[p], OfPhase(p)', before')
    <3>1. /\ IsQueue(phaseQueue[p]) /\ InOrder(phaseQueue[p], OfPhase(p), before)
          /\ DOMAIN phaseQueue = Phases
      BY <1>5 DEF QueuesInv, TypeOK, KeptInOrder, OfPhase
    <3>2. OfPhase(p) \subseteq waiting /\ OfPhase(p) \in SUBSET Clients /\ c \notin OfPhase(p)
      BY <1>1 DEF OfPhase, waiting
    <3>3. CASE p = Phase[c]
      <4>1. OfPhase(p)' = OfPhase(p) \cup {c} /\ phaseQueue'[p] = Append(phaseQueue[p], c)
        BY <1>1, <2>1, <3>1, <3>3 DEF OfPhase
      <4> QED
        BY <1>2, <3>1, <3>2, <4>1, JoinsInOrder DEF IsQueue
    <3>4. CASE p # Phase[c]
      <4>1. OfPhase(p)' = OfPhase(p) /\ phaseQueue'[p] = phaseQueue[p]
        BY <1>1, <2>1, <3>1, <3>4 DEF OfPhase
      <4>2. SameOrder(OfPhase(p), before, before')
        BY <1>4, <3>2 DEF SameOrder
      <4> QED
        BY <3>1, <4>1, <4>2, StaysInOrder
    <3> QED
      BY <3>3, <3>4
  <2>3. elapsed' \in SUBSET Phases /\ DOMAIN phaseQueue' = Phases
    BY <2>1 DEF QueuesInv, TypeOK
  <2> QED
    BY <1>1, <1>3, <1>5, <2>1, <2>2, <2>3, PhasesKeep
<1>6. CASE kind = "priorities"
  <2>1. /\ queues' = [queues EXCEPT ![Priority[c]] = Append(@, c)]
        /\ UNCHANGED <<kind, phaseQueue, elapsed>> /\ Priority[c] \in Priorities
    BY <1>6, TokenAssumption DEF Add, Priorities, Range
  <2>2. ASSUME NEW p \in Priorities
        PROVE  IsQueue(queues'[p]) /\ InOrder(queues'[p], OfPriority(p)', before')
    <3>1. /\ IsQueue(queues[p]) /\ InOrder(queues[p], OfPriority(p), before)
          /\ DOMAIN queues = Priorities
      BY <1>6 DEF QueuesInv, TypeOK, KeptInOrder, OfPriority
    <3>2. /\ OfPriority(p) \subseteq waiting /\ OfPriority(p) \in SUBSET Clients
          /\ c \notin OfPriority(p)
      BY <1>1 DEF OfPriority, waiting
    <3>3. CASE p = Priority[c]
      <4>1. OfPriority(p)' = OfPriority(p) \cup {c} /\ queues'[p] = Append(queues[p], c)
        BY <1>1, <2>1, <3>1, <3>3 DEF OfPriority
      <4> QED
        BY <1>2, <3>1, <3>2, <4>1, JoinsInOrder DEF IsQueue
    <3>4. CASE p # Priority[c]
      <4>1. OfPriority(p)' = OfPriority(p) /\ queues'[p] = queues[p]
        BY <1>1, <2>1, <3>1, <3>4 DEF OfPriority
      <4>2. SameOrder(OfPriority(p), before, before')
        BY <1>4, <3>2 DEF SameOrder
      <4> QED
        BY <3>1, <4>1, <4>2, StaysInOrder
    <3> QED
      BY <3>3, <3>4
  <2>3. DOMAIN queues' = Priorities
    BY <2>1 DEF QueuesInv, TypeOK
  <2> QED
    BY <1>1, <1>3, <1>6, <2>1, <2>2, <2>3, PrioritiesKeep
<1> QED
  BY <1>5, <1>6 DEF QueuesInv, TypeOK

LEMMA ReplyStep ==
    ASSUME QueuesInv, NEW c \in Clients, Reply(c)
    PROVE  QueuesInv'
<1>1. \A d \in Clients : Queued(d)' <=> Queued(d)
  BY DEF QueuesInv, TypeOK, Reply, Queued
<1>2. TypeOK'
  BY DEF QueuesInv, TypeOK, Reply
<1>3. KeptInOrder' /\ Unused'
  BY <1>1 DEF QueuesInv, TypeOK, KeptInOrder, Unused, Reply
<1> QED
  BY <1>2, <1>3 DEF QueuesInv

LEMMA ElapseStep ==
    ASSUME QueuesInv, NEW p \in Phases, Elapse(p)
    PROVE  QueuesInv'
BY DEF QueuesInv, TypeOK, KeptInOrder, Unused, Elapse, Queued

\* Handing out a batch of those that are queued: the others and their history stay.
LEMMA TakeOnly ==
    ASSUME QueuesInv, NEW batch, Range(batch) \subseteq {c \in Clients : Queued(c)}, Take(batch)
    PROVE  /\ place' \in [Clients -> {"idle", "queued", "taken"}]
           /\ \A c \in Clients : Queued(c)' <=> Queued(c) /\ c \notin Range(batch)
           /\ before' \in SUBSET (Clients \X Clients)
           /\ \A pair \in before' : Queued(pair[1])' /\ Queued(pair[2])'
           /\ \A c, d \in Clients \ Range(batch) : <<c, d>> \in before' <=> <<c, d>> \in before
<1>1. /\ place' \in [Clients -> {"idle", "queued", "taken"}]
      /\ \A c \in Clients : Queued(c)' <=> Queued(c) /\ c \notin Range(batch)
  BY DEF QueuesInv, TypeOK, Take, Queued
<1>2. \A pair \in before' : pair \in before /\ pair[1] \notin Range(batch) /\ pair[2] \notin Range(batch)
  BY DEF Take
<1>3. \A c, d \in Clients \ Range(batch) : <<c, d>> \in before => <<c, d>> \in before'
  BY DEF Take
<1>4. \A pair \in before : pair[1] \in Clients /\ pair[2] \in Clients
  BY DEF QueuesInv, TypeOK
<1> QED
  BY <1>1, <1>2, <1>3, <1>4 DEF QueuesInv, TypeOK, Unused
\* GetPromptBatch and GetGenerationBatch take every request of their phase, in order.
LEMMA PhaseBatch ==
    ASSUME QueuesInv, NEW p \in Phases, GetPhaseBatch(p)
    PROVE  kind = "phases" /\ Range(phaseQueue[p]) = OfPhase(p)
BY DEF QueuesInv, KeptInOrder, Unused, InOrder, GetPhaseBatch, OfPhase, TypeOK

LEMMA GetPhaseBatchStep ==
    ASSUME QueuesInv, NEW p \in Phases, GetPhaseBatch(p)
    PROVE  QueuesInv'
<1> DEFINE batch == phaseQueue[p]
<1>1. kind = "phases" /\ Range(batch) = OfPhase(p)
  BY PhaseBatch
<1>2. Range(batch) \subseteq {c \in Clients : Queued(c)}
  BY <1>1 DEF OfPhase
<1>3. Take(batch)
  BY DEF GetPhaseBatch
<1> HIDE DEF batch
<1>4. /\ place' \in [Clients -> {"idle", "queued", "taken"}]
      /\ \A c \in Clients : Queued(c)' <=> Queued(c) /\ c \notin Range(batch)
      /\ before' \in SUBSET (Clients \X Clients)
      /\ \A pair \in before' : Queued(pair[1])' /\ Queued(pair[2])'
      /\ \A c, d \in Clients \ Range(batch) : <<c, d>> \in before' <=> <<c, d>> \in before
  BY <1>2, <1>3, TakeOnly
<1>5. /\ phaseQueue' = [phaseQueue EXCEPT ![p] = <<>>] /\ UNCHANGED <<kind, queues>>
      /\ elapsed' \in SUBSET Phases /\ DOMAIN phaseQueue = Phases /\ DOMAIN phaseQueue' = Phases
  BY DEF GetPhaseBatch, QueuesInv, TypeOK
<1>6. ASSUME NEW r \in Phases
      PROVE  IsQueue(phaseQueue'[r]) /\ InOrder(phaseQueue'[r], OfPhase(r)', before')
  <2>1. IsQueue(phaseQueue[r]) /\ InOrder(phaseQueue[r], OfPhase(r), before)
    BY <1>1 DEF QueuesInv, TypeOK, KeptInOrder, OfPhase
  <2>2. CASE r = p
    <3>1. OfPhase(r)' = {} /\ phaseQueue'[r] = <<>>
      BY <1>1, <1>4, <1>5, <2>2 DEF OfPhase
    <3>2. DOMAIN <<>> = {}
      OBVIOUS
    <3> QED
      BY <3>1, <3>2, NoMembers DEF IsQueue, InOrder
  <2>3. CASE r # p
    <3>1. OfPhase(r)' = OfPhase(r) /\ phaseQueue'[r] = phaseQueue[r]
      BY <1>1, <1>4, <1>5, <2>3 DEF OfPhase
    <3>2. OfPhase(r) \subseteq Clients \ Range(batch)
      BY <1>1, <2>3 DEF OfPhase
    <3>3. SameOrder(OfPhase(r), before, before')
      BY <1>4, <3>2 DEF SameOrder
    <3> QED
      BY <2>1, <3>1, <3>3, StaysInOrder
  <2> QED
    BY <2>2, <2>3
<1> QED
  BY <1>1, <1>4, <1>5, <1>6, PhasesKeep

\* GetBatch takes the requests of one priority that came first, and leaves the others.
LEMMA PriorityBatch ==
    ASSUME QueuesInv, NEW p \in Priorities, GetBatch(p)
    PROVE  /\ kind = "priorities"
           /\ Range(FirstOf(p)) \subseteq OfPriority(p)
           /\ Rest(p) \in Seq(Clients) /\ IsInjective(Rest(p))
           /\ \A now : SameOrder(OfPriority(p) \ Range(FirstOf(p)), before, now)
                       => InOrder(Rest(p), OfPriority(p) \ Range(FirstOf(p)), now)
           /\ \A c \in Range(FirstOf(p)), d \in OfPriority(p) \ Range(FirstOf(p)) :
                 <<c, d>> \in before
<1> DEFINE q == queues[p]
           own == OfPriority(p)
<1>1. q # <<>> /\ kind = "priorities"
  BY DEF GetBatch, MostUrgent, QueuesInv, TypeOK, Unused
<1>2. q \in Seq(Clients) /\ IsInjective(q) /\ InOrder(q, own, before) /\ own \in SUBSET Clients
  BY <1>1 DEF QueuesInv, TypeOK, IsQueue, KeptInOrder, OfPriority
<1>3. MaxBatchSize \in Int /\ 1 <= MaxBatchSize
  BY TokenAssumption
<1> HIDE DEF q, own
<1>4. Rest(p) \in Seq(Clients) /\ \E n \in Int : Cut(q, n, FirstOf(p), Rest(p))
  <2>1. FirstOf(p) = IF Len(q) <= MaxBatchSize THEN q ELSE SubSeq(q, 1, MaxBatchSize)
    BY DEF FirstOf, q
  <2>2. Rest(p) = SubSeq(q, MaxBatchSize + 1, Len(q))
    BY DEF Rest, q
  <2> QED
    BY <1>1, <1>2, <1>3, <2>1, <2>2, CutMembers, Zenon
<1>5. PICK n \in Int : Cut(q, n, FirstOf(p), Rest(p))
  BY <1>4
<1>6. ASSUME NEW now, SameOrder(own \ Range(FirstOf(p)), before, now)
      PROVE  /\ IsInjective(Rest(p)) /\ Range(FirstOf(p)) \subseteq own
             /\ InOrder(Rest(p), own \ Range(FirstOf(p)), now)
             /\ \A c \in Range(FirstOf(p)), d \in own \ Range(FirstOf(p)) : <<c, d>> \in before
  BY <1>2, <1>4, <1>5, <1>6, RestInOrder
<1>7. SameOrder(own \ Range(FirstOf(p)), before, before)
  BY DEF SameOrder
<1> QED
  BY <1>1, <1>4, <1>6, <1>7 DEF own
LEMMA GetBatchStep ==
    ASSUME QueuesInv, NEW p \in Priorities, GetBatch(p)
    PROVE  QueuesInv'
<1> DEFINE batch == FirstOf(p)
<1>1. /\ kind = "priorities"
      /\ Range(batch) \subseteq OfPriority(p)
      /\ Rest(p) \in Seq(Clients) /\ IsInjective(Rest(p))
      /\ \A now : SameOrder(OfPriority(p) \ Range(batch), before, now)
                  => InOrder(Rest(p), OfPriority(p) \ Range(batch), now)
  BY PriorityBatch
<1>2. Range(batch) \subseteq {c \in Clients : Queued(c)}
  BY <1>1 DEF OfPriority
<1>3. Take(batch)
  BY DEF GetBatch
<1> HIDE DEF batch
<1>4. /\ place' \in [Clients -> {"idle", "queued", "taken"}]
      /\ \A c \in Clients : Queued(c)' <=> Queued(c) /\ c \notin Range(batch)
      /\ before' \in SUBSET (Clients \X Clients)
      /\ \A pair \in before' : Queued(pair[1])' /\ Queued(pair[2])'
      /\ \A c, d \in Clients \ Range(batch) : <<c, d>> \in before' <=> <<c, d>> \in before
  BY <1>2, <1>3, TakeOnly
<1>5. /\ queues' = [queues EXCEPT ![p] = Rest(p)] /\ UNCHANGED <<kind, phaseQueue, elapsed>>
      /\ DOMAIN queues = Priorities /\ DOMAIN queues' = Priorities
  BY DEF GetBatch, QueuesInv, TypeOK
<1>6. ASSUME NEW r \in Priorities
      PROVE  IsQueue(queues'[r]) /\ InOrder(queues'[r], OfPriority(r)', before')
  <2>1. IsQueue(queues[r]) /\ InOrder(queues[r], OfPriority(r), before)
    BY <1>1 DEF QueuesInv, TypeOK, KeptInOrder, OfPriority
  <2>2. CASE r = p
    <3>1. OfPriority(r)' = OfPriority(p) \ Range(batch) /\ queues'[r] = Rest(p)
      BY <1>4, <1>5, <2>2 DEF OfPriority
    <3>2. SameOrder(OfPriority(p) \ Range(batch), before, before')
      BY <1>4 DEF SameOrder, OfPriority
    <3> QED
      BY <1>1, <3>1, <3>2 DEF IsQueue
  <2>3. CASE r # p
    <3>1. OfPriority(r)' = OfPriority(r) /\ queues'[r] = queues[r]
      BY <1>1, <1>4, <1>5, <2>3 DEF OfPriority
    <3>2. SameOrder(OfPriority(r), before, before')
      BY <1>1, <1>4, <2>3 DEF SameOrder, OfPriority
    <3> QED
      BY <2>1, <3>1, <3>2, StaysInOrder
  <2> QED
    BY <2>2, <2>3
<1> QED
  BY <1>1, <1>4, <1>5, <1>6, PrioritiesKeep

LEMMA QueuesStep == QueuesInv /\ [Next]_vars => QueuesInv'
<1> SUFFICES ASSUME QueuesInv, [Next]_vars PROVE QueuesInv'
  OBVIOUS
<1>1. ASSUME NEW c \in Clients, Add(c) PROVE QueuesInv'
  BY <1>1, AddStep
<1>2. ASSUME NEW c \in Clients, Reply(c) PROVE QueuesInv'
  BY <1>2, ReplyStep
<1>3. ASSUME NEW p \in Phases, GetPhaseBatch(p) PROVE QueuesInv'
  BY <1>3, GetPhaseBatchStep
<1>4. ASSUME NEW p \in Phases, Elapse(p) PROVE QueuesInv'
  BY <1>4, ElapseStep
<1>5. ASSUME NEW p \in Priorities, GetBatch(p) PROVE QueuesInv'
  BY <1>5, GetBatchStep
<1>6. CASE UNCHANGED vars
  BY <1>6 DEF QueuesInv, TypeOK, KeptInOrder, Unused, Queued, vars
<1> QED
  BY <1>1, <1>2, <1>3, <1>4, <1>5, <1>6 DEF Next, GetSomeBatch

THEOREM QueuesInvariance == Spec => []QueuesInv
<1>1. Init => QueuesInv
  BY QueuesInit
<1>2. QueuesInv /\ [Next]_vars => QueuesInv'
  BY QueuesStep
<1> QED
  BY <1>1, <1>2, PTL DEF Spec

-----------------------------------------------------------------------------
(* What the schedulers promise *)

\* The queues hold requests of clients, none twice (token_scheduler.go:11-21, 107-113).
THEOREM QueuesTypeCorrect == Spec => []TypeOK
<1>1. QueuesInv => TypeOK
  BY DEF QueuesInv
<1> QED
  BY <1>1, QueuesInvariance, PTL

\* For any clients and any size of a batch, each queue holds just the requests of its
\* phase or priority that nobody was given, in the order of their arrival: appending to
\* it, cutting a batch off it and emptying it lose no request and hand out none twice
\* (token_scheduler.go:34-43, 45-73, 122-151).
THEOREM QueuesKeptInOrder == Spec => []KeptInOrder
<1>1. QueuesInv => KeptInOrder
  BY DEF QueuesInv
<1> QED
  BY <1>1, QueuesInvariance, PTL

\* Whoever a batch is handed out before is of the other phase, less urgent, as urgent but
\* later, or of a priority that is never looked at (token_scheduler.go:138-146).
THEOREM NobodyOvertaken == Spec => NoneOvertaken
<1> DEFINE Fair(c, d) == \/ kind = "phases" /\ Phase[d] # Phase[c]
                         \/ kind = "priorities" /\ \/ Priority[d] > Priority[c]
                                                   \/ Priority[d] = Priority[c] /\ <<c, d>> \in before
                                                   \/ ~(0 <= Priority[d] /\ Priority[d] <= 10)
<1>1. ASSUME QueuesInv, [Next]_vars, NEW c \in Clients, NEW d \in Clients,
             Queued(c), ~Queued(c)', Queued(d), Queued(d)'
      PROVE  Fair(c, d)
  <2> HIDE DEF Fair
  <2>1. ASSUME NEW e \in Clients, Add(e) PROVE FALSE
    BY <1>1, <2>1 DEF QueuesInv, TypeOK, Add, Queued
  <2>2. ASSUME NEW e \in Clients, Reply(e) PROVE FALSE
    BY <1>1, <2>2 DEF QueuesInv, TypeOK, Reply, Queued
  <2>3. ASSUME NEW p \in Phases, GetPhaseBatch(p) PROVE Fair(c, d)
    <3>1. kind = "phases" /\ Range(phaseQueue[p]) = OfPhase(p)
      BY <1>1, <2>3, PhaseBatch
    <3>2. c \in OfPhase(p) /\ d \notin OfPhase(p)
      BY <1>1, <2>3, <3>1 DEF GetPhaseBatch, Take, Queued, QueuesInv, TypeOK
    <3> QED
      BY <1>1, <3>1, <3>2 DEF OfPhase, Fair
  <2>4. ASSUME NEW p \in Phases, Elapse(p) PROVE FALSE
    BY <1>1, <2>4 DEF Elapse, Queued
  <2>5. ASSUME NEW p \in Priorities, GetBatch(p) PROVE Fair(c, d)
    <3>1. /\ kind = "priorities"
          /\ Range(FirstOf(p)) \subseteq OfPriority(p)
          /\ \A e \in Range(FirstOf(p)), f \in OfPriority(p) \ Range(FirstOf(p)) :
                <<e, f>> \in before
      BY <1>1, <2>5, PriorityBatch
    <3>2. c \in Range(FirstOf(p)) /\ d \notin Range(FirstOf(p))
      BY <1>1, <2>5 DEF GetBatch, Take, Queued, QueuesInv, TypeOK
    <3>3. Priority[c] = p /\ p \in Int /\ Priority[d] \in Priorities /\ Priority[d] \in Int
      BY <3>1, <3>2, TokenAssumption DEF OfPriority, Priorities, Range
    <3>4. CASE Priority[d] = p
      BY <1>1, <3>1, <3>2, <3>3, <3>4 DEF OfPriority, Fair
    <3>5. CASE Priority[d] \in Seen /\ Priority[d] # p
      <4>1. queues[Priority[d]] # <<>>
        <5>1. d \in Range(queues[Priority[d]])
          BY <1>1, <3>1, <3>3 DEF QueuesInv, KeptInOrder, InOrder
        <5> QED
          BY <5>1, NoMembers
      <4>2. p <= Priority[d]
        BY <2>5, <3>5, <4>1 DEF GetBatch, MostUrgent
      <4> QED
        BY <3>1, <3>3, <3>5, <4>2 DEF Fair
    <3>6. CASE Priority[d] \notin Seen
      BY <3>1, <3>3, <3>6 DEF Seen, Fair
    <3> QED
      BY <3>4, <3>5, <3>6
  <2>6. ASSUME UNCHANGED vars PROVE FALSE
    BY <1>1, <2>6 DEF vars, Queued
  <2> QED
    BY <1>1, <2>1, <2>2, <2>3, <2>4, <2>5, <2>6 DEF Next, GetSomeBatch
<1>2. QueuesInv /\ [Next]_vars =>
         [\A c, d \in Clients : Queued(c) /\ ~Queued(c)' /\ Queued(d) /\ Queued(d)' => Fair(c, d)]_vars
  BY <1>1
<1> QED
  BY <1>2, QueuesInvariance, PTL DEF Spec, NoneOvertaken
=============================================================================
