----------------------------- MODULE TokenQueues -----------------------------
(***************************************************************************)
(* internal/batcher/token_scheduler.go: TokenScheduler, with a queue for   *)
(* each phase, and PriorityTokenScheduler, with a queue for each priority. *)
(* Every method holds the mutex from beginning to end.  Nothing in the     *)
(* program makes one of them yet: the clients, and whoever asks for        *)
(* batches, are those the interface is made for.  A client has one request *)
(* at a time, of one phase and priority, and may make the next when it has *)
(* its reply.                                                              *)
(***************************************************************************)
EXTENDS Integers, Sequences, FiniteSets, Functions

CONSTANTS Clients,
          Phase,       \* TokenRequest.Phase of each client's requests
          Priority,    \* TokenRequest.Priority of each client's requests
          MaxBatchSize \* maxBatchSize and maxBatch

\* maxBatch 0, which nothing excludes, would make every batch empty.
ASSUME TokenAssumption == /\ IsFiniteSet(Clients)
                          /\ Phase \in [Clients -> {"prompt", "generation"}]
                          /\ Priority \in [Clients -> Int]
                          /\ MaxBatchSize \in Nat \ {0}

VARIABLES kind,      \* the scheduler that is used: it does not change
          place,     \* where the request of a client is
          before,    \* history: <<c, d>> if c's request came before d's and both are queued
          phaseQueue, \* promptQueue and generationQueue
          elapsed,   \* the phases last flushed more than their waiting time ago
          queues     \* PriorityTokenScheduler.queues

vars == <<kind, place, before, phaseQueue, elapsed, queues>>

Phases == {"prompt", "generation"}
Priorities == Range(Priority)

\* A queue with no request in it twice.
IsQueue(q) == q \in Seq(Clients) /\ IsInjective(q)

TypeOK == /\ kind \in {"phases", "priorities"}
          /\ place \in [Clients -> {"idle", "queued", "taken"}]
          /\ before \in SUBSET (Clients \X Clients)
          /\ DOMAIN phaseQueue = Phases /\ \A p \in Phases : IsQueue(phaseQueue[p])
          /\ elapsed \in SUBSET Phases
          /\ DOMAIN queues = Priorities /\ \A p \in Priorities : IsQueue(queues[p])

Init == /\ kind \in {"phases", "priorities"}
        /\ place = [c \in Clients |-> "idle"]
        /\ before = {}
        /\ phaseQueue = [p \in Phases |-> <<>>]
        /\ elapsed = {}
        /\ queues = [p \in Priorities |-> <<>>]

Queued(c) == place[c] = "queued"

-----------------------------------------------------------------------------
\* TokenScheduler.Add or PriorityTokenScheduler.Add
Add(c) == /\ place[c] = "idle"
          /\ place' = [place EXCEPT ![c] = "queued"]
          /\ before' = before \cup ({d \in Clients : Queued(d)} \X {c})
          /\ \/ /\ kind = "phases"
                /\ phaseQueue' = [phaseQueue EXCEPT ![Phase[c]] = Append(@, c)]
                /\ UNCHANGED queues
             \/ /\ kind = "priorities"
                /\ queues' = [queues EXCEPT ![Priority[c]] = Append(@, c)]
                /\ UNCHANGED phaseQueue
          /\ UNCHANGED <<kind, elapsed>>

\* The requests of a batch are whoever asked for it's.
Take(batch) == /\ place' = [c \in Clients |-> IF c \in Range(batch) THEN "taken" ELSE place[c]]
               /\ before' = {pair \in before : {pair[1], pair[2]} \cap Range(batch) = {}}

\* Enough requests, or time, for a batch.
Due(p) == \/ Len(phaseQueue[p]) >= IF p = "prompt" THEN MaxBatchSize ELSE MaxBatchSize \div 4
          \/ p \in elapsed

\* Faulty: the queue is not replaced by an empty one.
GetWithoutReset(p) == /\ phaseQueue[p] # <<>>
                      /\ Due(p)
                      /\ Take(phaseQueue[p])
                      /\ elapsed' = elapsed \ {p}
                      /\ UNCHANGED <<kind, phaseQueue, queues>>

\* GetPromptBatch and GetGenerationBatch hand out the whole queue.
GetPhaseBatch(p) == /\ phaseQueue[p] # <<>>
                    /\ Due(p)
                    /\ Take(phaseQueue[p])
                    /\ phaseQueue' = [phaseQueue EXCEPT ![p] = <<>>]
                    /\ elapsed' = elapsed \ {p}
                    /\ UNCHANGED <<kind, queues>>

\* maxWaitMs, or 10 ms, have passed since the last batch.
Elapse(p) == /\ kind = "phases"
             /\ elapsed' = elapsed \cup {p}
             /\ UNCHANGED <<kind, place, before, phaseQueue, queues>>

\* Faulty: a loop that ends too early.
SeenBelow == {p \in Priorities : 0 <= p /\ p < 10}

\* The queues that the loop of GetBatch comes to.
Seen == {p \in Priorities : 0 <= p /\ p <= 10}

\* Faulty: a loop in the other direction.
LeastUrgent(p) == p \in Seen /\ queues[p] # <<>> /\ \A q \in Seen : queues[q] # <<>> => q <= p

\* The first queue with a request.
MostUrgent(p) == p \in Seen /\ queues[p] # <<>> /\ \A q \in Seen : queues[q] # <<>> => p <= q

\* Faulty: the batch is cut from the other end.
LastOf(p) == IF Len(queues[p]) <= MaxBatchSize THEN queues[p]
             ELSE SubSeq(queues[p], Len(queues[p]) - MaxBatchSize + 1, Len(queues[p]))

\* queues[priority][:batchSize]
FirstOf(p) == IF Len(queues[p]) <= MaxBatchSize THEN queues[p]
              ELSE SubSeq(queues[p], 1, MaxBatchSize)

\* queues[priority][batchSize:]
Rest(p) == SubSeq(queues[p], MaxBatchSize + 1, Len(queues[p]))

\* PriorityTokenScheduler.GetBatch: as many as fit, of one priority.
GetBatch(p) == /\ MostUrgent(p)
               /\ Take(FirstOf(p))
               /\ queues' = [queues EXCEPT ![p] = Rest(p)]
               /\ UNCHANGED <<kind, phaseQueue, elapsed>>

Reply(c) == /\ place[c] = "taken"
            /\ place' = [place EXCEPT ![c] = "idle"]
            /\ UNCHANGED <<kind, before, phaseQueue, elapsed, queues>>

GetSomeBatch == \E p \in Priorities : GetBatch(p)

Next == \/ \E c \in Clients : Add(c) \/ Reply(c)
        \/ \E p \in Phases : GetPhaseBatch(p) \/ Elapse(p)
        \/ GetSomeBatch

Spec == Init /\ [][Next]_vars

\* Somebody asks for batches again and again, and time passes.
Fairness == /\ \A p \in Phases : WF_vars(GetPhaseBatch(p)) /\ WF_vars(Elapse(p))
            /\ WF_vars(GetSomeBatch)

FairSpec == Spec /\ Fairness

-----------------------------------------------------------------------------
(* Properties *)

\* q has just the members of own, each once, in the given order.
InOrder(q, own, order) == /\ Range(q) = own
                          /\ \A i, j \in DOMAIN q : i < j <=> <<q[i], q[j]>> \in order

\* Whatever is added and handed out meanwhile, each queue holds just the requests of its
\* phase or priority that nobody has been given, in the order of their arrival: none is
\* lost or handed out twice.
KeptInOrder ==
    /\ kind = "phases" =>
          \A p \in Phases : InOrder(phaseQueue[p], {c \in Clients : Queued(c) /\ Phase[c] = p}, before)
    /\ kind = "priorities" =>
          \A p \in Priorities : InOrder(queues[p], {c \in Clients : Queued(c) /\ Priority[c] = p}, before)

\* A request that stays behind when another is handed out has not been overtaken: it is
\* of the other phase; or it is less urgent, or as urgent and came later, or it has a
\* priority that the loop does not come to (token_scheduler.go:138-146).
NoneOvertaken ==
    [][\A c, d \in Clients : Queued(c) /\ ~Queued(c)' /\ Queued(d) /\ Queued(d)' =>
          \/ kind = "phases" /\ Phase[d] # Phase[c]
          \/ kind = "priorities" /\ \/ Priority[d] > Priority[c]
                                    \/ Priority[d] = Priority[c] /\ <<c, d>> \in before
                                    \/ ~(0 <= Priority[d] /\ Priority[d] <= 10)]_vars

\* The requests that may keep one from being handed out: none with a queue for each
\* phase, those that are more urgent with a queue for each priority.
Overtaking(c) == {d \in Clients : kind = "priorities" /\ Priority[d] < Priority[c]}

\* Every request is handed out in the end, unless more urgent ones keep coming (then it
\* may wait for ever, token_scheduler.go:138), or its priority is none that the loop comes
\* to, below 0 or above 10: nobody is told so, and it does wait for ever.
HandedOut ==
    \A c \in Clients : (kind = "priorities" => 0 <= Priority[c] /\ Priority[c] <= 10)
        /\ <>[](\A d \in Overtaking(c) : ~Queued(d)) => (Queued(c) ~> ~Queued(c))
=============================================================================
