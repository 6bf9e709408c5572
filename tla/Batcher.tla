------------------------------- MODULE Batcher -------------------------------
(***************************************************************************)
(* internal/batcher/batcher.go: the queue between the HTTP handlers, which *)
(* Add requests to it, and the scheduler loop, which Flushes it.  Every    *)
(* method runs under Batcher.mu, so each is one step.                      *)
(*                                                                         *)
(* Time is abstracted to what Flush asks of it: has MaxWaitMs elapsed      *)
(* since lastFlush.  That fact, "waited", becomes true at some moment      *)
(* after a flush (MaxWaitElapses) and false again at the next flush.       *)
(***************************************************************************)
EXTENDS Naturals, Sequences, Functions

CONSTANTS Requests,      \* the requests handlers may submit
          QueueSize,     \* BatcherConfig.QueueSize
          MaxBatchSize   \* BatcherConfig.MaxBatchSize

\* config.Load replaces a zero by a default (config.go:119-127).
ASSUME BatcherAssumption == /\ QueueSize \in Nat \ {0}
                            /\ MaxBatchSize \in Nat \ {0}

VARIABLES queue,    \* Batcher.queue
          waited    \* time.Since(lastFlush) >= MaxWaitMs

batcherVars == <<queue, waited>>

\* The slice never grows past the capacity it was made with (batcher.go:33, 43).
BatcherTypeOK == /\ queue \in Seq(Requests)
                 /\ Len(queue) <= QueueSize
                 /\ waited \in BOOLEAN

BatcherInit == /\ queue = <<>>
               /\ waited = FALSE

-----------------------------------------------------------------------------
(* Faulty variants of Add, MustFlush and TakeAll: each breaks a property (README). *)

\* A full queue takes one more.
AddOffByOne(r) ==
    /\ queue' = IF Len(queue) > QueueSize THEN queue ELSE Append(queue, r)
    /\ UNCHANGED waited

\* A full queue makes room by dropping its oldest request.
AddEvictingOldest(r) ==
    /\ queue' = IF Len(queue) >= QueueSize THEN Append(Tail(queue), r)
                                           ELSE Append(queue, r)
    /\ UNCHANGED waited

\* A flush that ignores MaxWaitMs.
FlushOnlyWhenFull == Len(queue) >= MaxBatchSize

\* A flush that hands over the slice and keeps it.
TakeWithoutReset == UNCHANGED <<queue, waited>>

-----------------------------------------------------------------------------
\* Add(req): a full queue drops the request, and the caller is not told.
Add(r) ==
    /\ queue' = IF Len(queue) >= QueueSize THEN queue ELSE Append(queue, r)
    /\ UNCHANGED waited

\* Flush returns a batch exactly when this holds.
MustFlush == /\ queue # <<>>
             /\ Len(queue) >= MaxBatchSize \/ waited

\* Flush when it does return a batch: the WHOLE queue, however long it is.
TakeAll == /\ queue' = <<>>
           /\ waited' = FALSE

\* The clock passes lastFlush + MaxWaitMs.
MaxWaitElapses == /\ ~waited
                  /\ waited' = TRUE
                  /\ UNCHANGED queue
=============================================================================
