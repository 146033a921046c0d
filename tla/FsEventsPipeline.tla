-------------------------- MODULE FsEventsPipeline --------------------------
(***************************************************************************)
(* The threads of rbh-fsevents (rbh-fsevents.c): the producer, which reads *)
(* batches and hands a sub-batch to each worker concerned, the workers     *)
(* (consumer_thread), and what they share: a list with a mutex and a       *)
(* condition variable per worker, the flags working, done_producing and    *)
(* should_stop, and the condition variable signal_available_for_work.      *)
(*                                                                         *)
(* A batch is its number, and its sub-batches the set of workers they go   *)
(* to; LustreAck says what is in them.  A condition variable wakes a thread*)
(* only if it is waiting when signalled, and may wake it for no reason.    *)
(***************************************************************************)
EXTENDS Integers, Sequences

CONSTANTS NbWorkers,  \* --nb-workers
          SinkErrno,  \* what errno may be when sink_process fails
          MaxBatches  \* bound: batches the source gives

ASSUME NbWorkersAssumption == NbWorkers \in Nat \ {0}
ASSUME SinkErrnoAssumption == SinkErrno \subseteq {"ENODATA", "error"}
ASSUME MaxBatchesAssumption == MaxBatches \in Nat

Worker == 0 .. NbWorkers - 1

VARIABLES
    pp,             \* where the producer is
    probe,          \* the worker consumer_available_for_work looks at
    batch_id,       \* the batch being handed out
    batch,          \* workers whose sub-batch is not handed out yet
    errno,          \* "ENODATA", or "error" for any other value
    rc,             \* what producer_thread, then feed, returns
    done_producing,
    should_stop,
    cp,             \* where each worker is
    list,           \* per worker, the batches whose sub-batch waits
    node,           \* per worker, the batch it is working on
    working,
    given,          \* <<w, b>>: w has a sub-batch in batch b
    acked,          \* per worker, the batches processed and acknowledged
    missed          \* the threads that were signalled just before they waited

shared == <<done_producing, should_stop>>
producer == <<pp, probe, batch_id, batch, errno, rc, given>>
consumers == <<cp, list, node, working, acked>>
vars == <<producer, shared, consumers, missed>>

Producer == NbWorkers   \* the producer, in missed

Init ==
    /\ pp = "next" /\ probe = 0 /\ batch_id = 1 /\ batch = {}
    /\ errno = "ENODATA" /\ rc = 0 /\ given = {}
    /\ done_producing = FALSE /\ should_stop = FALSE
    /\ cp = [w \in Worker |-> "top"]
    /\ list = [w \in Worker |-> <<>>]
    /\ node = [w \in Worker |-> 0]
    /\ working = [w \in Worker |-> FALSE]
    /\ acked = [w \in Worker |-> <<>>]
    /\ missed = {}

Goto(w, to) == cp' = [cp EXCEPT ![w] = to]

\* pthread_cond_signal of a condition variable only one thread waits on: the
\* thread re-checks what it waits for, with its mutex.
SignalAvailable ==
    /\ pp' = IF pp = "waiting" THEN "check" ELSE pp
    /\ probe' = IF pp = "waiting" THEN 0 ELSE probe
    /\ missed' = IF pp = "to_wait" \/ (pp = "check" /\ probe > 0)
                   THEN missed \cup {Producer} ELSE missed

SignalList(w) ==
    /\ cp' = [cp EXCEPT ![w] = IF @ = "waiting" THEN "check" ELSE @]
    /\ missed' = IF cp[w] = "to_wait" THEN missed \cup {w} ELSE missed

-----------------------------------------------------------------------------
(* producer_thread *)

NextBatch(subs) ==
    /\ pp = "next" /\ batch_id <= MaxBatches
    /\ batch' = subs
    /\ given' = given \cup {<<w, batch_id>> : w \in subs}
    /\ pp' = "check" /\ probe' = 0
    /\ UNCHANGED <<missed, batch_id, errno, rc, shared, consumers>>

\* rbh_mut_iter_next returns NULL: no more data, or an error.
NoBatch ==
    /\ pp = "next"
    /\ errno' \in {"ENODATA", "error"}
    /\ pp' = "end"
    /\ UNCHANGED <<missed, probe, batch_id, batch, rc, given, shared, consumers>>

\* consumer_available_for_work reads one flag after the other, without a lock.
ProbeFree ==
    /\ pp = "check" /\ ~working[probe]
    /\ pp' = "deliver"
    /\ missed' = missed \ {Producer}
    /\ UNCHANGED <<probe, batch_id, batch, errno, rc, given, shared, consumers>>

\* Mutant: the loop over the workers reads one flag too many.
ProbeBusyTooFar ==
    /\ pp = "check" /\ working[probe]
    /\ probe' = probe + 1
    /\ UNCHANGED <<missed, pp, batch_id, batch, errno, rc, given, shared, consumers>>

ProbeBusy ==
    /\ pp = "check" /\ working[probe]
    /\ \/ /\ probe + 1 < NbWorkers
          /\ probe' = probe + 1 /\ pp' = pp
       \/ /\ probe + 1 = NbWorkers
          /\ probe' = 0
          /\ pp' = IF should_stop THEN "deliver" ELSE "to_wait"
    /\ UNCHANGED <<missed, batch_id, batch, errno, rc, given, shared, consumers>>

WaitAvailable ==
    /\ pp = "to_wait"
    /\ pp' = "waiting"
    /\ UNCHANGED <<missed, probe, batch_id, batch, errno, rc, given, shared, consumers>>

SpuriousAvailable ==
    /\ pp = "waiting"
    /\ pp' = "check" /\ probe' = 0
    /\ UNCHANGED <<missed, batch_id, batch, errno, rc, given, shared, consumers>>

\* Sub-batches come in the order of the workers.
NextSub(w) == w \in batch /\ \A v \in batch : w <= v

\* Mutant: the sub-batch is added without the mutex.
MutexIgnored(w) == TRUE

\* The worker's mutex is taken, so the worker is not between its check and its
\* wait.
MutexFree(w) == cp[w] \notin {"check", "to_wait"}

\* Mutant: rbh_list_add, at the head of the list.
DeliverAtHead(w) ==
    /\ pp = "deliver" /\ ~should_stop /\ NextSub(w) /\ MutexFree(w)
    /\ list' = [list EXCEPT ![w] = <<batch_id>> \o @]
    /\ SignalList(w)
    /\ batch' = batch \ {w}
    /\ UNCHANGED <<pp, probe, batch_id, errno, rc, given, shared, node, working,
                   acked>>

Deliver(w) ==
    /\ pp = "deliver" /\ ~should_stop /\ NextSub(w) /\ MutexFree(w)
    /\ list' = [list EXCEPT ![w] = Append(@, batch_id)]
    /\ SignalList(w)
    /\ batch' = batch \ {w}
    /\ UNCHANGED <<pp, probe, batch_id, errno, rc, given, shared, node, working,
                   acked>>

Delivered ==
    /\ pp = "deliver" /\ batch = {}
    /\ batch_id' = batch_id + 1
    /\ pp' = "next"
    /\ UNCHANGED <<missed, probe, batch, errno, rc, given, shared, consumers>>

\* goto end, with whatever errno was left.
DeliverStopped ==
    /\ pp = "deliver" /\ should_stop /\ batch # {}
    /\ errno' \in {"ENODATA", "error"}
    /\ pp' = "end"
    /\ UNCHANGED <<missed, probe, batch_id, batch, rc, given, shared, consumers>>

\* build_enrich_iter fails: producer_thread returns at once.
BuildFails ==
    /\ pp = "deliver" /\ ~should_stop /\ batch # {}
    /\ should_stop' = TRUE
    /\ rc' = -1
    /\ pp' = "wake" /\ probe' = 0
    /\ UNCHANGED <<missed, batch_id, batch, errno, given, done_producing, consumers>>

SetDone ==
    /\ pp = "end"
    /\ done_producing' = TRUE
    /\ pp' = "return"
    /\ UNCHANGED <<missed, probe, batch_id, batch, errno, rc, given, should_stop,
                   consumers>>

Return ==
    /\ pp = "return"
    /\ should_stop' = (should_stop \/ errno # "ENODATA")
    /\ rc' = IF errno # "ENODATA" THEN -1 ELSE 0
    /\ pp' = "wake" /\ probe' = 0
    /\ UNCHANGED <<missed, batch_id, batch, errno, given, done_producing, consumers>>

(* cleanup_producer_consumers and the end of feed *)

\* Mutant: the first worker is not signalled.
WakeOthers ==
    /\ pp = "wake"
    /\ IF probe = 0 THEN UNCHANGED <<cp, missed>> ELSE SignalList(probe)
    /\ probe' = (probe + 1) % NbWorkers
    /\ pp' = IF probe + 1 = NbWorkers THEN "join" ELSE "wake"
    /\ UNCHANGED <<batch_id, batch, errno, rc, given, shared, list, node,
                   working, acked>>

\* Every worker is signalled once, without its mutex.
Wake ==
    /\ pp = "wake"
    /\ SignalList(probe)
    /\ probe' = (probe + 1) % NbWorkers
    /\ pp' = IF probe + 1 = NbWorkers THEN "join" ELSE "wake"
    /\ UNCHANGED <<batch_id, batch, errno, rc, given, shared, list, node,
                   working, acked>>

Join ==
    /\ pp = "join"
    /\ \A w \in Worker : cp[w] = "ended"
    /\ rc' = IF rc = 0 /\ should_stop THEN -1 ELSE rc
    /\ pp' = "exited"
    /\ UNCHANGED <<missed, probe, batch_id, batch, errno, given, shared, consumers>>

-----------------------------------------------------------------------------
(* consumer_thread *)

Continue(w) ==
    /\ cp[w] = "top" /\ ~should_stop
    /\ working' = [working EXCEPT ![w] = FALSE]
    /\ Goto(w, "signal")
    /\ UNCHANGED <<missed, producer, shared, list, node, acked>>

\* The loop ends because of should_stop; errno may be any old value.
LoopEnds(w) ==
    /\ cp[w] = "top" /\ should_stop
    /\ \/ Goto(w, "ended")
       \/ Goto(w, "shutdown")
    /\ UNCHANGED <<missed, producer, shared, list, node, working, acked>>

\* Mutant: a worker that is available again does not say so.
SignalWorkNot(w) ==
    /\ cp[w] = "signal"
    /\ Goto(w, "check")
    /\ UNCHANGED <<producer, shared, list, node, working, acked, missed>>

SignalWork(w) ==
    /\ cp[w] = "signal"
    /\ SignalAvailable
    /\ Goto(w, "check")
    /\ UNCHANGED <<batch_id, batch, errno, rc, given, shared, list, node,
                   working, acked>>

\* The mutex is held: the list, done_producing and should_stop are read.
NothingYet(w) ==
    /\ cp[w] = "check"
    /\ list[w] = <<>> /\ ~done_producing /\ ~should_stop
    /\ Goto(w, "to_wait")
    /\ UNCHANGED <<missed, producer, shared, list, node, working, acked>>

\* pthread_cond_wait starts to wait and releases the mutex.
WaitList(w) ==
    /\ cp[w] = "to_wait"
    /\ Goto(w, "waiting")
    /\ UNCHANGED <<missed, producer, shared, list, node, working, acked>>

SpuriousList(w) ==
    /\ cp[w] = "waiting"
    /\ Goto(w, "check")
    /\ UNCHANGED <<missed, producer, shared, list, node, working, acked>>

\* Mutant: done_producing alone ends the worker.
NoMoreWorkEvenIfListed(w) ==
    /\ cp[w] = "check"
    /\ done_producing \/ should_stop
    /\ Goto(w, "ended")
    /\ UNCHANGED <<missed, producer, shared, list, node, working, acked>>

NoMoreWork(w) ==
    /\ cp[w] = "check"
    /\ (list[w] = <<>> /\ done_producing) \/ should_stop
    /\ Goto(w, "ended")
    /\ UNCHANGED <<missed, producer, shared, list, node, working, acked>>

\* consumer_get_iterator
TakeWork(w) ==
    /\ cp[w] = "check" /\ ~should_stop /\ list[w] # <<>>
    /\ working' = [working EXCEPT ![w] = TRUE]
    /\ node' = [node EXCEPT ![w] = Head(list[w])]
    /\ list' = [list EXCEPT ![w] = Tail(@)]
    /\ Goto(w, "process")
    /\ UNCHANGED <<missed, producer, shared, acked>>

\* sink_process, then source->ack_batch.
Processed(w) ==
    /\ cp[w] = "process"
    /\ acked' = [acked EXCEPT ![w] = Append(@, node[w])]
    /\ Goto(w, "top")
    /\ UNCHANGED <<missed, producer, shared, list, node, working>>

\* sink_process fails: the thread leaves its loop, and asks everyone to stop
\* unless errno is ENODATA.
ProcessFails(w) ==
    /\ cp[w] = "process"
    /\ \E e \in SinkErrno : Goto(w, IF e = "ENODATA" THEN "ended" ELSE "shutdown")
    /\ UNCHANGED <<missed, producer, shared, list, node, working, acked>>

\* signal_shutdown stores, then signals.
StoreStop(w) ==
    /\ cp[w] = "shutdown"
    /\ should_stop' = TRUE
    /\ Goto(w, "signal_shutdown")
    /\ UNCHANGED <<missed, producer, done_producing, list, node, working, acked>>

SignalStop(w) ==
    /\ cp[w] = "signal_shutdown"
    /\ SignalAvailable
    /\ Goto(w, "ended")
    /\ UNCHANGED <<batch_id, batch, errno, rc, given, shared, list, node,
                   working, acked>>

-----------------------------------------------------------------------------
Finished == pp = "exited" /\ UNCHANGED vars

ProducerStep ==
    \/ \E subs \in SUBSET Worker \ {{}} : NextBatch(subs)
    \/ NoBatch \/ ProbeFree \/ ProbeBusy \/ WaitAvailable
    \/ \E w \in Worker : Deliver(w)
    \/ Delivered \/ DeliverStopped \/ BuildFails \/ SetDone \/ Return
    \/ Wake \/ Join

ConsumerStep(w) ==
    \/ Continue(w) \/ LoopEnds(w) \/ SignalWork(w) \/ NothingYet(w)
    \/ WaitList(w) \/ NoMoreWork(w) \/ TakeWork(w) \/ Processed(w)
    \/ ProcessFails(w) \/ StoreStop(w) \/ SignalStop(w)

Next ==
    \/ ProducerStep
    \/ \E w \in Worker : ConsumerStep(w)
    \/ SpuriousAvailable
    \/ \E w \in Worker : SpuriousList(w)
    \/ Finished

\* A thread that can run does run, and sink_process returns; nothing makes a
\* condition variable wake a thread that nobody signals.
Fairness ==
    /\ WF_vars(ProducerStep)
    /\ \A w \in Worker : WF_vars(ConsumerStep(w))

Spec == Init /\ [][Next]_vars /\ Fairness

-----------------------------------------------------------------------------
\* Every variable has the type of the C object it stands for.
TypeOK ==
    /\ pp \in {"next", "check", "to_wait", "waiting", "deliver", "end",
               "return", "wake", "join", "exited"}
    /\ probe \in Worker
    /\ batch_id \in 1 .. MaxBatches + 1
    /\ batch \subseteq Worker
    /\ errno \in {"ENODATA", "error"}
    /\ rc \in {0, -1}
    /\ given \subseteq Worker \X (1 .. MaxBatches)
    /\ done_producing \in BOOLEAN /\ should_stop \in BOOLEAN
    /\ cp \in [Worker -> {"top", "signal", "check", "to_wait", "waiting",
                          "process", "shutdown", "signal_shutdown", "ended"}]
    /\ list \in [Worker -> Seq(1 .. MaxBatches)]
    /\ node \in [Worker -> 0 .. MaxBatches]
    /\ working \in [Worker -> BOOLEAN]
    /\ acked \in [Worker -> Seq(1 .. MaxBatches)]
    /\ missed \subseteq Worker \cup {Producer}

Acknowledged(w, b) == \E n \in 1 .. Len(acked[w]) : acked[w][n] = b

\* rbh-fsevents exits with success only once every sub-batch of every batch it
\* read has been processed and acknowledged: no worker leaves with work in its
\* list because done_producing was set too early, and no failure is forgotten
\* (feed).
SuccessMeansAll ==
    pp = "exited" /\ rc = 0 => \A g \in given : Acknowledged(g[1], g[2])

\* A worker acknowledges its sub-batches once each, in the order of the
\* batches, so that two fsevents of one id reach the sink in order
\* (add_iterators_to_consumer, consumer_get_iterator).
AckedInOrder ==
    \A w \in Worker : \A m, n \in 1 .. Len(acked[w]) :
        m < n => acked[w][m] < acked[w][n]

\* Work in a worker's list is eventually taken, unless everyone is stopping:
\* the signal of signal_list that goes with it is never lost (producer_thread,
\* consumer_thread).
WorkIsTaken ==
    \A w \in Worker : list[w] # <<>> ~> (cp[w] = "process" \/ should_stop)

\* The workers that cleanup_producer_consumers wakes up all end, and so does
\* pthread_join, when none of them was signalled between its check and its wait.
JoinReturns ==
    pp = "join" ~> (pp = "exited" \/ \E w \in missed : w \in Worker /\ cp[w] = "waiting")

\* The producer stops waiting once a worker is available, when no worker signalled
\* it between its check and its wait (consumer_available_for_work).
ProducerResumes ==
    (pp = "waiting" /\ \E w \in Worker : ~working[w])
        ~> (pp # "waiting" \/ Producer \in missed)

\* Nobody waits for ever, but for a signal that was sent between a check and the
\* wait that follows it: the join of the workers returns, and the producer goes
\* on (cleanup_producer_consumers, consumer_available_for_work).
ThreadsEnd == JoinReturns /\ ProducerResumes
=============================================================================
