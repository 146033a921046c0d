--------------------------- MODULE PipelineProofs ---------------------------
(***************************************************************************)
(* Proofs about FsEventsPipeline, for any number of workers and batches:   *)
(* the order in which workers acknowledge their sub-batches, and that      *)
(* rbh-fsevents succeeds only when all of them are acknowledged.           *)
(***************************************************************************)
EXTENDS FsEventsPipeline, TLAPS

-----------------------------------------------------------------------------
(* The inductive invariant.                                                *)

\* The batch w has taken and not acknowledged.
Working(w) == cp[w] = "process"

Listed(w, b) == \E n \in 1 .. Len(list[w]) : list[w][n] = b

\* The last batch of which w may have a sub-batch.
LastOf(w) == IF pp = "next" \/ w \in batch THEN batch_id - 1 ELSE batch_id

\* What w acknowledged, what it works on and what waits in its list are, in
\* this order, batches of increasing numbers.
OrderInv ==
    \A w \in Worker :
       /\ \A m, n \in 1 .. Len(acked[w]) : m < n => acked[w][m] < acked[w][n]
       /\ \A m, n \in 1 .. Len(list[w]) : m < n => list[w][m] < list[w][n]
       /\ \A m \in 1 .. Len(acked[w]) : \A n \in 1 .. Len(list[w]) :
             acked[w][m] < list[w][n]
       /\ Working(w) =>
             /\ node[w] \in 1 .. LastOf(w)
             /\ \A m \in 1 .. Len(acked[w]) : acked[w][m] < node[w]
             /\ \A n \in 1 .. Len(list[w]) : node[w] < list[w][n]
       /\ \A m \in 1 .. Len(acked[w]) : acked[w][m] <= LastOf(w)
       /\ \A n \in 1 .. Len(list[w]) : list[w][n] <= LastOf(w)

\* Where the producer is, and what it may still hand out.
Handing == {"check", "to_wait", "waiting", "deliver"}
ProducerInv ==
    /\ pp \in Handing => batch_id <= MaxBatches
    /\ pp = "next" => batch = {}
    /\ batch # {} /\ pp \notin Handing => should_stop
    /\ done_producing => pp \in {"return", "wake", "join", "exited"}
    /\ pp = "exited" => \A w \in Worker : cp[w] = "ended"

\* A sink whose failures are errors, and not the ENODATA that ends an
\* iteration: a worker that fails then always tells the others.
SinkFailuresAreErrors == "ENODATA" \notin SinkErrno

\* A failure of which everyone is told, or is about to be; or, when a sink fails
\* with ENODATA, maybe one that nobody hears of.
Failing == ~SinkFailuresAreErrors \/ should_stop \/ \E w \in Worker : cp[w] = "shutdown"

\* A worker that has ended left nothing behind.
EndInv ==
    /\ \A w \in Worker : cp[w] = "signal_shutdown" => should_stop
    /\ ~Failing => \A w \in Worker :
          cp[w] = "ended" => list[w] = <<>> /\ done_producing

\* Where a sub-batch that was read is.
Somewhere(w, b) ==
    \/ Acknowledged(w, b)
    \/ Listed(w, b)
    \/ Working(w) /\ node[w] = b
    \/ w \in batch /\ b = batch_id

GivenInv == ~Failing => \A g \in given : Somewhere(g[1], g[2])

IInv ==
    /\ TypeOK /\ ProducerInv /\ OrderInv /\ EndInv /\ GivenInv
    /\ SinkFailuresAreErrors => SuccessMeansAll


-----------------------------------------------------------------------------
(* Facts about sequences, and frames.                                      *)

\* What is in a list of batches.
LEMMA Elements ==
    ASSUME NEW S, NEW q \in Seq(S), NEW n \in 1 .. Len(q)
    PROVE  q[n] \in S
OBVIOUS

\* What Append does to a list of batches.
LEMMA AppendFacts ==
    ASSUME NEW S, NEW q \in Seq(S), NEW x \in S
    PROVE  /\ Append(q, x) \in Seq(S)
           /\ Len(q) \in Nat /\ Len(Append(q, x)) = Len(q) + 1
           /\ Append(q, x)[Len(q) + 1] = x
           /\ \A n \in 1 .. Len(q) : Append(q, x)[n] = q[n] /\ q[n] \in S
OBVIOUS

\* What Head and Tail take from a list of batches.
LEMMA TailFacts ==
    ASSUME NEW S, NEW q \in Seq(S), q # <<>>
    PROVE  /\ Len(q) \in Nat /\ Len(q) >= 1
           /\ Head(q) = q[1] /\ Head(q) \in S
           /\ Tail(q) \in Seq(S) /\ Len(Tail(q)) = Len(q) - 1
           /\ \A n \in 1 .. Len(q) : q[n] \in S
           /\ \A n \in 1 .. Len(q) - 1 : Tail(q)[n] = q[n + 1]
OBVIOUS

\* The next worker to signal is a worker (the loop of
\* cleanup_producer_consumers).
LEMMA NextProbe ==
    ASSUME NEW p \in Worker
    PROVE  /\ (p + 1) % NbWorkers \in Worker
           /\ p + 1 < NbWorkers => p + 1 \in Worker
           /\ 0 \in Worker
<1>1. \A n, c \in Nat : c > 0 => n % c \in 0 .. c - 1
  OBVIOUS
<1>2. p + 1 \in Nat /\ NbWorkers \in Nat /\ NbWorkers > 0
  BY NbWorkersAssumption DEF Worker
<1> QED
  BY <1>1, <1>2 DEF Worker

\* The batches a worker has are numbers, and so is the bound on them.
LEMMA Numbers ==
    ASSUME TypeOK, NEW w \in Worker
    PROVE  /\ acked[w] \in Seq(1 .. MaxBatches) /\ list[w] \in Seq(1 .. MaxBatches)
           /\ node[w] \in 0 .. MaxBatches
           /\ \A m \in 1 .. Len(acked[w]) : acked[w][m] \in 1 .. MaxBatches
           /\ \A n \in 1 .. Len(list[w]) : list[w][n] \in 1 .. MaxBatches
           /\ LastOf(w) \in Int
<1>1. acked[w] \in Seq(1 .. MaxBatches) /\ list[w] \in Seq(1 .. MaxBatches)
      /\ node[w] \in 0 .. MaxBatches
  BY DEF TypeOK
<1>2. /\ \A m \in 1 .. Len(acked[w]) : acked[w][m] \in 1 .. MaxBatches
      /\ \A n \in 1 .. Len(list[w]) : list[w][n] \in 1 .. MaxBatches
  BY <1>1, Elements
<1>3. LastOf(w) \in Int
  BY MaxBatchesAssumption DEF TypeOK, LastOf
<1> QED
  BY <1>1, <1>2, <1>3

\* A step that leaves the lists alone keeps the order, if no worker begins to
\* work and no bound moves back.
LEMMA OrderFrame ==
    ASSUME TypeOK, OrderInv, acked' = acked, list' = list, node' = node,
           \A w \in Worker : cp'[w] = "process" => cp[w] = "process",
           \A w \in Worker : LastOf(w) <= LastOf(w)', \A w \in Worker : LastOf(w)' \in Int
    PROVE  OrderInv'
<1> SUFFICES ASSUME NEW w \in Worker
             PROVE  /\ Working(w)' => node[w] \in 1 .. LastOf(w)'
                    /\ \A m \in 1 .. Len(acked[w]) : acked[w][m] <= LastOf(w)'
                    /\ \A n \in 1 .. Len(list[w]) : list[w][n] <= LastOf(w)'
  BY DEF OrderInv, Working
<1>1. /\ \A m \in 1 .. Len(acked[w]) : acked[w][m] \in Int
      /\ \A n \in 1 .. Len(list[w]) : list[w][n] \in Int
      /\ node[w] \in Int
  BY Numbers, MaxBatchesAssumption
<1>2. LastOf(w) \in Int /\ LastOf(w)' \in Int /\ LastOf(w) <= LastOf(w)'
  BY Numbers
<1>3. Working(w)' => node[w] \in 1 .. LastOf(w)'
  BY <1>1, <1>2 DEF OrderInv, Working
<1>4. \A m \in 1 .. Len(acked[w]) : acked[w][m] <= LastOf(w)'
  BY <1>1, <1>2 DEF OrderInv
<1>5. \A n \in 1 .. Len(list[w]) : list[w][n] <= LastOf(w)'
  BY <1>1, <1>2 DEF OrderInv
<1> QED
  BY <1>3, <1>4, <1>5

\* A step that leaves the lists, and what is handed out, alone loses no
\* sub-batch and keeps the order, if a worker begins to work or stops working
\* in no other way than to fail.
LEMMA ControlFrame ==
    ASSUME IInv, UNCHANGED <<given, acked, list, node, batch, batch_id>>,
           pp' = "next" => pp = "next", TypeOK', Failing => Failing',
           \A w \in Worker : cp'[w] = "process" => cp[w] = "process",
           ~Failing' => \A w \in Worker : cp[w] = "process" => cp'[w] = "process"
    PROVE  OrderInv' /\ GivenInv'
<1>1. TypeOK /\ OrderInv /\ GivenInv /\ ProducerInv
  BY DEF IInv
<1>2. \A w \in Worker : LastOf(w) <= LastOf(w)' /\ LastOf(w)' \in Int
  BY <1>1, MaxBatchesAssumption DEF LastOf, TypeOK
<1>3. OrderInv'
  BY <1>1, <1>2, OrderFrame
<1>4. GivenInv'
  <2> SUFFICES ASSUME ~Failing', NEW g \in given
               PROVE  Somewhere(g[1], g[2])'
    BY DEF GivenInv
  <2>1. g[1] \in Worker /\ Somewhere(g[1], g[2])
    BY <1>1 DEF GivenInv, TypeOK
  <2> QED
    BY <2>1 DEF Somewhere, Acknowledged, Listed, Working
<1> QED
  BY <1>3, <1>4

-----------------------------------------------------------------------------
(* The steps of the producer that hand out nothing.                        *)

\* What the producer does between two batches, while it looks for a worker
\* that is available, and when it stops.
LEMMA ProducerControl ==
    ASSUME IInv,
           \/ NoBatch \/ ProbeFree \/ ProbeBusy \/ WaitAvailable
           \/ SpuriousAvailable \/ DeliverStopped \/ BuildFails \/ SetDone \/ Return
    PROVE  IInv'
<1>1. UNCHANGED <<given, consumers, batch, batch_id>> /\ pp' \notin {"next", "exited"}
  BY DEF NoBatch, ProbeFree, ProbeBusy, WaitAvailable, SpuriousAvailable,
         DeliverStopped, BuildFails, SetDone, Return, IInv, TypeOK
<1>2. TypeOK'
  <2> USE DEF TypeOK, shared, consumers
  <2>1. CASE NoBatch
    BY <2>1, NbWorkersAssumption DEF IInv, NoBatch
  <2>2. CASE ProbeFree
    BY <2>2, NbWorkersAssumption DEF IInv, ProbeFree
  <2>3. CASE ProbeBusy
    BY <2>3, NextProbe, NbWorkersAssumption DEF IInv, ProbeBusy
  <2>4. CASE WaitAvailable
    BY <2>4, NbWorkersAssumption DEF IInv, WaitAvailable
  <2>5. CASE SpuriousAvailable
    BY <2>5, NextProbe, NbWorkersAssumption DEF IInv, SpuriousAvailable
  <2>6. CASE DeliverStopped
    BY <2>6, NbWorkersAssumption DEF IInv, DeliverStopped
  <2>7. CASE BuildFails
    BY <2>7, NextProbe, NbWorkersAssumption DEF IInv, BuildFails
  <2>8. CASE SetDone
    BY <2>8, NbWorkersAssumption DEF IInv, SetDone
  <2>9. CASE Return
    BY <2>9, NextProbe, NbWorkersAssumption DEF IInv, Return
  <2> QED
    BY <2>1, <2>2, <2>3, <2>4, <2>5, <2>6, <2>7, <2>8, <2>9
<1>3. ProducerInv'
  BY DEF NoBatch, ProbeFree, ProbeBusy, WaitAvailable, SpuriousAvailable,
         DeliverStopped, BuildFails, SetDone, Return, IInv, TypeOK, ProducerInv,
         Handing, shared, consumers
<1>4. should_stop => should_stop'
  BY DEF NoBatch, ProbeFree, ProbeBusy, WaitAvailable, SpuriousAvailable,
         DeliverStopped, BuildFails, SetDone, Return, shared
<1>7. done_producing => done_producing'
  BY DEF NoBatch, ProbeFree, ProbeBusy, WaitAvailable, SpuriousAvailable,
         DeliverStopped, BuildFails, SetDone, Return, shared
<1>5. (Failing => Failing') /\ EndInv'
  BY <1>1, <1>4, <1>7 DEF IInv, EndInv, Failing, consumers
<1>6. OrderInv' /\ GivenInv'
  BY <1>1, <1>2, <1>5, ControlFrame DEF consumers
<1> QED
  BY <1>1, <1>2, <1>3, <1>5, <1>6 DEF IInv, SuccessMeansAll

\* cleanup_producer_consumers wakes the workers up one after the other.
LEMMA WakeStep ==
    ASSUME IInv, Wake
    PROVE  IInv'
<1>1. /\ UNCHANGED <<given, acked, list, node, batch, batch_id, shared>>
      /\ pp' \notin {"next", "exited"} /\ probe \in Worker
      /\ cp' = [cp EXCEPT ![probe] = IF @ = "waiting" THEN "check" ELSE @]
  BY DEF Wake, SignalList, IInv, TypeOK
<1>2. TypeOK'
  BY NextProbe DEF IInv, TypeOK, Wake, SignalList, shared
<1>3. ProducerInv'
  BY DEF IInv, ProducerInv, Wake, Handing, shared
<1>4. \A w \in Worker : cp'[w] # cp[w] => cp[w] = "waiting" /\ cp'[w] = "check"
  BY <1>1 DEF IInv, TypeOK
<1>5. (Failing => Failing') /\ (Failing' => Failing) /\ EndInv'
  BY <1>1, <1>4 DEF IInv, EndInv, Failing, shared
<1>6. OrderInv' /\ GivenInv'
  BY <1>1, <1>2, <1>4, <1>5, ControlFrame
<1> QED
  BY <1>1, <1>2, <1>3, <1>5, <1>6 DEF IInv, SuccessMeansAll

\* When every worker has ended without a failure, all that was read is
\* acknowledged.
LEMMA JoinStep ==
    ASSUME IInv, Join
    PROVE  IInv'
<1>1. UNCHANGED <<given, consumers, batch, batch_id, shared>> /\ pp = "join" /\ pp' = "exited"
  BY DEF Join
<1>2. TypeOK'
  BY DEF IInv, TypeOK, Join, shared, consumers
<1>3. ProducerInv'
  BY <1>1 DEF IInv, ProducerInv, Join, Handing, shared, consumers
<1>4. EndInv' /\ (Failing <=> Failing')
  BY <1>1 DEF IInv, EndInv, Failing, shared, consumers
<1>5. OrderInv' /\ GivenInv'
  BY <1>1, <1>2, <1>4, ControlFrame DEF consumers
<1>6. SinkFailuresAreErrors => SuccessMeansAll'
  <2> SUFFICES ASSUME SinkFailuresAreErrors, rc' = 0, NEW g \in given
               PROVE  Acknowledged(g[1], g[2])'
    BY <1>1 DEF SuccessMeansAll
  <2>1. ~should_stop /\ \A w \in Worker : cp[w] = "ended"
    BY DEF Join, IInv, TypeOK
  <2>2. ~Failing /\ g[1] \in Worker
    BY <2>1 DEF Failing, IInv, TypeOK
  <2>3. list[g[1]] = <<>> /\ cp[g[1]] = "ended" /\ batch = {}
    BY <1>1, <2>1, <2>2 DEF IInv, EndInv, ProducerInv, Handing
  <2>4. Somewhere(g[1], g[2])
    BY <2>2 DEF IInv, GivenInv
  <2>5. Acknowledged(g[1], g[2])
    BY <2>3, <2>4 DEF Somewhere, Listed, Working
  <2> QED
    BY <1>1, <2>5 DEF Acknowledged, consumers
<1> QED
  BY <1>2, <1>3, <1>4, <1>5, <1>6 DEF IInv

-----------------------------------------------------------------------------
(* The steps of a worker that move no sub-batch.                           *)

\* A worker that still runs shows that nobody has joined the workers.
LEMMA Running ==
    ASSUME IInv, NEW w \in Worker, cp[w] # "ended"
    PROVE  pp # "exited"
BY DEF IInv, ProducerInv

\* A worker's step of the wait loop: it leaves the flags alone.
LEMMA WaitStep ==
    ASSUME IInv, NEW w \in Worker,
           \/ Continue(w) \/ NothingYet(w) \/ WaitList(w) \/ SpuriousList(w)
           \/ NoMoreWork(w) \/ LoopEnds(w)
    PROVE  IInv'
<1>1. /\ UNCHANGED <<given, acked, list, node, batch, batch_id, pp, probe, shared, missed,
                     errno, rc>>
      /\ cp[w] \in {"top", "check", "to_wait", "waiting"}
      /\ \E to \in {"signal", "check", "to_wait", "waiting", "ended", "shutdown"} :
            /\ cp' = [cp EXCEPT ![w] = to]
            /\ to = "shutdown" => should_stop
            /\ to = "ended" => should_stop \/ (list[w] = <<>> /\ done_producing)
      /\ working' \in {working, [working EXCEPT ![w] = FALSE]}
  BY DEF Continue, NothingYet, WaitList, SpuriousList, NoMoreWork, LoopEnds, Goto,
         producer
<1>2. TypeOK'
  <2>1. working' \in [Worker -> BOOLEAN]
    BY <1>1 DEF IInv, TypeOK
  <2>2. cp' \in [Worker -> {"top", "signal", "check", "to_wait", "waiting",
                            "process", "shutdown", "signal_shutdown", "ended"}]
    BY <1>1 DEF IInv, TypeOK
  <2>3. done_producing' = done_producing /\ should_stop' = should_stop
    BY <1>1 DEF shared
  <2> QED
    BY <1>1, <2>1, <2>2, <2>3 DEF IInv, TypeOK
<1>3. pp # "exited"
  BY <1>1, Running
<1>4. ProducerInv'
  BY <1>1, <1>3 DEF IInv, ProducerInv, Handing, shared
<1>5. /\ cp'[w] # "process" /\ cp'[w] # "signal_shutdown"
      /\ cp'[w] = "shutdown" => should_stop
      /\ cp'[w] = "ended" => should_stop \/ (list[w] = <<>> /\ done_producing)
      /\ \A v \in Worker \ {w} : cp'[v] = cp[v]
  BY <1>1 DEF IInv, TypeOK
<1>6. (Failing <=> Failing') /\ EndInv'
  BY <1>1, <1>5 DEF IInv, EndInv, Failing, shared
<1>7. OrderInv' /\ GivenInv'
  BY <1>1, <1>2, <1>5, <1>6, ControlFrame
<1> QED
  BY <1>1, <1>2, <1>3, <1>4, <1>6, <1>7 DEF IInv, SuccessMeansAll

\* What a signal of signal_available_for_work may do to the producer.
LEMMA SignalProducer ==
    ASSUME IInv, SignalAvailable
    PROVE  /\ pp' \in {"next", "check", "to_wait", "waiting", "deliver", "end",
                       "return", "wake", "join", "exited"}
           /\ probe' \in Worker
           /\ missed' \subseteq Worker \cup {Producer}
           /\ pp' # pp => pp = "waiting" /\ pp' = "check"
<1>1. 0 \in Worker
  BY NbWorkersAssumption DEF Worker
<1> QED
  BY <1>1 DEF SignalAvailable, IInv, TypeOK

\* A worker that signals the producer, because it is available again or because
\* it failed.
LEMMA SignalStep ==
    ASSUME IInv, NEW w \in Worker, SignalWork(w) \/ SignalStop(w)
    PROVE  IInv'
<1>1. /\ UNCHANGED <<given, acked, list, node, batch, batch_id, shared, working, errno, rc>>
      /\ SignalAvailable
      /\ \/ cp[w] = "signal" /\ cp' = [cp EXCEPT ![w] = "check"]
         \/ cp[w] = "signal_shutdown" /\ cp' = [cp EXCEPT ![w] = "ended"]
  BY DEF SignalWork, SignalStop, Goto
<1>2. TypeOK'
  BY <1>1, SignalProducer DEF IInv, TypeOK, shared
<1>3. pp # "exited" /\ (pp' # pp => pp = "waiting" /\ pp' = "check")
  BY <1>1, Running, SignalProducer
<1>4. ProducerInv'
  BY <1>1, <1>3 DEF IInv, ProducerInv, Handing, shared
<1>5. /\ cp'[w] \in {"check", "ended"} /\ cp[w] # "shutdown" /\ cp[w] # "process"
      /\ cp'[w] = "ended" => should_stop
      /\ \A v \in Worker \ {w} : cp'[v] = cp[v]
  BY <1>1 DEF IInv, TypeOK, EndInv
<1>6. (Failing <=> Failing') /\ EndInv'
  BY <1>1, <1>5 DEF IInv, EndInv, Failing, shared
<1>7. OrderInv' /\ GivenInv'
  BY <1>1, <1>2, <1>3, <1>5, <1>6, ControlFrame
<1> QED
  BY <1>1, <1>2, <1>3, <1>4, <1>6, <1>7 DEF IInv, SuccessMeansAll

\* A worker whose sink fails is on its way to set should_stop, and then sets it,
\* unless errno is ENODATA.
LEMMA FailStep ==
    ASSUME IInv, NEW w \in Worker,
           ProcessFails(w) \/ StoreStop(w)
    PROVE  IInv'
<1>1. /\ UNCHANGED <<given, acked, list, node, batch, batch_id, pp, probe, done_producing,
                     working, errno, rc, missed>>
      /\ \/ /\ cp[w] = "process" /\ cp' = [cp EXCEPT ![w] = "shutdown"]
            /\ should_stop' = should_stop
         \/ /\ cp[w] = "process" /\ cp' = [cp EXCEPT ![w] = "ended"]
            /\ should_stop' = should_stop /\ ~SinkFailuresAreErrors
         \/ /\ cp[w] = "shutdown" /\ cp' = [cp EXCEPT ![w] = "signal_shutdown"]
            /\ should_stop'
  BY SinkErrnoAssumption
     DEF ProcessFails, StoreStop, Goto, shared, producer, SinkFailuresAreErrors
<1>2. TypeOK'
  BY DEF IInv, TypeOK, ProcessFails, StoreStop, Goto, shared, producer
<1>3. pp # "exited"
  BY <1>1, Running
<1>4. ProducerInv'
  BY <1>1, <1>3 DEF IInv, ProducerInv, Handing
<1>5. /\ \/ cp'[w] = "shutdown"
         \/ cp'[w] = "signal_shutdown" /\ should_stop'
         \/ cp'[w] = "ended" /\ ~SinkFailuresAreErrors
      /\ \A v \in Worker \ {w} : cp'[v] = cp[v]
  BY <1>1 DEF IInv, TypeOK
<1>6. Failing' /\ EndInv'
  BY <1>1, <1>5 DEF IInv, EndInv, Failing
<1>7. OrderInv' /\ GivenInv'
  BY <1>1, <1>2, <1>5, <1>6, ControlFrame
<1> QED
  BY <1>1, <1>2, <1>3, <1>4, <1>6, <1>7 DEF IInv, SuccessMeansAll

-----------------------------------------------------------------------------
(* The steps that move sub-batches.                                        *)

\* The source gives a batch: its sub-batches are still with the producer.
LEMMA NextBatchStep ==
    ASSUME IInv, NEW subs \in SUBSET Worker \ {{}}, NextBatch(subs)
    PROVE  IInv'
<1>1. /\ UNCHANGED <<missed, batch_id, errno, rc, done_producing, should_stop, cp, list,
                     node, working, acked>>
      /\ pp = "next" /\ pp' = "check" /\ probe' = 0 /\ batch' = subs /\ batch = {}
      /\ batch_id \in 1 .. MaxBatches
      /\ given' = given \cup {<<w, batch_id>> : w \in subs}
  BY MaxBatchesAssumption DEF NextBatch, shared, consumers, IInv, TypeOK, ProducerInv
<1>2. TypeOK'
  <2>1. 0 \in Worker
    BY NbWorkersAssumption DEF Worker
  <2>2. given' \subseteq Worker \X (1 .. MaxBatches)
    BY <1>1 DEF IInv, TypeOK
  <2> QED
    BY <1>1, <2>1, <2>2 DEF IInv, TypeOK
<1>3. ProducerInv'
  BY <1>1 DEF IInv, ProducerInv, Handing
<1>4. (Failing <=> Failing') /\ EndInv'
  BY <1>1 DEF IInv, EndInv, Failing
<1>5. OrderInv'
  <2>1. \A w \in Worker : LastOf(w) <= LastOf(w)' /\ LastOf(w)' \in Int
    BY <1>1 DEF LastOf
  <2> QED
    BY <1>1, <2>1, OrderFrame DEF IInv
<1>6. GivenInv'
  <2> SUFFICES ASSUME ~Failing', NEW g \in given'
               PROVE  Somewhere(g[1], g[2])'
    BY DEF GivenInv
  <2>1. CASE g \in given
    <3>1. Somewhere(g[1], g[2])
      BY <1>4, <2>1 DEF IInv, GivenInv
    <3> QED
      BY <1>1, <3>1 DEF Somewhere, Acknowledged, Listed, Working
  <2>2. CASE g \notin given
    BY <1>1, <2>2 DEF Somewhere
  <2> QED
    BY <2>1, <2>2
<1> QED
  BY <1>1, <1>2, <1>3, <1>4, <1>5, <1>6 DEF IInv, SuccessMeansAll

\* All the sub-batches of a batch are handed out.
LEMMA DeliveredStep ==
    ASSUME IInv, Delivered
    PROVE  IInv'
<1>1. /\ UNCHANGED <<missed, probe, batch, errno, rc, given, done_producing, should_stop,
                     cp, list, node, working, acked>>
      /\ pp = "deliver" /\ pp' = "next" /\ batch = {} /\ batch_id' = batch_id + 1
      /\ batch_id \in 1 .. MaxBatches
  BY MaxBatchesAssumption DEF Delivered, shared, consumers, IInv, TypeOK, ProducerInv, Handing
<1>2. TypeOK'
  BY <1>1, MaxBatchesAssumption DEF IInv, TypeOK
<1>3. ProducerInv'
  BY <1>1 DEF IInv, ProducerInv, Handing
<1>4. (Failing <=> Failing') /\ EndInv'
  BY <1>1 DEF IInv, EndInv, Failing
<1>5. OrderInv'
  <2>1. \A w \in Worker : LastOf(w) <= LastOf(w)' /\ LastOf(w)' \in Int
    BY <1>1 DEF LastOf
  <2> QED
    BY <1>1, <2>1, OrderFrame DEF IInv
<1>6. GivenInv'
  BY <1>1, <1>4 DEF IInv, GivenInv, Somewhere, Acknowledged, Listed, Working
<1> QED
  BY <1>1, <1>2, <1>3, <1>4, <1>5, <1>6 DEF IInv, SuccessMeansAll

\* A sub-batch handed to w goes to the end of its list, after every batch that w
\* was given before.
LEMMA DeliverStep ==
    ASSUME IInv, NEW w \in Worker, Deliver(w)
    PROVE  IInv'
<1> DEFINE q == list[w]
<1>1. /\ UNCHANGED <<pp, probe, batch_id, errno, rc, given, done_producing, should_stop,
                     node, working, acked>>
      /\ pp = "deliver" /\ ~should_stop /\ w \in batch /\ batch' = batch \ {w}
      /\ batch_id \in 1 .. MaxBatches
      /\ list' = [list EXCEPT ![w] = Append(q, batch_id)]
      /\ SignalList(w)
  BY MaxBatchesAssumption
     DEF Deliver, NextSub, shared, IInv, TypeOK, ProducerInv, Handing
<1>2. q \in Seq(1 .. MaxBatches)
  BY DEF IInv, TypeOK
<1> HIDE DEF q
<1>3. /\ Append(q, batch_id) \in Seq(1 .. MaxBatches)
      /\ Len(q) \in Nat /\ Len(Append(q, batch_id)) = Len(q) + 1
      /\ Append(q, batch_id)[Len(q) + 1] = batch_id
      /\ \A n \in 1 .. Len(q) : Append(q, batch_id)[n] = q[n] /\ q[n] \in 1 .. MaxBatches
  BY <1>1, <1>2, AppendFacts
<1>4. TypeOK'
  <2>1. list' \in [Worker -> Seq(1 .. MaxBatches)]
    BY <1>1, <1>3 DEF IInv, TypeOK
  <2> QED
    BY <1>1, <2>1 DEF IInv, TypeOK, SignalList
<1>5. \A v \in Worker : cp'[v] # cp[v] => cp[v] = "waiting" /\ cp'[v] = "check"
  BY <1>1 DEF IInv, TypeOK, SignalList
<1>6. ProducerInv'
  BY <1>1 DEF IInv, ProducerInv, Handing
<1>7. /\ list'[w] = Append(q, batch_id)
      /\ \A v \in Worker \ {w} : list'[v] = list[v]
  BY <1>1 DEF IInv, TypeOK
<1>8. (Failing <=> Failing') /\ EndInv'
  BY <1>1, <1>5, <1>7 DEF IInv, EndInv, Failing, ProducerInv
<1>9. OrderInv'
  <2> SUFFICES ASSUME NEW v \in Worker
               PROVE  /\ \A m, n \in 1 .. Len(acked[v]) : m < n => acked[v][m] < acked[v][n]
                      /\ \A m, n \in 1 .. Len(list'[v]) : m < n => list'[v][m] < list'[v][n]
                      /\ \A m \in 1 .. Len(acked[v]) : \A n \in 1 .. Len(list'[v]) :
                            acked[v][m] < list'[v][n]
                      /\ Working(v)' =>
                            /\ node[v] \in 1 .. LastOf(v)'
                            /\ \A m \in 1 .. Len(acked[v]) : acked[v][m] < node[v]
                            /\ \A n \in 1 .. Len(list'[v]) : node[v] < list'[v][n]
                      /\ \A m \in 1 .. Len(acked[v]) : acked[v][m] <= LastOf(v)'
                      /\ \A n \in 1 .. Len(list'[v]) : list'[v][n] <= LastOf(v)'
    BY <1>1 DEF OrderInv
  <2>1. Working(v)' => Working(v)
    BY <1>5 DEF Working
  <2>2. CASE v # w
    <3>1. LastOf(v)' = LastOf(v) /\ list'[v] = list[v]
      BY <1>1, <1>7, <2>2 DEF LastOf
    <3> QED
      BY <2>1, <3>1 DEF IInv, OrderInv
  <2>3. CASE v = w
    <3>1. LastOf(w) = batch_id - 1 /\ LastOf(w)' = batch_id
      BY <1>1 DEF LastOf
    <3>2. /\ \A m, n \in 1 .. Len(acked[w]) : m < n => acked[w][m] < acked[w][n]
          /\ \A m, n \in 1 .. Len(q) : m < n => q[m] < q[n]
          /\ \A m \in 1 .. Len(acked[w]) : \A n \in 1 .. Len(q) : acked[w][m] < q[n]
          /\ Working(w) =>
                /\ node[w] \in 1 .. batch_id - 1
                /\ \A m \in 1 .. Len(acked[w]) : acked[w][m] < node[w]
                /\ \A n \in 1 .. Len(q) : node[w] < q[n]
          /\ \A m \in 1 .. Len(acked[w]) : acked[w][m] <= batch_id - 1
          /\ \A n \in 1 .. Len(q) : q[n] <= batch_id - 1
      BY <3>1 DEF IInv, OrderInv, q
    <3>3. /\ \A m \in 1 .. Len(acked[w]) : acked[w][m] \in 1 .. MaxBatches
          /\ node[w] \in Int
      BY Numbers, MaxBatchesAssumption DEF IInv
    <3>4. \A n \in 1 .. Len(list'[w]) :
             \/ n \in 1 .. Len(q) /\ list'[w][n] = q[n]
             \/ n = Len(q) + 1 /\ list'[w][n] = batch_id
      BY <1>3, <1>7
    <3>5. \A m, n \in 1 .. Len(list'[w]) : m < n => list'[w][m] < list'[w][n]
      <4> SUFFICES ASSUME NEW m \in 1 .. Len(list'[w]), NEW n \in 1 .. Len(list'[w]), m < n
                   PROVE  list'[w][m] < list'[w][n]
        OBVIOUS
      <4>1. m \in 1 .. Len(q) /\ list'[w][m] = q[m] /\ q[m] \in 1 .. MaxBatches
        BY <1>3, <3>4
      <4>2. CASE n \in 1 .. Len(q) /\ list'[w][n] = q[n]
        BY <3>2, <4>1, <4>2
      <4>3. CASE list'[w][n] = batch_id
        <5>1. q[m] <= batch_id - 1
          BY <3>2, <4>1
        <5> QED
          BY <1>1, <4>1, <4>3, <5>1, MaxBatchesAssumption
      <4> QED
        BY <3>4, <4>2, <4>3
    <3>6. \A m \in 1 .. Len(acked[w]) : \A n \in 1 .. Len(list'[w]) :
             acked[w][m] < list'[w][n]
      <4> SUFFICES ASSUME NEW m \in 1 .. Len(acked[w]), NEW n \in 1 .. Len(list'[w])
                   PROVE  acked[w][m] < list'[w][n]
        OBVIOUS
      <4>1. acked[w][m] \in Int /\ acked[w][m] <= batch_id - 1
        BY <3>2, <3>3
      <4>2. CASE n \in 1 .. Len(q) /\ list'[w][n] = q[n]
        BY <3>2, <4>2
      <4>3. CASE list'[w][n] = batch_id
        BY <1>1, <4>1, <4>3, MaxBatchesAssumption
      <4> QED
        BY <3>4, <4>2, <4>3
    <3>7. Working(w)' =>
             /\ node[w] \in 1 .. batch_id
             /\ \A m \in 1 .. Len(acked[w]) : acked[w][m] < node[w]
             /\ \A n \in 1 .. Len(list'[w]) : node[w] < list'[w][n]
      <4> SUFFICES ASSUME Working(w)'
                   PROVE  /\ node[w] \in 1 .. batch_id
                          /\ \A m \in 1 .. Len(acked[w]) : acked[w][m] < node[w]
                          /\ \A n \in 1 .. Len(list'[w]) : node[w] < list'[w][n]
        OBVIOUS
      <4>1. /\ node[w] \in 1 .. batch_id - 1
            /\ \A m \in 1 .. Len(acked[w]) : acked[w][m] < node[w]
            /\ \A n \in 1 .. Len(q) : node[w] < q[n]
        BY <2>1, <2>3, <3>2
      <4>2. node[w] \in 1 .. batch_id /\ node[w] < batch_id
        BY <1>1, <3>3, <4>1, MaxBatchesAssumption
      <4>3. ASSUME NEW n \in 1 .. Len(list'[w]) PROVE node[w] < list'[w][n]
        BY <3>4, <4>1, <4>2
      <4> QED
        BY <4>1, <4>2, <4>3
    <3>8. /\ \A m \in 1 .. Len(acked[w]) : acked[w][m] <= batch_id
          /\ \A n \in 1 .. Len(list'[w]) : list'[w][n] <= batch_id
      BY <1>1, <1>3, <3>2, <3>3, <3>4
    <3> QED
      BY <2>3, <3>1, <3>2, <3>5, <3>6, <3>7, <3>8
  <2> QED
    BY <2>2, <2>3
<1>10. GivenInv'
  <2> SUFFICES ASSUME ~Failing', NEW g \in given
               PROVE  Somewhere(g[1], g[2])'
    BY <1>1 DEF GivenInv
  <2>1. Somewhere(g[1], g[2]) /\ g[1] \in Worker
    BY <1>8 DEF IInv, GivenInv, TypeOK
  <2>2. CASE g[1] = w /\ g[2] = batch_id
    <3>1. Len(q) + 1 \in 1 .. Len(list'[w]) /\ list'[w][Len(q) + 1] = batch_id
      BY <1>3, <1>7
    <3>2. Listed(w, batch_id)'
      BY <1>1, <3>1 DEF Listed
    <3> QED
      BY <1>1, <2>2, <3>2 DEF Somewhere
  <2>3. CASE Listed(g[1], g[2])
    <3>1. Listed(g[1], g[2])'
      <4>1. CASE g[1] = w
        <5>1. PICK n \in 1 .. Len(q) : q[n] = g[2]
          BY <2>3, <4>1 DEF Listed, q
        <5>2. n \in 1 .. Len(list'[w]) /\ list'[w][n] = g[2]
          BY <1>3, <1>7, <5>1
        <5> QED
          BY <4>1, <5>2 DEF Listed
      <4>2. CASE g[1] # w
        BY <1>7, <2>1, <2>3, <4>2 DEF Listed
      <4> QED
        BY <4>1, <4>2
    <3> QED
      BY <3>1 DEF Somewhere
  <2>4. CASE ~Listed(g[1], g[2]) /\ ~(g[1] = w /\ g[2] = batch_id)
    BY <1>1, <1>5, <2>1, <2>4 DEF Somewhere, Acknowledged, Working
  <2> QED
    BY <2>2, <2>3, <2>4
<1> QED
  BY <1>1, <1>4, <1>6, <1>8, <1>9, <1>10 DEF IInv, SuccessMeansAll

\* A worker takes the oldest sub-batch of its list.
LEMMA TakeWorkStep ==
    ASSUME IInv, NEW w \in Worker, TakeWork(w)
    PROVE  IInv'
<1> DEFINE q == list[w]
<1>1. /\ UNCHANGED <<missed, pp, probe, batch_id, batch, errno, rc, given, done_producing,
                     should_stop, acked>>
      /\ cp[w] = "check" /\ ~should_stop /\ q # <<>>
      /\ working' = [working EXCEPT ![w] = TRUE]
      /\ node' = [node EXCEPT ![w] = Head(q)]
      /\ list' = [list EXCEPT ![w] = Tail(q)]
      /\ cp' = [cp EXCEPT ![w] = "process"]
  BY DEF TakeWork, producer, shared, Goto
<1>2. q \in Seq(1 .. MaxBatches)
  BY DEF IInv, TypeOK
<1> HIDE DEF q
<1>3. /\ Len(q) \in Nat /\ Len(q) >= 1
      /\ Head(q) = q[1] /\ Head(q) \in 1 .. MaxBatches
      /\ Tail(q) \in Seq(1 .. MaxBatches) /\ Len(Tail(q)) = Len(q) - 1
      /\ \A n \in 1 .. Len(q) : q[n] \in 1 .. MaxBatches
      /\ \A n \in 1 .. Len(q) - 1 : Tail(q)[n] = q[n + 1]
  BY <1>1, <1>2, TailFacts
<1>4. TypeOK'
  <2>1. list' \in [Worker -> Seq(1 .. MaxBatches)]
    BY <1>1, <1>3 DEF IInv, TypeOK
  <2>2. node' \in [Worker -> 0 .. MaxBatches]
    <3>1. Head(q) \in 0 .. MaxBatches
      BY <1>3, MaxBatchesAssumption
    <3> QED
      BY <1>1, <3>1 DEF IInv, TypeOK
  <2> QED
    BY <1>1, <2>1, <2>2 DEF IInv, TypeOK
<1>5. pp # "exited"
  BY <1>1, Running
<1>6. ProducerInv'
  BY <1>1, <1>5 DEF IInv, ProducerInv, Handing
<1>7. /\ list'[w] = Tail(q) /\ node'[w] = q[1] /\ cp'[w] = "process"
      /\ \A v \in Worker \ {w} : list'[v] = list[v] /\ node'[v] = node[v] /\ cp'[v] = cp[v]
  BY <1>1, <1>3 DEF IInv, TypeOK
<1>8. (Failing <=> Failing') /\ EndInv'
  BY <1>1, <1>7 DEF IInv, EndInv, Failing
<1>9. OrderInv'
  <2> SUFFICES ASSUME NEW v \in Worker
               PROVE  /\ \A m, n \in 1 .. Len(acked[v]) : m < n => acked[v][m] < acked[v][n]
                      /\ \A m, n \in 1 .. Len(list'[v]) : m < n => list'[v][m] < list'[v][n]
                      /\ \A m \in 1 .. Len(acked[v]) : \A n \in 1 .. Len(list'[v]) :
                            acked[v][m] < list'[v][n]
                      /\ Working(v)' =>
                            /\ node'[v] \in 1 .. LastOf(v)
                            /\ \A m \in 1 .. Len(acked[v]) : acked[v][m] < node'[v]
                            /\ \A n \in 1 .. Len(list'[v]) : node'[v] < list'[v][n]
                      /\ \A m \in 1 .. Len(acked[v]) : acked[v][m] <= LastOf(v)
                      /\ \A n \in 1 .. Len(list'[v]) : list'[v][n] <= LastOf(v)
    BY <1>1 DEF OrderInv, LastOf
  <2>1. CASE v # w
    <3>1. list'[v] = list[v] /\ node'[v] = node[v] /\ (Working(v)' <=> Working(v))
      BY <1>7, <2>1 DEF Working
    <3> QED
      BY <3>1 DEF IInv, OrderInv
  <2>2. CASE v = w
    <3>1. /\ \A m, n \in 1 .. Len(acked[w]) : m < n => acked[w][m] < acked[w][n]
          /\ \A m, n \in 1 .. Len(q) : m < n => q[m] < q[n]
          /\ \A m \in 1 .. Len(acked[w]) : \A n \in 1 .. Len(q) : acked[w][m] < q[n]
          /\ \A m \in 1 .. Len(acked[w]) : acked[w][m] <= LastOf(w)
          /\ \A n \in 1 .. Len(q) : q[n] <= LastOf(w)
      BY DEF IInv, OrderInv, q
    <3>2. \A n \in 1 .. Len(list'[w]) :
             n + 1 \in 1 .. Len(q) /\ 1 < n + 1 /\ list'[w][n] = q[n + 1]
      BY <1>3, <1>7
    <3>3. 1 \in 1 .. Len(q) /\ LastOf(w) \in Int
      BY <1>3, Numbers DEF IInv
    <3>4. \A m, n \in 1 .. Len(list'[w]) : m < n => list'[w][m] < list'[w][n]
      BY <3>1, <3>2
    <3>5. \A m \in 1 .. Len(acked[w]) : \A n \in 1 .. Len(list'[w]) :
             acked[w][m] < list'[w][n]
      BY <3>1, <3>2
    <3>6. node'[w] \in 1 .. LastOf(w)
      <4>1. q[1] \in 1 .. MaxBatches /\ q[1] <= LastOf(w)
        BY <1>3, <3>1, <3>3
      <4> QED
        BY <1>7, <3>3, <4>1
    <3>7. /\ \A m \in 1 .. Len(acked[w]) : acked[w][m] < node'[w]
          /\ \A n \in 1 .. Len(list'[w]) : node'[w] < list'[w][n]
      BY <1>7, <3>1, <3>2, <3>3
    <3>8. \A n \in 1 .. Len(list'[w]) : list'[w][n] <= LastOf(w)
      BY <3>1, <3>2
    <3> QED
      BY <2>2, <3>1, <3>4, <3>5, <3>6, <3>7, <3>8
  <2> QED
    BY <2>1, <2>2
<1>10. GivenInv'
  <2> SUFFICES ASSUME ~Failing', NEW g \in given
               PROVE  Somewhere(g[1], g[2])'
    BY <1>1 DEF GivenInv
  <2>1. Somewhere(g[1], g[2]) /\ g[1] \in Worker
    BY <1>8 DEF IInv, GivenInv, TypeOK
  <2>2. CASE g[1] # w
    BY <1>1, <1>7, <2>1, <2>2 DEF Somewhere, Acknowledged, Listed, Working
  <2>3. CASE g[1] = w /\ Listed(w, g[2])
    <3>1. PICK n \in 1 .. Len(q) : q[n] = g[2]
      BY <2>3 DEF Listed, q
    <3>2. CASE n = 1
      BY <1>7, <2>3, <3>1, <3>2 DEF Somewhere, Working
    <3>3. CASE n # 1
      <4>1. n - 1 \in 1 .. Len(list'[w]) /\ list'[w][n - 1] = g[2]
        BY <1>3, <1>7, <3>1, <3>3
      <4> QED
        BY <2>3, <4>1 DEF Somewhere, Listed
    <3> QED
      BY <3>2, <3>3
  <2>4. CASE g[1] = w /\ ~Listed(w, g[2])
    BY <1>1, <2>1, <2>4 DEF Somewhere, Acknowledged, Working
  <2> QED
    BY <2>2, <2>3, <2>4
<1> QED
  BY <1>1, <1>4, <1>5, <1>6, <1>8, <1>9, <1>10 DEF IInv, SuccessMeansAll

\* A worker acknowledges the sub-batch it works on.
LEMMA ProcessedStep ==
    ASSUME IInv, NEW w \in Worker, Processed(w)
    PROVE  IInv'
<1> DEFINE q == acked[w]
<1>1. /\ UNCHANGED <<missed, pp, probe, batch_id, batch, errno, rc, given, done_producing,
                     should_stop, list, node, working>>
      /\ cp[w] = "process"
      /\ acked' = [acked EXCEPT ![w] = Append(q, node[w])]
      /\ cp' = [cp EXCEPT ![w] = "top"]
  BY DEF Processed, producer, shared, Goto
<1>2. /\ q \in Seq(1 .. MaxBatches) /\ node[w] \in 1 .. LastOf(w) /\ LastOf(w) \in Int
      /\ node[w] \in 1 .. MaxBatches
  <2>1. q \in Seq(1 .. MaxBatches) /\ node[w] \in 1 .. LastOf(w) /\ LastOf(w) \in Int
        /\ node[w] \in 0 .. MaxBatches
    BY <1>1, Numbers DEF IInv, OrderInv, Working
  <2> QED
    BY <2>1, MaxBatchesAssumption
<1> HIDE DEF q
<1>3. /\ Append(q, node[w]) \in Seq(1 .. MaxBatches)
      /\ Len(q) \in Nat /\ Len(Append(q, node[w])) = Len(q) + 1
      /\ Append(q, node[w])[Len(q) + 1] = node[w]
      /\ \A n \in 1 .. Len(q) : Append(q, node[w])[n] = q[n] /\ q[n] \in 1 .. MaxBatches
  BY <1>2, AppendFacts
<1>4. TypeOK'
  <2>1. acked' \in [Worker -> Seq(1 .. MaxBatches)]
    BY <1>1, <1>3 DEF IInv, TypeOK
  <2> QED
    BY <1>1, <2>1 DEF IInv, TypeOK
<1>5. pp # "exited"
  BY <1>1, Running
<1>6. ProducerInv'
  BY <1>1, <1>5 DEF IInv, ProducerInv, Handing
<1>7. /\ acked'[w] = Append(q, node[w]) /\ cp'[w] = "top"
      /\ \A v \in Worker \ {w} : acked'[v] = acked[v] /\ cp'[v] = cp[v]
  BY <1>1 DEF IInv, TypeOK
<1>8. (Failing <=> Failing') /\ EndInv'
  BY <1>1, <1>7 DEF IInv, EndInv, Failing
<1>9. OrderInv'
  <2> SUFFICES ASSUME NEW v \in Worker
               PROVE  /\ \A m, n \in 1 .. Len(acked'[v]) : m < n => acked'[v][m] < acked'[v][n]
                      /\ \A m, n \in 1 .. Len(list[v]) : m < n => list[v][m] < list[v][n]
                      /\ \A m \in 1 .. Len(acked'[v]) : \A n \in 1 .. Len(list[v]) :
                            acked'[v][m] < list[v][n]
                      /\ Working(v)' =>
                            /\ node[v] \in 1 .. LastOf(v)
                            /\ \A m \in 1 .. Len(acked'[v]) : acked'[v][m] < node[v]
                            /\ \A n \in 1 .. Len(list[v]) : node[v] < list[v][n]
                      /\ \A m \in 1 .. Len(acked'[v]) : acked'[v][m] <= LastOf(v)
                      /\ \A n \in 1 .. Len(list[v]) : list[v][n] <= LastOf(v)
    BY <1>1 DEF OrderInv, LastOf
  <2>1. CASE v # w
    <3>1. acked'[v] = acked[v] /\ (Working(v)' <=> Working(v))
      BY <1>7, <2>1 DEF Working
    <3> QED
      BY <3>1 DEF IInv, OrderInv
  <2>2. CASE v = w
    <3>1. /\ \A m, n \in 1 .. Len(q) : m < n => q[m] < q[n]
          /\ \A m, n \in 1 .. Len(list[w]) : m < n => list[w][m] < list[w][n]
          /\ \A m \in 1 .. Len(q) : \A n \in 1 .. Len(list[w]) : q[m] < list[w][n]
          /\ \A m \in 1 .. Len(q) : q[m] < node[w]
          /\ \A n \in 1 .. Len(list[w]) : node[w] < list[w][n]
          /\ \A m \in 1 .. Len(q) : q[m] <= LastOf(w)
          /\ \A n \in 1 .. Len(list[w]) : list[w][n] <= LastOf(w)
      BY <1>1 DEF IInv, OrderInv, q, Working
    <3>2. \A n \in 1 .. Len(acked'[w]) :
             \/ n \in 1 .. Len(q) /\ acked'[w][n] = q[n]
             \/ n = Len(q) + 1 /\ acked'[w][n] = node[w]
      BY <1>3, <1>7
    <3>3. \A m, n \in 1 .. Len(acked'[w]) : m < n => acked'[w][m] < acked'[w][n]
      BY <1>3, <3>1, <3>2
    <3>4. \A m \in 1 .. Len(acked'[w]) : \A n \in 1 .. Len(list[w]) :
             acked'[w][m] < list[w][n]
      BY <3>1, <3>2
    <3>5. \A m \in 1 .. Len(acked'[w]) : acked'[w][m] <= LastOf(w)
      BY <1>2, <3>1, <3>2
    <3>6. ~Working(w)'
      BY <1>7 DEF Working
    <3> QED
      BY <2>2, <3>1, <3>3, <3>4, <3>5, <3>6
  <2> QED
    BY <2>1, <2>2
<1>10. GivenInv'
  <2> SUFFICES ASSUME ~Failing', NEW g \in given
               PROVE  Somewhere(g[1], g[2])'
    BY <1>1 DEF GivenInv
  <2>1. Somewhere(g[1], g[2]) /\ g[1] \in Worker
    BY <1>8 DEF IInv, GivenInv, TypeOK
  <2>2. CASE g[1] # w
    BY <1>1, <1>7, <2>1, <2>2 DEF Somewhere, Acknowledged, Listed, Working
  <2>3. CASE g[1] = w /\ node[w] = g[2]
    <3>1. Len(q) + 1 \in 1 .. Len(acked'[w]) /\ acked'[w][Len(q) + 1] = g[2]
      BY <1>3, <1>7, <2>3
    <3> QED
      BY <2>3, <3>1 DEF Somewhere, Acknowledged
  <2>4. CASE g[1] = w /\ Acknowledged(w, g[2])
    <3>1. PICK n \in 1 .. Len(q) : q[n] = g[2]
      BY <2>4 DEF Acknowledged, q
    <3>2. n \in 1 .. Len(acked'[w]) /\ acked'[w][n] = g[2]
      BY <1>3, <1>7, <3>1
    <3> QED
      BY <2>4, <3>2 DEF Somewhere, Acknowledged
  <2>5. CASE g[1] = w /\ node[w] # g[2] /\ ~Acknowledged(w, g[2])
    BY <1>1, <2>1, <2>5 DEF Somewhere, Listed
  <2> QED
    BY <2>2, <2>3, <2>4, <2>5
<1> QED
  BY <1>1, <1>4, <1>5, <1>6, <1>8, <1>9, <1>10 DEF IInv, SuccessMeansAll

-----------------------------------------------------------------------------
(* The theorems.                                                           *)

\* The first state satisfies the invariant: nothing is read, every list is
\* empty (main, init_consumers).
LEMMA InitInv ==
    ASSUME Init
    PROVE  IInv
<1>1. 0 \in Worker
  BY NbWorkersAssumption DEF Worker
<1>2. TypeOK
  <2>1. /\ list \in [Worker -> Seq(1 .. MaxBatches)]
        /\ acked \in [Worker -> Seq(1 .. MaxBatches)]
        /\ node \in [Worker -> 0 .. MaxBatches]
    BY MaxBatchesAssumption DEF Init
  <2> QED
    BY <1>1, <2>1, MaxBatchesAssumption DEF Init, TypeOK
<1>3. \A w \in Worker : Len(acked[w]) = 0 /\ Len(list[w]) = 0 /\ cp[w] = "top"
  BY DEF Init
<1>4. OrderInv
  BY <1>3 DEF OrderInv, Working
<1>5. ProducerInv /\ EndInv
  BY <1>3 DEF Init, ProducerInv, EndInv, Handing
<1>6. GivenInv /\ SuccessMeansAll
  BY DEF Init, GivenInv, SuccessMeansAll
<1> QED
  BY <1>2, <1>4, <1>5, <1>6 DEF IInv

\* Every step of every thread keeps the invariant.
LEMMA NextInv ==
    ASSUME IInv, [Next]_vars
    PROVE  IInv'
<1>1. CASE ProducerStep
  <2>1. ASSUME NEW subs \in SUBSET Worker \ {{}}, NextBatch(subs)
        PROVE  IInv'
    BY <2>1, NextBatchStep
  <2>2. ASSUME NEW w \in Worker, Deliver(w)
        PROVE  IInv'
    BY <2>2, DeliverStep
  <2> QED
    BY <1>1, <2>1, <2>2, ProducerControl, WakeStep, JoinStep, DeliveredStep
       DEF ProducerStep
<1>2. ASSUME NEW w \in Worker, ConsumerStep(w)
      PROVE  IInv'
  BY <1>2, WaitStep, SignalStep, FailStep, TakeWorkStep, ProcessedStep
     DEF ConsumerStep
<1>3. CASE SpuriousAvailable
  BY <1>3, ProducerControl
<1>4. ASSUME NEW w \in Worker, SpuriousList(w)
      PROVE  IInv'
  BY <1>4, WaitStep
<1>5. CASE UNCHANGED vars
  BY <1>5 DEF vars, producer, shared, consumers, IInv, TypeOK, ProducerInv, OrderInv,
     EndInv, GivenInv, SuccessMeansAll, Failing, Somewhere, Acknowledged, Listed, Working,
     LastOf
<1> QED
  BY <1>1, <1>2, <1>3, <1>4, <1>5 DEF Next, Finished

\* The invariant holds in every state, for any number of workers and batches.
LEMMA Invariance == Spec => []IInv
<1>1. Init => IInv
  BY InitInv
<1>2. IInv /\ [Next]_vars => IInv'
  BY NextInv
<1> QED
  BY <1>1, <1>2, PTL DEF Spec

\* Type correctness: the flags, the lists and what the threads do keep to their
\* types, and consumer_available_for_work never looks beyond the last worker.
THEOREM TypeCorrect == Spec => []TypeOK
<1>1. IInv => TypeOK
  BY DEF IInv
<1> QED
  BY <1>1, Invariance, PTL

\* Every worker acknowledges its sub-batches once each and in the order of the
\* batches, however the threads interleave and whoever fails.
THEOREM OrderKept == Spec => []AckedInOrder
<1>1. IInv => AckedInOrder
  BY DEF IInv, OrderInv, AckedInOrder
<1> QED
  BY <1>1, Invariance, PTL

\* When the failures of the sink are errors, rbh-fsevents exits with success only
\* once all that it read is processed and acknowledged.
THEOREM SuccessIsWhole ==
    ASSUME SinkFailuresAreErrors
    PROVE  Spec => []SuccessMeansAll
<1>1. IInv => SuccessMeansAll
  BY DEF IInv
<1> QED
  BY <1>1, Invariance, PTL
=============================================================================
