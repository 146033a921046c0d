----------------------------- MODULE LustreAck -----------------------------
(***************************************************************************)
(* rbh-fsevents reading a Lustre changelog with deduplication: the         *)
(* changelog iterator, the deduplicator's loop, the producer that hands    *)
(* sub-batches to the workers, the workers, and the acknowledgment of the  *)
(* changelogs, across crashes and restarts of rbh-fsevents.                *)
(*                                                                         *)
(* An fsevent is the pair <<i, k>>: the k-th fsevent built from changelog  *)
(* record i. log[i] is the sequence of the ids those fsevents are about,   *)
(* and is empty for the record types rbh-fsevents does not manage.  What   *)
(* deduplication does to the fsevents of one id is modelled in FsEventPool;*)
(* here a merged fsevent carries every fsevent it stands for, and an id    *)
(* whose fsevents cancel out leaves the pool.                              *)
(***************************************************************************)
EXTENDS BatchList, Sequences, FiniteSets

CONSTANTS Ids,           \* ids of file system entries
          NbWorkers,     \* --nb-workers
          Hash,          \* the worker of each id: hash_lu_id2index
          BatchSize,     \* --batch-size, the ids the pool can hold
          RecordKinds,   \* the sequences of ids a record may expand to
          MaxChangelog,  \* --max, 0 for no limit
          ReaderResumes, \* can llapi_changelog_recv give records after it
                         \* has reported the end (EOF or -EAGAIN)?
          MaxRecords,    \* bound: records the MDT logs
          MaxRuns        \* bound: times rbh-fsevents is started

Worker == 0 .. NbWorkers - 1

ASSUME WorkersAssumption == NbWorkers \in Nat \ {0}
ASSUME HashAssumption == Hash \in [Ids -> Worker]
ASSUME KindsAssumption == RecordKinds \subseteq Seq(Ids)
ASSUME SizeAssumption == BatchSize \in Nat \ {0} /\ MaxChangelog \in Nat
ASSUME ReaderAssumption == ReaderResumes \in BOOLEAN
ASSUME BoundsAssumption == MaxRecords \in Nat /\ MaxRuns \in Nat

VARIABLES
    log,        \* the MDT's changelog records, as sequences of ids
    purged,     \* the records the MDT may have dropped
    last_read,  \* fsevents_source.<mdt>.last_read in the sink, 0 if absent
    done,       \* fsevents the sink has stored, or that cancelled out
    runs,       \* times rbh-fsevents was started

    pc,         \* where the producer is
    cursor,     \* the next record llapi_changelog_recv looks at
    last_changelog_index,
    changelog_read,
    empty,
    fsevents_iterator,   \* fsevents of the current record not returned yet
    pool,                \* fsevents of the ids in the pool
    last_fsevent,        \* at most one fsevent, that found the pool full
    batch_list,
    batch_id,            \* of the source: the next batch saved
    producer_batch_id,   \* of producer_thread: the batch being handed out
    batch,               \* per worker, the sub-batch not handed out yet

    queue,      \* per worker, its list of nodes
    node,       \* per worker, the node it took from its list
    wstate,     \* per worker, where its thread is
    should_stop

source == <<cursor, last_changelog_index, changelog_read, empty,
            fsevents_iterator>>
dedup == <<pool, last_fsevent>>
saved == <<batch_list, batch_id, producer_batch_id>>
workers == <<queue, node, wstate>>
persistent == <<log, purged, last_read, runs>>
vars == <<persistent, done, pc, source, dedup, saved, batch, workers,
          should_stop>>

Event == Nat \X Nat
Id(e) == log[e[1]][e[2]]
EventsOf(i) == {<<i, k>> : k \in 1 .. Len(log[i])}
NoNode == [batch_id |-> 0, events |-> {}]

PoolIds == {Id(e) : e \in pool}

-----------------------------------------------------------------------------
Init ==
    /\ log = <<>> /\ purged = {} /\ last_read = 0 /\ done = {} /\ runs = 0
    /\ pc = "down"
    /\ cursor = 1 /\ last_changelog_index = 0 /\ changelog_read = 0
    /\ empty = FALSE /\ fsevents_iterator = {}
    /\ pool = {} /\ last_fsevent = {}
    /\ batch_list = [c \in {} |-> 0] /\ batch_id = 1 /\ producer_batch_id = 1
    /\ batch = [w \in Worker |-> {}]
    /\ queue = [w \in Worker |-> <<>>]
    /\ node = [w \in Worker |-> NoNode]
    /\ wstate = [w \in Worker |-> "idle"]
    /\ should_stop = FALSE

\* The MDT logs a record, whatever rbh-fsevents is doing.
MdtLog(ids) ==
    /\ Len(log) < MaxRecords
    /\ log' = Append(log, ids)
    /\ UNCHANGED <<purged, last_read, runs, done, pc, source, dedup, saved,
                   batch, workers, should_stop>>

\* main() starts: lustre_changelog_iter_init resumes after last_read.
Start ==
    /\ pc = "down" /\ runs < MaxRuns
    /\ runs' = runs + 1
    /\ pc' = "next"
    /\ last_changelog_index' = last_read
    /\ cursor' = last_read + 1
    /\ changelog_read' = 0
    /\ empty' = FALSE
    /\ UNCHANGED <<log, purged, last_read, done, fsevents_iterator, dedup,
                   saved, batch, workers, should_stop>>

\* What a stopped process loses: everything but the MDT and the sink.
LoseMemory ==
    /\ pc' = "down"
    /\ fsevents_iterator' = {} /\ pool' = {} /\ last_fsevent' = {}
    /\ batch_list' = [c \in {} |-> 0]
    /\ batch_id' = 1 /\ producer_batch_id' = 1
    /\ batch' = [w \in Worker |-> {}]
    /\ queue' = [w \in Worker |-> <<>>]
    /\ node' = [w \in Worker |-> NoNode]
    /\ wstate' = [w \in Worker |-> "idle"]
    /\ should_stop' = FALSE
    /\ UNCHANGED <<cursor, last_changelog_index, changelog_read, empty>>

\* The process exits or is killed.
Crash ==
    /\ pc # "down"
    /\ LoseMemory
    /\ UNCHANGED <<persistent, done>>

-----------------------------------------------------------------------------
(* deduplicator_iter_next: rbh_fsevent_pool_push of fsevent e.             *)

PushKept(e) ==
    /\ Id(e) \in PoolIds \/ Cardinality(PoolIds) < BatchSize
    /\ pool' = pool \cup {e}
    /\ last_fsevent' = {}
    /\ pc' = "next"
    /\ UNCHANGED done

\* e cancels what the pool holds for its id: a link and its unlink, or a
\* deletion of an entry created in the same batch.
PushCancelled(e) ==
    /\ Id(e) \in PoolIds
    /\ LET same == {f \in pool : Id(f) = Id(e)} IN
         /\ pool' = pool \ same
         /\ done' = done \cup same \cup {e}
    /\ last_fsevent' = {}
    /\ pc' = "next"

\* POOL_FULL: the fsevent waits for the next batch.
PushFull(e) ==
    /\ Id(e) \notin PoolIds /\ Cardinality(PoolIds) = BatchSize
    /\ last_fsevent' = {e}
    /\ pc' = "flush"
    /\ UNCHANGED <<pool, done>>

Push(e) == PushKept(e) \/ PushCancelled(e) \/ PushFull(e)

\* The fsevent that found the pool full is pushed first.
PushLast ==
    /\ pc = "next"
    /\ \E e \in last_fsevent : Push(e)
    /\ UNCHANGED <<persistent, source, saved, batch, workers, should_stop>>

(* lustre_changelog_iter_next *)

\* The next fsevent of the current record.
NextFsevent ==
    /\ pc = "next" /\ last_fsevent = {}
    /\ \E e \in fsevents_iterator :
         /\ \A f \in fsevents_iterator : e[2] <= f[2]
         /\ fsevents_iterator' = fsevents_iterator \ {e}
         /\ Push(e)
    /\ UNCHANGED <<persistent, cursor, last_changelog_index, changelog_read,
                   empty, saved, batch, workers, should_stop>>

\* llapi_changelog_recv is called: the checks made before it, which the
\* retry after an unmanaged record does not repeat.
MaxReached == MaxChangelog > 0 /\ MaxChangelog = changelog_read

Receiving ==
    \/ pc = "retry"
    \/ pc = "next" /\ last_fsevent = {} /\ fsevents_iterator = {} /\ ~MaxReached

\* Record i is the first the MDT still has at or after the cursor.
NextRecord(i) ==
    /\ i \in cursor .. Len(log)
    /\ i \notin purged
    /\ \A j \in cursor .. i - 1 : j \in purged
    /\ empty => ReaderResumes

ReadRecord(i) ==
    /\ NextRecord(i)
    /\ cursor' = i + 1
    /\ last_changelog_index' = i
    /\ changelog_read' = changelog_read + 1
    /\ UNCHANGED empty

RecvManaged ==
    /\ Receiving
    /\ \E i \in cursor .. Len(log) :
         /\ ReadRecord(i)
         /\ Len(log[i]) > 0
         /\ fsevents_iterator' = EventsOf(i) \ {<<i, 1>>}
         /\ Push(<<i, 1>>)
    /\ UNCHANGED <<persistent, saved, batch, workers, should_stop>>

\* CL_MARK and the other types that are skipped: goto retry.
RecvUnmanaged ==
    /\ Receiving
    /\ \E i \in cursor .. Len(log) : ReadRecord(i) /\ Len(log[i]) = 0
    /\ pc' = "retry"
    /\ UNCHANGED <<persistent, done, fsevents_iterator, dedup, saved, batch,
                   workers, should_stop>>

\* No more record, -EAGAIN, or --max records read: ENODATA.
EndOfRecords ==
    \/ /\ pc = "next" /\ last_fsevent = {} /\ fsevents_iterator = {}
       /\ MaxReached
    \/ /\ Receiving
       /\ ReaderResumes \/ \A i \in cursor .. Len(log) : ~NextRecord(i)

EndOfData ==
    /\ EndOfRecords
    /\ empty' = TRUE
    /\ pc' = "flush"
    /\ UNCHANGED <<persistent, done, cursor, last_changelog_index,
                   changelog_read, fsevents_iterator, dedup, saved, batch,
                   workers, should_stop>>

\* Any other error of the reader ends the producer.
RecvError ==
    /\ Receiving
    /\ pc' = "end"
    /\ should_stop' = TRUE
    /\ UNCHANGED <<persistent, done, source, dedup, saved, batch, workers>>

-----------------------------------------------------------------------------
(* rbh_fsevent_pool_flush and lustre_changelog_save_batch(..., true)       *)

\* One sub-batch for each worker that has an id in the pool.
SubBatches == [w \in Worker |-> {e \in pool : Hash[Id(e)] = w}]

\* Mutant: the record that is kept in memory is acknowledged as well.
SavedIndexOfLast == last_changelog_index

SavedIndex ==
    IF empty THEN last_changelog_index ELSE last_changelog_index - 1

SaveBatch(subs) ==
    /\ batch_list' =
         AddTail(batch_list, batch_id,
                 [batch_id |-> batch_id,
                  last_changelog_index |-> SavedIndex,
                  ack_required |-> Cardinality({w \in Worker : subs[w] # {}})])
    /\ batch_id' = batch_id + 1

Flush ==
    /\ pc = "flush" /\ pool # {}
    /\ batch' = SubBatches
    /\ SaveBatch(SubBatches)
    /\ pool' = {}
    /\ pc' = "dispatch"
    /\ UNCHANGED <<persistent, done, source, last_fsevent, producer_batch_id,
                   workers, should_stop>>

\* An empty pool at the end of data ends the producer's loop.
FlushNothing ==
    /\ pc = "flush" /\ pool = {}
    /\ pc' = "end"
    /\ UNCHANGED <<persistent, done, source, dedup, saved, batch, workers,
                   should_stop>>

(* producer_thread *)

\* add_iterators_to_consumer, sub-batches in the order of the workers.
Dispatch(w) ==
    /\ pc = "dispatch" /\ ~should_stop
    /\ batch[w] # {}
    /\ \A v \in 0 .. w - 1 : batch[v] = {}
    /\ queue' = [queue EXCEPT ![w] =
                   Append(@, [batch_id |-> producer_batch_id,
                              events |-> batch[w]])]
    /\ batch' = [batch EXCEPT ![w] = {}]
    /\ UNCHANGED <<persistent, done, pc, source, dedup, saved, node, wstate,
                   should_stop>>

DispatchDone ==
    /\ pc = "dispatch"
    /\ \A w \in Worker : batch[w] = {}
    /\ producer_batch_id' = producer_batch_id + 1
    /\ pc' = "next"
    /\ UNCHANGED <<persistent, done, source, dedup, batch_list, batch_id,
                   batch, workers, should_stop>>

\* goto end: the sub-batches left are never handed out.
DispatchStopped ==
    /\ pc = "dispatch" /\ should_stop
    /\ \E w \in Worker : batch[w] # {}
    /\ pc' = "end"
    /\ UNCHANGED <<persistent, done, source, dedup, saved, batch, workers,
                   should_stop>>

-----------------------------------------------------------------------------
(* consumer_thread *)

\* consumer_get_iterator
Take(w) ==
    /\ pc # "down" /\ wstate[w] = "idle" /\ ~should_stop /\ queue[w] # <<>>
    /\ node' = [node EXCEPT ![w] = Head(queue[w])]
    /\ queue' = [queue EXCEPT ![w] = Tail(@)]
    /\ wstate' = [wstate EXCEPT ![w] = "processing"]
    /\ UNCHANGED <<persistent, done, pc, source, dedup, saved, batch,
                   should_stop>>

\* sink_process succeeds.
Process(w) ==
    /\ wstate[w] = "processing"
    /\ done' = done \cup node[w].events
    /\ wstate' = [wstate EXCEPT ![w] = "acking"]
    /\ UNCHANGED <<persistent, pc, source, dedup, saved, batch, queue, node,
                   should_stop>>

\* sink_process fails half-way: the thread leaves, and asks everyone to stop
\* unless errno is ENODATA.
ProcessFails(w) ==
    /\ wstate[w] = "processing"
    /\ \E stored \in SUBSET node[w].events : done' = done \cup stored
    /\ should_stop' \in {should_stop, TRUE}
    /\ wstate' = [wstate EXCEPT ![w] = "failed"]
    /\ UNCHANGED <<persistent, pc, source, dedup, saved, batch, queue, node>>

(* lustre_changelog_ack_batch: llapi_changelog_clear, then last_read, for  *)
(* each node in turn.  A clear of index 0 drops every record.              *)

Cleared(nodes) ==
    {i \in 1 .. Len(log) :
        \E c \in nodes : LET n == batch_list[c].last_changelog_index
                         IN  n = 0 \/ i <= n}

\* last_read is left at the index of the last of these nodes.
SetLastRead(nodes) ==
    \/ nodes = {} /\ UNCHANGED last_read
    \/ \E m \in nodes : /\ \A c \in nodes : c <= m
                        /\ last_read' = batch_list[m].last_changelog_index

Ack(w) ==
    LET b == node[w].batch_id
        nodes == Clearable(batch_list, b)
    IN  /\ wstate[w] = "acking"
        /\ purged' = purged \cup Cleared(nodes)
        /\ SetLastRead(nodes)
        /\ batch_list' = AfterAck(batch_list, b)
        /\ wstate' = [wstate EXCEPT ![w] = "idle"]
        /\ node' = [node EXCEPT ![w] = NoNode]
        /\ UNCHANGED <<log, runs, done, pc, source, dedup, batch_id,
                       producer_batch_id, batch, queue, should_stop>>

\* The process dies between two of the calls: node m is cleared, and last_read
\* is its index or still that of the node before it.
CrashInAck(w) ==
    LET nodes == Clearable(batch_list, node[w].batch_id)
    IN  /\ wstate[w] = "acking"
        /\ \E m \in nodes :
             /\ purged' = purged \cup Cleared({c \in nodes : c <= m})
             /\ \/ SetLastRead({c \in nodes : c < m})
                \/ SetLastRead({c \in nodes : c <= m})
        /\ LoseMemory
        /\ UNCHANGED <<log, runs, done>>

-----------------------------------------------------------------------------
Producer ==
    \/ PushLast \/ NextFsevent \/ RecvManaged \/ RecvUnmanaged \/ EndOfData
    \/ RecvError \/ Flush \/ FlushNothing \/ DispatchDone \/ DispatchStopped
    \/ \E w \in Worker : Dispatch(w)

Consumer(w) ==
    Take(w) \/ Process(w) \/ ProcessFails(w) \/ Ack(w) \/ CrashInAck(w)

Next ==
    \/ \E ids \in RecordKinds : MdtLog(ids)
    \/ Start
    \/ Crash
    \/ Producer
    \/ \E w \in Worker : Consumer(w)

Spec == Init /\ [][Next]_vars

-----------------------------------------------------------------------------
WorkNode == [batch_id : Nat, events : SUBSET Event]

\* Every variable has the type of the C object it stands for.
TypeOK ==
    /\ log \in Seq(RecordKinds)
    /\ purged \subseteq Nat /\ last_read \in Nat
    /\ done \subseteq Event /\ runs \in Nat
    /\ pc \in {"down", "next", "retry", "flush", "dispatch", "end"}
    /\ cursor \in Nat /\ last_changelog_index \in Nat /\ changelog_read \in Nat
    /\ empty \in BOOLEAN
    /\ fsevents_iterator \subseteq Event
    /\ pool \subseteq Event
    /\ last_fsevent \subseteq Event
    /\ DOMAIN batch_list \subseteq Nat
    /\ \A c \in DOMAIN batch_list : batch_list[c] \in BatchNode
    /\ batch_id \in Nat /\ producer_batch_id \in Nat
    /\ batch \in [Worker -> SUBSET Event]
    /\ queue \in [Worker -> Seq(WorkNode)]
    /\ node \in [Worker -> WorkNode]
    /\ wstate \in [Worker -> {"idle", "processing", "acking", "failed"}]
    /\ should_stop \in BOOLEAN

\* A record the MDT was told to drop, or that a restart would skip because it
\* is not after last_read, has had all its fsevents stored: whatever workers
\* finish in whatever order, fail or are killed (lustre_changelog_ack_batch).
AckSafe ==
    \A i \in 1 .. Len(log) :
        i \in purged \/ i <= last_read => EventsOf(i) \subseteq done

\* The bound recorded in the sink never moves back: a restart never starts
\* reading from an earlier record than the previous one did.
LastReadForward == [][last_read' >= last_read]_last_read

-----------------------------------------------------------------------------
(* The inductive invariant behind AckSafe.                                 *)

\* Worker w still has to acknowledge batch k.
Holds(w, k) ==
    \/ batch[w] # {} /\ producer_batch_id = k
    \/ \E n \in 1 .. Len(queue[w]) : queue[w][n].batch_id = k
    \/ wstate[w] # "idle" /\ node[w].batch_id = k

Outstanding(k) == {w \in Worker : Holds(w, k)}

\* Fsevent e is in the sub-batch that w has, or will get, of batch k.
EventIn(e, w, k) ==
    \/ e \in batch[w] /\ producer_batch_id = k
    \/ \E n \in 1 .. Len(queue[w]) : /\ queue[w][n].batch_id = k
                                     /\ e \in queue[w][n].events
    \/ wstate[w] # "idle" /\ node[w].batch_id = k /\ e \in node[w].events

Unflushed == fsevents_iterator \cup pool \cup last_fsevent

Real(e) == e[1] \in 1 .. Len(log) /\ e[2] \in 1 .. Len(log[e[1]])

\* What the source and the deduplicator hold comes from the records read, and
\* the fsevents not pushed yet from the last of them.
SourceInv ==
    /\ last_changelog_index < cursor
    /\ cursor <= Len(log) + 1
    /\ last_read <= Len(log) /\ purged \subseteq 1 .. Len(log)
    /\ \A e \in Unflushed : Real(e)
    /\ \A e \in fsevents_iterator \cup last_fsevent :
          e[1] = last_changelog_index
    /\ \A e \in pool : e[1] <= last_changelog_index
    /\ \/ pc = "retry" \/ empty
       => fsevents_iterator = {} /\ last_fsevent = {}
    /\ pc = "flush" /\ ~empty => last_changelog_index >= 2
    /\ pc = "down" => Unflushed = {}

\* The two counters of batches, and the sub-batches not handed out.
CounterInv ==
    /\ producer_batch_id >= 1
    /\ batch_id \in {producer_batch_id, producer_batch_id + 1}
    /\ pc = "dispatch" => batch_id = producer_batch_id + 1
    /\ pc \in {"down", "next", "retry", "flush"} =>
          batch_id = producer_batch_id
    /\ \A w \in Worker : batch[w] # {} => batch_id = producer_batch_id + 1
    /\ pc = "down" => DOMAIN batch_list = {}

\* Each worker gets its sub-batches in the order of the batches.
Fifo(w) ==
    /\ \A n \in 1 .. Len(queue[w]) :
          /\ 1 <= queue[w][n].batch_id
          /\ queue[w][n].batch_id < batch_id
          /\ batch[w] # {} => queue[w][n].batch_id < producer_batch_id
          /\ wstate[w] # "idle" => node[w].batch_id < queue[w][n].batch_id
    /\ \A m, n \in 1 .. Len(queue[w]) :
          m < n => queue[w][m].batch_id < queue[w][n].batch_id
    /\ wstate[w] # "idle" =>
          /\ 1 <= node[w].batch_id
          /\ node[w].batch_id < batch_id
          /\ batch[w] # {} => node[w].batch_id < producer_batch_id
    /\ wstate[w] = "acking" => node[w].events \subseteq done

FifoInv == \A w \in Worker : Fifo(w)

\* A batch that a worker still has is in the list, and ack_required counts
\* those workers; some worker is past a batch that no worker has any more.
ListInv ==
    /\ \A w \in Worker : \A k \in Nat : Holds(w, k) => k \in DOMAIN batch_list
    /\ \A k \in DOMAIN batch_list :
          /\ k < batch_id
          /\ batch_list[k].batch_id = k
          /\ 1 <= batch_list[k].last_changelog_index
          /\ batch_list[k].last_changelog_index < cursor
          /\ batch_list[k].ack_required = Cardinality(Outstanding(k))
          /\ \/ batch_list[k].ack_required > 0
             \/ \E v \in Worker : \A j \in Nat : Holds(v, j) => j > k

\* The index saved for a batch covers no fsevent that comes after that batch.
OrderInv ==
    \A k \in DOMAIN batch_list :
        /\ \A e \in Unflushed : e[1] > batch_list[k].last_changelog_index
        /\ \A w \in Worker : \A j \in Nat : \A e \in Event :
              j > k /\ EventIn(e, w, j) =>
                  e[1] > batch_list[k].last_changelog_index

\* Every fsevent of the records read is stored or on its way.
TrackInv ==
    pc # "down" =>
        \A i \in 1 .. Len(log) : i < cursor =>
            \A e \in EventsOf(i) :
                \/ e \in done
                \/ e \in Unflushed
                \/ \E w \in Worker : \E k \in Nat : EventIn(e, w, k)

\* At most one fsevent waits for the next batch.
LastInv == \A e, f \in last_fsevent : e = f

IInv == TypeOK /\ AckSafe /\ SourceInv /\ CounterInv /\ FifoInv /\ ListInv
        /\ OrderInv /\ TrackInv /\ LastInv

\* What AckSafe needs: at most two workers, a reader that is done once it has
\* reported the end, and a pool that one record cannot fill.
SafeSetting ==
    /\ NbWorkers <= 2
    /\ ~ReaderResumes
    /\ \A r \in RecordKinds : Cardinality({r[k] : k \in 1 .. Len(r)}) <= BatchSize

-----------------------------------------------------------------------------
(* The small instances that TLC checks.                                   *)

ThreeIds == {"a", "b", "c"}
FourIds == {"a", "b", "c", "d"}

\* Two workers share three ids, three workers share four.
HashTwo == [x \in ThreeIds |-> IF x = "b" THEN 1 ELSE 0]
HashThree == [x \in FourIds |-> IF x = "b" THEN 1 ELSE IF x = "c" THEN 2 ELSE 0]

\* Records: unmanaged, about one entry, about an entry and its parent.
Kinds == {<<>>, <<"a">>, <<"a", "b">>, <<"c", "b">>}
KindsThree == {<<"d">>, <<"a", "b", "c">>}
=============================================================================
