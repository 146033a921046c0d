-------------------------- MODULE LustreAckProofs --------------------------
(***************************************************************************)
(* Proofs about LustreAck: type correctness and the safety of the          *)
(* acknowledgments, for every number of ids, records, restarts and batch   *)
(* size, in the setting AckSafe needs (SafeSetting).                       *)
(***************************************************************************)
EXTENDS LustreAck, FiniteSetTheorems, TLAPS

USE DEF Worker, Event

\* There are finitely many workers, so ack_required counts a finite set.
LEMMA OutstandingFinite ==
    ASSUME NEW k
    PROVE  /\ IsFiniteSet(Outstanding(k))
           /\ Cardinality(Outstanding(k)) \in Nat
<1>1. IsFiniteSet(Worker)
  BY WorkersAssumption, FS_Interval
<1>2. Outstanding(k) \in SUBSET Worker
  BY DEF Outstanding
<1> QED
  BY <1>1, <1>2, FS_Subset, FS_CardinalityType

\* What the workers hold depends on five variables only.
LEMMA HoldsFrame ==
    ASSUME UNCHANGED <<batch, producer_batch_id, queue, node, wstate>>
    PROVE  /\ \A w, k : Holds(w, k)' = Holds(w, k)
           /\ \A e, w, k : EventIn(e, w, k)' = EventIn(e, w, k)
           /\ \A k : Outstanding(k)' = Outstanding(k)
BY DEF Holds, EventIn, Outstanding

\* A stopped process holds nothing.
LEMMA IdleHoldsNothing ==
    ASSUME NEW w \in Worker, batch[w] = {}, queue[w] = <<>>,
           wstate[w] = "idle"
    PROVE  /\ \A k : ~Holds(w, k)
           /\ \A e, k : ~EventIn(e, w, k)
BY DEF Holds, EventIn

\* What Append and Tail do to a list of nodes.
LEMMA AppendFacts ==
    ASSUME NEW S, NEW q \in Seq(S), NEW x \in S
    PROVE  /\ Append(q, x) \in Seq(S)
           /\ Len(q) \in Nat /\ Len(Append(q, x)) = Len(q) + 1
           /\ Append(q, x)[Len(q) + 1] = x
           /\ \A n \in 1 .. Len(q) : Append(q, x)[n] = q[n] /\ q[n] \in S
OBVIOUS

\* The nodes of a worker's list have numbered batches.
LEMMA NodesOf ==
    ASSUME NEW q \in Seq(WorkNode)
    PROVE  /\ \A n \in 1 .. Len(q) : q[n] \in WorkNode
           /\ \A n \in 1 .. Len(q) : q[n].batch_id \in Nat
<1>1. \A n \in 1 .. Len(q) : q[n] \in WorkNode
  OBVIOUS
<1> QED
  BY <1>1 DEF WorkNode

\* What Tail does to a list of nodes.
LEMMA TailFacts ==
    ASSUME NEW S, NEW q \in Seq(S), q # <<>>
    PROVE  /\ Len(q) \in Nat /\ Len(q) >= 1
           /\ Head(q) = q[1]
           /\ Tail(q) \in Seq(S) /\ Len(Tail(q)) = Len(q) - 1
           /\ \A n \in 1 .. Len(q) : q[n] \in S
           /\ \A n \in 1 .. Len(q) - 1 : Tail(q)[n] = q[n + 1]
OBVIOUS

\* An fsevent of a sub-batch is held with it.
LEMMA EventHeld ==
    ASSUME NEW w \in Worker, NEW e, NEW k, EventIn(e, w, k)
    PROVE  Holds(w, k)
BY DEF Holds, EventIn

-----------------------------------------------------------------------------
\* The initial state satisfies the invariant.
LEMMA InitInv == Init => IInv
<1> SUFFICES ASSUME Init PROVE IInv
  OBVIOUS
<1> USE DEF Init
<1>1. TypeOK
  <2>1. node \in [Worker -> WorkNode] /\ queue \in [Worker -> Seq(WorkNode)]
    BY DEF NoNode, WorkNode
  <2>2. DOMAIN batch_list = {} /\ log \in Seq(RecordKinds)
    OBVIOUS
  <2> QED
    BY <2>1, <2>2 DEF TypeOK
<1>2. AckSafe
  BY DEF AckSafe
<1>3. SourceInv
  BY DEF SourceInv, Unflushed
<1>4. CounterInv
  BY DEF CounterInv
<1>5. FifoInv
  BY DEF FifoInv, Fifo
<1>6. ListInv
  <2>1. \A w \in Worker : \A k : ~Holds(w, k)
    BY IdleHoldsNothing
  <2> QED
    BY <2>1 DEF ListInv
<1>7. OrderInv
  BY DEF OrderInv
<1>8. TrackInv
  BY DEF TrackInv
<1>9. LastInv
  BY DEF LastInv
<1> QED
  BY <1>1, <1>2, <1>3, <1>4, <1>5, <1>6, <1>7, <1>8, <1>9 DEF IInv

\* The MDT logs a record: nothing held or stored is about it.
LEMMA MdtLogStep ==
    ASSUME IInv, NEW ids \in RecordKinds, MdtLog(ids)
    PROVE  IInv'
<1> USE DEF MdtLog, persistent, source, dedup, saved, workers
<1>0. /\ log \in Seq(RecordKinds)
      /\ Len(log') = Len(log) + 1 /\ Len(log) \in Nat
      /\ \A i \in 1 .. Len(log) : log'[i] = log[i]
  BY DEF IInv, TypeOK
<1>1. TypeOK'
  BY DEF IInv, TypeOK
<1>2. AckSafe'
  <2> SUFFICES ASSUME NEW i \in 1 .. Len(log'), i \in purged' \/ i <= last_read'
               PROVE  EventsOf(i)' \subseteq done'
    BY DEF AckSafe
  <2>1. i <= Len(log)
    BY <1>0, purged \subseteq 1 .. Len(log) DEF IInv, SourceInv, TypeOK
  <2> QED
    BY <1>0, <2>1 DEF IInv, AckSafe, EventsOf
<1>3. SourceInv'
  BY <1>0 DEF IInv, SourceInv, Unflushed, Real, TypeOK
<1>4. CounterInv'
  BY DEF IInv, CounterInv
<1>5. FifoInv'
  BY DEF IInv, FifoInv, Fifo
<1>6. ListInv'
  BY HoldsFrame DEF IInv, ListInv
<1>7. OrderInv'
  BY HoldsFrame DEF IInv, OrderInv, Unflushed
<1>8. TrackInv'
  <2> SUFFICES ASSUME pc' # "down", NEW i \in 1 .. Len(log'), i < cursor',
                      NEW e \in EventsOf(i)'
               PROVE  \/ e \in done'
                      \/ e \in Unflushed'
                      \/ \E w \in Worker : \E k \in Nat : EventIn(e, w, k)'
    BY DEF TrackInv
  <2>1. i <= Len(log) /\ e \in EventsOf(i)
    BY <1>0 DEF IInv, SourceInv, EventsOf, TypeOK
  <2> QED
    BY <1>0, <2>1, HoldsFrame DEF IInv, TrackInv, Unflushed
<1>9. LastInv'
  BY DEF IInv, LastInv
<1> QED
  BY <1>1, <1>2, <1>3, <1>4, <1>5, <1>6, <1>7, <1>8, <1>9 DEF IInv

\* The process stops, having purged only what AckSafe allows.
LEMMA LoseMemoryStep ==
    ASSUME IInv, LoseMemory, UNCHANGED <<log, runs, done>>, AckSafe',
           purged' \subseteq 1 .. Len(log), last_read' \in Nat,
           last_read' <= Len(log)
    PROVE  IInv'
<1> USE DEF LoseMemory
<1>1. TypeOK'
  <2>1. node' \in [Worker -> WorkNode] /\ queue' \in [Worker -> Seq(WorkNode)]
    BY DEF NoNode, WorkNode
  <2>2. DOMAIN batch_list' = {} /\ purged' \subseteq Nat
    OBVIOUS
  <2> QED
    BY <2>1, <2>2 DEF IInv, TypeOK
<1>2. SourceInv'
  BY DEF IInv, SourceInv, Unflushed
<1>3. CounterInv'
  BY DEF CounterInv
<1>4. FifoInv'
  BY DEF FifoInv, Fifo
<1>5. ListInv'
  <2>1. \A w \in Worker : \A k : ~Holds(w, k)'
    BY DEF Holds
  <2> QED
    BY <2>1 DEF ListInv
<1>6. OrderInv'
  BY DEF OrderInv
<1>7. TrackInv'
  BY DEF TrackInv
<1>8. LastInv'
  BY DEF LastInv
<1> QED
  BY <1>1, <1>2, <1>3, <1>4, <1>5, <1>6, <1>7, <1>8 DEF IInv

\* A crash outside an acknowledgment loses memory and nothing else.
LEMMA CrashStep == ASSUME IInv, Crash PROVE IInv'
<1>1. AckSafe'
  BY DEF IInv, AckSafe, EventsOf, Crash, persistent
<1>2. /\ purged' \subseteq 1 .. Len(log) /\ last_read' \in Nat
      /\ last_read' <= Len(log)
  BY DEF IInv, SourceInv, TypeOK, Crash, persistent
<1> QED
  BY <1>1, <1>2, LoseMemoryStep DEF Crash, persistent

\* A restart reads from the record after last_read: those before are stored.
LEMMA StartStep == ASSUME IInv, Start PROVE IInv'
<1> USE DEF Start, dedup, saved, workers
<1>1. TypeOK'
  <2>1. /\ runs' \in Nat /\ cursor' \in Nat /\ last_changelog_index' \in Nat
        /\ changelog_read' \in Nat
    BY DEF IInv, TypeOK
  <2>2. empty' \in BOOLEAN
    OBVIOUS
  <2>3. /\ queue' = queue /\ node' = node /\ wstate' = wstate
        /\ batch' = batch /\ batch_list' = batch_list
        /\ pool' = pool /\ last_fsevent' = last_fsevent
        /\ batch_id' = batch_id /\ producer_batch_id' = producer_batch_id
    OBVIOUS
  <2> QED
    BY <2>1, <2>2, <2>3 DEF IInv, TypeOK
<1>2. AckSafe'
  BY DEF IInv, AckSafe, EventsOf
<1>3. SourceInv'
  <2>1. Unflushed = {} /\ Unflushed' = {}
    BY DEF IInv, SourceInv, Unflushed
  <2>2. fsevents_iterator' = {} /\ last_fsevent' = {} /\ pool' = {}
    BY <2>1 DEF Unflushed
  <2> QED
    BY <2>1, <2>2 DEF IInv, SourceInv, TypeOK
<1>4. CounterInv'
  BY DEF IInv, CounterInv
<1>5. FifoInv'
  BY DEF IInv, FifoInv, Fifo
<1>6. DOMAIN batch_list = {}
  BY DEF IInv, CounterInv
<1>7. ListInv'
  BY <1>6, HoldsFrame DEF IInv, ListInv
<1>8. OrderInv'
  BY <1>6 DEF OrderInv
<1>9. TrackInv'
  BY DEF IInv, TrackInv, AckSafe, EventsOf, TypeOK
<1>10. LastInv'
  BY DEF IInv, LastInv
<1> QED
  BY <1>1, <1>2, <1>3, <1>4, <1>5, <1>7, <1>8, <1>9, <1>10 DEF IInv

-----------------------------------------------------------------------------
\* One record alone never fills the pool, so the batch of a full pool never
\* ends with record 1, whose predecessor would be index 0.
LEMMA FullPoolNotFirst ==
    ASSUME IInv, SafeSetting, NEW e, Real(e), PushFull(e),
           \A f \in pool : f[1] <= e[1]
    PROVE  e[1] >= 2
<1> SUFFICES ASSUME e[1] < 2 PROVE FALSE
  BY DEF Real, IInv, TypeOK
<1> DEFINE r == log[1]
           R == {r[k] : k \in 1 .. Len(r)}
           F == [k \in 1 .. Len(r) |-> r[k]]
<1>1. e[1] = 1 /\ Len(log) >= 1
  BY DEF Real, IInv, TypeOK
<1>2. r \in RecordKinds /\ Len(r) \in Nat
  BY <1>1, KindsAssumption DEF IInv, TypeOK
<1>3. IsFiniteSet(R)
  <2>1. F \in Surjection(1 .. Len(r), R)
    BY DEF Surjection
  <2>2. IsFiniteSet(1 .. Len(r))
    BY <1>2, FS_Interval
  <2> QED
    BY <2>1, <2>2, FS_Surjection
<1>4. \A f \in pool : Real(f) /\ f[1] = 1
  BY <1>1 DEF IInv, SourceInv, Unflushed, Real, TypeOK
<1>5. PoolIds \subseteq R /\ Id(e) \in R
  BY <1>1, <1>4 DEF PoolIds, Id, Real
<1>6. IsFiniteSet(PoolIds) /\ Cardinality(PoolIds \cup {Id(e)}) <= Cardinality(R)
  BY <1>3, <1>5, FS_Subset
<1>7. Cardinality(PoolIds \cup {Id(e)}) = BatchSize + 1
  BY <1>6, FS_AddElement DEF PushFull
<1>8. Cardinality(R) <= BatchSize
  BY <1>2 DEF SafeSetting
<1>9. Cardinality(R) \in Nat
  BY <1>3, FS_CardinalityType
<1> QED
  BY <1>6, <1>7, <1>8, <1>9, SizeAssumption

\* Pushing fsevent e, wherever it comes from, keeps the invariant.
LEMMA PushStep ==
    ASSUME IInv, SafeSetting, NEW e \in Event, Push(e), Real(e),
           pc \in {"next", "retry"}, ~empty,
           UNCHANGED <<persistent, saved, batch, workers, should_stop, empty>>,
           cursor' \in Nat, last_changelog_index' \in Nat,
           changelog_read' \in Nat, fsevents_iterator' \subseteq Event,
           cursor' >= cursor, last_changelog_index' >= last_changelog_index,
           last_changelog_index' < cursor', cursor' <= Len(log) + 1,
           e[1] = last_changelog_index',
           \A f \in fsevents_iterator' : Real(f) /\ f[1] = e[1],
           \A k \in DOMAIN batch_list :
               e[1] > batch_list[k].last_changelog_index,
           fsevents_iterator \cup last_fsevent
               \subseteq fsevents_iterator' \cup {e},
           \A i \in 1 .. Len(log) : cursor <= i /\ i < cursor' =>
               EventsOf(i) \subseteq done \cup fsevents_iterator' \cup {e}
    PROVE  IInv'
<1> USE DEF Push, persistent, saved, workers
<1>1. /\ pool' \subseteq pool \cup {e} /\ last_fsevent' \subseteq {e}
      /\ pool \cup {e} \subseteq pool' \cup done' \cup last_fsevent'
      /\ done \subseteq done' /\ done' \subseteq Event
      /\ pc' \in {"next", "flush"}
  BY DEF PushKept, PushCancelled, PushFull, IInv, TypeOK
<1>2. TypeOK'
  BY <1>1 DEF IInv, TypeOK
<1>3. AckSafe'
  BY <1>1 DEF IInv, AckSafe, EventsOf
<1>4. SourceInv'
  <2>1. \A f \in Unflushed' : Real(f)'
    BY <1>1 DEF IInv, SourceInv, Unflushed, Real
  <2>2. pc' = "flush" => last_changelog_index' >= 2
    <3> SUFFICES ASSUME pc' = "flush" PROVE e[1] >= 2
      OBVIOUS
    <3>1. PushFull(e)
      BY DEF PushKept, PushCancelled
    <3>2. \A f \in pool : f[1] <= e[1]
      BY DEF IInv, SourceInv, TypeOK
    <3> QED
      BY <3>1, <3>2, FullPoolNotFirst
  <2>3. \A f \in pool' : f[1] <= last_changelog_index'
    BY <1>1 DEF IInv, SourceInv, TypeOK
  <2> QED
    BY <1>1, <2>1, <2>2, <2>3 DEF IInv, SourceInv
<1>5. CounterInv'
  BY <1>1 DEF IInv, CounterInv
<1>6. FifoInv'
  BY <1>1 DEF IInv, FifoInv, Fifo
<1>7. ListInv'
  BY HoldsFrame DEF IInv, ListInv, TypeOK, BatchNode
<1>8. OrderInv'
  <2>1. \A k \in DOMAIN batch_list : \A f \in Unflushed' :
            f[1] > batch_list[k].last_changelog_index
    BY <1>1 DEF IInv, OrderInv, Unflushed
  <2> QED
    BY <2>1, HoldsFrame DEF IInv, OrderInv
<1>9. TrackInv'
  <2> SUFFICES ASSUME NEW i \in 1 .. Len(log), i < cursor', NEW f \in EventsOf(i)
               PROVE  \/ f \in done'
                      \/ f \in Unflushed'
                      \/ \E w \in Worker : \E k \in Nat : EventIn(f, w, k)
    BY HoldsFrame DEF TrackInv, EventsOf
  <2>1. CASE i < cursor
    BY <1>1, <2>1 DEF IInv, TrackInv, Unflushed
  <2>2. CASE cursor <= i
    BY <1>1, <2>2 DEF Unflushed
  <2> QED
    BY <2>1, <2>2 DEF IInv, TypeOK
<1>10. LastInv'
  BY <1>1 DEF LastInv
<1> QED
  BY <1>2, <1>3, <1>4, <1>5, <1>6, <1>7, <1>8, <1>9, <1>10 DEF IInv

\* The fsevent that found the pool full is pushed first.
LEMMA PushLastStep == ASSUME IInv, SafeSetting, PushLast PROVE IInv'
<1> USE DEF PushLast, source
<1>1. PICK e \in last_fsevent : Push(e)
  OBVIOUS
<1>2. e \in Event /\ Real(e) /\ e \in Unflushed /\ ~empty
  BY DEF IInv, TypeOK, SourceInv, Unflushed
<1>3. last_fsevent = {e}
  BY DEF IInv, LastInv
<1>4. UNCHANGED <<persistent, saved, batch, workers, should_stop, empty>>
  OBVIOUS
<1>5. /\ cursor' = cursor /\ last_changelog_index' = last_changelog_index
      /\ changelog_read' = changelog_read
      /\ fsevents_iterator' = fsevents_iterator
  OBVIOUS
<1>6. /\ cursor \in Nat /\ last_changelog_index \in Nat
      /\ changelog_read \in Nat /\ fsevents_iterator \subseteq Event
      /\ last_changelog_index < cursor /\ cursor <= Len(log) + 1
      /\ e[1] = last_changelog_index
      /\ \A f \in fsevents_iterator : Real(f) /\ f[1] = e[1]
  BY DEF IInv, TypeOK, SourceInv, Unflushed
<1>7. \A k \in DOMAIN batch_list : e[1] > batch_list[k].last_changelog_index
  BY <1>2 DEF IInv, OrderInv
<1> QED
  BY <1>1, <1>2, <1>3, <1>4, <1>5, <1>6, <1>7, PushStep

\* The next fsevent of the current record is pushed.
LEMMA NextFseventStep == ASSUME IInv, SafeSetting, NextFsevent PROVE IInv'
<1> USE DEF NextFsevent
<1>1. PICK e \in fsevents_iterator :
        fsevents_iterator' = fsevents_iterator \ {e} /\ Push(e)
  OBVIOUS
<1>2. e \in Event /\ Real(e) /\ e \in Unflushed /\ ~empty
  BY DEF IInv, TypeOK, SourceInv, Unflushed
<1>3. UNCHANGED <<persistent, saved, batch, workers, should_stop, empty>>
  OBVIOUS
<1>4. /\ cursor' = cursor /\ last_changelog_index' = last_changelog_index
      /\ changelog_read' = changelog_read /\ last_fsevent = {}
  OBVIOUS
<1>5. /\ cursor \in Nat /\ last_changelog_index \in Nat
      /\ changelog_read \in Nat /\ fsevents_iterator \subseteq Event
      /\ last_changelog_index < cursor /\ cursor <= Len(log) + 1
      /\ e[1] = last_changelog_index
      /\ \A f \in fsevents_iterator : Real(f) /\ f[1] = e[1]
  BY DEF IInv, TypeOK, SourceInv, Unflushed
<1>6. \A k \in DOMAIN batch_list : e[1] > batch_list[k].last_changelog_index
  BY <1>2 DEF IInv, OrderInv
<1> QED
  BY <1>1, <1>2, <1>3, <1>4, <1>5, <1>6, PushStep

\* When llapi_changelog_recv is called nothing is left of the last record.
LEMMA ReceivingEmpty ==
    ASSUME IInv, Receiving
    PROVE  /\ pc \in {"next", "retry"}
           /\ fsevents_iterator = {} /\ last_fsevent = {}
BY DEF IInv, SourceInv, Receiving

\* The records skipped because the MDT dropped them were stored.
LEMMA SkippedDone ==
    ASSUME IInv, SafeSetting, NEW i, NextRecord(i)
    PROVE  /\ i \in cursor .. Len(log) /\ ~empty
           /\ \A j \in 1 .. Len(log) : cursor <= j /\ j < i =>
                  EventsOf(j) \subseteq done
BY DEF IInv, AckSafe, NextRecord, SafeSetting, TypeOK

\* A record is read, and its first fsevent pushed.
LEMMA RecvManagedStep == ASSUME IInv, SafeSetting, RecvManaged PROVE IInv'
<1> USE DEF RecvManaged
<1>1. PICK i \in cursor .. Len(log) :
        /\ ReadRecord(i) /\ Len(log[i]) > 0 /\ Push(<<i, 1>>)
        /\ fsevents_iterator' = EventsOf(i) \ {<<i, 1>>}
  OBVIOUS
<1>2. /\ cursor \in Nat /\ i \in Nat /\ i \in 1 .. Len(log)
      /\ last_changelog_index < cursor /\ last_changelog_index \in Nat
      /\ changelog_read \in Nat /\ Len(log) \in Nat
  BY DEF IInv, TypeOK, SourceInv
<1>3. log[i] \in RecordKinds /\ Len(log[i]) \in Nat
  BY <1>2, KindsAssumption DEF IInv, TypeOK
<1>4. /\ EventsOf(i) \subseteq Event
      /\ \A f \in EventsOf(i) : Real(f) /\ f[1] = i
      /\ <<i, 1>> \in EventsOf(i) /\ <<i, 1>>[1] = i
  BY <1>1, <1>2, <1>3 DEF EventsOf, Real
<1>5. NextRecord(i) /\ cursor' = i + 1 /\ last_changelog_index' = i
      /\ changelog_read' = changelog_read + 1 /\ UNCHANGED empty
  BY <1>1 DEF ReadRecord
<1>6. \A k \in DOMAIN batch_list : i > batch_list[k].last_changelog_index
  BY <1>2 DEF IInv, ListInv, TypeOK, BatchNode
<1>7. \A j \in 1 .. Len(log) : cursor <= j /\ j < cursor' =>
        EventsOf(j) \subseteq done \cup fsevents_iterator' \cup {<<i, 1>>}
  BY <1>1, <1>2, <1>4, <1>5, SkippedDone
<1>8. UNCHANGED <<persistent, saved, batch, workers, should_stop, empty>>
  BY <1>5
<1>9. /\ pc \in {"next", "retry"} /\ ~empty
      /\ fsevents_iterator = {} /\ last_fsevent = {}
  BY <1>5, SkippedDone, ReceivingEmpty
<1>10. /\ <<i, 1>> \in Event /\ Real(<<i, 1>>) /\ Push(<<i, 1>>)
       /\ fsevents_iterator' \subseteq Event
       /\ \A f \in fsevents_iterator' : Real(f) /\ f[1] = <<i, 1>>[1]
  BY <1>1, <1>4
<1>11. /\ cursor' \in Nat /\ last_changelog_index' \in Nat
       /\ changelog_read' \in Nat /\ cursor' >= cursor
       /\ last_changelog_index' >= last_changelog_index
       /\ last_changelog_index' < cursor' /\ cursor' <= Len(log) + 1
       /\ <<i, 1>>[1] = last_changelog_index'
  BY <1>2, <1>5
<1> QED
  BY <1>6, <1>7, <1>8, <1>9, <1>10, <1>11, PushStep

\* A record without fsevents is skipped: nothing of it is left to store.
LEMMA RecvUnmanagedStep == ASSUME IInv, SafeSetting, RecvUnmanaged PROVE IInv'
<1> USE DEF RecvUnmanaged, persistent, dedup, saved, workers
<1>1. PICK i \in cursor .. Len(log) : ReadRecord(i) /\ Len(log[i]) = 0
  OBVIOUS
<1>2. NextRecord(i) /\ cursor' = i + 1 /\ last_changelog_index' = i
      /\ changelog_read' = changelog_read + 1 /\ UNCHANGED empty
  BY <1>1 DEF ReadRecord
<1>3. /\ cursor \in Nat /\ i \in Nat /\ cursor <= i /\ i <= Len(log)
      /\ last_changelog_index < cursor /\ last_changelog_index \in Nat
      /\ changelog_read \in Nat /\ Len(log) \in Nat
  BY DEF IInv, TypeOK, SourceInv
<1>4. EventsOf(i) = {}
  BY <1>1 DEF EventsOf
<1>5. TypeOK'
  BY <1>2, <1>3 DEF IInv, TypeOK
<1>6. AckSafe'
  BY DEF IInv, AckSafe, EventsOf
<1>7. SourceInv'
  <2>1. fsevents_iterator' = {} /\ last_fsevent' = {} /\ pc' = "retry"
    BY ReceivingEmpty
  <2>2. \A e \in Unflushed' : Real(e)'
    BY DEF IInv, SourceInv, Unflushed, Real
  <2>3. \A e \in pool' : e[1] <= last_changelog_index'
    BY <1>2, <1>3 DEF IInv, SourceInv, TypeOK
  <2> QED
    BY <1>2, <1>3, <2>1, <2>2, <2>3 DEF IInv, SourceInv
<1>8. CounterInv'
  BY ReceivingEmpty DEF IInv, CounterInv
<1>9. FifoInv'
  BY DEF IInv, FifoInv, Fifo
<1>10. ListInv'
  BY <1>2, <1>3, HoldsFrame DEF IInv, ListInv, TypeOK, BatchNode
<1>11. OrderInv'
  BY HoldsFrame DEF IInv, OrderInv, Unflushed
<1>12. TrackInv'
  <2> SUFFICES ASSUME NEW j \in 1 .. Len(log), j < cursor', NEW f \in EventsOf(j)
               PROVE  \/ f \in done
                      \/ f \in Unflushed
                      \/ \E w \in Worker : \E k \in Nat : EventIn(f, w, k)
    BY HoldsFrame DEF TrackInv, EventsOf, Unflushed
  <2>1. CASE j < cursor
    BY <2>1, ReceivingEmpty DEF IInv, TrackInv
  <2>2. CASE cursor <= j
    BY <1>2, <1>3, <1>4, <2>2, SkippedDone
  <2> QED
    BY <1>3, <2>1, <2>2
<1>13. LastInv'
  BY DEF IInv, LastInv
<1> QED
  BY <1>5, <1>6, <1>7, <1>8, <1>9, <1>10, <1>11, <1>12, <1>13 DEF IInv

\* At the end of data nothing of the last record is left outside the pool.
LEMMA EndOfDataStep == ASSUME IInv, EndOfData PROVE IInv'
<1> USE DEF EndOfData, persistent, dedup, saved, workers
<1>1. /\ pc \in {"next", "retry"}
      /\ fsevents_iterator = {} /\ last_fsevent = {}
  BY ReceivingEmpty DEF EndOfRecords
<1>2. empty' \in BOOLEAN
  OBVIOUS
<1>3. TypeOK'
  BY <1>2 DEF IInv, TypeOK
<1>4. AckSafe'
  BY DEF IInv, AckSafe, EventsOf
<1>5. SourceInv'
  <2>1. \A e \in Unflushed' : Real(e)'
    BY DEF IInv, SourceInv, Unflushed, Real
  <2> QED
    BY <1>1, <2>1 DEF IInv, SourceInv
<1>6. CounterInv'
  BY <1>1 DEF IInv, CounterInv
<1>7. FifoInv'
  BY DEF IInv, FifoInv, Fifo
<1>8. ListInv'
  BY HoldsFrame DEF IInv, ListInv
<1>9. OrderInv'
  BY HoldsFrame DEF IInv, OrderInv, Unflushed
<1>10. TrackInv'
  BY <1>1, HoldsFrame DEF IInv, TrackInv, Unflushed, EventsOf
<1>11. LastInv'
  BY DEF IInv, LastInv
<1> QED
  BY <1>3, <1>4, <1>5, <1>6, <1>7, <1>8, <1>9, <1>10, <1>11 DEF IInv

-----------------------------------------------------------------------------
\* Steps that move sub-batches without changing who holds what.
LEMMA SameHolders ==
    ASSUME IInv, TypeOK', CounterInv', FifoInv',
           UNCHANGED <<persistent, source, dedup, batch_list, batch_id>>,
           pc # "down", pc' = pc \/ pc' \in {"next", "dispatch", "end"},
           done \subseteq done',
           \A w \in Worker : \A k : Holds(w, k)' <=> Holds(w, k),
           \A w \in Worker : \A e, k : EventIn(e, w, k)' <=> EventIn(e, w, k)
    PROVE  IInv'
<1> USE DEF persistent, source, dedup
<1>1. AckSafe'
  BY DEF IInv, AckSafe, EventsOf
<1>2. SourceInv'
  <2>1. \A e \in Unflushed' : Real(e)'
    BY DEF IInv, SourceInv, Unflushed, Real
  <2> QED
    BY <2>1 DEF IInv, SourceInv
<1>3. ListInv'
  <2>1. \A k : Outstanding(k)' = Outstanding(k)
    BY DEF Outstanding
  <2> QED
    BY <2>1 DEF IInv, ListInv
<1>4. OrderInv'
  BY DEF IInv, OrderInv, Unflushed
<1>5. TrackInv'
  BY DEF IInv, TrackInv, Unflushed, EventsOf
<1>6. LastInv'
  BY DEF IInv, LastInv
<1> QED
  BY <1>1, <1>2, <1>3, <1>4, <1>5, <1>6 DEF IInv

\* The producer leaves its loop.
LEMMA StopStep ==
    ASSUME IInv, pc # "down", pc' = "end", should_stop' \in BOOLEAN,
           UNCHANGED <<persistent, done, source, dedup, saved, batch, workers>>
    PROVE  IInv'
<1> USE DEF persistent, source, dedup, saved, workers
<1>1. TypeOK'
  BY DEF IInv, TypeOK
<1>2. CounterInv'
  BY DEF IInv, CounterInv
<1>3. FifoInv'
  BY DEF IInv, FifoInv, Fifo
<1> QED
  BY <1>1, <1>2, <1>3, HoldsFrame, SameHolders

\* A sub-batch moves from the producer to the end of a worker's list.
LEMMA DispatchStep ==
    ASSUME IInv, NEW w \in Worker, Dispatch(w)
    PROVE  IInv'
<1> USE DEF Dispatch, persistent, source, dedup, saved
<1> DEFINE new == [batch_id |-> producer_batch_id, events |-> batch[w]]
           q == queue[w]
<1>1. /\ q \in Seq(WorkNode) /\ new \in WorkNode /\ Len(q) \in Nat
      /\ queue' = [queue EXCEPT ![w] = Append(q, new)]
      /\ queue \in [Worker -> Seq(WorkNode)] /\ batch \in [Worker -> SUBSET Event]
  BY DEF IInv, TypeOK, WorkNode
<1>2. /\ queue'[w] = Append(q, new) /\ Len(queue'[w]) = Len(q) + 1
      /\ queue'[w][Len(q) + 1] = new
      /\ \A n \in 1 .. Len(q) : queue'[w][n] = q[n]
      /\ \A v \in Worker \ {w} : queue'[v] = queue[v] /\ batch'[v] = batch[v]
      /\ batch'[w] = {} /\ batch[w] # {}
      /\ new.batch_id = producer_batch_id /\ new.events = batch[w]
  BY <1>1
<1>3. TypeOK'
  <2>1. queue' \in [Worker -> Seq(WorkNode)] /\ batch' \in [Worker -> SUBSET Event]
    BY <1>1
  <2> QED
    BY <2>1 DEF IInv, TypeOK
<1>4. CounterInv'
  BY <1>1, <1>2 DEF IInv, CounterInv
<1>5. FifoInv'
  <2> SUFFICES ASSUME NEW v \in Worker
               PROVE  Fifo(v)'
    BY DEF FifoInv
  <2>1. CASE v # w
    BY <1>2, <2>1 DEF IInv, FifoInv, Fifo
  <2>2. CASE v = w
    <3>1. batch_id = producer_batch_id + 1 /\ producer_batch_id >= 1
          /\ producer_batch_id \in Nat
      BY <1>2 DEF IInv, CounterInv, TypeOK
    <3>2. \A n \in 1 .. Len(queue'[w]) :
             \/ n \in 1 .. Len(q) /\ queue'[w][n] = q[n]
             \/ n = Len(q) + 1 /\ queue'[w][n] = new
      BY <1>1, <1>2
    <3>3. \A n \in 1 .. Len(q) : q[n].batch_id \in Nat
      <4>1. \A n \in 1 .. Len(q) : q[n] \in WorkNode
        <5> HIDE DEF q, new, Dispatch
        <5> QED
          BY <1>1, AppendFacts
      <4> HIDE DEF q, new, Dispatch
      <4> QED
        BY <4>1 DEF WorkNode
    <3>4. Fifo(w)
      BY DEF IInv, FifoInv
    <3>5. node[w].batch_id \in Nat
      BY DEF IInv, TypeOK, WorkNode
    <3>6. /\ \A n \in 1 .. Len(q) :
               /\ 1 <= q[n].batch_id /\ q[n].batch_id < producer_batch_id
               /\ wstate[w] # "idle" => node[w].batch_id < q[n].batch_id
          /\ \A m, n \in 1 .. Len(q) : m < n => q[m].batch_id < q[n].batch_id
          /\ wstate[w] # "idle" => /\ 1 <= node[w].batch_id
                                  /\ node[w].batch_id < producer_batch_id
          /\ wstate[w] = "acking" => node[w].events \subseteq done
      BY <1>2, <3>4 DEF Fifo
    <3>7. \A n \in 1 .. Len(queue'[w]) :
             /\ 1 <= queue'[w][n].batch_id /\ queue'[w][n].batch_id < batch_id
             /\ wstate[w] # "idle" => node[w].batch_id < queue'[w][n].batch_id
      BY <1>2, <3>1, <3>2, <3>3, <3>5, <3>6
    <3>8. \A m, n \in 1 .. Len(queue'[w]) :
             m < n => queue'[w][m].batch_id < queue'[w][n].batch_id
      <4> SUFFICES ASSUME NEW m \in 1 .. Len(queue'[w]),
                          NEW n \in 1 .. Len(queue'[w]), m < n
                   PROVE  queue'[w][m].batch_id < queue'[w][n].batch_id
        OBVIOUS
      <4>1. m \in 1 .. Len(q) /\ queue'[w][m] = q[m]
        BY <1>1, <1>2, <3>2
      <4> QED
        BY <1>2, <3>2, <3>6, <4>1
    <3>9. node[w].batch_id < batch_id \/ wstate[w] = "idle"
      BY <3>1, <3>5, <3>6
    <3>10. /\ wstate' = wstate /\ node' = node /\ done' = done
           /\ batch_id' = batch_id /\ batch'[w] = {}
      BY <1>2
    <3> HIDE DEF Dispatch, new, q
    <3> QED
      BY <2>2, <3>6, <3>7, <3>8, <3>9, <3>10 DEF Fifo
  <2> QED
    BY <2>1, <2>2
<1>6. \A v \in Worker : \A k : Holds(v, k)' <=> Holds(v, k)
  <2>1. \A v \in Worker \ {w} : \A k : Holds(v, k)' <=> Holds(v, k)
    BY <1>2 DEF Holds
  <2>2. \A k : Holds(w, k)' <=> Holds(w, k)
    BY <1>1, <1>2 DEF Holds
  <2> QED
    BY <2>1, <2>2
<1>7. \A v \in Worker : \A e, k : EventIn(e, v, k)' <=> EventIn(e, v, k)
  <2>1. \A v \in Worker \ {w} : \A e, k : EventIn(e, v, k)' <=> EventIn(e, v, k)
    BY <1>2 DEF EventIn
  <2>2. \A e, k : EventIn(e, w, k)' <=> EventIn(e, w, k)
    BY <1>1, <1>2 DEF EventIn
  <2> QED
    BY <2>1, <2>2
<1> QED
  BY <1>3, <1>4, <1>5, <1>6, <1>7, SameHolders

\* The producer moves on to the next batch once all are handed out.
LEMMA DispatchDoneStep == ASSUME IInv, DispatchDone PROVE IInv'
<1> USE DEF DispatchDone, persistent, source, dedup, workers
<1>1. TypeOK'
  BY DEF IInv, TypeOK
<1>2. CounterInv'
  BY DEF IInv, CounterInv, TypeOK
<1>3. FifoInv'
  BY DEF IInv, FifoInv, Fifo
<1>4. /\ \A w \in Worker : \A k : Holds(w, k)' <=> Holds(w, k)
      /\ \A w \in Worker : \A e, k : EventIn(e, w, k)' <=> EventIn(e, w, k)
  BY DEF Holds, EventIn
<1> QED
  BY <1>1, <1>2, <1>3, <1>4, SameHolders

\* A worker takes the first node of its list.
LEMMA TakeStep ==
    ASSUME IInv, NEW w \in Worker, Take(w)
    PROVE  IInv'
<1> USE DEF Take, persistent, source, dedup, saved
<1> DEFINE q == queue[w]
<1>1. /\ q \in Seq(WorkNode) /\ q # <<>> /\ Len(q) \in Nat /\ Len(q) >= 1
      /\ Head(q) = q[1] /\ q[1] \in WorkNode
      /\ Tail(q) \in Seq(WorkNode) /\ Len(Tail(q)) = Len(q) - 1
      /\ \A n \in 1 .. Len(q) : q[n].batch_id \in Nat
      /\ \A n \in 1 .. Len(q) - 1 : Tail(q)[n] = q[n + 1]
  <2>1. q \in Seq(WorkNode) /\ q # <<>>
    BY DEF IInv, TypeOK
  <2>2. /\ Len(q) \in Nat /\ Len(q) >= 1 /\ Head(q) = q[1]
        /\ Tail(q) \in Seq(WorkNode) /\ Len(Tail(q)) = Len(q) - 1
        /\ \A n \in 1 .. Len(q) : q[n] \in WorkNode
        /\ \A n \in 1 .. Len(q) - 1 : Tail(q)[n] = q[n + 1]
    <3> HIDE DEF q, Take
    <3> QED
      BY <2>1, TailFacts
  <2>3. \A n \in 1 .. Len(q) : q[n].batch_id \in Nat
    BY <2>2 DEF WorkNode
  <2> HIDE DEF q, Take
  <2> QED
    BY <2>1, <2>2, <2>3
<1>2. /\ queue'[w] = Tail(q) /\ node'[w] = q[1]
      /\ wstate[w] = "idle" /\ wstate'[w] = "processing"
      /\ \A v \in Worker \ {w} : /\ queue'[v] = queue[v] /\ node'[v] = node[v]
                                 /\ wstate'[v] = wstate[v]
  BY <1>1 DEF IInv, TypeOK
<1>3. TypeOK'
  <2>1. queue' \in [Worker -> Seq(WorkNode)] /\ node' \in [Worker -> WorkNode]
    BY <1>1 DEF IInv, TypeOK
  <2>2. wstate' \in [Worker -> {"idle", "processing", "acking", "failed"}]
    BY DEF IInv, TypeOK
  <2> QED
    BY <2>1, <2>2 DEF IInv, TypeOK
<1>4. CounterInv'
  BY DEF IInv, CounterInv
<1>6. /\ \A n \in 1 .. Len(q) : n = 1 \/ (/\ n - 1 \in 1 .. Len(queue'[w])
                                          /\ queue'[w][n - 1] = q[n])
      /\ \A n \in 1 .. Len(queue'[w]) : /\ n \in Nat /\ n + 1 \in 1 .. Len(q)
                                        /\ 1 < n + 1
                                        /\ queue'[w][n] = q[n + 1]
      /\ 1 \in 1 .. Len(q)
  <2>1. queue'[w] = Tail(q) /\ Len(queue'[w]) = Len(q) - 1
    BY <1>1, <1>2
  <2> HIDE DEF Take, q
  <2>2. ASSUME NEW n \in 1 .. Len(q), n # 1
        PROVE  n - 1 \in 1 .. Len(queue'[w]) /\ queue'[w][n - 1] = q[n]
    <3>1. n - 1 \in 1 .. Len(q) - 1 /\ (n - 1) + 1 = n
      BY <1>1, <2>2
    <3> QED
      BY <1>1, <2>1, <3>1
  <2>3. ASSUME NEW n \in 1 .. Len(queue'[w])
        PROVE  /\ n \in Nat /\ n + 1 \in 1 .. Len(q) /\ 1 < n + 1
               /\ queue'[w][n] = q[n + 1]
    BY <1>1, <2>1
  <2> QED
    BY <1>1, <2>2, <2>3
<1>5. FifoInv'
  <2> SUFFICES ASSUME NEW v \in Worker
               PROVE  Fifo(v)'
    BY DEF FifoInv
  <2>1. CASE v # w
    BY <1>2, <2>1 DEF IInv, FifoInv, Fifo
  <2>2. CASE v = w
    <3>1. Fifo(w) /\ 1 \in 1 .. Len(q)
      BY <1>1 DEF IInv, FifoInv
    <3>2. /\ \A n \in 1 .. Len(q) :
               /\ 1 <= q[n].batch_id /\ q[n].batch_id < batch_id
               /\ batch[w] # {} => q[n].batch_id < producer_batch_id
          /\ \A m, n \in 1 .. Len(q) : m < n => q[m].batch_id < q[n].batch_id
      BY <3>1 DEF Fifo
    <3>3. /\ batch_id' = batch_id /\ producer_batch_id' = producer_batch_id
          /\ batch' = batch /\ done' = done
      OBVIOUS
    <3> HIDE DEF Take, q
    <3>4. \A m, n \in 1 .. Len(queue'[w]) :
            m < n => queue'[w][m].batch_id < queue'[w][n].batch_id
      <4> SUFFICES ASSUME NEW m \in 1 .. Len(queue'[w]),
                          NEW n \in 1 .. Len(queue'[w]), m < n
                   PROVE  queue'[w][m].batch_id < queue'[w][n].batch_id
        OBVIOUS
      <4>1. m + 1 \in 1 .. Len(q) /\ n + 1 \in 1 .. Len(q) /\ m + 1 < n + 1
        BY <1>6
      <4> QED
        BY <1>6, <3>2, <4>1
    <3>5. \A n \in 1 .. Len(queue'[w]) : node'[w].batch_id < queue'[w][n].batch_id
      BY <1>2, <1>6, <3>2
    <3>6. \A n \in 1 .. Len(queue'[w]) :
             /\ 1 <= queue'[w][n].batch_id /\ queue'[w][n].batch_id < batch_id
             /\ batch[w] # {} => queue'[w][n].batch_id < producer_batch_id
      BY <1>6, <3>2
    <3> QED
      BY <1>2, <1>6, <2>2, <3>2, <3>3, <3>4, <3>5, <3>6 DEF Fifo
  <2> QED
    BY <2>1, <2>2
<1>7. \A v \in Worker : \A k : Holds(v, k)' <=> Holds(v, k)
  <2>1. \A v \in Worker \ {w} : \A k : Holds(v, k)' <=> Holds(v, k)
    BY <1>2 DEF Holds
  <2>2. ASSUME NEW k PROVE Holds(w, k)' <=> Holds(w, k)
    <3>1. (\E n \in 1 .. Len(q) : q[n].batch_id = k)
          <=> \/ q[1].batch_id = k
              \/ \E n \in 1 .. Len(queue'[w]) : queue'[w][n].batch_id = k
      <4>1. ASSUME NEW n \in 1 .. Len(q), q[n].batch_id = k, n # 1
            PROVE  \E m \in 1 .. Len(queue'[w]) : queue'[w][m].batch_id = k
        BY <1>6, <4>1
      <4>2. ASSUME NEW n \in 1 .. Len(queue'[w]), queue'[w][n].batch_id = k
            PROVE  \E m \in 1 .. Len(q) : q[m].batch_id = k
        BY <1>6, <4>2
      <4> QED
        BY <1>6, <4>1, <4>2
    <3> QED
      BY <1>2, <3>1 DEF Holds
  <2> QED
    BY <2>1, <2>2
<1>8. \A v \in Worker : \A e, k : EventIn(e, v, k)' <=> EventIn(e, v, k)
  <2>1. \A v \in Worker \ {w} : \A e, k : EventIn(e, v, k)' <=> EventIn(e, v, k)
    BY <1>2 DEF EventIn
  <2>2. ASSUME NEW e, NEW k PROVE EventIn(e, w, k)' <=> EventIn(e, w, k)
    <3>1. (\E n \in 1 .. Len(q) : q[n].batch_id = k /\ e \in q[n].events)
          <=> \/ q[1].batch_id = k /\ e \in q[1].events
              \/ \E n \in 1 .. Len(queue'[w]) :
                    queue'[w][n].batch_id = k /\ e \in queue'[w][n].events
      BY <1>6
    <3> QED
      BY <1>2, <3>1 DEF EventIn
  <2> QED
    BY <2>1, <2>2
<1> QED
  BY <1>3, <1>4, <1>5, <1>7, <1>8, SameHolders

\* sink_process, whether it succeeds or fails.
LEMMA ProcessStep ==
    ASSUME IInv, NEW w \in Worker, Process(w) \/ ProcessFails(w)
    PROVE  IInv'
<1> USE DEF persistent, source, dedup, saved
<1>1. /\ wstate[w] = "processing" /\ wstate'[w] \in {"acking", "failed"}
      /\ \A v \in Worker \ {w} : wstate'[v] = wstate[v]
      /\ done \subseteq done' /\ done' \subseteq done \cup node[w].events
      /\ wstate'[w] = "acking" => node[w].events \subseteq done'
      /\ UNCHANGED <<persistent, pc, source, dedup, saved, batch, queue, node>>
  BY DEF Process, ProcessFails, IInv, TypeOK
<1>2. pc # "down"
  BY <1>1 DEF IInv, CounterInv, ListInv, Holds, TypeOK, WorkNode
<1>3. TypeOK'
  <2>1. wstate' \in [Worker -> {"idle", "processing", "acking", "failed"}]
    BY DEF IInv, TypeOK, Process, ProcessFails
  <2>2. should_stop' \in BOOLEAN
    BY DEF IInv, TypeOK, Process, ProcessFails
  <2>3. done' \subseteq Event
    BY <1>1 DEF IInv, TypeOK, WorkNode
  <2> QED
    BY <1>1, <2>1, <2>2, <2>3 DEF IInv, TypeOK
<1>4. CounterInv'
  BY <1>1 DEF IInv, CounterInv
<1>5. FifoInv'
  BY <1>1 DEF IInv, FifoInv, Fifo
<1>6. \A v \in Worker : wstate'[v] # "idle" <=> wstate[v] # "idle"
  BY <1>1
<1>7. /\ \A v \in Worker : \A k : Holds(v, k)' <=> Holds(v, k)
      /\ \A v \in Worker : \A e, k : EventIn(e, v, k)' <=> EventIn(e, v, k)
  BY <1>1, <1>6 DEF Holds, EventIn
<1> QED
  BY <1>1, <1>2, <1>3, <1>4, <1>5, <1>7, SameHolders

-----------------------------------------------------------------------------
\* The workers that get a sub-batch of the pool: at least one, because every
\* id has a worker.
LEMMA FlushFacts ==
    ASSUME IInv, Flush
    PROVE  /\ batch_id \in Nat /\ batch_id = producer_batch_id
           /\ \A w \in Worker : batch[w] = {} /\ ~Holds(w, batch_id)
           /\ \A w \in Worker : batch'[w] = {e \in pool : Hash[Id(e)] = w}
           /\ \A e \in pool : Hash[Id(e)] \in Worker
           /\ 1 <= SavedIndex /\ SavedIndex < cursor /\ SavedIndex \in Nat
           /\ \A e \in fsevents_iterator \cup last_fsevent : e[1] > SavedIndex
<1>1. batch_id \in Nat /\ batch_id = producer_batch_id
  BY DEF IInv, TypeOK, CounterInv, Flush
<1>2. \A w \in Worker : batch[w] = {}
  BY <1>1 DEF IInv, CounterInv
<1>3. \A w \in Worker : ~Holds(w, batch_id)
  BY <1>1 DEF IInv, ListInv
<1>4. \A w \in Worker : batch'[w] = {e \in pool : Hash[Id(e)] = w}
  BY DEF Flush, SubBatches
<1>5. ASSUME NEW e \in pool
      PROVE  Hash[Id(e)] \in Worker /\ 1 <= last_changelog_index
  <2>1. /\ e \in Event /\ Real(e) /\ e[1] <= last_changelog_index
        /\ last_changelog_index \in Nat /\ log \in Seq(RecordKinds)
    BY DEF IInv, TypeOK, SourceInv, Unflushed
  <2>2. e[1] \in 1 .. Len(log) /\ log[e[1]] \in RecordKinds
    BY <2>1 DEF Real
  <2>3. log[e[1]] \in Seq(Ids)
    BY <2>2, KindsAssumption
  <2>4. Id(e) \in Ids
    BY <2>1, <2>3 DEF Id, Real
  <2> QED
    BY <2>1, <2>2, <2>4, HashAssumption
<1>6. 1 <= last_changelog_index /\ (~empty => last_changelog_index >= 2)
      /\ last_changelog_index \in Nat /\ last_changelog_index < cursor
      /\ cursor \in Nat
  BY <1>5 DEF Flush, IInv, SourceInv, TypeOK
<1>7. 1 <= SavedIndex /\ SavedIndex < cursor /\ SavedIndex \in Nat
  BY <1>6 DEF SavedIndex
<1>8. \A e \in fsevents_iterator \cup last_fsevent : e[1] > SavedIndex
  BY <1>6 DEF SavedIndex, IInv, SourceInv
<1> QED
  BY <1>1, <1>2, <1>3, <1>4, <1>5, <1>7, <1>8

\* The pool becomes a batch: its index is before whatever was not pushed yet.
LEMMA FlushStep == ASSUME IInv, Flush PROVE IInv'
<1> USE DEF persistent, source, workers
<1> DEFINE got == {w \in Worker : batch'[w] # {}}
<1>b. PICK b : b = batch_id
  OBVIOUS
<1>1. /\ UNCHANGED <<persistent, done, source, last_fsevent, workers,
                     producer_batch_id, should_stop>>
      /\ batch_id' = b + 1 /\ pool' = {} /\ pc = "flush" /\ pc' = "dispatch"
      /\ pool # {} /\ batch' = SubBatches
  BY <1>b DEF Flush, SaveBatch
<1>2. /\ DOMAIN batch_list' = DOMAIN batch_list \cup {b}
      /\ b \notin DOMAIN batch_list
      /\ \A k \in DOMAIN batch_list : batch_list'[k] = batch_list[k]
      /\ batch_list'[b] = [batch_id |-> b, last_changelog_index |-> SavedIndex,
                           ack_required |-> Cardinality(got)]
  BY FlushFacts, <1>1, <1>b DEF Flush, SaveBatch, AddTail, IInv, ListInv
<1>3. /\ \A w \in Worker : \A k :
             Holds(w, k)' <=> Holds(w, k) \/ (batch'[w] # {} /\ k = b)
      /\ \A w \in Worker : \A e, k :
             EventIn(e, w, k)' <=> EventIn(e, w, k) \/ (e \in batch'[w] /\ k = b)
  BY <1>1, <1>b, FlushFacts DEF Holds, EventIn
<1>4. /\ Outstanding(b)' = got
      /\ \A k : k # b => Outstanding(k)' = Outstanding(k)
  BY <1>3, <1>b, FlushFacts DEF Outstanding
<1>5. Cardinality(got) \in Nat /\ Cardinality(got) > 0
  <2>1. IsFiniteSet(got) /\ Cardinality(got) \in Nat
    <3>1. IsFiniteSet(Worker) /\ got \in SUBSET Worker
      BY WorkersAssumption, FS_Interval
    <3> QED
      BY <3>1, FS_Subset, FS_CardinalityType
  <2>2. got # {}
    BY <1>1, FlushFacts
  <2> QED
    BY <2>1, <2>2, FS_EmptySet
<1>6. batch' \in [Worker -> SUBSET Event]
  BY <1>1 DEF SubBatches, IInv, TypeOK
<1> HIDE DEF got
<1>7. TypeOK'
  <2>1. batch_list'[b] \in BatchNode /\ b \in Nat
    BY <1>b, <1>2, <1>5, FlushFacts DEF BatchNode
  <2>2. /\ DOMAIN batch_list' \subseteq Nat
        /\ \A c \in DOMAIN batch_list' : batch_list'[c] \in BatchNode
        /\ batch_id' \in Nat
    BY <1>1, <1>2, <2>1 DEF IInv, TypeOK
  <2> QED
    BY <1>1, <1>6, <2>2 DEF IInv, TypeOK
<1>8. AckSafe'
  BY <1>1 DEF IInv, AckSafe, EventsOf
<1>9. SourceInv'
  <2>1. \A e \in Unflushed' : Real(e)'
    BY <1>1 DEF IInv, SourceInv, Unflushed, Real
  <2> QED
    BY <1>1, <2>1 DEF IInv, SourceInv
<1>10. CounterInv'
  BY <1>b, <1>1, FlushFacts DEF IInv, CounterInv
<1>11. FifoInv'
  <2> SUFFICES ASSUME NEW w \in Worker PROVE Fifo(w)'
    BY DEF FifoInv
  <2>1. Fifo(w) /\ batch_id = producer_batch_id /\ batch_id \in Nat
    BY FlushFacts DEF IInv, FifoInv
  <2>2. node[w] \in WorkNode /\ queue[w] \in Seq(WorkNode)
    BY DEF IInv, TypeOK
  <2>3. node[w].batch_id \in Nat
        /\ \A n \in 1 .. Len(queue[w]) : queue[w][n].batch_id \in Nat
    BY <2>2, NodesOf DEF WorkNode
  <2> QED
    BY <1>b, <1>1, <2>1, <2>3 DEF Fifo
<1>12. ListInv'
  <2>1. ASSUME NEW w \in Worker, NEW k \in Nat, Holds(w, k)'
        PROVE  k \in DOMAIN batch_list'
    BY <1>2, <1>3, <2>1 DEF IInv, ListInv
  <2>2. ASSUME NEW k \in DOMAIN batch_list
        PROVE  /\ k < batch_id'
               /\ batch_list'[k].batch_id = k
               /\ 1 <= batch_list'[k].last_changelog_index
               /\ batch_list'[k].last_changelog_index < cursor'
               /\ batch_list'[k].ack_required = Cardinality(Outstanding(k)')
               /\ \/ batch_list'[k].ack_required > 0
                  \/ \E v \in Worker : \A j \in Nat : Holds(v, j)' => j > k
    <3>1. k \in Nat /\ b \in Nat /\ k < b /\ k # b /\ batch_list'[k] = batch_list[k]
      BY <1>b, <1>2, FlushFacts DEF IInv, ListInv, TypeOK
    <3>2. \/ batch_list'[k].ack_required > 0
          \/ \E v \in Worker : \A j \in Nat : Holds(v, j)' => j > k
      BY <1>3, <3>1 DEF IInv, ListInv
    <3> QED
      BY <1>1, <1>4, <3>1, <3>2 DEF IInv, ListInv
  <2>3. /\ b < batch_id' /\ batch_list'[b].batch_id = b
        /\ 1 <= batch_list'[b].last_changelog_index
        /\ batch_list'[b].last_changelog_index < cursor'
        /\ batch_list'[b].ack_required = Cardinality(Outstanding(b)')
        /\ batch_list'[b].ack_required > 0
    <3>1. b \in Nat
      BY <1>b, FlushFacts
    <3> QED
      BY <1>1, <1>2, <1>4, <1>5, <3>1, FlushFacts
  <2>4. \A k \in DOMAIN batch_list' : k \in DOMAIN batch_list \/ k = b
    BY <1>2
  <2> QED
    BY <2>1, <2>2, <2>3, <2>4 DEF ListInv
<1>13. OrderInv'
  <2>1. ASSUME NEW k \in DOMAIN batch_list
        PROVE  /\ \A e \in Unflushed' : e[1] > batch_list'[k].last_changelog_index
               /\ \A w \in Worker : \A j \in Nat : \A e \in Event :
                     j > k /\ EventIn(e, w, j)' =>
                        e[1] > batch_list'[k].last_changelog_index
    <3>1. /\ batch_list'[k] = batch_list[k]
          /\ \A e \in Unflushed : e[1] > batch_list[k].last_changelog_index
          /\ Unflushed' \subseteq Unflushed
          /\ \A w \in Worker : batch'[w] \subseteq Unflushed
      BY <1>1, <1>2, FlushFacts DEF IInv, OrderInv, Unflushed
    <3> QED
      BY <1>3, <3>1 DEF IInv, OrderInv
  <2>2. /\ \A e \in Unflushed' : e[1] > batch_list'[b].last_changelog_index
        /\ \A w \in Worker : \A j \in Nat : \A e \in Event :
              j > b => ~EventIn(e, w, j)'
    <3>1. Unflushed' = fsevents_iterator \cup last_fsevent
      BY <1>1 DEF Unflushed
    <3>2. ASSUME NEW w \in Worker, NEW j \in Nat, NEW e, j > b, EventIn(e, w, j)'
          PROVE  FALSE
      <4>1. b \in Nat /\ EventIn(e, w, j)
        BY <1>b, <1>3, <3>2, FlushFacts
      <4>2. j \in DOMAIN batch_list
        BY <4>1, EventHeld DEF IInv, ListInv
      <4> QED
        BY <1>b, <3>2, <4>1, <4>2 DEF IInv, ListInv
    <3> QED
      BY <1>2, <3>1, <3>2, FlushFacts
  <2>3. \A k \in DOMAIN batch_list' : k \in DOMAIN batch_list \/ k = b
    BY <1>2
  <2> QED
    BY <2>1, <2>2, <2>3 DEF OrderInv
<1>14. TrackInv'
  <2> SUFFICES ASSUME NEW i \in 1 .. Len(log), i < cursor, NEW e \in EventsOf(i)
               PROVE  \/ e \in done
                      \/ e \in Unflushed'
                      \/ \E w \in Worker : \E k \in Nat : EventIn(e, w, k)'
    BY <1>1 DEF TrackInv, EventsOf
  <2>1. CASE e \in pool
    BY <1>b, <1>3, <2>1, FlushFacts
  <2>2. CASE e \notin pool
    BY <1>1, <1>3, <2>2 DEF IInv, TrackInv, Unflushed
  <2> QED
    BY <2>1, <2>2
<1>15. LastInv'
  BY <1>1 DEF IInv, LastInv
<1> QED
  BY <1>7, <1>8, <1>9, <1>10, <1>11, <1>12, <1>13, <1>14, <1>15 DEF IInv

-----------------------------------------------------------------------------
\* The worker that acknowledges holds its batch once, and holds nothing older.
LEMMA AckingWorker ==
    ASSUME IInv, NEW w \in Worker, wstate[w] = "acking"
    PROVE  /\ node[w].batch_id \in Nat /\ node[w].batch_id \in DOMAIN batch_list
           /\ Holds(w, node[w].batch_id) /\ pc # "down"
           /\ \A e, k : EventIn(e, w, k) =>
                 \/ k = node[w].batch_id /\ e \in done
                 \/ k # node[w].batch_id
           /\ batch[w] # {} => producer_batch_id > node[w].batch_id
           /\ \A n \in 1 .. Len(queue[w]) :
                 queue[w][n].batch_id > node[w].batch_id
<1>1. node[w].batch_id \in Nat
  BY DEF IInv, TypeOK, WorkNode
<1>2. Holds(w, node[w].batch_id)
  BY DEF Holds
<1>3. node[w].batch_id \in DOMAIN batch_list
  BY <1>1, <1>2 DEF IInv, ListInv
<1>4. pc # "down"
  BY <1>3 DEF IInv, CounterInv
<1>5. queue[w] \in Seq(WorkNode) /\ producer_batch_id \in Nat
  BY DEF IInv, TypeOK
<1>6. \A n \in 1 .. Len(queue[w]) : queue[w][n].batch_id \in Nat
  BY <1>5, NodesOf
<1>7. Fifo(w)
  BY DEF IInv, FifoInv
<1>8. /\ batch[w] # {} => producer_batch_id > node[w].batch_id
      /\ \A n \in 1 .. Len(queue[w]) : queue[w][n].batch_id > node[w].batch_id
      /\ node[w].events \subseteq done
  BY <1>1, <1>5, <1>6, <1>7 DEF Fifo
<1>9. ASSUME NEW e, NEW k, EventIn(e, w, k), k = node[w].batch_id
      PROVE  e \in done
  BY <1>1, <1>5, <1>6, <1>8, <1>9 DEF EventIn
<1> QED
  BY <1>1, <1>2, <1>3, <1>4, <1>8, <1>9

\* The heart of the acknowledgment: when one of at most two workers
\* acknowledges its batch, whatever else is held is newer than every batch
\* that lustre_changelog_ack_batch clears.
LEMMA ClearableIsOldest ==
    ASSUME IInv, SafeSetting, NEW w \in Worker, wstate[w] = "acking",
           NEW c \in Clearable(batch_list, node[w].batch_id),
           NEW v \in Worker, NEW k \in Nat, Holds(v, k),
           v # w \/ k # node[w].batch_id
    PROVE  k > c
<1> DEFINE b == node[w].batch_id
<1>1. /\ b \in Nat /\ b \in DOMAIN batch_list /\ Holds(w, b)
      /\ k \in DOMAIN batch_list /\ c \in DOMAIN batch_list
      /\ c \in Nat
  BY AckingWorker DEF IInv, ListInv, Clearable, TypeOK
<1>2. /\ batch_list[k].batch_id = k /\ batch_list[c].batch_id = c
      /\ batch_list[k].ack_required = Cardinality(Outstanding(k))
      /\ batch_list[c].ack_required \in Nat
      /\ \/ batch_list[c].ack_required > 0
         \/ \E u \in Worker : \A j \in Nat : Holds(u, j) => j > c
  BY <1>1 DEF IInv, ListInv, TypeOK, BatchNode
<1>3. batch_list[k].ack_required > 0
  <2>1. v \in Outstanding(k)
    BY DEF Outstanding
  <2> QED
    BY <1>2, <2>1, OutstandingFinite, FS_EmptySet
<1>4. /\ Reached(batch_list, b, c) /\ CanClear(batch_list, b, c)
      /\ Decremented(batch_list, b)[c].ack_required = 0
  BY DEF Clearable
<1> SUFFICES ASSUME k <= c PROVE FALSE
  BY <1>1
<1>5. k = b
  BY <1>1, <1>2, <1>3, <1>4 DEF Reached, CanClear
<1>6. v # w /\ {v, w} \subseteq Outstanding(b)
  BY <1>1, <1>5 DEF Outstanding
<1>7. Worker \subseteq {v, w}
  BY <1>6, WorkersAssumption DEF SafeSetting
<1>8. CASE c = b
  <2>1. batch_list[b].ack_required - 1 = 0
    BY <1>1, <1>2, <1>4, <1>8 DEF Decremented, IInv, TypeOK, BatchNode
  <2>2. Cardinality(Outstanding(b)) = 1
    BY <1>2, <1>5, <2>1, OutstandingFinite
  <2>3. \E x : Outstanding(b) = {x}
    BY <2>2, OutstandingFinite, FS_Singleton
  <2> QED
    BY <1>6, <2>3
<1>9. CASE c # b
  <2>1. batch_list[c].ack_required = 0
    BY <1>1, <1>2, <1>4, <1>9 DEF Decremented
  <2>2. PICK u \in Worker : \A j \in Nat : Holds(u, j) => j > c
    BY <1>2, <2>1
  <2>3. Holds(u, b)
    BY <1>1, <1>5, <1>7
  <2> QED
    BY <1>1, <1>5, <2>2, <2>3
<1> QED
  BY <1>8, <1>9

\* Every record a cleared batch covers is stored.
LEMMA ClearedIsDone ==
    ASSUME IInv, SafeSetting, NEW w \in Worker, wstate[w] = "acking",
           NEW c \in Clearable(batch_list, node[w].batch_id),
           NEW i \in 1 .. Len(log), i <= batch_list[c].last_changelog_index
    PROVE  EventsOf(i) \subseteq done
<1>1. c \in DOMAIN batch_list /\ c \in Nat
  BY DEF Clearable, IInv, TypeOK
<1>2. i < cursor
  BY <1>1 DEF IInv, ListInv, TypeOK, BatchNode
<1> SUFFICES ASSUME NEW e \in EventsOf(i), e \notin done PROVE FALSE
  OBVIOUS
<1>3. e[1] = i /\ e \in Event
  BY KindsAssumption DEF EventsOf, IInv, TypeOK
<1>4. ~(e[1] > batch_list[c].last_changelog_index)
  BY <1>1, <1>3 DEF IInv, TypeOK, BatchNode
<1>5. e \notin Unflushed
  BY <1>1, <1>4 DEF IInv, OrderInv
<1>6. PICK v \in Worker, k \in Nat : EventIn(e, v, k)
  BY <1>2, <1>5, AckingWorker DEF IInv, TrackInv
<1>7. v # w \/ k # node[w].batch_id
  BY <1>6, AckingWorker
<1>8. k > c
  BY <1>6, <1>7, EventHeld, ClearableIsOldest
<1> QED
  BY <1>1, <1>3, <1>4, <1>6, <1>8 DEF IInv, OrderInv

\* Clearing any of these batches, and recording any of their indexes, is safe.
LEMMA ClearingIsSafe ==
    ASSUME IInv, SafeSetting, NEW w \in Worker, wstate[w] = "acking",
           NEW N \in SUBSET Clearable(batch_list, node[w].batch_id),
           NEW M \in SUBSET Clearable(batch_list, node[w].batch_id),
           purged' = purged \cup Cleared(N), SetLastRead(M),
           UNCHANGED <<log, done>>
    PROVE  /\ AckSafe'
           /\ purged' \subseteq 1 .. Len(log)
           /\ last_read' \in Nat /\ last_read' <= Len(log)
<1>1. \A c \in N \cup M :
        /\ c \in DOMAIN batch_list
        /\ batch_list[c].last_changelog_index \in Nat
        /\ 1 <= batch_list[c].last_changelog_index
        /\ batch_list[c].last_changelog_index <= Len(log)
  <2>1. /\ \A c \in N \cup M : c \in DOMAIN batch_list
        /\ cursor <= Len(log) + 1 /\ cursor \in Nat /\ Len(log) \in Nat
    BY DEF Clearable, IInv, SourceInv, TypeOK
  <2> QED
    BY <2>1 DEF IInv, ListInv, TypeOK, BatchNode
<1>2. \A i \in Cleared(N) : i \in 1 .. Len(log) /\ EventsOf(i) \subseteq done
  <2> SUFFICES ASSUME NEW i \in Cleared(N)
               PROVE  i \in 1 .. Len(log) /\ EventsOf(i) \subseteq done
    OBVIOUS
  <2>1. PICK c \in N : i \in 1 .. Len(log) /\ i <= batch_list[c].last_changelog_index
    BY <1>1 DEF Cleared
  <2> QED
    BY <2>1, ClearedIsDone
<1>3. /\ last_read' \in Nat /\ last_read' <= Len(log)
      /\ \A i \in 1 .. Len(log) : i <= last_read' => EventsOf(i) \subseteq done
  <2>1. CASE last_read' = last_read
    BY <2>1 DEF IInv, AckSafe, SourceInv, TypeOK
  <2>2. CASE \E m \in M : last_read' = batch_list[m].last_changelog_index
    BY <1>1, <2>2, ClearedIsDone
  <2> QED
    BY <2>1, <2>2 DEF SetLastRead
<1>4. purged' \subseteq 1 .. Len(log)
  BY <1>2 DEF IInv, SourceInv
<1>5. AckSafe'
  <2> SUFFICES ASSUME NEW i \in 1 .. Len(log), i \in purged' \/ i <= last_read'
               PROVE  EventsOf(i) \subseteq done
    BY DEF AckSafe, EventsOf
  <2>1. CASE i \in purged
    BY <2>1 DEF IInv, AckSafe
  <2>2. CASE i \in Cleared(N)
    BY <1>2, <2>2
  <2>3. CASE i <= last_read'
    BY <1>3, <2>3
  <2> QED
    BY <2>1, <2>2, <2>3
<1> QED
  BY <1>3, <1>4, <1>5

\* A crash between two of the calls that clear.
LEMMA CrashInAckStep ==
    ASSUME IInv, SafeSetting, NEW w \in Worker, CrashInAck(w)
    PROVE  IInv'
<1> DEFINE nodes == Clearable(batch_list, node[w].batch_id)
<1>1. /\ wstate[w] = "acking" /\ LoseMemory /\ UNCHANGED <<log, runs, done>>
      /\ \E N, M \in SUBSET nodes : purged' = purged \cup Cleared(N) /\ SetLastRead(M)
  <2>1. PICK m \in nodes :
          /\ purged' = purged \cup Cleared({c \in nodes : c <= m})
          /\ \/ SetLastRead({c \in nodes : c < m})
             \/ SetLastRead({c \in nodes : c <= m})
    BY DEF CrashInAck
  <2>2. /\ {c \in nodes : c <= m} \in SUBSET nodes
        /\ {c \in nodes : c < m} \in SUBSET nodes
    OBVIOUS
  <2> HIDE DEF nodes
  <2>3. \E N, M \in SUBSET nodes : purged' = purged \cup Cleared(N) /\ SetLastRead(M)
    BY <2>1, <2>2
  <2> QED
    BY <2>3 DEF CrashInAck
<1>2. /\ AckSafe' /\ purged' \subseteq 1 .. Len(log)
      /\ last_read' \in Nat /\ last_read' <= Len(log)
  BY <1>1, ClearingIsSafe
<1> QED
  BY <1>1, <1>2, LoseMemoryStep

\* One acknowledgment: the worker lets go of its batch, and the nodes that are
\* removed are held by nobody.
LEMMA AckStep ==
    ASSUME IInv, SafeSetting, NEW w \in Worker, Ack(w)
    PROVE  IInv'
<1> USE DEF source, dedup
<1>b. PICK b : b = node[w].batch_id
  OBVIOUS
<1> DEFINE nodes == Clearable(batch_list, b)
<1>1. /\ wstate[w] = "acking" /\ purged' = purged \cup Cleared(nodes)
      /\ SetLastRead(nodes) /\ batch_list' = AfterAck(batch_list, b)
      /\ wstate' = [wstate EXCEPT ![w] = "idle"]
      /\ node' = [node EXCEPT ![w] = NoNode]
      /\ UNCHANGED <<log, runs, done, pc, source, dedup, batch_id,
                     producer_batch_id, batch, queue, should_stop>>
  BY <1>b DEF Ack
<1>2. /\ b \in Nat /\ b \in DOMAIN batch_list /\ Holds(w, b) /\ pc # "down"
      /\ \A e : EventIn(e, w, b) => e \in done
      /\ batch[w] # {} => producer_batch_id > b
      /\ \A n \in 1 .. Len(queue[w]) : queue[w][n].batch_id > b
  BY <1>1, <1>b, AckingWorker
<1>3. /\ AckSafe' /\ purged' \subseteq 1 .. Len(log)
      /\ last_read' \in Nat /\ last_read' <= Len(log)
  BY <1>1, <1>b, ClearingIsSafe
<1>4. /\ wstate'[w] = "idle" /\ node'[w] = NoNode
      /\ \A v \in Worker \ {w} : wstate'[v] = wstate[v] /\ node'[v] = node[v]
      /\ wstate' \in [Worker -> {"idle", "processing", "acking", "failed"}]
      /\ node' \in [Worker -> WorkNode]
  BY <1>1 DEF IInv, TypeOK, NoNode, WorkNode
<1>5. /\ \A v \in Worker : \A k :
             Holds(v, k)' <=> Holds(v, k) /\ ~(v = w /\ k = b)
      /\ \A v \in Worker : \A e, k :
             EventIn(e, v, k)' <=> EventIn(e, v, k) /\ ~(v = w /\ k = b)
  <2>1. ASSUME NEW v \in Worker, v # w
        PROVE  /\ \A k : Holds(v, k)' <=> Holds(v, k)
               /\ \A e, k : EventIn(e, v, k)' <=> EventIn(e, v, k)
    BY <1>1, <1>4, <2>1 DEF Holds, EventIn
  <2>2. producer_batch_id # b \/ batch[w] = {}
    BY <1>2 DEF IInv, TypeOK
  <2>3. \A n \in 1 .. Len(queue[w]) : queue[w][n].batch_id # b
    <3>1. queue[w] \in Seq(WorkNode)
      BY DEF IInv, TypeOK
    <3> QED
      BY <1>2, <3>1, NodesOf
  <2>4. /\ \A k : Holds(w, k)' <=> Holds(w, k) /\ k # b
        /\ \A e, k : EventIn(e, w, k)' <=> EventIn(e, w, k) /\ k # b
    BY <1>b, <1>1, <1>4, <2>2, <2>3 DEF Holds, EventIn
  <2> QED
    BY <2>1, <2>4
<1>6. /\ Outstanding(b)' = Outstanding(b) \ {w} /\ w \in Outstanding(b)
      /\ \A k : k # b => Outstanding(k)' = Outstanding(k)
  BY <1>2, <1>5 DEF Outstanding
<1>7. /\ Cardinality(Outstanding(b)') = Cardinality(Outstanding(b)) - 1
      /\ Cardinality(Outstanding(b)') \in Nat
  BY <1>6, OutstandingFinite, FS_RemoveElement, FS_CardinalityType
<1>8. /\ DOMAIN batch_list' = DOMAIN batch_list \ nodes
      /\ \A k \in DOMAIN batch_list' :
           /\ batch_list'[k] \in BatchNode
           /\ batch_list'[k].batch_id = k
           /\ batch_list'[k].last_changelog_index =
                batch_list[k].last_changelog_index
           /\ batch_list'[k].ack_required = Cardinality(Outstanding(k)')
           /\ k # b => batch_list'[k] = batch_list[k]
  <2>1. DOMAIN batch_list' = DOMAIN batch_list \ nodes
    BY <1>1 DEF AfterAck
  <2>2. ASSUME NEW k \in DOMAIN batch_list'
        PROVE  /\ batch_list[k] \in BatchNode /\ batch_list[k].batch_id = k
               /\ batch_list[k].ack_required = Cardinality(Outstanding(k))
               /\ batch_list'[k] = IF k = b
                    THEN [batch_list[k] EXCEPT !.ack_required = @ - 1]
                    ELSE batch_list[k]
    BY <1>1, <2>1 DEF AfterAck, Decremented, IInv, ListInv, TypeOK
  <2>3. ASSUME NEW k \in DOMAIN batch_list', k # b
        PROVE  /\ batch_list'[k] = batch_list[k]
               /\ batch_list'[k].ack_required = Cardinality(Outstanding(k)')
    BY <1>6, <2>2, <2>3
  <2>4. ASSUME b \in DOMAIN batch_list'
        PROVE  /\ batch_list'[b] \in BatchNode
               /\ batch_list'[b].batch_id = b
               /\ batch_list'[b].last_changelog_index =
                    batch_list[b].last_changelog_index
               /\ batch_list'[b].ack_required = Cardinality(Outstanding(b)')
    BY <1>7, <2>2, <2>4 DEF BatchNode
  <2> QED
    BY <2>1, <2>2, <2>3, <2>4
<1> HIDE DEF nodes
<1>9. ASSUME NEW v \in Worker, NEW k \in Nat, Holds(v, k)'
      PROVE  k \in DOMAIN batch_list'
  <2>1. Holds(v, k) /\ (v # w \/ k # b) /\ k \in DOMAIN batch_list
    BY <1>5, <1>9 DEF IInv, ListInv
  <2>2. k \notin nodes
    BY <1>1, <1>b, <2>1, ClearableIsOldest DEF nodes
  <2> QED
    BY <1>8, <2>1, <2>2
<1>10. TypeOK'
  <2>1. /\ DOMAIN batch_list' \subseteq Nat
        /\ \A k \in DOMAIN batch_list' : batch_list'[k] \in BatchNode
        /\ purged' \subseteq Nat
    BY <1>3, <1>8 DEF IInv, TypeOK
  <2> QED
    BY <1>1, <1>3, <1>4, <2>1 DEF IInv, TypeOK
<1>11. SourceInv'
  <2>1. \A e \in Unflushed' : Real(e)'
    BY <1>1 DEF IInv, SourceInv, Unflushed, Real
  <2>2. /\ log' = log /\ cursor' = cursor /\ pc' = pc /\ empty' = empty
        /\ last_changelog_index' = last_changelog_index /\ pool' = pool
        /\ fsevents_iterator' = fsevents_iterator
        /\ last_fsevent' = last_fsevent /\ Unflushed' = Unflushed
    BY <1>1 DEF Unflushed
  <2>3. /\ last_read' <= Len(log') /\ purged' \subseteq 1 .. Len(log')
    BY <1>3, <2>2
  <2>4. SourceInv
    BY DEF IInv
  <2> QED
    BY <2>1, <2>2, <2>3, <2>4 DEF SourceInv
<1>12. CounterInv'
  BY <1>1, <1>2 DEF IInv, CounterInv
<1>13. FifoInv'
  <2> SUFFICES ASSUME NEW v \in Worker PROVE Fifo(v)'
    BY DEF FifoInv
  <2>1. Fifo(v)
    BY DEF IInv, FifoInv
  <2>2. CASE v = w
    BY <1>1, <1>4, <2>1, <2>2 DEF Fifo
  <2>3. CASE v # w
    BY <1>1, <1>4, <2>1, <2>3 DEF Fifo
  <2> QED
    BY <2>2, <2>3
<1>14. ListInv'
  <2>1. ASSUME NEW k \in DOMAIN batch_list'
        PROVE  \/ batch_list'[k].ack_required > 0
               \/ \E v \in Worker : \A j \in Nat : Holds(v, j)' => j > k
    <3>1. CASE k # b
      BY <1>5, <1>8, <3>1 DEF IInv, ListInv
    <3>2. CASE k = b
      <4>1. ASSUME NEW j \in Nat, Holds(w, j)' PROVE j > b
        <5>1. wstate'[w] = "idle" /\ batch' = batch /\ queue' = queue
              /\ producer_batch_id' = producer_batch_id
          BY <1>1, <1>4
        <5> QED
          BY <1>2, <4>1, <5>1 DEF Holds
      <4> QED
        BY <3>2, <4>1
    <3> QED
      BY <3>1, <3>2
  <2>2. ASSUME NEW k \in DOMAIN batch_list'
        PROVE  /\ k < batch_id'
               /\ 1 <= batch_list'[k].last_changelog_index
               /\ batch_list'[k].last_changelog_index < cursor'
    BY <1>1, <1>8 DEF IInv, ListInv
  <2> QED
    BY <1>8, <1>9, <2>1, <2>2 DEF ListInv
<1>15. OrderInv'
  BY <1>1, <1>5, <1>8 DEF IInv, OrderInv, Unflushed
<1>16. TrackInv'
  <2> SUFFICES ASSUME NEW i \in 1 .. Len(log), i < cursor, NEW e \in EventsOf(i)
               PROVE  \/ e \in done
                      \/ e \in Unflushed
                      \/ \E v \in Worker : \E k \in Nat : EventIn(e, v, k)'
    BY <1>1 DEF TrackInv, EventsOf, Unflushed
  <2> QED
    BY <1>2, <1>5 DEF IInv, TrackInv
<1>17. LastInv'
  BY <1>1 DEF IInv, LastInv
<1> QED
  BY <1>3, <1>10, <1>11, <1>12, <1>13, <1>14, <1>15, <1>16, <1>17 DEF IInv

-----------------------------------------------------------------------------
\* A step that changes nothing the invariant reads.
LEMMA StutterStep == ASSUME IInv, UNCHANGED vars PROVE IInv'
<1> USE DEF vars, persistent, source, dedup, saved, workers
<1>1. TypeOK' /\ AckSafe' /\ SourceInv' /\ CounterInv' /\ LastInv'
  BY DEF IInv, TypeOK, AckSafe, EventsOf, SourceInv, Unflushed, Real,
         CounterInv, LastInv
<1>2. FifoInv' /\ TrackInv'
  BY HoldsFrame DEF IInv, FifoInv, Fifo, TrackInv, Unflushed, EventsOf
<1>3. ListInv' /\ OrderInv'
  BY HoldsFrame DEF IInv, ListInv, OrderInv, Unflushed
<1> QED
  BY <1>1, <1>2, <1>3 DEF IInv

\* Every step keeps the invariant.
LEMMA NextStep == ASSUME SafeSetting, IInv, [Next]_vars PROVE IInv'
<1>1. CASE \E ids \in RecordKinds : MdtLog(ids)
  BY <1>1, MdtLogStep
<1>2. CASE Start
  BY <1>2, StartStep
<1>3. CASE Crash
  BY <1>3, CrashStep
<1>4. CASE Producer
  <2>1. CASE PushLast
    BY <2>1, PushLastStep
  <2>2. CASE NextFsevent
    BY <2>2, NextFseventStep
  <2>3. CASE RecvManaged
    BY <2>3, RecvManagedStep
  <2>4. CASE RecvUnmanaged
    BY <2>4, RecvUnmanagedStep
  <2>5. CASE EndOfData
    BY <2>5, EndOfDataStep
  <2>6. CASE RecvError
    <3>1. should_stop' \in BOOLEAN
      BY <2>6 DEF RecvError
    <3>2. /\ pc # "down" /\ pc' = "end"
          /\ UNCHANGED <<persistent, done, source, dedup, saved, batch, workers>>
      BY <2>6, ReceivingEmpty DEF RecvError
    <3> QED
      BY <3>1, <3>2, StopStep
  <2>7. CASE FlushNothing \/ DispatchStopped
    <3>1. should_stop' \in BOOLEAN
      BY <2>7 DEF FlushNothing, DispatchStopped, IInv, TypeOK
    <3>2. /\ pc # "down" /\ pc' = "end"
          /\ UNCHANGED <<persistent, done, source, dedup, saved, batch, workers>>
      BY <2>7 DEF FlushNothing, DispatchStopped
    <3> QED
      BY <3>1, <3>2, StopStep
  <2>8. CASE Flush
    BY <2>8, FlushStep
  <2>9. CASE DispatchDone
    BY <2>9, DispatchDoneStep
  <2>10. CASE \E w \in Worker : Dispatch(w)
    BY <2>10, DispatchStep
  <2> QED
    BY <1>4, <2>1, <2>2, <2>3, <2>4, <2>5, <2>6, <2>7, <2>8, <2>9, <2>10
       DEF Producer
<1>5. CASE \E w \in Worker : Consumer(w)
  <2>1. PICK w \in Worker : Consumer(w)
    BY <1>5
  <2>2. CASE Take(w)
    BY <2>2, TakeStep
  <2>3. CASE Process(w) \/ ProcessFails(w)
    BY <2>3, ProcessStep
  <2>4. CASE Ack(w)
    BY <2>4, AckStep
  <2>5. CASE CrashInAck(w)
    BY <2>5, CrashInAckStep
  <2> QED
    BY <2>1, <2>2, <2>3, <2>4, <2>5 DEF Consumer
<1>6. CASE UNCHANGED vars
  BY <1>6, StutterStep
<1> QED
  BY <1>1, <1>2, <1>3, <1>4, <1>5, <1>6 DEF Next

\* In the safe setting the whole invariant holds in every reachable state.
THEOREM Invariance == ASSUME SafeSetting PROVE Spec => []IInv
<1>1. Init => IInv
  BY InitInv
<1>2. IInv /\ [Next]_vars => IInv'
  BY NextStep
<1> QED
  BY <1>1, <1>2, PTL DEF Spec

\* Every variable keeps the type of the C object it stands for.
THEOREM TypeCorrect == ASSUME SafeSetting PROVE Spec => []TypeOK
<1>1. IInv => TypeOK
  BY DEF IInv
<1> QED
  BY <1>1, Invariance, PTL

\* With at most two workers, a reader that is done once it has reported the
\* end and a pool no single record fills, no record is dropped by the MDT or
\* skipped by a restart before all its fsevents are stored, for any number of
\* records, ids, runs and crashes (lustre_changelog_ack_batch).
THEOREM AcknowledgedIsStored == ASSUME SafeSetting PROVE Spec => []AckSafe
<1>1. IInv => AckSafe
  BY DEF IInv
<1> QED
  BY <1>1, Invariance, PTL
-----------------------------------------------------------------------------
(* last_read never moves back.                                             *)

\* What the next batch saved would acknowledge, at least.
Saveable ==
    IF empty \/ changelog_read = 0 THEN last_changelog_index
                                   ELSE last_changelog_index - 1

\* The nodes of the list have indexes that never decrease, between last_read and
\* what the next one will have; and a pool that is flushed because it is full was
\* filled by records of this run.
ForwardInv ==
    /\ pc # "down" => last_read <= Saveable
    /\ \A k \in DOMAIN batch_list :
          /\ last_read <= batch_list[k].last_changelog_index
          /\ batch_list[k].last_changelog_index <= Saveable
          /\ \A j \in DOMAIN batch_list :
                j <= k => batch_list[j].last_changelog_index
                            <= batch_list[k].last_changelog_index
    /\ Unflushed # {} => changelog_read > 0
    /\ pc = "flush" /\ ~empty => changelog_read > 0

\* The indexes are numbers.
LEMMA Indexes ==
    ASSUME IInv
    PROVE  /\ last_read \in Nat /\ last_changelog_index \in Nat /\ Saveable \in Int
           /\ changelog_read \in Nat
           /\ \A k \in DOMAIN batch_list :
                 k \in Nat /\ batch_list[k].last_changelog_index \in Nat
BY DEF IInv, TypeOK, BatchNode, Saveable

\* A step that leaves the list and last_read alone, and does not lower what the
\* next batch would acknowledge.
LEMMA ForwardFrame ==
    ASSUME IInv, ForwardInv, UNCHANGED <<last_read, batch_list>>,
           Saveable' \in Int, Saveable <= Saveable', pc # "down",
           Unflushed' # {} => changelog_read' > 0,
           pc' = "flush" /\ ~empty' => changelog_read' > 0
    PROVE  ForwardInv'
<1>1. last_read <= Saveable'
  BY Indexes DEF ForwardInv
<1>2. \A k \in DOMAIN batch_list : batch_list[k].last_changelog_index <= Saveable'
  BY Indexes DEF ForwardInv
<1> QED
  BY <1>1, <1>2 DEF ForwardInv

\* A push keeps to the records that were read.
LEMMA ForwardPush ==
    ASSUME IInv, ForwardInv, NEW e, Push(e), UNCHANGED <<last_read, batch_list>>,
           Saveable' \in Int, Saveable <= Saveable', pc # "down", changelog_read' > 0
    PROVE  ForwardInv'
BY ForwardFrame

\* A record that is read comes after all those that were saved.
LEMMA ForwardRead ==
    ASSUME IInv, ForwardInv, SafeSetting, NEW i \in cursor .. Len(log), ReadRecord(i)
    PROVE  changelog_read' > 0 /\ Saveable' \in Int /\ Saveable <= Saveable'
<1>1. /\ cursor \in Nat /\ last_changelog_index < cursor /\ ~empty /\ empty' = empty
      /\ last_changelog_index' = i /\ changelog_read' = changelog_read + 1
  BY SkippedDone DEF ReadRecord, IInv, SourceInv, TypeOK
<1> QED
  BY <1>1, Indexes DEF Saveable

\* The nodes that an acknowledgment leaves in the list are newer than all those
\* it removes.
LEMMA RemainingIsNewer ==
    ASSUME IInv, SafeSetting, NEW w \in Worker, wstate[w] = "acking",
           NEW c \in Clearable(batch_list, node[w].batch_id),
           NEW k \in DOMAIN batch_list, k \notin Clearable(batch_list, node[w].batch_id)
    PROVE  k > c
<1> DEFINE b == node[w].batch_id
<1>1. /\ b \in Nat /\ b \in DOMAIN batch_list /\ Holds(w, b)
      /\ c \in DOMAIN batch_list /\ c \in Nat /\ k \in Nat
  BY AckingWorker, Indexes DEF Clearable
<1>2. /\ batch_list[k].batch_id = k
      /\ batch_list[k].ack_required = Cardinality(Outstanding(k))
      /\ batch_list[k].ack_required \in Nat
      /\ batch_list[k] \in BatchNode
  BY <1>1 DEF IInv, ListInv, TypeOK, BatchNode
<1> SUFFICES ASSUME k <= c PROVE FALSE
  BY <1>1
<1>3. Reached(batch_list, b, c) /\ CanClear(batch_list, b, c)
  BY DEF Clearable
<1>4. Reached(batch_list, b, k) /\ CanClear(batch_list, b, k)
  <2>1. \A d \in DOMAIN batch_list : d <= k => d <= c
    BY <1>1, Indexes
  <2> QED
    BY <1>3, <2>1 DEF Reached, CanClear
<1>5. Decremented(batch_list, b)[k].ack_required # 0
  BY <1>4 DEF Clearable
<1>6. CASE k # b
  <2>1. batch_list[k].ack_required > 0
    BY <1>2, <1>5, <1>6 DEF Decremented
  <2> QED
    BY <1>1, <1>2, <1>4, <1>6, <2>1 DEF Reached, CanClear
<1>7. CASE k = b
  <2>1. Cardinality(Outstanding(b)) # 1
    BY <1>2, <1>5, <1>7 DEF Decremented, BatchNode
  <2>2. Outstanding(b) # {w}
    BY <2>1, FS_Singleton
  <2>3. PICK v \in Worker : v # w /\ Holds(v, b)
    BY <1>1, <2>2 DEF Outstanding
  <2>4. b > c
    BY <1>1, <2>3, ClearableIsOldest
  <2> QED
    BY <1>1, <1>7, <2>4
<1> QED
  BY <1>6, <1>7

\* What is written to last_read is an index of the list, so it is not older than
\* what was there.
LEMMA WrittenForward ==
    ASSUME IInv, ForwardInv, NEW M \in SUBSET DOMAIN batch_list, SetLastRead(M)
    PROVE  last_read' \in Nat /\ last_read' >= last_read
<1>1. CASE last_read' = last_read
  BY <1>1, Indexes
<1>2. CASE \E m \in M : last_read' = batch_list[m].last_changelog_index
  BY <1>2, Indexes DEF ForwardInv
<1> QED
  BY <1>1, <1>2 DEF SetLastRead

\* An acknowledgment leaves the nodes whose index is not before last_read.
LEMMA ForwardAck ==
    ASSUME IInv, ForwardInv, SafeSetting, NEW w \in Worker, Ack(w)
    PROVE  ForwardInv' /\ last_read' >= last_read
<1> DEFINE nodes == Clearable(batch_list, node[w].batch_id)
<1>1. /\ wstate[w] = "acking" /\ SetLastRead(nodes)
      /\ batch_list' = AfterAck(batch_list, node[w].batch_id)
      /\ UNCHANGED <<pc, source, dedup>>
  BY DEF Ack
<1>2. nodes \subseteq DOMAIN batch_list
  BY DEF Clearable
<1>3. /\ DOMAIN batch_list' = DOMAIN batch_list \ nodes
      /\ \A k \in DOMAIN batch_list' :
            batch_list'[k].last_changelog_index = batch_list[k].last_changelog_index
  BY <1>1, Indexes DEF AfterAck, Decremented, IInv, TypeOK, BatchNode
<1>4. last_read' \in Nat /\ last_read' >= last_read
  BY <1>1, <1>2, WrittenForward
<1>5. Saveable' = Saveable /\ Unflushed' = Unflushed /\ pc # "down"
  BY <1>1, AckingWorker DEF Saveable, Unflushed, source, dedup
<1>6. \A k \in DOMAIN batch_list' : last_read' <= batch_list[k].last_changelog_index
  <2> SUFFICES ASSUME NEW k \in DOMAIN batch_list'
               PROVE  last_read' <= batch_list[k].last_changelog_index
    OBVIOUS
  <2>1. CASE last_read' = last_read
    BY <1>3, <2>1 DEF ForwardInv
  <2>2. CASE \E m \in nodes : last_read' = batch_list[m].last_changelog_index
    <3>1. PICK m \in nodes : last_read' = batch_list[m].last_changelog_index
      BY <2>2
    <3>2. k \in DOMAIN batch_list /\ m \in DOMAIN batch_list /\ k > m
      BY <1>1, <1>2, <1>3, RemainingIsNewer
    <3>3. m <= k
      BY <3>2, Indexes
    <3> QED
      BY <3>1, <3>2, <3>3 DEF ForwardInv
  <2> QED
    BY <1>1, <2>1, <2>2 DEF SetLastRead
<1>7. last_read' <= Saveable
  <2>1. CASE last_read' = last_read
    BY <1>5, <2>1 DEF ForwardInv
  <2>2. CASE \E m \in nodes : last_read' = batch_list[m].last_changelog_index
    BY <1>2, <2>2 DEF ForwardInv
  <2> QED
    BY <1>1, <2>1, <2>2 DEF SetLastRead
<1>8. ForwardInv'
  BY <1>1, <1>3, <1>5, <1>6, <1>7 DEF ForwardInv, source
<1> QED
  BY <1>4, <1>8

\* A batch is saved after all those in the list.
LEMMA ForwardFlush ==
    ASSUME IInv, ForwardInv, Flush
    PROVE  ForwardInv'
<1>1. /\ pc = "flush" /\ pc' = "dispatch" /\ pool' = {}
      /\ UNCHANGED <<last_read, empty, last_changelog_index, changelog_read,
                     fsevents_iterator, last_fsevent>>
      /\ \E r :
            batch_list' = AddTail(batch_list, batch_id,
                                  [batch_id |-> batch_id,
                                   last_changelog_index |-> SavedIndex,
                                   ack_required |-> r])
  BY DEF Flush, SaveBatch, persistent, source
<1>2. Saveable' = Saveable /\ SavedIndex = Saveable
  BY <1>1 DEF Saveable, SavedIndex, ForwardInv
<1>3. batch_id \notin DOMAIN batch_list /\ \A k \in DOMAIN batch_list : ~(batch_id <= k)
  BY Indexes DEF IInv, ListInv, TypeOK
<1>4. /\ DOMAIN batch_list' = DOMAIN batch_list \cup {batch_id}
      /\ batch_list'[batch_id].last_changelog_index = Saveable
      /\ \A k \in DOMAIN batch_list : batch_list'[k] = batch_list[k]
  BY <1>1, <1>2, <1>3 DEF AddTail
<1>5. Unflushed' \subseteq Unflushed
  BY <1>1 DEF Unflushed
<1>6. /\ last_read <= Saveable /\ Saveable \in Int
      /\ \A k \in DOMAIN batch_list : batch_list[k].last_changelog_index <= Saveable
  BY <1>1, Indexes DEF ForwardInv
<1>7. \A k \in DOMAIN batch_list' :
        /\ last_read' <= batch_list'[k].last_changelog_index
        /\ batch_list'[k].last_changelog_index <= Saveable'
  BY <1>1, <1>2, <1>4, <1>6 DEF ForwardInv
<1>8. ASSUME NEW k \in DOMAIN batch_list', NEW j \in DOMAIN batch_list', j <= k
      PROVE  batch_list'[j].last_changelog_index <= batch_list'[k].last_changelog_index
  <2>1. CASE k = batch_id
    BY <1>4, <1>6, <2>1
  <2>2. CASE k # batch_id
    BY <1>3, <1>4, <1>8, <2>2 DEF ForwardInv
  <2> QED
    BY <2>1, <2>2
<1> QED
  BY <1>1, <1>2, <1>5, <1>6, <1>7, <1>8 DEF ForwardInv

\* A stopped process leaves an empty list, and a new one reads from last_read on.
LEMMA ForwardRestart ==
    ASSUME IInv, ForwardInv, LoseMemory \/ (Start /\ last_read' = last_read)
    PROVE  ForwardInv'
<1>1. CASE LoseMemory
  BY <1>1 DEF LoseMemory, ForwardInv, Unflushed
<1>2. CASE Start
  <2>1. /\ pc = "down" /\ pc' = "next" /\ last_changelog_index' = last_read
        /\ changelog_read' = 0 /\ UNCHANGED <<last_read, batch_list, Unflushed>>
    BY <1>2 DEF Start, dedup, saved, Unflushed
  <2>2. DOMAIN batch_list = {} /\ Unflushed = {}
    BY <2>1 DEF IInv, CounterInv, SourceInv
  <2>3. Saveable' = last_read'
    BY <2>1 DEF Saveable
  <2> QED
    BY <2>1, <2>2, <2>3, Indexes DEF ForwardInv
<1> QED
  BY <1>1, <1>2

\* Every step keeps ForwardInv and moves last_read forward or not at all.
LEMMA ForwardStep ==
    ASSUME SafeSetting, IInv, ForwardInv, [Next]_vars
    PROVE  ForwardInv' /\ (last_read' = last_read \/ last_read' >= last_read)
<1>1. CASE \E ids \in RecordKinds : MdtLog(ids)
  BY <1>1 DEF MdtLog, ForwardInv, Saveable, Unflushed, source, dedup, saved
<1>2. CASE Start
  BY <1>2, ForwardRestart DEF Start
<1>3. CASE Crash
  BY <1>3, ForwardRestart DEF Crash, persistent
<1>4. CASE Producer
  <2> USE DEF persistent, source, dedup, saved
  <2>1. CASE PushLast
    <3>1. PICK e \in last_fsevent : Push(e)
      BY <2>1 DEF PushLast
    <3>2. /\ UNCHANGED <<last_read, batch_list, changelog_read, Saveable>>
          /\ pc = "next" /\ changelog_read > 0
      BY <2>1, <3>1 DEF PushLast, Saveable, ForwardInv, Unflushed
    <3> QED
      BY <3>1, <3>2, ForwardPush, Indexes
  <2>2. CASE NextFsevent
    <3>1. PICK e \in fsevents_iterator : Push(e)
      BY <2>2 DEF NextFsevent
    <3>2. /\ UNCHANGED <<last_read, batch_list, changelog_read, Saveable>>
          /\ pc = "next" /\ changelog_read > 0
      BY <2>2, <3>1 DEF NextFsevent, Saveable, ForwardInv, Unflushed
    <3> QED
      BY <3>1, <3>2, ForwardPush, Indexes
  <2>3. CASE RecvManaged
    <3>1. PICK i \in cursor .. Len(log) : ReadRecord(i) /\ Push(<<i, 1>>)
      BY <2>3 DEF RecvManaged
    <3>2. UNCHANGED <<last_read, batch_list>> /\ pc # "down"
      BY <2>3, ReceivingEmpty DEF RecvManaged
    <3> QED
      BY <3>1, <3>2, ForwardRead, ForwardPush
  <2>4. CASE RecvUnmanaged
    <3>1. PICK i \in cursor .. Len(log) : ReadRecord(i)
      BY <2>4 DEF RecvUnmanaged
    <3>2. UNCHANGED <<last_read, batch_list>> /\ pc # "down"
      BY <2>4, ReceivingEmpty DEF RecvUnmanaged
    <3> QED
      BY <3>1, <3>2, ForwardRead, ForwardFrame
  <2>5. CASE EndOfData
    <3>1. /\ UNCHANGED <<last_read, batch_list, last_changelog_index, changelog_read,
                         Unflushed>>
          /\ empty' = TRUE /\ pc # "down"
      BY <2>5, ReceivingEmpty DEF EndOfData, EndOfRecords, Unflushed
    <3>2. Saveable' \in Int /\ Saveable <= Saveable'
      BY <3>1, Indexes DEF Saveable
    <3>3. Unflushed' # {} => changelog_read' > 0
      BY <3>1 DEF ForwardInv
    <3> QED
      BY <3>1, <3>2, <3>3, ForwardFrame
  <2>6. CASE Flush
    BY <2>6, ForwardFlush DEF Flush
  <2>7. CASE RecvError \/ FlushNothing \/ DispatchDone \/ DispatchStopped
             \/ \E w \in Worker : Dispatch(w)
    <3>1. /\ UNCHANGED <<last_read, batch_list, source, dedup>>
          /\ pc # "down" /\ (pc' = "flush" => pc = "flush")
      BY <2>7, ReceivingEmpty DEF RecvError, FlushNothing, DispatchDone, DispatchStopped,
         Dispatch
    <3>4. UNCHANGED <<Saveable, Unflushed>>
      BY <3>1 DEF Saveable, Unflushed
    <3>2. Saveable' \in Int /\ Saveable <= Saveable'
      BY <3>4, Indexes
    <3>3. /\ Unflushed' # {} => changelog_read' > 0
          /\ pc' = "flush" /\ ~empty' => changelog_read' > 0
      BY <3>1, <3>4 DEF ForwardInv
    <3> QED
      BY <3>1, <3>2, <3>3, ForwardFrame
  <2> QED
    BY <1>4, <2>1, <2>2, <2>3, <2>4, <2>5, <2>6, <2>7 DEF Producer
<1>5. ASSUME NEW w \in Worker, Consumer(w)
      PROVE  ForwardInv' /\ (last_read' = last_read \/ last_read' >= last_read)
  <2>1. CASE Take(w) \/ Process(w) \/ ProcessFails(w)
    <3>1. UNCHANGED <<last_read, batch_list, source, dedup, pc>>
      BY <2>1 DEF Take, Process, ProcessFails, persistent, saved
    <3>2. UNCHANGED <<Saveable, Unflushed, changelog_read, empty>>
      BY <3>1 DEF Saveable, Unflushed, source, dedup
    <3> QED
      BY <3>1, <3>2 DEF ForwardInv
  <2>2. CASE Ack(w)
    BY <2>2, ForwardAck
  <2>3. CASE CrashInAck(w)
    <3>1. \E M \in SUBSET DOMAIN batch_list : SetLastRead(M)
      <4> DEFINE nodes == Clearable(batch_list, node[w].batch_id)
      <4>1. PICK m \in nodes : \/ SetLastRead({c \in nodes : c < m})
                               \/ SetLastRead({c \in nodes : c <= m})
        BY <2>3 DEF CrashInAck
      <4>2. nodes \subseteq DOMAIN batch_list
        BY DEF Clearable
      <4> HIDE DEF nodes
      <4>3. /\ {c \in nodes : c < m} \in SUBSET DOMAIN batch_list
            /\ {c \in nodes : c <= m} \in SUBSET DOMAIN batch_list
        BY <4>2
      <4> QED
        BY <4>1, <4>3
    <3>2. LoseMemory
      BY <2>3 DEF CrashInAck
    <3> QED
      BY <3>1, <3>2, WrittenForward, ForwardRestart
  <2> QED
    BY <1>5, <2>1, <2>2, <2>3 DEF Consumer
<1>6. CASE UNCHANGED vars
  BY <1>6 DEF vars, persistent, source, dedup, saved, ForwardInv, Saveable, Unflushed
<1> QED
  BY <1>1, <1>2, <1>3, <1>4, <1>5, <1>6 DEF Next

\* In the safe setting a restart never starts reading from an earlier record than
\* the run before it did: what lustre_changelog_ack_batch writes to last_read never
\* moves back, whatever order the workers acknowledge in and wherever one is killed.
THEOREM LastReadMovesForward == ASSUME SafeSetting PROVE Spec => LastReadForward
<1>1. Init => ForwardInv
  BY DEF Init, ForwardInv, Unflushed
<1>2. IInv /\ ForwardInv /\ [Next]_vars => ForwardInv'
  BY ForwardStep
<1>3. IInv /\ ForwardInv /\ [Next]_vars => [last_read' >= last_read]_last_read
  BY ForwardStep
<1> QED
  BY <1>1, <1>2, <1>3, Invariance, PTL DEF Spec, LastReadForward
=============================================================================
