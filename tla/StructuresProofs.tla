-------------------------- MODULE StructuresProofs --------------------------
(***************************************************************************)
(* What is proved of the containers and iterators of librobinhood, for     *)
(* every size of the rings and of the chunks, every number of readers and  *)
(* every input: the queues and the two sides of a tee (TeeInv), the chunks *)
(* of a chain (ChunkInv), the readers of a ring (RingrInv), and the        *)
(* theorems that rest on these inductive invariants.                       *)
(***************************************************************************)
EXTENDS Structures, FiniteSetTheorems, SequenceTheorems, WellFoundedInduction, TLAPS

-----------------------------------------------------------------------------
(* Sequences.                                                              *)

\* The positions and the elements of a sequence.
LEMMA SeqFacts ==
    ASSUME NEW S, NEW q \in Seq(S)
    PROVE  /\ Len(q) \in Nat /\ DOMAIN q = 1 .. Len(q)
           /\ \A n \in 1 .. Len(q) : q[n] \in S
           /\ q = <<>> <=> Len(q) = 0
OBVIOUS

\* A function on the first numbers is a sequence.
LEMMA SeqIntro ==
    ASSUME NEW S, NEW n \in Nat, NEW q, q \in [1 .. n -> S]
    PROVE  q \in Seq(S) /\ Len(q) = n
OBVIOUS

\* One element more at the end.
LEMMA AppendSeq ==
    ASSUME NEW S, NEW q \in Seq(S), NEW x \in S
    PROVE  /\ Append(q, x) \in Seq(S) /\ Append(q, x) # <<>>
           /\ Len(q) \in Nat /\ Len(Append(q, x)) = Len(q) + 1
           /\ Append(q, x)[Len(q) + 1] = x
           /\ \A n \in 1 .. Len(q) : Append(q, x)[n] = q[n]
OBVIOUS

\* One element more at the front.
LEMMA ConsSeq ==
    ASSUME NEW S, NEW q \in Seq(S), NEW x \in S
    PROVE  /\ <<x>> \o q \in Seq(S)
           /\ Len(q) \in Nat /\ Len(<<x>> \o q) = Len(q) + 1
           /\ (<<x>> \o q)[1] = x
           /\ \A n \in 1 .. Len(q) : (<<x>> \o q)[n + 1] = q[n]
           /\ \A n \in 2 .. Len(q) + 1 : (<<x>> \o q)[n] = q[n - 1]
OBVIOUS

\* The first element less.
LEMMA TailSeq ==
    ASSUME NEW S, NEW q \in Seq(S), q # <<>>
    PROVE  /\ Tail(q) \in Seq(S) /\ Len(q) \in Nat \ {0} /\ q[1] \in S
           /\ Len(Tail(q)) = Len(q) - 1
           /\ \A n \in 1 .. Len(q) - 1 : Tail(q)[n] = q[n + 1]
OBVIOUS

\* The same, as the rest of a stack after a pop of one element.
LEMMA PopSeq ==
    ASSUME NEW S, NEW q \in Seq(S), q # <<>>
    PROVE  /\ SubSeq(q, 2, Len(q)) \in Seq(S) /\ Len(q) \in Nat \ {0} /\ q[1] \in S
           /\ Len(SubSeq(q, 2, Len(q))) = Len(q) - 1
           /\ \A n \in 1 .. Len(q) - 1 : SubSeq(q, 2, Len(q))[n] = q[n + 1]
<1>1. Tail(q) = SubSeq(q, 2, Len(q))
  BY TailIsSubSeq
<1> QED
  BY <1>1, TailSeq

\* One element replaced.
LEMMA ExceptAt ==
    ASSUME NEW S, NEW q \in Seq(S), NEW k \in 1 .. Len(q), NEW x \in S
    PROVE  /\ [q EXCEPT ![k] = x] \in Seq(S)
           /\ Len([q EXCEPT ![k] = x]) = Len(q)
           /\ [q EXCEPT ![k] = x][k] = x
           /\ \A n \in 1 .. Len(q) : n # k => [q EXCEPT ![k] = x][n] = q[n]
OBVIOUS

-----------------------------------------------------------------------------
(* Queues of rings.                                                        *)

QRing == [name : Nat, elements : Seq(Nat \ {0})]

\* A pool of rings: the stacks above the current one are empty, and so is
\* every ring of the pool.
PoolOK(pool) ==
    /\ pool \in [stacks : Seq(Seq(QRing)), chunk : Nat, current : Nat, count : Nat,
                 initialized : Nat]
    /\ Len(pool.stacks) = pool.initialized
    /\ pool.current < pool.initialized
    /\ \A s \in 1 .. Len(pool.stacks) : s > pool.current + 1 => pool.stacks[s] = <<>>
    /\ \A s \in 1 .. Len(pool.stacks) : \A i \in 1 .. Len(pool.stacks[s]) :
           pool.stacks[s][i].elements = <<>>

QueueOK(queue) ==
    /\ queue \in [rings : Seq(QRing), chunk : {QueueChunk}, pool : {queue.pool},
                  head : Nat, tail : Nat, count : Nat]
    /\ Len(queue.rings) = queue.count
    /\ queue.head <= queue.tail
    /\ queue.tail < queue.count
    /\ PoolOK(queue.pool)

\* The names of the rings of a list of rings and of a pool.
NamesOf(rings) == {rings[i].name : i \in 1 .. Len(rings)}
PoolNames(pool) ==
    UNION {{pool.stacks[s][i].name : i \in 1 .. Len(pool.stacks[s])} :
              s \in 1 .. Len(pool.stacks)}
Held(queue) == NamesOf(queue_rings(queue)) \cup PoolNames(queue.pool)

\* No ring is twice in a list of rings, in a pool, in a queue with its pool.
DistinctRings(rings) ==
    \A i, j \in 1 .. Len(rings) : rings[i].name = rings[j].name => i = j
DistinctPool(pool) ==
    \A s, t \in 1 .. Len(pool.stacks) :
        \A i \in 1 .. Len(pool.stacks[s]), j \in 1 .. Len(pool.stacks[t]) :
            pool.stacks[s][i].name = pool.stacks[t][j].name => s = t /\ i = j
HeldOnce(queue) ==
    /\ DistinctRings(queue_rings(queue))
    /\ DistinctPool(queue.pool)
    /\ NamesOf(queue_rings(queue)) \cap PoolNames(queue.pool) = {}

-----------------------------------------------------------------------------
(* What a tee yields.  f is the number of failures.                        *)

\* y may come after x; every element of a list may come after the one before.
Follows(f, x, y) == y = x + 1 \/ (f > 0 /\ y = x)
InOrder(f, s) == \A i \in 2 .. Len(s) : Follows(f, s[i - 1], s[i])

LastOf(s) == IF s = <<>> THEN 0 ELSE s[Len(s)]

\* A list of rings holds what comes after a, and ends with z.
Linked(f, a, rings, z) ==
    /\ \A i \in 1 .. Len(rings) : InOrder(f, rings[i].elements)
    /\ \A i \in 2 .. Len(rings) :
           /\ rings[i - 1].elements # <<>>
           /\ rings[i].elements # <<>>
           /\ Follows(f, LastOf(rings[i - 1].elements), rings[i].elements[1])
    /\ rings[1].elements # <<>> => Follows(f, a, rings[1].elements[1])
    /\ z = IF rings[Len(rings)].elements = <<>> THEN a
           ELSE LastOf(rings[Len(rings)].elements)

\* A tee_iterator.
IsSide(t) == t \in [queue : {t.queue}, next : Seq(Nat \ {0}), clone : BOOLEAN, alive : BOOLEAN]

\* A side has returned the first elements of the source, in its order.
Returned(g, f) == g \in Seq(Nat \ {0}) /\ InOrder(f, g) /\ (g # <<>> => g[1] = 1)

\* A side of the tee: its queue leads from what it has returned to the last
\* element of the source or, when it could not be shared, up to it.
SideOK(t, g, s, f) ==
    /\ IsSide(t)
    /\ QueueOK(t.queue)
    /\ Returned(g, f)
    /\ t.alive => \E z \in Nat :
           /\ Linked(f, LastOf(g), queue_rings(t.queue), z)
           /\ t.next = <<>> => z = s
           /\ t.next # <<>> => t.next = <<s>> /\ f > 0 /\ (z = s \/ z + 1 = s)

\* The tee as a whole: a side knows whether the other one is alive, and the
\* rings made are those of the two queues.
TeeOK(T, G, s, m, f) ==
    /\ s \in Nat /\ m \in Nat /\ f \in Nat
    /\ DOMAIN T = 0 .. 1 /\ DOMAIN G = 0 .. 1
    /\ \A side \in 0 .. 1 :
           /\ SideOK(T[side], G[side], s, f)
           /\ T[side].clone <=> T[1 - side].alive
           /\ HeldOnce(T[side].queue)
    /\ Held(T[0].queue) \cap Held(T[1].queue) = {}
    /\ Held(T[0].queue) \cup Held(T[1].queue) = 1 .. m

\* The inductive invariant of the tee.
TeeInv == TeeOK(tee, got, source, made, failures)
-----------------------------------------------------------------------------
(* The pool of a queue.                                                    *)

\* The fields of a pool.
LEMMA PoolParts ==
    ASSUME NEW p, PoolOK(p)
    PROVE  /\ p.stacks \in Seq(Seq(QRing))
           /\ p.chunk \in Nat /\ p.current \in Nat /\ p.count \in Nat /\ p.initialized \in Nat
           /\ Len(p.stacks) = p.initialized
           /\ p.current + 1 \in 1 .. Len(p.stacks)
           /\ Top(p) \in Seq(QRing) /\ Top(p) = p.stacks[p.current + 1]
           /\ \A s \in 1 .. Len(p.stacks) : p.stacks[s] \in Seq(QRing)
           /\ \A s \in 1 .. Len(p.stacks) : s > p.current + 1 => p.stacks[s] = <<>>
           /\ \A s \in 1 .. Len(p.stacks) : \A i \in 1 .. Len(p.stacks[s]) :
                  p.stacks[s][i] \in QRing /\ p.stacks[s][i].elements = <<>>
           /\ p = [stacks |-> p.stacks, chunk |-> p.chunk, current |-> p.current,
                   count |-> p.count, initialized |-> p.initialized]
<1>1. /\ p.stacks \in Seq(Seq(QRing))
      /\ p.chunk \in Nat /\ p.current \in Nat /\ p.count \in Nat /\ p.initialized \in Nat
      /\ Len(p.stacks) = p.initialized /\ p.current < p.initialized
      /\ p = [stacks |-> p.stacks, chunk |-> p.chunk, current |-> p.current,
              count |-> p.count, initialized |-> p.initialized]
  BY DEF PoolOK
<1>2. p.current + 1 \in 1 .. Len(p.stacks)
  BY <1>1
<1>3. \A s \in 1 .. Len(p.stacks) : p.stacks[s] \in Seq(QRing)
  BY <1>1, SeqFacts
<1>4. \A s \in 1 .. Len(p.stacks) : s > p.current + 1 => p.stacks[s] = <<>>
  BY DEF PoolOK
<1>5. \A s \in 1 .. Len(p.stacks) : \A i \in 1 .. Len(p.stacks[s]) :
          p.stacks[s][i] \in QRing /\ p.stacks[s][i].elements = <<>>
  <2> SUFFICES ASSUME NEW s \in 1 .. Len(p.stacks), NEW i \in 1 .. Len(p.stacks[s])
               PROVE  p.stacks[s][i] \in QRing /\ p.stacks[s][i].elements = <<>>
    OBVIOUS
  <2>1. p.stacks[s] \in Seq(QRing)
    BY <1>3
  <2>2. p.stacks[s][i].elements = <<>>
    BY DEF PoolOK
  <2> QED
    BY <2>1, <2>2
<1>6. Top(p) \in Seq(QRing) /\ Top(p) = p.stacks[p.current + 1]
  BY <1>2, <1>3 DEF Top
<1> QED
  BY <1>1, <1>2, <1>3, <1>4, <1>5, <1>6

\* The name of a ring of a pool is one of the pool's names.
LEMMA PoolName ==
    ASSUME NEW p, NEW s \in 1 .. Len(p.stacks), NEW i \in 1 .. Len(p.stacks[s])
    PROVE  p.stacks[s][i].name \in PoolNames(p)
<1> DEFINE A(t) == {p.stacks[t][j].name : j \in 1 .. Len(p.stacks[t])}
<1>1. p.stacks[s][i].name \in A(s)
  OBVIOUS
<1>2. A(s) \in {A(t) : t \in 1 .. Len(p.stacks)}
  <2> HIDE DEF A
  <2> QED
    OBVIOUS
<1>3. PoolNames(p) = UNION {A(t) : t \in 1 .. Len(p.stacks)}
  BY DEF PoolNames
<1> HIDE DEF A
<1> QED
  BY <1>1, <1>2, <1>3

\* A pool is made of its stacks: what is to be shown of one that a push or a
\* pop leaves.
LEMMA PoolIntro ==
    ASSUME NEW stacks \in Seq(Seq(QRing)), NEW chunk0 \in Nat, NEW current \in Nat,
           NEW count \in Nat, NEW initialized \in Nat,
           Len(stacks) = initialized, current < initialized,
           \A s \in 1 .. Len(stacks) : s > current + 1 => stacks[s] = <<>>,
           \A s \in 1 .. Len(stacks) : \A i \in 1 .. Len(stacks[s]) :
               stacks[s][i].elements = <<>>
    PROVE  PoolOK([stacks |-> stacks, chunk |-> chunk0, current |-> current,
                   count |-> count, initialized |-> initialized])
BY DEF PoolOK

\* rbh_sstack_push() of an empty ring that the pool does not have.
LEMMA PoolPush ==
    ASSUME NEW p, PoolOK(p), NEW r \in QRing, r.elements = <<>>
    PROVE  /\ PoolOK(sstack_push(p, r))
           /\ PoolNames(sstack_push(p, r)) = PoolNames(p) \cup {r.name}
           /\ DistinctPool(p) /\ r.name \notin PoolNames(p) => DistinctPool(sstack_push(p, r))
<1> DEFINE S == p.stacks
           q == sstack_push(p, r)
<1>1. /\ S \in Seq(Seq(QRing)) /\ Len(S) \in Nat
      /\ p.chunk \in Nat /\ p.current \in Nat /\ p.count \in Nat /\ p.initialized \in Nat
      /\ Len(S) = p.initialized /\ p.current + 1 \in 1 .. Len(S)
      /\ Top(p) = S[p.current + 1]
      /\ \A s \in 1 .. Len(S) : S[s] \in Seq(QRing)
      /\ \A s \in 1 .. Len(S) : s > p.current + 1 => S[s] = <<>>
      /\ \A s \in 1 .. Len(S) : \A i \in 1 .. Len(S[s]) : S[s][i].elements = <<>>
      /\ p = [stacks |-> S, chunk |-> p.chunk, current |-> p.current,
              count |-> p.count, initialized |-> p.initialized]
      /\ p.stacks = S
  BY PoolParts
<1> HIDE DEF S
<1>11. S \in Seq(Seq(QRing)) /\ Len(S) \in Nat
  BY <1>1
<1>12. /\ p.chunk \in Nat /\ p.current \in Nat /\ p.count \in Nat /\ p.initialized \in Nat
       /\ Len(S) = p.initialized /\ p.current < Len(S) /\ Len(S) \in Nat
  BY <1>1
<1>13. \A s \in 1 .. Len(S) : S[s] \in Seq(QRing)
  BY <1>1
<1>14. \A s \in 1 .. Len(S) : s > p.current + 1 => S[s] = <<>>
  BY <1>1
<1>15. \A s \in 1 .. Len(S) : \A i \in 1 .. Len(S[s]) : S[s][i].elements = <<>>
  BY <1>1
<1>16. p = [stacks |-> S, chunk |-> p.chunk, current |-> p.current,
            count |-> p.count, initialized |-> p.initialized]
  BY <1>1
\* The stack that grows, k, and the stacks that result, T.
<1>2. \E k \in 1 .. Len(q.stacks) :
          /\ PoolOK(q)
          /\ Len(S) <= Len(q.stacks) /\ Len(q.stacks) \in Nat
          /\ Len(q.stacks[k]) = (IF k <= Len(S) THEN Len(S[k]) ELSE 0) + 1
          /\ q.stacks[k][1] = r
          /\ \A i \in 2 .. Len(q.stacks[k]) : q.stacks[k][i] = S[k][i - 1]
          /\ \A s \in 1 .. Len(q.stacks) : s # k => s <= Len(S) /\ q.stacks[s] = S[s]
  <2>1. CASE Len(Top(p)) < p.chunk
    <3> DEFINE k == p.current + 1
               T == [S EXCEPT ![k] = <<r>> \o S[k]]
    <3>1. k \in 1 .. Len(S) /\ S[k] \in Seq(QRing)
      BY <1>1
    <3>2. /\ <<r>> \o S[k] \in Seq(QRing) /\ Len(S[k]) \in Nat
          /\ Len(<<r>> \o S[k]) = Len(S[k]) + 1
          /\ (<<r>> \o S[k])[1] = r
          /\ \A i \in 2 .. Len(S[k]) + 1 : (<<r>> \o S[k])[i] = S[k][i - 1]
      BY <3>1, ConsSeq
    <3>3. /\ T \in Seq(Seq(QRing)) /\ Len(T) = Len(S) /\ T[k] = <<r>> \o S[k]
          /\ \A s \in 1 .. Len(S) : s # k => T[s] = S[s]
      BY <1>1, <3>1, <3>2, ExceptAt
    <3>4. q = [stacks |-> T, chunk |-> p.chunk, current |-> p.current,
               count |-> p.count, initialized |-> p.initialized]
      BY <1>1, <2>1 DEF sstack_push
    <3> HIDE DEF T, q
    <3>5. \A s \in 1 .. Len(T) : s > p.current + 1 => T[s] = <<>>
      <4> SUFFICES ASSUME NEW s \in 1 .. Len(T), s > p.current + 1
                   PROVE  T[s] = <<>>
        OBVIOUS
      <4>1. s # k /\ s \in 1 .. Len(S)
        BY <1>1, <3>3
      <4> QED
        BY <1>1, <3>3, <4>1
    <3>6. \A s \in 1 .. Len(T) : \A i \in 1 .. Len(T[s]) : T[s][i].elements = <<>>
      <4> SUFFICES ASSUME NEW s \in 1 .. Len(T), NEW i \in 1 .. Len(T[s])
                   PROVE  T[s][i].elements = <<>>
        OBVIOUS
      <4>1. CASE s # k
        BY <1>1, <3>3, <4>1, SMTT(30)
      <4>2. CASE s = k /\ i = 1
        BY <3>2, <3>3, <4>2
      <4>3. CASE s = k /\ i # 1
        <5> HIDE DEF k
        <5>1. i \in 2 .. Len(S[k]) + 1 /\ i - 1 \in 1 .. Len(S[k])
          BY <3>2, <3>3, <4>3
        <5>2. T[s][i] = S[k][i - 1]
          BY <3>2, <3>3, <4>3, <5>1
        <5> QED
          BY <1>15, <3>1, <5>1, <5>2
      <4> QED
        BY <4>1, <4>2, <4>3
    <3>7. PoolOK(q)
      <4>1. p.current < p.initialized
        BY <1>1
      <4> QED
        BY <1>1, <3>3, <3>4, <3>5, <3>6, <4>1, PoolIntro
    <3>8. q.stacks = T
      BY <3>4
    <3> HIDE DEF k
    <3>9. Len(T[k]) = Len(S[k]) + 1 /\ T[k][1] = r
      BY <3>2, <3>3
    <3>10. \A i \in 2 .. Len(T[k]) : T[k][i] = S[k][i - 1]
      BY <3>2, <3>3
    <3>11. \A s \in 1 .. Len(T) : s # k => s <= Len(S) /\ T[s] = S[s]
      BY <1>12, <3>3
    <3>12. k \in 1 .. Len(T) /\ k <= Len(S) /\ Len(S) <= Len(T) /\ Len(T) \in Nat
      BY <1>12, <3>1, <3>3
    <3> QED
      BY <3>7, <3>8, <3>9, <3>10, <3>11, <3>12
  <2>2. CASE ~(Len(Top(p)) < p.chunk) /\ p.current + 1 < p.initialized
    <3> DEFINE k == p.current + 2
               T == [S EXCEPT ![k] = <<r>> \o S[k]]
               c == IF p.current + 1 >= p.count THEN p.count * 2 ELSE p.count
    <3>1. k \in 1 .. Len(S) /\ S[k] = <<>>
      BY <1>1, <2>2
    <3>2. /\ <<r>> \o S[k] \in Seq(QRing) /\ Len(S[k]) = 0
          /\ Len(<<r>> \o S[k]) = 1
          /\ (<<r>> \o S[k])[1] = r
      <4>1. S[k] \in Seq(QRing)
        BY <1>1, <3>1
      <4> QED
        BY <3>1, <4>1, ConsSeq
    <3>3. /\ T \in Seq(Seq(QRing)) /\ Len(T) = Len(S) /\ T[k] = <<r>> \o S[k]
          /\ \A s \in 1 .. Len(S) : s # k => T[s] = S[s]
      BY <1>1, <3>1, <3>2, ExceptAt
    <3>4. c \in Nat
      BY <1>1
    <3>5. q = [stacks |-> T, chunk |-> p.chunk, current |-> p.current + 1,
               count |-> c, initialized |-> p.initialized]
      <4> DEFINE F == {"stacks", "chunk", "current", "count", "initialized"}
      <4>1. p.current + 1 + 1 = k
        BY <1>12
      <4>2. DOMAIN q = F /\ q = [x \in F |-> q[x]]
        BY <1>16, <2>2 DEF sstack_push
      <4>3. q.chunk = p.chunk /\ q.current = p.current + 1 /\ q.initialized = p.initialized
        BY <1>16, <2>2 DEF sstack_push
      <4>4. q.count = c
        BY <1>16, <2>2 DEF sstack_push
      <4>5. q.stacks = T
        <5>1. q.stacks = [p.stacks EXCEPT ![(p.current + 1) + 1] =
                                             <<r>> \o p.stacks[(p.current + 1) + 1]]
          BY <1>16, <2>2 DEF sstack_push
        <5>2. p.stacks = S
          BY <1>1
        <5> HIDE DEF k, q
        <5> QED
          BY <4>1, <5>1, <5>2
      <4> HIDE DEF T, q, c
      <4> QED
        BY <4>2, <4>3, <4>4, <4>5
    <3> HIDE DEF T, q, c
    <3>6. \A s \in 1 .. Len(T) : s > (p.current + 1) + 1 => T[s] = <<>>
      <4> SUFFICES ASSUME NEW s \in 1 .. Len(T), s > (p.current + 1) + 1
                   PROVE  T[s] = <<>>
        OBVIOUS
      <4>1. s # k /\ s > p.current + 1 /\ s \in 1 .. Len(S)
        BY <1>12, <3>3, SMTT(30)
      <4> QED
        BY <1>14, <3>3, <4>1
    <3>7. \A s \in 1 .. Len(T) : \A i \in 1 .. Len(T[s]) : T[s][i].elements = <<>>
      <4> SUFFICES ASSUME NEW s \in 1 .. Len(T), NEW i \in 1 .. Len(T[s])
                   PROVE  T[s][i].elements = <<>>
        OBVIOUS
      <4>1. CASE s # k
        BY <1>15, <3>3, <4>1
      <4>2. CASE s = k
        BY <3>2, <3>3, <4>2
      <4> QED
        BY <4>1, <4>2
    <3>8. p.current + 1 \in Nat /\ p.current + 1 < p.initialized
      BY <1>1, <2>2
    <3>9. PoolOK(q)
      BY <1>1, <3>3, <3>4, <3>5, <3>6, <3>7, <3>8, PoolIntro
    <3>10. q.stacks = T
      BY <3>5
    <3> HIDE DEF k
    <3>11. Len(T[k]) = Len(S[k]) + 1 /\ T[k][1] = r
      BY <3>2, <3>3
    <3>12. \A i \in 2 .. Len(T[k]) : T[k][i] = S[k][i - 1]
      BY <3>2, <3>3
    <3>13. \A s \in 1 .. Len(T) : s # k => s <= Len(S) /\ T[s] = S[s]
      BY <1>12, <3>3
    <3>14. k \in 1 .. Len(T) /\ k <= Len(S) /\ Len(S) <= Len(T) /\ Len(T) \in Nat
      BY <1>12, <3>1, <3>3
    <3> QED
      BY <3>9, <3>10, <3>11, <3>12, <3>13, <3>14
  <2>3. CASE ~(Len(Top(p)) < p.chunk) /\ ~(p.current + 1 < p.initialized)
    <3> DEFINE k == Len(S) + 1
               T == Append(S, <<r>>)
               c == IF p.current + 1 >= p.count THEN p.count * 2 ELSE p.count
    <3>1. p.current + 1 = Len(S) /\ k \in Nat
      BY <1>1, <2>3
    <3>2. <<r>> \in Seq(QRing) /\ Len(<<r>>) = 1 /\ <<r>>[1] = r
      OBVIOUS
    <3>3. /\ T \in Seq(Seq(QRing)) /\ Len(T) = Len(S) + 1 /\ T[k] = <<r>>
          /\ \A s \in 1 .. Len(S) : T[s] = S[s]
      BY <1>11, <3>2, AppendSeq
    <3>4. c \in Nat
      BY <1>1
    <3>5. q = [stacks |-> T, chunk |-> p.chunk, current |-> p.current + 1,
               count |-> c, initialized |-> p.initialized + 1]
      <4> DEFINE F == {"stacks", "chunk", "current", "count", "initialized"}
      <4>2. DOMAIN q = F /\ q = [x \in F |-> q[x]]
        BY <1>16, <2>3 DEF sstack_push
      <4>3. q.chunk = p.chunk /\ q.current = p.current + 1 /\ q.initialized = p.initialized + 1
        BY <1>16, <2>3 DEF sstack_push
      <4>4. q.count = c
        BY <1>16, <2>3 DEF sstack_push
      <4>5. q.stacks = T
        BY <1>16, <2>3 DEF sstack_push
      <4> HIDE DEF T, q, c
      <4> QED
        BY <4>2, <4>3, <4>4, <4>5
    <3> HIDE DEF T, q, c
    <3>6. \A s \in 1 .. Len(T) : s > (p.current + 1) + 1 => T[s] = <<>>
      BY <1>1, <3>1, <3>3
    <3>7. \A s \in 1 .. Len(T) : \A i \in 1 .. Len(T[s]) : T[s][i].elements = <<>>
      <4> SUFFICES ASSUME NEW s \in 1 .. Len(T), NEW i \in 1 .. Len(T[s])
                   PROVE  T[s][i].elements = <<>>
        OBVIOUS
      <4>1. CASE s # k
        <5>1. s \in 1 .. Len(S)
          BY <1>1, <3>3, <4>1
        <5> QED
          BY <1>1, <3>3, <5>1, SMTT(30)
      <4>2. CASE s = k
        BY <3>2, <3>3, <4>2
      <4> QED
        BY <4>1, <4>2
    <3>8. /\ p.current + 1 \in Nat /\ p.initialized + 1 \in Nat
          /\ p.current + 1 < p.initialized + 1 /\ Len(T) = p.initialized + 1
      BY <1>1, <3>1, <3>3
    <3>9. PoolOK(q)
      BY <1>1, <3>3, <3>4, <3>5, <3>6, <3>7, <3>8, PoolIntro
    <3>10. q.stacks = T
      BY <3>5
    <3>11. k \in 1 .. Len(T) /\ ~(k <= Len(S)) /\ Len(S) <= Len(T)
      BY <1>1, <3>3
    <3>12. \A s \in 1 .. Len(T) : s # k => s \in 1 .. Len(S) /\ s <= Len(S)
      BY <1>1, <3>3
    <3> HIDE DEF k
    <3>13. Len(T[k]) = 0 + 1 /\ T[k][1] = r /\ Len(T) \in Nat
      BY <1>12, <3>2, <3>3
    <3>14. \A i \in 2 .. Len(T[k]) : T[k][i] = S[k][i - 1]
      BY <3>13
    <3> QED
      BY <3>2, <3>3, <3>9, <3>10, <3>11, <3>12, <3>13, <3>14
  <2> QED
    BY <2>1, <2>2, <2>3
<1> HIDE DEF q
<1>3. PICK k \in 1 .. Len(q.stacks) :
          /\ PoolOK(q)
          /\ Len(S) <= Len(q.stacks) /\ Len(q.stacks) \in Nat
          /\ Len(q.stacks[k]) = (IF k <= Len(S) THEN Len(S[k]) ELSE 0) + 1
          /\ q.stacks[k][1] = r
          /\ \A i \in 2 .. Len(q.stacks[k]) : q.stacks[k][i] = S[k][i - 1]
          /\ \A s \in 1 .. Len(q.stacks) : s # k => s <= Len(S) /\ q.stacks[s] = S[s]
  BY <1>2
<1> DEFINE T == q.stacks
<1> HIDE DEF T
<1>4. \A s \in 1 .. Len(S) : Len(S[s]) \in Nat
  BY <1>1, SeqFacts
\* Where each ring of the new pool comes from, and where each old one is now.
<1>5. \A s \in 1 .. Len(T) : \A i \in 1 .. Len(T[s]) :
          \/ s = k /\ i = 1 /\ T[s][i] = r
          \/ s = k /\ s \in 1 .. Len(S) /\ i - 1 \in 1 .. Len(S[s]) /\ T[s][i] = S[s][i - 1]
          \/ s # k /\ s \in 1 .. Len(S) /\ i \in 1 .. Len(S[s]) /\ T[s][i] = S[s][i]
  <2> SUFFICES ASSUME NEW s \in 1 .. Len(T), NEW i \in 1 .. Len(T[s])
               PROVE  \/ s = k /\ i = 1 /\ T[s][i] = r
                      \/ s = k /\ s \in 1 .. Len(S) /\ i - 1 \in 1 .. Len(S[s])
                               /\ T[s][i] = S[s][i - 1]
                      \/ s # k /\ s \in 1 .. Len(S) /\ i \in 1 .. Len(S[s])
                               /\ T[s][i] = S[s][i]
    OBVIOUS
  <2>1. CASE s # k
    BY <1>3, <2>1 DEF T
  <2>2. CASE s = k /\ i = 1
    BY <1>3, <2>2 DEF T
  <2>3. CASE s = k /\ i # 1
    <3>1. k <= Len(S)
      BY <1>3, <2>3 DEF T
    <3>2. s \in 1 .. Len(S) /\ Len(S[k]) \in Nat
      BY <1>1, <1>4, <2>3, <3>1
    <3>3. Len(T[k]) = Len(S[k]) + 1
      BY <1>3, <3>1 DEF T
    <3>4. i \in 2 .. Len(T[k]) /\ i - 1 \in 1 .. Len(S[k])
      BY <2>3, <3>2, <3>3
    <3> QED
      BY <1>3, <2>3, <3>2, <3>4 DEF T
  <2> QED
    BY <2>1, <2>2, <2>3
<1>6. \A s \in 1 .. Len(S) : \A i \in 1 .. Len(S[s]) :
          \E j \in 1 .. Len(T[s]) : s \in 1 .. Len(T) /\ T[s][j] = S[s][i]
  <2> SUFFICES ASSUME NEW s \in 1 .. Len(S), NEW i \in 1 .. Len(S[s])
               PROVE  \E j \in 1 .. Len(T[s]) : s \in 1 .. Len(T) /\ T[s][j] = S[s][i]
    OBVIOUS
  <2>1. s \in 1 .. Len(T) /\ Len(S[s]) \in Nat
    BY <1>1, <1>3, <1>4 DEF T
  <2>2. CASE s # k
    BY <1>3, <2>1, <2>2 DEF T
  <2>3. CASE s = k
    <3>1. Len(T[k]) = Len(S[k]) + 1
      BY <1>1, <1>3, <2>3 DEF T
    <3>2. i + 1 \in 2 .. Len(T[k]) /\ (i + 1) - 1 = i
      BY <2>1, <2>3, <3>1
    <3>3. T[k][i + 1] = S[k][i]
      BY <1>3, <3>2 DEF T
    <3> QED
      BY <2>1, <2>3, <3>2, <3>3
  <2> QED
    BY <2>2, <2>3
<1>7. PoolNames(q) = PoolNames(p) \cup {r.name}
  <2>1. PoolNames(p) \cup {r.name} \subseteq PoolNames(q)
    <3>1. 1 \in 1 .. Len(T[k]) /\ T[k][1] = r /\ k \in 1 .. Len(T)
      BY <1>3, <1>4, <1>1 DEF T
    <3>2. r.name \in PoolNames(q)
      BY <3>1 DEF PoolNames, T, S
    <3>3. ASSUME NEW n \in PoolNames(p) PROVE n \in PoolNames(q)
      <4>1. PICK s \in 1 .. Len(S) : \E i \in 1 .. Len(S[s]) : n = S[s][i].name
        BY <3>3 DEF PoolNames, S
      <4>2. PICK i \in 1 .. Len(S[s]) : n = S[s][i].name
        BY <4>1
      <4>3. PICK j \in 1 .. Len(T[s]) : s \in 1 .. Len(T) /\ T[s][j] = S[s][i]
        BY <1>6
      <4>4. T[s][j].name \in PoolNames(q)
        BY <4>3, PoolName DEF T
      <4> QED
        BY <4>2, <4>3, <4>4
    <3> QED
      BY <3>2, <3>3
  <2>2. ASSUME NEW n \in PoolNames(q) PROVE n \in PoolNames(p) \cup {r.name}
    <3>1. PICK s \in 1 .. Len(T) : \E i \in 1 .. Len(T[s]) : n = T[s][i].name
      BY <2>2 DEF PoolNames, T, S
    <3>2. PICK i \in 1 .. Len(T[s]) : n = T[s][i].name
      BY <3>1
    <3>3. T[s][i] = r \/ \E j \in 1 .. Len(S[s]) : s \in 1 .. Len(S) /\ T[s][i] = S[s][j]
      BY <1>5
    <3>4. CASE T[s][i] = r
      BY <3>2, <3>4
    <3>5. ASSUME NEW j \in 1 .. Len(S[s]), s \in 1 .. Len(S), T[s][i] = S[s][j]
          PROVE  n \in PoolNames(p)
      <4>1. S[s][j].name \in PoolNames(p)
        BY <3>5, PoolName DEF S
      <4> QED
        BY <3>2, <3>5, <4>1
    <3> QED
      BY <3>3, <3>4, <3>5
  <2> QED
    BY <2>1, <2>2
<1>8. ASSUME DistinctPool(p), r.name \notin PoolNames(p)
      PROVE  DistinctPool(q)
  <2> SUFFICES ASSUME NEW s \in 1 .. Len(T), NEW t \in 1 .. Len(T),
                      NEW i \in 1 .. Len(T[s]), NEW j \in 1 .. Len(T[t]),
                      T[s][i].name = T[t][j].name
               PROVE  s = t /\ i = j
    BY DEF DistinctPool, T, S
  <2>1. \A u \in 1 .. Len(S) : \A n \in 1 .. Len(S[u]) : S[u][n].name # r.name
    <3> SUFFICES ASSUME NEW u \in 1 .. Len(S), NEW n \in 1 .. Len(S[u])
                 PROVE  S[u][n].name # r.name
      OBVIOUS
    <3>1. S[u][n].name \in PoolNames(p)
      BY PoolName DEF S
    <3> QED
      BY <1>8, <3>1
  <2>2. \A u, v \in 1 .. Len(S) : \A m \in 1 .. Len(S[u]), n \in 1 .. Len(S[v]) :
            S[u][m].name = S[v][n].name => u = v /\ m = n
    BY <1>8 DEF DistinctPool, S
  <2>21. ASSUME s \in 1 .. Len(S), t \in 1 .. Len(S)
         PROVE  \A y \in 1 .. Len(S[s]), z \in 1 .. Len(S[t]) :
                    S[s][y].name = S[t][z].name => s = t /\ y = z
    BY <2>2, <2>21, SMTT(30)
  <2>3. i \in Nat /\ j \in Nat
    <3>1. Len(T[s]) \in Nat /\ Len(T[t]) \in Nat
      <4>1. T \in Seq(Seq(QRing))
        BY <1>3, PoolParts DEF T
      <4> QED
        BY <4>1, SeqFacts
    <3> QED
      BY <3>1
  <2> DEFINE A(u, n) == u = k /\ n = 1 /\ T[u][n] = r
             B(u, n) == u = k /\ u \in 1 .. Len(S) /\ n - 1 \in 1 .. Len(S[u])
                              /\ T[u][n] = S[u][n - 1]
             C(u, n) == u # k /\ u \in 1 .. Len(S) /\ n \in 1 .. Len(S[u]) /\ T[u][n] = S[u][n]
  <2>4. (A(s, i) \/ B(s, i) \/ C(s, i)) /\ (A(t, j) \/ B(t, j) \/ C(t, j))
    BY <1>5
  <2>5. CASE A(s, i)
    <3>1. ~B(t, j) /\ ~C(t, j)
      BY <2>1, <2>5
    <3> QED
      BY <2>4, <2>5, <3>1
  <2>6. CASE B(s, i)
    <3>1. ~A(t, j)
      BY <2>1, <2>6
    <3>2. CASE B(t, j)
      <4>1. i - 1 = j - 1
        <5> DEFINE m == i - 1
                   n == j - 1
        <5>1. /\ s \in 1 .. Len(S) /\ t \in 1 .. Len(S)
              /\ m \in 1 .. Len(S[s]) /\ n \in 1 .. Len(S[t])
              /\ S[s][m].name = S[t][n].name
          BY <2>6, <3>2
        <5> HIDE DEF m, n
        <5>2. m = n
          BY <2>21, <5>1
        <5> QED
          BY <5>2 DEF m, n
      <4> QED
        BY <2>3, <2>6, <3>2, <4>1
    <3>3. CASE C(t, j)
      <4> DEFINE m == i - 1
      <4>1. /\ s \in 1 .. Len(S) /\ t \in 1 .. Len(S) /\ s # t
            /\ m \in 1 .. Len(S[s]) /\ j \in 1 .. Len(S[t])
            /\ S[s][m].name = S[t][j].name
        BY <2>6, <3>3
      <4> HIDE DEF m
      <4> QED
        BY <2>21, <4>1
    <3> QED
      BY <2>4, <3>1, <3>2, <3>3
  <2>7. CASE C(s, i)
    <3>1. ~A(t, j)
      BY <2>1, <2>7
    <3>2. CASE B(t, j)
      <4> DEFINE n == j - 1
      <4>1. /\ s \in 1 .. Len(S) /\ t \in 1 .. Len(S) /\ s # t
            /\ i \in 1 .. Len(S[s]) /\ n \in 1 .. Len(S[t])
            /\ S[s][i].name = S[t][n].name
        BY <2>7, <3>2
      <4> HIDE DEF n
      <4> QED
        BY <2>21, <4>1
    <3>3. CASE C(t, j)
      <4>1. /\ s \in 1 .. Len(S) /\ t \in 1 .. Len(S)
            /\ i \in 1 .. Len(S[s]) /\ j \in 1 .. Len(S[t])
            /\ S[s][i].name = S[t][j].name
        BY <2>7, <3>3
      <4> QED
        BY <2>21, <4>1
    <3> QED
      BY <2>4, <3>1, <3>2, <3>3
  <2> QED
    BY <2>4, <2>5, <2>6, <2>7
<1> QED
  BY <1>3, <1>7, <1>8 DEF q

\* rbh_sstack_pop() of one ring of the current stack.
LEMMA PoolPop ==
    ASSUME NEW p, PoolOK(p), Top(p) # <<>>
    PROVE  /\ PoolOK(sstack_pop(p, 1))
           /\ Top(p)[1] \in QRing
           /\ Top(p)[1].name \in PoolNames(p)
           /\ DistinctPool(p) => /\ DistinctPool(sstack_pop(p, 1))
                                 /\ PoolNames(sstack_pop(p, 1)) = PoolNames(p) \ {Top(p)[1].name}
<1> DEFINE S == p.stacks
           q == sstack_pop(p, 1)
           k == p.current + 1
           left == SubSeq(S[k], 2, Len(S[k]))
           c == IF left = <<>> /\ p.current > 0 THEN p.current - 1 ELSE p.current
           T == [S EXCEPT ![k] = left]
<1>1. /\ S \in Seq(Seq(QRing)) /\ Len(S) \in Nat
      /\ p.chunk \in Nat /\ p.current \in Nat /\ p.count \in Nat /\ p.initialized \in Nat
      /\ Len(S) = p.initialized /\ k \in 1 .. Len(S)
      /\ Top(p) = S[k]
      /\ p = [stacks |-> S, chunk |-> p.chunk, current |-> p.current,
              count |-> p.count, initialized |-> p.initialized]
  BY PoolParts
<1>2. \A s \in 1 .. Len(S) : S[s] \in Seq(QRing) /\ Len(S[s]) \in Nat
  BY PoolParts
<1>3. \A s \in 1 .. Len(S) : s > p.current + 1 => S[s] = <<>>
  BY PoolParts
<1>4. \A s \in 1 .. Len(S) : \A i \in 1 .. Len(S[s]) : S[s][i].elements = <<>>
  BY PoolParts
<1>5. p.stacks = S
  OBVIOUS
<1>6. q = [stacks |-> T, chunk |-> p.chunk, current |-> c,
           count |-> p.count, initialized |-> p.initialized]
  <2> DEFINE F == {"stacks", "chunk", "current", "count", "initialized"}
  <2>1. q = [p EXCEPT !.stacks[k] = left, !.current = IF left = <<>> /\ @ > 0 THEN @ - 1 ELSE @]
    BY <1>1 DEF sstack_pop
  <2> HIDE DEF q, left
  <2>2. DOMAIN q = F /\ q = [x \in F |-> q[x]]
    BY <1>1, <2>1
  <2>3. q.stacks = T /\ q.chunk = p.chunk /\ q.count = p.count /\ q.initialized = p.initialized
    BY <1>1, <2>1
  <2>4. q.current = c
    BY <1>1, <2>1
  <2> HIDE DEF T, c, k, S
  <2> QED
    BY <2>2, <2>3, <2>4
<1> HIDE DEF S
<1>7. S[k] \in Seq(QRing) /\ S[k] # <<>>
  BY <1>1, <1>2
<1>8. /\ left \in Seq(QRing) /\ Len(S[k]) \in Nat \ {0} /\ S[k][1] \in QRing
      /\ Len(left) = Len(S[k]) - 1
      /\ \A n \in 1 .. Len(S[k]) - 1 : left[n] = S[k][n + 1]
  <2> HIDE DEF k
  <2> QED
    BY <1>7, PopSeq
<1> HIDE DEF left
<1>9. /\ T \in Seq(Seq(QRing)) /\ Len(T) = Len(S) /\ T[k] = left
      /\ \A s \in 1 .. Len(S) : s # k => T[s] = S[s]
  <2> HIDE DEF k
  <2> QED
    BY <1>1, <1>8, ExceptAt
<1> HIDE DEF T
<1>10. c \in Nat /\ c <= p.current /\ (c # p.current => left = <<>> /\ c = p.current - 1)
  BY <1>1
<1> HIDE DEF c, q
<1>11. PoolOK(q)
  <2>1. \A s \in 1 .. Len(T) : s > c + 1 => T[s] = <<>>
    <3> SUFFICES ASSUME NEW s \in 1 .. Len(T), s > c + 1 PROVE T[s] = <<>>
      OBVIOUS
    <3>1. CASE s = k
      <4>1. c # p.current
        BY <1>1, <1>10, <3>1
      <4> QED
        BY <1>9, <1>10, <3>1, <4>1
    <3>2. CASE s # k
      <4>1. s \in 1 .. Len(S) /\ s > p.current + 1
        <5>1. s \in 1 .. Len(S) /\ Len(S) \in Nat /\ p.current \in Nat
          BY <1>1, <1>9
        <5>2. c \in Nat /\ (c = p.current \/ c = p.current - 1)
          BY <1>10
        <5> QED
          BY <3>2, <5>1, <5>2
      <4> QED
        BY <1>3, <1>9, <3>2, <4>1
    <3> QED
      BY <3>1, <3>2
  <2> HIDE DEF k
  <2>2. \A s \in 1 .. Len(T) : \A i \in 1 .. Len(T[s]) : T[s][i].elements = <<>>
    <3> SUFFICES ASSUME NEW s \in 1 .. Len(T), NEW i \in 1 .. Len(T[s])
                 PROVE  T[s][i].elements = <<>>
      OBVIOUS
    <3>1. CASE s # k
      BY <1>4, <1>9, <3>1
    <3>2. CASE s = k
      <4>1. i \in 1 .. Len(S[k]) - 1 /\ i + 1 \in 1 .. Len(S[k])
        BY <1>8, <1>9, <3>2
      <4>2. T[s][i] = S[k][i + 1]
        BY <1>8, <1>9, <3>2, <4>1
      <4> QED
        BY <1>1, <1>4, <4>1, <4>2
    <3> QED
      BY <3>1, <3>2
  <2>3. c < p.initialized /\ Len(T) = p.initialized
    BY <1>1, <1>9, <1>10 DEF k
  <2> QED
    BY <1>1, <1>6, <1>9, <1>10, <2>1, <2>2, <2>3, PoolIntro
<1>12. q.stacks = T
  BY <1>6
<1>13. 1 \in 1 .. Len(S[k]) /\ k \in 1 .. Len(S)
  BY <1>1, <1>8
<1>14. S[k][1].name \in PoolNames(p)
  BY <1>13, PoolName DEF S
<1> HIDE DEF k
\* Where each ring that is left was, and where each old one but the first is.
<1>15. \A s \in 1 .. Len(T) : \A i \in 1 .. Len(T[s]) :
          \/ s = k /\ s \in 1 .. Len(S) /\ i + 1 \in 1 .. Len(S[s]) /\ T[s][i] = S[s][i + 1]
          \/ s # k /\ s \in 1 .. Len(S) /\ i \in 1 .. Len(S[s]) /\ T[s][i] = S[s][i]
  <2> SUFFICES ASSUME NEW s \in 1 .. Len(T), NEW i \in 1 .. Len(T[s])
               PROVE  \/ s = k /\ s \in 1 .. Len(S) /\ i + 1 \in 1 .. Len(S[s])
                               /\ T[s][i] = S[s][i + 1]
                      \/ s # k /\ s \in 1 .. Len(S) /\ i \in 1 .. Len(S[s])
                               /\ T[s][i] = S[s][i]
    OBVIOUS
  <2>1. CASE s # k
    BY <1>9, <2>1
  <2>2. CASE s = k
    <3>1. i \in 1 .. Len(S[k]) - 1 /\ i + 1 \in 1 .. Len(S[k])
      BY <1>8, <1>9, <2>2
    <3> QED
      BY <1>8, <1>9, <2>2, <3>1
  <2> QED
    BY <2>1, <2>2
<1>16. \A s \in 1 .. Len(S) : \A i \in 1 .. Len(S[s]) :
          (s = k /\ i = 1) \/ \E j \in 1 .. Len(T[s]) : s \in 1 .. Len(T) /\ T[s][j] = S[s][i]
  <2> SUFFICES ASSUME NEW s \in 1 .. Len(S), NEW i \in 1 .. Len(S[s]), ~(s = k /\ i = 1)
               PROVE  \E j \in 1 .. Len(T[s]) : s \in 1 .. Len(T) /\ T[s][j] = S[s][i]
    OBVIOUS
  <2>1. s \in 1 .. Len(T)
    BY <1>9
  <2>2. CASE s # k
    BY <1>9, <2>1, <2>2
  <2>3. CASE s = k
    <3>1. i - 1 \in 1 .. Len(S[k]) - 1 /\ (i - 1) + 1 = i /\ Len(T[k]) = Len(S[k]) - 1
      BY <1>8, <1>9, <2>3
    <3>2. T[k][i - 1] = S[k][i]
      BY <1>8, <1>9, <3>1
    <3> QED
      BY <2>1, <2>3, <3>1, <3>2
  <2> QED
    BY <2>2, <2>3
<1>17. ASSUME DistinctPool(p)
       PROVE  DistinctPool(q) /\ PoolNames(q) = PoolNames(p) \ {S[k][1].name}
  <2>1. \A u, v \in 1 .. Len(S) : \A m \in 1 .. Len(S[u]), n \in 1 .. Len(S[v]) :
            S[u][m].name = S[v][n].name => u = v /\ m = n
    BY <1>17 DEF DistinctPool, S
  <2>2. \A s \in 1 .. Len(T) : Len(T[s]) \in Nat
    BY <1>9, SeqFacts
  <2>3. ASSUME NEW s \in 1 .. Len(T), NEW i \in 1 .. Len(T[s])
        PROVE  \E m \in 1 .. Len(S[s]) :
                  /\ s \in 1 .. Len(S) /\ T[s][i] = S[s][m]
                  /\ m = IF s = k THEN i + 1 ELSE i
    BY <1>15
  <2>4. DistinctPool(q)
    <3> SUFFICES ASSUME NEW s \in 1 .. Len(T), NEW t \in 1 .. Len(T),
                        NEW i \in 1 .. Len(T[s]), NEW j \in 1 .. Len(T[t]),
                        T[s][i].name = T[t][j].name
                 PROVE  s = t /\ i = j
      BY <1>12 DEF DistinctPool
    <3>1. PICK m \in 1 .. Len(S[s]) :
             /\ s \in 1 .. Len(S) /\ T[s][i] = S[s][m]
             /\ m = IF s = k THEN i + 1 ELSE i
      BY <2>3
    <3>2. PICK n \in 1 .. Len(S[t]) :
             /\ t \in 1 .. Len(S) /\ T[t][j] = S[t][n]
             /\ n = IF t = k THEN j + 1 ELSE j
      BY <2>3
    <3>3. s = t /\ m = n
      <4>1. \A y \in 1 .. Len(S[s]), z \in 1 .. Len(S[t]) :
                S[s][y].name = S[t][z].name => s = t /\ y = z
        BY <2>1, <3>1, <3>2
      <4>2. S[s][m].name = S[t][n].name
        BY <3>1, <3>2
      <4> QED
        BY <4>1, <4>2
    <3>4. i \in Nat /\ j \in Nat
      BY <2>2
    <3> QED
      BY <3>1, <3>2, <3>3, <3>4
  <2>5. ASSUME NEW n \in PoolNames(q)
        PROVE  n \in PoolNames(p) /\ n # S[k][1].name
    <3>1. PICK s \in 1 .. Len(T) : \E i \in 1 .. Len(T[s]) : n = T[s][i].name
      BY <1>12, <2>5 DEF PoolNames
    <3>2. PICK i \in 1 .. Len(T[s]) : n = T[s][i].name
      BY <3>1
    <3>3. PICK m \in 1 .. Len(S[s]) :
             /\ s \in 1 .. Len(S) /\ T[s][i] = S[s][m]
             /\ m = IF s = k THEN i + 1 ELSE i
      BY <2>3
    <3>4. S[s][m].name \in PoolNames(p)
      BY <3>3, PoolName DEF S
    <3>5. ~(s = k /\ m = 1)
      BY <2>2, <3>3
    <3>6. S[s][m].name # S[k][1].name
      BY <1>13, <2>1, <3>3, <3>5
    <3> QED
      BY <3>2, <3>3, <3>4, <3>6
  <2>6. ASSUME NEW n \in PoolNames(p), n # S[k][1].name
        PROVE  n \in PoolNames(q)
    <3>1. PICK s \in 1 .. Len(S) : \E i \in 1 .. Len(S[s]) : n = S[s][i].name
      BY <2>6 DEF PoolNames, S
    <3>2. PICK i \in 1 .. Len(S[s]) : n = S[s][i].name
      BY <3>1
    <3>3. PICK j \in 1 .. Len(T[s]) : s \in 1 .. Len(T) /\ T[s][j] = S[s][i]
      BY <1>16, <2>6, <3>2
    <3>4. T[s][j].name \in PoolNames(q)
      BY <1>12, <3>3, PoolName
    <3> QED
      BY <3>2, <3>3, <3>4
  <2> QED
    BY <2>4, <2>5, <2>6
<1> QED
  BY <1>1, <1>8, <1>11, <1>14, <1>17 DEF q


-----------------------------------------------------------------------------
(* The operations of a queue, on the list of its rings and on its pool.    *)

QFields == {"rings", "chunk", "pool", "head", "tail", "count"}

\* The fields of a queue, and the list of the rings between head and tail.
LEMMA QueueParts ==
    ASSUME NEW q, QueueOK(q)
    PROVE  /\ DOMAIN q = QFields /\ q = [x \in QFields |-> q[x]]
           /\ q.rings \in Seq(QRing) /\ Len(q.rings) = q.count
           /\ q.head \in Nat /\ q.tail \in Nat /\ q.count \in Nat
           /\ q.head <= q.tail /\ q.tail < q.count
           /\ q.chunk = QueueChunk /\ PoolOK(q.pool)
<1>1. q \in [rings : Seq(QRing), chunk : {QueueChunk}, pool : {q.pool},
             head : Nat, tail : Nat, count : Nat]
  BY DEF QueueOK
<1>2. DOMAIN q = QFields /\ q = [x \in QFields |-> q[x]]
  BY <1>1 DEF QFields
<1>3. /\ q.rings \in Seq(QRing) /\ q.chunk = QueueChunk
      /\ q.head \in Nat /\ q.tail \in Nat /\ q.count \in Nat
  BY <1>1
<1> QED
  BY <1>2, <1>3 DEF QueueOK

\* A record with these fields is a queue.
LEMMA QueueIntro ==
    ASSUME NEW q, q = [x \in QFields |-> q[x]],
           q.rings \in Seq(QRing), Len(q.rings) = q.count,
           q.head \in Nat, q.tail \in Nat, q.count \in Nat,
           q.head <= q.tail, q.tail < q.count,
           q.chunk = QueueChunk, PoolOK(q.pool)
    PROVE  QueueOK(q)
<1>1. q \in [rings : Seq(QRing), chunk : {QueueChunk}, pool : {q.pool},
             head : Nat, tail : Nat, count : Nat]
  BY DEF QFields
<1> QED
  BY <1>1 DEF QueueOK

\* The list of the rings between head and tail.
LEMMA RingList ==
    ASSUME NEW q, q.rings \in Seq(QRing), q.head \in Nat, q.tail \in Nat,
           q.head <= q.tail, q.tail < Len(q.rings)
    PROVE  /\ queue_rings(q) \in Seq(QRing)
           /\ Len(queue_rings(q)) = (q.tail - q.head) + 1 /\ Len(queue_rings(q)) \in Nat \ {0}
           /\ \A i \in 1 .. (q.tail - q.head) + 1 : queue_rings(q)[i] = q.rings[q.head + i]
           /\ queue_rings(q)[1] = q.rings[q.head + 1]
           /\ queue_rings(q)[(q.tail - q.head) + 1] = q.rings[q.tail + 1]
<1> DEFINE R == q.rings
           h == q.head
           t == q.tail
           n == (t - h) + 1
           rs == queue_rings(q)
<1>0. R \in Seq(QRing) /\ h \in Nat /\ t \in Nat /\ h <= t /\ t < Len(R)
  OBVIOUS
<1>2. rs = [i \in 1 .. n |-> R[h + i]]
  BY DEF queue_rings
<1> HIDE DEF R, h, t, rs
<1>1. n \in Nat \ {0} /\ h + n = t + 1
  BY <1>0
<1>3. \A i \in 1 .. n : R[h + i] \in QRing
  <2> SUFFICES ASSUME NEW i \in 1 .. n PROVE R[h + i] \in QRing
    OBVIOUS
  <2>1. h + i \in 1 .. Len(R)
    BY <1>0
  <2> QED
    BY <1>0, <2>1, SeqFacts
<1> HIDE DEF n
<1>4. rs \in [1 .. n -> QRing]
  BY <1>2, <1>3
<1>5. rs \in Seq(QRing) /\ Len(rs) = n
  BY <1>1, <1>4, SeqIntro
<1>6. \A i \in 1 .. n : rs[i] = R[h + i]
  BY <1>2
<1>7. rs[1] = R[h + 1] /\ rs[n] = R[t + 1]
  BY <1>1, <1>6
<1> QED
  BY <1>1, <1>5, <1>6, <1>7 DEF n, rs, R, h, t

\* The fields of a ring.
LEMMA RingParts ==
    ASSUME NEW r \in QRing
    PROVE  r.name \in Nat /\ r.elements \in Seq(Nat \ {0})
BY DEF QRing

\* The elements of a ring replaced.
LEMMA RingExcept ==
    ASSUME NEW r \in QRing, NEW s \in Seq(Nat \ {0})
    PROVE  /\ [r EXCEPT !.elements = s] = [name |-> r.name, elements |-> s]
           /\ [name |-> r.name, elements |-> s] \in QRing
           /\ r.name \in Nat /\ r.elements \in Seq(Nat \ {0})
BY DEF QRing

\* Two lists of the same length with the same elements are the same.
LEMMA SameSeq ==
    ASSUME NEW S, NEW s \in Seq(S), NEW T, NEW t \in Seq(T), Len(s) = Len(t),
           \A i \in 1 .. Len(s) : s[i] = t[i]
    PROVE  s = t
OBVIOUS

\* There is room for one ring behind the tail, and the rings are the same.
LEMMA RoomMade ==
    ASSUME NEW q, QueueOK(q)
    PROVE  LET m == MakeRoom(q)
           IN /\ DOMAIN m = QFields /\ m = [x \in QFields |-> m[x]]
              /\ m.rings \in Seq(QRing) /\ Len(m.rings) = m.count
              /\ m.head \in Nat /\ m.tail \in Nat \ {0} /\ m.count \in Nat
              /\ m.tail < m.count /\ m.tail - m.head = (q.tail - q.head) + 1
              /\ m.chunk = QueueChunk /\ m.pool = q.pool
              /\ \A i \in 1 .. (q.tail - q.head) + 1 : m.rings[m.head + i] = q.rings[q.head + i]
<1> DEFINE m == MakeRoom(q)
           t == q.tail + 1
           R == q.rings
           F == QFields
<1>1. /\ DOMAIN q = F /\ q = [x \in F |-> q[x]]
      /\ R \in Seq(QRing) /\ Len(R) = q.count
      /\ q.head \in Nat /\ q.tail \in Nat /\ q.count \in Nat
      /\ q.head <= q.tail /\ q.tail < q.count
      /\ q.chunk = QueueChunk /\ PoolOK(q.pool)
  BY QueueParts
<1>11. \A i \in 1 .. q.count : R[i] \in QRing
  BY <1>1, SeqFacts
<1>12. NoRing \in QRing
  BY DEF NoRing, QRing
<1>13. q.count \div 2 \in Nat
  BY <1>1
<1>2. CASE t < q.count
  <2>1. m = [q EXCEPT !.tail = t]
    BY <1>1, <1>2 DEF MakeRoom
  <2> HIDE DEF m
  <2>2. /\ DOMAIN m = F /\ m = [x \in F |-> m[x]]
        /\ m.rings = R /\ m.head = q.head /\ m.tail = t /\ m.count = q.count
        /\ m.chunk = q.chunk /\ m.pool = q.pool
    BY <1>1, <2>1 DEF QFields
  <2> QED
    BY <1>1, <1>2, <2>2, SMTT(30) DEF m
<1>3. CASE ~(t < q.count) /\ q.head > q.count \div 2
  <2> DEFINE N == [i \in 1 .. q.count |-> IF i <= t - q.head THEN R[i + q.head] ELSE R[i]]
  <2>1. m = [q EXCEPT !.rings = N, !.tail = t - q.head, !.head = 0]
    BY <1>1, <1>3 DEF MakeRoom
  <2>2. N \in [1 .. q.count -> QRing]
    <3> SUFFICES ASSUME NEW i \in 1 .. q.count
                 PROVE  (IF i <= t - q.head THEN R[i + q.head] ELSE R[i]) \in QRing
      OBVIOUS
    <3>1. i <= t - q.head => i + q.head \in 1 .. q.count
      BY <1>1
    <3> QED
      BY <1>11, <3>1
  <2>3. \A i \in 1 .. (q.tail - q.head) + 1 : N[i] = R[q.head + i]
    <3> SUFFICES ASSUME NEW i \in 1 .. (q.tail - q.head) + 1 PROVE N[i] = R[q.head + i]
      OBVIOUS
    <3>1. i \in 1 .. q.count /\ i <= t - q.head /\ i + q.head = q.head + i
      BY <1>1
    <3> QED
      BY <3>1
  <2> HIDE DEF N, m
  <2>4. N \in Seq(QRing) /\ Len(N) = q.count
    BY <1>1, <2>2, SeqIntro
  <2>5. DOMAIN m = F /\ m = [x \in F |-> m[x]]
    BY <1>1, <2>1 DEF QFields
  <2>6. /\ m.rings = N /\ m.head = 0 /\ m.tail = t - q.head /\ m.count = q.count
        /\ m.chunk = q.chunk /\ m.pool = q.pool
    BY <1>1, <2>1 DEF QFields
  <2>7. /\ t - q.head \in Nat \ {0} /\ t - q.head < q.count
        /\ (t - q.head) - 0 = (q.tail - q.head) + 1
    BY <1>1, <1>3, <1>13, SMTT(30)
  <2>8. \A i \in 1 .. (q.tail - q.head) + 1 : m.rings[m.head + i] = R[q.head + i]
    <3> SUFFICES ASSUME NEW i \in 1 .. (q.tail - q.head) + 1
                 PROVE  m.rings[m.head + i] = R[q.head + i]
      OBVIOUS
    <3>1. 0 + i = i
      BY <1>1
    <3> QED
      BY <2>3, <2>6, <3>1
  <2> HIDE DEF R, t, F
  <2> QED
    BY <1>1, <2>4, <2>5, <2>6, <2>7, <2>8, SMTT(30) DEF m, R, F
<1>4. CASE ~(t < q.count) /\ ~(q.head > q.count \div 2)
  <2> DEFINE N == [i \in 1 .. 2 * q.count |-> IF i <= q.count THEN R[i] ELSE NoRing]
  <2>1. m = [q EXCEPT !.rings = N, !.tail = t, !.count = q.count * 2]
    BY <1>1, <1>4 DEF MakeRoom
  <2>2. N \in [1 .. 2 * q.count -> QRing]
    BY <1>1, <1>11, <1>12
  <2>3. \A i \in 1 .. (q.tail - q.head) + 1 : N[q.head + i] = R[q.head + i]
    <3> SUFFICES ASSUME NEW i \in 1 .. (q.tail - q.head) + 1 PROVE N[q.head + i] = R[q.head + i]
      OBVIOUS
    <3>1. q.head + i \in 1 .. 2 * q.count /\ q.head + i <= q.count
      BY <1>1
    <3> QED
      BY <3>1
  <2> HIDE DEF N, m
  <2>4. N \in Seq(QRing) /\ Len(N) = q.count * 2
    <3>1. 2 * q.count \in Nat /\ 2 * q.count = q.count * 2
      BY <1>1
    <3> QED
      BY <2>2, <3>1, SeqIntro
  <2>5. DOMAIN m = F /\ m = [x \in F |-> m[x]]
    BY <1>1, <2>1 DEF QFields
  <2>6. /\ m.rings = N /\ m.head = q.head /\ m.tail = t /\ m.count = q.count * 2
        /\ m.chunk = q.chunk /\ m.pool = q.pool
    BY <1>1, <2>1 DEF QFields
  <2>7. /\ t \in Nat \ {0} /\ t < q.count * 2 /\ q.count * 2 \in Nat
        /\ t - q.head = (q.tail - q.head) + 1
    <3>1. q.head \in Nat /\ q.tail \in Nat /\ q.count \in Nat /\ q.tail < q.count
      BY <1>1
    <3> QED
      BY <3>1
  <2> HIDE DEF R, t, F
  <2> QED
    BY <1>1, <2>3, <2>4, <2>5, <2>6, <2>7 DEF m, R, F
<1> QED
  BY <1>2, <1>3, <1>4

\* What rbh_queue_push() does to a list of rings: the last ring has one more
\* element, or a ring named n comes after it.
LastGrown(rs, e, ns) ==
    ns = [rs EXCEPT ![Len(rs)] = [name |-> rs[Len(rs)].name,
                                  elements |-> Append(rs[Len(rs)].elements, e)]]
RingAdded(rs, n, e, ns) ==
    /\ rs[Len(rs)].elements # <<>>
    /\ ns = Append(rs, [name |-> n, elements |-> <<e>>])

\* What it does to a queue: it fails only when the ring it needs cannot be made.
Pushed(q, e, fresh, r) ==
    \/ /\ r.ok = TRUE /\ r.made = FALSE /\ r.queue.pool = q.pool
       /\ LastGrown(queue_rings(q), e, queue_rings(r.queue))
    \/ /\ r.ok = TRUE /\ r.made = FALSE
       /\ Top(q.pool) # <<>> /\ r.queue.pool = sstack_pop(q.pool, 1)
       /\ RingAdded(queue_rings(q), Top(q.pool)[1].name, e, queue_rings(r.queue))
    \/ /\ r.ok = TRUE /\ r.made = TRUE /\ fresh # 0 /\ r.queue.pool = q.pool
       /\ RingAdded(queue_rings(q), fresh, e, queue_rings(r.queue))
    \/ /\ r.ok = FALSE /\ r.made = FALSE /\ fresh = 0 /\ r.queue.pool = q.pool
       /\ queue_rings(r.queue) = queue_rings(q)

\* rbh_queue_push() into the last ring.
LEMMA PushLast ==
    ASSUME NEW q, QueueOK(q), NEW e \in Nat \ {0}, NEW fresh \in Nat,
           Len(q.rings[q.tail + 1].elements) < q.chunk
    PROVE  /\ QueueOK(queue_push(q, e, fresh).queue)
           /\ Pushed(q, e, fresh, queue_push(q, e, fresh))
<1> DEFINE k == q.tail + 1
           R == q.rings
           x == [name |-> R[k].name, elements |-> Append(R[k].elements, e)]
           N == [R EXCEPT ![k] = x]
           z == queue_push(q, e, fresh).queue
           rs == queue_rings(q)
           ns == queue_rings(z)
           n == (q.tail - q.head) + 1
<1>1. /\ DOMAIN q = QFields /\ q = [y \in QFields |-> q[y]]
      /\ R \in Seq(QRing) /\ Len(R) = q.count
      /\ q.head \in Nat /\ q.tail \in Nat /\ q.count \in Nat
      /\ q.head <= q.tail /\ q.tail < q.count
      /\ q.chunk = QueueChunk /\ PoolOK(q.pool)
  BY QueueParts
<1>2. k \in 1 .. Len(R) /\ R[k] \in QRing
  BY <1>1
<1>21. Append(R[k].elements, e) \in Seq(Nat \ {0})
  <2>1. R[k].elements \in Seq(Nat \ {0})
    BY <1>2 DEF QRing
  <2> HIDE DEF R, k
  <2> QED
    BY <2>1, AppendSeq
<1>3. x \in QRing
  BY <1>2, <1>21, RingExcept
<1>4. queue_push(q, e, fresh) = [ok |-> TRUE, made |-> FALSE, queue |-> [q EXCEPT !.rings = N]]
  <2>1. [R[k] EXCEPT !.elements = Append(R[k].elements, e)] = x
    <3> HIDE DEF R, k
    <3> QED
      BY <1>2, <1>21, RingExcept
  <2>2. queue_push(q, e, fresh) =
           [ok |-> TRUE, made |-> FALSE,
            queue |-> [q EXCEPT !.rings =
                         [q.rings EXCEPT ![q.tail + 1] =
                            [q.rings[q.tail + 1] EXCEPT !.elements =
                                Append(q.rings[q.tail + 1].elements, e)]]]]
    BY DEF queue_push
  <2> HIDE DEF x
  <2> QED
    BY <2>1, <2>2
<1>5. /\ queue_push(q, e, fresh).ok = TRUE /\ queue_push(q, e, fresh).made = FALSE
      /\ z = [q EXCEPT !.rings = N]
  BY <1>4
<1> HIDE DEF z, N
<1>6. DOMAIN z = QFields /\ z = [y \in QFields |-> z[y]]
  BY <1>1, <1>5 DEF QFields
<1>7. /\ z.rings = N /\ z.head = q.head /\ z.tail = q.tail /\ z.count = q.count
      /\ z.chunk = q.chunk /\ z.pool = q.pool
  BY <1>1, <1>5 DEF QFields
<1> HIDE DEF x, k
<1>8. /\ N \in Seq(QRing) /\ Len(N) = Len(R) /\ N[k] = x
      /\ \A i \in 1 .. Len(R) : i # k => N[i] = R[i]
  BY <1>1, <1>2, <1>3, ExceptAt DEF N
<1> HIDE DEF R
<1>9. QueueOK(z)
  BY <1>1, <1>6, <1>7, <1>8, QueueIntro
<1>10. /\ rs \in Seq(QRing) /\ Len(rs) = n /\ n \in Nat \ {0}
       /\ \A i \in 1 .. n : rs[i] = R[q.head + i]
       /\ rs[n] = R[k]
  BY <1>1, RingList DEF R, k, n
<1>11. /\ ns \in Seq(QRing) /\ Len(ns) = n
       /\ \A i \in 1 .. n : ns[i] = N[q.head + i]
  <2>1. /\ z.rings \in Seq(QRing) /\ z.head \in Nat /\ z.tail \in Nat
        /\ z.head <= z.tail /\ z.tail < Len(z.rings)
    BY <1>1, <1>7, <1>8
  <2>2. /\ ns \in Seq(QRing) /\ Len(ns) = (z.tail - z.head) + 1
        /\ \A i \in 1 .. (z.tail - z.head) + 1 : ns[i] = z.rings[z.head + i]
    BY <2>1, RingList
  <2> HIDE DEF ns
  <2> QED
    BY <1>7, <2>2
<1>12. LastGrown(rs, e, ns)
  <2>1. /\ [rs EXCEPT ![n] = x] \in Seq(QRing) /\ Len([rs EXCEPT ![n] = x]) = n
        /\ [rs EXCEPT ![n] = x][n] = x
        /\ \A i \in 1 .. n : i # n => [rs EXCEPT ![n] = x][i] = rs[i]
    <3> HIDE DEF n, rs
    <3>1. n \in 1 .. Len(rs)
      BY <1>10
    <3> QED
      BY <1>3, <1>10, <3>1, ExceptAt
  <2>2. \A i \in 1 .. n : ns[i] = [rs EXCEPT ![n] = x][i]
    <3> SUFFICES ASSUME NEW i \in 1 .. n PROVE ns[i] = [rs EXCEPT ![n] = x][i]
      OBVIOUS
    <3>1. CASE i = n
      <4>1. q.head + i = k
        BY <1>1, <3>1 DEF k
      <4> QED
        BY <1>8, <1>11, <2>1, <3>1, <4>1
    <3>2. CASE i # n
      <4>1. q.head + i # k /\ q.head + i \in 1 .. Len(R)
        BY <1>1, <3>2 DEF k
      <4> HIDE DEF n
      <4> QED
        BY <1>8, <1>10, <1>11, <2>1, <3>2, <4>1
    <3> QED
      BY <3>1, <3>2
  <2>3. ns = [rs EXCEPT ![n] = x]
    <3> HIDE DEF n, rs, ns
    <3> QED
      BY <1>10, <1>11, <2>1, <2>2, SameSeq
  <2>4. x = [name |-> rs[n].name, elements |-> Append(rs[n].elements, e)]
    BY <1>10 DEF x
  <2> HIDE DEF n, rs, ns
  <2> QED
    BY <1>10, <2>3, <2>4 DEF LastGrown
<1> QED
  BY <1>5, <1>7, <1>9, <1>12 DEF Pushed, z

\* A ring put behind the rings of a queue, where there is room.
Filled(q, x, P, z) ==
    LET m == MakeRoom(q)
    IN z = [m EXCEPT !.rings = [m.rings EXCEPT ![m.tail + 1] = x], !.pool = P]

\* It comes after them.
LEMMA RoomFilled ==
    ASSUME NEW q, QueueOK(q), NEW x \in QRing, NEW P, PoolOK(P), NEW z, Filled(q, x, P, z)
    PROVE  QueueOK(z) /\ z.pool = P /\ queue_rings(z) = Append(queue_rings(q), x)
<1> DEFINE m == MakeRoom(q)
           k == m.tail + 1
           N == [m.rings EXCEPT ![k] = x]
           rs == queue_rings(q)
           ns == queue_rings(z)
           n == (q.tail - q.head) + 1
<1>1. /\ DOMAIN m = QFields /\ m = [y \in QFields |-> m[y]]
      /\ m.rings \in Seq(QRing) /\ Len(m.rings) = m.count
      /\ m.head \in Nat /\ m.tail \in Nat \ {0} /\ m.count \in Nat
      /\ m.tail < m.count /\ m.tail - m.head = n
      /\ m.chunk = QueueChunk
      /\ \A i \in 1 .. n : m.rings[m.head + i] = q.rings[q.head + i]
  BY RoomMade
<1>2. /\ q.rings \in Seq(QRing) /\ Len(q.rings) = q.count /\ q.head \in Nat /\ q.tail \in Nat
      /\ q.head <= q.tail /\ q.tail < Len(q.rings)
  BY QueueParts
<1>3. z = [m EXCEPT !.rings = N, !.pool = P]
  BY DEF Filled
<1> HIDE DEF m
<1>4. k \in 1 .. Len(m.rings) /\ n \in Nat \ {0} /\ m.head <= m.tail
  <2>1. n \in Nat \ {0}
    BY <1>2
  <2>2. m.head \in Nat /\ m.tail \in Nat /\ m.count \in Nat /\ m.tail < m.count
        /\ Len(m.rings) = m.count /\ m.tail - m.head = n
    BY <1>1
  <2> HIDE DEF n
  <2> QED
    BY <2>1, <2>2
<1> HIDE DEF N, k
<1>5. DOMAIN z = QFields /\ z = [y \in QFields |-> z[y]]
  BY <1>1, <1>3 DEF QFields
<1>6. /\ z.rings = N /\ z.head = m.head /\ z.tail = m.tail /\ z.count = m.count
      /\ z.chunk = m.chunk /\ z.pool = P
  BY <1>1, <1>3 DEF QFields
<1>7. /\ N \in Seq(QRing) /\ Len(N) = Len(m.rings) /\ N[k] = x
      /\ \A i \in 1 .. Len(m.rings) : i # k => N[i] = m.rings[i]
  BY <1>1, <1>4, ExceptAt DEF N
<1>8. QueueOK(z)
  BY <1>1, <1>4, <1>5, <1>6, <1>7, QueueIntro
<1>9. /\ rs \in Seq(QRing) /\ Len(rs) = n
      /\ \A i \in 1 .. n : rs[i] = q.rings[q.head + i]
  BY <1>2, RingList
<1>10. /\ ns \in Seq(QRing) /\ Len(ns) = (m.tail - m.head) + 1
       /\ \A i \in 1 .. (m.tail - m.head) + 1 : ns[i] = N[m.head + i]
  <2>1. /\ z.rings \in Seq(QRing) /\ z.head \in Nat /\ z.tail \in Nat
        /\ z.head <= z.tail /\ z.tail < Len(z.rings)
    BY <1>1, <1>4, <1>6, <1>7
  <2>2. /\ ns \in Seq(QRing) /\ Len(ns) = (z.tail - z.head) + 1
        /\ \A i \in 1 .. (z.tail - z.head) + 1 : ns[i] = z.rings[z.head + i]
    BY <2>1, RingList
  <2> HIDE DEF ns
  <2> QED
    BY <1>6, <2>2
<1>11. /\ Append(rs, x) \in Seq(QRing) /\ Len(Append(rs, x)) = n + 1
       /\ Append(rs, x)[n + 1] = x
       /\ \A i \in 1 .. n : Append(rs, x)[i] = rs[i]
  <2> HIDE DEF rs, n
  <2> QED
    BY <1>9, AppendSeq
<1>12. \A i \in 1 .. n + 1 : ns[i] = Append(rs, x)[i]
  <2> SUFFICES ASSUME NEW i \in 1 .. n + 1 PROVE ns[i] = Append(rs, x)[i]
    OBVIOUS
  <2>1. m.head \in Nat /\ m.tail \in Nat /\ m.tail - m.head = n /\ m.tail < Len(m.rings)
        /\ Len(m.rings) \in Nat
    BY <1>1
  <2>2. ns[i] = N[m.head + i]
    BY <1>1, <1>10
  <2> HIDE DEF rs, ns, n
  <2>3. CASE i = n + 1
    <3>1. m.head + i = k
      BY <1>4, <2>1, <2>3 DEF k
    <3> QED
      BY <1>7, <1>11, <2>2, <2>3, <3>1
  <2>4. CASE i # n + 1
    <3>1. i \in 1 .. n /\ m.head + i # k /\ m.head + i \in 1 .. Len(m.rings)
      BY <1>4, <2>1, <2>4 DEF k
    <3>2. N[m.head + i] = m.rings[m.head + i]
      BY <1>7, <3>1
    <3> QED
      BY <1>1, <1>9, <1>11, <2>2, <3>1, <3>2
  <2> QED
    BY <2>3, <2>4
<1>13. ns = Append(rs, x)
  <2>1. Len(ns) = n + 1
    BY <1>1, <1>10
  <2> HIDE DEF rs, ns, n
  <2> QED
    BY <1>10, <1>11, <1>12, <2>1, SameSeq
<1> QED
  BY <1>6, <1>8, <1>13

\* rbh_queue_push() into a ring of the pool or a new one.
LEMMA PushNewRing ==
    ASSUME NEW q, QueueOK(q), NEW e \in Nat \ {0}, NEW fresh \in Nat,
           ~(Len(q.rings[q.tail + 1].elements) < q.chunk)
    PROVE  /\ QueueOK(queue_push(q, e, fresh).queue)
           /\ Pushed(q, e, fresh, queue_push(q, e, fresh))
<1> DEFINE m == MakeRoom(q)
           free == Top(q.pool)
           x(n) == [name |-> n, elements |-> <<e>>]
           r == queue_push(q, e, fresh)
           rs == queue_rings(q)
           n == (q.tail - q.head) + 1
<1>1. /\ q.rings \in Seq(QRing) /\ Len(q.rings) = q.count /\ q.head \in Nat /\ q.tail \in Nat
      /\ q.head <= q.tail /\ q.tail < Len(q.rings) /\ q.chunk = QueueChunk /\ PoolOK(q.pool)
  BY QueueParts
<1>2. /\ rs \in Seq(QRing) /\ Len(rs) = n /\ n \in Nat \ {0}
      /\ \A i \in 1 .. n : rs[i] = q.rings[q.head + i]
      /\ rs[n] = q.rings[q.tail + 1]
  BY <1>1, RingList
<1>3. rs[Len(rs)].elements # <<>>
  <2>1. Len(<<>>) = 0 /\ QueueChunk \in Nat \ {0}
    BY QueueAssumption
  <2> HIDE DEF rs, n
  <2> QED
    BY <1>1, <1>2, <2>1
<1>4. \A k \in Nat : x(k) \in QRing
  BY DEF QRing
<1>5. /\ DOMAIN m = QFields /\ m = [y \in QFields |-> m[y]]
      /\ m.rings \in Seq(QRing) /\ Len(m.rings) = m.count
      /\ m.head \in Nat /\ m.tail \in Nat \ {0} /\ m.count \in Nat
      /\ m.tail < m.count /\ m.tail - m.head = n
      /\ m.chunk = QueueChunk /\ m.pool = q.pool
      /\ \A i \in 1 .. n : m.rings[m.head + i] = q.rings[q.head + i]
  BY RoomMade
<1>6. CASE free # <<>>
  <2>1. r = [ok |-> TRUE, made |-> FALSE,
             queue |-> [m EXCEPT !.rings = [m.rings EXCEPT ![m.tail + 1] = x(free[1].name)],
                                 !.pool = sstack_pop(m.pool, 1)]]
    BY <1>6 DEF queue_push
  <2>2. PoolOK(sstack_pop(q.pool, 1)) /\ free[1] \in QRing
    BY <1>1, <1>6, PoolPop
  <2>3. x(free[1].name) \in QRing
    BY <1>4, <2>2 DEF QRing
  <2> DEFINE y == x(free[1].name)
  <2>4. /\ r.ok = TRUE /\ r.made = FALSE
        /\ r.queue = [m EXCEPT !.rings = [m.rings EXCEPT ![m.tail + 1] = y],
                               !.pool = sstack_pop(q.pool, 1)]
    BY <1>5, <2>1
  <2> HIDE DEF r, y
  <2>5. /\ QueueOK(r.queue) /\ r.queue.pool = sstack_pop(q.pool, 1)
        /\ queue_rings(r.queue) = Append(rs, y)
    <3>1. Filled(q, y, sstack_pop(q.pool, 1), r.queue)
      BY <2>4 DEF Filled
    <3> HIDE DEF rs
    <3> QED
      BY <2>2, <2>3, <3>1, RoomFilled DEF y, rs
  <2> HIDE DEF rs
  <2>6. RingAdded(rs, free[1].name, e, queue_rings(r.queue))
    BY <1>3, <2>5 DEF RingAdded, y
  <2> QED
    BY <1>6, <2>4, <2>5, <2>6 DEF Pushed, r, rs
<1>7. CASE free = <<>> /\ fresh # 0
  <2> DEFINE y == x(fresh)
  <2>1. r = [ok |-> TRUE, made |-> TRUE,
             queue |-> [m EXCEPT !.rings = [m.rings EXCEPT ![m.tail + 1] = y]]]
    BY <1>7 DEF queue_push
  <2>2. r.ok = TRUE /\ r.made = TRUE
        /\ r.queue = [m EXCEPT !.rings = [m.rings EXCEPT ![m.tail + 1] = y]]
    BY <2>1
  <2>3. y \in QRing
    BY <1>4
  <2> HIDE DEF r, y, m
  <2>4. r.queue = [m EXCEPT !.rings = [m.rings EXCEPT ![m.tail + 1] = y], !.pool = q.pool]
    <3> DEFINE N == [m.rings EXCEPT ![m.tail + 1] = y]
    <3> HIDE DEF N
    <3>1. [m EXCEPT !.rings = N, !.pool = q.pool] = [m EXCEPT !.rings = N]
      BY <1>5 DEF QFields
    <3> QED
      BY <2>2, <3>1 DEF N
  <2>5. /\ QueueOK(r.queue) /\ r.queue.pool = q.pool
        /\ queue_rings(r.queue) = Append(rs, y)
    <3>1. Filled(q, y, q.pool, r.queue)
      BY <2>4 DEF Filled, m
    <3> QED
      BY <1>1, <2>3, <3>1, RoomFilled
  <2> HIDE DEF rs
  <2>6. RingAdded(rs, fresh, e, queue_rings(r.queue))
    BY <1>3, <2>5 DEF RingAdded, y
  <2> QED
    BY <1>7, <2>2, <2>5, <2>6 DEF Pushed, r, rs
<1>8. CASE free = <<>> /\ fresh = 0
  <2> DEFINE z == r.queue
             ns == queue_rings(z)
  <2>1. r = [ok |-> FALSE, made |-> FALSE, queue |-> [m EXCEPT !.tail = m.tail - 1]]
    BY <1>8 DEF queue_push
  <2>2. r.ok = FALSE /\ r.made = FALSE /\ z = [m EXCEPT !.tail = m.tail - 1]
    BY <2>1
  <2> HIDE DEF r, z, m
  <2>3. DOMAIN z = QFields /\ z = [y \in QFields |-> z[y]]
    BY <1>5, <2>2 DEF QFields
  <2>4. /\ z.rings = m.rings /\ z.head = m.head /\ z.tail = m.tail - 1 /\ z.count = m.count
        /\ z.chunk = m.chunk /\ z.pool = m.pool
    BY <1>5, <2>2 DEF QFields
  <2>5. /\ z.tail \in Nat /\ z.head <= z.tail /\ z.tail < z.count
        /\ (z.tail - z.head) + 1 = n
    <3>1. m.head \in Nat /\ m.tail \in Nat \ {0} /\ m.count \in Nat /\ m.tail < m.count
          /\ m.tail - m.head = n /\ n \in Nat \ {0}
      BY <1>2, <1>5
    <3> HIDE DEF n
    <3> QED
      BY <2>4, <3>1
  <2>6. QueueOK(z)
    BY <1>1, <1>5, <2>3, <2>4, <2>5, QueueIntro
  <2>7. /\ ns \in Seq(QRing) /\ Len(ns) = n
        /\ \A i \in 1 .. n : ns[i] = m.rings[m.head + i]
    <3>1. /\ z.rings \in Seq(QRing) /\ z.head \in Nat /\ z.tail \in Nat
          /\ z.head <= z.tail /\ z.tail < Len(z.rings)
      BY <1>5, <2>4, <2>5
    <3>2. /\ ns \in Seq(QRing) /\ Len(ns) = (z.tail - z.head) + 1
          /\ \A i \in 1 .. (z.tail - z.head) + 1 : ns[i] = z.rings[z.head + i]
      BY <3>1, RingList
    <3> HIDE DEF ns, n
    <3> QED
      BY <2>4, <2>5, <3>2
  <2>8. ns = rs
    <3> HIDE DEF ns, n, rs
    <3>1. \A i \in 1 .. n : ns[i] = rs[i]
      BY <1>2, <1>5, <2>7
    <3> QED
      BY <1>2, <2>7, <3>1, SameSeq
  <2> QED
    BY <1>5, <1>8, <2>2, <2>4, <2>6, <2>8 DEF Pushed, r, z
<1> QED
  BY <1>6, <1>7, <1>8

\* rbh_queue_push().
LEMMA QueuePush ==
    ASSUME NEW q, QueueOK(q), NEW e \in Nat \ {0}, NEW fresh \in Nat
    PROVE  /\ QueueOK(queue_push(q, e, fresh).queue)
           /\ Pushed(q, e, fresh, queue_push(q, e, fresh))
BY PushLast, PushNewRing

\* What rbh_queue_pop() does to a queue: the first ring loses an element or,
\* when it is left empty and others follow it, goes to the pool.
Popped(q, z) ==
    LET rs == queue_rings(q)
        left == [name |-> rs[1].name, elements |-> Tail(rs[1].elements)]
    IN \/ /\ left.elements # <<>> \/ Len(rs) = 1
          /\ z.pool = q.pool
          /\ queue_rings(z) = [rs EXCEPT ![1] = left]
       \/ /\ left.elements = <<>> /\ Len(rs) > 1
          /\ z.pool = sstack_push(q.pool, left)
          /\ queue_rings(z) = Tail(rs)

\* rbh_queue_peek() and rbh_queue_pop().
LEMMA QueuePop ==
    ASSUME NEW q, QueueOK(q), queue_peek(q) # <<>>
    PROVE  /\ queue_peek(q) = queue_rings(q)[1].elements
           /\ QueueOK(queue_pop(q)) /\ Popped(q, queue_pop(q))
<1> DEFINE k == q.head + 1
           R == q.rings
           x == [name |-> R[k].name, elements |-> Tail(R[k].elements)]
           N == [R EXCEPT ![k] = x]
           z == queue_pop(q)
           rs == queue_rings(q)
           ns == queue_rings(z)
           n == (q.tail - q.head) + 1
<1>1. /\ DOMAIN q = QFields /\ q = [y \in QFields |-> q[y]]
      /\ R \in Seq(QRing) /\ Len(R) = q.count
      /\ q.head \in Nat /\ q.tail \in Nat /\ q.count \in Nat
      /\ q.head <= q.tail /\ q.tail < q.count
      /\ q.chunk = QueueChunk /\ PoolOK(q.pool)
  BY QueueParts
<1>2. k \in 1 .. Len(R) /\ R[k] \in QRing /\ queue_peek(q) = R[k].elements
  BY <1>1 DEF queue_peek
<1>3. R[k].elements \in Seq(Nat \ {0}) /\ R[k].elements # <<>> /\ R[k].name \in Nat
  BY <1>2 DEF QRing
<1>4. Tail(R[k].elements) \in Seq(Nat \ {0})
  <2> DEFINE s == R[k].elements
  <2>1. s \in Seq(Nat \ {0}) /\ s # <<>>
    BY <1>3
  <2> HIDE DEF s
  <2>2. Tail(s) \in Seq(Nat \ {0})
    BY <2>1, TailSeq
  <2> QED
    BY <2>2 DEF s
<1>5. /\ x \in QRing /\ [R[k] EXCEPT !.elements = Tail(R[k].elements)] = x
  <2> DEFINE r == R[k]
             s == Tail(r.elements)
  <2>1. r \in QRing /\ s \in Seq(Nat \ {0})
    BY <1>2, <1>4
  <2> HIDE DEF r, s
  <2>2. [r EXCEPT !.elements = s] = [name |-> r.name, elements |-> s]
        /\ [name |-> r.name, elements |-> s] \in QRing
    BY <2>1, RingExcept
  <2> QED
    BY <2>2 DEF r, s
<1>6. /\ rs \in Seq(QRing) /\ Len(rs) = n /\ n \in Nat \ {0}
      /\ \A i \in 1 .. n : rs[i] = R[q.head + i]
      /\ rs[1] = R[k]
  BY <1>1, RingList
<1>7. x = [name |-> rs[1].name, elements |-> Tail(rs[1].elements)]
  BY <1>6
<1>8. /\ N \in Seq(QRing) /\ Len(N) = Len(R) /\ N[k] = x
      /\ \A i \in 1 .. Len(R) : i # k => N[i] = R[i]
  <2> HIDE DEF x, k, R
  <2> QED
    BY <1>1, <1>2, <1>5, ExceptAt
<1>9. [q EXCEPT !.rings[q.head + 1].elements = Tail(queue_peek(q))] = [q EXCEPT !.rings = N]
  <2>1. [q EXCEPT !.rings[q.head + 1].elements = Tail(queue_peek(q))]
         = [q EXCEPT !.rings = [q.rings EXCEPT ![q.head + 1] =
              [q.rings[q.head + 1] EXCEPT !.elements = Tail(q.rings[q.head + 1].elements)]]]
    BY DEF queue_peek
  <2> HIDE DEF x
  <2> QED
    BY <1>5, <2>1
<1>10. x.elements = Tail(queue_peek(q))
  BY <1>2
<1>11. CASE x.elements # <<>> \/ ~(q.head < q.tail)
  <2>1. z = [q EXCEPT !.rings = N]
    <3> HIDE DEF x, N
    <3> QED
      BY <1>9, <1>10, <1>11 DEF queue_pop
  <2> HIDE DEF z, N
  <2>2. DOMAIN z = QFields /\ z = [y \in QFields |-> z[y]]
    BY <1>1, <2>1 DEF QFields
  <2>3. /\ z.rings = N /\ z.head = q.head /\ z.tail = q.tail /\ z.count = q.count
        /\ z.chunk = q.chunk /\ z.pool = q.pool
    BY <1>1, <2>1 DEF QFields
  <2> HIDE DEF R, x
  <2>4. QueueOK(z)
    BY <1>1, <1>8, <2>2, <2>3, QueueIntro
  <2>5. /\ ns \in Seq(QRing) /\ Len(ns) = n
        /\ \A i \in 1 .. n : ns[i] = N[q.head + i]
    <3>1. /\ z.rings \in Seq(QRing) /\ z.head \in Nat /\ z.tail \in Nat
          /\ z.head <= z.tail /\ z.tail < Len(z.rings)
      BY <1>1, <1>8, <2>3
    <3>2. /\ ns \in Seq(QRing) /\ Len(ns) = (z.tail - z.head) + 1
          /\ \A i \in 1 .. (z.tail - z.head) + 1 : ns[i] = z.rings[z.head + i]
      BY <3>1, RingList
    <3> HIDE DEF ns
    <3> QED
      BY <2>3, <3>2
  <2>6. /\ [rs EXCEPT ![1] = x] \in Seq(QRing) /\ Len([rs EXCEPT ![1] = x]) = n
        /\ [rs EXCEPT ![1] = x][1] = x
        /\ \A i \in 1 .. n : i # 1 => [rs EXCEPT ![1] = x][i] = rs[i]
    <3> HIDE DEF n, rs
    <3>1. 1 \in 1 .. Len(rs)
      BY <1>6
    <3> QED
      BY <1>5, <1>6, <3>1, ExceptAt
  <2>7. \A i \in 1 .. n : ns[i] = [rs EXCEPT ![1] = x][i]
    <3> SUFFICES ASSUME NEW i \in 1 .. n PROVE ns[i] = [rs EXCEPT ![1] = x][i]
      OBVIOUS
    <3>1. CASE i = 1
      BY <1>8, <2>5, <2>6, <3>1
    <3>2. CASE i # 1
      <4>1. q.head + i # k /\ q.head + i \in 1 .. Len(R)
        BY <1>1, <3>2 DEF k
      <4> HIDE DEF n, k
      <4> QED
        BY <1>6, <1>8, <2>5, <2>6, <3>2, <4>1
    <3> QED
      BY <3>1, <3>2
  <2>8. ns = [rs EXCEPT ![1] = x]
    <3> HIDE DEF n, rs, ns
    <3> QED
      BY <1>6, <2>5, <2>6, <2>7, SameSeq
  <2>9. x.elements # <<>> \/ Len(rs) = 1
    <3>1. ~(q.head < q.tail) => n = 1
      BY <1>1
    <3> HIDE DEF n
    <3> QED
      BY <1>6, <1>11, <3>1
  <2> QED
    BY <1>2, <1>6, <1>7, <2>3, <2>4, <2>8, <2>9 DEF Popped, z
<1>12. CASE x.elements = <<>> /\ q.head < q.tail
  <2>1. z = [[q EXCEPT !.rings = N] EXCEPT !.pool = sstack_push(q.pool, x), !.head = q.head + 1]
    <3>1. [q EXCEPT !.rings = N].rings[q.head + 1] = x /\ [q EXCEPT !.rings = N].pool = q.pool
          /\ [q EXCEPT !.rings = N].head = q.head
      <4> HIDE DEF N, x, R
      <4> QED
        BY <1>1, <1>8 DEF QFields
    <3> HIDE DEF x, N
    <3> QED
      BY <1>9, <1>10, <1>12, <3>1 DEF queue_pop
  <2>11. z = [q EXCEPT !.rings = N, !.pool = sstack_push(q.pool, x), !.head = q.head + 1]
    BY <2>1
  <2>12. PoolOK(sstack_push(q.pool, x))
    <3> HIDE DEF x
    <3> QED
      BY <1>1, <1>5, <1>12, PoolPush
  <2> HIDE DEF z, N, x
  <2>2. DOMAIN z = QFields /\ z = [y \in QFields |-> z[y]]
    BY <1>1, <2>11 DEF QFields
  <2>3. /\ z.rings = N /\ z.head = q.head + 1 /\ z.tail = q.tail /\ z.count = q.count
        /\ z.chunk = q.chunk /\ z.pool = sstack_push(q.pool, x)
    BY <1>1, <2>11 DEF QFields
  <2> HIDE DEF R
  <2>4. QueueOK(z)
    <3>1. q.head + 1 \in Nat /\ q.head + 1 <= q.tail
      BY <1>1, <1>12
    <3> QED
      BY <1>1, <1>8, <2>2, <2>3, <2>12, <3>1, QueueIntro
  <2>5. /\ ns \in Seq(QRing) /\ Len(ns) = n - 1
        /\ \A i \in 1 .. n - 1 : ns[i] = N[(q.head + 1) + i]
    <3>1. /\ z.rings \in Seq(QRing) /\ z.head \in Nat /\ z.tail \in Nat
          /\ z.head <= z.tail /\ z.tail < Len(z.rings)
      BY <1>1, <1>8, <1>12, <2>3
    <3>2. /\ ns \in Seq(QRing) /\ Len(ns) = (z.tail - z.head) + 1
          /\ \A i \in 1 .. (z.tail - z.head) + 1 : ns[i] = z.rings[z.head + i]
      BY <3>1, RingList
    <3>3. (z.tail - z.head) + 1 = n - 1
      BY <1>1, <2>3
    <3> HIDE DEF ns, n
    <3> QED
      BY <2>3, <3>2, <3>3
  <2>6. /\ Tail(rs) \in Seq(QRing) /\ Len(Tail(rs)) = n - 1
        /\ \A i \in 1 .. n - 1 : Tail(rs)[i] = rs[i + 1]
    <3> HIDE DEF n, rs
    <3>1. rs # <<>>
      BY <1>6
    <3> QED
      BY <1>6, <3>1, TailSeq
  <2>7. \A i \in 1 .. n - 1 : ns[i] = Tail(rs)[i]
    <3> SUFFICES ASSUME NEW i \in 1 .. n - 1 PROVE ns[i] = Tail(rs)[i]
      OBVIOUS
    <3>1. /\ (q.head + 1) + i # k /\ (q.head + 1) + i \in 1 .. Len(R)
          /\ (q.head + 1) + i = q.head + (i + 1) /\ i + 1 \in 1 .. n
      BY <1>1, SMTT(30) DEF k
    <3> HIDE DEF n, k, rs, ns
    <3>2. ns[i] = R[q.head + (i + 1)]
      BY <1>8, <2>5, <3>1
    <3> QED
      BY <1>6, <2>6, <3>1, <3>2
  <2>8. ns = Tail(rs)
    <3> HIDE DEF n, rs, ns
    <3> QED
      BY <1>6, <2>5, <2>6, <2>7, SameSeq
  <2>9. Len(rs) > 1
    BY <1>1, <1>6, <1>12
  <2> QED
    BY <1>2, <1>6, <1>7, <1>12, <2>3, <2>4, <2>8, <2>9 DEF Popped, z
<1> QED
  BY <1>11, <1>12

-----------------------------------------------------------------------------
(* The rings of a queue still lead from one element to another.            *)

\* An element more at the end of a list that is in order.
LEMMA OrderAppend ==
    ASSUME NEW f, NEW s \in Seq(Nat \ {0}), NEW e \in Nat \ {0}, InOrder(f, s),
           s # <<>> => Follows(f, LastOf(s), e)
    PROVE  /\ Append(s, e) \in Seq(Nat \ {0}) /\ Append(s, e) # <<>>
           /\ InOrder(f, Append(s, e)) /\ LastOf(Append(s, e)) = e
           /\ Append(s, e)[1] = IF s = <<>> THEN e ELSE s[1]
<1> DEFINE t == Append(s, e)
<1>1. /\ t \in Seq(Nat \ {0}) /\ t # <<>>
      /\ Len(s) \in Nat /\ Len(t) = Len(s) + 1 /\ t[Len(s) + 1] = e
      /\ \A n \in 1 .. Len(s) : t[n] = s[n]
  BY AppendSeq
<1>2. s = <<>> <=> Len(s) = 0
  OBVIOUS
<1> HIDE DEF t
<1>3. LastOf(t) = e
  BY <1>1 DEF LastOf
<1>4. InOrder(f, t)
  <2> SUFFICES ASSUME NEW i \in 2 .. Len(t) PROVE Follows(f, t[i - 1], t[i])
    BY DEF InOrder
  <2>1. CASE i = Len(s) + 1
    <3>1. i - 1 \in 1 .. Len(s) /\ i - 1 = Len(s)
      BY <1>1, <2>1
    <3>2. t[i - 1] = LastOf(s) /\ s # <<>>
      BY <1>1, <1>2, <3>1, SMTT(30) DEF LastOf
    <3> QED
      BY <1>1, <2>1, <3>2
  <2>2. CASE i # Len(s) + 1
    <3>1. i \in 2 .. Len(s) /\ i \in 1 .. Len(s) /\ i - 1 \in 1 .. Len(s)
      BY <1>1, <2>2
    <3> QED
      BY <1>1, <3>1 DEF InOrder
  <2> QED
    BY <2>1, <2>2
<1>5. t[1] = IF s = <<>> THEN e ELSE s[1]
  BY <1>1, <1>2
<1> QED
  BY <1>1, <1>3, <1>4, <1>5 DEF t

\* The first element less.
LEMMA OrderTail ==
    ASSUME NEW f, NEW s \in Seq(Nat \ {0}), s # <<>>, InOrder(f, s)
    PROVE  /\ Tail(s) \in Seq(Nat \ {0}) /\ InOrder(f, Tail(s)) /\ s[1] \in Nat \ {0}
           /\ Tail(s) # <<>> => Follows(f, s[1], Tail(s)[1]) /\ LastOf(Tail(s)) = LastOf(s)
           /\ Tail(s) = <<>> => LastOf(s) = s[1]
<1> DEFINE t == Tail(s)
<1>1. /\ t \in Seq(Nat \ {0}) /\ Len(s) \in Nat \ {0} /\ s[1] \in Nat \ {0}
      /\ Len(t) = Len(s) - 1
      /\ \A n \in 1 .. Len(s) - 1 : t[n] = s[n + 1]
  BY TailSeq
<1> HIDE DEF t
<1>2. t = <<>> <=> Len(t) = 0
  BY <1>1, SeqFacts
<1>3. InOrder(f, t)
  <2> SUFFICES ASSUME NEW i \in 2 .. Len(t) PROVE Follows(f, t[i - 1], t[i])
    BY DEF InOrder
  <2> DEFINE j == i + 1
  <2>1. /\ i \in 1 .. Len(s) - 1 /\ i - 1 \in 1 .. Len(s) - 1 /\ (i - 1) + 1 = j - 1
        /\ j \in 2 .. Len(s)
    BY <1>1
  <2>2. t[i - 1] = s[j - 1] /\ t[i] = s[j]
    BY <1>1, <2>1
  <2> HIDE DEF j
  <2> QED
    BY <2>1, <2>2 DEF InOrder
<1>4. ASSUME t # <<>>
      PROVE  Follows(f, s[1], t[1]) /\ LastOf(t) = LastOf(s)
  <2>1. Len(t) \in Nat \ {0} /\ Len(t) \in 1 .. Len(s) - 1 /\ Len(t) + 1 = Len(s)
    BY <1>1, <1>2, <1>4
  <2>2. t[1] = s[2] /\ t[Len(t)] = s[Len(s)]
    BY <1>1, <2>1
  <2>3. Follows(f, s[1], s[2])
    <3>1. 2 \in 2 .. Len(s) /\ 2 - 1 = 1
      BY <1>1, <2>1
    <3>2. Follows(f, s[2 - 1], s[2])
      BY <3>1 DEF InOrder
    <3> QED
      BY <3>1, <3>2
  <2> QED
    BY <1>4, <2>2, <2>3 DEF LastOf
<1>5. t = <<>> => LastOf(s) = s[1]
  <2>1. t = <<>> => Len(s) = 1
    BY <1>1, <1>2
  <2> QED
    BY <2>1 DEF LastOf
<1> QED
  BY <1>1, <1>3, <1>4, <1>5 DEF t

\* More failures allow more.
LEMMA LinkMore ==
    ASSUME NEW f \in Nat, NEW g \in Nat, f <= g, NEW a, NEW rs, NEW z, NEW s
    PROVE  /\ InOrder(f, s) => InOrder(g, s)
           /\ Linked(f, a, rs, z) => Linked(g, a, rs, z)
<1>1. \A x, y : Follows(f, x, y) => Follows(g, x, y)
  BY DEF Follows
<1>2. \A t : InOrder(f, t) => InOrder(g, t)
  BY <1>1 DEF InOrder
<1> QED
  BY <1>1, <1>2 DEF Linked

\* The last ring has one more element.
LEMMA LinkGrow ==
    ASSUME NEW f, NEW a \in Nat, NEW z, NEW rs \in Seq(QRing), rs # <<>>,
           NEW e \in Nat \ {0}, NEW ns, LastGrown(rs, e, ns),
           Linked(f, a, rs, z), Follows(f, z, e)
    PROVE  Linked(f, a, ns, e)
<1> DEFINE n == Len(rs)
           s == rs[n].elements
           x == [name |-> rs[n].name, elements |-> Append(s, e)]
<1>1. n \in Nat \ {0} /\ n \in 1 .. Len(rs) /\ rs[n] \in QRing
  BY SeqFacts
<1>2. s \in Seq(Nat \ {0}) /\ rs[n].name \in Nat
  BY <1>1, RingExcept DEF QRing
<1>3. InOrder(f, s) /\ (s # <<>> => Follows(f, LastOf(s), e))
  <2>1. InOrder(f, s)
    BY <1>1 DEF Linked
  <2>2. s # <<>> => z = LastOf(s)
    BY DEF Linked
  <2> QED
    BY <2>1, <2>2
<1> HIDE DEF s
<1>4. /\ Append(s, e) \in Seq(Nat \ {0}) /\ Append(s, e) # <<>>
      /\ InOrder(f, Append(s, e)) /\ LastOf(Append(s, e)) = e
      /\ Append(s, e)[1] = IF s = <<>> THEN e ELSE s[1]
  BY <1>2, <1>3, OrderAppend
<1>5. ns = [rs EXCEPT ![n] = x]
  BY DEF LastGrown, s
<1>6. x \in QRing /\ x.elements = Append(s, e)
  BY <1>1, <1>2, <1>4 DEF QRing
<1> HIDE DEF x, n
<1>7. /\ ns \in Seq(QRing) /\ Len(ns) = n /\ ns[n] = x
      /\ \A i \in 1 .. n : i # n => ns[i] = rs[i]
  BY <1>1, <1>5, <1>6, ExceptAt DEF n
<1>8. \A i \in 1 .. n : InOrder(f, ns[i].elements)
  BY <1>4, <1>6, <1>7 DEF Linked, n
<1>9. ASSUME NEW i \in 2 .. n
      PROVE  /\ ns[i - 1].elements # <<>> /\ ns[i].elements # <<>>
             /\ Follows(f, LastOf(ns[i - 1].elements), ns[i].elements[1])
  <2>1. i \in 1 .. n /\ i - 1 \in 1 .. n /\ i - 1 # n
    BY <1>1
  <2>2. /\ rs[i - 1].elements # <<>> /\ rs[i].elements # <<>>
        /\ Follows(f, LastOf(rs[i - 1].elements), rs[i].elements[1])
    BY DEF Linked, n
  <2>3. ns[i - 1] = rs[i - 1]
    BY <1>7, <2>1
  <2>4. ns[i].elements # <<>> /\ ns[i].elements[1] = rs[i].elements[1]
    <3>1. CASE i = n
      BY <1>4, <1>6, <1>7, <2>2, <3>1 DEF s
    <3>2. CASE i # n
      BY <1>7, <2>1, <2>2, <3>2
    <3> QED
      BY <3>1, <3>2
  <2> QED
    BY <2>2, <2>3, <2>4
<1>10. ns[1].elements # <<>> => Follows(f, a, ns[1].elements[1])
  <2>1. CASE n # 1
    BY <1>1, <1>7, <2>1 DEF Linked
  <2>2. CASE n = 1 /\ s = <<>>
    <3>1. z = a
      BY <2>2 DEF Linked, n, s
    <3> QED
      BY <1>4, <1>6, <1>7, <2>2, <3>1
  <2>3. CASE n = 1 /\ s # <<>>
    <3>1. Follows(f, a, s[1])
      BY <2>3 DEF Linked, s
    <3> QED
      BY <1>4, <1>6, <1>7, <2>3, <3>1
  <2> QED
    BY <2>1, <2>2, <2>3
<1>11. e = IF ns[Len(ns)].elements = <<>> THEN a ELSE LastOf(ns[Len(ns)].elements)
  BY <1>4, <1>6, <1>7
<1> QED
  BY <1>7, <1>8, <1>9, <1>10, <1>11 DEF Linked

\* A ring with one element comes after the last one.
LEMMA LinkAdd ==
    ASSUME NEW f, NEW a \in Nat, NEW z, NEW rs \in Seq(QRing), rs # <<>>,
           NEW e \in Nat \ {0}, NEW m \in Nat, NEW ns, RingAdded(rs, m, e, ns),
           Linked(f, a, rs, z), Follows(f, z, e)
    PROVE  Linked(f, a, ns, e)
<1> DEFINE n == Len(rs)
           x == [name |-> m, elements |-> <<e>>]
<1>1. n \in Nat \ {0} /\ rs[n].elements # <<>>
  BY DEF RingAdded
<1>2. x \in QRing /\ x.elements = <<e>>
  BY DEF QRing
<1>3. <<e>> # <<>> /\ <<e>>[1] = e /\ LastOf(<<e>>) = e /\ InOrder(f, <<e>>)
  BY DEF LastOf, InOrder
<1>4. ns = Append(rs, x)
  BY DEF RingAdded
<1> HIDE DEF x
<1>5. /\ ns \in Seq(QRing) /\ Len(ns) = n + 1 /\ ns[n + 1] = x
      /\ \A i \in 1 .. n : ns[i] = rs[i]
  BY <1>2, <1>4, AppendSeq
<1>6. z = LastOf(rs[n].elements)
  BY <1>1 DEF Linked
<1> HIDE DEF n
<1>7. \A i \in 1 .. n + 1 : InOrder(f, ns[i].elements)
  <2> SUFFICES ASSUME NEW i \in 1 .. n + 1 PROVE InOrder(f, ns[i].elements)
    OBVIOUS
  <2>1. CASE i = n + 1
    BY <1>2, <1>3, <1>5, <2>1
  <2>2. CASE i # n + 1
    <3>1. i \in 1 .. n
      BY <1>1, <2>2
    <3> QED
      BY <1>5, <3>1 DEF Linked, n
  <2> QED
    BY <2>1, <2>2
<1>8. ASSUME NEW i \in 2 .. n + 1
      PROVE  /\ ns[i - 1].elements # <<>> /\ ns[i].elements # <<>>
             /\ Follows(f, LastOf(ns[i - 1].elements), ns[i].elements[1])
  <2>1. CASE i = n + 1
    <3>1. i - 1 = n /\ n \in 1 .. n
      BY <1>1, <2>1
    <3> QED
      BY <1>1, <1>2, <1>3, <1>5, <1>6, <2>1, <3>1
  <2>2. CASE i # n + 1
    <3>1. i \in 2 .. n /\ i \in 1 .. n /\ i - 1 \in 1 .. n
      BY <1>1, <2>2
    <3>2. /\ rs[i - 1].elements # <<>> /\ rs[i].elements # <<>>
          /\ Follows(f, LastOf(rs[i - 1].elements), rs[i].elements[1])
      BY <3>1 DEF Linked, n
    <3> QED
      BY <1>5, <3>1, <3>2
  <2> QED
    BY <2>1, <2>2
<1>9. ns[1].elements # <<>> => Follows(f, a, ns[1].elements[1])
  BY <1>1, <1>5 DEF Linked
<1>10. e = IF ns[Len(ns)].elements = <<>> THEN a ELSE LastOf(ns[Len(ns)].elements)
  BY <1>2, <1>3, <1>5
<1> QED
  BY <1>5, <1>7, <1>8, <1>9, <1>10 DEF Linked

\* rbh_queue_push(): the queue leads to the element pushed.
LEMMA LinkPush ==
    ASSUME NEW f, NEW a \in Nat, NEW z, NEW q, QueueOK(q),
           NEW e \in Nat \ {0}, NEW fresh \in Nat, NEW r, Pushed(q, e, fresh, r),
           Linked(f, a, queue_rings(q), z), Follows(f, z, e)
    PROVE  /\ r.ok = TRUE => Linked(f, a, queue_rings(r.queue), e)
           /\ r.ok = FALSE => Linked(f, a, queue_rings(r.queue), z) /\ fresh = 0
<1> DEFINE rs == queue_rings(q)
           ns == queue_rings(r.queue)
<1>1. rs \in Seq(QRing) /\ rs # <<>>
  <2>1. Len(rs) \in Nat \ {0} /\ rs \in Seq(QRing)
    BY QueueParts, RingList
  <2> HIDE DEF rs
  <2> QED
    BY <2>1
<1>2. Linked(f, a, rs, z)
  OBVIOUS
<1>3. Top(q.pool) # <<>> => Top(q.pool)[1].name \in Nat
  <2>1. PoolOK(q.pool)
    BY QueueParts
  <2> QED
    BY <2>1, PoolPop DEF QRing
<1>4. \/ r.ok = TRUE /\ LastGrown(rs, e, ns)
      \/ r.ok = TRUE /\ \E m \in Nat : RingAdded(rs, m, e, ns)
      \/ r.ok = FALSE /\ fresh = 0 /\ ns = rs
  BY <1>3 DEF Pushed
<1> HIDE DEF rs, ns
<1>5. CASE r.ok = TRUE /\ LastGrown(rs, e, ns)
  BY <1>1, <1>2, <1>5, LinkGrow DEF ns
<1>6. CASE r.ok = TRUE /\ \E m \in Nat : RingAdded(rs, m, e, ns)
  BY <1>1, <1>2, <1>6, LinkAdd DEF ns
<1>7. CASE r.ok = FALSE /\ fresh = 0 /\ ns = rs
  BY <1>2, <1>7 DEF ns
<1> QED
  BY <1>4, <1>5, <1>6, <1>7

\* The first ring loses its first element, and keeps others or is alone.
LEMMA LinkShrink ==
    ASSUME NEW f, NEW a \in Nat, NEW z, NEW rs \in Seq(QRing), rs # <<>>,
           rs[1].elements # <<>>, Linked(f, a, rs, z),
           NEW x \in QRing, x.elements = Tail(rs[1].elements),
           x.elements # <<>> \/ Len(rs) = 1
    PROVE  Linked(f, rs[1].elements[1], [rs EXCEPT ![1] = x], z)
<1> DEFINE n == Len(rs)
           s == rs[1].elements
           ns == [rs EXCEPT ![1] = x]
<1>1. n \in Nat \ {0} /\ 1 \in 1 .. n /\ rs[1] \in QRing
  BY SeqFacts
<1>2. s \in Seq(Nat \ {0})
  BY <1>1, RingParts
<1>3. InOrder(f, s) /\ s # <<>>
  BY <1>1 DEF Linked
<1>31. x.elements = Tail(s)
  OBVIOUS
<1> HIDE DEF s
<1>4. /\ Tail(s) \in Seq(Nat \ {0}) /\ InOrder(f, Tail(s)) /\ s[1] \in Nat \ {0}
      /\ Tail(s) # <<>> => Follows(f, s[1], Tail(s)[1]) /\ LastOf(Tail(s)) = LastOf(s)
      /\ Tail(s) = <<>> => LastOf(s) = s[1]
  BY <1>2, <1>3, OrderTail
<1>5. /\ ns \in Seq(QRing) /\ Len(ns) = n /\ ns[1] = x
      /\ \A i \in 1 .. n : i # 1 => ns[i] = rs[i]
  BY <1>1, ExceptAt
<1> HIDE DEF ns, n
<1>6. \A i \in 1 .. n : InOrder(f, ns[i].elements)
  BY <1>31, <1>4, <1>5 DEF Linked, n
<1>7. ASSUME NEW i \in 2 .. n
      PROVE  /\ ns[i - 1].elements # <<>> /\ ns[i].elements # <<>>
             /\ Follows(f, LastOf(ns[i - 1].elements), ns[i].elements[1])
  <2>1. i \in 1 .. n /\ i - 1 \in 1 .. n /\ i # 1 /\ n # 1
    BY <1>1
  <2>2. /\ rs[i - 1].elements # <<>> /\ rs[i].elements # <<>>
        /\ Follows(f, LastOf(rs[i - 1].elements), rs[i].elements[1])
    BY DEF Linked, n
  <2>3. ns[i] = rs[i]
    BY <1>5, <2>1
  <2>4. ns[i - 1].elements # <<>> /\ LastOf(ns[i - 1].elements) = LastOf(rs[i - 1].elements)
    <3>1. CASE i - 1 = 1
      <4>1. Tail(s) # <<>>
        BY <1>31, <2>1 DEF n
      <4>2. ns[i - 1] = x /\ rs[i - 1].elements = s
        BY <1>5, <3>1 DEF s
      <4> QED
        BY <1>31, <1>4, <4>1, <4>2
    <3>2. CASE i - 1 # 1
      BY <1>5, <2>1, <2>2, <3>2
    <3> QED
      BY <3>1, <3>2
  <2> QED
    BY <2>2, <2>3, <2>4
<1>8. ns[1].elements # <<>> => Follows(f, s[1], ns[1].elements[1])
  BY <1>31, <1>4, <1>5
<1>9. z = IF ns[Len(ns)].elements = <<>> THEN s[1] ELSE LastOf(ns[Len(ns)].elements)
  <2>1. CASE n = 1
    <3>1. z = LastOf(s)
      BY <1>3, <2>1 DEF Linked, n, s
    <3> QED
      BY <1>31, <1>4, <1>5, <2>1, <3>1
  <2>2. CASE n # 1
    <3>1. n \in 1 .. n /\ n \in 2 .. n
      BY <1>1, <2>2
    <3>2. ns[n] = rs[n]
      BY <1>5, <2>2, <3>1
    <3>3. rs[n].elements # <<>>
      BY <3>1 DEF Linked, n
    <3>4. z = LastOf(rs[n].elements)
      BY <3>3 DEF Linked, n
    <3> QED
      BY <1>5, <3>2, <3>3, <3>4
  <2> QED
    BY <2>1, <2>2
<1>10. Linked(f, s[1], ns, z)
  BY <1>5, <1>6, <1>7, <1>8, <1>9 DEF Linked
<1> QED
  BY <1>10 DEF s, ns

\* The first ring has lost its only element and is gone.
LEMMA LinkDrop ==
    ASSUME NEW f, NEW a \in Nat, NEW z, NEW rs \in Seq(QRing), Len(rs) > 1,
           rs[1].elements # <<>>, Linked(f, a, rs, z), Tail(rs[1].elements) = <<>>
    PROVE  Linked(f, rs[1].elements[1], Tail(rs), z)
<1> DEFINE n == Len(rs)
           s == rs[1].elements
           ns == Tail(rs)
<1>1. n \in Nat \ {0, 1} /\ 1 \in 1 .. n /\ rs[1] \in QRing /\ rs # <<>>
  BY SeqFacts
<1>2. s \in Seq(Nat \ {0})
  BY <1>1, RingParts
<1>3. InOrder(f, s) /\ s # <<>> /\ Tail(s) = <<>>
  BY <1>1 DEF Linked
<1> HIDE DEF s
<1>4. LastOf(s) = s[1]
  BY <1>2, <1>3, OrderTail
<1>5. /\ ns \in Seq(QRing) /\ Len(ns) = n - 1
      /\ \A i \in 1 .. n - 1 : ns[i] = rs[i + 1]
  BY <1>1, TailSeq
<1> HIDE DEF ns, n
<1>6. \A i \in 1 .. n - 1 : InOrder(f, ns[i].elements)
  <2> SUFFICES ASSUME NEW i \in 1 .. n - 1 PROVE InOrder(f, ns[i].elements)
    OBVIOUS
  <2>1. i + 1 \in 1 .. n
    BY <1>1
  <2>2. InOrder(f, rs[i + 1].elements)
    BY <2>1 DEF Linked, n
  <2> QED
    BY <1>5, <2>2
<1>7. ASSUME NEW i \in 2 .. n - 1
      PROVE  /\ ns[i - 1].elements # <<>> /\ ns[i].elements # <<>>
             /\ Follows(f, LastOf(ns[i - 1].elements), ns[i].elements[1])
  <2> DEFINE j == i + 1
  <2>1. /\ i \in 1 .. n - 1 /\ i - 1 \in 1 .. n - 1 /\ j \in 2 .. n /\ (i - 1) + 1 = j - 1
    BY <1>1
  <2>2. ns[i] = rs[j] /\ ns[i - 1] = rs[j - 1]
    BY <1>5, <2>1
  <2> HIDE DEF j
  <2>3. /\ rs[j - 1].elements # <<>> /\ rs[j].elements # <<>>
        /\ Follows(f, LastOf(rs[j - 1].elements), rs[j].elements[1])
    BY <2>1 DEF Linked, n
  <2> QED
    BY <2>2, <2>3
<1>8. Follows(f, s[1], ns[1].elements[1]) /\ ns[1] = rs[2]
  <2>1. 2 \in 2 .. n /\ 2 - 1 = 1 /\ 1 \in 1 .. n - 1 /\ 1 + 1 = 2
    BY <1>1
  <2>2. Follows(f, LastOf(rs[2 - 1].elements), rs[2].elements[1])
    BY <2>1 DEF Linked, n
  <2>3. ns[1] = rs[2]
    BY <1>5, <2>1
  <2>4. LastOf(rs[2 - 1].elements) = s[1]
    BY <1>4, <2>1 DEF s
  <2> QED
    BY <2>2, <2>3, <2>4
<1>9. z = IF ns[Len(ns)].elements = <<>> THEN s[1] ELSE LastOf(ns[Len(ns)].elements)
  <2>1. n \in 2 .. n /\ n - 1 \in 1 .. n - 1 /\ (n - 1) + 1 = n
    BY <1>1
  <2>2. ns[Len(ns)] = rs[n]
    BY <1>5, <2>1
  <2>3. rs[n].elements # <<>>
    BY <2>1 DEF Linked, n
  <2>4. z = LastOf(rs[n].elements)
    BY <2>3 DEF Linked, n
  <2> QED
    BY <2>2, <2>3, <2>4
<1>10. Linked(f, s[1], ns, z)
  BY <1>5, <1>6, <1>7, <1>8, <1>9 DEF Linked
<1> QED
  BY <1>10 DEF s, ns

\* rbh_queue_pop(): the element that leaves the queue comes after a, and the
\* queue leads from it.
LEMMA LinkPop ==
    ASSUME NEW f, NEW a \in Nat, NEW z, NEW q, QueueOK(q), queue_peek(q) # <<>>,
           Linked(f, a, queue_rings(q), z), NEW r, Popped(q, r)
    PROVE  /\ queue_peek(q)[1] \in Nat \ {0} /\ Follows(f, a, queue_peek(q)[1])
           /\ Linked(f, queue_peek(q)[1], queue_rings(r), z)
<1> DEFINE rs == queue_rings(q)
           s == rs[1].elements
           x == [name |-> rs[1].name, elements |-> Tail(s)]
           ns == queue_rings(r)
<1>1. rs \in Seq(QRing) /\ Len(rs) \in Nat \ {0} /\ queue_peek(q) = s
  BY QueueParts, RingList, QueuePop
<1>2. Linked(f, a, rs, z) /\ s # <<>>
  BY <1>1
<1>3. \/ (Tail(s) # <<>> \/ Len(rs) = 1) /\ ns = [rs EXCEPT ![1] = x]
      \/ Tail(s) = <<>> /\ Len(rs) > 1 /\ ns = Tail(rs)
  BY DEF Popped
<1> HIDE DEF rs, ns
<1>4. rs[1] \in QRing /\ rs # <<>>
  BY <1>1
<1>5. s \in Seq(Nat \ {0}) /\ rs[1].name \in Nat
  BY <1>4, RingParts
<1>6. s[1] \in Nat \ {0} /\ Tail(s) \in Seq(Nat \ {0})
  <2> HIDE DEF s
  <2> QED
    BY <1>2, <1>5, TailSeq
<1>7. Follows(f, a, s[1])
  BY <1>2 DEF Linked
<1>8. x \in QRing /\ x.elements = Tail(s)
  <2> HIDE DEF s
  <2> QED
    BY <1>5, <1>6 DEF QRing
<1>9. Linked(f, s[1], ns, z)
  <2>1. CASE (Tail(s) # <<>> \/ Len(rs) = 1) /\ ns = [rs EXCEPT ![1] = x]
    <3> HIDE DEF x
    <3> QED
      BY <1>1, <1>2, <1>4, <1>8, <2>1, LinkShrink
  <2>2. CASE Tail(s) = <<>> /\ Len(rs) > 1 /\ ns = Tail(rs)
    BY <1>1, <1>2, <2>2, LinkDrop
  <2> QED
    BY <1>3, <2>1, <2>2
<1> QED
  BY <1>1, <1>6, <1>7, <1>9 DEF ns

-----------------------------------------------------------------------------
(* The rings of a queue and of its pool are still different rings.         *)

\* A list with the same names.
LEMMA SameNames ==
    ASSUME NEW rs, NEW ns, Len(ns) = Len(rs), Len(rs) \in Nat,
           \A i \in 1 .. Len(rs) : ns[i].name = rs[i].name
    PROVE  /\ NamesOf(ns) = NamesOf(rs)
           /\ DistinctRings(rs) => DistinctRings(ns)
BY DEF NamesOf, DistinctRings

\* A ring more at the end.
LEMMA NamesAdded ==
    ASSUME NEW rs \in Seq(QRing), NEW x \in QRing
    PROVE  /\ NamesOf(Append(rs, x)) = NamesOf(rs) \cup {x.name}
           /\ DistinctRings(rs) /\ x.name \notin NamesOf(rs) => DistinctRings(Append(rs, x))
<1> DEFINE ns == Append(rs, x)
           n == Len(rs)
<1>1. /\ n \in Nat /\ Len(ns) = n + 1 /\ ns[n + 1] = x
      /\ \A i \in 1 .. n : ns[i] = rs[i]
  BY AppendSeq
<1> HIDE DEF ns
<1>2. \A i \in 1 .. n + 1 : i \in 1 .. n \/ i = n + 1
  BY <1>1
<1>3. \A i \in 1 .. n : i \in 1 .. n + 1
  BY <1>1
<1>31. n + 1 \in 1 .. n + 1
  BY <1>1
<1>4. NamesOf(ns) \subseteq NamesOf(rs) \cup {x.name}
  BY <1>1, <1>2 DEF NamesOf
<1>5. NamesOf(rs) \subseteq NamesOf(ns) /\ x.name \in NamesOf(ns)
  BY <1>1, <1>3, <1>31 DEF NamesOf
<1>6. ASSUME DistinctRings(rs), x.name \notin NamesOf(rs)
      PROVE  DistinctRings(ns)
  <2>1. \A i \in 1 .. n : rs[i].name # x.name
    BY <1>6 DEF NamesOf
  <2>2. \A i, j \in 1 .. n : rs[i].name = rs[j].name => i = j
    BY <1>6 DEF DistinctRings
  <2> SUFFICES ASSUME NEW i \in 1 .. n + 1, NEW j \in 1 .. n + 1, ns[i].name = ns[j].name
               PROVE  i = j
    BY <1>1 DEF DistinctRings
  <2> HIDE DEF n
  <2> QED
    BY <1>1, <1>2, <2>1, <2>2
<1> QED
  BY <1>4, <1>5, <1>6 DEF ns

\* The first ring less.
LEMMA NamesDropped ==
    ASSUME NEW rs \in Seq(QRing), rs # <<>>, DistinctRings(rs)
    PROVE  /\ NamesOf(Tail(rs)) = NamesOf(rs) \ {rs[1].name}
           /\ rs[1].name \in NamesOf(rs)
           /\ DistinctRings(Tail(rs))
<1> DEFINE ns == Tail(rs)
           n == Len(rs)
<1>1. /\ n \in Nat \ {0} /\ Len(ns) = n - 1
      /\ \A i \in 1 .. n - 1 : ns[i] = rs[i + 1]
  BY TailSeq
<1>2. \A i, j \in 1 .. n : rs[i].name = rs[j].name => i = j
  BY DEF DistinctRings
<1> HIDE DEF ns, n
<1>3. NamesOf(rs) = {rs[i].name : i \in 1 .. n} /\ NamesOf(ns) = {ns[i].name : i \in 1 .. n - 1}
  BY <1>1 DEF NamesOf, n
<1>4. ASSUME NEW i \in 1 .. n - 1
      PROVE  /\ i + 1 \in 1 .. n /\ i + 1 # 1 /\ 1 \in 1 .. n
             /\ ns[i].name = rs[i + 1].name /\ ns[i].name # rs[1].name
  <2>1. i + 1 \in 1 .. n /\ i + 1 # 1 /\ 1 \in 1 .. n
    BY <1>1
  <2> QED
    BY <1>1, <1>2, <2>1
<1>5. NamesOf(ns) \subseteq NamesOf(rs) \ {rs[1].name}
  BY <1>3, <1>4
<1>6. NamesOf(rs) \ {rs[1].name} \subseteq NamesOf(ns)
  <2> SUFFICES ASSUME NEW m \in NamesOf(rs), m # rs[1].name PROVE m \in NamesOf(ns)
    OBVIOUS
  <2>1. PICK i \in 1 .. n : m = rs[i].name
    BY <1>3
  <2>2. i - 1 \in 1 .. n - 1 /\ (i - 1) + 1 = i
    BY <1>1, <2>1
  <2>3. ns[i - 1].name = m
    BY <1>4, <2>1, <2>2
  <2> QED
    BY <1>3, <2>2, <2>3
<1>7. rs[1].name \in NamesOf(rs)
  BY <1>1, <1>3
<1>8. DistinctRings(ns)
  <2> SUFFICES ASSUME NEW i \in 1 .. n - 1, NEW j \in 1 .. n - 1, ns[i].name = ns[j].name
               PROVE  i = j
    BY <1>1 DEF DistinctRings
  <2>1. i + 1 = j + 1
    BY <1>2, <1>4
  <2> QED
    BY <1>1, <2>1
<1> QED
  BY <1>5, <1>6, <1>7, <1>8 DEF ns

\* rbh_queue_push() may add the fresh ring to those of the queue.
LEMMA HeldPush ==
    ASSUME NEW q, QueueOK(q), HeldOnce(q), NEW e \in Nat \ {0}, NEW fresh \in Nat,
           fresh \notin Held(q), NEW r, Pushed(q, e, fresh, r)
    PROVE  /\ HeldOnce(r.queue) /\ r.made \in BOOLEAN /\ r.ok \in BOOLEAN
           /\ Held(r.queue) = IF r.made THEN Held(q) \cup {fresh} ELSE Held(q)
           /\ r.made => fresh # 0 /\ r.ok
<1> DEFINE rs == queue_rings(q)
           ns == queue_rings(r.queue)
           p == q.pool
           x(n) == [name |-> n, elements |-> <<e>>]
<1>1. rs \in Seq(QRing) /\ Len(rs) \in Nat \ {0} /\ PoolOK(p)
  BY QueueParts, RingList
<1>2. DistinctRings(rs) /\ DistinctPool(p) /\ NamesOf(rs) \cap PoolNames(p) = {}
      /\ Held(q) = NamesOf(rs) \cup PoolNames(p)
  BY DEF HeldOnce, Held
<1>3. Held(r.queue) = NamesOf(ns) \cup PoolNames(r.queue.pool)
  BY DEF Held
<1>4. HeldOnce(r.queue) <=> /\ DistinctRings(ns) /\ DistinctPool(r.queue.pool)
                            /\ NamesOf(ns) \cap PoolNames(r.queue.pool) = {}
  BY DEF HeldOnce
<1>5. \A n \in Nat : x(n) \in QRing /\ x(n).name = n
  BY DEF QRing
<1>6. \/ /\ r.ok = TRUE /\ r.made = FALSE /\ r.queue.pool = p
         /\ LastGrown(rs, e, ns)
      \/ /\ r.ok = TRUE /\ r.made = FALSE
         /\ Top(p) # <<>> /\ r.queue.pool = sstack_pop(p, 1)
         /\ RingAdded(rs, Top(p)[1].name, e, ns)
      \/ /\ r.ok = TRUE /\ r.made = TRUE /\ fresh # 0 /\ r.queue.pool = p
         /\ RingAdded(rs, fresh, e, ns)
      \/ /\ r.ok = FALSE /\ r.made = FALSE /\ fresh = 0 /\ r.queue.pool = p
         /\ ns = rs
  BY DEF Pushed
<1> HIDE DEF rs, ns, p
<1>7. CASE r.ok = TRUE /\ r.made = FALSE /\ r.queue.pool = p /\ LastGrown(rs, e, ns)
  <2>1. Len(ns) = Len(rs) /\ \A i \in 1 .. Len(rs) : ns[i].name = rs[i].name
    <3> DEFINE n == Len(rs)
               y == [name |-> rs[n].name, elements |-> Append(rs[n].elements, e)]
    <3>1. n \in 1 .. Len(rs) /\ rs[n] \in QRing
      BY <1>1
    <3>2. Append(rs[n].elements, e) \in Seq(Nat \ {0}) /\ rs[n].name \in Nat
      <4> DEFINE s == rs[n].elements
      <4>1. s \in Seq(Nat \ {0}) /\ rs[n].name \in Nat
        BY <3>1, RingParts
      <4> HIDE DEF s
      <4>2. Append(s, e) \in Seq(Nat \ {0})
        BY <4>1, AppendSeq
      <4> QED
        BY <4>1, <4>2 DEF s
    <3>3. y \in QRing /\ y.name = rs[n].name
      BY <3>2 DEF QRing
    <3>4. ns = [rs EXCEPT ![n] = y]
      BY <1>7 DEF LastGrown
    <3> HIDE DEF n, y
    <3>5. /\ Len(ns) = Len(rs) /\ ns[n] = y
          /\ \A i \in 1 .. Len(rs) : i # n => ns[i] = rs[i]
      BY <1>1, <3>1, <3>3, <3>4, ExceptAt
    <3> QED
      BY <3>3, <3>5
  <2>2. NamesOf(ns) = NamesOf(rs) /\ DistinctRings(ns)
    BY <1>1, <1>2, <2>1, SameNames
  <2> QED
    BY <1>2, <1>3, <1>4, <1>7, <2>2
<1>8. CASE /\ r.ok = TRUE /\ r.made = FALSE
           /\ Top(p) # <<>> /\ r.queue.pool = sstack_pop(p, 1)
           /\ RingAdded(rs, Top(p)[1].name, e, ns)
  <2> DEFINE n == Top(p)[1].name
             P == sstack_pop(p, 1)
  <2>1. /\ n \in Nat /\ n \in PoolNames(p) /\ DistinctPool(P)
        /\ PoolNames(P) = PoolNames(p) \ {n}
    BY <1>1, <1>2, <1>8, PoolPop DEF QRing
  <2>2. ns = Append(rs, x(n))
    BY <1>8 DEF RingAdded
  <2>3. r.queue.pool = P
    BY <1>8
  <2> HIDE DEF n, P
  <2>4. n \notin NamesOf(rs)
    BY <1>2, <2>1
  <2>5. x(n) \in QRing /\ x(n).name = n
    BY <1>5, <2>1
  <2> HIDE DEF x
  <2>6. NamesOf(ns) = NamesOf(rs) \cup {n} /\ DistinctRings(ns)
    BY <1>1, <1>2, <2>2, <2>4, <2>5, NamesAdded
  <2> QED
    BY <1>2, <1>3, <1>4, <1>8, <2>1, <2>3, <2>6
<1>9. CASE /\ r.ok = TRUE /\ r.made = TRUE /\ fresh # 0 /\ r.queue.pool = p
           /\ RingAdded(rs, fresh, e, ns)
  <2>1. ns = Append(rs, x(fresh)) /\ x(fresh) \in QRing /\ x(fresh).name = fresh
    BY <1>5, <1>9 DEF RingAdded
  <2> HIDE DEF x
  <2>2. fresh \notin NamesOf(rs) /\ fresh \notin PoolNames(p)
    BY <1>2
  <2>3. NamesOf(ns) = NamesOf(rs) \cup {fresh} /\ DistinctRings(ns)
    BY <1>1, <1>2, <2>1, <2>2, NamesAdded
  <2> QED
    BY <1>2, <1>3, <1>4, <1>9, <2>2, <2>3
<1>10. CASE /\ r.ok = FALSE /\ r.made = FALSE /\ fresh = 0 /\ r.queue.pool = p
            /\ ns = rs
  BY <1>2, <1>3, <1>4, <1>10
<1> QED
  BY <1>6, <1>7, <1>8, <1>9, <1>10

\* rbh_queue_pop() only moves a ring to the pool.
LEMMA HeldPop ==
    ASSUME NEW q, QueueOK(q), HeldOnce(q), NEW r, Popped(q, r), queue_peek(q) # <<>>
    PROVE  HeldOnce(r) /\ Held(r) = Held(q)
<1> DEFINE rs == queue_rings(q)
           ns == queue_rings(r)
           p == q.pool
           x == [name |-> rs[1].name, elements |-> Tail(rs[1].elements)]
<1>1. rs \in Seq(QRing) /\ Len(rs) \in Nat \ {0} /\ PoolOK(p)
      /\ rs[1].elements # <<>>
  BY QueueParts, RingList, QueuePop
<1>2. DistinctRings(rs) /\ DistinctPool(p) /\ NamesOf(rs) \cap PoolNames(p) = {}
      /\ Held(q) = NamesOf(rs) \cup PoolNames(p)
  BY DEF HeldOnce, Held
<1>3. Held(r) = NamesOf(ns) \cup PoolNames(r.pool)
  BY DEF Held
<1>4. HeldOnce(r) <=> /\ DistinctRings(ns) /\ DistinctPool(r.pool)
                      /\ NamesOf(ns) \cap PoolNames(r.pool) = {}
  BY DEF HeldOnce
<1>5. \/ r.pool = p /\ ns = [rs EXCEPT ![1] = x]
      \/ x.elements = <<>> /\ Len(rs) > 1 /\ r.pool = sstack_push(p, x) /\ ns = Tail(rs)
  BY DEF Popped
<1> HIDE DEF rs, ns, p
<1>6. x \in QRing /\ x.name = rs[1].name /\ rs # <<>> /\ 1 \in 1 .. Len(rs)
  <2> DEFINE s == rs[1].elements
  <2>1. rs[1] \in QRing /\ rs # <<>> /\ 1 \in 1 .. Len(rs)
    BY <1>1
  <2>2. s \in Seq(Nat \ {0}) /\ rs[1].name \in Nat /\ s # <<>>
    BY <1>1, <2>1, RingParts
  <2> HIDE DEF s
  <2>3. Tail(s) \in Seq(Nat \ {0})
    BY <2>2, TailSeq
  <2> QED
    BY <2>1, <2>2, <2>3 DEF QRing, s
<1> HIDE DEF x
<1>7. CASE r.pool = p /\ ns = [rs EXCEPT ![1] = x]
  <2>1. /\ Len(ns) = Len(rs) /\ ns[1] = x
        /\ \A i \in 1 .. Len(rs) : i # 1 => ns[i] = rs[i]
    BY <1>1, <1>6, <1>7, ExceptAt
  <2>2. \A i \in 1 .. Len(rs) : ns[i].name = rs[i].name
    BY <1>6, <2>1
  <2>3. NamesOf(ns) = NamesOf(rs) /\ DistinctRings(ns)
    BY <1>1, <1>2, <2>1, <2>2, SameNames
  <2> QED
    BY <1>2, <1>3, <1>4, <1>7, <2>3
<1>8. CASE x.elements = <<>> /\ Len(rs) > 1 /\ r.pool = sstack_push(p, x) /\ ns = Tail(rs)
  <2>1. /\ NamesOf(ns) = NamesOf(rs) \ {x.name} /\ x.name \in NamesOf(rs) /\ DistinctRings(ns)
    BY <1>1, <1>2, <1>6, <1>8, NamesDropped
  <2>2. x.name \notin PoolNames(p)
    BY <1>2, <2>1
  <2>3. PoolNames(r.pool) = PoolNames(p) \cup {x.name} /\ DistinctPool(r.pool)
    BY <1>1, <1>2, <1>6, <1>8, <2>2, PoolPush
  <2> QED
    BY <1>2, <1>3, <1>4, <2>1, <2>3
<1> QED
  BY <1>5, <1>7, <1>8

-----------------------------------------------------------------------------
(* The steps of the tee.                                                   *)

\* The tee seen from one of its sides.
TeeOKFrom(side, T, G, s, m, f) ==
    LET o == 1 - side
    IN /\ s \in Nat /\ m \in Nat /\ f \in Nat
       /\ DOMAIN T = 0 .. 1 /\ DOMAIN G = 0 .. 1
       /\ SideOK(T[side], G[side], s, f) /\ SideOK(T[o], G[o], s, f)
       /\ T[side].clone <=> T[o].alive
       /\ T[o].clone <=> T[side].alive
       /\ HeldOnce(T[side].queue) /\ HeldOnce(T[o].queue)
       /\ Held(T[side].queue) \cap Held(T[o].queue) = {}
       /\ Held(T[side].queue) \cup Held(T[o].queue) = 1 .. m

\* Its sides are alike.
LEMMA TeeFrom ==
    ASSUME NEW side \in 0 .. 1, NEW T, NEW G, NEW s, NEW m, NEW f
    PROVE  TeeOK(T, G, s, m, f) <=> TeeOKFrom(side, T, G, s, m, f)
<1>1. side = 0 \/ side = 1
  OBVIOUS
<1>2. 1 - 0 = 1 /\ 1 - 1 = 0 /\ 0 .. 1 = {0, 1}
  OBVIOUS
<1>3. CASE side = 0
  BY <1>2, <1>3 DEF TeeOK, TeeOKFrom
<1>4. CASE side = 1
  BY <1>2, <1>4 DEF TeeOK, TeeOKFrom
<1> QED
  BY <1>1, <1>3, <1>4

\* The fields of a side.
LEMMA SideFields ==
    ASSUME NEW t, IsSide(t)
    PROVE  t.next \in Seq(Nat \ {0}) /\ t.clone \in BOOLEAN /\ t.alive \in BOOLEAN
BY DEF IsSide

\* u is t but for its queue, Q, and for next, n.
SideAs(u, t, Q, n) ==
    IsSide(u) /\ u.queue = Q /\ u.next = n /\ u.clone = t.clone /\ u.alive = t.alive

\* The queue of a side is replaced.
LEMMA SideQueue ==
    ASSUME NEW t, IsSide(t), NEW Q
    PROVE  SideAs([t EXCEPT !.queue = Q], t, Q, t.next)
BY DEF IsSide, SideAs

\* The next of a side is replaced.
LEMMA SideNext ==
    ASSUME NEW t, IsSide(t), NEW n \in Seq(Nat \ {0})
    PROVE  SideAs([t EXCEPT !.next = n], t, t.queue, n)
BY DEF IsSide, SideAs

\* A side is destroyed.
LEMMA SideGone ==
    ASSUME NEW t, IsSide(t)
    PROVE  LET u == [t EXCEPT !.alive = FALSE]
           IN /\ IsSide(u) /\ u.queue = t.queue /\ u.next = t.next
              /\ u.clone = t.clone /\ u.alive = FALSE
BY DEF IsSide

\* The other side is destroyed.
LEMMA SideAlone ==
    ASSUME NEW t, IsSide(t)
    PROVE  LET u == [t EXCEPT !.clone = FALSE]
           IN /\ IsSide(u) /\ u.queue = t.queue /\ u.next = t.next
              /\ u.clone = FALSE /\ u.alive = t.alive
BY DEF IsSide

\* The last element of a list is a number.
LEMMA LastNat ==
    ASSUME NEW g \in Seq(Nat \ {0})
    PROVE  LastOf(g) \in Nat
BY DEF LastOf

\* One element more is returned.
LEMMA ReturnedNext ==
    ASSUME NEW f \in Nat, NEW g, Returned(g, f), NEW e \in Nat \ {0}, Follows(f, LastOf(g), e)
    PROVE  Returned(Append(g, e), f) /\ LastOf(Append(g, e)) = e
<1>1. g \in Seq(Nat \ {0}) /\ InOrder(f, g) /\ (g # <<>> => g[1] = 1)
  BY DEF Returned
<1>2. /\ Append(g, e) \in Seq(Nat \ {0})
      /\ InOrder(f, Append(g, e)) /\ LastOf(Append(g, e)) = e
      /\ Append(g, e)[1] = IF g = <<>> THEN e ELSE g[1]
  BY <1>1, OrderAppend
<1>3. g = <<>> => e = 1
  BY DEF LastOf, Follows
<1>4. Append(g, e)[1] = 1
  BY <1>1, <1>2, <1>3
<1> QED
  BY <1>2, <1>4 DEF Returned

\* More failures allow more.
LEMMA SideMore ==
    ASSUME NEW t, NEW g, NEW s, NEW f \in Nat, NEW h \in Nat, f <= h, SideOK(t, g, s, f)
    PROVE  SideOK(t, g, s, h)
<1>1. Returned(g, h)
  BY LinkMore DEF SideOK, Returned
<1>2. ASSUME t.alive
      PROVE  \E z \in Nat :
                /\ Linked(h, LastOf(g), queue_rings(t.queue), z)
                /\ t.next = <<>> => z = s
                /\ t.next # <<>> => t.next = <<s>> /\ h > 0 /\ (z = s \/ z + 1 = s)
  <2>1. PICK z \in Nat :
                /\ Linked(f, LastOf(g), queue_rings(t.queue), z)
                /\ t.next = <<>> => z = s
                /\ t.next # <<>> => t.next = <<s>> /\ f > 0 /\ (z = s \/ z + 1 = s)
    BY <1>2 DEF SideOK
  <2>2. Linked(h, LastOf(g), queue_rings(t.queue), z)
    BY <2>1, LinkMore
  <2> QED
    BY <2>1, <2>2
<1> QED
  BY <1>1, <1>2 DEF SideOK

\* The side whose share failed keeps the element.
AfterShare(r, e) == IF r.ok THEN r.tee ELSE [r.tee EXCEPT !.next = <<e>>]

\* tee_iter_share() of an element: it is in the queue, or next.
LEMMA ShareSide ==
    ASSUME NEW t, NEW g, NEW s \in Nat, NEW f \in Nat, NEW h \in Nat, f <= h,
           SideOK(t, g, s, f), t.alive, t.next = <<>>,
           NEW e \in Nat \ {0}, e = s + 1 \/ (e = s /\ f > 0),
           NEW fresh \in Nat, fresh = 0 => h > 0
    PROVE  SideOK(AfterShare(tee_iter_share(t, e, fresh), e), g, e, h)
<1> DEFINE p == queue_push(t.queue, e, fresh)
           r == tee_iter_share(t, e, fresh)
           a == LastOf(g)
<1>1. r.ok = p.ok /\ r.tee = [t EXCEPT !.queue = p.queue]
  BY DEF tee_iter_share
<1>2. IsSide(t) /\ QueueOK(t.queue) /\ Returned(g, f) /\ a \in Nat
  BY LastNat DEF SideOK, Returned
<1>3. Linked(f, a, queue_rings(t.queue), s)
  BY DEF SideOK
<1>4. Follows(f, s, e)
  BY DEF Follows
<1>5. QueueOK(p.queue) /\ Pushed(t.queue, e, fresh, p)
  BY <1>2, QueuePush
<1> HIDE DEF p, a, r
<1>6. /\ p.ok = TRUE => Linked(f, a, queue_rings(p.queue), e)
      /\ p.ok = FALSE => Linked(f, a, queue_rings(p.queue), s) /\ fresh = 0
  BY <1>2, <1>3, <1>4, <1>5, LinkPush, ZenonT(30)
<1>61. p.ok = TRUE \/ p.ok = FALSE
  BY <1>5 DEF Pushed
<1>7. /\ p.ok = TRUE => Linked(h, a, queue_rings(p.queue), e)
      /\ p.ok = FALSE => Linked(h, a, queue_rings(p.queue), s) /\ h > 0
  BY <1>6, LinkMore
<1>8. Returned(g, h)
  BY <1>2, LinkMore DEF Returned
<1>9. /\ IsSide(r.tee) /\ r.tee.queue = p.queue /\ r.tee.next = <<>>
      /\ r.tee.clone = t.clone /\ r.tee.alive = t.alive
  <2>1. SideAs(r.tee, t, p.queue, t.next)
    BY <1>1, <1>2, SideQueue
  <2> QED
    BY <2>1 DEF SideAs
<1>10. CASE p.ok = TRUE
  <2>1. SideOK(r.tee, g, e, h)
    BY <1>5, <1>7, <1>8, <1>9, <1>10 DEF SideOK, a
  <2> QED
    BY <1>1, <1>10, <2>1 DEF AfterShare, r
<1>11. CASE p.ok = FALSE
  <2> DEFINE u == [r.tee EXCEPT !.next = <<e>>]
  <2>1. /\ IsSide(u) /\ u.queue = p.queue /\ u.next = <<e>>
        /\ u.clone = t.clone /\ u.alive = t.alive
    <3>1. <<e>> \in Seq(Nat \ {0})
      OBVIOUS
    <3>2. SideAs(u, r.tee, r.tee.queue, <<e>>)
      BY <1>9, <3>1, SideNext
    <3> HIDE DEF u
    <3> QED
      BY <1>9, <3>2 DEF SideAs
  <2> HIDE DEF u
  <2>2. s = e \/ s + 1 = e
    OBVIOUS
  <2>3. SideOK(u, g, e, h)
    BY <1>5, <1>7, <1>8, <1>11, <2>1, <2>2 DEF SideOK, a
  <2> QED
    BY <1>1, <1>11, <2>3 DEF u, AfterShare, r
<1> QED
  BY <1>61, <1>10, <1>11

\* tee_iter_share() again of what could not be shared.
LEMMA RetrySide ==
    ASSUME NEW t, NEW g, NEW s \in Nat, NEW f \in Nat,
           SideOK(t, g, s, f), t.alive, t.next # <<>>,
           NEW fresh \in Nat, NEW r, r = tee_iter_share(t, t.next[1], fresh)
    PROVE  /\ t.next[1] = s /\ s \in Nat \ {0}
           /\ SideOK(IF r.ok THEN [r.tee EXCEPT !.next = <<>>] ELSE r.tee, g, s, f)
<1> DEFINE p == queue_push(t.queue, s, fresh)
           a == LastOf(g)
<1>1. IsSide(t) /\ QueueOK(t.queue) /\ Returned(g, f) /\ a \in Nat
  BY LastNat DEF SideOK, Returned
<1>2. PICK z \in Nat : Linked(f, a, queue_rings(t.queue), z) /\ t.next = <<s>> /\ f > 0
                       /\ (z = s \/ z + 1 = s)
  BY DEF SideOK
<1>3. t.next[1] = s /\ s \in Nat \ {0}
  <2>1. t.next \in Seq(Nat \ {0})
    BY <1>1, SideFields
  <2> QED
    BY <1>2, <2>1
<1>4. r.ok = p.ok /\ r.tee = [t EXCEPT !.queue = p.queue]
  BY <1>3 DEF tee_iter_share
<1>5. Follows(f, z, s)
  BY <1>2 DEF Follows
<1>6. QueueOK(p.queue) /\ Pushed(t.queue, s, fresh, p)
  BY <1>1, <1>3, QueuePush
<1> HIDE DEF p, a
<1>7. /\ p.ok = TRUE => Linked(f, a, queue_rings(p.queue), s)
      /\ p.ok = FALSE => Linked(f, a, queue_rings(p.queue), z)
  <2>1. Linked(f, a, queue_rings(t.queue), z) /\ QueueOK(t.queue) /\ s \in Nat \ {0} /\ a \in Nat
    BY <1>1, <1>2, <1>3
  <2> QED
    BY <1>5, <1>6, <2>1, LinkPush
<1>8. p.ok = TRUE \/ p.ok = FALSE
  BY <1>6 DEF Pushed
<1>9. /\ IsSide(r.tee) /\ r.tee.queue = p.queue /\ r.tee.next = t.next
      /\ r.tee.clone = t.clone /\ r.tee.alive = t.alive
  <2>1. SideAs(r.tee, t, p.queue, t.next)
    BY <1>1, <1>4, SideQueue
  <2> QED
    BY <2>1 DEF SideAs
<1>10. CASE p.ok = TRUE
  <2> DEFINE u == [r.tee EXCEPT !.next = <<>>]
  <2>1. /\ IsSide(u) /\ u.queue = p.queue /\ u.next = <<>>
        /\ u.clone = t.clone /\ u.alive = t.alive
    <3>1. <<>> \in Seq(Nat \ {0})
      OBVIOUS
    <3>2. SideAs(u, r.tee, r.tee.queue, <<>>)
      BY <1>9, <3>1, SideNext
    <3> HIDE DEF u
    <3> QED
      BY <1>9, <3>2 DEF SideAs
  <2> HIDE DEF u
  <2>2. SideOK(u, g, s, f)
    BY <1>1, <1>6, <1>7, <1>10, <2>1 DEF SideOK, a
  <2> QED
    BY <1>3, <1>4, <1>10, <2>2 DEF u
<1>11. CASE p.ok = FALSE
  <2>1. SideOK(r.tee, g, s, f)
    BY <1>1, <1>2, <1>6, <1>7, <1>9, <1>11 DEF SideOK, a
  <2> QED
    BY <1>3, <1>4, <1>11, <2>1
<1> QED
  BY <1>8, <1>10, <1>11

\* tee_iter_next() of an element of the queue.
LEMMA TeeQueuedStep ==
    ASSUME NEW side \in 0 .. 1, TeeInv, TeeQueued(side)
    PROVE  TeeInv'
<1> DEFINE o == 1 - side
           t == tee[side]
           q == t.queue
           Q == queue_pop(q)
           u == [t EXCEPT !.queue = Q]
           g == got[side]
           e == queue_peek(q)[1]
           f == failures
<1>1. TeeOKFrom(side, tee, got, source, made, f)
  BY TeeFrom DEF TeeInv
<1>2. /\ o \in 0 .. 1 /\ o # side
  OBVIOUS
<1>3. /\ source \in Nat /\ made \in Nat /\ f \in Nat
      /\ DOMAIN tee = 0 .. 1 /\ DOMAIN got = 0 .. 1
  BY <1>1 DEF TeeOKFrom
<1>4. /\ SideOK(t, g, source, f) /\ SideOK(tee[o], got[o], source, f)
      /\ HeldOnce(q) /\ HeldOnce(tee[o].queue)
  BY <1>1 DEF TeeOKFrom
<1>5. /\ t.clone <=> tee[o].alive
      /\ tee[o].clone <=> t.alive
      /\ Held(q) \cap Held(tee[o].queue) = {}
      /\ Held(q) \cup Held(tee[o].queue) = 1 .. made
  BY <1>1 DEF TeeOKFrom
<1>6. /\ t.alive /\ queue_peek(q) # <<>>
      /\ source' = source /\ made' = made /\ failures' = f
  BY DEF TeeQueued
<1>7. /\ tee' = [tee EXCEPT ![side] = u] /\ got' = [got EXCEPT ![side] = Append(g, e)]
  BY DEF TeeQueued
<1> HIDE DEF o, t, u, g, f
<1>8. /\ DOMAIN tee' = 0 .. 1 /\ DOMAIN got' = 0 .. 1
      /\ tee'[side] = u /\ tee'[o] = tee[o]
      /\ got'[side] = Append(g, e) /\ got'[o] = got[o]
  BY <1>2, <1>3, <1>7
<1>9. IsSide(t) /\ QueueOK(q) /\ Returned(g, f) /\ LastOf(g) \in Nat
  BY <1>4, LastNat DEF SideOK, Returned
<1>10. PICK z \in Nat :
              /\ Linked(f, LastOf(g), queue_rings(q), z)
              /\ t.next = <<>> => z = source
              /\ t.next # <<>> => t.next = <<source>> /\ f > 0 /\ (z = source \/ z + 1 = source)
  BY <1>4, <1>6 DEF SideOK
<1>11. QueueOK(Q) /\ Popped(q, Q)
  BY <1>6, <1>9, QueuePop
<1> HIDE DEF q, Q
<1>12. e \in Nat \ {0} /\ Follows(f, LastOf(g), e) /\ Linked(f, e, queue_rings(Q), z)
  BY <1>6, <1>9, <1>10, <1>11, LinkPop
<1>13. HeldOnce(Q) /\ Held(Q) = Held(q)
  BY <1>4, <1>6, <1>9, <1>11, HeldPop
<1>14. Returned(Append(g, e), f) /\ LastOf(Append(g, e)) = e
  BY <1>3, <1>9, <1>12, ReturnedNext
<1>15. SideAs(u, t, Q, t.next)
  BY <1>9, SideQueue DEF u
<1>16. SideOK(u, Append(g, e), source, f)
  BY <1>10, <1>11, <1>12, <1>14, <1>15 DEF SideOK, SideAs
<1>17. u.clone = t.clone /\ u.alive = t.alive /\ u.queue = Q
  BY <1>15 DEF SideAs
<1>18. TeeOKFrom(side, tee', got', source', made', failures')
  BY <1>3, <1>4, <1>5, <1>6, <1>8, <1>13, <1>16, <1>17 DEF TeeOKFrom, o
<1> QED
  BY <1>18, TeeFrom DEF TeeInv

\* tee_iter_destroy().
LEMMA TeeDestroyStep ==
    ASSUME NEW side \in 0 .. 1, TeeInv, TeeDestroy(side)
    PROVE  TeeInv'
<1> DEFINE o == 1 - side
           t == tee[side]
           c == tee[o]
           u == [t EXCEPT !.alive = FALSE]
           v == [c EXCEPT !.clone = FALSE]
<1>1. TeeOKFrom(side, tee, got, source, made, failures)
  BY TeeFrom DEF TeeInv
<1>2. o \in 0 .. 1 /\ o # side
  OBVIOUS
<1>3. /\ source \in Nat /\ made \in Nat /\ failures \in Nat
      /\ DOMAIN tee = 0 .. 1 /\ DOMAIN got = 0 .. 1
  BY <1>1 DEF TeeOKFrom
<1>4. /\ SideOK(t, got[side], source, failures) /\ SideOK(c, got[o], source, failures)
      /\ HeldOnce(t.queue) /\ HeldOnce(c.queue)
  BY <1>1 DEF TeeOKFrom
<1>5. /\ t.clone <=> c.alive
      /\ Held(t.queue) \cap Held(c.queue) = {}
      /\ Held(t.queue) \cup Held(c.queue) = 1 .. made
  BY <1>1 DEF TeeOKFrom
<1>6. source' = source /\ made' = made /\ failures' = failures /\ got' = got
  BY DEF TeeDestroy
<1>7. tee' = [[tee EXCEPT ![side] = u] EXCEPT ![o] = v]
  <2>1. tee' = [tee EXCEPT ![side].alive = FALSE, ![1 - side].clone = FALSE]
    BY DEF TeeDestroy, Other
  <2> QED
    BY <1>2, <1>3, <2>1
<1> HIDE DEF o, t, c, u, v
<1>8. DOMAIN tee' = 0 .. 1 /\ tee'[side] = u /\ tee'[o] = v
  BY <1>2, <1>3, <1>7
<1>9. IsSide(t) /\ IsSide(c)
  BY <1>4 DEF SideOK
<1>10. IsSide(u) /\ u.queue = t.queue /\ u.clone = t.clone /\ u.alive = FALSE
  BY <1>9, SideGone DEF u
<1>11. IsSide(v) /\ v.queue = c.queue /\ v.next = c.next /\ v.clone = FALSE /\ v.alive = c.alive
  BY <1>9, SideAlone DEF v
<1>12. SideOK(u, got[side], source, failures)
  BY <1>4, <1>10 DEF SideOK
<1>13. SideOK(v, got[o], source, failures)
  BY <1>4, <1>11 DEF SideOK
<1>14. TeeOKFrom(side, tee', got', source', made', failures')
  BY <1>3, <1>4, <1>5, <1>6, <1>8, <1>10, <1>11, <1>12, <1>13 DEF TeeOKFrom, o
<1> QED
  BY <1>14, TeeFrom DEF TeeInv

\* What an empty queue says: the side has returned what the queue leads to.
LEMMA EmptyQueue ==
    ASSUME NEW q, QueueOK(q), queue_peek(q) = <<>>, NEW f, NEW a \in Nat, NEW z,
           Linked(f, a, queue_rings(q), z)
    PROVE  z = a /\ \A b : Linked(f, b, queue_rings(q), b)
<1> DEFINE rs == queue_rings(q)
           n == Len(rs)
<1>1. rs \in Seq(QRing) /\ n \in Nat \ {0}
  BY QueueParts, RingList
<1>2. rs[1].elements = <<>>
  <2>1. rs[1] = q.rings[q.head + 1]
    BY QueueParts, RingList
  <2> QED
    BY <2>1 DEF queue_peek
<1>3. Linked(f, a, rs, z)
  OBVIOUS
<1> HIDE DEF rs
<1>4. n = 1
  <2> SUFFICES ASSUME n # 1 PROVE FALSE
    OBVIOUS
  <2>1. 2 \in 2 .. n /\ 2 - 1 = 1
    BY <1>1
  <2>2. rs[2 - 1].elements # <<>>
    BY <1>3, <2>1 DEF Linked
  <2> QED
    BY <1>2, <2>1, <2>2
<1>5. z = a
  BY <1>2, <1>3, <1>4 DEF Linked
<1>6. \A b : Linked(f, b, rs, b)
  BY <1>2, <1>3, <1>4 DEF Linked
<1> QED
  BY <1>5, <1>6 DEF rs

\* r is what tee_iter_share() does to t: it changes the queue only, which
\* has at most one ring more, the fresh one.
ShareHolds(r, t, fresh) ==
    /\ r.ok \in BOOLEAN /\ r.made \in BOOLEAN /\ (r.made => r.ok /\ fresh # 0)
    /\ SideAs(r.tee, t, r.tee.queue, t.next)
    /\ HeldOnce(r.tee.queue)
    /\ Held(r.tee.queue) = IF r.made THEN Held(t.queue) \cup {fresh} ELSE Held(t.queue)

\* tee_iter_share() and the rings.
LEMMA ShareHeld ==
    ASSUME NEW t, IsSide(t), QueueOK(t.queue), HeldOnce(t.queue), NEW e \in Nat \ {0},
           NEW fresh \in Nat, fresh \notin Held(t.queue)
    PROVE  ShareHolds(tee_iter_share(t, e, fresh), t, fresh)
<1> DEFINE p == queue_push(t.queue, e, fresh)
           r == tee_iter_share(t, e, fresh)
<1>1. r.ok = p.ok /\ r.made = p.made /\ r.tee = [t EXCEPT !.queue = p.queue]
  BY DEF tee_iter_share
<1>2. QueueOK(p.queue) /\ Pushed(t.queue, e, fresh, p)
  BY QueuePush
<1> HIDE DEF p, r
<1>3. /\ HeldOnce(p.queue) /\ p.made \in BOOLEAN /\ p.ok \in BOOLEAN
      /\ Held(p.queue) = IF p.made THEN Held(t.queue) \cup {fresh} ELSE Held(t.queue)
      /\ p.made => fresh # 0 /\ p.ok
  BY <1>2, HeldPush
<1>4. SideAs(r.tee, t, p.queue, t.next)
  BY <1>1, SideQueue
<1>5. r.tee.queue = p.queue
  BY <1>4 DEF SideAs
<1>6. ShareHolds(r, t, fresh)
  BY <1>1, <1>3, <1>4, <1>5 DEF ShareHolds
<1> QED
  BY <1>6 DEF r

\* r is what RetryShare() does: it leaves the other side in order, and when
\* it succeeds the other side, if there is one, waits for nothing.
RetryHolds(r, side, fresh) ==
    LET o == 1 - side
        c == tee[o]
    IN /\ r.ok \in BOOLEAN /\ r.made \in BOOLEAN /\ (r.made => r.ok /\ fresh # 0)
       /\ SideOK(r.tee, got[o], source, failures)
       /\ r.tee.clone = c.clone /\ r.tee.alive = c.alive
       /\ HeldOnce(r.tee.queue)
       /\ Held(r.tee.queue) = IF r.made THEN Held(c.queue) \cup {fresh} ELSE Held(c.queue)
       /\ r.ok /\ tee[side].clone => r.tee.next = <<>>
       /\ ~tee[side].clone => ~r.made /\ r.ok /\ r.tee = c

\* tee_iter_next() first shares again what it could not share.
LEMMA RetryStep ==
    ASSUME NEW side \in 0 .. 1, TeeInv, NEW fresh \in Nat, fresh \notin 1 .. made
    PROVE  RetryHolds(RetryShare(side, fresh), side, fresh)
<1> DEFINE o == 1 - side
           t == tee[side]
           c == tee[o]
           e == c.next[1]
           x == tee_iter_share(c, e, fresh)
           r == RetryShare(side, fresh)
           w == IF x.ok THEN [x.tee EXCEPT !.next = <<>>] ELSE x.tee
<1>1. TeeOKFrom(side, tee, got, source, made, failures)
  BY TeeFrom DEF TeeInv
<1>2. /\ source \in Nat /\ made \in Nat /\ failures \in Nat
      /\ SideOK(c, got[o], source, failures) /\ HeldOnce(c.queue)
  BY <1>1 DEF TeeOKFrom
<1>3. /\ t.clone <=> c.alive
      /\ fresh \notin Held(c.queue)
  BY <1>1 DEF TeeOKFrom
<1>4. IsSide(c) /\ QueueOK(c.queue)
  BY <1>2 DEF SideOK
<1>5. r = IF t.clone /\ c.next # <<>>
          THEN [x EXCEPT !.tee = w]
          ELSE [ok |-> TRUE, made |-> FALSE, tee |-> c]
  BY DEF RetryShare, Other
<1>6. x = [ok |-> x.ok, made |-> x.made, tee |-> x.tee]
  BY DEF tee_iter_share
<1>7. x = tee_iter_share(c, e, fresh)
  OBVIOUS
<1> HIDE DEF o, t, c, x, e, r
<1>8. CASE t.clone /\ c.next # <<>>
  <2>1. r = [ok |-> x.ok, made |-> x.made, tee |-> w]
    <3>1. r = [x EXCEPT !.tee = w]
      BY <1>5, <1>8
    <3> HIDE DEF w
    <3> QED
      BY <1>6, <3>1
  <2>2. r.ok = x.ok /\ r.made = x.made /\ r.tee = w
    BY <2>1
  <2>3. c.alive
    BY <1>3, <1>8
  <2>4. e \in Nat \ {0} /\ e = source /\ SideOK(w, got[o], source, failures)
    BY <1>2, <1>7, <1>8, <2>3, RetrySide DEF e
  <2>5. /\ x.ok \in BOOLEAN /\ x.made \in BOOLEAN /\ (x.made => x.ok /\ fresh # 0)
        /\ SideAs(x.tee, c, x.tee.queue, c.next)
        /\ HeldOnce(x.tee.queue)
        /\ Held(x.tee.queue) = IF x.made THEN Held(c.queue) \cup {fresh} ELSE Held(c.queue)
    BY <1>2, <1>3, <1>4, <1>7, <2>4, ShareHeld, ZenonT(30) DEF ShareHolds
  <2>6. /\ w.queue = x.tee.queue /\ w.clone = c.clone /\ w.alive = c.alive
        /\ x.ok => w.next = <<>>
    <3>1. /\ IsSide(x.tee) /\ x.tee.clone = c.clone /\ x.tee.alive = c.alive
      BY <2>5 DEF SideAs
    <3>2. CASE x.ok
      <4>1. <<>> \in Seq(Nat \ {0})
        OBVIOUS
      <4>2. SideAs([x.tee EXCEPT !.next = <<>>], x.tee, x.tee.queue, <<>>)
        BY <3>1, <4>1, SideNext
      <4>3. w = [x.tee EXCEPT !.next = <<>>]
        BY <3>2
      <4>4. SideAs(w, x.tee, x.tee.queue, <<>>)
        BY <4>2, <4>3
      <4> HIDE DEF w
      <4> QED
        BY <3>1, <4>4 DEF SideAs
    <3>3. CASE ~x.ok
      BY <3>1, <3>3
    <3> QED
      BY <3>2, <3>3
  <2> HIDE DEF w
  <2>7. /\ r.ok \in BOOLEAN /\ r.made \in BOOLEAN /\ (r.made => r.ok /\ fresh # 0)
        /\ SideOK(r.tee, got[o], source, failures)
        /\ r.tee.clone = c.clone /\ r.tee.alive = c.alive
    BY <2>2, <2>4, <2>5, <2>6
  <2>8. /\ HeldOnce(r.tee.queue)
        /\ Held(r.tee.queue) = IF r.made THEN Held(c.queue) \cup {fresh} ELSE Held(c.queue)
        /\ r.ok => r.tee.next = <<>>
    BY <2>2, <2>5, <2>6
  <2> QED
    BY <1>8, <2>7, <2>8 DEF RetryHolds, o, t, c, r
<1>9. CASE ~(t.clone /\ c.next # <<>>)
  <2>1. r.ok = TRUE /\ r.made = FALSE /\ r.tee = c
    BY <1>5, <1>9
  <2> QED
    BY <1>2, <1>9, <2>1 DEF RetryHolds, o, t, c, r
<1> QED
  BY <1>8, <1>9

\* tee_iter_next() of an element of the source, or of the one that could not
\* be shared.
LEMMA TeeFetchStep ==
    ASSUME NEW side \in 0 .. 1, NEW fails \in BOOLEAN, TeeInv, TeeFetch(side, fails)
    PROVE  TeeInv'
<1> DEFINE o == 1 - side
           fresh(n) == IF fails THEN 0 ELSE n + 1
           retry == RetryShare(side, fresh(made))
           n1 == made + (IF retry.made THEN 1 ELSE 0)
           t == tee[side]
           c == tee[o]
           g == got[side]
           e == IF t.next # <<>> THEN t.next[1] ELSE source + 1
           share == tee_iter_share(retry.tee, e, fresh(n1))
           v == IF share.ok THEN share.tee ELSE [share.tee EXCEPT !.next = <<e>>]
           u == [t EXCEPT !.next = <<>>]
           f == failures
           h == failures + (IF fails THEN 1 ELSE 0)
<1>1. TeeOKFrom(side, tee, got, source, made, f)
  BY TeeFrom DEF TeeInv
<1>2. o \in 0 .. 1 /\ o # side
  OBVIOUS
<1>3. /\ source \in Nat /\ made \in Nat /\ f \in Nat
      /\ DOMAIN tee = 0 .. 1 /\ DOMAIN got = 0 .. 1
  BY <1>1 DEF TeeOKFrom
<1>4. /\ SideOK(t, g, source, f) /\ SideOK(c, got[o], source, f)
      /\ HeldOnce(t.queue) /\ HeldOnce(c.queue)
  BY <1>1 DEF TeeOKFrom
<1>5. /\ t.clone <=> c.alive
      /\ c.clone <=> t.alive
      /\ Held(t.queue) \cap Held(c.queue) = {}
      /\ Held(t.queue) \cup Held(c.queue) = 1 .. made
  BY <1>1 DEF TeeOKFrom
<1>6. t.alive /\ queue_peek(t.queue) = <<>> /\ failures' = h
  BY DEF TeeFetch
<1>7. ~retry.ok => /\ tee' = [tee EXCEPT ![o] = retry.tee]
                   /\ source' = source /\ got' = got /\ made' = made
  BY DEF TeeFetch, Other
<1>8. retry.ok => /\ source' = (IF t.next # <<>> THEN source ELSE source + 1)
                  /\ got' = [got EXCEPT ![side] = Append(g, e)]
                  /\ tee' = (IF t.clone THEN [tee EXCEPT ![side].next = <<>>, ![o] = v]
                             ELSE [tee EXCEPT ![side].next = <<>>])
                  /\ made' = (IF t.clone /\ share.made THEN n1 + 1 ELSE n1)
  BY DEF TeeFetch, Other
<1>9. h \in Nat /\ f <= h /\ (fails => h > 0)
  BY <1>3
<1>10. \A n \in Nat : fresh(n) \in Nat /\ fresh(n) \notin 1 .. n /\ (fresh(n) = 0 => h > 0)
                      /\ (fresh(n) # 0 => fresh(n) = n + 1)
  BY <1>9
<1> HIDE DEF o, t, c, g, f, h, fresh, retry
<1>11. /\ retry.ok \in BOOLEAN /\ retry.made \in BOOLEAN
       /\ retry.made => retry.ok /\ fresh(made) # 0
       /\ SideOK(retry.tee, got[o], source, f)
       /\ retry.tee.clone = c.clone /\ retry.tee.alive = c.alive
       /\ HeldOnce(retry.tee.queue)
       /\ Held(retry.tee.queue) = IF retry.made THEN Held(c.queue) \cup {fresh(made)}
                                  ELSE Held(c.queue)
       /\ retry.ok /\ t.clone => retry.tee.next = <<>>
       /\ ~t.clone => ~retry.made /\ retry.ok /\ retry.tee = c
  <2>1. fresh(made) \in Nat /\ fresh(made) \notin 1 .. made
    BY <1>3, <1>10
  <2> QED
    BY <2>1, RetryStep DEF RetryHolds, retry, o, c, t, f
\* The rings after the retry.
<1>12. /\ n1 \in Nat
       /\ Held(t.queue) \cap Held(retry.tee.queue) = {}
       /\ Held(t.queue) \cup Held(retry.tee.queue) = 1 .. n1
       /\ ~retry.made => n1 = made
  <2>1. CASE retry.made
    <3>1. fresh(made) = made + 1 /\ n1 = made + 1 /\ made + 1 \notin 1 .. made
      BY <1>3, <1>10, <1>11, <2>1
    <3>2. 1 .. n1 = (1 .. made) \cup {made + 1} /\ n1 \in Nat
      BY <1>3, <3>1
    <3>3. Held(retry.tee.queue) = Held(c.queue) \cup {made + 1}
      BY <1>11, <2>1, <3>1
    <3> QED
      BY <1>5, <2>1, <3>1, <3>2, <3>3
  <2>2. CASE ~retry.made
    BY <1>3, <1>5, <1>11, <2>2
  <2> QED
    BY <2>1, <2>2
<1>13. SideOK(t, g, source, h) /\ SideOK(retry.tee, got[o], source, h)
  BY <1>3, <1>4, <1>9, <1>11, SideMore
<1>14. CASE ~retry.ok
  <2>1. ~retry.made /\ n1 = made
    BY <1>11, <1>12, <1>14
  <2>2. DOMAIN tee' = 0 .. 1 /\ tee'[side] = t /\ tee'[o] = retry.tee
    BY <1>2, <1>3, <1>7, <1>14 DEF t
  <2>3. got'[side] = g /\ got'[o] = got[o] /\ DOMAIN got' = 0 .. 1 /\ source' = source /\ made' = made
    BY <1>3, <1>7, <1>14 DEF g
  <2> HIDE DEF n1
  <2>4. TeeOKFrom(side, tee', got', source', made', failures')
    BY <1>3, <1>4, <1>5, <1>6, <1>9, <1>11, <1>12, <1>13, <2>1, <2>2, <2>3 DEF TeeOKFrom, o
  <2> QED
    BY <2>4, TeeFrom DEF TeeInv
<1>15. CASE retry.ok
  \* The element comes after what the side has returned.
  <2>1. IsSide(t) /\ QueueOK(t.queue) /\ Returned(g, f) /\ LastOf(g) \in Nat
    BY <1>4, LastNat DEF SideOK, Returned
  <2>2. /\ e \in Nat \ {0} /\ Follows(f, LastOf(g), e)
        /\ e = source + 1 \/ (e = source /\ f > 0)
        /\ source' = e
    <3>1. PICK z \in Nat :
              /\ Linked(f, LastOf(g), queue_rings(t.queue), z)
              /\ t.next = <<>> => z = source
              /\ t.next # <<>> => t.next = <<source>> /\ f > 0 /\ (z = source \/ z + 1 = source)
      BY <1>4, <1>6 DEF SideOK
    <3>2. z = LastOf(g)
      <4>1. QueueOK(t.queue) /\ queue_peek(t.queue) = <<>> /\ LastOf(g) \in Nat
        BY <1>6, <2>1
      <4>2. Linked(f, LastOf(g), queue_rings(t.queue), z)
        BY <3>1
      <4> QED
        BY <4>1, <4>2, EmptyQueue
    <3>3. CASE t.next = <<>>
      BY <1>3, <1>8, <1>15, <3>1, <3>2, <3>3 DEF Follows
    <3>4. CASE t.next # <<>>
      <4>1. t.next = <<source>> /\ f > 0 /\ t.next \in Seq(Nat \ {0})
        BY <2>1, <3>1, <3>4, SideFields
      <4>2. e = source /\ source \in Nat \ {0}
        BY <3>4, <4>1
      <4>3. source = LastOf(g) \/ source = LastOf(g) + 1
        BY <3>1, <3>2, <3>4, <2>1
      <4>4. source' = source
        BY <1>8, <1>15, <3>4
      <4> HIDE DEF e
      <4> QED
        BY <4>1, <4>2, <4>3, <4>4 DEF Follows
    <3> QED
      BY <3>3, <3>4
  <2> HIDE DEF e
  <2>3. Returned(Append(g, e), f) /\ LastOf(Append(g, e)) = e
    BY <1>3, <2>1, <2>2, ReturnedNext
  <2>4. Returned(Append(g, e), h) /\ Returned(got[o], h)
    BY <1>3, <1>9, <1>13, <2>3, LinkMore DEF Returned, SideOK
  <2>5. SideAs(u, t, t.queue, <<>>)
    <3>1. <<>> \in Seq(Nat \ {0})
      OBVIOUS
    <3> QED
      BY <2>1, <3>1, SideNext
  <2>6. SideOK(u, Append(g, e), e, h)
    <3>1. PICK z \in Nat : Linked(h, LastOf(g), queue_rings(t.queue), z)
      BY <1>6, <1>13 DEF SideOK
    <3>2. Linked(h, e, queue_rings(t.queue), e)
      <4>1. QueueOK(t.queue) /\ queue_peek(t.queue) = <<>> /\ LastOf(g) \in Nat
        BY <1>6, <2>1
      <4>2. \A b : Linked(h, b, queue_rings(t.queue), b)
        BY <3>1, <4>1, EmptyQueue
      <4> QED
        BY <4>2
    <3> HIDE DEF u
    <3> QED
      BY <2>1, <2>2, <2>3, <2>4, <2>5, <3>2 DEF SideOK, SideAs
  <2>7. u.queue = t.queue /\ u.clone = t.clone /\ u.alive = t.alive
    BY <2>5 DEF SideAs
  <2>8. DOMAIN got' = 0 .. 1 /\ got'[side] = Append(g, e) /\ got'[o] = got[o]
    BY <1>2, <1>3, <1>8, <1>15 DEF e
  <2>9. CASE ~t.clone
    <3>1. ~c.alive /\ retry.tee = c /\ ~retry.made /\ n1 = made
      BY <1>5, <1>11, <1>12, <2>9
    <3>2. SideOK(c, got[o], e, h)
      BY <1>4, <2>4, <3>1 DEF SideOK
    <3>3. tee' = [tee EXCEPT ![side] = u] /\ made' = made
      BY <1>8, <1>15, <2>9, <3>1 DEF t
    <3> HIDE DEF u, n1
    <3>4. DOMAIN tee' = 0 .. 1 /\ tee'[side] = u /\ tee'[o] = c
      BY <1>2, <1>3, <3>3 DEF c
    <3>5. TeeOKFrom(side, tee', got', source', made', failures')
      BY <1>3, <1>4, <1>5, <1>6, <1>9, <2>2, <2>6, <2>7, <2>8, <3>2, <3>3, <3>4
         DEF TeeOKFrom, o
    <3> QED
      BY <3>5, TeeFrom DEF TeeInv
  <2>10. CASE t.clone
    <3>1. retry.tee.alive /\ retry.tee.next = <<>> /\ IsSide(retry.tee) /\ QueueOK(retry.tee.queue)
      BY <1>5, <1>11, <1>15, <2>10 DEF SideOK
    <3> HIDE DEF n1
    <3>2. /\ fresh(n1) \in Nat /\ fresh(n1) \notin Held(retry.tee.queue)
          /\ fresh(n1) = 0 => h > 0
          /\ fresh(n1) # 0 => fresh(n1) = n1 + 1
      BY <1>10, <1>12
    <3>3. share = tee_iter_share(retry.tee, e, fresh(n1))
      BY DEF e, n1
    <3> HIDE DEF share
    <3>4. SideOK(v, got[o], e, h)
      <4>1. SideOK(AfterShare(tee_iter_share(retry.tee, e, fresh(n1)), e), got[o], e, h)
        BY <1>3, <1>9, <1>11, <2>2, <3>1, <3>2, ShareSide
      <4> QED
        BY <3>3, <4>1 DEF AfterShare
    <3>5. /\ share.ok \in BOOLEAN /\ share.made \in BOOLEAN
          /\ share.made => share.ok /\ fresh(n1) # 0
          /\ SideAs(share.tee, retry.tee, share.tee.queue, retry.tee.next)
          /\ HeldOnce(share.tee.queue)
          /\ Held(share.tee.queue) = IF share.made THEN Held(retry.tee.queue) \cup {fresh(n1)}
                                     ELSE Held(retry.tee.queue)
      BY <1>11, <2>2, <3>1, <3>2, <3>3, ShareHeld DEF ShareHolds
    <3>6. v.queue = share.tee.queue /\ v.clone = c.clone /\ v.alive = c.alive
      <4>1. IsSide(share.tee) /\ share.tee.clone = c.clone /\ share.tee.alive = c.alive
        BY <1>11, <3>5 DEF SideAs
      <4>2. CASE share.ok
        BY <4>1, <4>2
      <4>3. CASE ~share.ok
        <5>1. <<e>> \in Seq(Nat \ {0})
          BY <2>2
        <5>2. SideAs([share.tee EXCEPT !.next = <<e>>], share.tee, share.tee.queue, <<e>>)
          BY <4>1, <5>1, SideNext
        <5>3. v = [share.tee EXCEPT !.next = <<e>>]
          BY <4>3
        <5>4. SideAs(v, share.tee, share.tee.queue, <<e>>)
          BY <5>2, <5>3
        <5> HIDE DEF v
        <5> QED
          BY <4>1, <5>4 DEF SideAs
      <4> QED
        BY <4>2, <4>3
    <3>7. tee' = [[tee EXCEPT ![side] = u] EXCEPT ![o] = v]
      <4>1. tee' = [tee EXCEPT ![side].next = <<>>, ![o] = v]
        BY <1>8, <1>15, <2>10 DEF v, share, e, n1
      <4> HIDE DEF v
      <4> QED
        BY <4>1 DEF t
    <3>8. made' = IF share.made THEN n1 + 1 ELSE n1
      BY <1>8, <1>15, <2>10 DEF share, e, n1
    <3> HIDE DEF u, v
    <3>9. DOMAIN tee' = 0 .. 1 /\ tee'[side] = u /\ tee'[o] = v
      BY <1>2, <1>3, <3>7
    <3>10. /\ made' \in Nat
           /\ Held(t.queue) \cap Held(v.queue) = {}
           /\ Held(t.queue) \cup Held(v.queue) = 1 .. made'
      <4>1. CASE share.made
        <5>1. fresh(n1) = n1 + 1 /\ made' = n1 + 1 /\ n1 + 1 \notin 1 .. n1
          BY <1>12, <3>2, <3>5, <3>8, <4>1
        <5>2. 1 .. made' = (1 .. n1) \cup {n1 + 1} /\ made' \in Nat
          BY <1>12, <5>1
        <5>3. Held(v.queue) = Held(retry.tee.queue) \cup {n1 + 1}
          BY <3>5, <3>6, <4>1, <5>1
        <5> QED
          BY <1>12, <5>1, <5>2, <5>3
      <4>2. CASE ~share.made
        BY <1>12, <3>5, <3>6, <3>8, <4>2
      <4> QED
        BY <4>1, <4>2
    <3>11. HeldOnce(v.queue)
      BY <3>5, <3>6
    <3>12. TeeOKFrom(side, tee', got', source', made', failures')
      BY <1>3, <1>4, <1>5, <1>6, <1>9, <2>2, <2>6, <2>7, <2>8, <3>4, <3>6, <3>9, <3>10, <3>11
         DEF TeeOKFrom, o
    <3> QED
      BY <3>12, TeeFrom DEF TeeInv
  <2> QED
    BY <2>9, <2>10
<1> QED
  BY <1>11, <1>14, <1>15

\* rbh_iter_tee().
LEMMA TeeStart ==
    ASSUME TeeInit
    PROVE  TeeInv
<1> DEFINE x(side) == [name |-> side + 1, elements |-> <<>>]
           q(side) == queue_new(QueueChunk, PoolChunk, side + 1)
           P == sstack_new(PoolChunk)
           S == <<<<>>>>
<1>1. PoolOK(P) /\ PoolNames(P) = {} /\ DistinctPool(P)
  <2>1. /\ S \in Seq(Seq(QRing)) /\ Len(S) = 1 /\ \A s \in 1 .. Len(S) : S[s] = <<>>
    <3>1. <<>> \in Seq(QRing)
      OBVIOUS
    <3> QED
      BY <3>1
  <2>2. P = [stacks |-> S, chunk |-> PoolChunk, current |-> 0, count |-> 1, initialized |-> 1]
    BY DEF sstack_new
  <2> HIDE DEF P, S
  <2>3. P.stacks = S /\ P.current = 0 /\ P.initialized = 1
    BY <2>2
  <2>4. P \in [stacks : Seq(Seq(QRing)), chunk : Nat, current : Nat, count : Nat,
               initialized : Nat]
    BY <2>1, <2>2, QueueAssumption
  <2>5. \A s \in 1 .. Len(S) : Len(S[s]) = 0
    BY <2>1
  <2>6. PoolOK(P)
    <3>1. Len(P.stacks) = P.initialized /\ P.current < P.initialized
      BY <2>1, <2>3
    <3>2. \A s \in 1 .. Len(P.stacks) : P.stacks[s] = <<>>
      BY <2>1, <2>3
    <3>3. \A s \in 1 .. Len(P.stacks) : \A i \in 1 .. Len(P.stacks[s]) :
              P.stacks[s][i].elements = <<>>
      BY <2>3, <2>5
    <3> QED
      BY <2>4, <3>1, <3>2, <3>3 DEF PoolOK
  <2>7. PoolNames(P) = {}
    BY <2>3, <2>5 DEF PoolNames
  <2>8. DistinctPool(P)
    BY <2>3, <2>5 DEF DistinctPool
  <2> QED
    BY <2>6, <2>7, <2>8
<1>2. ASSUME NEW side \in 0 .. 1
      PROVE  /\ QueueOK(q(side)) /\ HeldOnce(q(side)) /\ Held(q(side)) = {side + 1}
             /\ queue_rings(q(side)) = <<x(side)>>
  <2> DEFINE R == <<x(side)>>
             z == q(side)
  <2>1. x(side) \in QRing /\ x(side).name = side + 1
    BY DEF QRing
  <2>2. z = [rings |-> R, chunk |-> QueueChunk, pool |-> P, head |-> 0, tail |-> 0, count |-> 1]
    BY DEF queue_new
  <2> HIDE DEF x
  <2>3. R \in Seq(QRing) /\ Len(R) = 1 /\ R[1] = x(side)
    BY <2>1
  <2> HIDE DEF P, z, R
  <2>4. /\ z.rings = R /\ z.chunk = QueueChunk /\ z.pool = P
        /\ z.head = 0 /\ z.tail = 0 /\ z.count = 1
    BY <2>2
  <2>41. z = [y \in QFields |-> z[y]]
    BY <2>2 DEF QFields
  <2>42. /\ z.rings \in Seq(QRing) /\ Len(z.rings) = z.count
         /\ z.head \in Nat /\ z.tail \in Nat /\ z.count \in Nat
         /\ z.head <= z.tail /\ z.tail < z.count
    BY <2>3, <2>4
  <2>43. z.chunk = QueueChunk /\ PoolOK(z.pool)
    BY <1>1, <2>4
  <2>5. QueueOK(z)
    BY <2>41, <2>42, <2>43, QueueIntro
  <2>6. /\ queue_rings(z) \in Seq(QRing) /\ Len(queue_rings(z)) = 1
        /\ queue_rings(z)[1] = x(side)
    <3>1. /\ z.rings \in Seq(QRing) /\ z.head \in Nat /\ z.tail \in Nat
          /\ z.head <= z.tail /\ z.tail < Len(z.rings)
      BY <2>42
    <3>2. /\ queue_rings(z) \in Seq(QRing) /\ Len(queue_rings(z)) = (z.tail - z.head) + 1
          /\ queue_rings(z)[1] = z.rings[z.head + 1]
      BY <3>1, RingList
    <3>3. (z.tail - z.head) + 1 = 1 /\ z.head + 1 = 1
      BY <2>4
    <3> QED
      BY <2>3, <2>4, <3>2, <3>3
  <2>7. queue_rings(z) = R
    BY <2>3, <2>6, SameSeq
  <2>8. NamesOf(R) = {side + 1} /\ DistinctRings(R)
    BY <2>1, <2>3 DEF NamesOf, DistinctRings
  <2>9. HeldOnce(z) /\ Held(z) = {side + 1}
    BY <1>1, <2>4, <2>7, <2>8 DEF HeldOnce, Held
  <2> QED
    BY <2>5, <2>7, <2>9 DEF z, R
<1>3. DOMAIN tee = 0 .. 1 /\ DOMAIN got = 0 .. 1
  BY DEF TeeInit
<1>4. source = 0 /\ made = 2 /\ failures = 0
  BY DEF TeeInit
<1>5. ASSUME NEW side \in 0 .. 1
      PROVE  /\ tee[side] = [queue |-> q(side), next |-> <<>>, clone |-> TRUE, alive |-> TRUE]
             /\ got[side] = <<>>
  BY DEF TeeInit, tee_iter_new
<1> HIDE DEF q
<1>6. ASSUME NEW side \in 0 .. 1
      PROVE  /\ tee[side].queue = q(side) /\ tee[side].next = <<>>
             /\ tee[side].clone = TRUE /\ tee[side].alive = TRUE /\ IsSide(tee[side])
  <2> DEFINE r == [queue |-> q(side), next |-> <<>>, clone |-> TRUE, alive |-> TRUE]
  <2>1. tee[side] = r
    BY <1>5
  <2>2. /\ r.queue = q(side) /\ r.next = <<>> /\ r.clone = TRUE /\ r.alive = TRUE
    OBVIOUS
  <2>3. <<>> \in Seq(Nat \ {0})
    OBVIOUS
  <2>4. r \in [queue : {r.queue}, next : Seq(Nat \ {0}), clone : BOOLEAN, alive : BOOLEAN]
    BY <2>3
  <2> HIDE DEF r
  <2> QED
    BY <2>1, <2>2, <2>4 DEF IsSide
<1>7. ASSUME NEW side \in 0 .. 1
      PROVE  SideOK(tee[side], got[side], source, failures)
  <2>1. Returned(got[side], failures) /\ LastOf(got[side]) = 0
    <3>1. <<>> \in Seq(Nat \ {0}) /\ LastOf(<<>>) = 0
      BY DEF LastOf
    <3>2. InOrder(failures, <<>>)
      BY DEF InOrder
    <3> QED
      BY <1>5, <3>1, <3>2 DEF Returned
  <2>2. Linked(failures, 0, queue_rings(q(side)), 0)
    <3> DEFINE R == <<x(side)>>
    <3>1. Len(R) = 1 /\ R[1].elements = <<>>
      OBVIOUS
    <3>2. InOrder(failures, <<>>)
      BY DEF InOrder
    <3>3. queue_rings(q(side)) = R
      BY <1>2
    <3> HIDE DEF R
    <3>4. \A i \in 1 .. Len(R) : i = 1
      BY <3>1
    <3>5. \A i \in 2 .. Len(R) : FALSE
      BY <3>1
    <3>6. Linked(failures, 0, R, 0)
      BY <3>1, <3>2, <3>4, <3>5 DEF Linked
    <3> QED
      BY <3>3, <3>6
  <2>3. QueueOK(tee[side].queue)
    BY <1>2, <1>6
  <2> QED
    BY <1>4, <1>6, <2>1, <2>2, <2>3 DEF SideOK
<1>8. \A side \in 0 .. 1 : /\ tee[side].clone <=> tee[1 - side].alive
                           /\ HeldOnce(tee[side].queue) /\ Held(tee[side].queue) = {side + 1}
  <2> SUFFICES ASSUME NEW side \in 0 .. 1
               PROVE  /\ tee[side].clone <=> tee[1 - side].alive
                      /\ HeldOnce(tee[side].queue) /\ Held(tee[side].queue) = {side + 1}
    OBVIOUS
  <2>1. 1 - side \in 0 .. 1
    OBVIOUS
  <2>2. tee[side].clone = TRUE /\ tee[1 - side].alive = TRUE
    BY <1>6, <2>1
  <2>3. HeldOnce(tee[side].queue) /\ Held(tee[side].queue) = {side + 1}
    BY <1>2, <1>6
  <2> QED
    BY <2>2, <2>3
<1>9. /\ Held(tee[0].queue) \cap Held(tee[1].queue) = {}
      /\ Held(tee[0].queue) \cup Held(tee[1].queue) = 1 .. made
  <2>1. Held(tee[0].queue) = {1} /\ Held(tee[1].queue) = {2}
    BY <1>8
  <2> QED
    BY <1>4, <2>1
<1>10. \A side \in 0 .. 1 : HeldOnce(tee[side].queue)
  BY <1>8
<1>11. \A side \in 0 .. 1 : tee[side].clone <=> tee[1 - side].alive
  BY <1>8
<1> QED
  BY <1>3, <1>4, <1>7, <1>9, <1>10, <1>11 DEF TeeInv, TeeOK

\* A step of the tee keeps its invariant.
LEMMA TeeStep ==
    ASSUME TeeInv, TeeNext
    PROVE  TeeInv'
BY TeeQueuedStep, TeeFetchStep, TeeDestroyStep DEF TeeNext

\* The invariant is about the variables of the tee only.
LEMMA TeeStutter ==
    ASSUME TeeInv, UNCHANGED teeVars
    PROVE  TeeInv'
BY DEF TeeInv, teeVars

\* What the sides return is in the source's order, without a gap.
LEMMA TeeIsWhole ==
    ASSUME TeeInv
    PROVE  TeeYieldsAll
<1> SUFFICES ASSUME NEW side \in 0 .. 1
             PROVE  /\ got[side] # <<>> => got[side][1] = 1
                    /\ \A i \in 2 .. Len(got[side]) :
                           \/ got[side][i] = got[side][i - 1] + 1
                           \/ failures > 0 /\ got[side][i] = got[side][i - 1]
  BY DEF TeeYieldsAll
<1>1. Returned(got[side], failures)
  BY DEF TeeInv, TeeOK, SideOK
<1> QED
  BY <1>1 DEF Returned, InOrder, Follows

\* Where the rings of the queues are, where those of the pools are, and the
\* ring that is there.
QueuedSpots ==
    UNION {{<<side, 0, i>> : i \in DOMAIN queue_rings(tee[side].queue)} : side \in 0 .. 1}
PooledSpots ==
    UNION {{<<side, spot[1], spot[2]>> : spot \in pool_rings(tee[side].queue)} :
              side \in 0 .. 1}
RingAt(spot) ==
    IF spot[2] = 0 THEN queue_rings(tee[spot[1]].queue)[spot[3]]
    ELSE tee[spot[1]].queue.pool.stacks[spot[2]][spot[3]]

\* A place in a queue.
LEMMA QueuedPlace ==
    ASSUME TeeInv
    PROVE  /\ \A spot \in QueuedSpots : \E side \in 0 .. 1 :
                  \E i \in 1 .. Len(queue_rings(tee[side].queue)) :
                      spot = <<side, 0, i>> /\ RingAt(spot) = queue_rings(tee[side].queue)[i]
           /\ \A side \in 0 .. 1 : \A i \in 1 .. Len(queue_rings(tee[side].queue)) :
                  <<side, 0, i>> \in QueuedSpots
<1>1. ASSUME NEW side \in 0 .. 1
      PROVE  DOMAIN queue_rings(tee[side].queue) = 1 .. Len(queue_rings(tee[side].queue))
  <2>1. QueueOK(tee[side].queue)
    BY DEF TeeInv, TeeOK, SideOK
  <2>2. queue_rings(tee[side].queue) \in Seq(QRing)
    BY <2>1, QueueParts, RingList
  <2> QED
    BY <2>2
<1>2. ASSUME NEW spot \in QueuedSpots
      PROVE  \E side \in 0 .. 1 : \E i \in 1 .. Len(queue_rings(tee[side].queue)) :
                 spot = <<side, 0, i>> /\ RingAt(spot) = queue_rings(tee[side].queue)[i]
  <2>1. PICK side \in 0 .. 1 : spot \in {<<side, 0, i>> : i \in DOMAIN queue_rings(tee[side].queue)}
    BY DEF QueuedSpots
  <2>2. PICK i \in DOMAIN queue_rings(tee[side].queue) : spot = <<side, 0, i>>
    BY <2>1
  <2>3. spot[1] = side /\ spot[2] = 0 /\ spot[3] = i
    BY <2>2
  <2>4. RingAt(spot) = queue_rings(tee[side].queue)[i]
    BY <2>3 DEF RingAt
  <2> QED
    BY <1>1, <2>2, <2>4
<1>3. ASSUME NEW side \in 0 .. 1, NEW i \in 1 .. Len(queue_rings(tee[side].queue))
      PROVE  <<side, 0, i>> \in QueuedSpots
  <2>1. <<side, 0, i>> \in {<<side, 0, j>> : j \in DOMAIN queue_rings(tee[side].queue)}
    BY <1>1
  <2> QED
    BY <2>1 DEF QueuedSpots
<1> QED
  BY <1>2, <1>3

\* A place in a pool.
LEMMA PooledPlace ==
    ASSUME TeeInv
    PROVE  /\ \A spot \in PooledSpots : \E side \in 0 .. 1 :
                  LET S == tee[side].queue.pool.stacks
                  IN \E s \in 1 .. Len(S) : \E i \in 1 .. Len(S[s]) :
                         spot = <<side, s, i>> /\ RingAt(spot) = S[s][i] /\ s # 0
           /\ \A side \in 0 .. 1 :
                  LET S == tee[side].queue.pool.stacks
                  IN \A s \in 1 .. Len(S) : \A i \in 1 .. Len(S[s]) :
                         <<side, s, i>> \in PooledSpots
<1> DEFINE q(side) == tee[side].queue
           p(side) == q(side).pool
           S(side) == p(side).stacks
<1>1. ASSUME NEW side \in 0 .. 1
      PROVE  /\ Len(S(side)) \in Nat /\ p(side).current \in Nat
             /\ p(side).current + 1 <= Len(S(side))
             /\ \A s \in 1 .. Len(S(side)) : DOMAIN S(side)[s] = 1 .. Len(S(side)[s])
             /\ \A s \in 1 .. Len(S(side)) : s > p(side).current + 1 => Len(S(side)[s]) = 0
  <2>1. QueueOK(q(side))
    BY DEF TeeInv, TeeOK, SideOK
  <2>2. PoolOK(p(side))
    BY <2>1, QueueParts
  <2> HIDE DEF p
  <2>3. /\ Len(S(side)) \in Nat /\ p(side).current \in Nat
        /\ p(side).current + 1 \in 1 .. Len(S(side))
        /\ \A s \in 1 .. Len(S(side)) : S(side)[s] \in Seq(QRing)
        /\ \A s \in 1 .. Len(S(side)) : s > p(side).current + 1 => S(side)[s] = <<>>
    BY <2>2, PoolParts
  <2> HIDE DEF S
  <2>4. \A s \in 1 .. Len(S(side)) : DOMAIN S(side)[s] = 1 .. Len(S(side)[s])
    BY <2>3
  <2>5. \A s \in 1 .. Len(S(side)) : s > p(side).current + 1 => Len(S(side)[s]) = 0
    BY <2>3
  <2> QED
    BY <2>3, <2>4, <2>5
<1>2. ASSUME NEW spot \in PooledSpots
      PROVE  \E side \in 0 .. 1 : \E s \in 1 .. Len(S(side)) : \E i \in 1 .. Len(S(side)[s]) :
                 spot = <<side, s, i>> /\ RingAt(spot) = S(side)[s][i] /\ s # 0
  <2>1. PICK side \in 0 .. 1 : spot \in {<<side, x[1], x[2]>> : x \in pool_rings(q(side))}
    BY DEF PooledSpots
  <2>2. PICK x \in pool_rings(q(side)) : spot = <<side, x[1], x[2]>>
    BY <2>1
  <2>3. PICK s \in 1 .. p(side).current + 1 : x \in {<<s, i>> : i \in DOMAIN S(side)[s]}
    BY <2>2 DEF pool_rings
  <2>4. PICK i \in DOMAIN S(side)[s] : x = <<s, i>>
    BY <2>3
  <2>5. s \in 1 .. Len(S(side)) /\ s # 0
    BY <1>1, SMTT(30)
  <2>6. i \in 1 .. Len(S(side)[s])
    BY <1>1, <2>4, <2>5
  <2>7. spot = <<side, s, i>>
    BY <2>2, <2>4
  <2>8. spot[1] = side /\ spot[2] = s /\ spot[3] = i
    BY <2>7
  <2>9. RingAt(spot) = S(side)[s][i]
    BY <2>5, <2>8 DEF RingAt
  <2> QED
    BY <2>5, <2>6, <2>7, <2>9
<1>3. ASSUME NEW side \in 0 .. 1, NEW s \in 1 .. Len(S(side)), NEW i \in 1 .. Len(S(side)[s])
      PROVE  <<side, s, i>> \in PooledSpots
  <2>1. s \in 1 .. p(side).current + 1 /\ i \in DOMAIN S(side)[s]
    <3>1. /\ Len(S(side)) \in Nat /\ p(side).current \in Nat
          /\ DOMAIN S(side)[s] = 1 .. Len(S(side)[s])
          /\ s > p(side).current + 1 => Len(S(side)[s]) = 0
      BY <1>1
    <3> HIDE DEF S, p
    <3>2. ~(s > p(side).current + 1)
      <4> SUFFICES ASSUME s > p(side).current + 1 PROVE FALSE
        OBVIOUS
      <4>1. i \in 1 .. 0
        BY <3>1
      <4> QED
        BY <4>1
    <3> QED
      BY <3>1, <3>2
  <2> DEFINE x == <<s, i>>
  <2>2. x \in {<<s, j>> : j \in DOMAIN S(side)[s]}
    BY <2>1
  <2>3. x \in pool_rings(q(side))
    BY <2>1, <2>2 DEF pool_rings
  <2>4. <<side, s, i>> = <<side, x[1], x[2]>>
    OBVIOUS
  <2> HIDE DEF x
  <2>5. <<side, s, i>> \in {<<side, y[1], y[2]>> : y \in pool_rings(q(side))}
    BY <2>3, <2>4
  <2> QED
    BY <2>5 DEF PooledSpots
<1> QED
  BY <1>2, <1>3

\* No ring is lost or in two places.
LEMMA TeeKeepsRings ==
    ASSUME TeeInv
    PROVE  RingsKept
<1> DEFINE q(side) == tee[side].queue
           rs(side) == queue_rings(q(side))
           S(side) == q(side).pool.stacks
           AtQueue(spot, side, i) == spot = <<side, 0, i>> /\ RingAt(spot) = rs(side)[i]
           AtPool(spot, side, s, i) ==
               spot = <<side, s, i>> /\ RingAt(spot) = S(side)[s][i] /\ s # 0
           spots == QueuedSpots \cup PooledSpots
           name == [spot \in spots |-> RingAt(spot).name]
<1>1. /\ \A side \in 0 .. 1 : HeldOnce(q(side))
      /\ \A side \in 0 .. 1 : QueueOK(q(side))
      /\ Held(q(0)) \cap Held(q(1)) = {}
      /\ Held(q(0)) \cup Held(q(1)) = 1 .. made
  BY DEF TeeInv, TeeOK, SideOK
<1>2. \A side \in 0 .. 1 :
          /\ \A i, j \in 1 .. Len(rs(side)) : rs(side)[i].name = rs(side)[j].name => i = j
          /\ \A s, t \in 1 .. Len(S(side)) :
                \A i \in 1 .. Len(S(side)[s]), j \in 1 .. Len(S(side)[t]) :
                    S(side)[s][i].name = S(side)[t][j].name => s = t /\ i = j
  BY <1>1 DEF HeldOnce, DistinctRings, DistinctPool
<1>3. \A side \in 0 .. 1 : Held(q(side)) = NamesOf(rs(side)) \cup PoolNames(q(side).pool)
                           /\ NamesOf(rs(side)) \cap PoolNames(q(side).pool) = {}
  BY <1>1 DEF HeldOnce, Held
<1>4. \A spot \in QueuedSpots : \E side \in 0 .. 1 : \E i \in 1 .. Len(rs(side)) :
          AtQueue(spot, side, i)
  BY QueuedPlace
<1>5. \A spot \in PooledSpots : \E side \in 0 .. 1 : \E s \in 1 .. Len(S(side)) :
          \E i \in 1 .. Len(S(side)[s]) : AtPool(spot, side, s, i)
  BY PooledPlace
<1>6. \A side \in 0 .. 1 : \A i \in 1 .. Len(rs(side)) : rs(side)[i].name \in NamesOf(rs(side))
  BY DEF NamesOf
<1>7. \A side \in 0 .. 1 : \A s \in 1 .. Len(S(side)) : \A i \in 1 .. Len(S(side)[s]) :
          S(side)[s][i].name \in PoolNames(q(side).pool)
  BY PoolName
<1>8. \A a, b \in 0 .. 1 : Held(q(a)) \cap Held(q(b)) # {} => a = b
  <2>1. 0 .. 1 = {0, 1}
    OBVIOUS
  <2> QED
    BY <1>1, <2>1
<1> HIDE DEF q, rs, S
\* Two places with the same ring are the same place.
<1>9. ASSUME NEW x \in spots, NEW y \in spots, RingAt(x).name = RingAt(y).name
      PROVE  x = y
  <2>1. CASE x \in QueuedSpots /\ y \in QueuedSpots
    <3>1. PICK a \in 0 .. 1 : \E i \in 1 .. Len(rs(a)) : AtQueue(x, a, i)
      BY <1>4, <2>1
    <3>2. PICK i \in 1 .. Len(rs(a)) : AtQueue(x, a, i)
      BY <3>1
    <3>3. PICK b \in 0 .. 1 : \E j \in 1 .. Len(rs(b)) : AtQueue(y, b, j)
      BY <1>4, <2>1
    <3>4. PICK j \in 1 .. Len(rs(b)) : AtQueue(y, b, j)
      BY <3>3
    <3>5. RingAt(x).name \in Held(q(a)) /\ RingAt(x).name \in Held(q(b))
      BY <1>3, <1>6, <1>9, <3>2, <3>4
    <3>6. a = b
      BY <1>8, <3>5
    <3>7. i = j
      BY <1>2, <1>9, <3>2, <3>4, <3>6
    <3> QED
      BY <3>2, <3>4, <3>6, <3>7
  <2>2. ASSUME NEW v \in spots, NEW w \in spots, v \in QueuedSpots, w \in PooledSpots,
               RingAt(v).name = RingAt(w).name
        PROVE  FALSE
    <3>1. PICK a \in 0 .. 1 : \E i \in 1 .. Len(rs(a)) : AtQueue(v, a, i)
      BY <1>4, <2>2
    <3>2. PICK i \in 1 .. Len(rs(a)) : AtQueue(v, a, i)
      BY <3>1
    <3>3. PICK b \in 0 .. 1 : \E s \in 1 .. Len(S(b)) : \E j \in 1 .. Len(S(b)[s]) :
              AtPool(w, b, s, j)
      BY <1>5, <2>2
    <3>4. PICK s \in 1 .. Len(S(b)) : \E j \in 1 .. Len(S(b)[s]) : AtPool(w, b, s, j)
      BY <3>3
    <3>5. PICK j \in 1 .. Len(S(b)[s]) : AtPool(w, b, s, j)
      BY <3>4
    <3>6. RingAt(v).name \in NamesOf(rs(a)) /\ RingAt(v).name \in PoolNames(q(b).pool)
      BY <1>6, <1>7, <2>2, <3>2, <3>5
    <3>7. a = b
      BY <1>3, <1>8, <3>6
    <3> QED
      BY <1>3, <3>6, <3>7
  <2>3. CASE x \in PooledSpots /\ y \in PooledSpots
    <3>1. PICK a \in 0 .. 1 : \E s \in 1 .. Len(S(a)) : \E i \in 1 .. Len(S(a)[s]) :
              AtPool(x, a, s, i)
      BY <1>5, <2>3
    <3>2. PICK s \in 1 .. Len(S(a)) : \E i \in 1 .. Len(S(a)[s]) : AtPool(x, a, s, i)
      BY <3>1
    <3>3. PICK i \in 1 .. Len(S(a)[s]) : AtPool(x, a, s, i)
      BY <3>2
    <3>4. PICK b \in 0 .. 1 : \E t \in 1 .. Len(S(b)) : \E j \in 1 .. Len(S(b)[t]) :
              AtPool(y, b, t, j)
      BY <1>5, <2>3
    <3>5. PICK t \in 1 .. Len(S(b)) : \E j \in 1 .. Len(S(b)[t]) : AtPool(y, b, t, j)
      BY <3>4
    <3>6. PICK j \in 1 .. Len(S(b)[t]) : AtPool(y, b, t, j)
      BY <3>5
    <3>7. RingAt(x).name \in Held(q(a)) /\ RingAt(x).name \in Held(q(b))
      BY <1>3, <1>7, <1>9, <3>3, <3>6
    <3>8. a = b
      BY <1>8, <3>7
    <3>9. s = t /\ i = j
      BY <1>2, <1>9, <3>3, <3>6, <3>8
    <3> QED
      BY <3>3, <3>6, <3>8, <3>9
  <2> QED
    BY <1>9, <2>1, <2>2, <2>3
<1>10. IsInjective(name)
  BY <1>9 DEF IsInjective
\* Every ring made is somewhere.
<1>11. \A spot \in spots : RingAt(spot).name \in 1 .. made
  <2>1. ASSUME NEW spot \in spots
        PROVE  \E a \in 0 .. 1 : RingAt(spot).name \in Held(q(a))
    <3>1. CASE spot \in QueuedSpots
      <4>1. PICK a \in 0 .. 1 : \E i \in 1 .. Len(rs(a)) : AtQueue(spot, a, i)
        BY <1>4, <3>1
      <4> QED
        BY <1>3, <1>6, <4>1
    <3>2. CASE spot \in PooledSpots
      <4>1. PICK a \in 0 .. 1 : \E s \in 1 .. Len(S(a)) : \E i \in 1 .. Len(S(a)[s]) :
                AtPool(spot, a, s, i)
        BY <1>5, <3>2
      <4> QED
        BY <1>3, <1>7, <4>1
    <3> QED
      BY <3>1, <3>2
  <2>2. \A a \in 0 .. 1 : Held(q(a)) \subseteq 1 .. made
    <3>1. 0 .. 1 = {0, 1}
      OBVIOUS
    <3> QED
      BY <1>1, <3>1
  <2> QED
    BY <2>1, <2>2
<1>12. ASSUME NEW n \in 1 .. made
       PROVE  \E spot \in spots : RingAt(spot).name = n
  <2>1. PICK a \in 0 .. 1 : n \in Held(q(a))
    BY <1>1
  <2>2. CASE n \in NamesOf(rs(a))
    <3>1. PICK i \in 1 .. Len(rs(a)) : n = rs(a)[i].name
      BY <2>2 DEF NamesOf
    <3> DEFINE x == <<a, 0, i>>
    <3>2. x \in QueuedSpots
      BY <3>1, QueuedPlace DEF rs, q
    <3>3. RingAt(x) = rs(a)[i]
      BY DEF RingAt, rs, q
    <3> QED
      BY <3>1, <3>2, <3>3
  <2>3. CASE n \in PoolNames(q(a).pool)
    <3>1. PICK s \in 1 .. Len(S(a)) : n \in {S(a)[s][i].name : i \in 1 .. Len(S(a)[s])}
      BY <2>3 DEF PoolNames, S
    <3>2. PICK i \in 1 .. Len(S(a)[s]) : n = S(a)[s][i].name
      BY <3>1
    <3> DEFINE x == <<a, s, i>>
    <3>3. x \in PooledSpots
      BY <3>1, <3>2, PooledPlace DEF S, q
    <3>4. s # 0
      OBVIOUS
    <3>5. RingAt(x) = S(a)[s][i]
      BY <3>4 DEF RingAt, S, q
    <3> QED
      BY <3>2, <3>3, <3>5
  <2> QED
    BY <1>3, <2>1, <2>2, <2>3
<1>13. Range(name) = 1 .. made
  BY <1>11, <1>12 DEF Range
\* The rings of a pool are empty.
<1>14. \A spot \in PooledSpots : RingAt(spot).elements = <<>>
  <2> SUFFICES ASSUME NEW spot \in PooledSpots PROVE RingAt(spot).elements = <<>>
    OBVIOUS
  <2>1. PICK a \in 0 .. 1 : \E s \in 1 .. Len(S(a)) : \E i \in 1 .. Len(S(a)[s]) :
            AtPool(spot, a, s, i)
    BY <1>5
  <2>2. PoolOK(q(a).pool)
    BY <1>1, QueueParts
  <2>3. \A s \in 1 .. Len(S(a)) : \A i \in 1 .. Len(S(a)[s]) : S(a)[s][i].elements = <<>>
    BY <2>2 DEF PoolOK, S
  <2> QED
    BY <2>1, <2>3
<1> QED
  BY <1>10, <1>13, <1>14 DEF RingsKept, QueuedSpots, PooledSpots, RingAt

-----------------------------------------------------------------------------
(* The chunks of a chain.                                                  *)

\* The ring_iterator over b, j elements of which were popped.
RingFrom(b, j) ==
    [size |-> Len(b) + 1, used |-> Len(b) - j, head |-> j,
     data |-> [o \in 0 .. Len(b) |-> IF o < Len(b) THEN b[o + 1] ELSE 0]]

\* The first iterator of the chain over a, and then b, n elements of which were
\* taken.
FirstFrom(it, a, n) ==
    \/ it = [kind |-> "array", elements |-> a, index |-> n]
    \/ it = [kind |-> "list", elements |-> a, current |-> n]

\* The chain over a, and then b: n elements were taken.
ChainAt(ch, a, b, n) ==
    /\ DOMAIN ch = {"first", "second"} /\ ch = [first |-> ch.first, second |-> ch.second]
    /\ \/ /\ n \in 0 .. Len(a)
          /\ Len(ch.first) = 1 /\ FirstFrom(ch.first[1], a, n)
          /\ ch.first # <<>> /\ ch.second = <<RingFrom(b, 0)>>
       \/ /\ n \in Len(a) .. Len(a) + Len(b)
          /\ ch.first = <<>> /\ ch.second = <<RingFrom(b, n - Len(a))>>

ChunkIterator == [first : Nat, count : Nat, once : BOOLEAN]

\* The elements of the chain that were taken: those given by a chunk and those
\* that wait as the first one of a chunk.
Position == Len(given) + Cardinality(Waiting)

\* How often the k-th part of the pairs of a list is x.
CountAt(s, k, x) == Cardinality({i \in DOMAIN s : s[i][k] = x})

\* How often x is one of the n first elements of a list.
TimesIn(s, n, x) == Cardinality({i \in 1 .. n : s[i] = x})

\* How many chunks wait with x.
WaitingFor(x) == {c \in Waiting : chunks[c].first = x}

\* The inductive invariant of the chunks.
ChunkInv ==
    /\ \E a, b \in Seq(Nat) : input = a \o b /\ ChainAt(chain, a, b, Position)
    /\ chunk \in Nat \ {0}
    /\ chunks \in Seq(ChunkIterator)
    /\ given \in Seq((1 .. Len(chunks)) \X Nat)
    /\ \A x \in Nat : CountAt(given, 2, x) + Cardinality(WaitingFor(x))
                      = TimesIn(input, Position, x)
    /\ \A c \in 1 .. Len(chunks) :
           /\ ~chunks[c].once => chunks[c].count = chunk - 1
           /\ chunks[c].count <= chunk - 1
           /\ CountAt(given, 1, c) =
                  (IF chunks[c].once THEN 1 ELSE 0) + ((chunk - 1) - chunks[c].count)

\* One list after another.
LEMMA ConcatFacts ==
    ASSUME NEW a \in Seq(Nat), NEW b \in Seq(Nat)
    PROVE  /\ a \o b \in Seq(Nat) /\ Len(a \o b) = Len(a) + Len(b)
           /\ Len(a) \in Nat /\ Len(b) \in Nat
           /\ \A i \in 1 .. Len(a) : (a \o b)[i] = a[i]
           /\ \A i \in 1 .. Len(b) : (a \o b)[Len(a) + i] = b[i]
OBVIOUS

\* The modulus of what is less than m, and of m.
LEMMA ModFacts ==
    ASSUME NEW m \in Nat \ {0}
    PROVE  /\ \A x \in 0 .. m - 1 : x % m = x
           /\ m % m = 0
OBVIOUS

\* rbh_iter_ring() over b.
LEMMA RingIterNew ==
    ASSUME NEW b \in Seq(Nat)
    PROVE  ring_iter(b) = RingFrom(b, 0)
<1> DEFINE L == Len(b)
           m == L + 1
           R == ring_new(m)
           pos(i) == Offset(R, R.used + i - 1)
           D == [o \in 0 .. L |->
                   IF \E i \in DOMAIN b : pos(i) = o THEN b[CHOOSE i \in DOMAIN b : pos(i) = o]
                   ELSE R.data[o]]
           F == {"size", "used", "head", "data"}
<1>1. L \in Nat /\ DOMAIN b = 1 .. L /\ m \in Nat \ {0}
  OBVIOUS
<1>2. R = [size |-> m, used |-> 0, head |-> 0, data |-> [i \in 0 .. m - 1 |-> 0]]
  BY DEF ring_new
<1>3. m - 1 = L
  BY <1>1
<1>4. /\ R.size = m /\ R.used = 0 /\ R.head = 0 /\ R.data = [i \in 0 .. L |-> 0]
  BY <1>2, <1>3
<1>5. ring_iter(b) = [R EXCEPT !.used = R.used + L,
                               !.data = [o \in DOMAIN R.data |->
                        IF \E i \in DOMAIN b : pos(i) = o
                        THEN b[CHOOSE i \in DOMAIN b : pos(i) = o]
                        ELSE R.data[o]]]
  BY DEF ring_iter, ring_push
<1>6. DOMAIN R.data = 0 .. L
  BY <1>4
<1>7. ring_iter(b) = [R EXCEPT !.used = R.used + L, !.data = D]
  BY <1>5, <1>6
<1>8. \A i \in 1 .. L : pos(i) = i - 1
  <2> SUFFICES ASSUME NEW i \in 1 .. L PROVE pos(i) = i - 1
    OBVIOUS
  <2>1. pos(i) = (0 + (0 + i - 1)) % m
    BY <1>4 DEF Offset
  <2>2. 0 + (0 + i - 1) = i - 1 /\ i - 1 \in 0 .. m - 1
    BY <1>1
  <2> HIDE DEF m, pos
  <2> QED
    BY <1>1, <2>1, <2>2, ModFacts
<1> HIDE DEF R, pos, L
<1>9. D = [o \in 0 .. L |-> IF o < L THEN b[o + 1] ELSE 0]
  <2>1. ASSUME NEW o \in 0 .. L
        PROVE  (IF \E i \in DOMAIN b : pos(i) = o THEN b[CHOOSE i \in DOMAIN b : pos(i) = o]
                ELSE R.data[o])
               = IF o < L THEN b[o + 1] ELSE 0
    <3>1. CASE o < L
      <4>1. o + 1 \in DOMAIN b /\ pos(o + 1) = o
        BY <1>1, <1>8, <3>1
      <4>2. \A i \in DOMAIN b : pos(i) = o => i = o + 1
        BY <1>1, <1>8
      <4>3. (CHOOSE i \in DOMAIN b : pos(i) = o) = o + 1
        BY <4>1, <4>2
      <4> QED
        BY <3>1, <4>1, <4>3
    <3>2. CASE ~(o < L)
      <4>1. ~\E i \in DOMAIN b : pos(i) = o
        BY <1>1, <1>8, <3>2
      <4> QED
        BY <1>4, <3>2, <4>1
    <3> QED
      BY <3>1, <3>2
  <2> QED
    BY <2>1
<1> HIDE DEF D, m
<1>10. R.used + L = L - 0
  BY <1>1, <1>4
<1>11. ring_iter(b) = [size |-> m, used |-> L - 0, head |-> 0, data |-> D]
  BY <1>2, <1>7, <1>10
<1> QED
  BY <1>9, <1>11 DEF RingFrom, L, m

\* ring_iter_next().
LEMMA RingNext ==
    ASSUME NEW b \in Seq(Nat), NEW j \in 0 .. Len(b)
    PROVE  /\ j < Len(b) => /\ ring_iter_next(RingFrom(b, j)).out = <<b[j + 1]>>
                            /\ ring_iter_next(RingFrom(b, j)).it = RingFrom(b, j + 1)
           /\ ~(j < Len(b)) => ring_iter_next(RingFrom(b, j)).out = <<>>
<1> DEFINE L == Len(b)
           m == L + 1
           D == [o \in 0 .. L |-> IF o < L THEN b[o + 1] ELSE 0]
           r == RingFrom(b, j)
<1>1. L \in Nat /\ m \in Nat \ {0}
  OBVIOUS
<1>2. r = [size |-> m, used |-> L - j, head |-> j, data |-> D]
  BY DEF RingFrom
<1>3. r.size = m /\ r.used = L - j /\ r.head = j /\ r.data = D
  BY <1>2
<1>4. CASE j < L
  <2>1. r.used > 0 /\ ~(1 > r.used) /\ 1 \in 1 .. r.used
    BY <1>1, <1>3, <1>4
  <2>2. Offset(r, 0) = j /\ Offset(r, 1) = j + 1
    <3>1. j + 0 \in 0 .. m - 1 /\ j + 1 \in 0 .. m - 1 /\ j + 0 = j
      BY <1>1, <1>4
    <3> HIDE DEF m
    <3>2. (j + 0) % m = j /\ (j + 1) % m = j + 1
      BY <1>1, <3>1, ModFacts
    <3> QED
      BY <1>3, <3>2 DEF Offset
  <2>3. ring_peek(r)[1] = b[j + 1]
    <3>1. ring_peek(r)[1] = r.data[Offset(r, 1 - 1)]
      BY <2>1 DEF ring_peek
    <3>2. 1 - 1 = 0 /\ j \in 0 .. L
      OBVIOUS
    <3>3. D[j] = b[j + 1]
      BY <1>4, <3>2
    <3> QED
      BY <1>3, <2>2, <3>1, <3>2, <3>3
  <2>4. ring_pop(r, 1) = RingFrom(b, j + 1)
    <3>1. ring_pop(r, 1) = [r EXCEPT !.head = Offset(r, 1), !.used = r.used - 1]
      BY <2>1 DEF ring_pop
    <3>2. r.used - 1 = L - (j + 1)
      BY <1>1, <1>3
    <3>3. ring_pop(r, 1) = [r EXCEPT !.head = j + 1, !.used = L - (j + 1)]
      BY <2>2, <3>1, <3>2
    <3> HIDE DEF D, m, r
    <3>4. ring_pop(r, 1) = [size |-> m, used |-> L - (j + 1), head |-> j + 1, data |-> D]
      BY <1>2, <3>3
    <3> QED
      BY <3>4 DEF RingFrom, D, m
  <2>5. ring_iter_next(r) = [it |-> ring_pop(r, 1), out |-> <<ring_peek(r)[1]>>]
    BY <2>1 DEF ring_iter_next
  <2> HIDE DEF r
  <2> QED
    BY <1>4, <2>3, <2>4, <2>5 DEF r
<1>5. CASE ~(j < L)
  <2>1. ~(r.used > 0)
    BY <1>1, <1>3, <1>5
  <2>2. ring_iter_next(r) = [it |-> r, out |-> <<>>]
    BY <2>1 DEF ring_iter_next
  <2> HIDE DEF r
  <2> QED
    BY <1>5, <2>2 DEF r
<1> QED
  BY <1>4, <1>5

\* The next element of the first iterator.
NextOf(it) == IF it.kind = "array" THEN array_iter_next(it) ELSE list_iter_next(it)

\* array_iter_next(), list_iter_next().
LEMMA FirstNext ==
    ASSUME NEW a \in Seq(Nat), NEW n \in 0 .. Len(a), NEW it, FirstFrom(it, a, n)
    PROVE  /\ n < Len(a) => NextOf(it).out = <<a[n + 1]>> /\ FirstFrom(NextOf(it).it, a, n + 1)
           /\ ~(n < Len(a)) => NextOf(it).out = <<>>
<1>1. Len(a) \in Nat
  OBVIOUS
<1>2. CASE it = [kind |-> "array", elements |-> a, index |-> n]
  <2>1. it.kind = "array" /\ it.elements = a /\ it.index = n
    BY <1>2
  <2>2. NextOf(it) = array_iter_next(it)
    BY <2>1 DEF NextOf
  <2>3. CASE n < Len(a)
    <3>1. array_iter_next(it) = [it |-> [it EXCEPT !.index = n + 1], out |-> <<a[n + 1]>>]
      BY <2>1, <2>3 DEF array_iter_next
    <3>2. [it EXCEPT !.index = n + 1] = [kind |-> "array", elements |-> a, index |-> n + 1]
      BY <1>2
    <3> QED
      BY <2>2, <2>3, <3>1, <3>2 DEF FirstFrom
  <2>4. CASE ~(n < Len(a))
    <3>1. array_iter_next(it) = [it |-> it, out |-> <<>>]
      BY <2>1, <2>4 DEF array_iter_next
    <3> QED
      BY <2>2, <2>4, <3>1
  <2> QED
    BY <2>3, <2>4
<1>3. CASE it = [kind |-> "list", elements |-> a, current |-> n]
  <2>1. it.kind = "list" /\ it.elements = a /\ it.current = n
    BY <1>3
  <2>2. NextOf(it) = list_iter_next(it)
    BY <2>1 DEF NextOf
  <2> DEFINE m == Len(a) + 1
             next == (n + 1) % m
  <2>3. list_iter_next(it) = IF next = 0 THEN [it |-> it, out |-> <<>>]
                             ELSE [it |-> [it EXCEPT !.current = next], out |-> <<a[next]>>]
    BY <2>1 DEF list_iter_next
  <2>4. m \in Nat \ {0} /\ (n < Len(a) => n + 1 \in 0 .. m - 1) /\ (~(n < Len(a)) => n + 1 = m)
    BY <1>1
  <2>5. (n < Len(a) => next = n + 1) /\ (~(n < Len(a)) => next = 0)
    <3> HIDE DEF m
    <3> QED
      BY <2>4, ModFacts
  <2> HIDE DEF next
  <2>6. CASE n < Len(a)
    <3>1. list_iter_next(it) = [it |-> [it EXCEPT !.current = n + 1], out |-> <<a[n + 1]>>]
      <4>1. next = n + 1 /\ next # 0
        BY <2>5, <2>6
      <4> QED
        BY <2>3, <4>1
    <3>2. [it EXCEPT !.current = n + 1] = [kind |-> "list", elements |-> a, current |-> n + 1]
      BY <1>3
    <3> QED
      BY <2>2, <2>6, <3>1, <3>2 DEF FirstFrom
  <2>7. CASE ~(n < Len(a))
    <3>1. list_iter_next(it) = [it |-> it, out |-> <<>>]
      BY <2>3, <2>5, <2>7
    <3> QED
      BY <2>2, <2>7, <3>1
  <2> QED
    BY <2>6, <2>7
<1> QED
  BY <1>2, <1>3 DEF FirstFrom

\* chain_iter_next(): the elements of a, and then those of b.
LEMMA ChainNext ==
    ASSUME NEW a \in Seq(Nat), NEW b \in Seq(Nat), NEW n \in Nat, ChainAt(chain, a, b, n)
    PROVE  /\ n <= Len(a \o b)
           /\ n < Len(a \o b) => /\ chain_iter_next.out = <<(a \o b)[n + 1]>>
                                 /\ ChainAt(chain_iter_next.chain, a, b, n + 1)
           /\ ~(n < Len(a \o b)) => chain_iter_next.out = <<>>
<1> DEFINE x == NextOf(chain.first[1])
           y == ring_iter_next(chain.second[1])
           A == chain.first # <<>> /\ x.out # <<>>
           B == chain.second # <<>> /\ y.out # <<>>
           next == chain_iter_next
<1>1. next = IF A THEN [chain |-> [chain EXCEPT !.first = <<x.it>>], out |-> x.out]
             ELSE IF B
             THEN [chain |-> [first |-> <<>>, second |-> <<y.it>>], out |-> y.out]
             ELSE [chain |-> [first |-> <<>>, second |-> <<>>], out |-> <<>>]
  BY DEF chain_iter_next, NextOf
<1>2. /\ a \o b \in Seq(Nat) /\ Len(a \o b) = Len(a) + Len(b)
      /\ Len(a) \in Nat /\ Len(b) \in Nat
      /\ \A i \in 1 .. Len(a) : (a \o b)[i] = a[i]
      /\ \A i \in 1 .. Len(b) : (a \o b)[Len(a) + i] = b[i]
  BY ConcatFacts
<1>3. chain = [first |-> chain.first, second |-> chain.second]
  BY DEF ChainAt
<1> HIDE DEF x, y, next
<1>4. CASE /\ n \in 0 .. Len(a)
           /\ Len(chain.first) = 1 /\ FirstFrom(chain.first[1], a, n)
           /\ chain.first # <<>> /\ chain.second = <<RingFrom(b, 0)>>
  <2>1. /\ n < Len(a) => x.out = <<a[n + 1]>> /\ FirstFrom(x.it, a, n + 1)
        /\ ~(n < Len(a)) => x.out = <<>>
    BY <1>4, FirstNext, SMTT(30) DEF x
  <2>2. /\ 0 < Len(b) => y.out = <<b[0 + 1]>> /\ y.it = RingFrom(b, 0 + 1)
        /\ ~(0 < Len(b)) => y.out = <<>>
    <3>1. 0 \in 0 .. Len(b) /\ chain.second[1] = RingFrom(b, 0)
      BY <1>2, <1>4
    <3> QED
      BY <3>1, RingNext DEF y
  <2>3. CASE n < Len(a)
    <3>0. <<a[n + 1]>> # <<>>
      OBVIOUS
    <3>1. A
      BY <1>4, <2>1, <2>3, <3>0
    <3>2. next.out = x.out /\ next.chain = [chain EXCEPT !.first = <<x.it>>]
      BY <1>1, <3>1
    <3>3. next.chain = [first |-> <<x.it>>, second |-> chain.second]
      BY <1>3, <3>2
    <3>4. /\ next.chain.first = <<x.it>> /\ next.chain.second = <<RingFrom(b, 0)>>
          /\ DOMAIN next.chain = {"first", "second"}
          /\ next.chain = [first |-> next.chain.first, second |-> next.chain.second]
      BY <1>4, <3>3
    <3>5. Len(<<x.it>>) = 1 /\ <<x.it>>[1] = x.it /\ <<x.it>> # <<>>
      OBVIOUS
    <3>6. n + 1 \in 0 .. Len(a) /\ n + 1 \in 1 .. Len(a) /\ n < Len(a \o b) /\ n <= Len(a \o b)
      BY <1>2, <2>3
    <3>7. ChainAt(next.chain, a, b, n + 1)
      BY <2>1, <2>3, <3>4, <3>5, <3>6 DEF ChainAt
    <3>8. next.out = <<(a \o b)[n + 1]>>
      BY <1>2, <2>1, <2>3, <3>2, <3>6
    <3> QED
      BY <3>6, <3>7, <3>8 DEF next
  <2>4. CASE ~(n < Len(a)) /\ 0 < Len(b)
    <3>0. <<b[0 + 1]>> # <<>> /\ <<RingFrom(b, 0)>> # <<>>
      OBVIOUS
    <3>1. ~A /\ B
      BY <1>4, <2>1, <2>2, <2>4, <3>0
    <3>2. next.out = y.out /\ next.chain = [first |-> <<>>, second |-> <<y.it>>]
      BY <1>1, <3>1
    <3>3. /\ next.chain.first = <<>> /\ next.chain.second = <<y.it>>
          /\ DOMAIN next.chain = {"first", "second"}
          /\ next.chain = [first |-> next.chain.first, second |-> next.chain.second]
      BY <3>2
    <3>4. n = Len(a) /\ n + 1 \in Len(a) .. Len(a) + Len(b) /\ (n + 1) - Len(a) = 0 + 1
          /\ 0 + 1 \in 1 .. Len(b) /\ n + 1 = Len(a) + (0 + 1)
          /\ n < Len(a \o b) /\ n <= Len(a \o b)
      BY <1>2, <1>4, <2>4
    <3>5. y.it = RingFrom(b, (n + 1) - Len(a))
      BY <2>2, <2>4, <3>4
    <3>6. ChainAt(next.chain, a, b, n + 1)
      BY <3>3, <3>4, <3>5 DEF ChainAt
    <3>7. next.out = <<(a \o b)[n + 1]>>
      BY <1>2, <2>2, <2>4, <3>2, <3>4
    <3> QED
      BY <3>4, <3>6, <3>7 DEF next
  <2>5. CASE ~(n < Len(a)) /\ ~(0 < Len(b))
    <3>1. ~A /\ ~B
      BY <2>1, <2>2, <2>5
    <3>2. next.out = <<>>
      BY <1>1, <3>1
    <3>3. n = Len(a \o b)
      BY <1>2, <1>4, <2>5
    <3> QED
      BY <1>2, <3>2, <3>3 DEF next
  <2> QED
    BY <2>3, <2>4, <2>5
<1>5. CASE /\ n \in Len(a) .. Len(a) + Len(b)
           /\ chain.first = <<>> /\ chain.second = <<RingFrom(b, n - Len(a))>>
  <2> DEFINE j == n - Len(a)
  <2>1. j \in 0 .. Len(b) /\ chain.second[1] = RingFrom(b, j)
    BY <1>2, <1>5
  <2>2. (j < Len(b)) = (n < Len(a \o b)) /\ n <= Len(a \o b) /\ (n + 1) - Len(a) = j + 1
        /\ n + 1 = Len(a) + (j + 1) /\ (j < Len(b) => j + 1 \in 1 .. Len(b))
        /\ (j < Len(b) => n + 1 \in Len(a) .. Len(a) + Len(b))
    BY <1>2, <1>5
  <2> HIDE DEF j
  <2>3. /\ j < Len(b) => y.out = <<b[j + 1]>> /\ y.it = RingFrom(b, j + 1)
        /\ ~(j < Len(b)) => y.out = <<>>
    BY <2>1, RingNext DEF y
  <2>4. CASE j < Len(b)
    <3>0. <<b[j + 1]>> # <<>> /\ <<RingFrom(b, n - Len(a))>> # <<>>
      OBVIOUS
    <3>1. ~A /\ B
      BY <1>5, <2>3, <2>4, <3>0
    <3>2. next.out = y.out /\ next.chain = [first |-> <<>>, second |-> <<y.it>>]
      BY <1>1, <3>1
    <3>3. /\ next.chain.first = <<>> /\ next.chain.second = <<y.it>>
          /\ DOMAIN next.chain = {"first", "second"}
          /\ next.chain = [first |-> next.chain.first, second |-> next.chain.second]
      BY <3>2
    <3>4. y.it = RingFrom(b, (n + 1) - Len(a))
      BY <2>2, <2>3, <2>4
    <3>5. ChainAt(next.chain, a, b, n + 1)
      BY <2>2, <2>4, <3>3, <3>4 DEF ChainAt
    <3>6. next.out = <<(a \o b)[n + 1]>>
      BY <1>2, <2>2, <2>3, <2>4, <3>2
    <3> QED
      BY <2>2, <2>4, <3>5, <3>6 DEF next
  <2>5. CASE ~(j < Len(b))
    <3>1. ~A /\ ~B
      BY <1>5, <2>3, <2>5
    <3>2. next.out = <<>>
      BY <1>1, <3>1
    <3> QED
      BY <2>2, <2>5, <3>2 DEF next
  <2> QED
    BY <2>4, <2>5
<1> QED
  BY <1>4, <1>5 DEF ChainAt

-----------------------------------------------------------------------------
(* Counting.                                                               *)

\* The places of x are finitely many.
LEMMA CountFinite ==
    ASSUME NEW n \in Nat, NEW T, T \subseteq 1 .. n
    PROVE  IsFiniteSet(T) /\ Cardinality(T) \in Nat
<1>1. IsFiniteSet(1 .. n)
  BY FS_Interval
<1>2. IsFiniteSet(T)
  BY <1>1, FS_Subset
<1> QED
  BY <1>2, FS_CardinalityType

\* A pair more at the end of a list of pairs.
LEMMA CountAppend ==
    ASSUME NEW S, NEW s \in Seq(S), NEW e \in S, NEW k, NEW x
    PROVE  /\ CountAt(s, k, x) \in Nat
           /\ CountAt(Append(s, e), k, x) =
                  IF e[k] = x THEN CountAt(s, k, x) + 1 ELSE CountAt(s, k, x)
<1> DEFINE n == Len(s)
           t == Append(s, e)
           A == {i \in 1 .. n : s[i][k] = x}
           B == {i \in 1 .. n + 1 : t[i][k] = x}
<1>1. /\ n \in Nat /\ Len(t) = n + 1 /\ t[n + 1] = e
      /\ \A i \in 1 .. n : t[i] = s[i]
      /\ DOMAIN s = 1 .. n /\ DOMAIN t = 1 .. n + 1
  BY AppendSeq
<1>2. CountAt(s, k, x) = Cardinality(A) /\ CountAt(t, k, x) = Cardinality(B)
  BY <1>1 DEF CountAt
<1> HIDE DEF t, n
<1>3. B = IF e[k] = x THEN A \cup {n + 1} ELSE A
  <2>1. \A i : i \in 1 .. n + 1 <=> (i \in 1 .. n \/ i = n + 1)
    BY <1>1
  <2> QED
    BY <1>1, <2>1
<1>4. n + 1 \notin A /\ A \subseteq 1 .. n
  BY <1>1
<1>5. IsFiniteSet(A) /\ Cardinality(A) \in Nat
  BY <1>1, <1>4, CountFinite
<1> HIDE DEF A, B
<1>6. Cardinality(A \cup {n + 1}) = Cardinality(A) + 1
  BY <1>4, <1>5, FS_AddElement
<1> QED
  BY <1>2, <1>3, <1>5, <1>6 DEF t

\* An element more of the elements taken.
LEMMA CountTaken ==
    ASSUME NEW n \in Nat, NEW s, NEW x
    PROVE  /\ TimesIn(s, n, x) \in Nat
           /\ TimesIn(s, n + 1, x) =
                  IF s[n + 1] = x THEN TimesIn(s, n, x) + 1 ELSE TimesIn(s, n, x)
<1> DEFINE A == {i \in 1 .. n : s[i] = x}
           B == {i \in 1 .. n + 1 : s[i] = x}
<1>1. B = IF s[n + 1] = x THEN A \cup {n + 1} ELSE A
  <2>1. \A i : i \in 1 .. n + 1 <=> (i \in 1 .. n \/ i = n + 1)
    OBVIOUS
  <2> QED
    BY <2>1
<1>2. n + 1 \notin A /\ A \subseteq 1 .. n
  OBVIOUS
<1>3. IsFiniteSet(A) /\ Cardinality(A) \in Nat
  BY <1>2, CountFinite
<1> HIDE DEF A, B
<1>4. Cardinality(A \cup {n + 1}) = Cardinality(A) + 1
  BY <1>2, <1>3, FS_AddElement
<1> QED
  BY <1>1, <1>3, <1>4 DEF A, B, TimesIn

\* A member more or less of a finite set.
LEMMA OneMore ==
    ASSUME NEW T, IsFiniteSet(T), NEW c
    PROVE  /\ Cardinality(T) \in Nat
           /\ c \notin T => Cardinality(T \cup {c}) = Cardinality(T) + 1
           /\ c \in T => Cardinality(T \ {c}) + 1 = Cardinality(T)
                         /\ Cardinality(T \ {c}) \in Nat
<1>1. Cardinality(T) \in Nat
  BY FS_CardinalityType
<1>2. c \notin T => Cardinality(T \cup {c}) = Cardinality(T) + 1
  BY FS_AddElement
<1>3. IsFiniteSet(T \ {c}) /\ (c \in T => Cardinality(T \ {c}) = Cardinality(T) - 1)
  BY FS_RemoveElement
<1>4. Cardinality(T \ {c}) \in Nat
  BY <1>3, FS_CardinalityType
<1> QED
  BY <1>1, <1>2, <1>3, <1>4

-----------------------------------------------------------------------------
(* The steps of the chunks.                                                *)

\* The parts of the invariant that every step needs.
LEMMA ChunkParts ==
    ASSUME ChunkInv
    PROVE  /\ chunk \in Nat \ {0}
           /\ chunks \in Seq(ChunkIterator) /\ Len(chunks) \in Nat /\ DOMAIN chunks = 1 .. Len(chunks)
           /\ \A c \in 1 .. Len(chunks) :
                  /\ chunks[c].first \in Nat /\ chunks[c].count \in Nat
                  /\ chunks[c].once \in BOOLEAN /\ chunks[c] \in ChunkIterator
           /\ given \in Seq((1 .. Len(chunks)) \X Nat) /\ Len(given) \in Nat
           /\ IsFiniteSet(Waiting) /\ Cardinality(Waiting) \in Nat /\ Position \in Nat
           /\ \A x : IsFiniteSet(WaitingFor(x))
<1>1. /\ chunk \in Nat \ {0} /\ chunks \in Seq(ChunkIterator)
      /\ given \in Seq((1 .. Len(chunks)) \X Nat)
  BY DEF ChunkInv
<1>2. Len(chunks) \in Nat /\ DOMAIN chunks = 1 .. Len(chunks) /\ Len(given) \in Nat
      /\ \A c \in 1 .. Len(chunks) : chunks[c] \in ChunkIterator
  BY <1>1
<1>3. \A c \in 1 .. Len(chunks) : /\ chunks[c].first \in Nat /\ chunks[c].count \in Nat
                                  /\ chunks[c].once \in BOOLEAN
  BY <1>2 DEF ChunkIterator
<1>4. Waiting \subseteq 1 .. Len(chunks)
  BY <1>2 DEF Waiting
<1>5. IsFiniteSet(Waiting) /\ Cardinality(Waiting) \in Nat
  BY <1>2, <1>4, CountFinite
<1>6. \A x : IsFiniteSet(WaitingFor(x))
  <2> SUFFICES ASSUME NEW x PROVE IsFiniteSet(WaitingFor(x))
    OBVIOUS
  <2>1. WaitingFor(x) \subseteq 1 .. Len(chunks)
    BY <1>4 DEF WaitingFor
  <2> QED
    BY <1>2, <2>1, CountFinite
<1>7. Position \in Nat
  BY <1>2, <1>5 DEF Position
<1> QED
  BY <1>1, <1>2, <1>3, <1>5, <1>6, <1>7

\* What chain_iter_next() returns is the next element of the input.
LEMMA InputNext ==
    ASSUME ChunkInv
    PROVE  /\ input \in Seq(Nat) /\ Position <= Len(input)
           /\ chain_iter_next.out # <<>> =>
                  /\ chain_iter_next.out[1] = input[Position + 1]
                  /\ input[Position + 1] \in Nat
                  /\ \E a, b \in Seq(Nat) : /\ input = a \o b
                                            /\ ChainAt(chain_iter_next.chain, a, b, Position + 1)
<1>1. PICK a \in Seq(Nat), b \in Seq(Nat) : input = a \o b /\ ChainAt(chain, a, b, Position)
  BY DEF ChunkInv
<1>2. Position \in Nat
  BY ChunkParts
<1>3. input \in Seq(Nat) /\ Len(input) \in Nat
  BY <1>1, ConcatFacts
<1> DEFINE n == Position
<1> HIDE DEF n
<1>4. /\ n <= Len(a \o b)
      /\ n < Len(a \o b) => /\ chain_iter_next.out = <<(a \o b)[n + 1]>>
                            /\ ChainAt(chain_iter_next.chain, a, b, n + 1)
      /\ ~(n < Len(a \o b)) => chain_iter_next.out = <<>>
  BY <1>1, <1>2, ChainNext DEF n
<1>5. ASSUME chain_iter_next.out # <<>>
      PROVE  /\ chain_iter_next.out[1] = input[n + 1] /\ input[n + 1] \in Nat
             /\ ChainAt(chain_iter_next.chain, a, b, n + 1)
  <2>1. n < Len(input)
    BY <1>1, <1>4, <1>5
  <2>2. n + 1 \in 1 .. Len(input)
    BY <1>2, <1>3, <2>1 DEF n
  <2>3. input[n + 1] \in Nat
    BY <1>3, <2>2
  <2>4. chain_iter_next.out = <<input[n + 1]>>
    BY <1>1, <1>4, <2>1
  <2>5. n < Len(a \o b)
    BY <1>1, <2>1
  <2>6. ChainAt(chain_iter_next.chain, a, b, n + 1)
    BY <1>4, <2>5
  <2> DEFINE z == input[n + 1]
  <2>7. chain_iter_next.out = <<z>>
    BY <2>4
  <2> HIDE DEF z
  <2>8. <<z>>[1] = z
    OBVIOUS
  <2>9. chain_iter_next.out[1] = z
    BY <2>7, <2>8
  <2> QED
    BY <2>3, <2>6, <2>9 DEF z
<1> QED
  BY <1>1, <1>3, <1>4, <1>5 DEF n

\* A list of members of S is one of members of a larger set.
LEMMA SeqLarger ==
    ASSUME NEW S, NEW T, S \subseteq T, NEW s \in Seq(S)
    PROVE  s \in Seq(T)
<1>1. s \in [1 .. Len(s) -> T] /\ Len(s) \in Nat
  OBVIOUS
<1> QED
  BY <1>1, SeqIntro

\* A chunk_iterator.
LEMMA ChunkMade ==
    ASSUME NEW f \in Nat, NEW l \in Nat, NEW o \in BOOLEAN
    PROVE  LET k == [first |-> f, count |-> l, once |-> o]
           IN k \in ChunkIterator /\ k.first = f /\ k.count = l /\ k.once = o
BY DEF ChunkIterator

\* A field of a chunk_iterator is set.
LEMMA ChunkExcept ==
    ASSUME NEW k \in ChunkIterator, NEW v
    PROVE  /\ [k EXCEPT !.once = v] = [first |-> k.first, count |-> k.count, once |-> v]
           /\ [k EXCEPT !.count = v] = [first |-> k.first, count |-> v, once |-> k.once]
<1>1. k = [first |-> k.first, count |-> k.count, once |-> k.once]
  BY DEF ChunkIterator
<1> DEFINE f == k.first
           l == k.count
           o == k.once
<1> HIDE DEF f, l, o
<1>2. k = [first |-> f, count |-> l, once |-> o]
  BY <1>1 DEF f, l, o
<1>3. [k EXCEPT !.once = v] = [first |-> f, count |-> l, once |-> v]
  BY <1>2
<1>4. [k EXCEPT !.count = v] = [first |-> f, count |-> v, once |-> o]
  BY <1>2
<1> QED
  BY <1>3, <1>4 DEF f, l, o

\* chunkify_iter_next().
LEMMA ChunkifyStep ==
    ASSUME ChunkInv, ChunkifyNext
    PROVE  ChunkInv'
<1> DEFINE n == Len(chunks)
           m == n + 1
           e == chain_iter_next.out[1]
           k == [first |-> e, count |-> chunk - 1, once |-> FALSE]
<1>1. /\ chunk \in Nat \ {0}
      /\ chunks \in Seq(ChunkIterator) /\ n \in Nat /\ DOMAIN chunks = 1 .. n
  BY ChunkParts
<1>2. given \in Seq((1 .. n) \X Nat) /\ Len(given) \in Nat
  BY ChunkParts
<1>3. IsFiniteSet(Waiting) /\ Cardinality(Waiting) \in Nat /\ Position \in Nat
      /\ \A x : IsFiniteSet(WaitingFor(x))
  BY ChunkParts
<1>4. chain_iter_next.out # <<>>
  BY DEF ChunkifyNext
<1>5. /\ e = input[Position + 1] /\ e \in Nat
      /\ \E a, b \in Seq(Nat) : /\ input = a \o b
                                /\ ChainAt(chain_iter_next.chain, a, b, Position + 1)
  BY <1>4, InputNext
<1>6. /\ chunks' = Append(chunks, k) /\ chain' = chain_iter_next.chain
      /\ input' = input /\ chunk' = chunk /\ given' = given
  BY DEF ChunkifyNext, chunk_new
<1> HIDE DEF e
<1>7. k \in ChunkIterator /\ k.first = e /\ k.count = chunk - 1 /\ k.once = FALSE
  <2>1. chunk - 1 \in Nat
    BY <1>1
  <2>2. e \in Nat
    BY <1>5
  <2> QED
    BY <2>1, <2>2, ChunkMade
<1> HIDE DEF k
<1>8. /\ chunks' \in Seq(ChunkIterator) /\ Len(chunks') = m /\ chunks'[m] = k
      /\ \A c \in 1 .. n : chunks'[c] = chunks[c]
      /\ DOMAIN chunks' = 1 .. m
  BY <1>1, <1>6, <1>7, AppendSeq
<1>9. \A c : c \in 1 .. m <=> (c \in 1 .. n \/ c = m)
  BY <1>1
<1>91. m \notin 1 .. n
  BY <1>1
<1>92. \A c \in Waiting : c \in 1 .. n
  BY <1>1 DEF Waiting
<1> HIDE DEF n, m
<1>10. Waiting' = Waiting \cup {m} /\ m \notin Waiting
  <2>1. Waiting' = {c \in 1 .. m : ~chunks'[c].once}
    BY <1>8 DEF Waiting
  <2>2. Waiting = {c \in 1 .. n : ~chunks[c].once}
    BY <1>1 DEF Waiting
  <2>3. ~chunks'[m].once
    BY <1>7, <1>8
  <2>4. \A c \in 1 .. n : chunks'[c].once = chunks[c].once
    BY <1>8
  <2> QED
    BY <1>9, <1>91, <2>1, <2>2, <2>3, <2>4
<1>11. ASSUME NEW x
       PROVE  WaitingFor(x)' = IF e = x THEN WaitingFor(x) \cup {m} ELSE WaitingFor(x)
  <2>1. WaitingFor(x)' = {c \in Waiting' : chunks'[c].first = x}
    BY DEF WaitingFor
  <2>2. chunks'[m].first = e
    BY <1>7, <1>8
  <2>3. \A c \in Waiting : chunks'[c].first = chunks[c].first
    BY <1>8, <1>92
  <2> QED
    BY <1>10, <2>1, <2>2, <2>3 DEF WaitingFor
<1>12. Position' = Position + 1
  <2>1. Cardinality(Waiting') = Cardinality(Waiting) + 1
    BY <1>3, <1>10, OneMore
  <2>2. Position' = Len(given) + Cardinality(Waiting')
    BY <1>6 DEF Position
  <2> QED
    BY <1>2, <1>3, <2>1, <2>2 DEF Position
<1>13. \E a, b \in Seq(Nat) : input' = a \o b /\ ChainAt(chain', a, b, Position')
  BY <1>5, <1>6, <1>12
<1>14. given' \in Seq((1 .. Len(chunks')) \X Nat)
  <2>1. (1 .. n) \X Nat \subseteq (1 .. m) \X Nat
    BY <1>9
  <2>2. given \in Seq((1 .. m) \X Nat)
    BY <1>2, <2>1, SeqLarger
  <2> QED
    BY <1>6, <1>8, <2>2
<1>15. ASSUME NEW x \in Nat
       PROVE  CountAt(given', 2, x) + Cardinality(WaitingFor(x)')
              = TimesIn(input', Position', x)
  <2> DEFINE P == Position
             C == TimesIn(input, P, x)
             D == TimesIn(input, P + 1, x)
             W == WaitingFor(x)
             G == CountAt(given, 2, x)
  <2>1. G + Cardinality(W) = C
    BY DEF ChunkInv
  <2> HIDE DEF P
  <2>2. C \in Nat /\ D = IF input[P + 1] = x THEN C + 1 ELSE C
    <3>1. P \in Nat
      BY <1>3 DEF P
    <3> QED
      BY <3>1, CountTaken
  <2>3. Cardinality(W) \in Nat /\ Cardinality(W \cup {m}) = Cardinality(W) + 1
    <3>1. m \notin W /\ IsFiniteSet(W)
      BY <1>3, <1>10 DEF WaitingFor
    <3> HIDE DEF W
    <3> QED
      BY <3>1, OneMore
  <2>4. G \in Nat
    <3>1. {i \in DOMAIN given : given[i][2] = x} \subseteq 1 .. Len(given)
      BY <1>2
    <3> QED
      BY <1>2, <3>1, CountFinite DEF CountAt
  <2>5. TimesIn(input', Position', x) = D
    BY <1>6, <1>12 DEF P
  <2>6. Cardinality(WaitingFor(x)') = IF e = x THEN Cardinality(W) + 1 ELSE Cardinality(W)
    BY <1>11, <2>3
  <2>7. e = input[P + 1] /\ CountAt(given', 2, x) = G
    BY <1>5, <1>6 DEF P
  <2> HIDE DEF C, D, W, G
  <2> QED
    BY <2>1, <2>2, <2>3, <2>4, <2>5, <2>6, <2>7
<1>16. ASSUME NEW c \in 1 .. m
       PROVE  /\ ~chunks'[c].once => chunks'[c].count = chunk' - 1
              /\ chunks'[c].count <= chunk' - 1
              /\ CountAt(given', 1, c) =
                     (IF chunks'[c].once THEN 1 ELSE 0) + ((chunk' - 1) - chunks'[c].count)
  <2>1. CASE c \in 1 .. n
    <3>1. chunks'[c] = chunks[c] /\ chunk' = chunk /\ given' = given
      BY <1>6, <1>8, <2>1
    <3> QED
      BY <2>1, <3>1 DEF ChunkInv, n
  <2>2. CASE c = m
    <3>1. chunks'[c].count = chunk - 1 /\ chunks'[c].once = FALSE /\ chunk' = chunk
      BY <1>6, <1>7, <1>8, <2>2
    <3>2. CountAt(given', 1, c) = 0
      <4>1. {i \in DOMAIN given : given[i][1] = c} = {}
        <5>1. \A i \in DOMAIN given : given[i][1] \in 1 .. n
          BY <1>2
        <5> QED
          BY <1>91, <2>2, <5>1
      <4> QED
        BY <1>6, <4>1, FS_EmptySet DEF CountAt
    <3> QED
      BY <1>1, <3>1, <3>2
  <2> QED
    BY <1>9, <2>1, <2>2
<1> QED
  BY <1>1, <1>6, <1>8, <1>13, <1>14, <1>15, <1>16 DEF ChunkInv

\* chunk_iter_next() of the first element.
LEMMA ChunkFirstStep ==
    ASSUME ChunkInv, NEW c \in DOMAIN chunks, ChunkFirst(c)
    PROVE  ChunkInv'
<1> DEFINE n == Len(chunks)
           e == chunks[c].first
           k == [first |-> e, count |-> chunks[c].count, once |-> TRUE]
<1>1. /\ chunk \in Nat \ {0}
      /\ chunks \in Seq(ChunkIterator) /\ n \in Nat /\ DOMAIN chunks = 1 .. n
      /\ c \in 1 .. n
  BY ChunkParts
<1>2. given \in Seq((1 .. n) \X Nat) /\ Len(given) \in Nat
  BY ChunkParts
<1>3. IsFiniteSet(Waiting) /\ Cardinality(Waiting) \in Nat /\ Position \in Nat
      /\ \A x : IsFiniteSet(WaitingFor(x))
  BY ChunkParts
<1>4. chunks[c] \in ChunkIterator /\ e \in Nat /\ chunks[c].count \in Nat
  BY <1>1, ChunkParts
<1>5. /\ chunks' = [chunks EXCEPT ![c] = [chunks[c] EXCEPT !.once = TRUE]]
      /\ given' = Append(given, <<c, e>>)
      /\ input' = input /\ chunk' = chunk /\ chain' = chain /\ ~chunks[c].once
  BY DEF ChunkFirst
<1>6. [chunks[c] EXCEPT !.once = TRUE] = k
  BY <1>4, ChunkExcept
<1>61. k \in ChunkIterator /\ k.first = e /\ k.count = chunks[c].count /\ k.once = TRUE
  BY <1>4, ChunkMade
<1>62. chunks' = [chunks EXCEPT ![c] = k]
  BY <1>5, <1>6
<1> HIDE DEF k
<1>8. /\ chunks' \in Seq(ChunkIterator) /\ Len(chunks') = n /\ chunks'[c] = k
      /\ \A d \in 1 .. n : d # c => chunks'[d] = chunks[d]
      /\ DOMAIN chunks' = 1 .. n
  BY <1>1, <1>61, <1>62, ExceptAt
<1>9. <<c, e>> \in (1 .. n) \X Nat /\ <<c, e>>[1] = c /\ <<c, e>>[2] = e
  BY <1>1, <1>4
<1> HIDE DEF n, e
<1>10. Waiting' = Waiting \ {c} /\ c \in Waiting
  <2>1. Waiting' = {d \in 1 .. n : ~chunks'[d].once}
    BY <1>8 DEF Waiting
  <2>2. Waiting = {d \in 1 .. n : ~chunks[d].once}
    BY <1>1 DEF Waiting
  <2> QED
    BY <1>1, <1>5, <1>61, <1>8, <2>1, <2>2
<1>11. ASSUME NEW x
       PROVE  WaitingFor(x)' = IF e = x THEN WaitingFor(x) \ {c} ELSE WaitingFor(x)
  <2>1. WaitingFor(x)' = {d \in Waiting' : chunks'[d].first = x}
    BY DEF WaitingFor
  <2>2. \A d \in Waiting' : d \in 1 .. n /\ d # c
    BY <1>1, <1>10 DEF Waiting
  <2>3. \A d \in Waiting' : chunks'[d].first = chunks[d].first
    BY <1>8, <2>2
  <2>4. e = chunks[c].first
    BY DEF e
  <2> QED
    BY <1>10, <2>1, <2>3, <2>4 DEF WaitingFor
<1>12. Position' = Position
  <2>1. Cardinality(Waiting') + 1 = Cardinality(Waiting) /\ Cardinality(Waiting') \in Nat
    BY <1>3, <1>10, OneMore
  <2>2. Len(given') = Len(given) + 1
    BY <1>2, <1>5, <1>9, AppendSeq
  <2>3. Position' = Len(given') + Cardinality(Waiting')
    BY DEF Position
  <2> QED
    BY <1>2, <1>3, <2>1, <2>2, <2>3 DEF Position
<1>13. \E a, b \in Seq(Nat) : input' = a \o b /\ ChainAt(chain', a, b, Position')
  BY <1>5, <1>12 DEF ChunkInv
<1>14. given' \in Seq((1 .. Len(chunks')) \X Nat)
  BY <1>2, <1>5, <1>8, <1>9, AppendSeq
<1>15. ASSUME NEW x \in Nat
       PROVE  CountAt(given', 2, x) + Cardinality(WaitingFor(x)')
              = TimesIn(input', Position', x)
  <2> DEFINE C == TimesIn(input, Position, x)
             W == WaitingFor(x)
             G == CountAt(given, 2, x)
  <2>1. G + Cardinality(W) = C
    BY DEF ChunkInv
  <2>2. G \in Nat /\ CountAt(given', 2, x) = IF e = x THEN G + 1 ELSE G
    BY <1>2, <1>5, <1>9, CountAppend
  <2>3. /\ Cardinality(W) \in Nat
        /\ e = x => Cardinality(W \ {c}) + 1 = Cardinality(W) /\ Cardinality(W \ {c}) \in Nat
    <3>1. (e = x => c \in W) /\ IsFiniteSet(W)
      BY <1>3, <1>10 DEF WaitingFor, e
    <3> HIDE DEF W
    <3> QED
      BY <3>1, OneMore
  <2>4. TimesIn(input', Position', x) = C
    BY <1>5, <1>12
  <2>5. WaitingFor(x)' = IF e = x THEN W \ {c} ELSE W
    BY <1>11
  <2> HIDE DEF C, W, G
  <2>6. CASE e = x
    BY <2>1, <2>2, <2>3, <2>4, <2>5, <2>6
  <2>7. CASE e # x
    BY <2>1, <2>2, <2>3, <2>4, <2>5, <2>7
  <2> QED
    BY <2>6, <2>7
<1>16. ASSUME NEW d \in 1 .. n
       PROVE  /\ ~chunks'[d].once => chunks'[d].count = chunk' - 1
              /\ chunks'[d].count <= chunk' - 1
              /\ CountAt(given', 1, d) =
                     (IF chunks'[d].once THEN 1 ELSE 0) + ((chunk' - 1) - chunks'[d].count)
  <2> DEFINE G == CountAt(given, 1, d)
  <2>1. /\ ~chunks[d].once => chunks[d].count = chunk - 1
        /\ chunks[d].count <= chunk - 1
        /\ G = (IF chunks[d].once THEN 1 ELSE 0) + ((chunk - 1) - chunks[d].count)
    BY DEF ChunkInv, n
  <2>2. G \in Nat /\ CountAt(given', 1, d) = IF c = d THEN G + 1 ELSE G
    BY <1>2, <1>5, <1>9, CountAppend
  <2> HIDE DEF G
  <2>3. CASE d # c
    <3>1. chunks'[d] = chunks[d] /\ chunk' = chunk
      BY <1>5, <1>8, <2>3
    <3> QED
      BY <2>1, <2>2, <2>3, <3>1
  <2>4. CASE d = c
    <3>1. chunks'[d].once = TRUE /\ chunks'[d].count = chunks[c].count /\ chunk' = chunk
      BY <1>5, <1>61, <1>8, <2>4
    <3>2. G = 0 + ((chunk - 1) - chunks[c].count) /\ chunks[c].count <= chunk - 1
      BY <1>5, <2>1, <2>4
    <3> QED
      BY <1>1, <1>4, <2>2, <2>4, <3>1, <3>2
  <2> QED
    BY <2>3, <2>4
<1> QED
  BY <1>1, <1>5, <1>8, <1>13, <1>14, <1>15, <1>16 DEF ChunkInv

\* chunk_iter_next() of a later element.
LEMMA ChunkNextStep ==
    ASSUME ChunkInv, NEW c \in DOMAIN chunks, ChunkNext(c)
    PROVE  ChunkInv'
<1> DEFINE n == Len(chunks)
           e == chain_iter_next.out[1]
           l == chunks[c].count - 1
           k == [first |-> chunks[c].first, count |-> l, once |-> chunks[c].once]
<1>1. /\ chunk \in Nat \ {0}
      /\ chunks \in Seq(ChunkIterator) /\ n \in Nat /\ DOMAIN chunks = 1 .. n
      /\ c \in 1 .. n
  BY ChunkParts
<1>2. given \in Seq((1 .. n) \X Nat) /\ Len(given) \in Nat
  BY ChunkParts
<1>3. IsFiniteSet(Waiting) /\ Cardinality(Waiting) \in Nat /\ Position \in Nat
      /\ \A x : IsFiniteSet(WaitingFor(x))
  BY ChunkParts
<1>4. /\ chunks[c] \in ChunkIterator /\ chunks[c].first \in Nat /\ chunks[c].count \in Nat
      /\ chunks[c].once \in BOOLEAN
  BY <1>1, ChunkParts
<1>5. chunks[c].once /\ chunks[c].count > 0 /\ chain_iter_next.out # <<>>
  BY DEF ChunkNext
<1>6. /\ e = input[Position + 1] /\ e \in Nat
      /\ \E a, b \in Seq(Nat) : /\ input = a \o b
                                /\ ChainAt(chain_iter_next.chain, a, b, Position + 1)
  BY <1>5, InputNext
<1>7. /\ chunks' = [chunks EXCEPT ![c] = [chunks[c] EXCEPT !.count = l]]
      /\ given' = Append(given, <<c, e>>) /\ chain' = chain_iter_next.chain
      /\ input' = input /\ chunk' = chunk
  BY DEF ChunkNext
<1> HIDE DEF e
<1>71. l \in Nat /\ l + 1 = chunks[c].count
  BY <1>4, <1>5
<1> HIDE DEF l
<1>72. [chunks[c] EXCEPT !.count = l] = k
  BY <1>4, ChunkExcept
<1>73. /\ k \in ChunkIterator /\ k.first = chunks[c].first /\ k.count = l
       /\ k.once = chunks[c].once
  BY <1>4, <1>71, ChunkMade
<1>74. chunks' = [chunks EXCEPT ![c] = k]
  BY <1>7, <1>72
<1> HIDE DEF k
<1>8. /\ chunks' \in Seq(ChunkIterator) /\ Len(chunks') = n /\ chunks'[c] = k
      /\ \A d \in 1 .. n : d # c => chunks'[d] = chunks[d]
      /\ DOMAIN chunks' = 1 .. n
  BY <1>1, <1>73, <1>74, ExceptAt
<1>9. <<c, e>> \in (1 .. n) \X Nat /\ <<c, e>>[1] = c /\ <<c, e>>[2] = e
  BY <1>1, <1>6
<1>91. \A d \in 1 .. n : /\ chunks'[d].once = chunks[d].once
                         /\ chunks'[d].first = chunks[d].first
  BY <1>73, <1>8
<1> HIDE DEF n
<1>10. Waiting' = Waiting
  <2>1. Waiting' = {d \in 1 .. n : ~chunks'[d].once}
    BY <1>8 DEF Waiting
  <2>2. Waiting = {d \in 1 .. n : ~chunks[d].once}
    BY <1>1 DEF Waiting
  <2> QED
    BY <1>91, <2>1, <2>2
<1>11. ASSUME NEW x
       PROVE  WaitingFor(x)' = WaitingFor(x)
  <2>1. WaitingFor(x)' = {d \in Waiting' : chunks'[d].first = x}
    BY DEF WaitingFor
  <2>2. \A d \in Waiting : d \in 1 .. n
    BY <1>1 DEF Waiting
  <2> QED
    BY <1>10, <1>91, <2>1, <2>2 DEF WaitingFor
<1>12. Position' = Position + 1
  <2>1. Len(given') = Len(given) + 1
    BY <1>2, <1>7, <1>9, AppendSeq
  <2>2. Position' = Len(given') + Cardinality(Waiting')
    BY DEF Position
  <2> QED
    BY <1>2, <1>3, <1>10, <2>1, <2>2 DEF Position
<1>13. \E a, b \in Seq(Nat) : input' = a \o b /\ ChainAt(chain', a, b, Position')
  BY <1>6, <1>7, <1>12
<1>14. given' \in Seq((1 .. Len(chunks')) \X Nat)
  BY <1>2, <1>7, <1>8, <1>9, AppendSeq
<1>15. ASSUME NEW x \in Nat
       PROVE  CountAt(given', 2, x) + Cardinality(WaitingFor(x)')
              = TimesIn(input', Position', x)
  <2> DEFINE P == Position
             C == TimesIn(input, P, x)
             D == TimesIn(input, P + 1, x)
             W == Cardinality(WaitingFor(x))
             G == CountAt(given, 2, x)
  <2>1. G + W = C
    BY DEF ChunkInv
  <2> HIDE DEF P
  <2>2. C \in Nat /\ D = IF input[P + 1] = x THEN C + 1 ELSE C
    <3>1. P \in Nat
      BY <1>3 DEF P
    <3> QED
      BY <3>1, CountTaken
  <2>3. W \in Nat
    BY <1>3, FS_CardinalityType
  <2>4. G \in Nat /\ CountAt(given', 2, x) = IF e = x THEN G + 1 ELSE G
    BY <1>2, <1>7, <1>9, CountAppend
  <2>5. TimesIn(input', Position', x) = D
    BY <1>7, <1>12 DEF P
  <2>6. Cardinality(WaitingFor(x)') = W
    BY <1>11
  <2>7. e = input[P + 1]
    BY <1>6 DEF P
  <2> HIDE DEF C, D, W, G
  <2> QED
    BY <2>1, <2>2, <2>3, <2>4, <2>5, <2>6, <2>7
<1>16. ASSUME NEW d \in 1 .. n
       PROVE  /\ ~chunks'[d].once => chunks'[d].count = chunk' - 1
              /\ chunks'[d].count <= chunk' - 1
              /\ CountAt(given', 1, d) =
                     (IF chunks'[d].once THEN 1 ELSE 0) + ((chunk' - 1) - chunks'[d].count)
  <2> DEFINE G == CountAt(given, 1, d)
  <2>1. /\ ~chunks[d].once => chunks[d].count = chunk - 1
        /\ chunks[d].count <= chunk - 1
        /\ G = (IF chunks[d].once THEN 1 ELSE 0) + ((chunk - 1) - chunks[d].count)
    BY DEF ChunkInv, n
  <2>2. G \in Nat /\ CountAt(given', 1, d) = IF c = d THEN G + 1 ELSE G
    BY <1>2, <1>7, <1>9, CountAppend
  <2> HIDE DEF G
  <2>3. CASE d # c
    <3>1. chunks'[d] = chunks[d] /\ chunk' = chunk
      BY <1>7, <1>8, <2>3
    <3> QED
      BY <2>1, <2>2, <2>3, <3>1
  <2>4. CASE d = c
    <3>1. chunks'[d].once /\ chunks'[d].count = l /\ chunk' = chunk
      BY <1>5, <1>7, <1>73, <1>8, <1>91, <2>4
    <3>2. G = 1 + ((chunk - 1) - (l + 1)) /\ l + 1 <= chunk - 1
      BY <1>5, <1>71, <2>1, <2>4
    <3> QED
      BY <1>1, <1>71, <2>2, <2>4, <3>1, <3>2
  <2> QED
    BY <2>3, <2>4
<1> QED
  BY <1>1, <1>7, <1>8, <1>13, <1>14, <1>15, <1>16 DEF ChunkInv

\* rbh_iter_chain(), rbh_iter_chunkify().
LEMMA ChunkStart ==
    ASSUME ChunkInit
    PROVE  ChunkInv
<1>1. PICK c \in Chains : /\ input = c[1] \o c[2]
                          /\ chain = [first |-> <<IF c[3] = "array" THEN array_iter(c[1])
                                                  ELSE list_iter(c[1])>>,
                                      second |-> <<ring_iter(c[2])>>]
  BY DEF ChunkInit
<1> DEFINE a == c[1]
           b == c[2]
           f == IF c[3] = "array" THEN array_iter(a) ELSE list_iter(a)
<1>2. a \in Seq(Nat) /\ b \in Seq(Nat)
  BY ChunkAssumption
<1>3. FirstFrom(f, a, 0)
  BY DEF FirstFrom, array_iter, list_iter
<1>4. ring_iter(b) = RingFrom(b, 0)
  BY <1>2, RingIterNew
<1>5. chain = [first |-> <<f>>, second |-> <<RingFrom(b, 0)>>]
  BY <1>1, <1>4
<1>6. chunks = <<>> /\ given = <<>> /\ chunk \in ChunkSize
  BY DEF ChunkInit
<1>7. Waiting = {}
  BY <1>6 DEF Waiting
<1>8. Position = 0
  <2>1. Len(given) = 0 /\ Cardinality(Waiting) = 0
    BY <1>6, <1>7, FS_EmptySet
  <2> QED
    BY <2>1 DEF Position
<1> HIDE DEF f
<1>9. ChainAt(chain, a, b, 0)
  <2>1. /\ chain.first = <<f>> /\ chain.second = <<RingFrom(b, 0)>>
        /\ DOMAIN chain = {"first", "second"}
        /\ chain = [first |-> chain.first, second |-> chain.second]
    BY <1>5
  <2>2. Len(<<f>>) = 1 /\ <<f>>[1] = f /\ <<f>> # <<>>
    OBVIOUS
  <2>3. 0 \in 0 .. Len(a)
    BY <1>2
  <2> QED
    BY <1>3, <2>1, <2>2, <2>3 DEF ChainAt
<1>10. ASSUME NEW x \in Nat
       PROVE  CountAt(given, 2, x) + Cardinality(WaitingFor(x)) = TimesIn(input, Position, x)
  <2>1. {i \in DOMAIN given : given[i][2] = x} = {}
    BY <1>6
  <2>2. WaitingFor(x) = {}
    BY <1>7 DEF WaitingFor
  <2>3. {i \in 1 .. 0 : input[i] = x} = {}
    OBVIOUS
  <2>4. CountAt(given, 2, x) = 0
    BY <2>1, FS_EmptySet DEF CountAt
  <2>5. Cardinality(WaitingFor(x)) = 0
    BY <2>2, FS_EmptySet
  <2>6. TimesIn(input, Position, x) = 0
    BY <1>8, <2>3, FS_EmptySet DEF TimesIn
  <2> QED
    BY <2>4, <2>5, <2>6
<1>11. chunk \in Nat \ {0}
  BY <1>6, ChunkAssumption
<1>12. /\ chunks \in Seq(ChunkIterator) /\ given \in Seq((1 .. Len(chunks)) \X Nat)
       /\ 1 .. Len(chunks) = {}
  BY <1>6
<1>13. \E s, t \in Seq(Nat) : input = s \o t /\ ChainAt(chain, s, t, Position)
  BY <1>1, <1>2, <1>8, <1>9
<1> QED
  BY <1>10, <1>11, <1>12, <1>13 DEF ChunkInv

\* Every operation of the chunks.
LEMMA ChunkStep ==
    ASSUME ChunkInv, ChunksNext
    PROVE  ChunkInv'
<1>1. CASE ChunkifyNext
  BY <1>1, ChunkifyStep
<1>2. ASSUME NEW c \in DOMAIN chunks, ChunkFirst(c)
      PROVE  ChunkInv'
  BY <1>2, ChunkFirstStep
<1>3. ASSUME NEW c \in DOMAIN chunks, ChunkNext(c)
      PROVE  ChunkInv'
  BY <1>3, ChunkNextStep
<1> QED
  BY <1>1, <1>2, <1>3 DEF ChunksNext

\* The other structures leave the chunks alone.
LEMMA ChunkStutter ==
    ASSUME ChunkInv, UNCHANGED chunkVars
    PROVE  ChunkInv'
<1>1. input' = input /\ chain' = chain /\ chunk' = chunk /\ chunks' = chunks /\ given' = given
  BY DEF chunkVars
<1>2. Waiting' = Waiting
  BY <1>1 DEF Waiting
<1>3. Position' = Position
  BY <1>1, <1>2 DEF Position
<1>4. \A x : WaitingFor(x)' = WaitingFor(x)
  BY <1>1, <1>2 DEF WaitingFor
<1> QED
  BY <1>1, <1>3, <1>4 DEF ChunkInv

\* ChunksPartition in every state of the invariant.
LEMMA ChunksAreParted ==
    ASSUME ChunkInv
    PROVE  ChunksPartition
<1>1. /\ input \in Seq(Nat) /\ Position <= Len(input)
  BY InputNext
<1>2. Position \in Nat /\ chunk \in Nat \ {0}
  BY ChunkParts
<1>3. ASSUME NEW x \in Range(input)
      PROVE  Cardinality({i \in DOMAIN given : given[i][2] = x})
               + Cardinality({c \in Waiting : chunks[c].first = x})
             = Times(SubSeq(input, 1, Len(given) + Cardinality(Waiting)), x)
  <2>1. x \in Nat
    BY <1>1 DEF Range
  <2>2. CountAt(given, 2, x) + Cardinality(WaitingFor(x)) = TimesIn(input, Position, x)
    BY <2>1 DEF ChunkInv
  <2> DEFINE P == Position
             s == SubSeq(input, 1, P)
  <2> HIDE DEF P
  <2>3. P \in Nat /\ P <= Len(input) /\ Len(input) \in Nat
    BY <1>1, <1>2 DEF P
  <2>4. DOMAIN s = 1 .. P /\ \A i \in 1 .. P : s[i] = input[i]
    <3>1. Len(s) = P /\ s \in Seq(Nat)
      BY <1>1, <2>3
    <3>2. \A i \in 1 .. P : s[i] = input[i]
      BY <1>1, <2>3
    <3> QED
      BY <3>1, <3>2
  <2> HIDE DEF s
  <2>5. {i \in DOMAIN s : s[i] = x} = {i \in 1 .. P : input[i] = x}
    BY <2>4
  <2>6. Times(s, x) = TimesIn(input, P, x)
    BY <2>5 DEF Times, TimesIn
  <2>7. s = SubSeq(input, 1, Len(given) + Cardinality(Waiting))
    BY DEF s, P, Position
  <2> QED
    BY <2>2, <2>6, <2>7 DEF P, CountAt, WaitingFor
<1>4. ASSUME NEW c \in DOMAIN chunks
      PROVE  Cardinality({i \in DOMAIN given : given[i][1] = c}) <= chunk
  <2>1. c \in 1 .. Len(chunks) /\ chunks[c].count \in Nat
    BY ChunkParts
  <2>2. CountAt(given, 1, c) =
            (IF chunks[c].once THEN 1 ELSE 0) + ((chunk - 1) - chunks[c].count)
    BY <2>1 DEF ChunkInv
  <2> DEFINE w == IF chunks[c].once THEN 1 ELSE 0
  <2>3. w \in 0 .. 1
    OBVIOUS
  <2> HIDE DEF w
  <2>4. CountAt(given, 1, c) = w + ((chunk - 1) - chunks[c].count)
    BY <2>2 DEF w
  <2>5. CountAt(given, 1, c) <= chunk
    BY <1>2, <2>1, <2>3, <2>4
  <2> QED
    BY <2>5 DEF CountAt
<1> QED
  BY <1>3, <1>4 DEF ChunksPartition

-----------------------------------------------------------------------------
(* Numbers and sets of numbers.                                            *)

\* A set of natural numbers that is not empty has a least element.
LEMMA LeastNumber ==
    ASSUME NEW T \in SUBSET Nat, T # {}
    PROVE  \E x \in T : \A y \in T : x <= y
<1>1. \E R : IsWellFoundedOn(R, Nat) /\ \A x, y \in Nat : y < x => <<y, x>> \in R
  <2>1. IsWellFoundedOn(OpToRel(<, Nat), Nat)
    BY NatLessThanWellFounded
  <2>2. \A x, y \in Nat : y < x => <<y, x>> \in OpToRel(<, Nat)
    BY DEF OpToRel
  <2> QED
    BY <2>1, <2>2, Zenon
<1>2. PICK R : IsWellFoundedOn(R, Nat) /\ \A x, y \in Nat : y < x => <<y, x>> \in R
  BY <1>1
<1>3. PICK x \in T : \A y \in T : ~(<<y, x>> \in R)
  BY <1>2, WFMin
<1>4. \A y \in T : ~(y < x)
  BY <1>2, <1>3
<1> QED
  BY <1>4

\* Max picks the greatest number of a set that has a bound.
LEMMA GreatestNumber ==
    ASSUME NEW b \in Nat, NEW T \in SUBSET (0 .. b), T # {}
    PROVE  Max(T) \in T /\ \A y \in T : Max(T) >= y
<1> DEFINE U == {b - x : x \in T}
<1>1. U \in SUBSET Nat /\ U # {}
  <2>1. \A x \in T : b - x \in Nat
    OBVIOUS
  <2> QED
    BY <2>1
<1>2. PICK u \in U : \A v \in U : u <= v
  BY <1>1, LeastNumber
<1>3. PICK x \in T : u = b - x
  BY <1>2
<1>4. \A y \in T : x >= y
  <2> SUFFICES ASSUME NEW y \in T PROVE x >= y
    OBVIOUS
  <2>1. b - x <= b - y
    BY <1>2, <1>3
  <2> QED
    BY <2>1
<1> QED
  BY <1>4 DEF Max

\* An offset of a ring, which is less than twice its size away from its start.
Wrap(o) == IF o < RingSize THEN o ELSE o - RingSize

\* The modulus of such an offset.
LEMMA WrapFacts ==
    ASSUME NEW o \in 0 .. 2 * RingSize - 1
    PROVE  Wrap(o) \in 0 .. RingSize - 1 /\ o % RingSize = Wrap(o)
<1>1. RingSize \in Nat \ {0}
  BY RingSizeAssumption DEF SIZE_T
<1> QED
  BY <1>1 DEF Wrap

\* The modulus of a size_t that is small enough is the number itself.
LEMMA SizeFacts ==
    ASSUME NEW n \in 0 .. RingSize
    PROVE  n % SIZE_T = n
BY RingSizeAssumption DEF SIZE_T

-----------------------------------------------------------------------------
(* A ring with several readers.  p bytes were pushed, the n-th one being n, *)
(* and reader r has acknowledged a[r] of them.                              *)

Ring == [size : {RingSize}, used : 0 .. RingSize, head : 0 .. RingSize - 1,
         data : [0 .. RingSize - 1 -> Nat]]
Reader == [head : 0 .. RingSize - 1, starved : BOOLEAN]

\* The bytes of a ring are the last ones pushed.
Kept(ring, p) ==
    \A i \in 0 .. ring.used - 1 :
        ring.data[Wrap(ring.head + i)] = p - ring.used + i + 1

\* Where a reader of the ring is, k bytes behind the ring's head: it is
\* starved only when nothing is left for it, and it is starved when it is
\* back at the head of a full ring.
Placed(ring, reader, k) ==
    /\ k \in 0 .. ring.used
    /\ reader.head = Wrap(ring.head + k)
    /\ reader.starved => k = ring.used
    /\ k = RingSize => reader.starved

\* The inductive invariant of a ring and its readers.
RingrInv(x, p, a) ==
    /\ x \in [ring : Ring, readers : [DOMAIN a -> Reader]]
    /\ p \in Nat
    /\ a \in [DOMAIN a -> Nat] /\ DOMAIN a # {}
    /\ x.ring.used <= p
    /\ Kept(x.ring, p)
    /\ \A r \in DOMAIN a : Placed(x.ring, x.readers[r], a[r] - (p - x.ring.used))

\* The parts of the invariant, one by one.
LEMMA RingrParts ==
    ASSUME NEW x, NEW p, NEW a, RingrInv(x, p, a)
    PROVE  /\ p \in Nat
           /\ x = [ring |-> x.ring, readers |-> x.readers]
           /\ x.ring \in Ring
           /\ x.ring.size = RingSize
           /\ x.ring.used \in 0 .. RingSize /\ x.ring.used <= p
           /\ x.ring.head \in 0 .. RingSize - 1
           /\ x.ring.data \in [0 .. RingSize - 1 -> Nat]
           /\ x.readers \in [DOMAIN a -> Reader]
           /\ DOMAIN x.readers = DOMAIN a
           /\ \A r \in DOMAIN a :
                  /\ a[r] \in p - x.ring.used .. p
                  /\ x.readers[r].head \in 0 .. RingSize - 1
                  /\ x.readers[r].starved \in BOOLEAN
                  /\ x.readers[r] = [head |-> x.readers[r].head,
                                     starved |-> x.readers[r].starved]
<1>1. /\ p \in Nat
      /\ x = [ring |-> x.ring, readers |-> x.readers]
      /\ x.ring \in Ring
      /\ x.readers \in [DOMAIN a -> Reader]
      /\ x.ring.used <= p
  BY DEF RingrInv
<1>2. /\ x.ring.size = RingSize
      /\ x.ring.used \in 0 .. RingSize
      /\ x.ring.head \in 0 .. RingSize - 1
      /\ x.ring.data \in [0 .. RingSize - 1 -> Nat]
  BY <1>1 DEF Ring
<1>3. DOMAIN x.readers = DOMAIN a
  BY <1>1
<1>4. ASSUME NEW r \in DOMAIN a
      PROVE  /\ a[r] \in p - x.ring.used .. p
             /\ x.readers[r].head \in 0 .. RingSize - 1
             /\ x.readers[r].starved \in BOOLEAN
             /\ x.readers[r] = [head |-> x.readers[r].head,
                                starved |-> x.readers[r].starved]
  <2>1. x.readers[r] \in Reader
    BY <1>1
  <2>2. a[r] \in Nat
    BY DEF RingrInv
  <2>3. a[r] - (p - x.ring.used) \in 0 .. x.ring.used
    BY DEF RingrInv, Placed
  <2>4. a[r] \in p - x.ring.used .. p
    BY <1>1, <1>2, <2>2, <2>3
  <2> QED
    BY <2>1, <2>4 DEF Reader
<1> QED
  BY <1>1, <1>2, <1>3, <1>4

\* Advancing from an offset that was wrapped is advancing and wrapping.
LEMMA WrapSum ==
    ASSUME NEW h \in 0 .. RingSize - 1, NEW j \in 0 .. RingSize, NEW k \in 0 .. RingSize,
           j + k <= RingSize
    PROVE  /\ Wrap(h + j) \in 0 .. RingSize - 1
           /\ Wrap(Wrap(h + j) + k) = Wrap(h + (j + k))
           /\ (h + j) % RingSize = Wrap(h + j)
           /\ (Wrap(h + j) + k) % RingSize = Wrap(h + (j + k))
<1>1. RingSize \in Nat \ {0}
  BY RingSizeAssumption DEF SIZE_T
<1>2. h + j \in 0 .. 2 * RingSize - 1
  BY <1>1
<1>3. /\ Wrap(h + j) \in 0 .. RingSize - 1
      /\ (h + j) % RingSize = Wrap(h + j)
  BY <1>2, WrapFacts
<1>4. Wrap(h + j) + k \in 0 .. 2 * RingSize - 1
  BY <1>1, <1>3
<1>5. (Wrap(h + j) + k) % RingSize = Wrap(Wrap(h + j) + k)
  BY <1>4, WrapFacts
<1>6. Wrap(Wrap(h + j) + k) = Wrap(h + (j + k))
  BY <1>1 DEF Wrap
<1> QED
  BY <1>3, <1>5, <1>6

\* Two offsets less than a ring's size apart are the same one only when they
\* are equal, or when one is at the start of the ring and one at its end.
LEMMA WrapSame ==
    ASSUME NEW h \in 0 .. RingSize - 1, NEW j \in 0 .. RingSize, NEW k \in 0 .. RingSize,
           Wrap(h + j) = Wrap(h + k)
    PROVE  j = k \/ (j = 0 /\ k = RingSize) \/ (j = RingSize /\ k = 0)
<1>1. RingSize \in Nat \ {0}
  BY RingSizeAssumption DEF SIZE_T
<1> QED
  BY <1>1 DEF Wrap

\* ringr_readable() counts the bytes pushed and not acknowledged.
LEMMA Readable ==
    ASSUME NEW x, NEW p, NEW a, RingrInv(x, p, a), NEW r \in DOMAIN a
    PROVE  ringr_readable(x, r) = p - a[r]
<1> DEFINE N == RingSize
           h == x.ring.head
           u == x.ring.used
           k == a[r] - (p - u)
           head == x.readers[r].head
<1>1. N \in Nat \ {0}
  BY RingSizeAssumption DEF SIZE_T
<1>2. /\ h \in 0 .. N - 1 /\ u \in 0 .. N /\ x.ring.size = N /\ p \in Nat
      /\ head \in 0 .. N - 1 /\ a[r] \in p - u .. p /\ u <= p
  BY RingrParts
<1>3. /\ k \in 0 .. u
      /\ head = Wrap(h + k)
      /\ x.readers[r].starved => k = u
      /\ k = N => x.readers[r].starved
  BY DEF RingrInv, Placed
<1>4. u - k = p - a[r] /\ u - k \in 0 .. N
  BY <1>1, <1>2, <1>3
<1> HIDE DEF k, head, h, u, N
<1>5. (u - k) % SIZE_T = u - k
  BY <1>4, SizeFacts DEF N
<1>6. CASE head = h /\ x.readers[r].starved
  <2>1. u - k = 0
    BY <1>2, <1>3, <1>4, <1>6
  <2>2. ringr_readable(x, r) = 0
    BY <1>2, <1>6 DEF ringr_readable, head, h
  <2> QED
    BY <1>4, <2>1, <2>2
<1>7. CASE ~(head = h /\ x.readers[r].starved)
  <2>1. k # N
    BY <1>1, <1>2, <1>3, <1>7 DEF Wrap, N
  <2>2. IF head >= h THEN u - (head - h) = u - k
                     ELSE h - head - (x.ring.size - u) = u - k
    BY <1>1, <1>2, <1>3, <2>1 DEF Wrap, N
  <2>3. ringr_readable(x, r) = IF head >= h THEN (u - (head - h)) % SIZE_T
                               ELSE (h - head - (x.ring.size - u)) % SIZE_T
    BY <1>7 DEF ringr_readable, head, h, u
  <2> QED
    BY <1>4, <1>5, <2>2, <2>3
<1> QED
  BY <1>6, <1>7

\* What a reader is shown are the bytes pushed and not acknowledged by it.
LEMMA ShownFacts ==
    ASSUME NEW x, NEW p, NEW a, RingrInv(x, p, a), NEW r \in DOMAIN a
    PROVE  ringr_peek(x, r) = [i \in 1 .. p - a[r] |-> a[r] + i]
<1> DEFINE N == RingSize
           h == x.ring.head
           u == x.ring.used
           k == a[r] - (p - u)
           head == x.readers[r].head
<1>1. N \in Nat \ {0}
  BY RingSizeAssumption DEF SIZE_T
<1>2. /\ h \in 0 .. N - 1 /\ u \in 0 .. N /\ x.ring.size = N /\ p \in Nat
      /\ head \in 0 .. N - 1 /\ a[r] \in p - u .. p /\ u <= p
  BY RingrParts
<1>3. k \in 0 .. u /\ head = Wrap(h + k)
  BY DEF RingrInv, Placed
<1>4. ringr_readable(x, r) = p - a[r]
  BY Readable
<1>5. ASSUME NEW i \in 1 .. p - a[r]
      PROVE  x.ring.data[(head + i - 1) % x.ring.size] = a[r] + i
  <2>1. /\ k + (i - 1) \in 0 .. u - 1 /\ i - 1 \in 0 .. N /\ k \in 0 .. N
        /\ k + (i - 1) <= N
    BY <1>1, <1>2, <1>3
  <2>2. x.ring.data[Wrap(h + (k + (i - 1)))] = p - u + (k + (i - 1)) + 1
    BY <2>1 DEF RingrInv, Kept
  <2>3. p - u + (k + (i - 1)) + 1 = a[r] + i
    BY <1>2
  <2> HIDE DEF k, head, h, u
  <2>4. (Wrap(h + k) + (i - 1)) % RingSize = Wrap(h + (k + (i - 1)))
    BY <1>2, <2>1, WrapSum
  <2>5. head + i - 1 = Wrap(h + k) + (i - 1)
    BY <1>2, <1>3
  <2> QED
    BY <1>2, <2>2, <2>3, <2>4, <2>5
<1> QED
  BY <1>4, <1>5 DEF ringr_peek

\* rbh_ring_pop() of bytes that the ring has.
LEMMA PopRing ==
    ASSUME NEW ring \in Ring, NEW c \in 0 .. ring.used
    PROVE  ring_pop(ring, c) = [size |-> RingSize, used |-> ring.used - c,
                                head |-> Wrap(ring.head + c), data |-> ring.data]
<1>1. PICK u \in 0 .. RingSize, h \in 0 .. RingSize - 1, d \in [0 .. RingSize - 1 -> Nat] :
         ring = [size |-> RingSize, used |-> u, head |-> h, data |-> d]
  BY DEF Ring
<1>2. RingSize \in Nat \ {0}
  BY RingSizeAssumption DEF SIZE_T
<1>3. ring.size = RingSize /\ ring.used = u /\ ring.head = h /\ ring.data = d
  BY <1>1
<1>4. c \in 0 .. u /\ h + c \in 0 .. 2 * RingSize - 1
  BY <1>2, <1>3
<1>5. Offset(ring, c) = Wrap(h + c)
  BY <1>3, <1>4, WrapFacts DEF Offset
<1>6. ring_pop(ring, c) = [ring EXCEPT !.head = Wrap(h + c), !.used = @ - c]
  BY <1>3, <1>4, <1>5 DEF ring_pop
<1> QED
  BY <1>1, <1>3, <1>6

\* ringr_pop_unreachable() keeps every byte that a reader has not read.
LEMMA PopUnreachable ==
    ASSUME NEW x, NEW p, NEW a, RingrInv(x, p, a)
    PROVE  RingrInv(ringr_pop_unreachable(x), p, a)
<1> DEFINE N == RingSize
           h == x.ring.head
           u == x.ring.used
           T == {ringr_readable(x, r) : r \in DOMAIN x.readers}
           m == Max(T)
           c == u - m
           ring == [size |-> N, used |-> m, head |-> Wrap(h + c), data |-> x.ring.data]
           y == [ring |-> ring, readers |-> x.readers]
<1>1. N \in Nat \ {0}
  BY RingSizeAssumption DEF SIZE_T
<1>2. /\ h \in 0 .. N - 1 /\ u \in 0 .. N /\ x.ring.size = N /\ p \in Nat /\ u <= p
      /\ x = [ring |-> x.ring, readers |-> x.readers]
      /\ x.ring \in Ring
      /\ DOMAIN x.readers = DOMAIN a
      /\ x.readers \in [DOMAIN a -> Reader]
      /\ x.ring.data \in [0 .. N - 1 -> Nat]
  BY RingrParts
<1>12. h \in Nat /\ h <= N - 1 /\ u \in Nat /\ u <= N /\ p \in Nat /\ u <= p
  BY <1>1, <1>2
<1>3. \A r \in DOMAIN a : ringr_readable(x, r) = p - a[r] /\ p - a[r] \in 0 .. u
  <2> SUFFICES ASSUME NEW r \in DOMAIN a
               PROVE  ringr_readable(x, r) = p - a[r] /\ p - a[r] \in 0 .. u
    OBVIOUS
  <2>1. ringr_readable(x, r) = p - a[r]
    BY Readable
  <2>2. a[r] \in p - u .. p
    BY RingrParts
  <2> QED
    BY <1>2, <2>1, <2>2
<1>4. m \in 0 .. u /\ \A r \in DOMAIN a : p - a[r] <= m
  <2>1. T \in SUBSET (0 .. u) /\ T # {}
    BY <1>2, <1>3 DEF RingrInv
  <2> HIDE DEF T
  <2>2. m \in T /\ \A y2 \in T : m >= y2
    BY <1>2, <2>1, GreatestNumber
  <2>3. \A r \in DOMAIN a : p - a[r] \in T
    BY <1>2, <1>3 DEF T
  <2>4. \A r \in DOMAIN a : m >= p - a[r]
    BY <2>2, <2>3
  <2>5. m \in 0 .. u
    BY <2>1, <2>2
  <2> HIDE DEF m
  <2> QED
    BY <2>3, <2>4, <2>5, <1>2, <1>3
<1> HIDE DEF m
<1>5. c \in 0 .. u /\ c \in 0 .. N /\ u - c = m
  BY <1>1, <1>2, <1>4
<1>6. ringr_pop_unreachable(x) = y
  <2>1. (u - m) % SIZE_T = c
    BY <1>5, SizeFacts
  <2>3. ring_pop(x.ring, c) = ring
    BY <1>2, <1>5, PopRing
  <2>4. ringr_pop_unreachable(x) = [x EXCEPT !.ring = ring_pop(x.ring, (u - m) % SIZE_T)]
    BY DEF ringr_pop_unreachable, ringr_max_readable, m
  <2> QED
    BY <1>2, <2>1, <2>3, <2>4
<1>7. /\ ring \in Ring /\ ring.used = m /\ ring.head = Wrap(h + c) /\ ring.data = x.ring.data
      /\ Wrap(h + c) \in 0 .. N - 1
  <2>1. Wrap(h + c) \in 0 .. N - 1
    <3> HIDE DEF c
    <3>1. h + c \in 0 .. 2 * RingSize - 1
      BY <1>1, <1>12, <1>5
    <3> QED
      BY <3>1, WrapFacts
  <2> QED
    BY <1>1, <1>2, <1>4, <2>1 DEF Ring
<1>8. Kept(ring, p)
  <2> SUFFICES ASSUME NEW i \in 0 .. m - 1
               PROVE  x.ring.data[Wrap(Wrap(h + c) + i)] = p - m + i + 1
    BY <1>7 DEF Kept
  <2>1. /\ c + i \in 0 .. u - 1 /\ c \in 0 .. N /\ i \in 0 .. N /\ c + i <= N
        /\ p - m + i + 1 = p - u + (c + i) + 1
    <3>1. m \in Nat /\ m <= u /\ i \in Nat /\ i < m
      BY <1>4
    <3>2. c + i = u - m + i
      OBVIOUS
    <3>3. c + i \in 0 .. u - 1 /\ c \in 0 .. N /\ i \in 0 .. N
      BY <1>1, <1>12, <3>1
    <3>4. p - m + i + 1 = p - u + (c + i) + 1
      BY <1>12, <3>1
    <3> QED
      BY <1>1, <1>12, <3>1, <3>3, <3>4
  <2>2. x.ring.data[Wrap(h + (c + i))] = p - u + (c + i) + 1
    BY <2>1 DEF RingrInv, Kept
  <2> HIDE DEF c, h
  <2>3. Wrap(Wrap(h + c) + i) = Wrap(h + (c + i))
    BY <1>2, <2>1, WrapSum
  <2> QED
    BY <2>1, <2>2, <2>3
<1>9. ASSUME NEW r \in DOMAIN a
      PROVE  Placed(ring, x.readers[r], a[r] - (p - m))
  <2> DEFINE k == a[r] - (p - u)
             j == a[r] - (p - m)
  <2>1. /\ k \in 0 .. u /\ x.readers[r].head = Wrap(h + k)
        /\ x.readers[r].starved => k = u
        /\ k = RingSize => x.readers[r].starved
        /\ a[r] \in Nat
    BY DEF RingrInv, Placed
  <2>2. p - a[r] <= m
    BY <1>4
  <2>3. /\ j \in 0 .. m /\ c + j = k /\ j \in 0 .. N /\ c + j <= N
        /\ (k = u => j = m) /\ (j = N => k = N)
    BY <1>1, <1>12, <1>4, <2>1, <2>2
  <2> HIDE DEF c, h, k, j
  <2>4. Wrap(Wrap(h + c) + j) = Wrap(h + k)
    BY <1>2, <1>5, <2>3, WrapSum
  <2>5. Placed(ring, x.readers[r], j)
    BY <1>7, <2>1, <2>3, <2>4 DEF Placed
  <2> QED
    BY <2>5 DEF j
<1>10. RingrInv(y, p, a)
  <2> HIDE DEF ring
  <2>1. y \in [ring : Ring, readers : [DOMAIN a -> Reader]] /\ y.ring = ring /\ y.readers = x.readers
    BY <1>2, <1>7
  <2>2. p \in Nat /\ a \in [DOMAIN a -> Nat] /\ DOMAIN a # {}
    BY DEF RingrInv
  <2>3. y.ring.used <= p
    BY <1>2, <1>4, <1>7, <2>1
  <2> HIDE DEF y
  <2> QED
    BY <2>1, <2>2, <2>3, <1>7, <1>8, <1>9 DEF RingrInv
<1> QED
  BY <1>6, <1>10

\* rbh_ringr_ack() of count bytes that the reader can read.
LEMMA AckKeeps ==
    ASSUME NEW x, NEW p, NEW a, RingrInv(x, p, a), NEW r \in DOMAIN a,
           NEW count \in 1 .. RingSize, count <= ringr_readable(x, r)
    PROVE  RingrInv(ringr_ack(x, r, count), p, [a EXCEPT ![r] = @ + count])
<1> DEFINE N == RingSize
           h == x.ring.head
           u == x.ring.used
           old == x.readers[r].head
           new == Wrap(old + count)
           k == a[r] - (p - u)
           b == [a EXCEPT ![r] = @ + count]
           reader == [head |-> new, starved |-> x.readers[r].starved \/ new = h]
           y == [ring |-> x.ring, readers |-> [x.readers EXCEPT ![r] = reader]]
<1>1. N \in Nat \ {0}
  BY RingSizeAssumption DEF SIZE_T
<1>2. /\ h \in 0 .. N - 1 /\ u \in 0 .. N /\ x.ring.size = N /\ p \in Nat /\ u <= p
      /\ x = [ring |-> x.ring, readers |-> x.readers]
      /\ x.ring \in Ring
      /\ DOMAIN x.readers = DOMAIN a
      /\ x.readers \in [DOMAIN a -> Reader]
      /\ old \in 0 .. N - 1 /\ a[r] \in p - u .. p
      /\ x.readers[r].starved \in BOOLEAN
  BY RingrParts
<1>3. count <= p - a[r]
  BY Readable
<1>4. /\ k \in 0 .. u /\ old = Wrap(h + k)
      /\ x.readers[r].starved => k = u
      /\ k = N => x.readers[r].starved
  BY DEF RingrInv, Placed
<1>5. /\ k + count \in 1 .. u /\ k \in 0 .. N /\ k # u /\ k + count <= N
      /\ count \in 0 .. N /\ k + count = (a[r] + count) - (p - u)
  BY <1>1, <1>2, <1>3, <1>4
<1> HIDE DEF k, h, u, old
<1>6. /\ (old + count) % x.ring.size = new
      /\ new = Wrap(h + (k + count)) /\ new \in 0 .. N - 1
  <2>1. k + count \in 0 .. N
    BY <1>1, <1>2, <1>5
  <2>2. Wrap(h + (k + count)) \in 0 .. N - 1
    BY <1>1, <1>2, <2>1 DEF Wrap
  <2> QED
    BY <1>2, <1>4, <1>5, <2>2, WrapSum
<1>7. Placed(x.ring, reader, k + count)
  <2>1. ~x.readers[r].starved
    BY <1>4, <1>5
  <2>2. new = h => k + count = u /\ u = N
    <3>1. h + (k + count) < RingSize => Wrap(h + (k + count)) # h
      BY <1>1, <1>2, <1>5 DEF Wrap
    <3>2. h + (k + count) >= RingSize => Wrap(h + (k + count)) = h + (k + count) - N
      BY <1>1, <1>2, <1>5 DEF Wrap
    <3>3. k + count \in Nat /\ h \in Nat
      BY <1>1, <1>2, <1>5
    <3>4. h + (k + count) < N \/ h + (k + count) >= N
      BY <1>1, <3>3
    <3>5. h + (k + count) - N = h => k + count = N
      BY <1>1, <3>3
    <3>6. Wrap(h + (k + count)) = h => k + count = N
      BY <3>1, <3>2, <3>4, <3>5
    <3> QED
      BY <1>2, <1>5, <1>6, <3>6
  <2>3. k + count = N => new = h
    BY <1>1, <1>2, <1>6 DEF Wrap
  <2> HIDE DEF new
  <2> QED
    <3>1. reader.starved <=> new = h
      BY <2>1
    <3>2. k + count \in 0 .. u
      BY <1>2, <1>5
    <3> QED
      BY <1>6, <2>2, <2>3, <3>1, <3>2 DEF Placed, h, u
<1> HIDE DEF new
<1>8. reader \in Reader
  BY <1>2, <1>6 DEF Reader
<1>9. RingrInv(y, p, b)
  <2> HIDE DEF reader
  <2>1. /\ DOMAIN b = DOMAIN a /\ b[r] = a[r] + count
        /\ \A s \in DOMAIN a : s # r => b[s] = a[s]
        /\ b \in [DOMAIN b -> Nat] /\ DOMAIN b # {}
    <3>1. a \in [DOMAIN a -> Nat] /\ DOMAIN a # {}
      BY DEF RingrInv
    <3> QED
      BY <3>1
  <2>2. /\ y.ring = x.ring /\ y.readers[r] = reader
        /\ \A s \in DOMAIN a : s # r => y.readers[s] = x.readers[s]
        /\ y \in [ring : Ring, readers : [DOMAIN b -> Reader]]
    BY <1>2, <1>8, <2>1
  <2>3. \A s \in DOMAIN b : Placed(y.ring, y.readers[s], b[s] - (p - y.ring.used))
    <3> SUFFICES ASSUME NEW s \in DOMAIN a
                 PROVE  Placed(x.ring, y.readers[s], b[s] - (p - u))
      BY <2>1, <2>2 DEF u
    <3> HIDE DEF y, b
    <3>1. CASE s = r
      BY <1>5, <1>7, <2>1, <2>2, <3>1
    <3>2. CASE s # r
      BY <2>1, <2>2, <3>2 DEF RingrInv, u
    <3> QED
      BY <3>1, <3>2
  <2> HIDE DEF y, b
  <2>4. Kept(y.ring, p) /\ y.ring.used <= p
    BY <2>2 DEF RingrInv
  <2> QED
    BY <1>2, <2>1, <2>2, <2>3, <2>4 DEF RingrInv
<1>10. ringr_ack(x, r, count) = IF h # old THEN y ELSE ringr_pop_unreachable(y)
  <2>1. ~(count = 0 \/ count > ringr_readable(x, r))
    <3>1. ringr_readable(x, r) = p - a[r]
      BY Readable
    <3> QED
      BY <1>2, <1>3, <3>1
  <2>2. [x EXCEPT !.readers[r] = [head |-> new, starved |-> x.readers[r].starved \/ new = h]] = y
    BY <1>2
  <2>3. ringr_ack(x, r, count) =
          LET moved == [x EXCEPT !.readers[r] =
                          [head |-> (old + count) % x.ring.size,
                           starved |-> x.readers[r].starved
                                       \/ (old + count) % x.ring.size = h]]
          IN IF h # old THEN moved ELSE ringr_pop_unreachable(moved)
    BY <2>1, <1>2 DEF ringr_ack, old, h
  <2> QED
    BY <1>6, <2>2, <2>3
<1>11. RingrInv(ringr_pop_unreachable(y), p, b)
  BY <1>9, PopUnreachable
<1> QED
  BY <1>9, <1>10, <1>11

\* rbh_ringr_dup(): the new reader is where the old one is.
LEMMA DupKeeps ==
    ASSUME NEW x, NEW p, NEW a, RingrInv(x, p, a), NEW r \in DOMAIN a, NEW new
    PROVE  RingrInv(ringr_dup(x, r, new), p,
                    [s \in DOMAIN a \cup {new} |-> IF s = new THEN a[r] ELSE a[s]])
<1> DEFINE b == [s \in DOMAIN a \cup {new} |-> IF s = new THEN a[r] ELSE a[s]]
           f == [s \in DOMAIN a \cup {new} |-> IF s = new THEN x.readers[r] ELSE x.readers[s]]
           y == [ring |-> x.ring, readers |-> f]
<1>1. /\ x = [ring |-> x.ring, readers |-> x.readers]
      /\ x.ring \in Ring
      /\ DOMAIN x.readers = DOMAIN a
      /\ x.readers \in [DOMAIN a -> Reader]
  BY RingrParts
<1>2. ringr_dup(x, r, new) = y
  BY <1>1 DEF ringr_dup
<1>3. a \in [DOMAIN a -> Nat] /\ DOMAIN a # {}
  BY DEF RingrInv
<1>4. DOMAIN b = DOMAIN a \cup {new} /\ b \in [DOMAIN b -> Nat] /\ DOMAIN b # {}
  BY <1>3
<1>5. f \in [DOMAIN b -> Reader]
  BY <1>1, <1>4
<1>6. y \in [ring : Ring, readers : [DOMAIN b -> Reader]] /\ y.ring = x.ring /\ y.readers = f
  BY <1>1, <1>5
<1>7. ASSUME NEW s \in DOMAIN b
      PROVE  Placed(x.ring, f[s], b[s] - (p - x.ring.used))
  <2>1. \E t \in DOMAIN a : f[s] = x.readers[t] /\ b[s] = a[t]
    BY <1>4
  <2> HIDE DEF f, b
  <2>2. PICK t \in DOMAIN a : f[s] = x.readers[t] /\ b[s] = a[t]
    BY <2>1
  <2> QED
    BY <2>2 DEF RingrInv
<1>8. p \in Nat /\ x.ring.used <= p /\ Kept(x.ring, p)
  BY DEF RingrInv
<1> HIDE DEF b, f, y
<1>9. RingrInv(y, p, b)
  BY <1>4, <1>6, <1>7, <1>8 DEF RingrInv
<1> QED
  BY <1>2, <1>9 DEF b

\* rbh_ringr_destroy() of a reader that is not the only one.
LEMMA DestroyKeeps ==
    ASSUME NEW x, NEW p, NEW a, RingrInv(x, p, a), NEW r \in DOMAIN a, DOMAIN a # {r}
    PROVE  RingrInv(ringr_destroy(x, r), p, Restrict(a, DOMAIN a \ {r}))
<1> DEFINE D == DOMAIN a \ {r}
           b == Restrict(a, D)
           f == Restrict(x.readers, D)
           y == [ring |-> x.ring, readers |-> f]
<1>1. /\ x = [ring |-> x.ring, readers |-> x.readers]
      /\ x.ring \in Ring
      /\ DOMAIN x.readers = DOMAIN a
      /\ x.readers \in [DOMAIN a -> Reader]
  BY RingrParts
<1>2. ringr_destroy(x, r) = ringr_pop_unreachable(y)
  <2>1. [x EXCEPT !.readers = Restrict(@, DOMAIN @ \ {r})] = y
    BY <1>1
  <2> QED
    BY <2>1 DEF ringr_destroy
<1>3. a \in [DOMAIN a -> Nat] /\ DOMAIN a # {}
  BY DEF RingrInv
<1>4. DOMAIN b = D /\ b \in [D -> Nat] /\ D # {} /\ \A s \in D : b[s] = a[s]
  BY <1>3 DEF Restrict
<1>5. f \in [D -> Reader] /\ \A s \in D : f[s] = x.readers[s]
  BY <1>1 DEF Restrict
<1>6. y \in [ring : Ring, readers : [D -> Reader]] /\ y.ring = x.ring /\ y.readers = f
  BY <1>1, <1>5
<1>7. ASSUME NEW s \in D
      PROVE  Placed(x.ring, f[s], b[s] - (p - x.ring.used))
  BY <1>4, <1>5 DEF RingrInv
<1>8. p \in Nat /\ x.ring.used <= p /\ Kept(x.ring, p)
  BY DEF RingrInv
<1> HIDE DEF b, f, y
<1>9. RingrInv(y, p, b)
  BY <1>4, <1>6, <1>7, <1>8 DEF RingrInv
<1> QED
  BY <1>2, <1>9, PopUnreachable DEF b

\* rbh_ring_push() of the next size bytes, in a ring that has room for them.
LEMMA PushRing ==
    ASSUME NEW ring \in Ring, NEW p \in Nat, ring.used <= p, Kept(ring, p),
           NEW size \in 1 .. RingSize, ring.used + size <= RingSize
    PROVE  LET new == ring_push(ring, [i \in 1 .. size |-> p + i])
           IN /\ new \in Ring
              /\ new.head = ring.head /\ new.used = ring.used + size /\ new.size = RingSize
              /\ Kept(new, p + size)
<1> DEFINE bytes == [i \in 1 .. size |-> p + i]
           spot(i) == Offset(ring, ring.used + i - 1)
<1>1. PICK u \in 0 .. RingSize, h \in 0 .. RingSize - 1, d \in [0 .. RingSize - 1 -> Nat] :
         ring = [size |-> RingSize, used |-> u, head |-> h, data |-> d]
  BY DEF Ring
<1>2. RingSize \in Nat \ {0}
  BY RingSizeAssumption DEF SIZE_T
<1>3. ring.size = RingSize /\ ring.used = u /\ ring.head = h /\ ring.data = d
  BY <1>1
<1>4. size \in Nat /\ u + size <= RingSize /\ Len(bytes) = size /\ DOMAIN bytes = 1 .. size
  BY <1>2, <1>3
<1>5. \A i \in 1 .. size : spot(i) = Wrap(h + (u + (i - 1)))
  <2> SUFFICES ASSUME NEW i \in 1 .. size PROVE spot(i) = Wrap(h + (u + (i - 1)))
    OBVIOUS
  <2>1. u + i - 1 \in 0 .. RingSize /\ u + i - 1 = u + (i - 1)
    BY <1>2, <1>4
  <2>2. h + (u + i - 1) \in 0 .. 2 * RingSize - 1
    BY <1>2, <2>1
  <2>3. (h + (u + i - 1)) % RingSize = Wrap(h + (u + i - 1))
    BY <2>2, WrapFacts
  <2> QED
    BY <1>3, <2>1, <2>3 DEF Offset
<1> DEFINE e == [o \in 0 .. RingSize - 1 |->
                    IF \E i \in 1 .. size : spot(i) = o
                    THEN bytes[CHOOSE i \in 1 .. size : spot(i) = o] ELSE d[o]]
           new == [size |-> RingSize, used |-> u + size, head |-> h, data |-> e]
<1>6. ring_push(ring, bytes) = new
  <2>1. ring_push(ring, bytes) =
          [ring EXCEPT !.used = @ + size,
                       !.data = [o \in DOMAIN @ |->
                                    IF \E i \in 1 .. size : spot(i) = o
                                    THEN bytes[CHOOSE i \in 1 .. size : spot(i) = o]
                                    ELSE @[o]]]
    BY <1>4 DEF ring_push
  <2> HIDE DEF spot, bytes
  <2>2. DOMAIN d = 0 .. RingSize - 1
    OBVIOUS
  <2> HIDE DEF e
  <2>3. [ring EXCEPT !.used = u + size, !.data = e] = new
    <3> DEFINE f == [ring EXCEPT !.used = u + size, !.data = e]
    <3>1. DOMAIN f = {"size", "used", "head", "data"}
      BY <1>1
    <3>2. f.size = RingSize /\ f.used = u + size /\ f.head = h /\ f.data = e
      BY <1>1
    <3>3. f = [i \in {"size", "used", "head", "data"} |-> f[i]]
      BY <1>1
    <3> HIDE DEF f
    <3>4. f = new
      BY <3>1, <3>2, <3>3
    <3> QED
      BY <3>4 DEF f
  <2>4. ring_push(ring, bytes) = [ring EXCEPT !.used = u + size, !.data = e]
    BY <1>3, <2>1, <2>2 DEF e
  <2> QED
    BY <2>3, <2>4
<1>7. e \in [0 .. RingSize - 1 -> Nat]
  <2> SUFFICES ASSUME NEW o \in 0 .. RingSize - 1 PROVE e[o] \in Nat
    OBVIOUS
  <2>1. CASE \E i \in 1 .. size : spot(i) = o
    <3> DEFINE j == CHOOSE i \in 1 .. size : spot(i) = o
    <3> HIDE DEF spot
    <3>1. j \in 1 .. size
      BY <2>1
    <3>2. e[o] = bytes[j]
      BY <2>1
    <3> HIDE DEF j
    <3> QED
      BY <3>1, <3>2
  <2>2. CASE ~(\E i \in 1 .. size : spot(i) = o)
    BY <2>2
  <2> QED
    BY <2>1, <2>2
<1>8. ASSUME NEW j \in 0 .. u - 1
      PROVE  e[Wrap(h + j)] = d[Wrap(h + j)]
  <2>1. j \in 0 .. RingSize /\ Wrap(h + j) \in 0 .. RingSize - 1
    BY <1>2 DEF Wrap
  <2>2. ASSUME NEW i \in 1 .. size
        PROVE  spot(i) # Wrap(h + j)
    <3>1. /\ u + (i - 1) \in 0 .. RingSize /\ u + (i - 1) # j /\ u + (i - 1) # RingSize
          /\ u + (i - 1) # 0
      BY <1>2, <1>4
    <3>2. Wrap(h + (u + (i - 1))) # Wrap(h + j)
      BY <2>1, <3>1, WrapSame
    <3> QED
      BY <1>5, <3>2
  <2> HIDE DEF spot, bytes
  <2> QED
    BY <2>1, <2>2
<1>9. ASSUME NEW j \in u .. u + size - 1
      PROVE  e[Wrap(h + j)] = p + (j - u) + 1
  <2>1. j \in 0 .. RingSize /\ j - u + 1 \in 1 .. size /\ u + (j - u + 1 - 1) = j
    BY <1>2, <1>4
  <2>2. Wrap(h + j) \in 0 .. RingSize - 1
    BY <1>2, <1>4 DEF Wrap
  <2>3. spot(j - u + 1) = Wrap(h + j)
    <3> HIDE DEF spot
    <3>1. spot(j - u + 1) = Wrap(h + (u + (j - u + 1 - 1)))
      BY <1>5, <2>1
    <3> QED
      BY <2>1, <3>1
  <2>4. ASSUME NEW i \in 1 .. size, spot(i) = Wrap(h + j)
        PROVE  i = j - u + 1
    <3>1. u + (i - 1) \in 0 .. RingSize /\ u + (i - 1) # RingSize /\ j # RingSize
      BY <1>2, <1>4
    <3>2. Wrap(h + (u + (i - 1))) = Wrap(h + j)
      BY <1>5, <2>4
    <3>3. u + (i - 1) = j
      BY <2>1, <3>1, <3>2, WrapSame
    <3> QED
      BY <3>3
  <2> HIDE DEF spot
  <2>5. (CHOOSE i \in 1 .. size : spot(i) = Wrap(h + j)) = j - u + 1
    BY <2>1, <2>3, <2>4
  <2>6. e[Wrap(h + j)] = bytes[j - u + 1]
    BY <2>1, <2>2, <2>3, <2>5
  <2> QED
    BY <1>4, <2>1, <2>6
<1> HIDE DEF e, bytes, spot
<1>10. new \in Ring /\ new.head = h /\ new.used = u + size /\ new.data = e /\ new.size = RingSize
  <2>1. u + size \in 0 .. RingSize
    BY <1>2, <1>4
  <2> QED
    BY <1>7, <2>1 DEF Ring
<1>11. Kept(new, p + size)
  <2> SUFFICES ASSUME NEW j \in 0 .. u + size - 1
               PROVE  e[Wrap(h + j)] = (p + size) - (u + size) + j + 1
    <3> HIDE DEF new
    <3> QED
      BY <1>10 DEF Kept
  <2>1. CASE j < u
    <3>1. j \in 0 .. u - 1
      BY <1>2, <2>1
    <3>2. d[Wrap(h + j)] = p - u + j + 1
      BY <1>3, <3>1 DEF Kept
    <3>3. (p + size) - (u + size) + j + 1 = p - u + j + 1
      BY <1>4
    <3> QED
      BY <1>8, <3>1, <3>2, <3>3
  <2>2. CASE j >= u
    <3>1. j \in u .. u + size - 1 /\ (p + size) - (u + size) + j + 1 = p + (j - u) + 1
      BY <1>2, <1>4, <2>2
    <3> QED
      BY <1>9, <3>1
  <2> QED
    BY <1>4, <2>1, <2>2
<1> HIDE DEF new
<1>12. ring_push(ring, [i \in 1 .. size |-> p + i]) = new
  BY <1>6 DEF bytes
<1> QED
  BY <1>3, <1>10, <1>11, <1>12

\* rbh_ring_push() succeeds only in a ring that has room.
LEMMA RoomFacts ==
    ASSUME NEW ring \in Ring, NEW size \in 1 .. RingSize
    PROVE  ring_errno(ring, size) = "" => ring.used + size <= RingSize
<1>1. RingSize \in Nat \ {0}
  BY RingSizeAssumption DEF SIZE_T
<1>2. ring_errno(ring, size) = "" => size = 0 \/ ring.size - ring.used >= size
  BY Zenon DEF ring_errno
<1>3. size = 0 \/ ring.size - ring.used >= size => ring.used + size <= RingSize
  BY <1>1 DEF Ring
<1> QED
  BY <1>2, <1>3, Zenon

\* rbh_ringr_push() moves no reader.
LEMMA PushReaders ==
    ASSUME NEW x, NEW p, NEW a, RingrInv(x, p, a), NEW bytes
    PROVE  LET y == ringr_push(x, bytes)
           IN /\ y.ring = ring_push(x.ring, bytes)
              /\ y = [ring |-> y.ring, readers |-> y.readers]
              /\ y.readers \in [DOMAIN a -> Reader]
              /\ \A r \in DOMAIN a : y.readers[r].head = x.readers[r].head
<1> DEFINE ring == ring_push(x.ring, bytes)
           y == ringr_push(x, bytes)
           f == [r \in DOMAIN a |-> [x.readers[r] EXCEPT !.starved = FALSE]]
<1>1. DOMAIN x.readers = DOMAIN a /\ x.readers \in [DOMAIN a -> Reader]
  BY RingrParts
<1>2. ASSUME NEW r \in DOMAIN a
      PROVE  f[r] \in Reader /\ f[r].head = x.readers[r].head
  <2>1. x.readers[r] \in Reader
    BY <1>1
  <2> QED
    BY <2>1 DEF Reader
<1>3. f \in [DOMAIN a -> Reader]
  BY <1>2
<1>4. y = [ring |-> ring, readers |-> x.readers] \/ y = [ring |-> ring, readers |-> f]
  <2> HIDE DEF ring
  <2>1. CASE Len(bytes) = 0 \/ ring.used # ring.size
    BY <2>1 DEF ringr_push, ring
  <2>2. CASE ~(Len(bytes) = 0 \/ ring.used # ring.size)
    BY <1>1, <2>2 DEF ringr_push, ring
  <2> QED
    BY <2>1, <2>2
<1> HIDE DEF y, f, ring
<1>5. CASE y = [ring |-> ring, readers |-> x.readers]
  BY <1>1, <1>5 DEF y, ring
<1>6. CASE y = [ring |-> ring, readers |-> f]
  <2>1. y.ring = ring /\ y.readers = f /\ y = [ring |-> y.ring, readers |-> y.readers]
    BY <1>6
  <2> QED
    BY <1>2, <1>3, <2>1 DEF y, ring
<1> QED
  BY <1>4, <1>5, <1>6

\* No reader is starved.
NoneStarved(readers) == \A r \in DOMAIN readers : ~readers[r].starved

\* rbh_ringr_push() that leaves no reader starved.
LEMMA PushKeeps ==
    ASSUME NEW x, NEW p, NEW a, RingrInv(x, p, a), NEW size \in 1 .. RingSize,
           x.ring.used + size <= RingSize,
           NEW y, y = ringr_push(x, [i \in 1 .. size |-> p + i]),
           NoneStarved(y.readers)
    PROVE  RingrInv(y, p + size, a)
<1> DEFINE bytes == [i \in 1 .. size |-> p + i]
           ring == ring_push(x.ring, bytes)
           u == x.ring.used
<1>1. RingSize \in Nat \ {0} /\ size \in Nat \ {0} /\ size <= RingSize
  <2>1. RingSize \in Nat \ {0}
    BY RingSizeAssumption DEF SIZE_T
  <2> QED
    BY <2>1
<1>2. /\ p \in Nat /\ u <= p /\ u \in 0 .. RingSize
      /\ x.ring \in Ring /\ x.ring.size = RingSize
      /\ DOMAIN x.readers = DOMAIN a
      /\ x.readers \in [DOMAIN a -> Reader]
  BY RingrParts
<1>3. u + size <= RingSize
  OBVIOUS
<1>4. Kept(x.ring, p)
  BY DEF RingrInv
<1>5. /\ ring \in Ring /\ ring.head = x.ring.head /\ ring.used = u + size
      /\ ring.size = RingSize /\ Kept(ring, p + size)
  BY <1>2, <1>3, <1>4, PushRing
<1> HIDE DEF bytes, ring
<1>7. /\ y.ring = ring
      /\ y.readers \in [DOMAIN a -> Reader]
      /\ y = [ring |-> y.ring, readers |-> y.readers]
      /\ \A r \in DOMAIN a : y.readers[r].head = x.readers[r].head
  <2>1. y = ringr_push(x, bytes)
    BY DEF bytes
  <2>2. /\ ringr_push(x, bytes).ring = ring_push(x.ring, bytes)
        /\ ringr_push(x, bytes) = [ring |-> ringr_push(x, bytes).ring,
                                   readers |-> ringr_push(x, bytes).readers]
        /\ ringr_push(x, bytes).readers \in [DOMAIN a -> Reader]
        /\ \A r \in DOMAIN a : ringr_push(x, bytes).readers[r].head = x.readers[r].head
    BY PushReaders
  <2> QED
    BY <2>1, <2>2 DEF ring
<1>8. ASSUME NEW r \in DOMAIN a
      PROVE  Placed(ring, y.readers[r], a[r] - ((p + size) - ring.used))
  <2> DEFINE k == a[r] - (p - u)
  <2>1. k \in 0 .. u /\ x.readers[r].head = Wrap(x.ring.head + k) /\ a[r] \in Nat
    BY DEF RingrInv, Placed
  <2>2. ~y.readers[r].starved
    BY <1>7 DEF NoneStarved
  <2>5. u \in Nat /\ p \in Nat /\ size \in Nat \ {0} /\ u + size <= RingSize /\ RingSize \in Nat
    BY <1>1, <1>2, <1>3
  <2>6. a[r] - ((p + size) - (u + size)) = k
    BY <2>1, <2>5
  <2>3. k \in 0 .. u + size /\ k # RingSize
    <3> HIDE DEF k, u
    <3> QED
      BY <2>1, <2>5
  <2> HIDE DEF k, u
  <2>4. Placed(ring, y.readers[r], k)
    BY <1>5, <1>7, <2>1, <2>2, <2>3 DEF Placed
  <2> QED
    BY <1>5, <2>4, <2>6
<1>9. a \in [DOMAIN a -> Nat] /\ DOMAIN a # {}
  BY DEF RingrInv
<1>10. p + size \in Nat /\ ring.used <= p + size
  BY <1>1, <1>2, <1>5
<1>11. y \in [ring : Ring, readers : [DOMAIN a -> Reader]]
  BY <1>5, <1>7
<1>12. y.ring.used <= p + size /\ Kept(y.ring, p + size)
  BY <1>5, <1>7, <1>10
<1>13. \A r \in DOMAIN a : Placed(y.ring, y.readers[r], a[r] - ((p + size) - y.ring.used))
  BY <1>7, <1>8
<1> QED
  BY <1>9, <1>10, <1>11, <1>12, <1>13 DEF RingrInv

\* rbh_ringr_new()
LEMMA NewRingr ==
    ASSUME NEW r
    PROVE  RingrInv(ringr_new(RingSize, r), 0, [s \in {r} |-> 0])
<1> DEFINE x == ringr_new(RingSize, r)
           a == [s \in {r} |-> 0]
<1>1. RingSize \in Nat \ {0}
  BY RingSizeAssumption DEF SIZE_T
<1>2. /\ x.ring = [size |-> RingSize, used |-> 0, head |-> 0,
                   data |-> [i \in 0 .. RingSize - 1 |-> 0]]
      /\ x.readers = [s \in {r} |-> [head |-> 0, starved |-> FALSE]]
      /\ x = [ring |-> x.ring, readers |-> x.readers]
  BY DEF ringr_new, ring_new
<1>3. x.ring \in Ring /\ x.ring.used = 0 /\ x.ring.head = 0
  BY <1>1, <1>2 DEF Ring
<1>4. x.readers \in [DOMAIN a -> Reader]
  BY <1>1, <1>2 DEF Reader
<1>5. Kept(x.ring, 0)
  BY <1>3 DEF Kept
<1>6. ASSUME NEW s \in DOMAIN a
      PROVE  Placed(x.ring, x.readers[s], a[s] - (0 - x.ring.used))
  <2>1. x.readers[s].head = 0 /\ ~x.readers[s].starved /\ a[s] - (0 - x.ring.used) = 0
    BY <1>2, <1>3
  <2>2. Wrap(0 + 0) = 0
    BY <1>1 DEF Wrap
  <2> QED
    BY <1>1, <1>3, <2>1, <2>2 DEF Placed
<1>7. a \in [DOMAIN a -> Nat] /\ DOMAIN a # {}
  OBVIOUS
<1>8. x \in [ring : Ring, readers : [DOMAIN a -> Reader]]
  BY <1>2, <1>3, <1>4
<1> HIDE DEF x, a
<1>9. RingrInv(x, 0, a)
  BY <1>3, <1>5, <1>6, <1>7, <1>8 DEF RingrInv
<1> QED
  BY <1>9 DEF x, a

-----------------------------------------------------------------------------
(* The theorem about the readers.                                          *)

\* The inductive invariant of the "ringr" user.
ReadersInv == unseen \in BOOLEAN /\ (~unseen => RingrInv(rr, pushed, acked))

\* A step of a reader or of the writer of the ring.
LEMMA RingrStep ==
    ASSUME ReadersInv, RingrNext
    PROVE  ReadersInv'
<1>1. ~unseen /\ RingrInv(rr, pushed, acked) /\ DOMAIN rr.readers = DOMAIN acked
  <2>1. ~unseen /\ RingrInv(rr, pushed, acked)
    BY DEF ReadersInv, RingrNext
  <2> QED
    BY <2>1, RingrParts
<1>2. ASSUME NEW size \in 1 .. RingSize, Push(size)
      PROVE  ReadersInv'
  <2> DEFINE y == ringr_push(rr, [i \in 1 .. size |-> pushed + i])
  <2>1. /\ rr' = y /\ pushed' = pushed + size
        /\ acked' = acked
        /\ unseen' = (unseen \/ \E r \in DOMAIN y.readers : y.readers[r].starved)
    BY <1>2 DEF Push
  <2>2. DOMAIN y.readers = DOMAIN acked
    BY <1>1 DEF ringr_push
  <2> HIDE DEF y
  <2>3. unseen' \in BOOLEAN
    BY <2>1
  <2>4. ASSUME ~unseen'
        PROVE  RingrInv(y, pushed + size, acked)
    <3>2. NoneStarved(y.readers)
      BY <2>1, <2>4 DEF NoneStarved
    <3>3. y = ringr_push(rr, [i \in 1 .. size |-> pushed + i])
      BY DEF y
    <3>4. rr.ring.used + size <= RingSize
      BY <1>1, <1>2, RingrParts, RoomFacts DEF Push
    <3> QED
      BY <1>1, <3>2, <3>3, <3>4, PushKeeps
  <2> QED
    BY <2>1, <2>3, <2>4 DEF ReadersInv
<1>3. ASSUME NEW r \in DOMAIN rr.readers, NEW count \in 1 .. RingSize, Ack(r, count)
      PROVE  ReadersInv'
  <2>1. RingrInv(ringr_ack(rr, r, count), pushed, [acked EXCEPT ![r] = @ + count])
    BY <1>1, <1>3, AckKeeps DEF Ack
  <2> QED
    BY <1>3, <2>1 DEF Ack, ReadersInv
<1>4. ASSUME NEW r \in DOMAIN rr.readers, NEW new \in Readers, Dup(r, new)
      PROVE  ReadersInv'
  <2>1. RingrInv(ringr_dup(rr, r, new), pushed,
                 [s \in DOMAIN acked \cup {new} |-> IF s = new THEN acked[r] ELSE acked[s]])
    BY <1>1, DupKeeps
  <2> QED
    BY <1>4, <2>1 DEF Dup, ReadersInv
<1>5. ASSUME NEW r \in DOMAIN rr.readers, Destroy(r)
      PROVE  ReadersInv'
  <2>1. RingrInv(ringr_destroy(rr, r), pushed, Restrict(acked, DOMAIN acked \ {r}))
    BY <1>1, <1>5, DestroyKeeps DEF Destroy
  <2> QED
    BY <1>5, <2>1 DEF Destroy, ReadersInv
<1> QED
  BY <1>2, <1>3, <1>4, <1>5 DEF RingrNext

\* What each reader of a ring is shown are the bytes pushed and not yet
\* acknowledged by it, in order and none overwritten, for every size of the
\* ring and every number of readers, while no byte is pushed to a starved
\* reader (rbh_ringr_push(), rbh_ringr_ack(), rbh_ringr_dup(),
\* rbh_ringr_destroy()).
THEOREM ReadersAreShown == Spec => []ReaderShown
<1>1. Init => ReadersInv
  BY NewRingr DEF Init, RingrInit, ReadersInv
<1>2. ReadersInv /\ [Next]_vars => ReadersInv'
  <2> SUFFICES ASSUME ReadersInv, [Next]_vars PROVE ReadersInv'
    OBVIOUS
  <2>1. CASE RingrNext
    BY <2>1, RingrStep
  <2>2. CASE UNCHANGED ringrVars
    BY <2>2 DEF ReadersInv, ringrVars
  <2> QED
    BY <2>1, <2>2 DEF Next, vars
<1>3. ReadersInv => ReaderShown
  <2> SUFFICES ASSUME ReadersInv, ~unseen, NEW r \in DOMAIN rr.readers
               PROVE  Shown(r)
    BY DEF ReaderShown
  <2>1. RingrInv(rr, pushed, acked) /\ r \in DOMAIN acked
    BY RingrParts DEF ReadersInv
  <2> QED
    BY <2>1, ShownFacts DEF Shown
<1> QED
  BY <1>1, <1>2, <1>3, PTL DEF Spec


-----------------------------------------------------------------------------
(* The theorem about the iterators.                                        *)

\* Both sides of a tee yield every element of the source, in order, the queues
\* between them lose no ring, and the chunks of a chain split its elements,
\* whatever the order in which the iterators are used and wherever
\* rbh_ring_new() fails, for every source, every size of the rings and of the
\* chunks and every chain (tee_iter_next(), chunk_iter_next()).
THEOREM IteratorsGiveAll == Spec => []IteratorsYieldAll
<1>1. Init => TeeInv /\ ChunkInv
  BY TeeStart, ChunkStart DEF Init
<1>2. TeeInv /\ ChunkInv /\ [Next]_vars => TeeInv' /\ ChunkInv'
  <2> SUFFICES ASSUME TeeInv, ChunkInv, [Next]_vars
               PROVE  TeeInv' /\ ChunkInv'
    OBVIOUS
  <2>1. TeeNext \/ UNCHANGED teeVars
    BY DEF Next, vars
  <2>2. ChunksNext \/ UNCHANGED chunkVars
    BY DEF Next, vars
  <2>3. TeeInv'
    BY <2>1, TeeStep, TeeStutter
  <2>4. ChunkInv'
    BY <2>2, ChunkStep, ChunkStutter
  <2> QED
    BY <2>3, <2>4
<1>3. TeeInv /\ ChunkInv => IteratorsYieldAll
  BY TeeIsWhole, TeeKeepsRings, ChunksAreParted DEF IteratorsYieldAll
<1> QED
  BY <1>1, <1>2, <1>3, PTL DEF Spec
====
