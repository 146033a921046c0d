----------------------------- MODULE PoolProofs -----------------------------
(***************************************************************************)
(* What the operators of FsEventPool do to a pool: it stays consistent, and*)
(* a push changes one list, in one of five ways.                           *)
(***************************************************************************)
EXTENDS FsEventPool, FiniteSets, FiniteSetTheorems, WellFoundedInduction, TLAPS

-----------------------------------------------------------------------------
(* Numbers and sequences.                                                  *)

\* Every nonempty set of natural numbers has a least element.
LEMMA LeastNatural ==
    ASSUME NEW T \in SUBSET Nat, T # {}
    PROVE  \E x \in T : \A y \in T : x <= y
<1>1. \E R : IsWellFoundedOn(R, Nat) /\ \A x, y \in Nat : y < x => <<y, x>> \in R
  <2>1. IsWellFoundedOn(OpToRel(<, Nat), Nat)
    BY NatLessThanWellFounded
  <2>2. \A x, y \in Nat : y < x => <<y, x>> \in OpToRel(<, Nat)
    BY DEF OpToRel
  <2> QED
    BY <2>1, <2>2, Zenon
<1>2. PICK R : IsWellFoundedOn(R, Nat) /\ \A x, y \in Nat : y < x => <<y, x>> \in R
  BY <1>1
<1>3. PICK x \in T : \A y \in T : ~(<<y, x>> \in R)
  BY <1>2, WFMin
<1>4. \A y \in T : ~(y < x)
  BY <1>2, <1>3
<1> QED
  BY <1>4

\* Min picks the least number of a set that is not empty.
LEMMA MinFacts ==
    ASSUME NEW T \in SUBSET Nat, T # {}
    PROVE  Min(T) \in T /\ \A y \in T : Min(T) <= y
BY LeastNatural DEF Min

\* A set of numbers with a bound has a greatest element.
LEMMA MaxFacts ==
    ASSUME NEW b \in Nat, NEW T \in SUBSET (0 .. b), T # {}
    PROVE  Max(T) \in T /\ \A y \in T : Max(T) >= y
<1> DEFINE U == {b - x : x \in T}
<1>1. U \in SUBSET Nat /\ U # {}
  <2>1. \A x \in T : b - x \in Nat
    OBVIOUS
  <2> QED
    BY <2>1
<1>2. PICK u \in U : \A v \in U : u <= v
  BY <1>1, LeastNatural
<1>3. PICK x \in T : u = b - x
  BY <1>2
<1>4. \A y \in T : x >= y
  <2> SUFFICES ASSUME NEW y \in T PROVE x >= y
    OBVIOUS
  <2>1. b - x <= b - y
    BY <1>2, <1>3
  <2> QED
    BY <2>1
<1> QED
  BY <1>4 DEF Max

\* The positions and the elements of a list.
LEMMA Elements ==
    ASSUME NEW S, NEW q \in Seq(S)
    PROVE  Len(q) \in Nat /\ DOMAIN q = 1 .. Len(q) /\ \A n \in 1 .. Len(q) : q[n] \in S
OBVIOUS

\* A list with one element more at its end.
LEMMA AppendFacts ==
    ASSUME NEW S, NEW q \in Seq(S), NEW x \in S
    PROVE  /\ Append(q, x) \in Seq(S) /\ Append(q, x) # <<>>
           /\ Len(q) \in Nat /\ Len(Append(q, x)) = Len(q) + 1
           /\ Append(q, x)[Len(q) + 1] = x
           /\ \A n \in 1 .. Len(q) : Append(q, x)[n] = q[n]
OBVIOUS

\* Two lists, one after the other.
LEMMA ConcatFacts ==
    ASSUME NEW S, NEW q \in Seq(S), NEW r \in Seq(S)
    PROVE  /\ q \o r \in Seq(S) /\ Len(q) \in Nat /\ Len(r) \in Nat
           /\ Len(q \o r) = Len(q) + Len(r)
           /\ \A n \in 1 .. Len(q) : (q \o r)[n] = q[n]
           /\ \A n \in 1 .. Len(r) : (q \o r)[Len(q) + n] = r[n]
OBVIOUS

\* A list with one element more at its front.
LEMMA FrontFacts ==
    ASSUME NEW S, NEW q \in Seq(S), NEW x \in S
    PROVE  /\ <<x>> \o q \in Seq(S) /\ <<x>> \o q # <<>>
           /\ Len(q) \in Nat /\ Len(<<x>> \o q) = Len(q) + 1
           /\ (<<x>> \o q)[1] = x
           /\ \A n \in 1 .. Len(q) : (<<x>> \o q)[n + 1] = q[n]
OBVIOUS

\* A list without its first element.
LEMMA TailFacts ==
    ASSUME NEW S, NEW q \in Seq(S), q # <<>>
    PROVE  /\ Len(q) \in Nat /\ Len(q) >= 1
           /\ Head(q) = q[1] /\ Head(q) \in S
           /\ Tail(q) \in Seq(S) /\ Len(Tail(q)) = Len(q) - 1
           /\ \A n \in 1 .. Len(q) - 1 : Tail(q)[n] = q[n + 1]
OBVIOUS

\* A list without its n-th element.
LEMMA RemoveAtFacts ==
    ASSUME NEW S, NEW q \in Seq(S), NEW n \in 1 .. Len(q)
    PROVE  /\ RemoveAt(q, n) \in Seq(S)
           /\ Len(q) \in Nat /\ Len(RemoveAt(q, n)) = Len(q) - 1
           /\ \A m \in 1 .. Len(q) - 1 :
                 RemoveAt(q, n)[m] = IF m < n THEN q[m] ELSE q[m + 1]
<1>1. n \in Nat /\ Len(q) \in Nat /\ 1 <= n /\ n <= Len(q)
  OBVIOUS
<1>2. /\ SubSeq(q, 1, n - 1) \in Seq(S) /\ Len(SubSeq(q, 1, n - 1)) = n - 1
      /\ \A m \in 1 .. n - 1 : SubSeq(q, 1, n - 1)[m] = q[m]
  BY <1>1
<1>3. /\ SubSeq(q, n + 1, Len(q)) \in Seq(S) /\ Len(SubSeq(q, n + 1, Len(q))) = Len(q) - n
      /\ \A m \in 1 .. Len(q) - n : SubSeq(q, n + 1, Len(q))[m] = q[n + m]
  BY <1>1
<1> DEFINE a == SubSeq(q, 1, n - 1)
           b == SubSeq(q, n + 1, Len(q))
<1> HIDE DEF a, b
<1>4. RemoveAt(q, n) = a \o b
  BY DEF RemoveAt, a, b
<1>5. /\ a \in Seq(S) /\ Len(a) = n - 1 /\ \A m \in 1 .. n - 1 : a[m] = q[m]
      /\ b \in Seq(S) /\ Len(b) = Len(q) - n /\ \A m \in 1 .. Len(q) - n : b[m] = q[n + m]
  BY <1>2, <1>3 DEF a, b
<1>6. /\ a \o b \in Seq(S) /\ Len(a \o b) = Len(q) - 1
      /\ \A m \in 1 .. n - 1 : (a \o b)[m] = q[m]
      /\ \A m \in 1 .. Len(q) - n : (a \o b)[n - 1 + m] = q[n + m]
  <2>3. a \in Seq(S) /\ b \in Seq(S)
    BY <1>5
  <2>1. /\ a \o b \in Seq(S) /\ Len(a \o b) = Len(a) + Len(b)
        /\ \A m \in 1 .. Len(a) : (a \o b)[m] = a[m]
        /\ \A m \in 1 .. Len(b) : (a \o b)[Len(a) + m] = b[m]
    BY <2>3, ConcatFacts
  <2>2. Len(a \o b) = Len(q) - 1
    BY <1>1, <1>5, <2>1
  <2> QED
    BY <1>5, <2>1, <2>2
<1>7. ASSUME NEW m \in 1 .. Len(q) - 1
      PROVE  (a \o b)[m] = IF m < n THEN q[m] ELSE q[m + 1]
  <2>1. CASE m < n
    BY <1>1, <1>6, <2>1
  <2>2. CASE m >= n
    <3>1. m - n + 1 \in 1 .. Len(q) - n
      BY <1>1, <2>2
    <3>2. n - 1 + (m - n + 1) = m /\ n + (m - n + 1) = m + 1
      BY <1>1
    <3>3. (a \o b)[n - 1 + (m - n + 1)] = q[n + (m - n + 1)]
      BY <1>6, <3>1
    <3>4. (a \o b)[m] = q[m + 1]
      BY <3>2, <3>3
    <3> QED
      BY <1>1, <2>2, <3>4
  <2>3. m < n \/ m >= n
    BY <1>1
  <2> QED
    BY <2>1, <2>2, <2>3
<1> QED
  BY <1>1, <1>4, <1>6, <1>7

-----------------------------------------------------------------------------
(* Consistency.                                                            *)

Pools(I, E) ==
    [events : UNION {[S -> Seq(E)] : S \in SUBSET I}, ids : Seq(I), count : Nat,
     need_to_flush : BOOLEAN]

NoDuplicate(ids) == \A m, n \in 1 .. Len(ids) : ids[m] = ids[n] => m = n

\* The hashmap, the list of ids and the count of a pool agree.
Consistent(p, I, E) ==
    /\ p \in Pools(I, E)
    /\ p.count = Len(p.ids) /\ ToSet(p.ids) = DOMAIN p.events
    /\ IsFiniteSet(DOMAIN p.events) /\ p.count = Cardinality(DOMAIN p.events)
    /\ \A i \in DOMAIN p.events : p.events[i] # <<>>
    /\ NoDuplicate(p.ids)

\* The fsevents of an id, none when the pool does not hold it.
List(p, i) == IF Holds(p, i) THEN p.events[i] ELSE <<>>

\* The fields of a pool.
LEMMA PoolParts ==
    ASSUME NEW I, NEW E, NEW p \in Pools(I, E)
    PROVE  /\ DOMAIN p = {"events", "ids", "count", "need_to_flush"}
           /\ DOMAIN p.events \subseteq I /\ p.events \in [DOMAIN p.events -> Seq(E)]
           /\ p.ids \in Seq(I) /\ p.count \in Nat /\ p.need_to_flush \in BOOLEAN
<1>1. p.events \in UNION {[S -> Seq(E)] : S \in SUBSET I}
  BY DEF Pools
<1>2. DOMAIN p.events \subseteq I /\ p.events \in [DOMAIN p.events -> Seq(E)]
  BY <1>1
<1> QED
  BY <1>2 DEF Pools

\* A pool is the record of its four fields.
LEMMA PoolRecord ==
    ASSUME NEW I, NEW E, NEW p \in Pools(I, E)
    PROVE  p = [events |-> p.events, ids |-> p.ids, count |-> p.count,
                need_to_flush |-> p.need_to_flush]
BY DEF Pools

\* What a consistent pool is made of.
LEMMA ConsistentParts ==
    ASSUME NEW I, NEW E, NEW p, Consistent(p, I, E)
    PROVE  /\ p \in Pools(I, E)
           /\ DOMAIN p.events \subseteq I /\ p.events \in [DOMAIN p.events -> Seq(E)]
           /\ p.ids \in Seq(I) /\ p.count \in Nat /\ p.need_to_flush \in BOOLEAN
           /\ p.count = Len(p.ids) /\ ToSet(p.ids) = DOMAIN p.events
           /\ IsFiniteSet(DOMAIN p.events) /\ p.count = Cardinality(DOMAIN p.events)
           /\ \A i \in DOMAIN p.events : p.events[i] # <<>>
           /\ NoDuplicate(p.ids)
<1>1. p \in Pools(I, E)
  BY DEF Consistent
<1> QED
  BY <1>1, PoolParts DEF Consistent

\* A pool made of parts that agree is consistent.
LEMMA ConsistentMade ==
    ASSUME NEW I, NEW E, NEW events, NEW ids \in Seq(I), NEW count \in Nat,
           NEW need_to_flush \in BOOLEAN, DOMAIN events \subseteq I,
           events \in [DOMAIN events -> Seq(E)],
           count = Len(ids), ToSet(ids) = DOMAIN events, NoDuplicate(ids),
           IsFiniteSet(DOMAIN events), count = Cardinality(DOMAIN events),
           \A i \in DOMAIN events : events[i] # <<>>,
           NEW q, q = [events |-> events, ids |-> ids, count |-> count,
                       need_to_flush |-> need_to_flush]
    PROVE  Consistent(q, I, E)
<1>1. events \in UNION {[S -> Seq(E)] : S \in SUBSET I}
  OBVIOUS
<1>2. q \in Pools(I, E)
  BY <1>1 DEF Pools
<1>3. q.events = events /\ q.ids = ids /\ q.count = count
  OBVIOUS
<1> QED
  BY <1>2, <1>3 DEF Consistent

\* The elements of a list, by position.
LEMMA ToSetFacts ==
    ASSUME NEW I, NEW ids \in Seq(I)
    PROVE  ToSet(ids) = {ids[n] : n \in 1 .. Len(ids)}
BY DEF ToSet

\* id_list_find and rbh_list_del take one id out of the list.
LEMMA IdsWithout ==
    ASSUME NEW I, NEW ids \in Seq(I), NoDuplicate(ids), NEW id \in ToSet(ids)
    PROVE  LET rest == RemoveAt(ids, id_list_find(ids, id))
           IN  /\ rest \in Seq(I) /\ Len(rest) = Len(ids) - 1
               /\ ToSet(rest) = ToSet(ids) \ {id} /\ NoDuplicate(rest)
<1> DEFINE n == id_list_find(ids, id)
           rest == RemoveAt(ids, n)
<1>1. n \in 1 .. Len(ids) /\ ids[n] = id
  BY ToSetFacts DEF id_list_find
<1> HIDE DEF n
<1>2. /\ rest \in Seq(I) /\ Len(ids) \in Nat /\ Len(rest) = Len(ids) - 1
      /\ \A m \in 1 .. Len(ids) - 1 : rest[m] = IF m < n THEN ids[m] ELSE ids[m + 1]
  BY <1>1, RemoveAtFacts
<1> HIDE DEF rest
<1>3. \A m \in 1 .. Len(rest) :
         LET k == IF m < n THEN m ELSE m + 1
         IN  k \in 1 .. Len(ids) /\ k # n /\ rest[m] = ids[k]
  BY <1>1, <1>2
<1>4. ToSet(rest) \subseteq ToSet(ids) \ {id}
  <2> SUFFICES ASSUME NEW m \in 1 .. Len(rest)
               PROVE  rest[m] \in ToSet(ids) /\ rest[m] # id
    <3>1. ToSet(rest) = {rest[m] : m \in 1 .. Len(rest)}
      BY <1>2, ToSetFacts
    <3> QED
      BY <3>1
  <2> QED
    BY <1>1, <1>3, ToSetFacts DEF NoDuplicate
<1>5. ToSet(ids) \ {id} \subseteq ToSet(rest)
  <2> SUFFICES ASSUME NEW k \in 1 .. Len(ids), ids[k] # id
               PROVE  \E m \in 1 .. Len(rest) : rest[m] = ids[k]
    <3>1. ToSet(ids) = {ids[k] : k \in 1 .. Len(ids)}
      BY ToSetFacts
    <3>2. ToSet(rest) = {rest[m] : m \in 1 .. Len(rest)}
      BY <1>2, ToSetFacts
    <3> QED
      BY <3>1, <3>2
  <2>1. CASE k < n
    <3>1. k \in 1 .. Len(ids) - 1 /\ k \in 1 .. Len(rest)
      BY <1>1, <1>2, <2>1
    <3> QED
      BY <1>2, <2>1, <3>1
  <2>2. CASE k > n
    <3>1. k - 1 \in 1 .. Len(ids) - 1 /\ k - 1 \in 1 .. Len(rest) /\ ~(k - 1 < n)
          /\ (k - 1) + 1 = k
      BY <1>1, <1>2, <2>2
    <3>2. rest[k - 1] = ids[(k - 1) + 1]
      BY <1>2, <3>1
    <3> QED
      BY <3>1, <3>2
  <2>3. k < n \/ k > n
    BY <1>1
  <2> QED
    BY <2>1, <2>2, <2>3
<1>6. NoDuplicate(rest)
  <2> SUFFICES ASSUME NEW a \in 1 .. Len(rest), NEW b \in 1 .. Len(rest), rest[a] = rest[b]
               PROVE  a = b
    BY DEF NoDuplicate
  <2>1. (IF a < n THEN a ELSE a + 1) = (IF b < n THEN b ELSE b + 1)
    BY <1>3 DEF NoDuplicate
  <2> QED
    BY <1>1, <1>2, <2>1
<1> QED
  BY <1>2, <1>4, <1>5, <1>6 DEF n, rest

\* The list of ids, with one id more.
LEMMA IdsWith ==
    ASSUME NEW I, NEW ids \in Seq(I), NoDuplicate(ids), NEW id \in I, id \notin ToSet(ids)
    PROVE  /\ Append(ids, id) \in Seq(I) /\ Len(Append(ids, id)) = Len(ids) + 1
           /\ ToSet(Append(ids, id)) = ToSet(ids) \cup {id}
           /\ NoDuplicate(Append(ids, id))
<1> DEFINE r == Append(ids, id)
<1>1. /\ r \in Seq(I) /\ Len(ids) \in Nat /\ Len(r) = Len(ids) + 1 /\ r[Len(ids) + 1] = id
      /\ \A n \in 1 .. Len(ids) : r[n] = ids[n]
  BY AppendFacts
<1> HIDE DEF r
<1>2. \A n \in 1 .. Len(r) : (n \in 1 .. Len(ids) /\ r[n] = ids[n])
                             \/ (n = Len(ids) + 1 /\ r[n] = id)
  BY <1>1
<1>3. ToSet(r) = ToSet(ids) \cup {id}
  <2>1. ToSet(r) \subseteq ToSet(ids) \cup {id}
    BY <1>1, <1>2, ToSetFacts
  <2>2. id \in ToSet(r)
    <3>1. Len(ids) + 1 \in 1 .. Len(r)
      BY <1>1
    <3> QED
      BY <1>1, <3>1, ToSetFacts
  <2>3. ToSet(ids) \subseteq ToSet(r)
    <3>1. \A n \in 1 .. Len(ids) : n \in 1 .. Len(r)
      BY <1>1
    <3> QED
      BY <1>1, <3>1, ToSetFacts
  <2> QED
    BY <2>1, <2>2, <2>3
<1>4. NoDuplicate(r)
  BY <1>2, ToSetFacts DEF NoDuplicate
<1> QED
  BY <1>1, <1>3, <1>4 DEF r

\* The id of an fsevent becomes the last used one.
LEMMA TouchFacts ==
    ASSUME NEW I, NEW E, NEW p, Consistent(p, I, E), NEW id, Holds(p, id)
    PROVE  /\ Consistent(Touch(p, id), I, E)
           /\ Touch(p, id).events = p.events /\ Touch(p, id).count = p.count
           /\ Touch(p, id).need_to_flush = p.need_to_flush
<1>p. /\ p \in Pools(I, E)
      /\ DOMAIN p.events \subseteq I /\ p.events \in [DOMAIN p.events -> Seq(E)]
      /\ p.ids \in Seq(I) /\ p.count \in Nat /\ p.need_to_flush \in BOOLEAN
      /\ p.count = Len(p.ids) /\ ToSet(p.ids) = DOMAIN p.events
      /\ IsFiniteSet(DOMAIN p.events) /\ p.count = Cardinality(DOMAIN p.events)
      /\ \A i \in DOMAIN p.events : p.events[i] # <<>>
      /\ NoDuplicate(p.ids)
  BY ConsistentParts
<1>1. id \in ToSet(p.ids) /\ id \in I
  BY <1>p DEF Holds
<1> DEFINE rest == RemoveAt(p.ids, id_list_find(p.ids, id))
           q == Touch(p, id)
<1>2. /\ rest \in Seq(I) /\ Len(rest) = Len(p.ids) - 1
      /\ ToSet(rest) = ToSet(p.ids) \ {id} /\ NoDuplicate(rest)
  BY <1>p, <1>1, IdsWithout
<1>4. q = [p EXCEPT !.ids = Append(rest, id)]
  BY DEF Touch
<1> HIDE DEF rest
<1>3. /\ Append(rest, id) \in Seq(I) /\ Len(Append(rest, id)) = Len(rest) + 1
      /\ ToSet(Append(rest, id)) = ToSet(rest) \cup {id}
      /\ NoDuplicate(Append(rest, id))
  <2>1. rest \in Seq(I) /\ NoDuplicate(rest) /\ id \notin ToSet(rest)
    BY <1>2
  <2> QED
    BY <1>1, <2>1, IdsWith
<1> DEFINE ids == Append(rest, id)
<1> HIDE DEF ids
<1>5. q = [events |-> p.events, ids |-> ids, count |-> p.count,
           need_to_flush |-> p.need_to_flush]
  <2>1. p = [events |-> p.events, ids |-> p.ids, count |-> p.count,
             need_to_flush |-> p.need_to_flush]
    BY <1>p, PoolRecord
  <2> QED
    BY <1>4, <2>1 DEF ids
<1> HIDE DEF q
<1>6. p.count = Len(ids) /\ ToSet(ids) = DOMAIN p.events /\ ids \in Seq(I) /\ NoDuplicate(ids)
  <2>1. ToSet(ids) = DOMAIN p.events /\ ids \in Seq(I) /\ NoDuplicate(ids)
    BY <1>p, <1>1, <1>2, <1>3 DEF ids
  <2>2. p.count = Len(ids)
    <3>1. p.count \in Nat /\ p.count = Len(p.ids) /\ Len(rest) = Len(p.ids) - 1
          /\ Len(ids) = Len(rest) + 1
      BY <1>p, <1>2, <1>3 DEF ids
    <3> QED
      BY <3>1
  <2> QED
    BY <2>1, <2>2
<1>7. Consistent(q, I, E)
  BY <1>p, <1>5, <1>6, ConsistentMade
<1> QED
  BY <1>5, <1>7 DEF q

\* The list of an id that the pool holds is changed.
LEMMA SetFacts ==
    ASSUME NEW I, NEW E, NEW p, Consistent(p, I, E), NEW id, Holds(p, id),
           NEW list \in Seq(E), list # <<>>
    PROVE  /\ Consistent(SetEvents(p, id, list), I, E)
           /\ SetEvents(p, id, list).count = p.count
           /\ SetEvents(p, id, list).need_to_flush = p.need_to_flush
           /\ DOMAIN SetEvents(p, id, list).events = DOMAIN p.events
           /\ List(SetEvents(p, id, list), id) = list
           /\ \A i : i # id => List(SetEvents(p, id, list), i) = List(p, i)
<1>p. /\ p \in Pools(I, E)
      /\ DOMAIN p.events \subseteq I /\ p.events \in [DOMAIN p.events -> Seq(E)]
      /\ p.ids \in Seq(I) /\ p.count \in Nat /\ p.need_to_flush \in BOOLEAN
      /\ p.count = Len(p.ids) /\ ToSet(p.ids) = DOMAIN p.events
      /\ IsFiniteSet(DOMAIN p.events) /\ p.count = Cardinality(DOMAIN p.events)
      /\ \A i \in DOMAIN p.events : p.events[i] # <<>>
      /\ NoDuplicate(p.ids)
  BY ConsistentParts
<1> DEFINE q == SetEvents(p, id, list)
           events == [i \in DOMAIN p.events \cup {id} |-> IF i = id THEN list ELSE p.events[i]]
<1>1. id \in DOMAIN p.events /\ DOMAIN p.events \cup {id} = DOMAIN p.events
  BY DEF Holds
<1>a. q = [p EXCEPT !.events = events]
  BY DEF SetEvents
<1>3. /\ DOMAIN events = DOMAIN p.events /\ events \in [DOMAIN events -> Seq(E)]
      /\ \A i \in DOMAIN events : events[i] # <<>>
      /\ events[id] = list /\ \A i \in DOMAIN events : i # id => events[i] = p.events[i]
  BY <1>p, <1>1
<1> HIDE DEF events
<1>2. q = [events |-> events, ids |-> p.ids, count |-> p.count,
           need_to_flush |-> p.need_to_flush]
  <2>1. p = [events |-> p.events, ids |-> p.ids, count |-> p.count,
             need_to_flush |-> p.need_to_flush]
    BY <1>p, PoolRecord
  <2> QED
    BY <1>a, <2>1
<1> HIDE DEF q
<1>5. q.events = events /\ q.count = p.count /\ q.need_to_flush = p.need_to_flush
  BY <1>2
<1>6. Consistent(q, I, E)
  <2>1. DOMAIN events \subseteq I /\ ToSet(p.ids) = DOMAIN events
        /\ IsFiniteSet(DOMAIN events) /\ p.count = Cardinality(DOMAIN events)
    BY <1>p, <1>3
  <2>2. \A i \in DOMAIN events : events[i] # <<>>
    BY <1>3
  <2>3. events \in [DOMAIN events -> Seq(E)]
    BY <1>3
  <2> QED
    BY <1>p, <1>2, <2>1, <2>2, <2>3, ConsistentMade
<1>7. List(q, id) = list /\ \A i : i # id => List(q, i) = List(p, i)
  BY <1>1, <1>3, <1>5 DEF List, Holds
<1> QED
  BY <1>3, <1>5, <1>6, <1>7 DEF q

\* An id leaves the pool.
LEMMA RemoveFacts ==
    ASSUME NEW I, NEW E, NEW p, Consistent(p, I, E), NEW id, Holds(p, id)
    PROVE  /\ Consistent(remove_event_list(p, id), I, E)
           /\ p.count \in Nat /\ remove_event_list(p, id).count = p.count - 1
           /\ remove_event_list(p, id).need_to_flush = p.need_to_flush
           /\ ~Holds(remove_event_list(p, id), id)
           /\ DOMAIN remove_event_list(p, id).events = DOMAIN p.events \ {id}
           /\ \A i : i # id => List(remove_event_list(p, id), i) = List(p, i)
<1>p. /\ p \in Pools(I, E)
      /\ DOMAIN p.events \subseteq I /\ p.events \in [DOMAIN p.events -> Seq(E)]
      /\ p.ids \in Seq(I) /\ p.count \in Nat /\ p.need_to_flush \in BOOLEAN
      /\ p.count = Len(p.ids) /\ ToSet(p.ids) = DOMAIN p.events
      /\ IsFiniteSet(DOMAIN p.events) /\ p.count = Cardinality(DOMAIN p.events)
      /\ \A i \in DOMAIN p.events : p.events[i] # <<>>
      /\ NoDuplicate(p.ids)
  BY ConsistentParts
<1> DEFINE q == remove_event_list(p, id)
           events == [i \in DOMAIN p.events \ {id} |-> p.events[i]]
           rest == RemoveAt(p.ids, id_list_find(p.ids, id))
<1>1. id \in DOMAIN p.events /\ id \in ToSet(p.ids)
  BY <1>p DEF Holds
<1>a. q = [p EXCEPT !.events = events, !.ids = rest, !.count = p.count - 1]
  BY DEF remove_event_list
<1>3. /\ rest \in Seq(I) /\ Len(rest) = Len(p.ids) - 1
      /\ ToSet(rest) = ToSet(p.ids) \ {id} /\ NoDuplicate(rest)
  BY <1>p, <1>1, IdsWithout
<1> HIDE DEF rest
<1>4. /\ DOMAIN events = DOMAIN p.events \ {id} /\ events \in [DOMAIN events -> Seq(E)]
      /\ \A i \in DOMAIN events : events[i] # <<>>
      /\ \A i \in DOMAIN events : events[i] = p.events[i]
  BY <1>p, <1>1
<1> HIDE DEF events
<1>2. q = [events |-> events, ids |-> rest, count |-> p.count - 1,
           need_to_flush |-> p.need_to_flush]
  <2>1. p = [events |-> p.events, ids |-> p.ids, count |-> p.count,
             need_to_flush |-> p.need_to_flush]
    BY <1>p, PoolRecord
  <2> QED
    BY <1>a, <2>1
<1> HIDE DEF q
<1>5. /\ IsFiniteSet(DOMAIN events) /\ p.count - 1 \in Nat
      /\ Cardinality(DOMAIN events) = p.count - 1
  <2>2. IsFiniteSet(DOMAIN events) /\ Cardinality(DOMAIN events) = p.count - 1
    <3>1. IsFiniteSet(DOMAIN p.events)
      BY <1>p
    <3>2. /\ IsFiniteSet(DOMAIN p.events \ {id})
          /\ Cardinality(DOMAIN p.events \ {id}) = Cardinality(DOMAIN p.events) - 1
      BY <1>1, <3>1, FS_RemoveElement
    <3> QED
      BY <1>p, <1>4, <3>2
  <2>3. Cardinality(DOMAIN events) \in Nat
    BY <2>2, FS_CardinalityType
  <2> QED
    BY <2>2, <2>3
<1>7. q.events = events /\ q.count = p.count - 1 /\ q.need_to_flush = p.need_to_flush
  BY <1>2
<1>8. Consistent(q, I, E)
  <2>1. p.count - 1 = Len(rest)
    BY <1>p, <1>3
  <2>2. DOMAIN events \subseteq I /\ ToSet(rest) = DOMAIN events
    BY <1>p, <1>3, <1>4
  <2>3. \A i \in DOMAIN events : events[i] # <<>>
    BY <1>4
  <2>4. events \in [DOMAIN events -> Seq(E)] /\ NoDuplicate(rest) /\ rest \in Seq(I)
    BY <1>3, <1>4
  <2>5. p.need_to_flush \in BOOLEAN
    BY <1>p
  <2> QED
    BY <1>2, <1>5, <2>1, <2>2, <2>3, <2>4, <2>5, ConsistentMade
<1>9. \A i : i # id => List(q, i) = List(p, i)
  BY <1>4, <1>7 DEF List, Holds
<1> QED
  BY <1>p, <1>4, <1>7, <1>8, <1>9 DEF q, Holds

WithList(p, id, list) ==
    [SetEvents(p, id, list) EXCEPT !.ids = Append(@, id), !.count = @ + 1]

\* The pool holds one more id: what rbh_fsevent_pool_insert_new_entry does, and
\* dedup_unlink_event when it puts a list back.
LEMMA AddFacts ==
    ASSUME NEW I, NEW E, NEW p, Consistent(p, I, E), NEW id \in I, ~Holds(p, id),
           NEW list \in Seq(E), list # <<>>,
           NEW q, q = WithList(p, id, list)
    PROVE  /\ Consistent(q, I, E) /\ p.count \in Nat /\ q.count = p.count + 1
           /\ q.need_to_flush = p.need_to_flush
           /\ DOMAIN q.events = DOMAIN p.events \cup {id}
           /\ List(q, id) = list /\ \A i : i # id => List(q, i) = List(p, i)
<1>p. /\ p \in Pools(I, E)
      /\ DOMAIN p.events \subseteq I /\ p.events \in [DOMAIN p.events -> Seq(E)]
      /\ p.ids \in Seq(I) /\ p.count \in Nat /\ p.need_to_flush \in BOOLEAN
      /\ p.count = Len(p.ids) /\ ToSet(p.ids) = DOMAIN p.events
      /\ IsFiniteSet(DOMAIN p.events) /\ p.count = Cardinality(DOMAIN p.events)
      /\ \A i \in DOMAIN p.events : p.events[i] # <<>>
      /\ NoDuplicate(p.ids)
  BY ConsistentParts
<1> DEFINE events == [i \in DOMAIN p.events \cup {id} |->
                        IF i = id THEN list ELSE p.events[i]]
           ids == Append(p.ids, id)
<1>1. id \notin DOMAIN p.events /\ id \notin ToSet(p.ids)
  BY <1>p DEF Holds
<1>a. SetEvents(p, id, list) = [p EXCEPT !.events = events]
  BY DEF SetEvents
<1>3. /\ ids \in Seq(I) /\ Len(ids) = Len(p.ids) + 1
      /\ ToSet(ids) = ToSet(p.ids) \cup {id} /\ NoDuplicate(ids)
  BY <1>p, <1>1, IdsWith
<1>4. /\ DOMAIN events = DOMAIN p.events \cup {id} /\ events \in [DOMAIN events -> Seq(E)]
      /\ \A i \in DOMAIN events : events[i] # <<>>
      /\ events[id] = list /\ \A i \in DOMAIN events : i # id => events[i] = p.events[i]
  BY <1>p, <1>1
<1> HIDE DEF events
<1>2. q = [events |-> events, ids |-> ids, count |-> p.count + 1,
           need_to_flush |-> p.need_to_flush]
  <2>1. p = [events |-> p.events, ids |-> p.ids, count |-> p.count,
             need_to_flush |-> p.need_to_flush]
    BY <1>p, PoolRecord
  <2> DEFINE s == SetEvents(p, id, list)
  <2>2. s = [events |-> events, ids |-> p.ids, count |-> p.count,
             need_to_flush |-> p.need_to_flush]
    BY <1>a, <2>1
  <2>3. q = [s EXCEPT !.ids = Append(s.ids, id), !.count = s.count + 1]
    BY DEF WithList
  <2> HIDE DEF s
  <2>4. s.ids = p.ids /\ s.count = p.count
    BY <2>2
  <2>5. q = [s EXCEPT !.ids = ids, !.count = p.count + 1]
    BY <2>3, <2>4
  <2> HIDE DEF ids
  <2> QED
    BY <2>2, <2>5
<1> HIDE DEF ids
<1>5. IsFiniteSet(DOMAIN events) /\ Cardinality(DOMAIN events) = p.count + 1
  <2>1. IsFiniteSet(DOMAIN p.events)
    BY <1>p
  <2>2. /\ IsFiniteSet(DOMAIN p.events \cup {id})
        /\ Cardinality(DOMAIN p.events \cup {id}) = Cardinality(DOMAIN p.events) + 1
    BY <1>1, <2>1, FS_AddElement
  <2> QED
    BY <1>p, <1>4, <2>2
<1>7. q.events = events /\ q.count = p.count + 1 /\ q.need_to_flush = p.need_to_flush
  BY <1>2
<1>8. Consistent(q, I, E)
  <2>1. p.count + 1 = Len(ids) /\ p.count + 1 \in Nat
    <3>1. p.count \in Nat /\ p.count = Len(p.ids) /\ Len(ids) = Len(p.ids) + 1
      BY <1>p, <1>3
    <3> QED
      BY <3>1
  <2>2. DOMAIN events \subseteq I /\ ToSet(ids) = DOMAIN events
    BY <1>p, <1>3, <1>4
  <2>3. \A i \in DOMAIN events : events[i] # <<>>
    BY <1>4
  <2>4. events \in [DOMAIN events -> Seq(E)] /\ NoDuplicate(ids) /\ ids \in Seq(I)
    BY <1>3, <1>4
  <2>5. p.need_to_flush \in BOOLEAN
    BY <1>p
  <2> QED
    BY <1>2, <1>5, <2>1, <2>2, <2>3, <2>4, <2>5, ConsistentMade
<1>9. List(q, id) = list /\ \A i : i # id => List(q, i) = List(p, i)
  BY <1>4, <1>7 DEF List, Holds
<1> QED
  BY <1>p, <1>4, <1>7, <1>8, <1>9

-----------------------------------------------------------------------------
(* What a list holds, in no order.                                         *)

\* The empty list holds nothing.
LEMMA ToSetEmpty == ToSet(<<>>) = {}
BY DEF ToSet

\* An element more at the end.
LEMMA ToSetAppend ==
    ASSUME NEW S, NEW q \in Seq(S), NEW x \in S
    PROVE  ToSet(Append(q, x)) = ToSet(q) \cup {x}
<1> DEFINE r == Append(q, x)
<1>1. /\ r \in Seq(S) /\ Len(q) \in Nat /\ Len(r) = Len(q) + 1 /\ r[Len(q) + 1] = x
      /\ \A n \in 1 .. Len(q) : r[n] = q[n]
  BY AppendFacts
<1> HIDE DEF r
<1>2. ToSet(r) = {r[n] : n \in 1 .. Len(r)} /\ ToSet(q) = {q[n] : n \in 1 .. Len(q)}
  BY <1>1, ToSetFacts
<1>3. \A n \in 1 .. Len(r) : n \in 1 .. Len(q) \/ n = Len(q) + 1
  BY <1>1
<1>4. Len(q) + 1 \in 1 .. Len(r) /\ \A n \in 1 .. Len(q) : n \in 1 .. Len(r)
  BY <1>1
<1>5. ToSet(r) = ToSet(q) \cup {x}
  BY <1>1, <1>2, <1>3, <1>4
<1> QED
  BY <1>5 DEF r

\* Two lists, one after the other.
LEMMA ToSetConcat ==
    ASSUME NEW S, NEW q \in Seq(S), NEW r \in Seq(S)
    PROVE  ToSet(q \o r) = ToSet(q) \cup ToSet(r)
<1> DEFINE c == q \o r
<1>1. /\ c \in Seq(S) /\ Len(q) \in Nat /\ Len(r) \in Nat /\ Len(c) = Len(q) + Len(r)
      /\ \A n \in 1 .. Len(q) : c[n] = q[n]
      /\ \A n \in 1 .. Len(r) : c[Len(q) + n] = r[n]
  BY ConcatFacts
<1> HIDE DEF c
<1>2. /\ ToSet(c) = {c[n] : n \in 1 .. Len(c)} /\ ToSet(q) = {q[n] : n \in 1 .. Len(q)}
      /\ ToSet(r) = {r[n] : n \in 1 .. Len(r)}
  BY <1>1, ToSetFacts
<1>3. \A n \in 1 .. Len(c) : n \in 1 .. Len(q) \/ (n - Len(q) \in 1 .. Len(r)
                                                     /\ n = Len(q) + (n - Len(q)))
  BY <1>1
<1>4. ToSet(c) \subseteq ToSet(q) \cup ToSet(r)
  <2> SUFFICES ASSUME NEW n \in 1 .. Len(c) PROVE c[n] \in ToSet(q) \cup ToSet(r)
    BY <1>2
  <2>1. CASE n \in 1 .. Len(q)
    BY <1>1, <1>2, <2>1
  <2>2. CASE n - Len(q) \in 1 .. Len(r) /\ n = Len(q) + (n - Len(q))
    <3> DEFINE m == n - Len(q)
    <3>1. m \in 1 .. Len(r) /\ n = Len(q) + m
      BY <2>2
    <3> HIDE DEF m
    <3>2. c[n] = r[m]
      BY <1>1, <3>1
    <3> QED
      BY <1>2, <3>1, <3>2
  <2> QED
    BY <1>3, <2>1, <2>2
<1>5. \A n \in 1 .. Len(q) : n \in 1 .. Len(c)
  BY <1>1
<1>6. \A n \in 1 .. Len(r) : Len(q) + n \in 1 .. Len(c)
  BY <1>1
<1>7. ToSet(q) \subseteq ToSet(c)
  BY <1>1, <1>2, <1>5
<1>8. ToSet(r) \subseteq ToSet(c)
  BY <1>1, <1>2, <1>6
<1> QED
  BY <1>4, <1>7, <1>8 DEF c

\* A list of one element.
LEMMA ToSetOne ==
    ASSUME NEW S, NEW x \in S
    PROVE  <<x>> \in Seq(S) /\ ToSet(<<x>>) = {x} /\ Len(<<x>>) = 1 /\ <<x>>[1] = x
<1>1. <<x>> \in Seq(S) /\ Len(<<x>>) = 1 /\ <<x>>[1] = x
  OBVIOUS
<1>2. 1 .. 1 = {1}
  OBVIOUS
<1> DEFINE q == <<x>>
<1> HIDE DEF q
<1>3. q \in Seq(S) /\ Len(q) = 1 /\ q[1] = x
  BY <1>1 DEF q
<1>4. ToSet(q) = {q[n] : n \in 1 .. Len(q)}
  BY <1>3, ToSetFacts
<1>5. ToSet(q) = {x}
  BY <1>2, <1>3, <1>4
<1> QED
  BY <1>1, <1>5 DEF q

\* An element more at the front.
LEMMA ToSetFront ==
    ASSUME NEW S, NEW q \in Seq(S), NEW x \in S
    PROVE  ToSet(<<x>> \o q) = ToSet(q) \cup {x}
<1> DEFINE o == <<x>>
<1> HIDE DEF o
<1>1. o \in Seq(S) /\ ToSet(o) = {x}
  BY ToSetOne DEF o
<1>2. ToSet(o \o q) = ToSet(o) \cup ToSet(q)
  BY <1>1, ToSetConcat
<1> QED
  BY <1>1, <1>2 DEF o

\* The first element, and the others.
LEMMA ToSetTail ==
    ASSUME NEW S, NEW q \in Seq(S), q # <<>>
    PROVE  /\ Head(q) \in S /\ Tail(q) \in Seq(S)
           /\ ToSet(q) = {Head(q)} \cup ToSet(Tail(q))
<1>1. q = <<Head(q)>> \o Tail(q) /\ Head(q) \in S /\ Tail(q) \in Seq(S)
  OBVIOUS
<1> DEFINE h == Head(q)
           t == Tail(q)
<1> HIDE DEF h, t
<1>2. q = <<h>> \o t /\ h \in S /\ t \in Seq(S)
  BY <1>1 DEF h, t
<1>3. ToSet(<<h>> \o t) = ToSet(t) \cup {h}
  BY <1>2, ToSetFront
<1>4. ToSet(q) = ToSet(t) \cup {h}
  BY <1>2, <1>3, Zenon
<1> QED
  BY <1>2, <1>4 DEF h, t

\* An element is at some position.
LEMMA ToSetType ==
    ASSUME NEW S, NEW q \in Seq(S)
    PROVE  /\ ToSet(q) \subseteq S /\ (q # <<>> => ToSet(q) # {})
           /\ \A x : x \in ToSet(q) <=> \E n \in 1 .. Len(q) : q[n] = x
<1>1. ToSet(q) = {q[n] : n \in 1 .. Len(q)}
  BY ToSetFacts
<1>2. q # <<>> => 1 \in 1 .. Len(q)
  OBVIOUS
<1> QED
  BY <1>1, <1>2

\* All elements but the one at a position.
LEMMA ToSetRemoveAt ==
    ASSUME NEW S, NEW q \in Seq(S), NEW n \in 1 .. Len(q)
    PROVE  ToSet(RemoveAt(q, n)) = {q[m] : m \in 1 .. Len(q) \ {n}}
<1> DEFINE rest == RemoveAt(q, n)
<1>2. /\ rest \in Seq(S) /\ Len(q) \in Nat /\ Len(rest) = Len(q) - 1
      /\ \A m \in 1 .. Len(q) - 1 : rest[m] = IF m < n THEN q[m] ELSE q[m + 1]
  BY RemoveAtFacts
<1> HIDE DEF rest
<1>3. ToSet(rest) = {rest[m] : m \in 1 .. Len(rest)}
  BY <1>2, ToSetFacts
<1>4. ASSUME NEW m \in 1 .. Len(rest)
      PROVE  \E k \in 1 .. Len(q) \ {n} : rest[m] = q[k]
  <2>1. CASE m < n
    <3>1. m \in 1 .. Len(q) \ {n} /\ rest[m] = q[m]
      BY <1>2, <2>1
    <3> QED
      BY <3>1
  <2>2. CASE ~(m < n)
    <3>1. m + 1 \in 1 .. Len(q) \ {n} /\ rest[m] = q[m + 1]
      BY <1>2, <2>2
    <3> QED
      BY <3>1
  <2> QED
    BY <2>1, <2>2
<1>5. ASSUME NEW k \in 1 .. Len(q) \ {n}
      PROVE  \E m \in 1 .. Len(rest) : rest[m] = q[k]
  <2>1. CASE k < n
    <3>1. k \in 1 .. Len(rest) /\ rest[k] = q[k]
      BY <1>2, <2>1
    <3> QED
      BY <3>1
  <2>2. CASE ~(k < n)
    <3>1. k - 1 \in 1 .. Len(q) - 1 /\ ~(k - 1 < n) /\ (k - 1) + 1 = k
      BY <1>2, <2>2
    <3>2. rest[k - 1] = q[(k - 1) + 1]
      BY <1>2, <3>1
    <3>3. k - 1 \in 1 .. Len(rest) /\ rest[k - 1] = q[k]
      BY <1>2, <3>1, <3>2
    <3> QED
      BY <3>3
  <2> QED
    BY <2>1, <2>2
<1>6. ToSet(rest) \subseteq {q[m] : m \in 1 .. Len(q) \ {n}}
  BY <1>3, <1>4
<1>7. {q[m] : m \in 1 .. Len(q) \ {n}} \subseteq ToSet(rest)
  BY <1>3, <1>5
<1> QED
  BY <1>6, <1>7 DEF rest

-----------------------------------------------------------------------------
(* What a push does.                                                       *)

Push(p, e) ==
    IF Holds(p, e.id) THEN deduplicate_event(p, e)
                      ELSE rbh_fsevent_pool_insert_new_entry(p, e)

\* The seven ways in which a push of e changes the list L of its id to M.
Changes(L, e, M) ==
    \/ e.type = "LINK" /\ M = <<e>> \o L
    \/ e.type \in {"UPSERT", "XATTR"} /\ M = Append(L, e)
    \/ e.type = "UNLINK" /\ MatchingLinks(L, e) = {} /\ M = Append(L, e)
    \/ /\ e.type \in {"UPSERT", "XATTR"}
       /\ \E n \in OfType(L, e.type) : M = [L EXCEPT ![n] = Merge(L[n], e)]
    \/ e.type = "UNLINK" /\ \E n \in MatchingLinks(L, e) : M = RemoveAt(L, n)
    \/ e.type = "DELETE" /\ OfType(L, "LINK") # {} /\ M = <<>>
    \/ e.type = "DELETE" /\ OfType(L, "LINK") = {} /\ M = <<e>>

\* q is p but for the list of id, which is M.
Becomes(p, q, id, M) ==
    /\ List(q, id) = M /\ \A i : i # id => List(q, i) = List(p, i)
    /\ q.need_to_flush = p.need_to_flush

\* Merging changes only what is to be read and to be added.
LEMMA MergeType ==
    ASSUME NEW I, NEW K, NEW x \in Fsevent(I, K), NEW e \in Fsevent(I, K)
    PROVE  /\ Merge(x, e) \in Fsevent(I, K)
           /\ Merge(x, e).type = x.type /\ Merge(x, e).id = x.id
           /\ Merge(x, e).link = x.link
           /\ Merge(x, e).enrich = x.enrich \cup e.enrich
           /\ Merge(x, e).inc = x.inc + e.inc
<1>1. x.inc + e.inc \in Int
  BY DEF Fsevent
<1>2. x.enrich \cup e.enrich \in SUBSET (Statx \cup Xattrs)
  BY DEF Fsevent
<1> QED
  BY <1>1, <1>2 DEF Fsevent, Merge

\* The fsevent is added to the list of an id that the pool holds: after the
\* others, or before them if it is a LINK.
LEMMA InsertEnd ==
    ASSUME NEW I, NEW E, NEW p, Consistent(p, I, E), NEW e \in E, Holds(p, e.id),
           e.type # "LINK"
    PROVE  /\ Consistent(Insert(p, e), I, E)
           /\ Becomes(p, Insert(p, e), e.id, Append(List(p, e.id), e))
           /\ Insert(p, e).count = p.count
<1> DEFINE L == List(p, e.id)
           M == Append(L, e)
<1>1. L = p.events[e.id] /\ L \in Seq(E)
  <2>1. p.events \in [DOMAIN p.events -> Seq(E)]
    BY ConsistentParts
  <2> QED
    BY <2>1 DEF List, Holds
<1>2. M \in Seq(E) /\ M # <<>>
  BY <1>1, AppendFacts
<1>3. Insert(p, e) = SetEvents(p, e.id, M)
  BY <1>1 DEF Insert
<1> HIDE DEF M
<1>4. /\ Consistent(SetEvents(p, e.id, M), I, E)
      /\ SetEvents(p, e.id, M).count = p.count
      /\ SetEvents(p, e.id, M).need_to_flush = p.need_to_flush
      /\ List(SetEvents(p, e.id, M), e.id) = M
      /\ \A i : i # e.id => List(SetEvents(p, e.id, M), i) = List(p, i)
  BY <1>2, SetFacts
<1>5. Becomes(p, Insert(p, e), e.id, M)
  BY <1>3, <1>4 DEF Becomes
<1> QED
  BY <1>3, <1>4, <1>5 DEF M

\* A LINK goes to the front.
LEMMA InsertFront ==
    ASSUME NEW I, NEW E, NEW p, Consistent(p, I, E), NEW e \in E, Holds(p, e.id),
           e.type = "LINK"
    PROVE  /\ Consistent(Insert(p, e), I, E)
           /\ Becomes(p, Insert(p, e), e.id, <<e>> \o List(p, e.id))
           /\ Insert(p, e).count = p.count
<1> DEFINE L == List(p, e.id)
           M == <<e>> \o L
<1>1. L = p.events[e.id] /\ L \in Seq(E)
  <2>1. p.events \in [DOMAIN p.events -> Seq(E)]
    BY ConsistentParts
  <2> QED
    BY <2>1 DEF List, Holds
<1>2. M \in Seq(E) /\ M # <<>>
  BY <1>1, FrontFacts
<1>3. Insert(p, e) = SetEvents(p, e.id, M)
  BY <1>1 DEF Insert
<1> HIDE DEF M
<1>4. /\ Consistent(SetEvents(p, e.id, M), I, E)
      /\ SetEvents(p, e.id, M).count = p.count
      /\ SetEvents(p, e.id, M).need_to_flush = p.need_to_flush
      /\ List(SetEvents(p, e.id, M), e.id) = M
      /\ \A i : i # e.id => List(SetEvents(p, e.id, M), i) = List(p, i)
  BY <1>2, SetFacts
<1>5. Becomes(p, Insert(p, e), e.id, M)
  BY <1>3, <1>4 DEF Becomes
<1> QED
  BY <1>3, <1>4, <1>5 DEF M

\* dedup_upsert_event and dedup_xattr_event
LEMMA MergedFacts ==
    ASSUME NEW I, NEW K, NEW p, Consistent(p, I, Fsevent(I, K)),
           NEW e \in Fsevent(I, K), Holds(p, e.id), e.type \in {"UPSERT", "XATTR"}
    PROVE  /\ Consistent(dedup_merged_event(p, e), I, Fsevent(I, K))
           /\ \E M : Becomes(p, dedup_merged_event(p, e), e.id, M)
                     /\ Changes(List(p, e.id), e, M)
           /\ dedup_merged_event(p, e).count = p.count
<1> DEFINE L == List(p, e.id)
<1>1. L = p.events[e.id] /\ L \in Seq(Fsevent(I, K))
  <2>1. p.events \in [DOMAIN p.events -> Seq(Fsevent(I, K))]
    BY ConsistentParts
  <2> QED
    BY <2>1 DEF List, Holds
<1>2. CASE OfType(L, e.type) = {}
  <2>1. dedup_merged_event(p, e) = Insert(p, e)
    BY <1>1, <1>2 DEF dedup_merged_event
  <2>2. /\ Consistent(Insert(p, e), I, Fsevent(I, K))
        /\ Becomes(p, Insert(p, e), e.id, Append(L, e))
        /\ Insert(p, e).count = p.count
    <3>1. e.type # "LINK"
      OBVIOUS
    <3> QED
      BY <3>1, InsertEnd
  <2>3. Changes(L, e, Append(L, e))
    BY DEF Changes
  <2> QED
    BY <2>1, <2>2, <2>3
<1>3. CASE OfType(L, e.type) # {}
  <2> DEFINE n == Min(OfType(L, e.type))
             M == [L EXCEPT ![n] = Merge(L[n], e)]
  <2>1. OfType(L, e.type) \in SUBSET Nat /\ OfType(L, e.type) \subseteq 1 .. Len(L)
    BY <1>1 DEF OfType
  <2>2. n \in OfType(L, e.type) /\ n \in 1 .. Len(L)
    BY <1>3, <2>1, MinFacts
  <2>a. dedup_merged_event(p, e) = SetEvents(p, e.id, M)
    BY <1>1, <1>3 DEF dedup_merged_event, MergeInto
  <2> HIDE DEF n
  <2>3. M \in Seq(Fsevent(I, K)) /\ M # <<>>
    <3>1. Merge(L[n], e) \in Fsevent(I, K)
      BY <1>1, <2>2, MergeType
    <3> DEFINE x == Merge(L[n], e)
    <3> HIDE DEF x
    <3>2. [L EXCEPT ![n] = x] \in Seq(Fsevent(I, K)) /\ [L EXCEPT ![n] = x] # <<>>
      BY <1>1, <2>2, <3>1 DEF x
    <3> QED
      BY <3>2 DEF x
  <2>4. Changes(L, e, M)
    BY <2>2 DEF Changes
  <2> HIDE DEF M
  <2>5. /\ Consistent(SetEvents(p, e.id, M), I, Fsevent(I, K))
        /\ SetEvents(p, e.id, M).count = p.count
        /\ SetEvents(p, e.id, M).need_to_flush = p.need_to_flush
        /\ List(SetEvents(p, e.id, M), e.id) = M
        /\ \A i : i # e.id => List(SetEvents(p, e.id, M), i) = List(p, i)
    BY <2>3, SetFacts
  <2>6. Becomes(p, dedup_merged_event(p, e), e.id, M)
    BY <2>a, <2>5 DEF Becomes
  <2> QED
    BY <2>a, <2>4, <2>5, <2>6
<1> QED
  BY <1>2, <1>3

\* dedup_unlink_event
LEMMA UnlinkFacts ==
    ASSUME NEW I, NEW K, NEW p, Consistent(p, I, Fsevent(I, K)),
           NEW e \in Fsevent(I, K), Holds(p, e.id), e.type = "UNLINK"
    PROVE  /\ Consistent(dedup_unlink_event(p, e), I, Fsevent(I, K))
           /\ \E M : Becomes(p, dedup_unlink_event(p, e), e.id, M)
                     /\ Changes(List(p, e.id), e, M)
           /\ p.count \in Nat /\ dedup_unlink_event(p, e).count <= p.count
<1> DEFINE L == List(p, e.id)
           links == MatchingLinks(L, e)
<1>1. L = p.events[e.id] /\ L \in Seq(Fsevent(I, K)) /\ e.id \in I /\ p.count \in Nat
  <2>1. /\ p.events \in [DOMAIN p.events -> Seq(Fsevent(I, K))]
        /\ DOMAIN p.events \subseteq I /\ p.count \in Nat
    BY ConsistentParts
  <2> QED
    BY <2>1 DEF List, Holds
<1>2. CASE links = {}
  <2>1. dedup_unlink_event(p, e) = Insert(p, e)
    BY <1>1, <1>2 DEF dedup_unlink_event
  <2>2. /\ Consistent(Insert(p, e), I, Fsevent(I, K))
        /\ Becomes(p, Insert(p, e), e.id, Append(L, e))
        /\ Insert(p, e).count = p.count
    <3>1. e.type # "LINK"
      OBVIOUS
    <3> QED
      BY <3>1, InsertEnd
  <2>3. Changes(L, e, Append(L, e))
    BY <1>2 DEF Changes
  <2> QED
    BY <1>1, <2>1, <2>2, <2>3
<1>3. CASE links # {}
  <2> DEFINE n == Max(links)
             rest == RemoveAt(L, n)
             removed == remove_event_list(p, e.id)
             q == dedup_unlink_event(p, e)
  <2>1. links \in SUBSET (0 .. Len(L)) /\ Len(L) \in Nat /\ links \subseteq 1 .. Len(L)
    BY <1>1 DEF MatchingLinks, OfType
  <2>2. n \in links /\ n \in 1 .. Len(L)
    BY <1>3, <2>1, MaxFacts
  <2>3. q = IF rest = <<>> THEN removed ELSE WithList(removed, e.id, rest)
    BY <1>1, <1>3 DEF dedup_unlink_event, WithList
  <2>4. Changes(L, e, rest)
    BY <2>2 DEF Changes
  <2> HIDE DEF n
  <2>5. rest \in Seq(Fsevent(I, K))
    BY <1>1, <2>2, RemoveAtFacts
  <2> HIDE DEF rest
  <2>6. /\ Consistent(removed, I, Fsevent(I, K))
        /\ removed.count = p.count - 1
        /\ removed.need_to_flush = p.need_to_flush
        /\ ~Holds(removed, e.id)
        /\ \A i : i # e.id => List(removed, i) = List(p, i)
    BY RemoveFacts
  <2> HIDE DEF removed
  <2>7. CASE rest = <<>>
    <3>1. q = removed /\ List(removed, e.id) = <<>>
      BY <2>3, <2>6, <2>7 DEF List
    <3>2. Becomes(p, q, e.id, rest)
      BY <2>6, <2>7, <3>1 DEF Becomes
    <3>3. Consistent(q, I, Fsevent(I, K)) /\ q.count = p.count - 1
      BY <2>6, <3>1
    <3>4. q.count <= p.count
      BY <1>1, <3>3
    <3> QED
      BY <1>1, <2>4, <3>2, <3>3, <3>4
  <2>8. CASE rest # <<>>
    <3>1. q = WithList(removed, e.id, rest)
      BY <2>3, <2>8
    <3> HIDE DEF q
    <3>2. /\ Consistent(q, I, Fsevent(I, K)) /\ q.count = removed.count + 1
          /\ q.need_to_flush = removed.need_to_flush
          /\ List(q, e.id) = rest /\ \A i : i # e.id => List(q, i) = List(removed, i)
      BY <1>1, <2>5, <2>6, <2>8, <3>1, AddFacts
    <3>3. Becomes(p, q, e.id, rest)
      BY <2>6, <3>2 DEF Becomes
    <3>4. q.count <= p.count
      BY <1>1, <2>6, <3>2
    <3> QED
      BY <1>1, <2>4, <3>2, <3>3, <3>4 DEF q
  <2> QED
    BY <2>7, <2>8
<1> QED
  BY <1>2, <1>3

\* dedup_delete_event
LEMMA DeleteFacts ==
    ASSUME NEW I, NEW K, NEW p, Consistent(p, I, Fsevent(I, K)),
           NEW e \in Fsevent(I, K), Holds(p, e.id), e.type = "DELETE"
    PROVE  /\ Consistent(dedup_delete_event(p, e), I, Fsevent(I, K))
           /\ \E M : Becomes(p, dedup_delete_event(p, e), e.id, M)
                     /\ Changes(List(p, e.id), e, M)
           /\ p.count \in Nat /\ dedup_delete_event(p, e).count <= p.count
<1> DEFINE L == List(p, e.id)
           q == dedup_delete_event(p, e)
<1>1. L = p.events[e.id] /\ p.count \in Nat
  BY ConsistentParts DEF List
<1>2. CASE OfType(L, "LINK") # {}
  <2> DEFINE removed == remove_event_list(p, e.id)
  <2>1. q = removed
    BY <1>1, <1>2 DEF dedup_delete_event
  <2>2. /\ Consistent(removed, I, Fsevent(I, K))
        /\ removed.count = p.count - 1
        /\ removed.need_to_flush = p.need_to_flush
        /\ ~Holds(removed, e.id)
        /\ \A i : i # e.id => List(removed, i) = List(p, i)
    BY RemoveFacts
  <2> HIDE DEF removed
  <2>3. Becomes(p, removed, e.id, <<>>)
    BY <2>2 DEF Becomes, List
  <2>4. Changes(L, e, <<>>)
    BY <1>2 DEF Changes
  <2>5. removed.count <= p.count
    BY <1>1, <2>2
  <2> QED
    BY <1>1, <2>1, <2>2, <2>3, <2>4, <2>5
<1>3. CASE OfType(L, "LINK") = {}
  <2> DEFINE M == <<e>>
  <2>1. q = SetEvents(p, e.id, M)
    BY <1>1, <1>3 DEF dedup_delete_event
  <2>2. Changes(L, e, M)
    BY <1>3 DEF Changes
  <2>3. M \in Seq(Fsevent(I, K)) /\ M # <<>>
    OBVIOUS
  <2> HIDE DEF M
  <2>4. /\ Consistent(SetEvents(p, e.id, M), I, Fsevent(I, K))
        /\ SetEvents(p, e.id, M).count = p.count
        /\ SetEvents(p, e.id, M).need_to_flush = p.need_to_flush
        /\ List(SetEvents(p, e.id, M), e.id) = M
        /\ \A i : i # e.id => List(SetEvents(p, e.id, M), i) = List(p, i)
    BY <2>3, SetFacts
  <2>5. Becomes(p, q, e.id, M)
    BY <2>1, <2>4 DEF Becomes
  <2>6. q.count <= p.count
    BY <1>1, <2>1, <2>4
  <2> QED
    BY <1>1, <2>1, <2>2, <2>4, <2>5, <2>6
<1> QED
  BY <1>2, <1>3

\* A push keeps the pool consistent, changes the list of one id, in one of seven
\* ways, and needs room for an id only when the pool does not hold it.
LEMMA PushFacts ==
    ASSUME NEW I, NEW K, NEW p, Consistent(p, I, Fsevent(I, K)), NEW e \in Fsevent(I, K)
    PROVE  /\ Consistent(Push(p, e), I, Fsevent(I, K))
           /\ \E M : Becomes(p, Push(p, e), e.id, M) /\ Changes(List(p, e.id), e, M)
           /\ p.count \in Nat
           /\ IF Holds(p, e.id) THEN Push(p, e).count <= p.count
                                ELSE Push(p, e).count = p.count + 1
<1>1. CASE Holds(p, e.id)
  <2> DEFINE t == Touch(p, e.id)
  <2>1. /\ Consistent(t, I, Fsevent(I, K)) /\ t.events = p.events /\ t.count = p.count
        /\ t.need_to_flush = p.need_to_flush
    BY <1>1, TouchFacts
  <2>2. /\ Push(p, e) = deduplicate_event(p, e)
        /\ deduplicate_event(p, e) =
             CASE e.type \in {"UPSERT", "XATTR"} -> dedup_merged_event(t, e)
               [] e.type = "LINK" -> Insert(t, e)
               [] e.type = "UNLINK" -> dedup_unlink_event(t, e)
               [] e.type = "DELETE" -> dedup_delete_event(t, e)
    BY <1>1 DEF Push, deduplicate_event
  <2> HIDE DEF t
  <2>3. Holds(t, e.id) /\ \A i : List(t, i) = List(p, i)
    BY <1>1, <2>1 DEF Holds, List
  <2>4. \A q, M : Becomes(t, q, e.id, M) => Becomes(p, q, e.id, M)
    BY <2>1, <2>3 DEF Becomes
  <2>5. p.count \in Nat
    BY ConsistentParts
  <2> DEFINE Good(q) == /\ Consistent(q, I, Fsevent(I, K))
                        /\ \E M : Becomes(t, q, e.id, M) /\ Changes(List(t, e.id), e, M)
                        /\ q.count <= t.count
  <2>6. Good(Push(p, e))
    <3>1. CASE e.type \in {"UPSERT", "XATTR"}
      <4>1. Push(p, e) = dedup_merged_event(t, e)
        BY <2>2, <3>1
      <4>2. /\ Consistent(dedup_merged_event(t, e), I, Fsevent(I, K))
            /\ \E M : Becomes(t, dedup_merged_event(t, e), e.id, M)
                      /\ Changes(List(t, e.id), e, M)
            /\ dedup_merged_event(t, e).count = t.count
        BY <2>1, <2>3, <3>1, MergedFacts
      <4>3. dedup_merged_event(t, e).count <= t.count
        BY <2>1, <2>5, <4>2
      <4> QED
        BY <4>1, <4>2, <4>3
    <3>2. CASE e.type = "LINK"
      <4>1. Push(p, e) = Insert(t, e)
        BY <2>2, <3>2
      <4>2. /\ Consistent(Insert(t, e), I, Fsevent(I, K))
            /\ Becomes(t, Insert(t, e), e.id, <<e>> \o List(t, e.id))
            /\ Insert(t, e).count = t.count
        BY <2>1, <2>3, <3>2, InsertFront
      <4>3. Changes(List(t, e.id), e, <<e>> \o List(t, e.id))
        BY <3>2 DEF Changes
      <4>4. Insert(t, e).count <= t.count
        BY <2>1, <2>5, <4>2
      <4> QED
        BY <4>1, <4>2, <4>3, <4>4
    <3>3. CASE e.type = "UNLINK"
      <4>1. Push(p, e) = dedup_unlink_event(t, e)
        BY <2>2, <3>3
      <4> QED
        BY <2>1, <2>3, <3>3, <4>1, UnlinkFacts
    <3>4. CASE e.type = "DELETE"
      <4>1. Push(p, e) = dedup_delete_event(t, e)
        BY <2>2, <3>4
      <4> QED
        BY <2>1, <2>3, <3>4, <4>1, DeleteFacts
    <3> QED
      BY <3>1, <3>2, <3>3, <3>4 DEF Fsevent
  <2> QED
    BY <1>1, <2>1, <2>3, <2>4, <2>5, <2>6
<1>2. CASE ~Holds(p, e.id)
  <2> DEFINE q == Push(p, e)
             M == <<e>>
  <2>1. q = WithList(p, e.id, M)
    BY <1>2 DEF Push, rbh_fsevent_pool_insert_new_entry, WithList
  <2>2. M \in Seq(Fsevent(I, K)) /\ M # <<>> /\ e.id \in I
    BY DEF Fsevent
  <2>3. List(p, e.id) = <<>>
    BY <1>2 DEF List
  <2>4. Changes(<<>>, e, M)
    <3>1. M = <<e>> \o <<>> /\ M = Append(<<>>, e)
      OBVIOUS
    <3>2. OfType(<<>>, "LINK") = {} /\ MatchingLinks(<<>>, e) = {}
      BY DEF OfType, MatchingLinks
    <3>3. e.type \in {"LINK", "UNLINK", "UPSERT", "XATTR", "DELETE"}
      BY DEF Fsevent
    <3> QED
      BY <3>1, <3>2, <3>3 DEF Changes
  <2> HIDE DEF M, q
  <2>5. /\ Consistent(q, I, Fsevent(I, K)) /\ p.count \in Nat /\ q.count = p.count + 1
        /\ q.need_to_flush = p.need_to_flush
        /\ List(q, e.id) = M /\ \A i : i # e.id => List(q, i) = List(p, i)
    BY <1>2, <2>1, <2>2, AddFacts
  <2>6. Becomes(p, q, e.id, M)
    BY <2>5 DEF Becomes
  <2> QED
    BY <1>2, <2>3, <2>4, <2>5, <2>6 DEF q
<1> QED
  BY <1>1, <1>2

\* The same, for what the lists hold: X before the push of e, Y after it.
Grows(X, e, Y) ==
    /\ e.type \in {"LINK", "UNLINK", "UPSERT", "XATTR"} /\ Y = X \cup {e}
    /\ e.type = "UNLINK" => \A x \in X : ~(x.type = "LINK" /\ x.link = e.link)
Merges(X, e, Y) ==
    /\ e.type \in {"UPSERT", "XATTR"}
    /\ \E x \in X : /\ x.type = e.type /\ Merge(x, e) \in Y
                    /\ Y \subseteq X \cup {Merge(x, e)} /\ X \subseteq Y \cup {x}
Cancels(X, e, Y) ==
    /\ e.type = "UNLINK"
    /\ \E x \in X : /\ x.type = "LINK" /\ x.link = e.link
                    /\ Y \subseteq X /\ X \subseteq Y \cup {x}
Drops(X, e, Y) ==
    e.type = "DELETE" /\ Y = {} /\ \E x \in X : x.type = "LINK"
Replaces(X, e, Y) ==
    e.type = "DELETE" /\ Y = {e} /\ \A x \in X : x.type # "LINK"

\* The seven ways, seen as sets of fsevents.
LEMMA ChangesSets ==
    ASSUME NEW I, NEW K, NEW L \in Seq(Fsevent(I, K)), NEW e \in Fsevent(I, K), NEW M,
           Changes(L, e, M)
    PROVE  /\ M \in Seq(Fsevent(I, K))
           /\ \/ Grows(ToSet(L), e, ToSet(M)) \/ Merges(ToSet(L), e, ToSet(M))
              \/ Cancels(ToSet(L), e, ToSet(M)) \/ Drops(ToSet(L), e, ToSet(M))
              \/ Replaces(ToSet(L), e, ToSet(M))
<1>1. Len(L) \in Nat /\ DOMAIN L = 1 .. Len(L) /\ \A n \in 1 .. Len(L) : L[n] \in Fsevent(I, K)
  BY Elements
<1>2. ToSet(L) = {L[n] : n \in 1 .. Len(L)}
  BY ToSetFacts
<1>3. CASE e.type = "LINK" /\ M = <<e>> \o L
  <2>1. M \in Seq(Fsevent(I, K)) /\ ToSet(M) = ToSet(L) \cup {e}
    BY <1>3, FrontFacts, ToSetFront
  <2> QED
    BY <1>3, <2>1 DEF Grows
<1>4. CASE e.type \in {"UPSERT", "XATTR"} /\ M = Append(L, e)
  <2>1. M \in Seq(Fsevent(I, K)) /\ ToSet(M) = ToSet(L) \cup {e}
    BY <1>4, AppendFacts, ToSetAppend
  <2> QED
    BY <1>4, <2>1 DEF Grows
<1>5. CASE e.type = "UNLINK" /\ MatchingLinks(L, e) = {} /\ M = Append(L, e)
  <2>1. M \in Seq(Fsevent(I, K)) /\ ToSet(M) = ToSet(L) \cup {e}
    BY <1>5, AppendFacts, ToSetAppend
  <2>2. \A n \in 1 .. Len(L) : ~(L[n].type = "LINK" /\ L[n].link = e.link)
    BY <1>1, <1>5 DEF MatchingLinks, OfType
  <2>3. \A x \in ToSet(L) : ~(x.type = "LINK" /\ x.link = e.link)
    BY <1>2, <2>2
  <2> QED
    BY <1>5, <2>1, <2>3 DEF Grows
<1>6. CASE /\ e.type \in {"UPSERT", "XATTR"}
           /\ \E n \in OfType(L, e.type) : M = [L EXCEPT ![n] = Merge(L[n], e)]
  <2>1. PICK n \in OfType(L, e.type) : M = [L EXCEPT ![n] = Merge(L[n], e)]
    BY <1>6
  <2> DEFINE x == Merge(L[n], e)
  <2>2. n \in 1 .. Len(L) /\ L[n].type = e.type /\ x \in Fsevent(I, K)
    BY <1>1, <2>1, MergeType DEF OfType
  <2> HIDE DEF x
  <2>3. /\ M \in Seq(Fsevent(I, K)) /\ Len(M) = Len(L) /\ M[n] = x
        /\ \A m \in 1 .. Len(L) : m # n => M[m] = L[m]
    BY <2>1, <2>2 DEF x
  <2>4. ToSet(M) = {M[m] : m \in 1 .. Len(L)}
    BY <2>3, ToSetFacts
  <2>5. x \in ToSet(M) /\ L[n] \in ToSet(L)
    BY <1>2, <2>2, <2>3, <2>4
  <2>6. ToSet(M) \subseteq ToSet(L) \cup {x}
    BY <1>2, <2>3, <2>4
  <2>7. ToSet(L) \subseteq ToSet(M) \cup {L[n]}
    BY <1>2, <2>3, <2>4
  <2>8. Merges(ToSet(L), e, ToSet(M))
    BY <1>6, <2>2, <2>5, <2>6, <2>7 DEF Merges, x
  <2> QED
    BY <2>3, <2>8
<1>7. CASE e.type = "UNLINK" /\ \E n \in MatchingLinks(L, e) : M = RemoveAt(L, n)
  <2>1. PICK n \in MatchingLinks(L, e) : M = RemoveAt(L, n)
    BY <1>7
  <2>2. n \in 1 .. Len(L) /\ L[n].type = "LINK" /\ L[n].link = e.link
    BY <1>1, <2>1 DEF MatchingLinks, OfType
  <2>a. M \in Seq(Fsevent(I, K))
    BY <2>1, <2>2, RemoveAtFacts
  <2>b. ToSet(M) = {L[m] : m \in 1 .. Len(L) \ {n}}
    BY <2>1, <2>2, ToSetRemoveAt
  <2>3. M \in Seq(Fsevent(I, K)) /\ ToSet(M) = {L[m] : m \in 1 .. Len(L) \ {n}}
    BY <2>a, <2>b
  <2>4. ToSet(M) \subseteq ToSet(L) /\ ToSet(L) \subseteq ToSet(M) \cup {L[n]} /\ L[n] \in ToSet(L)
    BY <1>2, <2>2, <2>3
  <2>5. Cancels(ToSet(L), e, ToSet(M))
    BY <1>7, <2>2, <2>4 DEF Cancels
  <2> QED
    BY <2>3, <2>5
<1>8. CASE e.type = "DELETE" /\ OfType(L, "LINK") # {} /\ M = <<>>
  <2>1. M \in Seq(Fsevent(I, K)) /\ ToSet(M) = {}
    BY <1>8, ToSetEmpty
  <2>2. PICK n \in 1 .. Len(L) : L[n].type = "LINK"
    BY <1>1, <1>8 DEF OfType
  <2>3. L[n] \in ToSet(L)
    BY <1>2
  <2> QED
    BY <1>8, <2>1, <2>2, <2>3 DEF Drops
<1>9. CASE e.type = "DELETE" /\ OfType(L, "LINK") = {} /\ M = <<e>>
  <2>1. M \in Seq(Fsevent(I, K)) /\ ToSet(M) = {e}
    BY <1>9, ToSetOne
  <2>2. \A n \in 1 .. Len(L) : L[n].type # "LINK"
    BY <1>1, <1>9 DEF OfType
  <2>3. \A x \in ToSet(L) : x.type # "LINK"
    BY <1>2, <2>2
  <2> QED
    BY <1>9, <2>1, <2>3 DEF Replaces
<1> QED
  BY <1>3, <1>4, <1>5, <1>6, <1>7, <1>8, <1>9 DEF Changes
=============================================================================
