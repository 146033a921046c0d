----------------------------- MODULE ScanProofs -----------------------------
(***************************************************************************)
(* What is proved of the ways into the POSIX backend, for every file       *)
(* system, whatever its users do and whichever calls fail: what is read of *)
(* one entry is whole (EntryInv), the counters of the crawl by fts are     *)
(* right (CrawlInv), the parallel crawl sends every entry once (MfuInv)    *)
(* and counts the children of every directory (CountInv).                  *)
(***************************************************************************)
EXTENDS Scan, FiniteSetTheorems, SequenceTheorems, TLAPS

-----------------------------------------------------------------------------
(* One entry.                                                              *)

ReadingType ==
    /\ reading \in {"readlink", "list", "measure", "get", "done", "failed"}
    /\ size \in Nat /\ target \in Nat /\ length \in Nat
    /\ names_length \in Nat /\ names \in Seq(STRING)
    /\ listed.size \in Nat /\ listed.names \in Seq(STRING)
    /\ pairs_count \in Nat /\ pairs_count >= PairsCount
    /\ \E n \in Nat : n >= pairs_count /\ DOMAIN pairs = 1 .. n
    /\ skipped \in Nat /\ answers \in Seq(Answers)

\* Before the values are asked for.
Fresh ==
    reading \in {"readlink", "list", "measure"} =>
        names = <<>> /\ answers = <<>> /\ skipped = 0 /\ dangling = {}

PairRight(n) ==
    /\ pairs[Place(n)].key = names[n]
    /\ Right(pairs[Place(n)].value, answers[n].text)

\* What the loop of getxattrs() keeps.
Asked ==
    reading \in {"get", "done"} =>
        /\ Len(answers) <= Len(names) /\ skipped <= Len(answers)
        /\ reading = "done" => Len(answers) = Len(names)
        /\ Len(answers) - skipped = Cardinality(Kept) /\ Cardinality(Kept) <= pairs_count
        /\ \A n \in Kept : Place(n) \notin dangling => PairRight(n)
        /\ \A k \in dangling : k > PairsCount

EntryInv == ReadingType /\ Fresh /\ TargetWhole /\ NamesWhole /\ Asked

LEMMA EntryImplies == EntryInv => EntryWhole
BY DEF EntryInv, EntryWhole, Asked, XattrsKept, PairRight

\* No answer: what is kept of none.
LEMMA NoneKept ==
    ASSUME answers = <<>>
    PROVE  Kept = {} /\ Cardinality(Kept) = 0
<1>1. Kept = {} BY DEF Kept
<1> QED BY <1>1, FS_EmptySet

LEMMA EntryInit == ReadInit => EntryInv
<1> SUFFICES ASSUME ReadInit PROVE EntryInv OBVIOUS
<1> USE DEF ReadInit
<1>1. ReadingType BY EntryAssumption DEF ReadingType
<1>2. Fresh /\ TargetWhole BY DEF Fresh, TargetWhole
<1>3. NamesWhole
  <2>1. listed.size = 0 /\ listed.names = <<>> OBVIOUS
  <2> QED BY <2>1, EntryAssumption DEF NamesWhole, KiB64
<1>4. Asked BY NoneKept, EntryAssumption DEF Asked
<1> QED BY <1>1, <1>2, <1>3, <1>4 DEF EntryInv

\* ceil2() is a power of two that is at least its argument.
LEMMA Ceil2Facts ==
    ASSUME NEW n \in Nat, n > 0, n <= KiB64
    PROVE  ceil2(n) \in Nat /\ ceil2(n) >= n /\ ceil2(n) <= KiB64
<1>1. \E p \in Powers : p >= n /\ p < 2 * n
  <2>1. CASE n <= 16 BY <2>1 DEF Powers
  <2>2. CASE n > 16 /\ n <= 256 BY <2>2 DEF Powers
  <2>3. CASE n > 256 /\ n <= 4096 BY <2>3 DEF Powers
  <2>4. CASE n > 4096 BY <2>4 DEF Powers, KiB64
  <2> QED BY <2>1, <2>2, <2>3, <2>4
<1>2. ceil2(n) \in Powers /\ ceil2(n) >= n BY <1>1 DEF ceil2
<1>3. \A p \in Powers : p \in Nat /\ p <= KiB64 BY DEF Powers, KiB64
<1> QED BY <1>2, <1>3

LEMMA EntryStarts ==
    ASSUME EntryInv, NEW link \in BOOLEAN, NEW hint \in Hints, StartEntry(link, hint)
    PROVE  EntryInv'
<1> USE DEF StartEntry
<1>1. ReadingType'
  <2>1. PICK n \in Nat : n >= pairs_count /\ DOMAIN pairs = 1 .. n BY DEF EntryInv, ReadingType
  <2>2. n >= PairsCount BY <2>1, EntryAssumption DEF EntryInv, ReadingType
  <2>3. (\E k \in Nat : k >= pairs_count /\ DOMAIN pairs = 1 .. k)' BY <2>1, <2>2
  <2>4. listed'.size = 0 /\ listed'.names = <<>> OBVIOUS
  <2>5. size' \in Nat /\ pairs_count' \in Nat /\ pairs_count' >= PairsCount BY EntryAssumption
  <2>6. reading' \in {"readlink", "list"} OBVIOUS
  <2>7. names' \in Seq(STRING) /\ answers' \in Seq(Answers) OBVIOUS
  <2>8. names_length' \in Nat /\ target' \in Nat /\ length' \in Nat /\ skipped' \in Nat
    BY DEF EntryInv, ReadingType
  <2>9. listed'.size \in Nat /\ listed'.names \in Seq(STRING) BY <2>4
  <2> HIDE DEF StartEntry
  <2> QED BY <2>3, <2>5, <2>6, <2>7, <2>8, <2>9 DEF ReadingType
<1>2. Fresh' /\ TargetWhole' BY DEF Fresh, TargetWhole
<1>3. NamesWhole' BY DEF EntryInv, NamesWhole, KiB64
<1>4. Asked' BY DEF Asked
<1> QED BY <1>1, <1>2, <1>3, <1>4 DEF EntryInv

LEMMA EntryFails ==
    ASSUME EntryInv, CallFails PROVE EntryInv'
BY DEF EntryInv, CallFails, ReadingType, Fresh, TargetWhole, NamesWhole, Asked, linkVars,
       listVars, pairVars

LEMMA EntryLink ==
    ASSUME EntryInv, NEW len \in Lengths, freadlink(len) PROVE EntryInv'
<1> USE DEF freadlink, listVars, pairVars
<1>1. ReadingType' BY EntryAssumption, SMTT(30) DEF EntryInv, ReadingType
<1>2. Fresh' BY DEF EntryInv, Fresh
<1>3. TargetWhole' BY DEF EntryInv, TargetWhole, ReadingType
<1>4. NamesWhole' BY DEF EntryInv, NamesWhole
<1>5. Asked' BY DEF EntryInv, Asked
<1> QED BY <1>1, <1>2, <1>3, <1>4, <1>5 DEF EntryInv

LEMMA EntryList ==
    ASSUME EntryInv, NEW list \in NameLists, flistxattrs(list) PROVE EntryInv'
<1> USE DEF flistxattrs, linkVars, pairVars
<1>0. list.size \in Nat /\ list.names \in Seq(STRING) BY EntryAssumption
<1>1. ReadingType'
  <2>1. (\E n \in Nat : n >= pairs_count /\ DOMAIN pairs = 1 .. n)' BY DEF EntryInv, ReadingType
  <2>0. names \in Seq(STRING) /\ <<>> \in Seq(STRING) BY DEF EntryInv, ReadingType
  <2>2. names' \in {<<>>, list.names, names} OBVIOUS
  <2>3. reading' \in {"get", "measure"} OBVIOUS
  <2> QED BY <1>0, <2>0, <2>1, <2>2, <2>3 DEF EntryInv, ReadingType
<1>2. Fresh' BY DEF EntryInv, Fresh
<1>3. TargetWhole' BY DEF EntryInv, TargetWhole
<1>4. NamesWhole' BY <1>0 DEF EntryInv, NamesWhole, ReadingType, KiB64
<1>5. answers = <<>> /\ skipped = 0 /\ dangling = {} BY DEF EntryInv, Fresh
<1>6. Kept = {} /\ Cardinality(Kept) = 0 BY <1>5, NoneKept
<1>7. Kept' = Kept BY DEF Kept
<1>8. Len(names') \in Nat BY <1>1 DEF ReadingType
<1>9. Asked' BY <1>1, <1>5, <1>6, <1>7, <1>8 DEF Asked, ReadingType
<1> QED BY <1>1, <1>2, <1>3, <1>4, <1>9 DEF EntryInv

LEMMA EntryMeasured ==
    ASSUME EntryInv, NEW list \in NameLists, Measure(list) PROVE EntryInv'
<1> USE DEF Measure, linkVars, pairVars
<1>0. list.size \in Nat BY EntryAssumption
<1>1. names_length \in Nat BY DEF EntryInv, ReadingType
<1>2. CASE list.size <= names_length \/ list.size > KiB64
  <2>1. ReadingType' BY <1>2, EntryAssumption DEF EntryInv, ReadingType
  <2>2. Fresh' BY <1>2 DEF EntryInv, Fresh
  <2>3. TargetWhole' BY DEF EntryInv, TargetWhole
  <2>4. NamesWhole' BY <1>2, <1>0, <1>1 DEF EntryInv, NamesWhole, Fresh, KiB64
  <2>5. answers = <<>> /\ skipped = 0 /\ dangling = {} BY DEF EntryInv, Fresh
  <2>6. Kept = {} /\ Cardinality(Kept) = 0 BY <2>5, NoneKept
  <2>7. Kept' = Kept BY DEF Kept
  <2>8. Len(names') \in Nat BY <2>1 DEF ReadingType
  <2>9. Asked' BY <2>1, <2>5, <2>6, <2>7, <2>8 DEF Asked, ReadingType
  <2> QED BY <2>1, <2>2, <2>3, <2>4, <2>9 DEF EntryInv
<1>3. CASE ~(list.size <= names_length \/ list.size > KiB64)
  <2>1. ceil2(list.size) \in Nat /\ ceil2(list.size) <= KiB64
    <3>1. list.size > 0 /\ list.size <= KiB64 BY <1>3, <1>0, <1>1 DEF KiB64
    <3> QED BY <3>1, <1>0, Ceil2Facts
  <2>2. names_length' = ceil2(list.size) /\ reading' = "list" BY <1>3
  <2>3. ReadingType' BY <2>1, <2>2, EntryAssumption DEF EntryInv, ReadingType
  <2>4. Fresh' BY <2>2 DEF EntryInv, Fresh
  <2>5. TargetWhole' BY DEF EntryInv, TargetWhole
  <2>6. NamesWhole' BY <2>1, <2>2 DEF NamesWhole
  <2>7. Asked' BY <2>2 DEF Asked
  <2> QED BY <2>3, <2>4, <2>5, <2>6, <2>7 DEF EntryInv
<1> QED BY <1>2, <1>3

LEMMA EntryEnds ==
    ASSUME EntryInv, EndEntry PROVE EntryInv'
<1> USE DEF EndEntry, linkVars, listVars, pairVars
<1>1. ReadingType' BY DEF EntryInv, ReadingType
<1>2. Fresh' /\ TargetWhole' /\ NamesWhole' BY DEF EntryInv, Fresh, TargetWhole, NamesWhole
<1>3. Kept' = Kept BY DEF Kept
<1>4. \A n : Place(n)' = Place(n) BY <1>3 DEF Place
<1>5. Asked' BY <1>3, <1>4 DEF EntryInv, Asked, PairRight
<1> QED BY <1>1, <1>2, <1>5 DEF EntryInv

-----------------------------------------------------------------------------
(* The loop of getxattrs().                                                *)

\* An attribute is skipped for what getxattr() answered, and for nothing else.
LEMMA GetOneFacts ==
    ASSUME NEW name, NEW answer \in Answers
    PROVE  LET result == GetOne(name, answer)
           IN /\ result.errno \in Gone <=> answer.errno \in Gone
              /\ result.errno = NoError => Right(result.v, answer.text)
<1> DEFINE type == IF name \in DOMAIN xattrs_types THEN xattrs_types[name] ELSE "binary"
           text == answer.text
           value == IF type = "boolean"
                    THEN IF text.text \in {"true", "false"}
                         THEN Ok([type |-> "boolean", v |-> text.text]) ELSE Err("EINVAL")
                    ELSE IF type \in {"int32", "int64"} \cup Unsigned THEN Number(type, text)
                    ELSE Ok([type |-> type, v |-> text.text])
<1>1. create_value_from_xattr(name, text) = value
  <2>1. CASE type = "boolean" BY <2>1 DEF create_value_from_xattr, Unsigned
  <2>2. CASE type # "boolean" /\ type \in {"int32", "int64"} \cup Unsigned
    BY <2>2 DEF create_value_from_xattr
  <2>3. CASE type # "boolean" /\ type \notin {"int32", "int64"} \cup Unsigned
    BY <2>3 DEF create_value_from_xattr
  <2> QED BY <2>1, <2>2, <2>3
<1>2. text.number \in {<<>>} \cup (Int \X Int) BY EntryAssumption
<1>3. NoError \notin Gone /\ NoError # "EINVAL" BY Zenon DEF NoError, Gone
<1>4. Err("EINVAL").errno = "EINVAL" /\ "EINVAL" \notin Gone BY DEF Err, Gone
<1>5. \A v : Ok(v).errno = NoError /\ Ok(v).v = v BY DEF Ok
<1> HIDE DEF text, type
<1>6. \/ value = Err("EINVAL")
      \/ \E v : value = Ok(v) /\ Right(v, text)
  <2>1. CASE type = "boolean"
    <3>1. Right([type |-> "boolean", v |-> text.text], text) BY DEF Right, Narrow
    <3> QED BY <2>1, <3>1
  <2>2. CASE type # "boolean" /\ type \in {"int32", "int64"} \cup Unsigned
    <3>1. value = Number(type, text) BY <2>2
    <3>2. CASE text.number = <<>> \/ (type \in Unsigned /\ text.number[1] < 0)
      BY <3>1, <3>2 DEF Number
    <3>3. CASE ~(text.number = <<>> \/ (type \in Unsigned /\ text.number[1] < 0))
      <4> DEFINE v == [type |-> type,
                       v |-> IF type \in Narrow THEN <<0, text.number[2]>> ELSE text.number]
      <4>1. value = Ok(v) BY <3>1, <3>3 DEF Number
      <4>2. text.number \in Int \X Int BY <3>3, <1>2
      <4>3. text.number[1] = 0 => text.number = <<0, text.number[2]>> BY <4>2
      <4>4. v.type = type /\ v.v = IF type \in Narrow THEN <<0, text.number[2]>> ELSE text.number
        OBVIOUS
      <4>5. type \in Narrow \cup {"int64", "uint64"} BY <2>2 DEF Narrow, Unsigned
      <4> HIDE DEF v
      <4>6. Right(v, text) BY <4>3, <4>4, <4>5 DEF Right
      <4> QED BY <4>1, <4>6
    <3> QED BY <3>2, <3>3
  <2>3. CASE type # "boolean" /\ type \notin {"int32", "int64"} \cup Unsigned
    <3>1. Right([type |-> type, v |-> text.text], text)
      BY <2>3 DEF Right, Narrow, Unsigned
    <3> QED BY <2>3, <3>1
  <2> QED BY <2>1, <2>2, <2>3
<1> HIDE DEF value
<1>7. \/ value.errno = "EINVAL"
      \/ value.errno = NoError /\ Right(value.v, text)
  BY <1>4, <1>5, <1>6
<1>8. CASE answer.errno # NoError
  <2>1. GetOne(name, answer).errno = answer.errno BY <1>8 DEF GetOne, Err
  <2> QED BY <2>1, <1>8
<1>9. CASE answer.errno = NoError
  <2>1. GetOne(name, answer) = value BY <1>9, <1>1 DEF GetOne, text
  <2> QED BY <2>1, <1>7, <1>9, <1>3, <1>4 DEF text
<1> QED BY <1>8, <1>9

LEMMA NoErrorKept == NoError \notin Gone
BY Zenon DEF NoError, Gone

\* The array of pairs has a place for the next attribute, once it has grown.
LEMMA RoomForPair ==
    ASSUME ReadingType, NEW place \in Nat, place >= 1, place <= pairs_count + 1
    PROVE  /\ DOMAIN Grown = 1 .. 2 * pairs_count
           /\ place = pairs_count + 1 => place \in DOMAIN Grown
           /\ place # pairs_count + 1 => place \in DOMAIN pairs
           /\ \A k \in DOMAIN pairs : k <= pairs_count => Grown[k] = pairs[k]
<1>1. PICK n \in Nat : n >= pairs_count /\ DOMAIN pairs = 1 .. n BY DEF ReadingType
<1>2. pairs_count \in Nat /\ pairs_count >= PairsCount BY DEF ReadingType
<1>3. pairs_count >= 1 BY <1>2, EntryAssumption
<1>4. DOMAIN Grown = 1 .. 2 * pairs_count BY DEF Grown
<1>5. place = pairs_count + 1 => place \in DOMAIN Grown BY <1>2, <1>3, <1>4
<1>6. place # pairs_count + 1 => place \in DOMAIN pairs BY <1>1, <1>2
<1>7. \A k \in DOMAIN pairs : k <= pairs_count => Grown[k] = pairs[k] BY <1>1, <1>2 DEF Grown
<1> QED BY <1>4, <1>5, <1>6, <1>7

\* The places of the attributes kept: those before stay where they are, the next
\* one comes after them.
LEMMA KeptGrows ==
    ASSUME answers \in Seq(Answers), NEW answer \in Answers, answers' = Append(answers, answer),
           NEW last, last = Len(answers) + 1
    PROVE  /\ IsFiniteSet(Kept) /\ Cardinality(Kept) \in Nat
           /\ answer.errno \in Gone => Kept' = Kept
           /\ answer.errno \notin Gone =>
                 /\ Kept' = Kept \cup {last}
                 /\ Cardinality(Kept') = Cardinality(Kept) + 1
                 /\ Place(last)' = Cardinality(Kept) + 1
           /\ \A n \in Kept : /\ n \in 1 .. Len(answers) /\ answers'[n] = answers[n]
                              /\ Place(n)' = Place(n)
                              /\ Place(n) \in Nat /\ Place(n) >= 1
                              /\ Place(n) <= Cardinality(Kept)
<1>1. /\ Len(answers) \in Nat /\ DOMAIN answers = 1 .. Len(answers)
      /\ answers' \in Seq(Answers) /\ Len(answers') = last /\ answers'[last] = answer
      /\ \A n \in 1 .. Len(answers) : answers'[n] = answers[n]
  OBVIOUS
<1>2. DOMAIN answers' = 1 .. last BY <1>1
<1>3. Kept \subseteq 1 .. Len(answers) BY <1>1 DEF Kept
<1>4. IsFiniteSet(Kept) /\ Cardinality(Kept) \in Nat
  <2>1. IsFiniteSet(1 .. Len(answers)) BY <1>1, FS_Interval
  <2>2. IsFiniteSet(Kept) BY <2>1, <1>3, FS_Subset
  <2> QED BY <2>2, FS_CardinalityType
<1>5. answer.errno \in Gone => Kept' = Kept BY <1>1, <1>2 DEF Kept
<1>6. answer.errno \notin Gone => Kept' = Kept \cup {last} BY <1>1, <1>2 DEF Kept
<1>7. last \notin Kept BY <1>1, <1>3
<1>8. answer.errno \notin Gone => Cardinality(Kept') = Cardinality(Kept) + 1
  BY <1>4, <1>6, <1>7, FS_AddElement
<1>9. last \in Nat /\ \A m \in Kept' : m \in 1 .. last BY <1>1, <1>2 DEF Kept
<1>10. {m \in Kept' : m <= last} = Kept' BY <1>9
<1>11. Place(last)' = Cardinality(Kept') BY <1>10 DEF Place
<1>12. ASSUME NEW n \in Kept
       PROVE  /\ n \in 1 .. Len(answers) /\ answers'[n] = answers[n]
              /\ Place(n)' = Place(n) /\ Place(n) \in Nat /\ Place(n) >= 1
              /\ Place(n) <= Cardinality(Kept)
  <2>1. n \in 1 .. Len(answers) /\ answers'[n] = answers[n] BY <1>1, <1>3
  <2>2. {m \in Kept' : m <= n} = {m \in Kept : m <= n} BY <1>1, <1>3, <1>5, <1>6, <2>1
  <2>3. Place(n)' = Place(n) BY <2>2 DEF Place
  <2>4. {m \in Kept : m <= n} \subseteq Kept /\ n \in {m \in Kept : m <= n} BY <1>1, <2>1
  <2>5. Place(n) \in Nat /\ Place(n) <= Cardinality(Kept)
    BY <2>4, <1>4, FS_Subset, FS_CardinalityType DEF Place
  <2>6. Place(n) # 0 BY <2>4, <1>4, FS_Subset, FS_EmptySet DEF Place
  <2> QED BY <2>1, <2>3, <2>5, <2>6
<1> QED BY <1>4, <1>5, <1>6, <1>8, <1>11, <1>12

\* What a round of the loop does to the pairs: those of the attributes before are
\* kept, and the next one, if it is there, gets its own place.
LEMMA PairWritten ==
    ASSUME ReadingType, NEW answer \in Answers, NEW moved \in BOOLEAN,
           getxattrs(answer, moved), NEW place, place = Len(answers) - skipped + 1,
           place \in Nat, place >= 1, place <= pairs_count + 1,
           NEW name, name = names[Len(answers) + 1]
    PROVE  /\ pairs_count' \in Nat /\ pairs_count' >= pairs_count /\ place <= pairs_count'
           /\ \E n \in Nat : n >= pairs_count' /\ DOMAIN pairs' = 1 .. n
           /\ \A k \in 1 .. pairs_count : k # place => pairs'[k] = pairs[k]
           /\ moved => place > PairsCount
           /\ GetOne(name, answer).errno = NoError /\ ~moved =>
                 pairs'[place] = [key |-> name, value |-> GetOne(name, answer).v]
<1> DEFINE full == place = pairs_count + 1
           array == IF full THEN Grown ELSE pairs
           result == GetOne(name, answer)
<1>1. /\ moved => full
      /\ pairs_count' = IF full THEN 2 * pairs_count ELSE pairs_count
      /\ \/ pairs' = array /\ (moved \/ result.errno # NoError)
         \/ pairs' = [array EXCEPT ![place].key = name] /\ result.errno # NoError
         \/ pairs' = [array EXCEPT ![place] = [key |-> name, value |-> result.v]]
  <2> HIDE DEF full, array, result
  <2> QED BY NoErrorKept DEF getxattrs, full, array, result
<1> HIDE DEF result
<1>2. pairs_count \in Nat /\ pairs_count >= PairsCount /\ PairsCount \in Nat \ {0}
  BY EntryAssumption DEF ReadingType
<1>3. pairs_count' \in Nat /\ pairs_count' >= pairs_count /\ place <= pairs_count' BY <1>1, <1>2
<1>4. place \in DOMAIN array BY RoomForPair
<1>5. PICK n \in Nat : n >= pairs_count' /\ DOMAIN array = 1 .. n
  <2>1. CASE full BY <2>1, <1>1, <1>2, RoomForPair
  <2>2. CASE ~full BY <2>2, <1>1 DEF ReadingType
  <2> QED BY <2>1, <2>2
<1>6. \A k \in 1 .. pairs_count : array[k] = pairs[k]
  <2>1. PICK m \in Nat : m >= pairs_count /\ DOMAIN pairs = 1 .. m BY DEF ReadingType
  <2>2. \A k \in 1 .. pairs_count : k \in DOMAIN pairs /\ k <= pairs_count BY <2>1, <1>2
  <2> QED BY <2>2, RoomForPair
<1> HIDE DEF array
<1>7. DOMAIN pairs' = DOMAIN array BY <1>1
<1>8. \A k \in 1 .. pairs_count : k # place => pairs'[k] = pairs[k]
  <2>1. \A k \in 1 .. pairs_count : k \in DOMAIN array BY <1>2, <1>3, <1>5
  <2> QED BY <2>1, <1>1, <1>6
<1>9. moved => place > PairsCount BY <1>1, <1>2
<1>10. result.errno = NoError /\ ~moved => pairs'[place] = [key |-> name, value |-> result.v]
  BY <1>1, <1>4
<1> QED BY <1>3, <1>5, <1>7, <1>8, <1>9, <1>10 DEF result

LEMMA EntryValue ==
    ASSUME EntryInv, NEW answer \in Answers, NEW moved \in BOOLEAN, getxattrs(answer, moved)
    PROVE  EntryInv'
<1>0. /\ ReadingType /\ Asked /\ reading = "get" /\ Len(answers) < Len(names)
      /\ answers' = Append(answers, answer) /\ answers \in Seq(Answers) /\ names \in Seq(STRING)
      /\ pairs_count \in Nat /\ skipped \in Nat /\ skipped <= Len(answers)
      /\ UNCHANGED <<linkVars, listVars>>
  BY DEF getxattrs, EntryInv, ReadingType, Asked
<1>1. PICK last, place, name : /\ last = Len(answers) + 1 /\ name = names[Len(answers) + 1]
                               /\ place = Len(answers) - skipped + 1
  OBVIOUS
<1> DEFINE result == GetOne(name, answer)
<1>2. Len(answers) \in Nat /\ Len(names) \in Nat /\ last <= Len(names) /\ last >= 1
  BY <1>0, <1>1
<1>3. /\ IsFiniteSet(Kept) /\ Cardinality(Kept) \in Nat
      /\ answer.errno \in Gone => Kept' = Kept
      /\ answer.errno \notin Gone => /\ Kept' = Kept \cup {last}
                                     /\ Cardinality(Kept') = Cardinality(Kept) + 1
                                     /\ Place(last)' = Cardinality(Kept) + 1
      /\ \A n \in Kept : /\ n \in 1 .. Len(answers) /\ answers'[n] = answers[n]
                         /\ Place(n)' = Place(n)
                         /\ Place(n) \in Nat /\ Place(n) >= 1 /\ Place(n) <= Cardinality(Kept)
  BY <1>0, <1>1, KeptGrows
<1>4. place = Cardinality(Kept) + 1 /\ Cardinality(Kept) <= pairs_count
  BY <1>0, <1>1, <1>2 DEF Asked
<1>5. place \in Nat /\ place >= 1 /\ place <= pairs_count + 1 BY <1>0, <1>3, <1>4
<1>6. /\ pairs_count' \in Nat /\ pairs_count' >= pairs_count /\ place <= pairs_count'
      /\ \E n \in Nat : n >= pairs_count' /\ DOMAIN pairs' = 1 .. n
      /\ \A k \in 1 .. pairs_count : k # place => pairs'[k] = pairs[k]
      /\ moved => place > PairsCount
      /\ result.errno = NoError /\ ~moved =>
            pairs'[place] = [key |-> name, value |-> result.v]
  BY <1>0, <1>1, <1>5, PairWritten, SMTT(30)
<1>7. /\ result.errno \in Gone <=> answer.errno \in Gone
      /\ result.errno = NoError => Right(result.v, answer.text)
  BY GetOneFacts
<1>8. /\ result.errno \in Gone => reading' = reading /\ skipped' = skipped + 1 /\ dangling' = dangling
      /\ result.errno \notin Gone \cup {NoError} => reading' = "failed" /\ skipped' = skipped
      /\ result.errno = NoError =>
            /\ reading' = reading /\ skipped' = skipped
            /\ dangling' = IF moved THEN dangling \cup {place} ELSE dangling
  BY <1>1, NoErrorKept DEF getxattrs
<1> HIDE DEF result
<1>9. names' = names /\ answers'[last] = answer /\ Len(answers') = last /\ answers' \in Seq(Answers)
  BY <1>0, <1>1 DEF listVars
<1>10. ReadingType'
  <2>1. pairs_count' >= PairsCount BY <1>0, <1>6, EntryAssumption DEF ReadingType
  <2>2. reading' \in {"get", "failed"} /\ skipped' \in Nat BY <1>0, <1>8
  <2> QED BY <2>1, <2>2, <1>0, <1>6, <1>9 DEF ReadingType, linkVars, listVars
<1>11. Fresh' BY <1>0, <1>8 DEF Fresh
<1>12. TargetWhole' /\ NamesWhole'
  BY <1>0, <1>8 DEF EntryInv, TargetWhole, NamesWhole, linkVars, listVars
<1>13. ASSUME NEW n \in Kept, Place(n) \notin dangling PROVE PairRight(n)'
  <2>1. PairRight(n) /\ Place(n) \in 1 .. pairs_count /\ Place(n) # place
    BY <1>0, <1>3, <1>4, <1>13 DEF Asked
  <2>2. pairs'[Place(n)] = pairs[Place(n)] BY <2>1, <1>6
  <2> QED BY <2>1, <2>2, <1>3, <1>9 DEF PairRight
<1>14. Asked'
  <2> SUFFICES ASSUME reading' \in {"get", "done"} PROVE Asked' BY DEF Asked
  <2>0. reading' = "get" /\ result.errno \in Gone \cup {NoError} BY <1>0, <1>8
  <2>1. CASE result.errno \in Gone
    <3>1. Kept' = Kept BY <2>1, <1>3, <1>7
    <3>2. \A n \in Kept' : Place(n)' \notin dangling' => PairRight(n)'
      BY <3>1, <2>1, <1>3, <1>8, <1>13
    <3>3. Len(answers') - skipped' = Cardinality(Kept') /\ Cardinality(Kept') <= pairs_count'
      BY <3>1, <2>1, <1>0, <1>1, <1>2, <1>3, <1>4, <1>6, <1>8, <1>9, SMTT(30)
    <3>4. \A k \in dangling' : k > PairsCount BY <2>1, <1>0, <1>8 DEF Asked
    <3>5. Len(answers') <= Len(names') /\ skipped' <= Len(answers')
      BY <2>1, <1>0, <1>1, <1>2, <1>8, <1>9
    <3> QED BY <2>0, <3>2, <3>3, <3>4, <3>5 DEF Asked
  <2>2. CASE result.errno = NoError
    <3>0. result.errno \notin Gone BY <2>2, NoErrorKept
    <3>1. Kept' = Kept \cup {last} /\ Place(last)' = place BY <3>0, <1>3, <1>4, <1>7
    <3>2. place \notin dangling' => PairRight(last)'
      <4>1. SUFFICES ASSUME place \notin dangling' PROVE PairRight(last)' OBVIOUS
      <4>2. ~moved BY <4>1, <2>2, <1>8
      <4>3. pairs'[place].key = name /\ pairs'[place].value = result.v BY <4>2, <2>2, <1>6
      <4>4. Right(pairs'[place].value, answers'[last].text) BY <4>3, <2>2, <1>7, <1>9
      <4> QED BY <3>1, <4>3, <4>4, <1>1, <1>9 DEF PairRight
    <3>3. dangling \subseteq dangling' BY <2>2, <1>8
    <3>4. \A n \in Kept' : Place(n)' \notin dangling' => PairRight(n)'
      BY <3>1, <3>2, <3>3, <1>3, <1>13
    <3>5. Len(answers') - skipped' = Cardinality(Kept') /\ Cardinality(Kept') <= pairs_count'
      BY <3>0, <2>2, <1>0, <1>1, <1>2, <1>3, <1>4, <1>6, <1>7, <1>8, <1>9, SMTT(30)
    <3>6. \A k \in dangling' : k > PairsCount BY <2>2, <1>0, <1>6, <1>8 DEF Asked
    <3>7. Len(answers') <= Len(names') /\ skipped' <= Len(answers')
      BY <2>2, <1>0, <1>1, <1>2, <1>8, <1>9
    <3> QED BY <2>0, <3>4, <3>5, <3>6, <3>7 DEF Asked
  <2> QED BY <2>0, <2>1, <2>2
<1> QED BY <1>10, <1>11, <1>12, <1>14 DEF EntryInv

LEMMA EntryNext ==
    ASSUME EntryInv, ReadNext PROVE EntryInv'
BY EntryStarts, EntryFails, EntryLink, EntryList, EntryMeasured, EntryValue, EntryEnds
   DEF ReadNext

LEMMA EntryStutter ==
    ASSUME EntryInv, UNCHANGED readVars PROVE EntryInv'
<1> USE DEF readVars, linkVars, listVars, pairVars
<1>1. ReadingType' /\ Fresh' /\ TargetWhole' /\ NamesWhole'
  BY DEF EntryInv, ReadingType, Fresh, TargetWhole, NamesWhole
<1>2. Kept' = Kept BY DEF Kept
<1>3. \A n : Place(n)' = Place(n) BY <1>2 DEF Place
<1>4. Asked' BY <1>2, <1>3 DEF EntryInv, Asked, PairRight
<1> QED BY <1>1, <1>4 DEF EntryInv

\* Whatever its users do to an entry between two of the calls that read it, and
\* whatever the entries before left in the buffers, the target, the names and the
\* values that are read of it are whole, or it is skipped (freadlink,
\* flistxattrs, getxattrs).
THEOREM EntriesAreWhole == Spec => []EntryWhole
<1>1. Init => EntryInv BY EntryInit DEF Init
<1>2. EntryInv /\ [Next]_vars => EntryInv'
  <2> SUFFICES ASSUME EntryInv, [Next]_vars PROVE EntryInv' OBVIOUS
  <2>1. ReadNext \/ UNCHANGED readVars BY DEF Next, vars
  <2> QED BY <2>1, EntryNext, EntryStutter
<1> QED BY <1>1, <1>2, EntryImplies, PTL DEF Spec

-----------------------------------------------------------------------------
(* The counters of the crawl by fts.                                       *)

FtsFields == {"frames", "cur", "top", "counter", "sstack"}
FrameFields == {"dir", "name", "path", "ptr", "todo", "chdir", "kids"}
SyncFields == {"run", "to", "proj", "skip", "start", "newer", "events", "converted", "skipped",
               "orphans", "why"}

\* A directory that is being read: its names differ, and those that were counted
\* are not to be seen again.
FrameOK(f) ==
    /\ DOMAIN f = FrameFields
    /\ IsFiniteSet(f.kids)
    /\ \A t, u \in f.todo : t.name = u.name => t = u
    /\ \A t \in f.todo : t.name \notin f.kids

\* A name of the directory that was taken and is not counted yet.
Apart(f, name) == name \notin f.kids /\ \A t \in f.todo : t.name # name

CrawlShape(F, C, k, s) ==
    /\ \E S : F \in Seq(S)
    /\ C = <<>> \/ \E c : C = <<c>>
    /\ k \in Int /\ s \in Seq(Int) /\ Len(s) >= Len(F) + Len(C)
    /\ \A i \in 1 .. Len(F) : FrameOK(F[i])
    /\ \A i \in 2 .. Len(F) : Apart(F[i - 1], F[i].name)
    /\ C # <<>> /\ Len(F) > 0 => Apart(F[Len(F)], C[1].name)

PtrAt(F, C, i) == IF i <= Len(F) THEN F[i].ptr ELSE C[1].ptr
KidsAt(F, i) == IF i <= Len(F) THEN Cardinality(F[i].kids) ELSE 0
ExpectedAt(F, C, i) == KidsAt(F, i) - (IF PtrAt(F, C, i) = <<>> THEN 1 ELSE 0)

Counting(F, C, k, s) ==
    LET m == Len(F) + Len(C)
    IN m > 0 => /\ k = ExpectedAt(F, C, m)
                /\ \A i \in 1 .. m - 1 : s[Len(s) - m + 1 + i] = ExpectedAt(F, C, i) + 1

CrawlOK(F, C, k, s) == CrawlShape(F, C, k, s) /\ Counting(F, C, k, s)

Crawled == sync.run = "crawl" /\ sync.to = "mongo"

CrawlInv ==
    /\ DOMAIN fts = FtsFields /\ DOMAIN sync = SyncFields
    /\ Crawled => /\ CrawlOK(fts.frames, fts.cur, fts.counter, fts.sstack)
                  /\ fts.top # <<>> => fts.frames = <<>> /\ fts.cur = <<>>

LEMMA CrawlImplies == CrawlInv => CountersMatch
BY DEF CrawlInv, Crawled, CountersMatch, CrawlOK, Counting, ExpectedAt, KidsAt, PtrAt

\* Sequences of anything: one element is replaced, added, removed.
LEMMA SeqReplaced ==
    ASSUME NEW S, NEW q \in Seq(S), NEW n \in 1 .. Len(q), NEW x
    PROVE  LET r == [q EXCEPT ![n] = x]
           IN /\ r \in Seq(S \cup {x}) /\ Len(r) = Len(q) /\ r[n] = x
              /\ \A i \in 1 .. Len(q) : i # n => r[i] = q[i]
OBVIOUS

LEMMA SeqAppended ==
    ASSUME NEW S, NEW q \in Seq(S), NEW x
    PROVE  /\ Append(q, x) \in Seq(S \cup {x}) /\ Len(Append(q, x)) = Len(q) + 1
           /\ Append(q, x)[Len(q) + 1] = x
           /\ \A i \in 1 .. Len(q) : Append(q, x)[i] = q[i]
<1>1. q \in Seq(S \cup {x}) OBVIOUS
<1> QED BY <1>1

LEMMA SeqFront ==
    ASSUME NEW S, NEW q \in Seq(S), Len(q) > 0
    PROVE  /\ Front(q) \in Seq(S) /\ Len(Front(q)) = Len(q) - 1
           /\ \A i \in 1 .. Len(q) - 1 : Front(q)[i] = q[i]
           /\ Last(q) = q[Len(q)]
<1>1. Len(q) \in Nat /\ Len(q) - 1 \in Nat OBVIOUS
<1>2. SubSeq(q, 1, Len(q) - 1) \in Seq(S) /\ Len(SubSeq(q, 1, Len(q) - 1)) = Len(q) - 1
  <2>1. \A i \in 1 .. Len(q) - 1 : q[i] \in S BY <1>1
  <2>2. PICK k \in Int : k = Len(q) - 1 BY <1>1
  <2>3. SubSeq(q, 1, k) \in Seq(S) /\ Len(SubSeq(q, 1, k)) = IF 1 <= k THEN k - 1 + 1 ELSE 0
    BY <2>1, <2>2, SubSeqProperties
  <2> QED BY <1>1, <2>2, <2>3
<1>3. \A i \in 1 .. Len(q) - 1 : SubSeq(q, 1, Len(q) - 1)[i] = q[i] BY <1>1
<1> QED BY <1>2, <1>3 DEF Front, Last

\* One name less to see in the current directory, and perhaps one counted.
Takes(F, t, K, g, G) ==
    LET f == F[Len(F)]
    IN /\ t \in f.todo /\ K \in {f.kids, f.kids \cup {t.name}}
       /\ g.todo = f.todo \ {t} /\ g.kids = K /\ g.ptr = f.ptr /\ g.name = f.name
       /\ DOMAIN g = FrameFields
       /\ G = [F EXCEPT ![Len(F)] = g]

LEMMA CrawlTakes ==
    ASSUME NEW F, NEW k, NEW s, CrawlOK(F, <<>>, k, s), Len(F) > 0,
           NEW t, NEW K, NEW g, NEW G, Takes(F, t, K, g, G)
    PROVE  /\ CrawlShape(G, <<>>, k, s) /\ Len(G) = Len(F)
           /\ Apart(g, t.name) \/ t.name \in K
           /\ \A i \in 1 .. Len(F) : G[i].ptr = F[i].ptr
           /\ \A i \in 1 .. Len(F) - 1 : G[i] = F[i]
           /\ G[Len(F)] = g
           /\ t.name \notin F[Len(F)].kids
           /\ K # F[Len(F)].kids => Cardinality(K) = Cardinality(F[Len(F)].kids) + 1
           /\ Cardinality(F[Len(F)].kids) \in Nat
<1> DEFINE n == Len(F)
           f == F[n]
<1>0. /\ t \in f.todo /\ K \in {f.kids, f.kids \cup {t.name}}
      /\ g.todo = f.todo \ {t} /\ g.kids = K /\ g.ptr = f.ptr /\ g.name = f.name
      /\ DOMAIN g = FrameFields
      /\ G = [F EXCEPT ![n] = g]
  BY DEF Takes
<1>1. PICK S : F \in Seq(S) BY DEF CrawlOK, CrawlShape
<1>2. n \in Nat /\ n \in 1 .. n BY <1>1
<1>3. G \in Seq(S \cup {g}) /\ Len(G) = n /\ G[n] = g /\ \A i \in 1 .. n : i # n => G[i] = F[i]
  <2>1. G = [F EXCEPT ![n] = g] BY <1>0
  <2>2. n \in 1 .. Len(F) BY <1>2
  <2> HIDE DEF n
  <2>3. LET r == [F EXCEPT ![n] = g]
        IN /\ r \in Seq(S \cup {g}) /\ Len(r) = Len(F) /\ r[n] = g
           /\ \A i \in 1 .. Len(F) : i # n => r[i] = F[i]
    BY <1>1, <2>2, SeqReplaced
  <2> QED BY <2>1, <2>3 DEF n
<1>4. FrameOK(f) BY <1>2 DEF CrawlOK, CrawlShape
<1>5. /\ g.todo = f.todo \ {t} /\ g.kids = K /\ g.ptr = f.ptr /\ g.name = f.name
      /\ DOMAIN g = FrameFields
  BY <1>0
<1>6. IsFiniteSet(f.kids) /\ Cardinality(f.kids) \in Nat BY <1>4, FS_CardinalityType DEF FrameOK
<1>7. t.name \notin f.kids BY <1>0, <1>4 DEF FrameOK
<1>8. /\ IsFiniteSet(K)
      /\ K # f.kids => Cardinality(K) = Cardinality(f.kids) + 1
  <2> DEFINE old == f.kids
  <2>1. K \in {old, old \cup {t.name}} /\ t.name \notin old /\ IsFiniteSet(old) BY <1>0, <1>6, <1>7
  <2> HIDE DEF old
  <2>2. IsFiniteSet(old \cup {t.name}) /\ Cardinality(old \cup {t.name}) = Cardinality(old) + 1
    BY <2>1, FS_AddElement
  <2>3. IsFiniteSet(K) /\ (K # old => Cardinality(K) = Cardinality(old) + 1) BY <2>1, <2>2
  <2> QED BY <2>3 DEF old
<1>9. \A u \in f.todo : u # t => u.name # t.name /\ u.name \notin f.kids BY <1>0, <1>4 DEF FrameOK
<1> HIDE DEF f, n
<1>10. FrameOK(g) BY <1>0, <1>8, <1>9, <1>4 DEF FrameOK
<1>11. Apart(g, t.name) \/ t.name \in K BY <1>5, <1>9, <1>7 DEF Apart, f, n
<1>12. \A i \in 1 .. n : FrameOK(G[i])
  BY <1>3, <1>10 DEF CrawlOK, CrawlShape, n
<1>13. \A i \in 2 .. n : Apart(G[i - 1], G[i].name)
  <2> SUFFICES ASSUME NEW i \in 2 .. n PROVE Apart(G[i - 1], G[i].name) OBVIOUS
  <2>1. Apart(F[i - 1], F[i].name) BY DEF CrawlOK, CrawlShape, n
  <2>2. G[i - 1] = F[i - 1] BY <1>2, <1>3
  <2>3. G[i].name = F[i].name BY <1>2, <1>3, <1>5 DEF f
  <2> QED BY <2>1, <2>2, <2>3
<1>14. CrawlShape(G, <<>>, k, s)
  <2>1. k \in Int /\ s \in Seq(Int) /\ Len(s) >= Len(F) + Len(<<>>) BY DEF CrawlOK, CrawlShape
  <2>2. \E T : G \in Seq(T) BY <1>3
  <2> QED BY <2>1, <2>2, <1>3, <1>12, <1>13 DEF CrawlShape, n
<1>15. \A i \in 1 .. n : G[i].ptr = F[i].ptr BY <1>2, <1>3, <1>5 DEF f
<1>16. \A i \in 1 .. n - 1 : G[i] = F[i] BY <1>2, <1>3
<1> QED BY <1>3, <1>6, <1>7, <1>8, <1>11, <1>14, <1>15, <1>16 DEF f, n

\* The counts when nothing of the current directory was counted, and when one
\* more entry was.
LEMMA CrawlCounts ==
    ASSUME NEW F, NEW k, NEW s, CrawlOK(F, <<>>, k, s), Len(F) > 0,
           NEW t, NEW K, NEW g, NEW G, Takes(F, t, K, g, G),
           NEW j, j = IF K = F[Len(F)].kids THEN k ELSE k + 1
    PROVE  CrawlOK(G, <<>>, j, s)
<1>0. /\ CrawlShape(G, <<>>, k, s) /\ Len(G) = Len(F)
      /\ \A i \in 1 .. Len(F) : G[i].ptr = F[i].ptr
      /\ \A i \in 1 .. Len(F) - 1 : G[i] = F[i]
      /\ G[Len(F)] = g
      /\ K # F[Len(F)].kids => Cardinality(K) = Cardinality(F[Len(F)].kids) + 1
      /\ Cardinality(F[Len(F)].kids) \in Nat
  BY CrawlTakes
<1> DEFINE n == Len(F)
<1>1. /\ CrawlShape(G, <<>>, k, s) /\ Len(G) = n
      /\ \A i \in 1 .. n : G[i].ptr = F[i].ptr
      /\ \A i \in 1 .. n - 1 : G[i] = F[i]
      /\ G[n] = g
      /\ K # F[n].kids => Cardinality(K) = Cardinality(F[n].kids) + 1
      /\ Cardinality(F[n].kids) \in Nat
  BY <1>0
<1>2. PICK S : F \in Seq(S) BY DEF CrawlOK, CrawlShape
<1>3. n \in Nat /\ k \in Int BY <1>2 DEF CrawlOK, CrawlShape
<1>4. /\ k = ExpectedAt(F, <<>>, n)
      /\ \A i \in 1 .. n - 1 : s[Len(s) - n + 1 + i] = ExpectedAt(F, <<>>, i) + 1
  BY <1>3 DEF CrawlOK, Counting
<1> HIDE DEF n
<1>5. \A i \in 1 .. n - 1 : ExpectedAt(G, <<>>, i) = ExpectedAt(F, <<>>, i)
  BY <1>1, <1>3 DEF ExpectedAt, KidsAt, PtrAt, n
<1>6. j = ExpectedAt(G, <<>>, n)
  <2>1. n > 0 /\ n <= Len(F) /\ n <= Len(G) /\ n \in 1 .. n BY <1>1, <1>3 DEF n
  <2>2. G[n].ptr = F[n].ptr /\ G[n].kids = K BY <1>1, <2>1 DEF Takes
  <2>3. ExpectedAt(F, <<>>, n) = Cardinality(F[n].kids) - (IF F[n].ptr = <<>> THEN 1 ELSE 0)
    BY <2>1 DEF ExpectedAt, KidsAt, PtrAt
  <2>4. ExpectedAt(G, <<>>, n) = Cardinality(K) - (IF F[n].ptr = <<>> THEN 1 ELSE 0)
    BY <2>1, <2>2 DEF ExpectedAt, KidsAt, PtrAt
  <2>5. CASE K = F[n].kids BY <2>5, <2>3, <2>4, <1>4 DEF n
  <2>6. CASE K # F[n].kids BY <2>6, <2>3, <2>4, <1>1, <1>3, <1>4 DEF n
  <2> QED BY <2>5, <2>6
<1>7. CrawlShape(G, <<>>, j, s) BY <1>1, <1>3 DEF CrawlShape
<1>8. Counting(G, <<>>, j, s)
  <2>1. Len(G) + Len(<<>>) = n BY <1>1, <1>3
  <2> QED BY <2>1, <1>3, <1>4, <1>5, <1>6 DEF Counting
<1> QED BY <1>7, <1>8 DEF CrawlOK

\* A directory is seen in the one that is read.
LEMMA CrawlSees ==
    ASSUME NEW F, NEW k, NEW s, CrawlOK(F, <<>>, k, s), Len(F) > 0,
           NEW t, NEW g, NEW G, Takes(F, t, F[Len(F)].kids, g, G),
           NEW c, c.name = t.name,
           NEW j, j = IF c.ptr = <<>> THEN -1 ELSE 0
    PROVE  CrawlOK(G, <<c>>, j, Append(s, k + 1))
<1>a. /\ Len(G) = Len(F) /\ G[Len(F)] = g
      /\ Apart(g, t.name) \/ t.name \in F[Len(F)].kids
      /\ t.name \notin F[Len(F)].kids
  BY CrawlTakes
<1>b. CrawlOK(G, <<>>, k, s) BY CrawlCounts
<1> DEFINE n == Len(F)
           r == Append(s, k + 1)
<1>1. /\ CrawlOK(G, <<>>, k, s) /\ Len(G) = n
      /\ Apart(g, t.name) /\ G[n] = g
  BY <1>a, <1>b
<1>2. PICK S : G \in Seq(S) BY <1>1 DEF CrawlOK, CrawlShape
<1>3. n \in Nat /\ n > 0 /\ k \in Int /\ s \in Seq(Int) /\ Len(s) >= n
  BY <1>1, <1>2 DEF CrawlOK, CrawlShape
<1>4. /\ k = ExpectedAt(G, <<>>, n)
      /\ \A i \in 1 .. n - 1 : s[Len(s) - n + 1 + i] = ExpectedAt(G, <<>>, i) + 1
  <2>1. Len(G) + Len(<<>>) = n /\ n > 0 BY <1>1, <1>3
  <2> QED BY <2>1, <1>1 DEF CrawlOK, Counting
<1>5. /\ r \in Seq(Int) /\ Len(r) = Len(s) + 1 /\ r[Len(s) + 1] = k + 1
      /\ \A i \in 1 .. Len(s) : r[i] = s[i]
  BY <1>3
<1>6. Len(<<c>>) = 1 /\ <<c>>[1] = c /\ <<c>> # <<>> OBVIOUS
<1> HIDE DEF n, r
<1>7. CrawlShape(G, <<c>>, j, r)
  <2>1. Apart(G[Len(G)], <<c>>[1].name) BY <1>1, <1>6
  <2>2. Len(r) >= Len(G) + Len(<<c>>) BY <1>1, <1>3, <1>5, <1>6
  <2> QED BY <2>1, <2>2, <1>1, <1>3, <1>5 DEF CrawlOK, CrawlShape
<1>8. \A i \in 1 .. n : ExpectedAt(G, <<c>>, i) = ExpectedAt(G, <<>>, i)
  BY <1>1, <1>3 DEF ExpectedAt, KidsAt, PtrAt
<1>9. ExpectedAt(G, <<c>>, n + 1) = j
  BY <1>1, <1>3, <1>6 DEF ExpectedAt, KidsAt, PtrAt
<1>10. \A i \in 1 .. n : r[Len(r) - (n + 1) + 1 + i] = ExpectedAt(G, <<c>>, i) + 1
  <2> SUFFICES ASSUME NEW i \in 1 .. n
               PROVE  r[Len(r) - (n + 1) + 1 + i] = ExpectedAt(G, <<c>>, i) + 1
    OBVIOUS
  <2>1. Len(s) \in Nat /\ Len(r) - (n + 1) + 1 + i = Len(s) - n + 1 + i BY <1>3, <1>5
  <2>2. CASE i = n
    <3>1. Len(s) - n + 1 + i = Len(s) + 1 BY <2>1, <2>2, <1>3
    <3> QED BY <3>1, <2>1, <2>2, <1>4, <1>5, <1>8
  <2>3. CASE i # n
    <3>1. i \in 1 .. n - 1 /\ Len(s) - n + 1 + i \in 1 .. Len(s) BY <2>1, <2>3, <1>3
    <3> QED BY <3>1, <2>1, <1>4, <1>5, <1>8
  <2> QED BY <2>2, <2>3
<1>11. Counting(G, <<c>>, j, r)
  <2>1. Len(G) + Len(<<c>>) = n + 1 /\ n + 1 - 1 = n BY <1>1, <1>3, <1>6
  <2>2. PICK m : m = Len(G) + Len(<<c>>) OBVIOUS
  <2>3. m = n + 1 /\ m - 1 = n BY <2>1, <2>2, <1>3
  <2>4. /\ j = ExpectedAt(G, <<c>>, m)
        /\ \A i \in 1 .. m - 1 : r[Len(r) - m + 1 + i] = ExpectedAt(G, <<c>>, i) + 1
    BY <2>3, <1>9, <1>10
  <2> QED BY <2>2, <2>4 DEF Counting
<1> QED BY <1>7, <1>11 DEF CrawlOK, r

\* The first directory of the crawl is seen.
LEMMA CrawlBegins ==
    ASSUME NEW k, NEW s, CrawlOK(<<>>, <<>>, k, s), NEW c,
           NEW j, j = IF c.ptr = <<>> THEN -1 ELSE 0
    PROVE  CrawlOK(<<>>, <<c>>, j, Append(s, k + 1))
<1>1. k \in Int /\ s \in Seq(Int) /\ Len(<<c>>) = 1 /\ <<c>>[1] = c /\ Len(<<>>) = 0
  BY DEF CrawlOK, CrawlShape
<1>2. Append(s, k + 1) \in Seq(Int) /\ Len(Append(s, k + 1)) >= 1 BY <1>1
<1>3. CrawlShape(<<>>, <<c>>, j, Append(s, k + 1))
  BY <1>1, <1>2 DEF CrawlOK, CrawlShape
<1>4. ExpectedAt(<<>>, <<c>>, 1) = j BY <1>1 DEF ExpectedAt, KidsAt, PtrAt
<1>5. Counting(<<>>, <<c>>, j, Append(s, k + 1)) BY <1>1, <1>4 DEF Counting
<1> QED BY <1>3, <1>5 DEF CrawlOK

\* The directory just seen is entered.
LEMMA CrawlEnters ==
    ASSUME NEW F, NEW c, NEW k, NEW s, CrawlOK(F, <<c>>, k, s),
           NEW g, FrameOK(g), g.kids = {}, g.name = c.name, g.ptr = c.ptr
    PROVE  CrawlOK(Append(F, g), <<>>, k, s)
<1> DEFINE n == Len(F)
           G == Append(F, g)
<1>1. PICK S : F \in Seq(S) BY DEF CrawlOK, CrawlShape
<1>2. n \in Nat /\ Len(<<c>>) = 1 /\ <<c>>[1] = c /\ Len(<<>>) = 0 BY <1>1
<1>3. G \in Seq(S \cup {g}) /\ Len(G) = n + 1 /\ G[n + 1] = g /\ \A i \in 1 .. n : G[i] = F[i]
  BY <1>1, SeqAppended
<1>4. CrawlShape(F, <<c>>, k, s) BY DEF CrawlOK
<1>5. k \in Int /\ s \in Seq(Int) /\ Len(s) >= n + 1 BY <1>2, <1>4 DEF CrawlShape
<1>6. /\ k = ExpectedAt(F, <<c>>, n + 1)
      /\ \A i \in 1 .. n : s[Len(s) - (n + 1) + 1 + i] = ExpectedAt(F, <<c>>, i) + 1
  <2>1. PICK m : m = Len(F) + Len(<<c>>) OBVIOUS
  <2>2. m = n + 1 /\ m > 0 /\ m - 1 = n BY <2>1, <1>2
  <2>3. /\ k = ExpectedAt(F, <<c>>, m)
        /\ \A i \in 1 .. m - 1 : s[Len(s) - m + 1 + i] = ExpectedAt(F, <<c>>, i) + 1
    BY <2>1, <2>2 DEF CrawlOK, Counting
  <2> QED BY <2>2, <2>3
<1>7. \A i \in 1 .. n : FrameOK(F[i]) BY <1>4 DEF CrawlShape
<1>8. \A i \in 2 .. n : Apart(F[i - 1], F[i].name) BY <1>4 DEF CrawlShape
<1>9. n > 0 => Apart(F[n], c.name) BY <1>2, <1>4 DEF CrawlShape
<1> HIDE DEF n, G
<1>10. CrawlShape(G, <<>>, k, s)
  <2>1. \A i \in 1 .. n + 1 : FrameOK(G[i]) BY <1>2, <1>3, <1>7
  <2>2. ASSUME NEW i \in 2 .. n + 1 PROVE Apart(G[i - 1], G[i].name)
    <3>1. CASE i = n + 1
      <4>1. n > 0 /\ i - 1 = n /\ n \in 1 .. n BY <3>1, <1>2
      <4>2. G[i - 1] = F[n] /\ G[i] = g BY <4>1, <3>1, <1>3
      <4> QED BY <4>1, <4>2, <1>9
    <3>2. CASE i # n + 1
      <4>1. i \in 2 .. n /\ i - 1 \in 1 .. n /\ i \in 1 .. n BY <3>2, <1>2
      <4> QED BY <4>1, <1>3, <1>8
    <3> QED BY <3>1, <3>2
  <2>3. \E T : G \in Seq(T) BY <1>3
  <2>4. Len(s) >= Len(G) + Len(<<>>) BY <1>2, <1>3, <1>5
  <2> QED BY <2>1, <2>2, <2>3, <2>4, <1>3, <1>5 DEF CrawlShape
<1>11. \A i \in 1 .. n : ExpectedAt(G, <<>>, i) = ExpectedAt(F, <<c>>, i)
  BY <1>2, <1>3 DEF ExpectedAt, KidsAt, PtrAt, n
<1>12. ExpectedAt(G, <<>>, n + 1) = ExpectedAt(F, <<c>>, n + 1)
  <2>1. Cardinality(g.kids) = 0 BY FS_EmptySet
  <2>2. ~(n + 1 <= Len(F)) /\ n + 1 <= Len(G) BY <1>2, <1>3 DEF n
  <2>3. KidsAt(G, n + 1) = 0 /\ PtrAt(G, <<>>, n + 1) = c.ptr BY <2>1, <2>2, <1>3 DEF KidsAt, PtrAt
  <2>4. KidsAt(F, n + 1) = 0 /\ PtrAt(F, <<c>>, n + 1) = c.ptr BY <2>2, <1>2 DEF KidsAt, PtrAt
  <2> QED BY <2>3, <2>4 DEF ExpectedAt
<1>13. Counting(G, <<>>, k, s)
  <2>1. PICK m : m = Len(G) + Len(<<>>) OBVIOUS
  <2>2. m = n + 1 /\ m - 1 = n BY <2>1, <1>2, <1>3
  <2>3. /\ k = ExpectedAt(G, <<>>, m)
        /\ \A i \in 1 .. m - 1 : s[Len(s) - m + 1 + i] = ExpectedAt(G, <<>>, i) + 1
    BY <2>2, <1>6, <1>11, <1>12
  <2> QED BY <2>1, <2>3 DEF Counting
<1> QED BY <1>10, <1>13 DEF CrawlOK, G

\* The directory just seen cannot be read.
LEMMA CrawlGivesUp ==
    ASSUME NEW F, NEW c, NEW k, NEW s, CrawlOK(F, <<c>>, k, s), Len(F) > 0
    PROVE  CrawlOK(F, <<>>, Last(s) - 1, Front(s))
<1> DEFINE n == Len(F)
           j == Last(s) - 1
           r == Front(s)
<1>1. PICK S : F \in Seq(S) BY DEF CrawlOK, CrawlShape
<1>2. n \in Nat /\ n > 0 /\ Len(<<c>>) = 1 /\ Len(<<>>) = 0 BY <1>1
<1>4. CrawlShape(F, <<c>>, k, s) BY DEF CrawlOK
<1>5. s \in Seq(Int) /\ Len(s) >= n + 1 /\ Len(s) \in Nat BY <1>2, <1>4 DEF CrawlShape
<1>6. \A i \in 1 .. n : s[Len(s) - (n + 1) + 1 + i] = ExpectedAt(F, <<c>>, i) + 1
  <2>1. PICK m : m = Len(F) + Len(<<c>>) OBVIOUS
  <2>2. m = n + 1 /\ m > 0 /\ m - 1 = n BY <2>1, <1>2
  <2>3. \A i \in 1 .. m - 1 : s[Len(s) - m + 1 + i] = ExpectedAt(F, <<c>>, i) + 1
    BY <2>1, <2>2 DEF CrawlOK, Counting
  <2> QED BY <2>2, <2>3
<1>7. /\ r \in Seq(Int) /\ Len(r) = Len(s) - 1 /\ \A i \in 1 .. Len(s) - 1 : r[i] = s[i]
      /\ Last(s) = s[Len(s)]
  <2>1. Len(s) > 0 BY <1>2, <1>5
  <2> HIDE DEF n
  <2> QED BY <2>1, <1>5, SeqFront
<1>8. Last(s) \in Int BY <1>5, <1>7
<1>9. \A i \in 1 .. n : ExpectedAt(F, <<c>>, i) = ExpectedAt(F, <<>>, i)
  BY <1>2 DEF ExpectedAt, PtrAt
<1>10. \A i \in 1 .. n : ExpectedAt(F, <<>>, i) \in Int
  <2>1. ASSUME NEW i \in 1 .. n PROVE Cardinality(F[i].kids) \in Nat
    BY <1>4, FS_CardinalityType DEF CrawlShape, FrameOK
  <2>2. \A i \in 1 .. n : KidsAt(F, i) \in Nat BY <2>1, <1>2 DEF KidsAt
  <2> HIDE DEF n
  <2> QED BY <2>2 DEF ExpectedAt
<1> HIDE DEF n, j, r
<1>11. j = ExpectedAt(F, <<>>, n)
  <2>1. Len(s) - (n + 1) + 1 + n = Len(s) /\ n \in 1 .. n BY <1>2, <1>5
  <2>2. s[Len(s)] = ExpectedAt(F, <<>>, n) + 1 BY <2>1, <1>6, <1>9
  <2>3. Last(s) = ExpectedAt(F, <<>>, n) + 1 BY <2>2, <1>7
  <2> QED BY <2>1, <2>3, <1>10 DEF j
<1>12. ASSUME NEW i \in 1 .. n - 1 PROVE r[Len(r) - n + 1 + i] = ExpectedAt(F, <<>>, i) + 1
  <2>0. i \in Int /\ Len(r) \in Int BY <1>2, <1>5, <1>7
  <2>1. Len(r) - n + 1 + i = Len(s) - (n + 1) + 1 + i /\ i \in 1 .. n BY <2>0, <1>2, <1>5, <1>7
  <2>2. Len(r) - n + 1 + i \in 1 .. Len(s) - 1 BY <2>0, <1>2, <1>5, <1>7
  <2> QED BY <2>1, <2>2, <1>6, <1>7, <1>9
<1>13. Counting(F, <<>>, j, r)
  <2>1. PICK m : m = Len(F) + Len(<<>>) OBVIOUS
  <2>2. m = n BY <2>1, <1>2 DEF n
  <2>3. /\ j = ExpectedAt(F, <<>>, m)
        /\ \A i \in 1 .. m - 1 : r[Len(r) - m + 1 + i] = ExpectedAt(F, <<>>, i) + 1
    BY <2>2, <1>11, <1>12
  <2> QED BY <2>1, <2>3 DEF Counting
<1>14. CrawlShape(F, <<>>, j, r)
  <2>1. j \in Int BY <1>8 DEF j
  <2>2. Len(r) >= Len(F) + Len(<<>>) BY <1>2, <1>5, <1>7 DEF n
  <2> QED BY <2>1, <2>2, <1>4, <1>7 DEF CrawlShape
<1> QED BY <1>13, <1>14 DEF CrawlOK, j, r

\* A directory is left, and counts in the one above.
Leaves(F, g, G) ==
    LET f == F[Len(F) - 1]
    IN /\ g.kids = f.kids \cup {F[Len(F)].name} /\ g.todo = f.todo /\ g.ptr = f.ptr
       /\ g.name = f.name /\ DOMAIN g = FrameFields
       /\ G = [Front(F) EXCEPT ![Len(F) - 1] = g]

LEMMA CrawlLeaves ==
    ASSUME NEW F, NEW k, NEW s, CrawlOK(F, <<>>, k, s), Len(F) > 1,
           NEW g, NEW G, Leaves(F, g, G)
    PROVE  CrawlOK(G, <<>>, Last(s), Front(s))
<1> DEFINE n == Len(F) - 1
           name == F[Len(F)].name
           f == F[n]
           r == Front(s)
<1>1. PICK S : F \in Seq(S) BY DEF CrawlOK, CrawlShape
<1>2. n \in Nat /\ n > 0 /\ n \in 1 .. n /\ Len(F) = n + 1 /\ Len(<<>>) = 0 BY <1>1
<1>3. /\ g.kids = f.kids \cup {name} /\ g.todo = f.todo /\ g.ptr = f.ptr
      /\ g.name = f.name /\ DOMAIN g = FrameFields
      /\ G = [Front(F) EXCEPT ![n] = g]
  BY DEF Leaves
<1>4. CrawlShape(F, <<>>, k, s) BY DEF CrawlOK
<1>5. s \in Seq(Int) /\ Len(s) >= n + 1 /\ Len(s) \in Nat BY <1>2, <1>4 DEF CrawlShape
<1>6. \A i \in 1 .. n : s[Len(s) - (n + 1) + 1 + i] = ExpectedAt(F, <<>>, i) + 1
  <2>1. PICK m : m = Len(F) + Len(<<>>) OBVIOUS
  <2>2. m = n + 1 /\ m > 0 /\ m - 1 = n BY <2>1, <1>2
  <2>3. \A i \in 1 .. m - 1 : s[Len(s) - m + 1 + i] = ExpectedAt(F, <<>>, i) + 1
    BY <2>1, <2>2 DEF CrawlOK, Counting
  <2> QED BY <2>2, <2>3
<1>7. /\ r \in Seq(Int) /\ Len(r) = Len(s) - 1 /\ \A i \in 1 .. Len(s) - 1 : r[i] = s[i]
      /\ Last(s) = s[Len(s)]
  <2>1. Len(s) > 0 BY <1>2, <1>5
  <2> HIDE DEF n
  <2> QED BY <2>1, <1>5, SeqFront
<1>8. Last(s) \in Int BY <1>2, <1>5, <1>7, SMTT(30)
<1>9. Front(F) \in Seq(S) /\ Len(Front(F)) = n /\ \A i \in 1 .. n : Front(F)[i] = F[i]
  <2>1. Len(F) > 0 /\ Len(F) - 1 = n BY <1>2
  <2> HIDE DEF n
  <2>2. /\ Front(F) \in Seq(S) /\ Len(Front(F)) = Len(F) - 1
        /\ \A i \in 1 .. Len(F) - 1 : Front(F)[i] = F[i]
    BY <2>1, <1>1, SeqFront
  <2> QED BY <2>1, <2>2
<1>10. FrameOK(f) /\ Apart(f, name)
  <2>1. n \in 1 .. Len(F) /\ Len(F) \in 2 .. Len(F) BY <1>2
  <2> QED BY <2>1, <1>4 DEF CrawlShape
<1>11. \A i \in 1 .. n : FrameOK(F[i]) BY <1>2, <1>4 DEF CrawlShape
<1>12. \A i \in 2 .. n : Apart(F[i - 1], F[i].name) BY <1>2, <1>4, SMTT(30) DEF CrawlShape
<1> HIDE DEF n, f, name, r
<1>13. G \in Seq(S \cup {g}) /\ Len(G) = n /\ G[n] = g /\ \A i \in 1 .. n : i # n => G[i] = F[i]
  <2>1. PICK H : H = Front(F) OBVIOUS
  <2>2. H \in Seq(S) /\ Len(H) = n /\ n \in 1 .. Len(H) BY <2>1, <1>2, <1>9
  <2>3. LET q == [H EXCEPT ![n] = g]
        IN /\ q \in Seq(S \cup {g}) /\ Len(q) = Len(H) /\ q[n] = g
           /\ \A i \in 1 .. Len(H) : i # n => q[i] = H[i]
    BY <2>2, SeqReplaced
  <2> QED BY <2>1, <2>2, <2>3, <1>3, <1>9
<1>14. /\ IsFiniteSet(g.kids) /\ Cardinality(f.kids) \in Nat
       /\ Cardinality(g.kids) = Cardinality(f.kids) + 1
  <2> DEFINE old == f.kids
  <2>1. IsFiniteSet(old) /\ name \notin old /\ g.kids = old \cup {name}
    BY <1>3, <1>10 DEF FrameOK, Apart
  <2> HIDE DEF old
  <2>2. /\ IsFiniteSet(old \cup {name}) /\ Cardinality(old) \in Nat
        /\ Cardinality(old \cup {name}) = Cardinality(old) + 1
    BY <2>1, FS_AddElement, FS_CardinalityType
  <2>3. IsFiniteSet(g.kids) /\ Cardinality(g.kids) = Cardinality(old) + 1 BY <2>1, <2>2
  <2> QED BY <2>2, <2>3 DEF old
<1>15. FrameOK(g) BY <1>3, <1>10, <1>14 DEF FrameOK, Apart
<1>16. CrawlShape(G, <<>>, Last(s), r)
  <2>1. \A i \in 1 .. n : FrameOK(G[i]) BY <1>11, <1>13, <1>15
  <2>2. ASSUME NEW i \in 2 .. n PROVE Apart(G[i - 1], G[i].name)
    <3>1. i - 1 \in 1 .. n /\ i - 1 # n /\ i \in 1 .. n BY <1>2
    <3>2. G[i - 1] = F[i - 1] BY <3>1, <1>13
    <3>3. G[i].name = F[i].name BY <3>1, <1>3, <1>13 DEF f
    <3> QED BY <3>2, <3>3, <1>12
  <2>3. \E T : G \in Seq(T) BY <1>13
  <2>4. Len(r) >= Len(G) + Len(<<>>) BY <1>2, <1>5, <1>7, <1>13
  <2> QED BY <2>1, <2>2, <2>3, <2>4, <1>7, <1>8, <1>13 DEF CrawlShape
<1>17. ASSUME NEW i \in 1 .. n, i # n PROVE ExpectedAt(G, <<>>, i) = ExpectedAt(F, <<>>, i)
  <2>1. G[i] = F[i] /\ i <= Len(G) /\ i <= Len(F) BY <1>2, <1>13, <1>17
  <2> QED BY <2>1 DEF ExpectedAt, KidsAt, PtrAt
<1>18. Last(s) = ExpectedAt(G, <<>>, n)
  <2>1. Len(s) - (n + 1) + 1 + n = Len(s) /\ n \in 1 .. n BY <1>2, <1>5
  <2>2. Last(s) = ExpectedAt(F, <<>>, n) + 1 BY <2>1, <1>6, <1>7
  <2>3. n <= Len(F) /\ n <= Len(G) BY <1>2, <1>13
  <2>4. ExpectedAt(F, <<>>, n) = Cardinality(f.kids) - (IF f.ptr = <<>> THEN 1 ELSE 0)
    BY <2>3 DEF ExpectedAt, KidsAt, PtrAt, f
  <2>5. ExpectedAt(G, <<>>, n) = Cardinality(g.kids) - (IF f.ptr = <<>> THEN 1 ELSE 0)
    BY <2>3, <1>3, <1>13 DEF ExpectedAt, KidsAt, PtrAt
  <2> QED BY <2>2, <2>4, <2>5, <1>14
<1>19. ASSUME NEW i \in 1 .. n - 1 PROVE r[Len(r) - n + 1 + i] = ExpectedAt(G, <<>>, i) + 1
  <2>1. Len(r) - n + 1 + i = Len(s) - (n + 1) + 1 + i /\ i \in 1 .. n /\ i # n
        /\ Len(r) - n + 1 + i \in 1 .. Len(s) - 1
    BY <1>2, <1>5, <1>7
  <2>2. ExpectedAt(G, <<>>, i) = ExpectedAt(F, <<>>, i) BY <2>1, <1>17
  <2> QED BY <2>1, <2>2, <1>6, <1>7
<1>20. Counting(G, <<>>, Last(s), r)
  <2>1. PICK m : m = Len(G) + Len(<<>>) OBVIOUS
  <2>2. m = n BY <2>1, <1>2, <1>13
  <2>3. /\ Last(s) = ExpectedAt(G, <<>>, m)
        /\ \A i \in 1 .. m - 1 : r[Len(r) - m + 1 + i] = ExpectedAt(G, <<>>, i) + 1
    BY <2>2, <1>18, <1>19
  <2> QED BY <2>1, <2>3 DEF Counting
<1> QED BY <1>16, <1>20 DEF CrawlOK, r

-----------------------------------------------------------------------------
(* The steps of fts_iter_next().                                           *)

LEMMA NoErrorFacts == NoError # "ESTALE" /\ NoError # "ENOMEM" /\ NoError # "ENOENT"
BY Zenon DEF NoError

LEMMA FailsFacts ==
    ASSUME NEW s, DOMAIN s = SyncFields, NEW errno
    PROVE  /\ DOMAIN Fails(errno, s) = SyncFields /\ Fails(errno, s).to = s.to
           /\ s.to = "mongo" => Fails(errno, s).run = "failed"
<1>1. CASE s.to = "mpi-file" /\ errno \in {"ESTALE", "ENOENT"}
  <2>1. Fails(errno, s) = s BY <1>1 DEF Fails
  <2> QED BY <2>1, <1>1
<1>2. CASE ~(s.to = "mpi-file" /\ errno \in {"ESTALE", "ENOENT"})
  <2>1. Fails(errno, s) = [s EXCEPT !.run = "failed", !.events = <<>>, !.why = errno]
    BY <1>2 DEF Fails
  <2> QED BY <2>1 DEF SyncFields
<1> QED BY <1>1, <1>2

LEMMA MissedFacts ==
    ASSUME NEW s, DOMAIN s = SyncFields, NEW errno
    PROVE  /\ DOMAIN Missed(errno, s) = SyncFields /\ Missed(errno, s).to = s.to
           /\ s.skip => Missed(errno, s).run = s.run
           /\ ~s.skip /\ s.to = "mongo" => Missed(errno, s).run = "failed"
<1>1. CASE s.skip
  <2>1. Missed(errno, s) = [s EXCEPT !.skipped = s.skipped + 1] BY <1>1 DEF Missed
  <2> QED BY <2>1, <1>1 DEF SyncFields
<1>2. CASE ~s.skip
  <2>1. Missed(errno, s) = Fails(errno, s) BY <1>2 DEF Missed
  <2> QED BY <2>1, <1>2, FailsFacts
<1> QED BY <1>1, <1>2

LEMMA YieldsFacts ==
    ASSUME NEW s, DOMAIN s = SyncFields, NEW e, Yields(e, s)
    PROVE  DOMAIN sync' = SyncFields /\ sync'.run = s.run /\ sync'.to = s.to
BY DEF Yields, SyncFields

LEMMA EnteredFacts ==
    ASSUME NEW f, DOMAIN f = FtsFields
    PROVE  /\ DOMAIN Entered(f) = FtsFields /\ Entered(f).frames = f.frames
           /\ Entered(f).top = f.top /\ Entered(f).counter = 0
           /\ Entered(f).sstack = Append(f.sstack, f.counter + 1)
BY DEF Entered, FtsFields

LEMMA UncountedFacts ==
    ASSUME NEW f, DOMAIN f = FtsFields
    PROVE  /\ DOMAIN Uncounted(f) = FtsFields /\ Uncounted(f).frames = f.frames
           /\ Uncounted(f).top = f.top /\ Uncounted(f).cur = f.cur
           /\ Uncounted(f).sstack = f.sstack /\ Uncounted(f).counter = f.counter - 1
BY DEF Uncounted, FtsFields

LEMMA CurFacts ==
    ASSUME NEW f, DOMAIN f = FtsFields, NEW x
    PROVE  LET g == [f EXCEPT !.cur = x]
           IN /\ DOMAIN g = FtsFields /\ g.frames = f.frames /\ g.top = f.top /\ g.cur = x
              /\ g.sstack = f.sstack /\ g.counter = f.counter
BY DEF FtsFields

\* An entry that is gone is never yielded.
LEMMA GoneIsStale ==
    ASSUME NEW calls \in Calls(<<>>) PROVE fsentry_from_any(calls) = "ESTALE"
<1>1. calls = [NoFailure EXCEPT !.open = "ENOENT"] BY DEF Calls
<1>2. /\ calls.open = "ENOENT" /\ calls.id = NoError /\ calls.statx = NoError
      /\ calls.symlink = NoError /\ calls.xattrs = NoError
  BY <1>1 DEF NoFailure
<1> QED BY <1>2, NoErrorFacts DEF fsentry_from_any

\* A directory is seen: its parent's counter waits in the stack, its own starts.
LEMMA DirectorySeen ==
    ASSUME DOMAIN sync = SyncFields, NEW f, DOMAIN f = FtsFields, NEW found, NEW e, NEW cur,
           DOMAIN cur = {"ino", "name", "path", "ptr"}, cur.ptr = <<>>,
           SeeDirectory(found, e, cur, f), Crawling
    PROVE  /\ DOMAIN fts' = FtsFields /\ DOMAIN sync' = SyncFields
           /\ Crawled' => /\ Crawled /\ fts'.frames = f.frames /\ fts'.top = f.top
                          /\ fts'.sstack = Append(f.sstack, f.counter + 1)
                          /\ \E c : /\ fts'.cur = <<c>> /\ c.name = cur.name
                                    /\ fts'.counter = IF c.ptr = <<>> THEN -1 ELSE 0
<1>1. PICK calls \in Calls(found) :
        LET errno == fsentry_from_any(calls)
            seen == Entered(f)
        IN CASE errno = NoError ->
                     /\ fts' = [seen EXCEPT !.cur = <<[cur EXCEPT !.ptr = found]>>]
                     /\ Yields(e, [sync EXCEPT !.converted = @ + 1])
             [] errno = "ESTALE" ->
                     /\ fts' = [(IF sync.skip THEN Uncounted(seen) ELSE seen) EXCEPT !.cur = <<cur>>]
                     /\ sync' = Missed("ESTALE", sync)
             [] OTHER ->
                     /\ fts' = seen
                     /\ sync' = Fails(errno, [sync EXCEPT !.converted = @ + 1])
  BY DEF SeeDirectory
<1> DEFINE errno == fsentry_from_any(calls)
           seen == Entered(f)
           more == [sync EXCEPT !.converted = @ + 1]
<1>2. DOMAIN more = SyncFields /\ more.run = sync.run /\ more.to = sync.to BY DEF SyncFields
<1>3. sync.run = "crawl" BY DEF Crawling
<1> HIDE DEF errno, seen, more
<1>4. /\ DOMAIN seen = FtsFields /\ seen.frames = f.frames /\ seen.top = f.top
      /\ seen.counter = 0 /\ seen.sstack = Append(f.sstack, f.counter + 1)
  BY EnteredFacts DEF seen
<1>5. CASE errno = NoError
  <2> DEFINE c == [cur EXCEPT !.ptr = found]
  <2>1. c.name = cur.name /\ c.ptr = found OBVIOUS
  <2>2. found # <<>> BY <1>5, GoneIsStale, NoErrorFacts DEF errno
  <2>3. fts' = [seen EXCEPT !.cur = <<c>>] /\ Yields(e, more)
    BY <1>1, <1>5, NoErrorFacts DEF errno, seen, more
  <2> HIDE DEF c
  <2>4. /\ DOMAIN fts' = FtsFields /\ fts'.frames = seen.frames /\ fts'.top = seen.top
        /\ fts'.cur = <<c>> /\ fts'.sstack = seen.sstack /\ fts'.counter = seen.counter
    BY <2>3, <1>4, CurFacts
  <2>5. DOMAIN sync' = SyncFields /\ sync'.run = sync.run /\ sync'.to = sync.to
    BY <2>3, <1>2, YieldsFacts
  <2> QED BY <2>1, <2>2, <2>4, <2>5, <1>4 DEF Crawled
<1>6. CASE errno = "ESTALE"
  <2> DEFINE g == IF sync.skip THEN Uncounted(seen) ELSE seen
  <2>1. fts' = [g EXCEPT !.cur = <<cur>>] /\ sync' = Missed("ESTALE", sync)
    BY <1>1, <1>6, NoErrorFacts DEF errno, seen
  <2>2. DOMAIN g = FtsFields /\ g.frames = seen.frames /\ g.top = seen.top /\ g.sstack = seen.sstack
    BY <1>4, UncountedFacts
  <2>3. sync.skip => g.counter = -1 BY <1>4, UncountedFacts
  <2> HIDE DEF g
  <2>4. /\ DOMAIN fts' = FtsFields /\ fts'.frames = g.frames /\ fts'.top = g.top
        /\ fts'.cur = <<cur>> /\ fts'.sstack = g.sstack /\ fts'.counter = g.counter
    BY <2>1, <2>2, CurFacts
  <2>5. /\ DOMAIN sync' = SyncFields /\ sync'.to = sync.to
        /\ ~sync.skip /\ sync.to = "mongo" => sync'.run = "failed"
    BY <2>1, MissedFacts
  <2>6. Crawled' => sync.skip /\ Crawled BY <2>5, <1>3 DEF Crawled
  <2> QED BY <2>2, <2>3, <2>4, <2>5, <2>6, <1>4
<1>7. CASE errno # NoError /\ errno # "ESTALE"
  <2>1. fts' = seen /\ sync' = Fails(errno, more) BY <1>1, <1>7 DEF errno, seen, more
  <2>2. /\ DOMAIN sync' = SyncFields /\ sync'.to = sync.to
        /\ sync.to = "mongo" => sync'.run = "failed"
    BY <2>1, <1>2, FailsFacts
  <2> QED BY <2>1, <2>2, <1>4 DEF Crawled
<1> QED BY <1>5, <1>6, <1>7

LEMMA CurRecord ==
    ASSUME NEW ino, NEW name, NEW path
    PROVE  LET c == Cur(ino, name, path)
           IN DOMAIN c = {"ino", "name", "path", "ptr"} /\ c.ptr = <<>> /\ c.name = name
BY DEF Cur

LEMMA SeeTopCounts ==
    ASSUME CrawlInv, SeeTop PROVE CrawlInv'
<1> DEFINE t == fts.top[1]
           found == Resolve(t.path)
           parent == IF t.dir = Root THEN <<NoId>> ELSE Resolve(Front(t.path))
           name == IF t.dir = Root THEN NoName ELSE Last(t.path)
           f == [fts EXCEPT !.top = <<>>]
           c == Cur(t.dir, name, t.path)
           e == Entry(IF found = <<>> THEN <<Root>> ELSE found, parent, name, t.path)
<1>1. /\ Crawling /\ fts.top # <<>>
      /\ \/ /\ fts' = [Entered(f) EXCEPT !.cur = <<c>>] /\ sync' = Fails("ENOENT", sync)
         \/ SeeDirectory(found, e, c, f)
  <2> HIDE DEF t, found, parent, name, f, c, e
  <2> QED BY DEF SeeTop, t, found, parent, name, f, c, e
<1>2. /\ DOMAIN f = FtsFields /\ f.frames = fts.frames /\ f.top = <<>>
      /\ f.sstack = fts.sstack /\ f.counter = fts.counter
  BY DEF CrawlInv, FtsFields
<1>3. DOMAIN c = {"ino", "name", "path", "ptr"} /\ c.ptr = <<>> BY CurRecord
<1>4. DOMAIN sync = SyncFields BY DEF CrawlInv
<1> HIDE DEF t, found, parent, name, f, c, e
<1>5. CASE fts' = [Entered(f) EXCEPT !.cur = <<c>>] /\ sync' = Fails("ENOENT", sync)
  <2>1. DOMAIN fts' = FtsFields BY <1>5, <1>2, EnteredFacts, CurFacts
  <2>2. /\ DOMAIN sync' = SyncFields /\ sync'.to = sync.to
        /\ sync.to = "mongo" => sync'.run = "failed"
    BY <1>4, <1>5, FailsFacts
  <2> QED BY <2>1, <2>2 DEF CrawlInv, Crawled
<1>6. CASE SeeDirectory(found, e, c, f)
  <2>1. /\ DOMAIN fts' = FtsFields /\ DOMAIN sync' = SyncFields
        /\ Crawled' => /\ Crawled /\ fts'.frames = f.frames /\ fts'.top = f.top
                       /\ fts'.sstack = Append(f.sstack, f.counter + 1)
                       /\ \E d : /\ fts'.cur = <<d>> /\ d.name = c.name
                                 /\ fts'.counter = IF d.ptr = <<>> THEN -1 ELSE 0
    BY <1>1, <1>2, <1>3, <1>4, <1>6, DirectorySeen
  <2>2. ASSUME Crawled'
        PROVE  CrawlOK(fts'.frames, fts'.cur, fts'.counter, fts'.sstack) /\ fts'.top = <<>>
    <3>1. PICK d : /\ fts'.cur = <<d>>
                   /\ fts'.counter = IF d.ptr = <<>> THEN -1 ELSE 0
      BY <2>1, <2>2
    <3>2. fts.frames = <<>> /\ CrawlOK(<<>>, <<>>, fts.counter, fts.sstack)
      BY <2>1, <2>2, <1>1 DEF CrawlInv
    <3>3. CrawlOK(<<>>, <<d>>, fts'.counter, Append(fts.sstack, fts.counter + 1))
      BY <3>1, <3>2, CrawlBegins
    <3> QED BY <2>1, <2>2, <3>1, <3>2, <3>3, <1>2
  <2> QED BY <2>1, <2>2 DEF CrawlInv, Crawled
<1> QED BY <1>1, <1>5, <1>6

\* What is taken of the current directory's names.
LEMMA TodoTaken ==
    ASSUME DOMAIN fts = FtsFields, NEW n, NEW t, NEW j
    PROVE  LET f == [fts EXCEPT !.frames[n].todo = @ \ {t}]
               h == [fts EXCEPT !.frames[n].todo = @ \ {t}, !.counter = @ + 1]
               g == [fts.frames[n] EXCEPT !.todo = fts.frames[n].todo \ {t}]
               G == [fts.frames EXCEPT ![n] = g]
           IN /\ DOMAIN f = FtsFields /\ f.frames = G /\ f.top = fts.top /\ f.cur = fts.cur
              /\ f.sstack = fts.sstack /\ f.counter = fts.counter
              /\ DOMAIN h = FtsFields /\ h.frames = G /\ h.top = fts.top /\ h.cur = fts.cur
              /\ h.sstack = fts.sstack /\ h.counter = fts.counter + 1
BY DEF FtsFields

LEMMA TakesTodo ==
    ASSUME NEW F, NEW t, Len(F) > 0, \E S : F \in Seq(S), FrameOK(F[Len(F)]),
           t \in F[Len(F)].todo
    PROVE  LET f == F[Len(F)]
               g == [f EXCEPT !.todo = f.todo \ {t}]
           IN Takes(F, t, f.kids, g, [F EXCEPT ![Len(F)] = g])
<1> DEFINE f == F[Len(F)]
           g == [f EXCEPT !.todo = f.todo \ {t}]
<1>1. DOMAIN f = FrameFields BY DEF FrameOK
<1>2. /\ g.todo = f.todo \ {t} /\ g.kids = f.kids /\ g.ptr = f.ptr /\ g.name = f.name
      /\ DOMAIN g = FrameFields
  BY <1>1 DEF FrameFields
<1> HIDE DEF g
<1> QED BY <1>2 DEF Takes, g

\* The current directory, when there is one.
LEMMA TopFacts ==
    ASSUME CrawlInv, Crawled, fts.cur = <<>>, fts.frames # <<>>
    PROVE  /\ CrawlOK(fts.frames, <<>>, fts.counter, fts.sstack) /\ Len(fts.frames) > 0
           /\ \E S : fts.frames \in Seq(S)
           /\ FrameOK(fts.frames[Len(fts.frames)]) /\ Top = fts.frames[Len(fts.frames)]
           /\ fts.top = <<>>
<1>1. CrawlOK(fts.frames, <<>>, fts.counter, fts.sstack) BY DEF CrawlInv
<1>2. PICK S : fts.frames \in Seq(S) BY <1>1 DEF CrawlOK, CrawlShape
<1>3. Len(fts.frames) > 0 /\ Len(fts.frames) \in 1 .. Len(fts.frames) BY <1>2
<1>4. FrameOK(fts.frames[Len(fts.frames)]) BY <1>1, <1>3 DEF CrawlOK, CrawlShape
<1>5. fts.top = <<>> BY DEF CrawlInv
<1> QED BY <1>1, <1>2, <1>3, <1>4, <1>5 DEF Top, Last

LEMMA SeeSubdirectoryCounts ==
    ASSUME CrawlInv, SeeSubdirectory PROVE CrawlInv'
<1>1. PICK t \in Top.todo :
        LET found == Lookup(Top.dir, t.name)
            path == Append(Top.path, t.name)
            f == [fts EXCEPT !.frames[Len(fts.frames)].todo = @ \ {t}]
        IN \/ SeeDirectory(found, Entry(IF found = <<>> THEN <<Root>> ELSE found,
                                        Top.ptr, t.name, path),
                           Cur(t.ino, t.name, path), f)
           \/ fts' = f /\ sync' = Missed("ENOENT", sync)
  BY DEF SeeSubdirectory
<1> DEFINE n == Len(fts.frames)
           f == [fts EXCEPT !.frames[n].todo = @ \ {t}]
           g == [fts.frames[n] EXCEPT !.todo = fts.frames[n].todo \ {t}]
           G == [fts.frames EXCEPT ![n] = g]
           c == Cur(t.ino, t.name, Append(Top.path, t.name))
<1>2. Crawling /\ fts.cur = <<>> /\ fts.frames # <<>> BY DEF SeeSubdirectory
<1>3. DOMAIN fts = FtsFields /\ DOMAIN sync = SyncFields BY DEF CrawlInv
<1>4. PICK found, e : \/ SeeDirectory(found, e, c, f)
                      \/ fts' = f /\ sync' = Missed("ENOENT", sync)
  BY <1>1
<1>5. DOMAIN c = {"ino", "name", "path", "ptr"} /\ c.ptr = <<>> /\ c.name = t.name BY CurRecord
<1>6. /\ DOMAIN f = FtsFields /\ f.frames = G /\ f.top = fts.top /\ f.cur = fts.cur
      /\ f.sstack = fts.sstack /\ f.counter = fts.counter
  BY <1>3, TodoTaken
<1>7. ASSUME Crawled
      PROVE  /\ CrawlOK(fts.frames, <<>>, fts.counter, fts.sstack) /\ Len(fts.frames) > 0
             /\ Takes(fts.frames, t, fts.frames[Len(fts.frames)].kids, g, G) /\ fts.top = <<>>
  <2>1. /\ CrawlOK(fts.frames, <<>>, fts.counter, fts.sstack) /\ Len(fts.frames) > 0
        /\ \E S : fts.frames \in Seq(S)
        /\ FrameOK(fts.frames[Len(fts.frames)]) /\ Top = fts.frames[Len(fts.frames)]
        /\ fts.top = <<>>
    BY <1>2, <1>7, TopFacts
  <2>2. Takes(fts.frames, t, fts.frames[Len(fts.frames)].kids, g, G)
    BY <2>1, TakesTodo
  <2> QED BY <2>1, <2>2
<1> HIDE DEF f, g, G, c, n
<1>8. CASE SeeDirectory(found, e, c, f)
  <2>1. /\ DOMAIN fts' = FtsFields /\ DOMAIN sync' = SyncFields
        /\ Crawled' => /\ Crawled /\ fts'.frames = f.frames /\ fts'.top = f.top
                       /\ fts'.sstack = Append(f.sstack, f.counter + 1)
                       /\ \E d : /\ fts'.cur = <<d>> /\ d.name = c.name
                                 /\ fts'.counter = IF d.ptr = <<>> THEN -1 ELSE 0
    BY <1>2, <1>3, <1>5, <1>6, <1>8, DirectorySeen
  <2>2. ASSUME Crawled'
        PROVE  CrawlOK(fts'.frames, fts'.cur, fts'.counter, fts'.sstack) /\ fts'.top = <<>>
    <3>1. PICK d : /\ fts'.cur = <<d>> /\ d.name = t.name
                   /\ fts'.counter = IF d.ptr = <<>> THEN -1 ELSE 0
      BY <2>1, <2>2, <1>5
    <3>2. Crawled BY <2>1, <2>2
    <3>3. CrawlOK(G, <<d>>, fts'.counter, Append(fts.sstack, fts.counter + 1))
      BY <3>1, <3>2, <1>7, CrawlSees
    <3> QED BY <2>1, <2>2, <3>1, <3>2, <3>3, <1>6, <1>7
  <2> QED BY <2>1, <2>2 DEF CrawlInv, Crawled
<1>9. CASE fts' = f /\ sync' = Missed("ENOENT", sync)
  <2>1. /\ DOMAIN sync' = SyncFields /\ sync'.to = sync.to
        /\ sync.skip => sync'.run = sync.run
        /\ ~sync.skip /\ sync.to = "mongo" => sync'.run = "failed"
    BY <1>3, <1>9, MissedFacts
  <2>2. ASSUME Crawled' PROVE CrawlOK(G, <<>>, fts.counter, fts.sstack) /\ fts.top = <<>>
    <3>1. Crawled BY <2>1, <2>2, <1>2 DEF Crawled, Crawling
    <3> QED BY <3>1, <1>7, CrawlCounts
  <2>3. Crawled' => /\ CrawlOK(fts'.frames, fts'.cur, fts'.counter, fts'.sstack)
                    /\ fts'.top = <<>>
    BY <2>2, <1>2, <1>6, <1>9
  <2> QED BY <2>1, <2>3, <1>6, <1>9 DEF CrawlInv, Crawled
<1> QED BY <1>4, <1>8, <1>9

\* A file is found: it is one more of the current directory.
LEMMA TakesFile ==
    ASSUME NEW F, NEW t, Len(F) > 0, \E S : F \in Seq(S), FrameOK(F[Len(F)]),
           t \in F[Len(F)].todo
    PROVE  LET f == F[Len(F)]
               g == [f EXCEPT !.todo = f.todo \ {t}]
               h == [g EXCEPT !.kids = g.kids \cup {t.name}]
               G == [F EXCEPT ![Len(F)] = g]
           IN Takes(F, t, f.kids \cup {t.name}, h, [G EXCEPT ![Len(F)] = h])
<1> DEFINE f == F[Len(F)]
           g == [f EXCEPT !.todo = f.todo \ {t}]
           h == [g EXCEPT !.kids = g.kids \cup {t.name}]
           G == [F EXCEPT ![Len(F)] = g]
<1>1. DOMAIN f = FrameFields BY DEF FrameOK
<1>2. /\ g.todo = f.todo \ {t} /\ g.kids = f.kids /\ g.ptr = f.ptr /\ g.name = f.name
      /\ DOMAIN g = FrameFields
  BY <1>1 DEF FrameFields
<1> HIDE DEF g
<1>3. /\ h.todo = g.todo /\ h.kids = f.kids \cup {t.name} /\ h.ptr = f.ptr /\ h.name = f.name
      /\ DOMAIN h = FrameFields
  BY <1>2 DEF FrameFields
<1> HIDE DEF h
<1>4. [G EXCEPT ![Len(F)] = h] = [F EXCEPT ![Len(F)] = h]
  <2>1. PICK S : F \in Seq(S) OBVIOUS
  <2> QED BY <2>1
<1> QED BY <1>2, <1>3, <1>4 DEF Takes, g, h

LEMMA SeeFileCounts ==
    ASSUME CrawlInv, SeeFile PROVE CrawlInv'
<1>1. PICK t \in Top.todo :
        LET n == Len(fts.frames)
            found == Lookup(Top.dir, t.name)
            f == [fts EXCEPT !.frames[n].todo = @ \ {t}, !.counter = @ + 1]
        IN \E calls \in Calls(found) :
              LET errno == fsentry_from_any(calls)
              IN CASE errno = NoError ->
                           /\ fts' = [f EXCEPT !.frames[n].kids = @ \cup {t.name}]
                           /\ Yields(Entry(found, Top.ptr, t.name, Append(Top.path, t.name)),
                                     [sync EXCEPT !.converted = @ + 1])
                   [] errno = "ESTALE" ->
                           /\ fts' = IF sync.skip THEN Uncounted(f) ELSE f
                           /\ sync' = Missed("ESTALE", sync)
                   [] OTHER ->
                           /\ fts' = f
                           /\ sync' = Fails(errno, [sync EXCEPT !.converted = @ + 1])
  BY DEF SeeFile
<1> DEFINE n == Len(fts.frames)
           f == [fts EXCEPT !.frames[n].todo = @ \ {t}, !.counter = @ + 1]
           g == [fts.frames[n] EXCEPT !.todo = fts.frames[n].todo \ {t}]
           G == [fts.frames EXCEPT ![n] = g]
           h == [g EXCEPT !.kids = g.kids \cup {t.name}]
           H == [G EXCEPT ![n] = h]
           more == [sync EXCEPT !.converted = @ + 1]
<1>2. Crawling /\ fts.cur = <<>> /\ fts.frames # <<>> BY DEF SeeFile
<1>3. DOMAIN fts = FtsFields /\ DOMAIN sync = SyncFields BY DEF CrawlInv
<1>4. \/ /\ fts' = [f EXCEPT !.frames[n].kids = @ \cup {t.name}]
         /\ \E e : Yields(e, more)
      \/ /\ fts' = IF sync.skip THEN Uncounted(f) ELSE f
         /\ sync' = Missed("ESTALE", sync)
      \/ fts' = f /\ \E errno : sync' = Fails(errno, more)
  <2>1. PICK found, calls :
            CASE fsentry_from_any(calls) = NoError ->
                           /\ fts' = [f EXCEPT !.frames[n].kids = @ \cup {t.name}]
                           /\ Yields(Entry(found, Top.ptr, t.name, Append(Top.path, t.name)), more)
              [] fsentry_from_any(calls) = "ESTALE" ->
                           /\ fts' = IF sync.skip THEN Uncounted(f) ELSE f
                           /\ sync' = Missed("ESTALE", sync)
              [] OTHER -> fts' = f /\ sync' = Fails(fsentry_from_any(calls), more)
    BY <1>1
  <2> HIDE DEF f, more, n
  <2>2. CASE fsentry_from_any(calls) = NoError BY <2>1, <2>2, NoErrorFacts
  <2>3. CASE fsentry_from_any(calls) = "ESTALE" BY <2>1, <2>3, NoErrorFacts
  <2>4. CASE fsentry_from_any(calls) \notin {NoError, "ESTALE"} BY <2>1, <2>4
  <2> QED BY <2>2, <2>3, <2>4
<1>5. DOMAIN more = SyncFields /\ more.run = sync.run /\ more.to = sync.to
  BY <1>3 DEF SyncFields
<1>6. /\ DOMAIN f = FtsFields /\ f.frames = G /\ f.top = fts.top /\ f.cur = fts.cur
      /\ f.sstack = fts.sstack /\ f.counter = fts.counter + 1
  BY <1>3, TodoTaken
<1>7. ASSUME Crawled
      PROVE  /\ CrawlOK(fts.frames, <<>>, fts.counter, fts.sstack) /\ Len(fts.frames) > 0
             /\ Takes(fts.frames, t, fts.frames[Len(fts.frames)].kids, g, G)
             /\ Takes(fts.frames, t, fts.frames[Len(fts.frames)].kids \cup {t.name}, h, H)
             /\ t.name \notin fts.frames[Len(fts.frames)].kids
             /\ fts.top = <<>> /\ G[n] = g
  <2>1. /\ CrawlOK(fts.frames, <<>>, fts.counter, fts.sstack) /\ Len(fts.frames) > 0
        /\ \E S : fts.frames \in Seq(S)
        /\ FrameOK(fts.frames[Len(fts.frames)]) /\ Top = fts.frames[Len(fts.frames)]
        /\ fts.top = <<>>
    BY <1>2, <1>7, TopFacts
  <2>2. Takes(fts.frames, t, fts.frames[Len(fts.frames)].kids, g, G)
    BY <2>1, TakesTodo
  <2>3. Takes(fts.frames, t, fts.frames[Len(fts.frames)].kids \cup {t.name}, h, H)
    BY <2>1, TakesFile
  <2>4. t.name \notin fts.frames[Len(fts.frames)].kids /\ G[Len(fts.frames)] = g
    BY <2>1, <2>2, CrawlTakes
  <2> QED BY <2>1, <2>2, <2>3, <2>4
<1>8. CASE /\ fts' = [f EXCEPT !.frames[n].kids = @ \cup {t.name}]
           /\ \E e : Yields(e, more)
  <2>1. /\ DOMAIN fts' = FtsFields /\ fts'.top = f.top /\ fts'.cur = f.cur
        /\ fts'.sstack = f.sstack /\ fts'.counter = f.counter
        /\ fts'.frames = [f.frames EXCEPT ![n] = [f.frames[n] EXCEPT !.kids =
                                                     f.frames[n].kids \cup {t.name}]]
    <3> HIDE DEF f, n
    <3> QED BY <1>6, <1>8 DEF FtsFields
  <2>2. DOMAIN sync' = SyncFields /\ sync'.run = sync.run /\ sync'.to = sync.to
    <3> HIDE DEF more
    <3> QED BY <1>5, <1>8, YieldsFacts
  <2> HIDE DEF f, g, more
  <2>3. ASSUME Crawled'
        PROVE  CrawlOK(fts'.frames, fts'.cur, fts'.counter, fts'.sstack) /\ fts'.top = <<>>
    <3>1. Crawled BY <2>2, <2>3 DEF Crawled
    <3>2. fts'.frames = H BY <2>1, <3>1, <1>6, <1>7
    <3> HIDE DEF G, h, H, n
    <3>3. PICK K, j : /\ K = fts.frames[Len(fts.frames)].kids \cup {t.name}
                      /\ j = fts.counter + 1
      OBVIOUS
    <3>4. Takes(fts.frames, t, K, h, H) /\ K # fts.frames[Len(fts.frames)].kids
      BY <3>1, <3>3, <1>7
    <3>5. j = IF K = fts.frames[Len(fts.frames)].kids THEN fts.counter ELSE fts.counter + 1
      BY <3>3, <3>4
    <3>6. CrawlOK(H, <<>>, j, fts.sstack) BY <3>1, <3>4, <3>5, <1>7, CrawlCounts
    <3> QED BY <2>1, <3>1, <3>2, <3>3, <3>6, <1>2, <1>6, <1>7
  <2> QED BY <2>1, <2>2, <2>3 DEF CrawlInv, Crawled
<1> HIDE DEF f, g, G, h, H, n, more
<1>9. CASE fts' = (IF sync.skip THEN Uncounted(f) ELSE f) /\ sync' = Missed("ESTALE", sync)
  <2>1. /\ DOMAIN sync' = SyncFields /\ sync'.to = sync.to
        /\ ~sync.skip /\ sync.to = "mongo" => sync'.run = "failed"
    BY <1>3, <1>9, MissedFacts
  <2>2. DOMAIN fts' = FtsFields BY <1>6, <1>9, UncountedFacts
  <2>3. ASSUME Crawled'
        PROVE  CrawlOK(fts'.frames, fts'.cur, fts'.counter, fts'.sstack) /\ fts'.top = <<>>
    <3>1. Crawled /\ sync.skip BY <2>1, <2>3, <1>2 DEF Crawled, Crawling
    <3>2. CrawlOK(G, <<>>, fts.counter, fts.sstack) BY <3>1, <1>7, CrawlCounts
    <3>3. fts.counter \in Int BY <3>1, <1>7 DEF CrawlOK, CrawlShape
    <3>4. /\ fts'.frames = G /\ fts'.cur = <<>> /\ fts'.sstack = fts.sstack
          /\ fts'.counter = f.counter - 1 /\ f.counter = fts.counter + 1 /\ fts'.top = <<>>
      <4>1. fts' = Uncounted(f) BY <3>1, <1>9
      <4>2. /\ fts'.frames = f.frames /\ fts'.cur = f.cur /\ fts'.sstack = f.sstack
            /\ fts'.counter = f.counter - 1 /\ fts'.top = f.top
        BY <4>1, <1>6, UncountedFacts
      <4>3. fts.top = <<>> BY <3>1, <1>7
      <4> QED BY <4>2, <4>3, <1>2, <1>6
    <3>5. fts'.counter = fts.counter BY <3>3, <3>4
    <3> QED BY <3>2, <3>4, <3>5
  <2> QED BY <2>1, <2>2, <2>3 DEF CrawlInv, Crawled
<1>10. CASE fts' = f /\ \E errno : sync' = Fails(errno, more)
  <2>1. /\ DOMAIN sync' = SyncFields /\ sync'.to = sync.to
        /\ sync.to = "mongo" => sync'.run = "failed"
    BY <1>5, <1>10, FailsFacts
  <2> QED BY <2>1, <1>6, <1>10 DEF CrawlInv, Crawled
<1> QED BY <1>4, <1>8, <1>9, <1>10

LEMMA DescendCounts ==
    ASSUME CrawlInv, Descend PROVE CrawlInv'
<1> DEFINE c == fts.cur[1]
           Todo == {[name |-> m, ino |-> tree[<<c.ino, m>>], isdir |-> IsDir(tree[<<c.ino, m>>])]
                       : m \in Entries(c.ino)}
<1>1. PICK found : fts' = [fts EXCEPT !.cur = <<>>,
                             !.frames = Append(@, Frame(c.ino, c.name, c.path, c.ptr,
                                                        IF found = <<c.ino>> THEN Todo ELSE {},
                                                        found = <<c.ino>>))]
  BY DEF Descend
<1> DEFINE g == Frame(c.ino, c.name, c.path, c.ptr, IF found = <<c.ino>> THEN Todo ELSE {},
                      found = <<c.ino>>)
<1>2. sync' = sync /\ Crawling /\ fts.cur # <<>> BY DEF Descend
<1>3. /\ DOMAIN g = FrameFields /\ g.name = c.name /\ g.ptr = c.ptr /\ g.kids = {}
      /\ g.todo = IF found = <<c.ino>> THEN Todo ELSE {}
  BY DEF Frame, FrameFields
<1>4. \A t, u \in Todo : t.name = u.name => t = u
  <2> DEFINE R(m) == [name |-> m, ino |-> tree[<<c.ino, m>>], isdir |-> IsDir(tree[<<c.ino, m>>])]
  <2>1. \A t \in Todo : \E m : t = R(m) OBVIOUS
  <2>2. \A m : R(m).name = m OBVIOUS
  <2> HIDE DEF R, Todo
  <2> QED BY <2>1, <2>2
<1> HIDE DEF Todo, g, c
<1>5. FrameOK(g) BY <1>3, <1>4, FS_EmptySet DEF FrameOK
<1>6. fts' = [fts EXCEPT !.cur = <<>>, !.frames = Append(fts.frames, g)] BY <1>1 DEF g
<1>7. /\ DOMAIN fts' = FtsFields /\ fts'.cur = <<>> /\ fts'.frames = Append(fts.frames, g)
      /\ fts'.top = fts.top /\ fts'.counter = fts.counter /\ fts'.sstack = fts.sstack
  BY <1>6 DEF CrawlInv, FtsFields
<1>8. ASSUME Crawled
      PROVE  CrawlOK(fts'.frames, fts'.cur, fts'.counter, fts'.sstack) /\ fts'.top = <<>>
  <2>1. CrawlOK(fts.frames, fts.cur, fts.counter, fts.sstack) /\ fts.top = <<>>
    BY <1>2, <1>8 DEF CrawlInv
  <2>2. fts.cur = <<c>> BY <2>1, <1>2 DEF CrawlOK, CrawlShape, c
  <2>3. CrawlOK(fts.frames, <<c>>, fts.counter, fts.sstack) BY <2>1, <2>2
  <2>4. CrawlOK(Append(fts.frames, g), <<>>, fts.counter, fts.sstack)
    BY <2>3, <1>3, <1>5, CrawlEnters
  <2> QED BY <2>1, <2>4, <1>7
<1> QED BY <1>2, <1>7, <1>8 DEF CrawlInv, Crawled

LEMMA UnreadableCounts ==
    ASSUME CrawlInv, Unreadable PROVE CrawlInv'
<1> DEFINE h == IF sync.skip THEN Left(fts, Last(fts.sstack) - 1) ELSE fts
           missed == Missed("ENOENT", sync)
<1>1. /\ fts' = [h EXCEPT !.cur = <<>>]
      /\ sync' = IF fts.frames = <<>> /\ missed.run = "crawl"
                 THEN [missed EXCEPT !.run = "last"] ELSE missed
      /\ Crawling /\ fts.cur # <<>>
  BY DEF Unreadable
<1>2. DOMAIN fts = FtsFields /\ DOMAIN sync = SyncFields BY DEF CrawlInv
<1>3. LET l == Left(fts, Last(fts.sstack) - 1)
      IN /\ DOMAIN l = FtsFields /\ l.frames = fts.frames /\ l.top = fts.top
         /\ l.counter = Last(fts.sstack) - 1 /\ l.sstack = Front(fts.sstack)
  BY <1>2 DEF Left, FtsFields
<1>4. DOMAIN h = FtsFields BY <1>2, <1>3
<1>5. /\ DOMAIN fts' = FtsFields /\ fts'.frames = h.frames /\ fts'.top = h.top
      /\ fts'.cur = <<>> /\ fts'.sstack = h.sstack /\ fts'.counter = h.counter
  <2> HIDE DEF h
  <2> QED BY <1>1, <1>4, CurFacts
<1>6. /\ DOMAIN missed = SyncFields /\ missed.to = sync.to
      /\ ~sync.skip /\ sync.to = "mongo" => missed.run = "failed"
  BY <1>2, MissedFacts
<1> HIDE DEF missed
<1>7. /\ DOMAIN sync' = SyncFields /\ sync'.to = sync.to
      /\ sync'.run = "crawl" => missed.run = "crawl" /\ fts.frames # <<>>
  <2>1. CASE fts.frames = <<>> /\ missed.run = "crawl"
    <3>1. sync' = [missed EXCEPT !.run = "last"] BY <2>1, <1>1
    <3> QED BY <3>1, <1>6 DEF SyncFields
  <2>2. CASE ~(fts.frames = <<>> /\ missed.run = "crawl")
    <3>1. sync' = missed BY <2>2, <1>1
    <3> QED BY <3>1, <2>2, <1>6
  <2> QED BY <2>1, <2>2
<1>8. ASSUME Crawled'
      PROVE  CrawlOK(fts'.frames, fts'.cur, fts'.counter, fts'.sstack) /\ fts'.top = <<>>
  <2>1. Crawled /\ sync.skip /\ fts.frames # <<>> BY <1>1, <1>6, <1>7, <1>8 DEF Crawled, Crawling
  <2>2. CrawlOK(fts.frames, fts.cur, fts.counter, fts.sstack) /\ fts.top = <<>>
    BY <2>1 DEF CrawlInv
  <2>3. PICK c : fts.cur = <<c>> BY <2>2, <1>1 DEF CrawlOK, CrawlShape
  <2>4. Len(fts.frames) > 0
    <3>1. PICK S : fts.frames \in Seq(S) BY <2>2 DEF CrawlOK, CrawlShape
    <3> QED BY <3>1, <2>1
  <2>5. CrawlOK(fts.frames, <<>>, Last(fts.sstack) - 1, Front(fts.sstack))
    BY <2>2, <2>3, <2>4, CrawlGivesUp
  <2>6. h = Left(fts, Last(fts.sstack) - 1) BY <2>1
  <2> HIDE DEF h
  <2> QED BY <2>2, <2>5, <2>6, <1>3, <1>5
<1> QED BY <1>5, <1>7, <1>8 DEF CrawlInv, Crawled

LEMMA LeaveCounts ==
    ASSUME CrawlInv, Leave PROVE CrawlInv'
<1> DEFINE n == Len(fts.frames)
           l == Left(fts, Last(fts.sstack))
           G == IF n = 1 THEN <<>>
                ELSE [Front(l.frames) EXCEPT ![n - 1].kids = @ \cup {Top.name}]
           ended == [sync EXCEPT !.run = IF n = 1 THEN "last" ELSE @]
<1>1. /\ fts' = [l EXCEPT !.frames = G]
      /\ \E e : Yields(e, ended)
      /\ Crawling /\ fts.cur = <<>> /\ fts.frames # <<>>
  <2>1. fts' = [l EXCEPT !.frames = G] BY Zenon DEF Leave
  <2>2. \E e : Yields(e, ended) BY DEF Leave
  <2>3. Crawling /\ fts.cur = <<>> /\ fts.frames # <<>> BY DEF Leave, Done
  <2> QED BY <2>1, <2>2, <2>3
<1>2. DOMAIN fts = FtsFields /\ DOMAIN sync = SyncFields BY DEF CrawlInv
<1>3. /\ DOMAIN l = FtsFields /\ l.frames = fts.frames /\ l.top = fts.top /\ l.cur = fts.cur
      /\ l.counter = Last(fts.sstack) /\ l.sstack = Front(fts.sstack)
  BY <1>2 DEF Left, FtsFields
<1>4. /\ DOMAIN ended = SyncFields /\ ended.to = sync.to
      /\ ended.run = IF n = 1 THEN "last" ELSE sync.run
  BY <1>2 DEF SyncFields
<1>5. DOMAIN sync' = SyncFields /\ sync'.to = sync.to /\ sync'.run = IF n = 1 THEN "last" ELSE sync.run
  <2> HIDE DEF ended, n
  <2> QED BY <1>1, <1>4, YieldsFacts
<1>6. /\ DOMAIN fts' = FtsFields /\ fts'.frames = G /\ fts'.top = l.top /\ fts'.cur = l.cur
      /\ fts'.sstack = l.sstack /\ fts'.counter = l.counter
  <2> HIDE DEF l, G
  <2> QED BY <1>1, <1>3 DEF FtsFields
<1>7. ASSUME Crawled'
      PROVE  CrawlOK(fts'.frames, fts'.cur, fts'.counter, fts'.sstack) /\ fts'.top = <<>>
  <2>1. Crawled /\ n # 1 BY <1>5, <1>7 DEF Crawled
  <2>2. /\ CrawlOK(fts.frames, <<>>, fts.counter, fts.sstack) /\ Len(fts.frames) > 0
        /\ Top = fts.frames[n] /\ fts.top = <<>>
    BY <2>1, <1>1, TopFacts
  <2>3. PICK S : fts.frames \in Seq(S) BY <2>2 DEF CrawlOK, CrawlShape
  <2>4. n \in Nat /\ n > 1
    <3>1. n \in Nat BY <2>3
    <3>2. n > 0 /\ n # 1 BY <2>1, <2>2
    <3> HIDE DEF n
    <3> QED BY <3>1, <3>2
  <2> DEFINE F == fts.frames
             f == F[n - 1]
             g == [f EXCEPT !.kids = f.kids \cup {Top.name}]
  <2>5. FrameOK(f)
    <3>1. n - 1 \in 1 .. n BY <2>4
    <3> QED BY <3>1, <2>2 DEF CrawlOK, CrawlShape
  <2>6. /\ g.kids = f.kids \cup {Top.name} /\ g.todo = f.todo /\ g.ptr = f.ptr /\ g.name = f.name
        /\ DOMAIN g = FrameFields
    BY <2>5 DEF FrameOK, FrameFields
  <2>7. Front(F)[n - 1] = f
    <3>1. Len(F) > 0 /\ n - 1 \in 1 .. Len(F) - 1 BY <2>4
    <3> HIDE DEF F, n
    <3>2. \A i \in 1 .. Len(F) - 1 : Front(F)[i] = F[i] BY <3>1, <2>3, SeqFront DEF F
    <3> QED BY <3>1, <3>2
  <2>8. G = [Front(F) EXCEPT ![n - 1] = [Front(F)[n - 1] EXCEPT !.kids =
                                            Front(F)[n - 1].kids \cup {Top.name}]]
    BY <2>1, <1>3
  <2>9. G = [Front(F) EXCEPT ![n - 1] = g] BY <2>7, <2>8
  <2> HIDE DEF G, g
  <2>10. Leaves(F, g, G) BY <2>2, <2>6, <2>9 DEF Leaves
  <2> HIDE DEF F, n
  <2>11. CrawlOK(G, <<>>, Last(fts.sstack), Front(fts.sstack))
    BY <2>2, <2>4, <2>10, CrawlLeaves DEF F, n
  <2> QED BY <2>2, <2>11, <1>1, <1>3, <1>6
<1> QED BY <1>5, <1>6, <1>7 DEF CrawlInv, Crawled

LEMMA StopCounts ==
    ASSUME CrawlInv, Stop PROVE CrawlInv'
<1> DEFINE s == Fails("ENOENT", sync)
<1>1. /\ fts' = NoFts /\ sync' = IF s.run = "crawl" THEN [s EXCEPT !.run = "last"] ELSE s
  BY DEF Stop
<1>2. DOMAIN s = SyncFields BY FailsFacts DEF CrawlInv
<1> HIDE DEF s
<1>3. DOMAIN sync' = SyncFields /\ sync'.run # "crawl" BY <1>1, <1>2 DEF SyncFields
<1>4. DOMAIN fts' = FtsFields BY <1>1 DEF NoFts, FtsFields
<1> QED BY <1>3, <1>4 DEF CrawlInv, Crawled

-----------------------------------------------------------------------------
(* The other steps.                                                        *)

LEMMA StartCounts ==
    ASSUME CrawlInv, NEW dir, NEW set, StartSync(dir, set) PROVE CrawlInv'
<1>1. PICK x : fts' = [NoFts EXCEPT !.top = x, !.sstack = IF dir = Root THEN <<1>> ELSE <<>>]
  BY DEF StartSync
<1>2. /\ DOMAIN fts' = FtsFields /\ fts'.frames = <<>> /\ fts'.cur = <<>> /\ fts'.counter = 0
      /\ fts'.sstack = IF dir = Root THEN <<1>> ELSE <<>>
  BY <1>1 DEF NoFts, FtsFields
<1>3. DOMAIN sync' = SyncFields BY DEF StartSync, NoSync, SyncFields
<1>4. CrawlOK(<<>>, <<>>, fts'.counter, fts'.sstack)
  <2>1. fts'.sstack \in Seq(Int) /\ Len(fts'.sstack) >= 0
    <3>1. CASE dir = Root BY <3>1, <1>2
    <3>2. CASE dir # Root BY <3>2, <1>2
    <3> QED BY <3>1, <3>2
  <2>2. Len(<<>>) = 0 /\ <<>> \in Seq(Int) OBVIOUS
  <2>3. CrawlShape(<<>>, <<>>, fts'.counter, fts'.sstack) BY <2>1, <2>2, <1>2 DEF CrawlShape
  <2>4. Counting(<<>>, <<>>, fts'.counter, fts'.sstack) BY <2>2 DEF Counting
  <2> QED BY <2>3, <2>4 DEF CrawlOK
<1> QED BY <1>2, <1>3, <1>4 DEF CrawlInv

LEMMA NotCrawling ==
    ASSUME CrawlInv, DOMAIN fts' = FtsFields, DOMAIN sync' = SyncFields, sync'.run # "crawl"
    PROVE  CrawlInv'
BY DEF CrawlInv, Crawled

LEMMA FtsKept ==
    ASSUME CrawlInv, fts' = fts, DOMAIN sync' = SyncFields, sync'.run = sync.run,
           sync'.to = sync.to
    PROVE  CrawlInv'
BY DEF CrawlInv, Crawled

LEMMA OneCounts ==
    ASSUME CrawlInv, NEW set, SyncOne(set) PROVE CrawlInv'
<1>1. DOMAIN sync' = SyncFields /\ sync'.run = "last" BY DEF SyncOne, NoSync, SyncFields
<1>2. DOMAIN fts' = FtsFields BY DEF SyncOne, CrawlInv
<1> QED BY <1>1, <1>2, NotCrawling

LEMMA ChunkCounts ==
    ASSUME CrawlInv, UpdateChunk \/ BulkFails \/ EndSync PROVE CrawlInv'
<1>0. DOMAIN sync = SyncFields /\ DOMAIN fts = FtsFields BY DEF CrawlInv
<1>1. CASE UpdateChunk
  <2>1. PICK x : sync' = [sync EXCEPT !.events = x] BY <1>1 DEF UpdateChunk
  <2>2. DOMAIN sync' = SyncFields /\ sync'.run = sync.run /\ sync'.to = sync.to
    BY <2>1, <1>0 DEF SyncFields
  <2> QED BY <2>2, <1>1, FtsKept DEF UpdateChunk
<1>2. CASE BulkFails
  <2>1. DOMAIN sync' = SyncFields /\ sync'.run = "failed" BY <1>0, <1>2 DEF BulkFails, SyncFields
  <2>2. fts' = fts BY <1>2 DEF BulkFails
  <2> QED BY <2>1, <2>2, <1>0, NotCrawling
<1>3. CASE EndSync
  <2>1. DOMAIN sync' = SyncFields /\ sync'.run = "done" BY <1>0, <1>3 DEF EndSync, SyncFields
  <2>2. DOMAIN fts' = FtsFields BY <1>3 DEF EndSync, NoFts, FtsFields
  <2> QED BY <2>1, <2>2, NotCrawling
<1> QED BY <1>1, <1>2, <1>3

LEMMA CrawlNext ==
    ASSUME CrawlInv, SyncNext PROVE CrawlInv'
<1>1. CASE User \/ Tick \/ GcCheck \/ GcCrash \/ GcUpdate \/ GcEnd
           \/ \E dry, check, before : GcStart(dry, check, before)
  <2>1. fts' = fts /\ sync' = sync
    BY <1>1 DEF User, Tick, GcCheck, GcCrash, GcUpdate, GcEnd, GcStart
  <2> QED BY <2>1, FtsKept DEF CrawlInv
<1>2. CASE \E set : (\E dir : StartSync(dir, set)) \/ SyncOne(set)
  BY <1>2, StartCounts, OneCounts
<1>3. CASE SeeTop \/ SeeSubdirectory \/ SeeFile \/ Descend
  BY <1>3, SeeTopCounts, SeeSubdirectoryCounts, SeeFileCounts, DescendCounts
<1>4. CASE Unreadable \/ Leave \/ Stop BY <1>4, UnreadableCounts, LeaveCounts, StopCounts
<1>5. CASE UpdateChunk \/ BulkFails \/ EndSync BY <1>5, ChunkCounts
<1> QED BY <1>1, <1>2, <1>3, <1>4, <1>5 DEF SyncNext

\* However deep the tree, whatever its users do during the crawl and whichever
\* entries vanish, fail or cannot be read, the counter of the directory that is
\* read and those of the directories above it are the numbers of their entries
\* seen so far (children_counter in fts_iter_next).
THEOREM CountersAreRight == Spec => []CountersMatch
<1>1. Init => CrawlInv
  <2> SUFFICES ASSUME SyncInit PROVE CrawlInv BY DEF Init
  <2>1. DOMAIN fts = FtsFields BY DEF SyncInit, NoFts, FtsFields
  <2>2. DOMAIN sync = SyncFields /\ sync.run = "idle" BY DEF SyncInit, NoSync, SyncFields
  <2> QED BY <2>1, <2>2 DEF CrawlInv, Crawled
<1>2. CrawlInv /\ [Next]_vars => CrawlInv'
  <2> SUFFICES ASSUME CrawlInv, [Next]_vars PROVE CrawlInv' OBVIOUS
  <2>1. SyncNext \/ (fts' = fts /\ sync' = sync) BY DEF Next, vars, scanVars, syncVars
  <2>2. CASE fts' = fts /\ sync' = sync BY <2>2, FtsKept DEF CrawlInv
  <2> QED BY <2>1, <2>2, CrawlNext
<1> QED BY <1>1, <1>2, CrawlImplies, PTL DEF Spec

-----------------------------------------------------------------------------
(* The parallel crawl.                                                     *)

MfuFields == {"run", "current", "seen_first_time", "parent", "parent_id", "children", "skipped",
              "converted"}

Found(e) == e.path \notin deal.gone /\ Dirname(e.path) \notin deal.gone
SentAs(e) == [path |-> e.path, parent |-> IF e.path = <<>> THEN NoId ELSE Dirname(e.path)]

\* parent_id goes with parent, but for the mount point's.
ParentOK(k) ==
    k.parent # <<>> =>
        \E p : k.parent = <<p>> /\ (p # <<"..">> => k.parent_id = mfu_build_id(p))

RankOK(r, k) ==
    /\ DOMAIN k = MfuFields
    /\ k.current \in 1 .. Len(deal.lists[r]) + 1
    /\ k.run = "done" => k.current = Len(deal.lists[r]) + 1
    /\ ParentOK(k)

Passed(s, r, i) == Found(deal.lists[r][i]) /\ s = SentAs(deal.lists[r][i])

\* What was sent are the entries found, of those that the ranks have passed.
MfuInv ==
    /\ deal \in Dealings
    /\ DOMAIN ranks = Rank /\ \A r \in Rank : RankOK(r, ranks[r])
    /\ \E S : msent \in Seq(S)
    /\ IsFiniteSet(Range(msent)) /\ Cardinality(Range(msent)) = Len(msent)
    /\ \A s : s \in Range(msent) <=>
                 \E r \in Rank : \E i \in 1 .. ranks[r].current - 1 :
                     Passed(s, r, i)

LEMMA RangeAppend ==
    ASSUME NEW S, NEW s \in Seq(S), NEW x
    PROVE  /\ Range(Append(s, x)) = Range(s) \cup {x}
           /\ Append(s, x) \in Seq(S \cup {x}) /\ Len(Append(s, x)) = Len(s) + 1
<1>1. s \in Seq(S \cup {x}) /\ Len(s) \in Nat /\ DOMAIN s = 1 .. Len(s) OBVIOUS
<1>2. /\ Append(s, x) \in Seq(S \cup {x}) /\ Len(Append(s, x)) = Len(s) + 1
      /\ \A i \in 1 .. Len(s) : Append(s, x)[i] = s[i]
      /\ Append(s, x)[Len(s) + 1] = x
      /\ DOMAIN Append(s, x) = 1 .. Len(s) + 1
  BY <1>1
<1> DEFINE t == Append(s, x)
<1> HIDE DEF t
<1>3. Range(t) = Range(s) \cup {x}
  <2>1. ASSUME NEW y \in Range(t) PROVE y \in Range(s) \cup {x}
    <3>1. PICK i \in 1 .. Len(s) + 1 : y = t[i] BY <2>1, <1>2 DEF Range, t
    <3>2. CASE i = Len(s) + 1 BY <3>1, <3>2, <1>2 DEF t
    <3>3. CASE i # Len(s) + 1
      <4>1. i \in 1 .. Len(s) BY <3>3, <1>1
      <4>2. y = s[i] BY <4>1, <3>1, <1>2 DEF t
      <4> QED BY <4>1, <4>2, <1>1 DEF Range
    <3> QED BY <3>2, <3>3
  <2>2. ASSUME NEW y \in Range(s) PROVE y \in Range(t)
    <3>1. PICK i \in 1 .. Len(s) : y = s[i] BY <2>2, <1>1 DEF Range
    <3>2. i \in DOMAIN t /\ y = t[i] BY <3>1, <1>1, <1>2 DEF t
    <3> QED BY <3>2 DEF Range
  <2>3. x \in Range(t)
    <3>1. Len(s) + 1 \in DOMAIN t /\ x = t[Len(s) + 1] BY <1>1, <1>2 DEF t
    <3> QED BY <3>1 DEF Range
  <2> QED BY <2>1, <2>2, <2>3
<1> QED BY <1>2, <1>3 DEF t

\* The names of a list, and the one that its first entry has.
LEMMA DealFacts ==
    ASSUME MfuInv, NEW r \in Rank
    PROVE  /\ Len(deal.lists[r]) \in Nat /\ DOMAIN deal.lists[r] = 1 .. Len(deal.lists[r])
           /\ <<"..">> \notin deal.gone
           /\ \A i \in 1 .. Len(deal.lists[r]) :
                 LET path == deal.lists[r][i].path
                 IN /\ path = <<>> <=> r = 0 /\ i = 1
                    /\ path # <<>> => Dirname(path) # <<"..">>
                    /\ path # NoId /\ (Dirname(path) \in deal.gone => path \in deal.gone)
                    /\ \A q \in Rank : \A j \in DOMAIN deal.lists[q] :
                          deal.lists[q][j].path = path => q = r /\ j = i
<1> DEFINE P == [path : Seq(STRING), dir : BOOLEAN]
<1>1. deal.lists[r] \in Seq(P) /\ <<"..">> \notin deal.gone BY DealAssumption DEF MfuInv, Rank
<1>2. /\ Len(deal.lists[r]) \in Nat /\ DOMAIN deal.lists[r] = 1 .. Len(deal.lists[r])
      /\ \A i \in 1 .. Len(deal.lists[r]) : deal.lists[r][i] \in P
  <2> HIDE DEF P
  <2> QED BY <1>1
<1>3. SUFFICES ASSUME NEW i \in 1 .. Len(deal.lists[r])
               PROVE  LET path == deal.lists[r][i].path
                      IN /\ path = <<>> <=> r = 0 /\ i = 1
                         /\ path # <<>> => Dirname(path) # <<"..">>
                         /\ path # NoId /\ (Dirname(path) \in deal.gone => path \in deal.gone)
                         /\ \A q \in Rank : \A j \in DOMAIN deal.lists[q] :
                               deal.lists[q][j].path = path => q = r /\ j = i
  BY <1>1, <1>2
<1> DEFINE path == deal.lists[r][i].path
<1>4. /\ path = <<>> <=> r = 0 /\ i = 1
      /\ path # NoId /\ (path # <<>> => path[1] # "..")
      /\ path # <<>> /\ Front(path) \in deal.gone => path \in deal.gone
      /\ \A q \in Rank : \A j \in DOMAIN deal.lists[q] :
            deal.lists[q][j].path = path => q = r /\ j = i
  BY <1>2, DealAssumption DEF MfuInv, Rank
<1>5. path \in Seq(STRING) BY <1>2
<1> HIDE DEF path
<1>6. ASSUME path # <<>>, Dirname(path) = <<"..">> PROVE FALSE
  <2>1. Front(path) = <<"..">> BY <1>6 DEF Dirname
  <2>2. Len(path) \in Nat /\ Len(path) > 0 BY <1>5, <1>6
  <2>3. /\ Len(Front(path)) = Len(path) - 1
        /\ \A j \in 1 .. Len(path) - 1 : Front(path)[j] = path[j]
    BY <1>5, <2>2, SeqFront
  <2>4. Len(<<"..">>) = 1 /\ <<"..">>[1] = ".." OBVIOUS
  <2>5. Len(path) - 1 = 1 BY <2>1, <2>3, <2>4
  <2>6. 1 \in 1 .. Len(path) - 1 BY <2>2, <2>5, SMT
  <2>7. Front(path)[1] = path[1] BY <2>3, <2>6
  <2>8. path[1] = ".." BY <2>1, <2>4, <2>7
  <2> QED BY <2>8, <1>4, <1>6
<1>7. Dirname(path) \in deal.gone => path \in deal.gone BY <1>1, <1>4 DEF Dirname
<1> QED BY <1>4, <1>6, <1>7 DEF path

\* A step of a rank that passes no entry.
LEMMA MfuStays ==
    ASSUME MfuInv, NEW r \in Rank, NEW k, ranks' = [ranks EXCEPT ![r] = k],
           RankOK(r, k), k.current = ranks[r].current, UNCHANGED <<deal, msent>>
    PROVE  MfuInv'
<1>1. deal' = deal /\ msent' = msent /\ Rank' = Rank BY DEF Rank
<1>2. /\ DOMAIN ranks' = Rank
      /\ \A q \in Rank : ranks'[q] = IF q = r THEN k ELSE ranks[q]
  BY DEF MfuInv
<1>3. \A q \in Rank : ranks'[q].current = ranks[q].current BY <1>2
<1>4. \A q \in Rank : RankOK(q, ranks[q])'
  <2> SUFFICES ASSUME NEW q \in Rank PROVE RankOK(q, ranks[q])' OBVIOUS
  <2>1. RankOK(q, ranks'[q]) BY <1>2 DEF MfuInv
  <2> QED BY <2>1, <1>1 DEF RankOK, ParentOK, mfu_build_id
<1>5. \A s, q, i : Passed(s, q, i)' <=> Passed(s, q, i) BY <1>1 DEF Passed, Found, SentAs, Dirname
<1> QED BY <1>1, <1>2, <1>3, <1>4, <1>5 DEF MfuInv

LEMMA EndStays ==
    ASSUME MfuInv, NEW r \in Rank, HandleEnd(r) PROVE MfuInv'
<1>1. RankOK(r, ranks[r]) /\ ranks[r].current = Len(deal.lists[r]) + 1
  <2>1. RankOK(r, ranks[r]) BY DEF MfuInv
  <2>2. ranks[r].current > Len(deal.lists[r]) BY DEF HandleEnd, AtEnd
  <2>3. Len(deal.lists[r]) \in Nat BY DealFacts
  <2> QED BY <2>1, <2>2, <2>3 DEF RankOK
<1>2. UNCHANGED <<deal, msent>> BY DEF HandleEnd
<1>3. CASE ranks' = [ranks EXCEPT ![r].run = "done"]
  <2> DEFINE k == [ranks[r] EXCEPT !.run = "done"]
  <2>1. ranks' = [ranks EXCEPT ![r] = k] BY <1>3
  <2>2. RankOK(r, k) /\ k.current = ranks[r].current BY <1>1 DEF RankOK, ParentOK, MfuFields
  <2> HIDE DEF k
  <2> QED BY <2>1, <2>2, <1>2, MfuStays
<1>4. CASE ranks' = [ranks EXCEPT ![r].parent = <<>>, ![r].parent_id = <<>>]
  <2> DEFINE k == [ranks[r] EXCEPT !.parent = <<>>, !.parent_id = <<>>]
  <2>1. ranks' = [ranks EXCEPT ![r] = k] BY <1>4 DEF MfuInv
  <2>2. RankOK(r, k) /\ k.current = ranks[r].current BY <1>1 DEF RankOK, ParentOK, MfuFields
  <2> HIDE DEF k
  <2> QED BY <2>1, <2>2, <1>2, MfuStays
<1> QED BY <1>3, <1>4 DEF HandleEnd

LEMMA NewDirectoryStays ==
    ASSUME MfuInv, NEW r \in Rank, HandleNewDirectory(r) PROVE MfuInv'
<1> DEFINE k == [ranks[r] EXCEPT !.seen_first_time = FALSE]
<1>1. ranks' = [ranks EXCEPT ![r] = k] /\ UNCHANGED <<deal, msent>> BY DEF HandleNewDirectory
<1>2. RankOK(r, ranks[r]) BY DEF MfuInv
<1>3. RankOK(r, k) /\ k.current = ranks[r].current BY <1>2 DEF RankOK, ParentOK, MfuFields
<1> HIDE DEF k
<1> QED BY <1>1, <1>3, MfuStays

\* What mfu_iter_setup_current_parent() makes of a rank.
LEMMA SetupFacts ==
    ASSUME NEW k, NEW path, DOMAIN k = MfuFields
    PROVE  LET s == SetupParent(k, path)
           IN /\ DOMAIN s = MfuFields /\ s.current = k.current /\ s.run = k.run
              /\ s.parent = <<Dirname(path)>> /\ s.parent_id = mfu_build_id(Dirname(path))
              /\ s.children = k.children /\ s.seen_first_time = k.seen_first_time
BY DEF SetupParent, MfuFields

LEMMA ChildrenFacts ==
    ASSUME NEW s, DOMAIN s = MfuFields
    PROVE  LET k == [s EXCEPT !.children = 0]
           IN /\ DOMAIN k = MfuFields /\ k.current = s.current /\ k.run = s.run
              /\ k.parent = s.parent /\ k.parent_id = s.parent_id
              /\ k.children = 0 /\ k.seen_first_time = s.seen_first_time
BY DEF MfuFields

LEMMA NewParentStays ==
    ASSUME MfuInv, NEW r \in Rank, HandleNewParent(r) PROVE MfuInv'
<1> DEFINE path == Current(r).path
           s == SetupParent(ranks[r], path)
           k == [s EXCEPT !.children = 0]
<1>1. ranks' = [ranks EXCEPT ![r] = k] /\ UNCHANGED <<deal, msent>> BY DEF HandleNewParent
<1>2. RankOK(r, ranks[r]) BY DEF MfuInv
<1> HIDE DEF path
<1>3. /\ DOMAIN s = MfuFields /\ s.current = ranks[r].current /\ s.run = ranks[r].run
      /\ s.parent = <<Dirname(path)>> /\ s.parent_id = mfu_build_id(Dirname(path))
  BY <1>2, SetupFacts DEF RankOK
<1> HIDE DEF s
<1>4. /\ DOMAIN k = MfuFields /\ k.current = ranks[r].current /\ k.run = ranks[r].run
      /\ k.parent = <<Dirname(path)>> /\ k.parent_id = mfu_build_id(Dirname(path))
  BY <1>3, ChildrenFacts
<1> HIDE DEF k
<1>5. RankOK(r, k) BY <1>2, <1>4 DEF RankOK, ParentOK
<1> QED BY <1>1, <1>4, <1>5, MfuStays

\* A step of a rank that passes an entry, and sends it if it was found.
LEMMA MfuPasses ==
    ASSUME MfuInv, NEW r \in Rank, NEW k, NEW e, ranks' = [ranks EXCEPT ![r] = k],
           RankOK(r, k), k.current = ranks[r].current + 1, deal' = deal,
           ranks[r].current \in 1 .. Len(deal.lists[r]), e = deal.lists[r][ranks[r].current],
           Found(e) => msent' = Append(msent, SentAs(e)), ~Found(e) => msent' = msent
    PROVE  MfuInv'
<1> DEFINE c == ranks[r].current
<1>1. deal' = deal /\ Rank' = Rank BY DEF Rank
<1>2. /\ DOMAIN ranks' = Rank
      /\ \A q \in Rank : ranks'[q] = IF q = r THEN k ELSE ranks[q]
  BY DEF MfuInv
<1>3. \A q \in Rank : RankOK(q, ranks[q])'
  <2> SUFFICES ASSUME NEW q \in Rank PROVE RankOK(q, ranks[q])' OBVIOUS
  <2>1. RankOK(q, ranks'[q]) BY <1>2 DEF MfuInv
  <2> QED BY <2>1, <1>1 DEF RankOK, ParentOK, mfu_build_id
<1>4. \A d : Found(d)' <=> Found(d) BY <1>1 DEF Found
<1>5. Len(deal.lists[r]) \in Nat /\ c \in Nat BY DealFacts
<1>6. \A q \in Rank : \A i : i \in 1 .. ranks'[q].current - 1 <=>
                                 i \in 1 .. ranks[q].current - 1 \/ (q = r /\ i = c)
  <2> SUFFICES ASSUME NEW q \in Rank, NEW i
               PROVE  i \in 1 .. ranks'[q].current - 1 <=>
                         i \in 1 .. ranks[q].current - 1 \/ (q = r /\ i = c)
    OBVIOUS
  <2>1. CASE q # r BY <2>1, <1>2
  <2>2. CASE q = r
    <3>1. ranks'[q].current = c + 1 BY <2>2, <1>2
    <3>2. c \in Nat /\ c >= 1 BY <1>5
    <3> HIDE DEF c
    <3>3. i \in 1 .. c + 1 - 1 <=> i \in 1 .. c - 1 \/ i = c BY <3>2
    <3> QED BY <3>1, <3>3, <2>2 DEF c
  <2> QED BY <2>1, <2>2
<1> HIDE DEF c
<1>7. \A s : (\E q \in Rank : \E i \in 1 .. ranks'[q].current - 1 : Passed(s, q, i)) <=>
                (\E q \in Rank : \E i \in 1 .. ranks[q].current - 1 : Passed(s, q, i))
                \/ Passed(s, r, c)
  <2> QED BY <1>6
<1>8. \A s : s \in Range(msent) <=>
                \E q \in Rank : \E i \in 1 .. ranks[q].current - 1 : Passed(s, q, i)
  BY DEF MfuInv
<1>9. \A s : Passed(s, r, c) <=> Found(e) /\ s = SentAs(e) BY DEF c, Passed
<1>10. Found(e) => SentAs(e) \notin Range(msent)
  <2> SUFFICES ASSUME SentAs(e) \in Range(msent) PROVE FALSE OBVIOUS
  <2>0. PICK q \in Rank : \E i \in 1 .. ranks[q].current - 1 : Passed(SentAs(e), q, i) BY <1>8
  <2>1. PICK i \in 1 .. ranks[q].current - 1 : SentAs(e) = SentAs(deal.lists[q][i])
    BY <2>0 DEF Passed
  <2>2. e.path = deal.lists[q][i].path BY <2>1 DEF SentAs
  <2>3. ranks[q].current \in 1 .. Len(deal.lists[q]) + 1 BY DEF MfuInv, RankOK
  <2>4. Len(deal.lists[q]) \in Nat /\ DOMAIN deal.lists[q] = 1 .. Len(deal.lists[q]) BY DealFacts
  <2>5. i \in DOMAIN deal.lists[q] BY <2>3, <2>4
  <2>6. q = r /\ i = c
    <3>1. \A p \in Rank : \A j \in DOMAIN deal.lists[p] :
             deal.lists[p][j].path = e.path => p = r /\ j = c
      BY DealFacts, SMTT(30) DEF c
    <3> QED BY <3>1, <2>2, <2>5
  <2> QED BY <2>6, <1>5 DEF c
<1>11. PICK S : msent \in Seq(S) BY DEF MfuInv
<1>12. /\ \E T : msent' \in Seq(T)
       /\ IsFiniteSet(Range(msent')) /\ Cardinality(Range(msent')) = Len(msent')
       /\ \A s : s \in Range(msent') <=> s \in Range(msent) \/ (Found(e) /\ s = SentAs(e))
  <2>1. CASE ~Found(e) BY <2>1 DEF MfuInv
  <2>2. CASE Found(e)
    <3> DEFINE x == SentAs(e)
    <3>1. msent' = Append(msent, x) BY <2>2
    <3> HIDE DEF x
    <3>2. Range(msent') = Range(msent) \cup {x} /\ msent' \in Seq(S \cup {x})
          /\ Len(msent') = Len(msent) + 1
      BY <3>1, <1>11, RangeAppend
    <3>3. IsFiniteSet(Range(msent)) /\ Cardinality(Range(msent)) = Len(msent) BY DEF MfuInv
    <3>4. x \notin Range(msent) BY <2>2, <1>10 DEF x
    <3>5. /\ IsFiniteSet(Range(msent) \cup {x})
          /\ Cardinality(Range(msent) \cup {x}) = Cardinality(Range(msent)) + 1
      BY <3>3, <3>4, FS_AddElement
    <3> QED BY <2>2, <3>2, <3>3, <3>5 DEF x
  <2> QED BY <2>1, <2>2
<1>13. \A s : s \in Range(msent') <=>
                 \E q \in Rank : \E i \in 1 .. ranks'[q].current - 1 : Passed(s, q, i)
  <2> QED BY <1>7, <1>8, <1>9, <1>12
<1>14. \A s, q, i : Passed(s, q, i)' <=> Passed(s, q, i) BY <1>1, <1>4 DEF Passed, SentAs, Dirname
<1>15. (\A s : s \in Range(msent) <=>
                 \E q \in Rank : \E i \in 1 .. ranks[q].current - 1 : Passed(s, q, i))'
  <2> QED BY <1>1, <1>13, <1>14
<1>16. deal' \in Dealings /\ (DOMAIN ranks = Rank)' BY <1>1, <1>2 DEF MfuInv
<1> QED BY <1>3, <1>12, <1>15, <1>16 DEF MfuInv

\* The rank as it is once it has passed the entry, k, and as it is kept.
PassedEntry(r, k, kept) ==
    LET e == deal.lists[r][ranks[r].current]
    IN /\ ranks' = [ranks EXCEPT ![r] = kept]
       /\ DOMAIN kept = MfuFields
       /\ kept.current = k.current /\ kept.run = k.run
       /\ kept.parent = k.parent /\ kept.parent_id = k.parent_id
       /\ k.current = ranks[r].current + 1 /\ k.run = ranks[r].run
       /\ k.parent = <<Dirname(e.path)>>
       /\ r = 0 /\ ranks[r].current = 1 => k.parent_id = <<NoId>>
       /\ ~(r = 0 /\ ranks[r].current = 1) /\ Dirname(e.path) # <<"..">> =>
             k.parent_id = mfu_build_id(Dirname(e.path))
       /\ k.children = (IF IsNewParent(r) THEN 0 ELSE ranks[r].children) + 1
       /\ IF k.parent_id = <<>> \/ e.path \in deal.gone
          THEN /\ msent' = msent
               /\ kept.seen_first_time = ranks[r].seen_first_time
               /\ kept.children = k.children - 1
          ELSE /\ msent' = Append(msent, [path |-> e.path, parent |-> k.parent_id[1]])
               /\ kept.seen_first_time = TRUE
               /\ kept.children = k.children

LEMMA EntryStep ==
    ASSUME MfuInv, NEW r \in Rank, HandleEntry(r)
    PROVE  \E k, kept : PassedEntry(r, k, kept)
<1> DEFINE e == Current(r)
           k0 == IF IsNewParent(r) THEN [SetupParent(ranks[r], e.path) EXCEPT !.children = 0]
                 ELSE IF ranks[r].parent = <<>> THEN SetupParent(ranks[r], e.path)
                 ELSE ranks[r]
           top == r = 0 /\ k0.current = 1
           k == [k0 EXCEPT !.children = @ + 1, !.parent_id = IF top THEN <<NoId>> ELSE @,
                           !.current = @ + 1]
           gone == [k EXCEPT !.children = @ - 1, !.skipped = @ + 1]
           seen == [k EXCEPT !.seen_first_time = TRUE, !.converted = @ + 1]
<1>1. IF k.parent_id = <<>> \/ e.path \in deal.gone
      THEN ranks' = [ranks EXCEPT ![r] = gone] /\ msent' = msent
      ELSE /\ ranks' = [ranks EXCEPT ![r] = seen]
           /\ msent' = Append(msent, [path |-> e.path, parent |-> k.parent_id[1]])
  BY DEF HandleEntry
<1> HIDE DEF e
<1>2. RankOK(r, ranks[r]) BY DEF MfuInv
<1>3. /\ DOMAIN k0 = MfuFields /\ k0.current = ranks[r].current /\ k0.run = ranks[r].run
      /\ k0.parent = <<Dirname(e.path)>>
      /\ k0.seen_first_time = ranks[r].seen_first_time
      /\ k0.children = IF IsNewParent(r) THEN 0 ELSE ranks[r].children
      /\ Dirname(e.path) # <<"..">> => k0.parent_id = mfu_build_id(Dirname(e.path))
  <2> DEFINE s == SetupParent(ranks[r], e.path)
             z == [s EXCEPT !.children = 0]
  <2>1. /\ DOMAIN s = MfuFields /\ s.current = ranks[r].current /\ s.run = ranks[r].run
        /\ s.parent = <<Dirname(e.path)>> /\ s.parent_id = mfu_build_id(Dirname(e.path))
        /\ s.children = ranks[r].children /\ s.seen_first_time = ranks[r].seen_first_time
    BY <1>2, SetupFacts DEF RankOK
  <2>2. /\ DOMAIN z = MfuFields /\ z.current = s.current /\ z.run = s.run
        /\ z.parent = s.parent /\ z.parent_id = s.parent_id
        /\ z.children = 0 /\ z.seen_first_time = s.seen_first_time
    <3> HIDE DEF s
    <3> QED BY <2>1, ChildrenFacts
  <2>3. CASE IsNewParent(r)
    <3>1. k0 = z BY <2>3
    <3> HIDE DEF k0, z, s
    <3> QED BY <3>1, <2>1, <2>2, <2>3
  <2>4. CASE ~IsNewParent(r) /\ ranks[r].parent = <<>>
    <3>1. k0 = s BY <2>4
    <3> HIDE DEF k0, z, s
    <3> QED BY <3>1, <2>1, <2>4
  <2>5. CASE ~IsNewParent(r) /\ ranks[r].parent # <<>>
    <3>1. k0 = ranks[r] BY <2>5
    <3>2. ranks[r].parent = <<Dirname(e.path)>> BY <2>5 DEF IsNewParent, e
    <3>3. PICK p : ranks[r].parent = <<p>> /\ (p # <<"..">> => ranks[r].parent_id = mfu_build_id(p))
      BY <2>5, <1>2 DEF RankOK, ParentOK
    <3>4. p = Dirname(e.path) BY <3>2, <3>3
    <3> HIDE DEF k0
    <3> QED BY <3>1, <3>2, <3>3, <3>4, <2>5, <1>2 DEF RankOK
  <2> QED BY <2>3, <2>4, <2>5
<1> HIDE DEF k0
<1>4. /\ DOMAIN k = MfuFields /\ k.current = k0.current + 1 /\ k.run = k0.run
      /\ k.parent = k0.parent /\ k.parent_id = IF top THEN <<NoId>> ELSE k0.parent_id
      /\ k.children = k0.children + 1 /\ k.seen_first_time = k0.seen_first_time
  <2> HIDE DEF top
  <2> QED BY <1>3 DEF MfuFields
<1>5. top <=> r = 0 /\ ranks[r].current = 1 BY <1>3
<1> HIDE DEF k, top
<1>6. /\ DOMAIN gone = MfuFields /\ gone.current = k.current /\ gone.run = k.run
      /\ gone.parent = k.parent /\ gone.parent_id = k.parent_id
      /\ gone.children = k.children - 1 /\ gone.seen_first_time = k.seen_first_time
  BY <1>4 DEF MfuFields
<1>7. /\ DOMAIN seen = MfuFields /\ seen.current = k.current /\ seen.run = k.run
      /\ seen.parent = k.parent /\ seen.parent_id = k.parent_id
      /\ seen.children = k.children /\ seen.seen_first_time = TRUE
  BY <1>4 DEF MfuFields
<1> DEFINE kept == IF k.parent_id = <<>> \/ e.path \in deal.gone THEN gone ELSE seen
<1> HIDE DEF gone, seen
<1>8. ranks' = [ranks EXCEPT ![r] = kept] BY <1>1
<1>9. /\ DOMAIN kept = MfuFields /\ kept.current = k.current /\ kept.run = k.run
      /\ kept.parent = k.parent /\ kept.parent_id = k.parent_id
  BY <1>6, <1>7
<1>10. IF k.parent_id = <<>> \/ e.path \in deal.gone
       THEN msent' = msent /\ kept = gone
       ELSE msent' = Append(msent, [path |-> e.path, parent |-> k.parent_id[1]]) /\ kept = seen
  BY <1>1
<1> HIDE DEF kept
<1>11. /\ r = 0 /\ ranks[r].current = 1 => k.parent_id = <<NoId>>
       /\ ~(r = 0 /\ ranks[r].current = 1) /\ Dirname(e.path) # <<"..">> =>
             k.parent_id = mfu_build_id(Dirname(e.path))
  BY <1>3, <1>4, <1>5
<1>12. k.current = ranks[r].current + 1 /\ k.run = ranks[r].run /\ k.parent = <<Dirname(e.path)>>
  BY <1>3, <1>4
<1>13. e = deal.lists[r][ranks[r].current] BY DEF e, Current
<1>14. /\ k.children = (IF IsNewParent(r) THEN 0 ELSE ranks[r].children) + 1
       /\ IF k.parent_id = <<>> \/ e.path \in deal.gone
          THEN /\ msent' = msent
               /\ kept.seen_first_time = ranks[r].seen_first_time
               /\ kept.children = k.children - 1
          ELSE /\ msent' = Append(msent, [path |-> e.path, parent |-> k.parent_id[1]])
               /\ kept.seen_first_time = TRUE
               /\ kept.children = k.children
  BY <1>3, <1>4, <1>6, <1>7, <1>10
<1>15. PassedEntry(r, k, kept) BY <1>8, <1>9, <1>11, <1>12, <1>13, <1>14 DEF PassedEntry
<1> QED BY <1>15

LEMMA EntryPasses ==
    ASSUME MfuInv, NEW r \in Rank, HandleEntry(r) PROVE MfuInv'
<1> DEFINE c == ranks[r].current
           e == deal.lists[r][c]
<1>0. PICK k, kept : PassedEntry(r, k, kept) BY EntryStep
<1>1. /\ ranks' = [ranks EXCEPT ![r] = kept]
      /\ DOMAIN kept = MfuFields
      /\ kept.current = k.current /\ kept.run = k.run
      /\ kept.parent = k.parent /\ kept.parent_id = k.parent_id
      /\ k.current = c + 1 /\ k.run = ranks[r].run
      /\ k.parent = <<Dirname(e.path)>>
      /\ r = 0 /\ c = 1 => k.parent_id = <<NoId>>
      /\ ~(r = 0 /\ c = 1) /\ Dirname(e.path) # <<"..">> =>
            k.parent_id = mfu_build_id(Dirname(e.path))
      /\ IF k.parent_id = <<>> \/ e.path \in deal.gone THEN msent' = msent
         ELSE msent' = Append(msent, [path |-> e.path, parent |-> k.parent_id[1]])
  BY <1>0 DEF PassedEntry
<1>2. deal' = deal /\ ranks[r].run = "run" BY DEF HandleEntry, Ready
<1>3. Len(deal.lists[r]) \in Nat BY DealFacts
<1>4. c \in 1 .. Len(deal.lists[r])
  <2>1. c \in 1 .. Len(deal.lists[r]) + 1 BY DEF MfuInv, RankOK
  <2>2. ~(c > Len(deal.lists[r])) BY DEF HandleEntry, Ready, AtEnd
  <2> QED BY <2>1, <2>2, <1>3
<1>5. /\ e.path = <<>> <=> r = 0 /\ c = 1
      /\ e.path # <<>> => Dirname(e.path) # <<"..">>
      /\ <<"..">> \notin deal.gone
  BY <1>4, DealFacts
<1> HIDE DEF e, c
<1>6. k.parent_id = IF e.path = <<>> THEN <<NoId>> ELSE mfu_build_id(Dirname(e.path))
  BY <1>1, <1>5
<1>7. e.path = <<>> => Dirname(e.path) = <<"..">> BY DEF Dirname
<1>8. RankOK(r, kept)
  <2>1. c + 1 \in 1 .. Len(deal.lists[r]) + 1 BY <1>3, <1>4
  <2>2. kept.run # "done" BY <1>1, <1>2
  <2>3. kept.parent = <<Dirname(e.path)>>
        /\ (Dirname(e.path) # <<"..">> => kept.parent_id = mfu_build_id(Dirname(e.path)))
    BY <1>1, <1>6, <1>7
  <2> QED BY <2>1, <2>2, <2>3, <1>1 DEF RankOK, ParentOK
<1>9. /\ k.parent_id = <<>> <=> Dirname(e.path) \in deal.gone
      /\ Dirname(e.path) \notin deal.gone =>
            k.parent_id[1] = IF e.path = <<>> THEN NoId ELSE Dirname(e.path)
  <2>1. CASE e.path = <<>> BY <2>1, <1>5, <1>6, <1>7
  <2>2. CASE e.path # <<>> BY <2>2, <1>6 DEF mfu_build_id
  <2> QED BY <2>1, <2>2
<1>10. Found(e) => msent' = Append(msent, SentAs(e)) BY <1>1, <1>9 DEF Found, SentAs
<1>11. ~Found(e) => msent' = msent BY <1>1, <1>9 DEF Found
<1> QED BY <1>1, <1>2, <1>4, <1>8, <1>10, <1>11, MfuPasses DEF c, e

LEMMA MfuStart ==
    ASSUME MfuInit PROVE MfuInv
<1>1. deal \in Dealings /\ msent = <<>> BY DEF MfuInit
<1>2. DOMAIN ranks = Rank BY DEF MfuInit
<1>3. \A r \in Rank : /\ DOMAIN ranks[r] = MfuFields /\ ranks[r].current = 1
                      /\ ranks[r].run = "run" /\ ranks[r].parent = <<>>
  BY DEF MfuInit, MfuFields
<1>4. \A r \in Rank : RankOK(r, ranks[r])
  <2> SUFFICES ASSUME NEW r \in Rank PROVE RankOK(r, ranks[r]) OBVIOUS
  <2>1. Len(deal.lists[r]) \in Nat BY <1>1, DealAssumption DEF Rank
  <2>2. 1 \in 1 .. Len(deal.lists[r]) + 1 BY <2>1
  <2> QED BY <2>2, <1>3 DEF RankOK, ParentOK
<1>5. Range(msent) = {} /\ msent \in Seq({}) /\ Len(msent) = 0 BY <1>1 DEF Range
<1>6. \A r \in Rank : 1 .. ranks[r].current - 1 = {} BY <1>3
<1> QED BY <1>1, <1>2, <1>4, <1>5, <1>6, FS_EmptySet DEF MfuInv

LEMMA MfuStutters ==
    ASSUME MfuInv, UNCHANGED mfuVars PROVE MfuInv'
<1>1. deal' = deal /\ ranks' = ranks /\ msent' = msent /\ Rank' = Rank
  BY DEF mfuVars, Rank
<1>2. \A r \in Rank : RankOK(r, ranks[r])'
  BY <1>1 DEF MfuInv, RankOK, ParentOK, mfu_build_id
<1>3. \A s, r, i : Passed(s, r, i)' <=> Passed(s, r, i)
  BY <1>1 DEF Passed, Found, SentAs, Dirname
<1> QED BY <1>1, <1>2, <1>3 DEF MfuInv

\* However the entries are dealt to however many ranks, in whichever order these
\* run and whichever entries have vanished: every entry that was found with its
\* directory is sent, once, with the id of that directory (mfu_iter_next).
THEOREM EntriesAreSentOnce == Spec => []MfuSentOnce
<1>1. Init => MfuInv BY MfuStart DEF Init
<1>2. MfuInv /\ [Next]_vars => MfuInv'
  <2> SUFFICES ASSUME MfuInv, [Next]_vars PROVE MfuInv' OBVIOUS
  <2>1. MfuNext \/ UNCHANGED mfuVars BY DEF Next, vars
  <2>2. CASE MfuNext
    BY <2>2, EndStays, NewDirectoryStays, NewParentStays, EntryPasses DEF MfuNext
  <2>3. CASE UNCHANGED mfuVars BY <2>3, MfuStutters
  <2> QED BY <2>1, <2>2, <2>3
<1>3. MfuInv => MfuSentOnce
  <2> SUFFICES ASSUME MfuInv, MfuDone PROVE MfuSentOnce BY DEF MfuSentOnce
  <2>1. ASSUME NEW r \in Rank PROVE ranks[r].current - 1 = Len(deal.lists[r])
    <3>1. ranks[r].current = Len(deal.lists[r]) + 1 BY DEF MfuInv, MfuDone, RankOK
    <3> QED BY <3>1, DealFacts
  <2>2. \A d : d \in Dealt <=> \E r \in Rank : \E i \in 1 .. Len(deal.lists[r]) : d = deal.lists[r][i]
    BY DealFacts DEF Dealt, Range
  <2>3. \A s : s \in Range(msent) <=> \E d \in Dealt : Found(d) /\ s = SentAs(d)
    <3>1. \A s : s \in Range(msent) <=>
                    \E r \in Rank : \E i \in 1 .. Len(deal.lists[r]) : Passed(s, r, i)
      BY <2>1 DEF MfuInv
    <3> QED BY <3>1, <2>2 DEF Passed
  <2>4. \A d : Found(d) <=> {d.path, Dirname(d.path)} \cap deal.gone = {} BY DEF Found
  <2>5. \A d : SentAs(d).path = d.path
               /\ SentAs(d).parent = IF d.path = <<>> THEN NoId ELSE Dirname(d.path)
    BY DEF SentAs
  <2> HIDE DEF MfuInv
  <2>6. {s.path : s \in Range(msent)} =
           {d.path : d \in {x \in Dealt : {x.path, Dirname(x.path)} \cap deal.gone = {}}}
    BY <2>3, <2>4, <2>5
  <2>7. \A s \in Range(msent) : s.parent = IF s.path = <<>> THEN NoId ELSE Dirname(s.path)
    BY <2>3, <2>5
  <2>8. Cardinality(Range(msent)) = Len(msent) BY DEF MfuInv
  <2> QED BY <2>6, <2>7, <2>8 DEF MfuSentOnce
<1> QED BY <1>1, <1>2, <1>3, PTL DEF Spec

-----------------------------------------------------------------------------
(* The numbers of children of the parallel crawl.                          *)

Kid(e, p) == e.path # <<>> /\ Dirname(e.path) = p
FoundKids(d) == {e \in Kids(d) : e.path \notin deal.gone}
\* Those found of the entries of a rank from the place a and before the place c
Between(r, a, c) ==
    {deal.lists[r][i] : i \in {j \in a .. c - 1 : deal.lists[r][j].path \notin deal.gone}}

\* The entries that the rank counts for p start at the place a.
RunFrom(r, k, p, a) ==
    /\ \A i \in a .. k.current - 1 : Kid(deal.lists[r][i], p)
    /\ a > 1 => ~Kid(deal.lists[r][a - 1], p)
    /\ a = k.current => k.current <= Len(deal.lists[r]) /\ Dirname(deal.lists[r][k.current].path) = p
    /\ IsFiniteSet(Between(r, a, k.current))
    /\ k.children = Cardinality(Between(r, a, k.current))

RunOK(r, k) ==
    /\ k.parent = <<>> => k.parent_id = <<>>
    /\ k.parent = << <<"..">> >> => k.parent_id = <<NoId>>
    /\ k.run = "done" => k.parent_id = <<>>
    /\ k.current = 1 => k.parent = <<>>
    /\ k.parent = <<>> => k.current = Len(deal.lists[r]) + 1 \/ (k.current = 1 /\ k.children = 0)
    /\ k.parent # <<>> /\ k.current > 1 =>
          \/ k.parent = <<Dirname(deal.lists[r][k.current - 1].path)>>
          \/ /\ k.current <= Len(deal.lists[r])
             /\ k.parent = <<Dirname(deal.lists[r][k.current].path)>>
    /\ \A p : k.parent = <<p>> /\ p # <<"..">> /\ p \notin deal.gone =>
                 \E a \in 1 .. k.current : RunFrom(r, k, p, a)

Final(m, p) == p \in DOMAIN m /\ m[p][1].final

\* The directory of an entry that the rank has passed is the one it counts for,
\* or its count was sent.
CountedBehind(r, k, m) ==
    \A i \in 1 .. k.current - 1 : \A p :
        Kid(deal.lists[r][i], p) /\ p \notin deal.gone /\ p # NoId =>
            k.parent = <<p>> \/ Final(m, p)

\* A directory that the rank has passed was set to 0, or comes after one that was
\* skipped.
ZeroBehind(r, k, m) ==
    /\ \A i \in 1 .. k.current - 1 :
          deal.lists[r][i].dir /\ deal.lists[r][i].path \notin deal.gone =>
              deal.lists[r][i].path \in DOMAIN m \/ Skipping(r, i)
    /\ k.current <= Len(deal.lists[r]) /\ ~k.seen_first_time =>
          LET e == deal.lists[r][k.current]
          IN (e.dir /\ (e.path \in deal.gone \/ e.path \in DOMAIN m)) \/ Skipping(r, k.current)

\* A final count is the number of entries found in the directory.
FinalOK(d, value) == Kids(d) # {} /\ (Together(d) => value = Cardinality(FoundKids(d)))
CountOK(m, d) ==
    d \in DOMAIN m =>
        /\ m[d] = <<[value |-> m[d][1].value, ts |-> Start, final |-> m[d][1].final]>>
        /\ m[d][1].final \in BOOLEAN
        /\ IF m[d][1].final THEN FinalOK(d, m[d][1].value) ELSE m[d][1].value = 0

CountInv ==
    /\ MfuInv
    /\ \A r \in Rank : /\ RunOK(r, ranks[r]) /\ CountedBehind(r, ranks[r], mnb)
                       /\ ZeroBehind(r, ranks[r], mnb)
    /\ \A d : d # NoId => CountOK(mnb, d)

SentCount(count, final) == <<[value |-> count, ts |-> Start, final |-> final]>>

LEMMA SendFacts ==
    ASSUME NEW id, NEW count, NEW final, SendsCount(id, count, final)
    PROVE  /\ DOMAIN mnb' = DOMAIN mnb \cup {id}
           /\ \A d \in DOMAIN mnb : d # id => mnb'[d] = mnb[d]
           /\ CountOK(mnb, id) =>
                 mnb'[id] = IF Final(mnb, id) THEN mnb[id]
                            ELSE SentCount(count, final)
<1> DEFINE old == IF id \in DOMAIN mnb THEN mnb[id] ELSE <<>>
           new == SentCount(count, final)
<1>1. mnb' = [i \in DOMAIN mnb \cup {id} |-> IF i = id THEN Counted(old, new) ELSE mnb[i]]
  BY DEF SendsCount, SentCount
<1>2. ASSUME CountOK(mnb, id)
      PROVE  Counted(old, new) = IF Final(mnb, id) THEN mnb[id] ELSE new
  <2>1. new # <<>> /\ new[1].ts = 1 BY DEF Start, SentCount
  <2>2. CASE id \notin DOMAIN mnb
    <3>1. old = <<>> BY <2>2
    <3> HIDE DEF old, new
    <3> QED BY <3>1, <2>1, <2>2 DEF Counted, Final
  <2>3. CASE id \in DOMAIN mnb
    <3>1. old = mnb[id] BY <2>3
    <3>2. mnb[id] # <<>> /\ mnb[id][1].ts = 1
      <4> DEFINE x == [value |-> mnb[id][1].value, ts |-> Start, final |-> mnb[id][1].final]
      <4>1. mnb[id] = <<x>> /\ x.ts = 1 BY <1>2, <2>3 DEF CountOK, Start
      <4> HIDE DEF x
      <4> QED BY <4>1
    <3> HIDE DEF old, new
    <3> QED BY <3>1, <3>2, <2>1, <2>3 DEF Counted, Final
  <2> QED BY <2>2, <2>3
<1> HIDE DEF old, new
<1>3. DOMAIN mnb' = DOMAIN mnb \cup {id} /\ mnb'[id] = Counted(old, new) BY <1>1
<1>4. \A d \in DOMAIN mnb : d # id => mnb'[d] = mnb[d] BY <1>1
<1> QED BY <1>2, <1>3, <1>4 DEF new

\* A count that is right, or 0 and not final, leaves the others as they were.
LEMMA SendKeeps ==
    ASSUME \A d : d # NoId => CountOK(mnb, d),
           NEW id, NEW count, NEW final, SendsCount(id, count, final),
           final = TRUE \/ final = FALSE,
           id # NoId => IF final = TRUE THEN FinalOK(id, count) ELSE count = 0
    PROVE  /\ DOMAIN mnb \subseteq DOMAIN mnb' /\ id \in DOMAIN mnb'
           /\ \A p : p # NoId /\ Final(mnb, p) => Final(mnb', p)
           /\ \A d : d # NoId => CountOK(mnb', d)
           /\ final = TRUE /\ id # NoId => Final(mnb', id)
<1>1. /\ DOMAIN mnb' = DOMAIN mnb \cup {id}
      /\ \A d \in DOMAIN mnb : d # id => mnb'[d] = mnb[d]
      /\ CountOK(mnb, id) =>
            mnb'[id] = IF Final(mnb, id) THEN mnb[id]
                       ELSE SentCount(count, final)
  BY SendFacts
<1>2. id # NoId => mnb'[id] = IF Final(mnb, id) THEN mnb[id]
                              ELSE SentCount(count, final)
  <2>1. id # NoId => CountOK(mnb, id) OBVIOUS
  <2> QED BY <2>1, <1>1, Zenon
<1>3. ASSUME NEW d, d # NoId PROVE CountOK(mnb', d) /\ (Final(mnb, d) => Final(mnb', d))
  <2>1. CASE d # id BY <2>1, <1>1, <1>3 DEF CountOK, Final
  <2>2. CASE d = id /\ Final(mnb, id)
    <3>1. mnb'[d] = mnb[d] /\ d \in DOMAIN mnb /\ d \in DOMAIN mnb' BY <2>2, <1>1, <1>2, <1>3 DEF Final
    <3> QED BY <3>1, <1>3 DEF CountOK, Final
  <2>3. CASE d = id /\ ~Final(mnb, id)
    <3> DEFINE x == [value |-> count, ts |-> Start, final |-> final]
    <3>1. mnb'[d] = <<x>> BY <2>3, <1>2, <1>3 DEF SentCount
    <3>2. mnb'[d][1] = x BY <3>1
    <3>3. x.value = count /\ x.final = final OBVIOUS
    <3>4. mnb'[d] = <<[value |-> x.value, ts |-> Start, final |-> x.final]>> BY <3>1
    <3> HIDE DEF x
    <3> QED BY <2>3, <1>3, <3>2, <3>3, <3>4 DEF CountOK
  <2> QED BY <2>1, <2>2, <2>3
<1>4. ASSUME final = TRUE, id # NoId PROVE Final(mnb', id)
  <2>1. CASE Final(mnb, id) BY <2>1, <1>3, <1>4
  <2>2. CASE ~Final(mnb, id)
    <3> DEFINE x == [value |-> count, ts |-> Start, final |-> final]
    <3>1. mnb'[id] = <<x>> /\ x.final = TRUE BY <2>2, <1>2, <1>4 DEF SentCount
    <3> HIDE DEF x
    <3> QED BY <3>1, <1>1 DEF Final
  <2> QED BY <2>1, <2>2
<1> QED BY <1>1, <1>3, <1>4

\* When a rank leaves a directory whose entries are together, it has counted them
\* all.
LEMMA LeaveCount ==
    ASSUME MfuInv, NEW r \in Rank, RunOK(r, ranks[r]), NEW p,
           ranks[r].parent = <<p>>, p # <<"..">>, p \notin deal.gone,
           ranks[r].current <= Len(deal.lists[r]) =>
               Dirname(deal.lists[r][ranks[r].current].path) # p
    PROVE  FinalOK(p, ranks[r].children)
<1> DEFINE L == deal.lists[r]
           c == ranks[r].current
<1>1. Len(L) \in Nat /\ DOMAIN L = 1 .. Len(L) /\ c \in 1 .. Len(L) + 1
  BY DealFacts DEF MfuInv, RankOK
<1>2. PICK a \in 1 .. c : RunFrom(r, ranks[r], p, a) BY DEF RunOK
<1>3. a # c BY <1>2 DEF RunFrom
<1>4. /\ \A i \in a .. c - 1 : Kid(L[i], p)
      /\ a > 1 => ~Kid(L[a - 1], p)
      /\ ranks[r].children = Cardinality(Between(r, a, c))
  BY <1>2 DEF RunFrom
<1>5. \A q \in Rank : \A i : i \in Places(p, q) <=> i \in DOMAIN deal.lists[q] /\ Kid(deal.lists[q][i], p)
  BY DEF Places, Kids, Kid, Dealt, Range
<1>6. \A e : e \in Kids(p) <=>
                Kid(e, p) /\ \E q \in Rank : \E i \in DOMAIN deal.lists[q] : e = deal.lists[q][i]
  BY DEF Kids, Kid, Dealt, Range
<1> HIDE DEF c
<1>7. a \in DOMAIN L /\ a \in a .. c - 1 /\ a \in Int /\ c \in Int BY <1>1, <1>2, <1>3
<1>8. Kids(p) # {} BY <1>4, <1>6, <1>7
<1>9. ASSUME Together(p) PROVE FoundKids(p) = Between(r, a, c)
  <2>1. ASSUME NEW e \in FoundKids(p) PROVE e \in Between(r, a, c)
    <3>1. e \in Kids(p) /\ e.path \notin deal.gone BY <2>1 DEF FoundKids
    <3>2. PICK q \in Rank : \E i \in DOMAIN deal.lists[q] : e = deal.lists[q][i] BY <3>1, <1>6
    <3>3. PICK j \in DOMAIN deal.lists[q] : e = deal.lists[q][j] BY <3>2
    <3>4. j \in Places(p, q) /\ a \in Places(p, r) BY <3>1, <3>3, <1>4, <1>5, <1>6, <1>7
    <3>5. q = r /\ j .. a \subseteq Places(p, r) /\ a .. j \subseteq Places(p, r)
      BY <3>4, <1>9 DEF Together
    <3>6. j \in 1 .. Len(L) /\ L[j] = e BY <3>3, <3>5, <1>1
    <3>7. ~(j < a)
      <4> SUFFICES ASSUME j < a PROVE FALSE OBVIOUS
      <4>1. a - 1 \in j .. a /\ a > 1 BY <3>6, <1>7
      <4> QED BY <4>1, <3>5, <1>4, <1>5
    <3>8. ~(j > c - 1)
      <4> SUFFICES ASSUME j > c - 1 PROVE FALSE OBVIOUS
      <4>1. c \in a .. j /\ c <= Len(L) BY <3>6, <1>1, <1>7
      <4>2. Kid(L[c], p) BY <4>1, <3>5, <1>5
      <4> QED BY <4>1, <4>2 DEF Kid, c
    <3>9. j \in a .. c - 1 BY <3>6, <3>7, <3>8, <1>7
    <3> QED BY <3>1, <3>6, <3>9 DEF Between
  <2>2. ASSUME NEW e \in Between(r, a, c) PROVE e \in FoundKids(p)
    <3>1. PICK i \in a .. c - 1 : e = L[i] /\ L[i].path \notin deal.gone BY <2>2 DEF Between
    <3>2. i \in DOMAIN L BY <3>1, <1>1, <1>2, <1>7
    <3> QED BY <3>1, <3>2, <1>4, <1>6 DEF FoundKids
  <2> QED BY <2>1, <2>2
<1> QED BY <1>4, <1>8, <1>9 DEF FinalOK

LEMMA SameCounts ==
    ASSUME deal' = deal, \A d : d # NoId => CountOK(mnb', d)
    PROVE  \A d : d # NoId => CountOK(mnb, d)'
<1>0. deal' = deal /\ Rank' = Rank BY DEF Rank
<1> SUFFICES ASSUME NEW d, d # NoId PROVE CountOK(mnb, d)' OBVIOUS
<1>1. Dealt' = Dealt BY <1>0 DEF Dealt
<1>2. Kids(d)' = Kids(d) BY <1>1 DEF Kids, Dirname
<1>3. FoundKids(d)' = FoundKids(d) BY <1>0, <1>2 DEF FoundKids
<1>4. \A q : Places(d, q)' = Places(d, q) BY <1>0, <1>2 DEF Places
<1>5. Together(d)' <=> Together(d) BY <1>0, <1>4 DEF Together
<1>6. CountOK(mnb', d) OBVIOUS
<1>7. FinalOK(d, mnb[d][1].value)' <=> FinalOK(d, mnb'[d][1].value)
  BY <1>2, <1>3, <1>5 DEF FinalOK
<1> QED BY <1>6, <1>7 DEF CountOK, Start

LEMMA AfterStep ==
    ASSUME MfuInv', deal' = deal,
           \A q \in Rank : /\ RunOK(q, ranks'[q]) /\ CountedBehind(q, ranks'[q], mnb')
                           /\ ZeroBehind(q, ranks'[q], mnb'),
           \A d : d # NoId => CountOK(mnb', d)
    PROVE  CountInv'
<1>1. deal' = deal /\ Rank' = Rank BY DEF Rank
<1>2. ASSUME NEW q \in Rank
      PROVE  RunOK(q, ranks[q])' /\ CountedBehind(q, ranks[q], mnb)' /\ ZeroBehind(q, ranks[q], mnb)'
  <2>1. RunOK(q, ranks[q])'
    <3>1. \A p, a : RunFrom(q, ranks[q], p, a)' <=> RunFrom(q, ranks'[q], p, a)
      BY <1>1 DEF RunFrom, Between, Kid, Dirname
    <3>2. RunOK(q, ranks'[q]) OBVIOUS
    <3> QED BY <1>1, <3>1, <3>2 DEF RunOK, Dirname
  <2>2. CountedBehind(q, ranks[q], mnb)'
    BY <1>1 DEF CountedBehind, Kid, Dirname, Final
  <2>3. ZeroBehind(q, ranks[q], mnb)'
    BY <1>1 DEF ZeroBehind, Skipping
  <2> QED BY <2>1, <2>2, <2>3
<1>3. \A d : d # NoId => CountOK(mnb, d)' BY SameCounts
<1> QED BY <1>1, <1>2, <1>3 DEF CountInv

\* What a rank does leaves the other ranks right.
LEMMA CountKept ==
    ASSUME CountInv, MfuInv', NEW r \in Rank, NEW k, ranks' = [ranks EXCEPT ![r] = k],
           deal' = deal, DOMAIN mnb \subseteq DOMAIN mnb',
           \A p : p # NoId /\ Final(mnb, p) => Final(mnb', p),
           \A d : d # NoId => CountOK(mnb', d),
           RunOK(r, k), CountedBehind(r, k, mnb'), ZeroBehind(r, k, mnb')
    PROVE  CountInv'
<1>2. \A q \in Rank : ranks'[q] = IF q = r THEN k ELSE ranks[q] BY DEF CountInv, MfuInv
<1>3. ASSUME NEW q \in Rank
      PROVE  /\ RunOK(q, ranks'[q]) /\ CountedBehind(q, ranks'[q], mnb')
             /\ ZeroBehind(q, ranks'[q], mnb')
  <2>1. CASE q = r BY <2>1, <1>2
  <2>2. CASE q # r
    <3>1. ranks'[q] = ranks[q] BY <2>2, <1>2
    <3>2. /\ RunOK(q, ranks[q]) /\ CountedBehind(q, ranks[q], mnb) /\ ZeroBehind(q, ranks[q], mnb)
      BY DEF CountInv
    <3>3. CountedBehind(q, ranks[q], mnb') BY <3>2 DEF CountedBehind
    <3>4. ZeroBehind(q, ranks[q], mnb') BY <3>2 DEF ZeroBehind
    <3> QED BY <3>1, <3>2, <3>3, <3>4
  <2> QED BY <2>1, <2>2
<1> QED BY <1>3, AfterStep

\* The directory that a rank counts for.
LEMMA CountsFor ==
    ASSUME CountInv, NEW r \in Rank, ranks[r].parent_id # <<>>
    PROVE  /\ ranks[r].run # "done"
           /\ ranks[r].parent_id[1] # NoId =>
                 \E p : /\ ranks[r].parent = <<p>> /\ ranks[r].parent_id = <<p>>
                        /\ p # <<"..">> /\ p \notin deal.gone
<1>1. RankOK(r, ranks[r]) /\ RunOK(r, ranks[r]) BY DEF CountInv, MfuInv
<1>2. ranks[r].run # "done" /\ ranks[r].parent # <<>> BY <1>1 DEF RunOK
<1>3. PICK p : ranks[r].parent = <<p>> /\ (p # <<"..">> => ranks[r].parent_id = mfu_build_id(p))
  BY <1>1, <1>2 DEF RankOK, ParentOK
<1>4. CASE p = <<"..">>
  <2>1. ranks[r].parent_id = <<NoId>> BY <1>1, <1>3, <1>4 DEF RunOK
  <2> QED BY <2>1, <1>2
<1>5. CASE p # <<"..">>
  <2>1. ranks[r].parent_id = <<p>> /\ p \notin deal.gone BY <1>3, <1>5 DEF mfu_build_id
  <2> QED BY <2>1, <1>2, <1>3, <1>5
<1> QED BY <1>4, <1>5

\* Once the count of its directory was sent, all that a rank has passed is counted.
LEMMA BehindSent ==
    ASSUME CountInv, NEW r \in Rank, NEW k,
           k.current = ranks[r].current,
           \A p : p # NoId /\ Final(mnb, p) => Final(mnb', p),
           ranks[r].parent_id # <<>> /\ ranks[r].parent_id[1] # NoId =>
               Final(mnb', ranks[r].parent_id[1])
    PROVE  CountedBehind(r, k, mnb')
<1>1. CountedBehind(r, ranks[r], mnb) /\ RankOK(r, ranks[r]) BY DEF CountInv, MfuInv
<1> SUFFICES ASSUME NEW i \in 1 .. ranks[r].current - 1, NEW p,
                    Kid(deal.lists[r][i], p), p \notin deal.gone, p # NoId
             PROVE  Final(mnb', p)
  BY DEF CountedBehind
<1>2. CASE Final(mnb, p) BY <1>2
<1>3. CASE ranks[r].parent = <<p>>
  <2>1. p # <<"..">>
    <3>1. Len(deal.lists[r]) \in Nat /\ ranks[r].current \in 1 .. Len(deal.lists[r]) + 1
      BY <1>1, DealFacts DEF CountInv, RankOK
    <3>2. i \in 1 .. Len(deal.lists[r]) BY <3>1
    <3> QED BY <3>2, DealFacts DEF CountInv, Kid
  <2>2. ranks[r].parent # <<>> BY <1>3
  <2>3. PICK x : ranks[r].parent = <<x>> /\ (x # <<"..">> => ranks[r].parent_id = mfu_build_id(x))
    BY <1>1, <2>2 DEF RankOK, ParentOK
  <2>4. ranks[r].parent_id = <<p>> BY <1>3, <2>1, <2>3 DEF mfu_build_id
  <2> QED BY <2>4
<1> QED BY <1>1, <1>2, <1>3 DEF CountedBehind

\* ZeroBehind does not look at the parent.
LEMMA ZeroKept ==
    ASSUME CountInv, NEW r \in Rank, NEW k, DOMAIN mnb \subseteq DOMAIN mnb',
           k.current = ranks[r].current, k.seen_first_time = ranks[r].seen_first_time
    PROVE  ZeroBehind(r, k, mnb')
<1>1. ZeroBehind(r, ranks[r], mnb) BY DEF CountInv
<1> QED BY <1>1 DEF ZeroBehind

LEMMA EndCounts ==
    ASSUME CountInv, NEW r \in Rank, HandleEnd(r) PROVE CountInv'
<1>1. MfuInv' BY EndStays DEF CountInv
<1>2. RankOK(r, ranks[r]) /\ RunOK(r, ranks[r]) BY DEF CountInv, MfuInv
<1>3. ranks[r].current = Len(deal.lists[r]) + 1 /\ Len(deal.lists[r]) \in Nat
  <2>1. ranks[r].current > Len(deal.lists[r]) BY DEF HandleEnd, AtEnd
  <2>2. Len(deal.lists[r]) \in Nat BY DealFacts DEF CountInv
  <2> QED BY <2>1, <2>2, <1>2 DEF RankOK
<1>4. deal' = deal BY DEF HandleEnd
<1>5. CASE ranks[r].parent_id = <<>>
  <2> DEFINE k == [ranks[r] EXCEPT !.run = "done"]
  <2>1. ranks' = [ranks EXCEPT ![r] = k] /\ mnb' = mnb BY <1>5 DEF HandleEnd
  <2>2. /\ k.current = ranks[r].current /\ k.parent = ranks[r].parent /\ k.children = ranks[r].children
        /\ k.parent_id = ranks[r].parent_id /\ k.seen_first_time = ranks[r].seen_first_time
    BY <1>2 DEF RankOK, MfuFields
  <2> HIDE DEF k
  <2>3. RunOK(r, k) BY <1>2, <1>5, <2>2 DEF RunOK, RunFrom
  <2>4. CountedBehind(r, k, mnb') BY <2>1, <2>2 DEF CountInv, CountedBehind
  <2>5. ZeroBehind(r, k, mnb') BY <2>1, <2>2, ZeroKept
  <2>6. \A d : d # NoId => CountOK(mnb', d) BY <2>1 DEF CountInv
  <2> QED BY <1>1, <1>4, <2>1, <2>3, <2>4, <2>5, <2>6, CountKept
<1>6. CASE ranks[r].parent_id # <<>>
  <2> DEFINE k == [ranks[r] EXCEPT !.parent = <<>>, !.parent_id = <<>>]
             id == ranks[r].parent_id[1]
  <2>1. ranks' = [ranks EXCEPT ![r] = k] /\ SendsCount(id, ranks[r].children, TRUE)
    BY <1>6 DEF HandleEnd, CountInv, MfuInv
  <2>2. /\ k.current = ranks[r].current /\ k.parent = <<>> /\ k.parent_id = <<>>
        /\ k.seen_first_time = ranks[r].seen_first_time
    BY <1>2 DEF RankOK, MfuFields
  <2> HIDE DEF k
  <2>3. id # NoId => FinalOK(id, ranks[r].children)
    <3> SUFFICES ASSUME id # NoId PROVE FinalOK(id, ranks[r].children) OBVIOUS
    <3>1. PICK p : /\ ranks[r].parent = <<p>> /\ ranks[r].parent_id = <<p>>
                   /\ p # <<"..">> /\ p \notin deal.gone
      BY <1>6, CountsFor
    <3>2. ~(ranks[r].current <= Len(deal.lists[r])) BY <1>3
    <3>3. FinalOK(p, ranks[r].children) BY <3>1, <3>2, <1>2, LeaveCount DEF CountInv
    <3> QED BY <3>1, <3>3
  <2> HIDE DEF id
  <2>4. /\ DOMAIN mnb \subseteq DOMAIN mnb'
        /\ \A p : p # NoId /\ Final(mnb, p) => Final(mnb', p)
        /\ \A d : d # NoId => CountOK(mnb', d)
        /\ id # NoId => Final(mnb', id)
    BY <2>1, <2>3, SendKeeps DEF CountInv
  <2>5. RunOK(r, k) BY <1>2, <1>3, <2>2 DEF RunOK
  <2>6. CountedBehind(r, k, mnb') BY <2>2, <2>4, BehindSent DEF id
  <2>7. ZeroBehind(r, k, mnb') BY <2>2, <2>4, ZeroKept
  <2> QED BY <1>1, <1>4, <2>1, <2>4, <2>5, <2>6, <2>7, CountKept
<1> QED BY <1>5, <1>6

LEMMA NewDirectoryCounts ==
    ASSUME CountInv, NEW r \in Rank, HandleNewDirectory(r) PROVE CountInv'
<1> DEFINE k == [ranks[r] EXCEPT !.seen_first_time = FALSE]
           path == deal.lists[r][ranks[r].current].path
<1>1. MfuInv' BY NewDirectoryStays DEF CountInv
<1>2. RankOK(r, ranks[r]) /\ RunOK(r, ranks[r]) BY DEF CountInv, MfuInv
<1>3. ranks' = [ranks EXCEPT ![r] = k] /\ deal' = deal /\ deal.lists[r][ranks[r].current].dir
  BY DEF HandleNewDirectory, Current
<1>4. /\ k.current = ranks[r].current /\ k.parent = ranks[r].parent /\ k.children = ranks[r].children
      /\ k.parent_id = ranks[r].parent_id /\ k.run = ranks[r].run
  BY <1>2 DEF RankOK, MfuFields
<1> HIDE DEF k
<1>5. path # NoId
  <2>1. Len(deal.lists[r]) \in Nat /\ ~(ranks[r].current > Len(deal.lists[r]))
    BY DealFacts DEF CountInv, HandleNewDirectory, AtEnd
  <2>2. ranks[r].current \in 1 .. Len(deal.lists[r]) BY <2>1, <1>2 DEF RankOK
  <2> QED BY <2>2, DealFacts DEF CountInv
<1>6. /\ DOMAIN mnb \subseteq DOMAIN mnb'
      /\ \A p : p # NoId /\ Final(mnb, p) => Final(mnb', p)
      /\ \A d : d # NoId => CountOK(mnb', d)
      /\ path \in deal.gone \/ path \in DOMAIN mnb'
  <2>1. CASE path \in deal.gone
    <3>1. mnb' = mnb BY <2>1 DEF HandleNewDirectory, Current, mfu_build_id
    <3> QED BY <2>1, <3>1 DEF CountInv
  <2>2. CASE path \notin deal.gone
    <3>1. mfu_build_id(path) = <<path>> BY <2>2 DEF mfu_build_id
    <3>2. SendsCount(path, 0, FALSE)
      <4>1. mfu_build_id(path) # <<>> /\ mfu_build_id(path)[1] = path BY <3>1
      <4> QED BY <4>1 DEF HandleNewDirectory, Current
    <3> HIDE DEF path
    <3>3. path # NoId => IF FALSE THEN FinalOK(path, 0) ELSE 0 = 0 OBVIOUS
    <3> QED BY <3>2, SendKeeps DEF CountInv
  <2> QED BY <2>1, <2>2
<1>7. RunOK(r, k) BY <1>2, <1>4 DEF RunOK, RunFrom
<1>8. CountedBehind(r, k, mnb') BY <1>4, <1>6 DEF CountInv, CountedBehind
<1>9. ZeroBehind(r, k, mnb')
  <2>1. ZeroBehind(r, ranks[r], mnb) BY DEF CountInv
  <2> QED BY <2>1, <1>3, <1>4, <1>6 DEF ZeroBehind
<1> QED BY <1>1, <1>3, <1>6, <1>7, <1>8, <1>9, CountKept

LEMMA NoneBetween ==
    ASSUME NEW r, NEW c \in Int
    PROVE  IsFiniteSet(Between(r, c, c)) /\ Cardinality(Between(r, c, c)) = 0
<1>1. Between(r, c, c) = {} BY DEF Between
<1> QED BY <1>1, FS_EmptySet

LEMMA NewParentCounts ==
    ASSUME CountInv, NEW r \in Rank, HandleNewParent(r) PROVE CountInv'
<1> DEFINE c == ranks[r].current
           e == deal.lists[r][c]
           s == SetupParent(ranks[r], e.path)
           k == [s EXCEPT !.children = 0]
           id == ranks[r].parent_id[1]
<1>1. MfuInv' BY NewParentStays DEF CountInv
<1>2. RankOK(r, ranks[r]) /\ RunOK(r, ranks[r]) BY DEF CountInv, MfuInv
<1>3. /\ ranks' = [ranks EXCEPT ![r] = k] /\ deal' = deal /\ ranks[r].run = "run"
      /\ SendsCount(id, ranks[r].children, TRUE)
  BY DEF HandleNewParent, Current, Ready
<1>4. /\ ranks[r].parent # <<>> /\ ranks[r].parent # <<Dirname(e.path)>>
      /\ ranks[r].parent_id # <<>> /\ ranks[r].parent_id # <<NoId>>
  BY DEF HandleNewParent, IsNewParent, CountsPrevious, Current
<1>5. Len(deal.lists[r]) \in Nat /\ c \in 1 .. Len(deal.lists[r]) /\ c > 1
  <2>1. Len(deal.lists[r]) \in Nat /\ ~(c > Len(deal.lists[r]))
    BY DealFacts DEF CountInv, HandleNewParent, Ready, AtEnd
  <2>2. c \in 1 .. Len(deal.lists[r]) BY <2>1, <1>2 DEF RankOK
  <2>3. c # 1 BY <1>2, <1>4 DEF RunOK
  <2> HIDE DEF c
  <2> QED BY <2>1, <2>2, <2>3
<1>6. e.path # <<>> /\ Dirname(e.path) # <<"..">> BY <1>5, DealFacts DEF CountInv
<1>7. /\ k.current = c /\ k.run = "run" /\ k.parent = <<Dirname(e.path)>>
      /\ k.children = 0 /\ k.seen_first_time = ranks[r].seen_first_time
  <2> HIDE DEF e
  <2>1. /\ DOMAIN s = MfuFields /\ s.current = c /\ s.run = "run"
        /\ s.parent = <<Dirname(e.path)>> /\ s.seen_first_time = ranks[r].seen_first_time
    BY <1>2, <1>3, SetupFacts DEF RankOK
  <2> HIDE DEF s, c
  <2> QED BY <2>1, ChildrenFacts
<1> HIDE DEF k
<1>8. id # NoId => FinalOK(id, ranks[r].children)
  <2> SUFFICES ASSUME id # NoId PROVE FinalOK(id, ranks[r].children) OBVIOUS
  <2>1. PICK p : /\ ranks[r].parent = <<p>> /\ ranks[r].parent_id = <<p>>
                 /\ p # <<"..">> /\ p \notin deal.gone
    BY <1>4, CountsFor
  <2>2. Dirname(e.path) # p BY <2>1, <1>4
  <2>3. FinalOK(p, ranks[r].children) BY <2>1, <2>2, <1>2, LeaveCount DEF CountInv
  <2> QED BY <2>1, <2>3
<1> HIDE DEF id
<1>9. /\ DOMAIN mnb \subseteq DOMAIN mnb'
      /\ \A p : p # NoId /\ Final(mnb, p) => Final(mnb', p)
      /\ \A d : d # NoId => CountOK(mnb', d)
      /\ id # NoId => Final(mnb', id)
  BY <1>3, <1>8, SendKeeps DEF CountInv
<1>10. RunOK(r, k)
  <2>1. ranks[r].parent = <<Dirname(deal.lists[r][c - 1].path)>> BY <1>2, <1>4, <1>5 DEF RunOK
  <2>2. RunFrom(r, k, Dirname(e.path), c)
    <3>1. ~Kid(deal.lists[r][c - 1], Dirname(e.path)) BY <2>1, <1>4 DEF Kid
    <3>2. IsFiniteSet(Between(r, c, c)) /\ Cardinality(Between(r, c, c)) = 0
      BY <1>5, NoneBetween
    <3>3. \A i \in c .. c - 1 : FALSE BY <1>5
    <3> QED BY <3>1, <3>2, <3>3, <1>5, <1>7 DEF RunFrom
  <2>3. c \in 1 .. c BY <1>5
  <2> HIDE DEF c, e
  <2>4. \A p : k.parent = <<p>> => p = Dirname(e.path) BY <1>7
  <2> QED BY <2>2, <2>3, <2>4, <1>5, <1>6, <1>7 DEF RunOK, e
<1>11. CountedBehind(r, k, mnb') BY <1>7, <1>9, BehindSent DEF id
<1>12. ZeroBehind(r, k, mnb') BY <1>7, <1>9, ZeroKept
<1> QED BY <1>1, <1>3, <1>9, <1>10, <1>11, <1>12, CountKept

\* Where the entries that the rank counts start, when it passes another.
LEMMA BaseRun ==
    ASSUME CountInv, NEW r \in Rank, Ready(r), ~(IsNewParent(r) /\ CountsPrevious(r)),
           NEW p, p = Dirname(Current(r).path), p # <<"..">>, p \notin deal.gone
    PROVE  LET c == ranks[r].current
           IN \E a \in 1 .. c :
                 /\ \A i \in a .. c - 1 : Kid(deal.lists[r][i], p)
                 /\ a > 1 => ~Kid(deal.lists[r][a - 1], p)
                 /\ IsFiniteSet(Between(r, a, c))
                 /\ (IF IsNewParent(r) THEN 0 ELSE ranks[r].children) = Cardinality(Between(r, a, c))
<1> DEFINE c == ranks[r].current
           base == IF IsNewParent(r) THEN 0 ELSE ranks[r].children
           Starts(a) == /\ \A i \in a .. c - 1 : Kid(deal.lists[r][i], p)
                        /\ a > 1 => ~Kid(deal.lists[r][a - 1], p)
                        /\ IsFiniteSet(Between(r, a, c))
                        /\ base = Cardinality(Between(r, a, c))
<1>1. RankOK(r, ranks[r]) /\ RunOK(r, ranks[r]) BY DEF CountInv, MfuInv
<1>2. Len(deal.lists[r]) \in Nat /\ c \in 1 .. Len(deal.lists[r])
  <2>1. Len(deal.lists[r]) \in Nat /\ ~(c > Len(deal.lists[r]))
    BY DealFacts DEF CountInv, Ready, AtEnd
  <2> QED BY <2>1, <1>1 DEF RankOK
<1>3. IsFiniteSet(Between(r, c, c)) /\ Cardinality(Between(r, c, c)) = 0 BY <1>2, NoneBetween
<1>4. c \in 1 .. c /\ \A i \in c .. c - 1 : FALSE BY <1>2
<1>5. CASE ranks[r].parent = <<>>
  <2>1. c = 1 /\ ranks[r].children = 0 BY <1>1, <1>2, <1>5 DEF RunOK
  <2>2. ~IsNewParent(r) BY <1>5 DEF IsNewParent
  <2>3. Starts(c) BY <2>1, <2>2, <1>3, <1>4
  <2> HIDE DEF c, Starts
  <2>4. \E a \in 1 .. c : Starts(a) BY <2>3, <1>4
  <2> QED BY <2>4 DEF Starts, c
<1>6. CASE IsNewParent(r)
  <2>1. ranks[r].parent # <<>> /\ ranks[r].parent # <<p>> BY <1>6 DEF IsNewParent
  <2>2. c > 1 => ranks[r].parent = <<Dirname(deal.lists[r][c - 1].path)>>
    BY <1>1, <2>1 DEF RunOK, Current
  <2>3. c > 1 => ~Kid(deal.lists[r][c - 1], p) BY <2>1, <2>2 DEF Kid
  <2>4. Starts(c) BY <2>3, <1>3, <1>4, <1>6
  <2> HIDE DEF c, Starts
  <2>5. \E a \in 1 .. c : Starts(a) BY <2>4, <1>4
  <2> QED BY <2>5 DEF Starts, c
<1>7. CASE ranks[r].parent # <<>> /\ ~IsNewParent(r)
  <2>1. ranks[r].parent = <<p>> BY <1>7 DEF IsNewParent
  <2>2. PICK a \in 1 .. c : RunFrom(r, ranks[r], p, a) BY <2>1, <1>1 DEF RunOK
  <2>3. Starts(a) BY <2>2, <1>7 DEF RunFrom
  <2> HIDE DEF Starts
  <2>4. \E b \in 1 .. c : Starts(b) BY <2>3
  <2> QED BY <2>4 DEF Starts
<1> QED BY <1>5, <1>6, <1>7

LEMMA OneMore ==
    ASSUME CountInv, NEW r \in Rank, NEW c \in 1 .. Len(deal.lists[r]), NEW a \in 1 .. c,
           IsFiniteSet(Between(r, a, c)), NEW n, n = Cardinality(Between(r, a, c))
    PROVE  /\ IsFiniteSet(Between(r, a, c + 1))
           /\ Cardinality(Between(r, a, c + 1)) =
                 IF deal.lists[r][c].path \in deal.gone THEN n ELSE n + 1
<1> DEFINE L == deal.lists[r]
<1>1. Len(L) \in Nat /\ DOMAIN L = 1 .. Len(L) BY DealFacts DEF CountInv
<1>2. c \in Nat /\ a \in Nat /\ a <= c BY <1>1
<1>3. \A i : i \in a .. c + 1 - 1 <=> i \in a .. c - 1 \/ i = c BY <1>2
<1>4. CASE L[c].path \in deal.gone
  <2>1. Between(r, a, c + 1) = Between(r, a, c) BY <1>3, <1>4 DEF Between
  <2> QED BY <2>1, <1>4
<1>5. CASE L[c].path \notin deal.gone
  <2>1. Between(r, a, c + 1) = Between(r, a, c) \cup {L[c]} BY <1>3, <1>5 DEF Between
  <2>2. L[c] \notin Between(r, a, c)
    <3> SUFFICES ASSUME L[c] \in Between(r, a, c) PROVE FALSE OBVIOUS
    <3>1. PICK i \in a .. c - 1 : L[c] = L[i] BY DEF Between
    <3>2. i \in DOMAIN L /\ c \in DOMAIN L /\ i # c BY <1>1, <1>2
    <3>3. \A j \in DOMAIN L : L[j].path = L[c].path => j = c BY DealFacts DEF CountInv
    <3> QED BY <3>1, <3>2, <3>3
  <2>3. /\ IsFiniteSet(Between(r, a, c) \cup {L[c]})
        /\ Cardinality(Between(r, a, c) \cup {L[c]}) = Cardinality(Between(r, a, c)) + 1
    BY <2>2, FS_AddElement
  <2> QED BY <2>1, <2>3, <1>5
<1> QED BY <1>4, <1>5

LEMMA EntryCounts ==
    ASSUME CountInv, NEW r \in Rank, HandleEntry(r) PROVE CountInv'
<1> DEFINE L == deal.lists[r]
           c == ranks[r].current
           e == L[c]
           base == IF IsNewParent(r) THEN 0 ELSE ranks[r].children
<1>0. PICK k, kept : PassedEntry(r, k, kept) BY EntryStep DEF CountInv
<1>1. /\ ranks' = [ranks EXCEPT ![r] = kept]
      /\ kept.current = c + 1 /\ kept.run = ranks[r].run
      /\ kept.parent = <<Dirname(e.path)>> /\ kept.parent_id = k.parent_id
      /\ r = 0 /\ c = 1 => k.parent_id = <<NoId>>
      /\ ~(r = 0 /\ c = 1) /\ Dirname(e.path) # <<"..">> =>
            k.parent_id = mfu_build_id(Dirname(e.path))
      /\ k.children = base + 1
      /\ IF k.parent_id = <<>> \/ e.path \in deal.gone
         THEN kept.seen_first_time = ranks[r].seen_first_time /\ kept.children = k.children - 1
         ELSE kept.seen_first_time = TRUE /\ kept.children = k.children
  BY <1>0 DEF PassedEntry
<1>2. /\ deal' = deal /\ mnb' = mnb /\ ranks[r].run = "run" /\ Ready(r)
      /\ ~(IsNewParent(r) /\ CountsPrevious(r))
  BY DEF HandleEntry, Ready
<1>3. MfuInv' BY EntryPasses DEF CountInv
<1>4. /\ RankOK(r, ranks[r]) /\ RunOK(r, ranks[r]) /\ CountedBehind(r, ranks[r], mnb)
      /\ ZeroBehind(r, ranks[r], mnb)
  BY DEF CountInv, MfuInv
<1>5. Len(L) \in Nat /\ DOMAIN L = 1 .. Len(L) /\ c \in 1 .. Len(L)
  <2>1. Len(L) \in Nat /\ DOMAIN L = 1 .. Len(L) /\ ~(c > Len(L))
    BY <1>2, DealFacts DEF CountInv, Ready, AtEnd
  <2> QED BY <2>1, <1>4 DEF RankOK
<1>6. /\ e.path = <<>> <=> r = 0 /\ c = 1
      /\ e.path # <<>> => Dirname(e.path) # <<"..">>
      /\ Dirname(e.path) \in deal.gone => e.path \in deal.gone
  BY <1>5, DealFacts DEF CountInv
<1>7. e.path = <<>> => Dirname(e.path) = <<"..">> BY DEF Dirname
<1>8. k.parent_id = <<>> => e.path \in deal.gone
  <2>1. CASE e.path = <<>> BY <2>1, <1>1, <1>6
  <2>2. CASE e.path # <<>> BY <2>2, <1>1, <1>6 DEF mfu_build_id
  <2> QED BY <2>1, <2>2
<1>9. RunOK(r, kept)
  <2>1. /\ kept.parent # <<>> /\ kept.run # "done" /\ kept.current # 1
        /\ kept.parent = <<Dirname(L[kept.current - 1].path)>>
    <3>1. c + 1 # 1 /\ c + 1 - 1 = c BY <1>5
    <3>2. kept.parent # <<>> /\ kept.run # "done" BY <1>1, <1>2
    <3>3. kept.current # 1 /\ kept.current - 1 = c
      <4>1. kept.current = c + 1 BY <1>1
      <4>2. c \in Nat BY <1>5
      <4> HIDE DEF c
      <4> QED BY <4>1, <3>1, <4>2
    <3> QED BY <3>2, <3>3, <1>1
  <2>2. kept.parent = << <<"..">> >> => kept.parent_id = <<NoId>>
    <3> SUFFICES ASSUME kept.parent = << <<"..">> >> PROVE kept.parent_id = <<NoId>> OBVIOUS
    <3>1. Dirname(e.path) = <<"..">> BY <1>1
    <3> QED BY <3>1, <1>1, <1>6
  <2>3. ASSUME NEW p, kept.parent = <<p>>, p # <<"..">>, p \notin deal.gone
        PROVE  \E a \in 1 .. kept.current : RunFrom(r, kept, p, a)
    <3>1. p = Dirname(e.path) /\ e.path # <<>> BY <2>3, <1>1, <1>7
    <3>2. p = Dirname(Current(r).path) BY <3>1 DEF Current
    <3>3. PICK a \in 1 .. c : /\ \A i \in a .. c - 1 : Kid(L[i], p)
                              /\ a > 1 => ~Kid(L[a - 1], p)
                              /\ IsFiniteSet(Between(r, a, c))
                              /\ base = Cardinality(Between(r, a, c))
      BY <3>2, <2>3, <1>2, BaseRun
    <3>4. /\ IsFiniteSet(Between(r, a, c + 1))
          /\ Cardinality(Between(r, a, c + 1)) = IF e.path \in deal.gone THEN base ELSE base + 1
      BY <3>3, <1>5, OneMore
    <3>5. base \in Nat BY <3>3, FS_CardinalityType
    <3> HIDE DEF base
    <3>6. kept.children = IF e.path \in deal.gone THEN base ELSE base + 1
      <4>1. CASE e.path \in deal.gone
        <5>1. kept.children = k.children - 1 /\ k.children = base + 1 BY <4>1, <1>1
        <5> QED BY <4>1, <5>1, <3>5
      <4>2. CASE e.path \notin deal.gone BY <4>2, <1>1, <1>8
      <4> QED BY <4>1, <4>2
    <3>7. \A i \in a .. c + 1 - 1 : Kid(L[i], p)
      <4>1. Kid(L[c], p) BY <3>1 DEF Kid
      <4>2. \A i \in a .. c + 1 - 1 : i \in a .. c - 1 \/ i = c BY <1>5
      <4> QED BY <4>1, <4>2, <3>3
    <3>8. a \in 1 .. c + 1 /\ a # c + 1 /\ c \in Nat /\ a \in Nat BY <1>5
    <3> HIDE DEF c, e
    <3>9. RunFrom(r, kept, p, a)
      <4>1. kept.current = c + 1 BY <1>1
      <4>2. a > 1 => ~Kid(L[a - 1], p) BY <3>3
      <4>3. a # kept.current BY <4>1, <3>8
      <4>4. \A i \in a .. kept.current - 1 : Kid(L[i], p) BY <4>1, <3>7, <3>8
      <4>5. /\ IsFiniteSet(Between(r, a, kept.current))
            /\ kept.children = Cardinality(Between(r, a, kept.current))
        BY <4>1, <3>4, <3>6
      <4> QED BY <4>2, <4>3, <4>4, <4>5 DEF RunFrom
    <3> QED BY <3>8, <3>9, <1>1
  <2> QED BY <2>1, <2>2, <2>3 DEF RunOK
<1>10. CountedBehind(r, kept, mnb)
  <2> SUFFICES ASSUME NEW i \in 1 .. kept.current - 1, NEW p, Kid(L[i], p), p \notin deal.gone,
                      p # NoId
               PROVE  kept.parent = <<p>> \/ Final(mnb, p)
    BY DEF CountedBehind
  <2>1. i \in 1 .. c - 1 \/ i = c BY <1>1, <1>5
  <2>2. CASE i = c BY <2>2, <1>1 DEF Kid
  <2>3. CASE i \in 1 .. c - 1
    <3>1. ranks[r].parent = <<p>> \/ Final(mnb, p) BY <2>3, <1>4 DEF CountedBehind
    <3>2. CASE ranks[r].parent = <<p>> /\ ~IsNewParent(r)
      <4>1. ranks[r].parent = <<Dirname(e.path)>> BY <3>2, SMTT(30) DEF IsNewParent, Current
      <4> QED BY <4>1, <3>2, <1>1
    <3>3. CASE ranks[r].parent = <<p>> /\ IsNewParent(r)
      <4>1. ranks[r].parent_id = <<>> \/ ranks[r].parent_id = <<NoId>>
        BY <3>3, <1>2 DEF CountsPrevious
      <4>2. i \in 1 .. Len(L) BY <2>3, <1>5
      <4>3. p # <<"..">> BY <4>2, DealFacts DEF CountInv, Kid
      <4>4. PICK x : ranks[r].parent = <<x>> /\ (x # <<"..">> => ranks[r].parent_id = mfu_build_id(x))
        BY <3>3, <1>4 DEF RankOK, ParentOK
      <4>5. ranks[r].parent_id = <<p>> BY <3>3, <4>3, <4>4 DEF mfu_build_id
      <4> QED BY <4>1, <4>5
    <3> QED BY <3>1, <3>2, <3>3
  <2> QED BY <2>1, <2>2, <2>3
<1>11. ZeroBehind(r, kept, mnb)
  <2>1. ~ranks[r].seen_first_time =>
           (e.dir /\ (e.path \in deal.gone \/ e.path \in DOMAIN mnb)) \/ Skipping(r, c)
    BY <1>4, <1>5 DEF ZeroBehind
  <2>2. e.dir => ~ranks[r].seen_first_time BY <1>2 DEF Ready, Current
  <2>3. ASSUME NEW i \in 1 .. kept.current - 1, L[i].dir, L[i].path \notin deal.gone
        PROVE  L[i].path \in DOMAIN mnb \/ Skipping(r, i)
    <3>1. i \in 1 .. c - 1 \/ i = c BY <1>1, <1>5
    <3>2. CASE i = c BY <3>2, <2>1, <2>2, <2>3
    <3>3. CASE i \in 1 .. c - 1 BY <3>3, <2>3, <1>4 DEF ZeroBehind
    <3> QED BY <3>1, <3>2, <3>3
  <2>4. ASSUME ~kept.seen_first_time PROVE Skipping(r, c + 1)
    <3>1. e.path \in deal.gone /\ ~ranks[r].seen_first_time BY <2>4, <1>1, <1>8
    <3>2. CASE e.dir
      <4>1. c \in 1 .. c + 1 - 1 /\ \A i \in c .. c + 1 - 1 : i = c BY <1>5
      <4> QED BY <4>1, <3>1, <3>2 DEF Skipping
    <3>3. CASE Skipping(r, c)
      <4>1. PICK m \in 1 .. c - 1 : L[m].dir /\ \A i \in m .. c - 1 : L[i].path \in deal.gone
        BY <3>3 DEF Skipping
      <4>2. m \in 1 .. c + 1 - 1 /\ \A i \in m .. c + 1 - 1 : i \in m .. c - 1 \/ i = c BY <1>5
      <4>3. \A i \in m .. c + 1 - 1 : L[i].path \in deal.gone BY <4>1, <4>2, <3>1
      <4>4. \E x \in 1 .. c + 1 - 1 : L[x].dir /\ \A i \in x .. c + 1 - 1 : L[i].path \in deal.gone
        BY <4>1, <4>2, <4>3
      <4>5. c \in Nat BY <1>5
      <4> HIDE DEF c
      <4> QED BY <4>4, <4>5 DEF Skipping
    <3> QED BY <3>1, <3>2, <3>3, <2>1
  <2> QED BY <2>3, <2>4, <1>1 DEF ZeroBehind
<1> QED BY <1>1, <1>2, <1>3, <1>9, <1>10, <1>11, CountKept DEF CountInv

\* However the entries are dealt to however many ranks, and in whichever order
\* the counts of these reach the database: the count of a directory whose entries
\* were dealt together is in the end the number of those that were found
\* (mfu_iter_next, make_cond_bson).
THEOREM ParallelCountsAreRight == Spec => []MfuCounted
<1>1. Init => CountInv
  <2> SUFFICES ASSUME MfuInit, MfuInv PROVE CountInv BY MfuStart DEF Init
  <2>1. mnb = [i \in {} |-> <<>>] /\ DOMAIN mnb = {} BY DEF MfuInit
  <2>2. \A r \in Rank : /\ ranks[r].current = 1 /\ ranks[r].run = "run" /\ ranks[r].parent = <<>>
                        /\ ranks[r].parent_id = <<>> /\ ranks[r].children = 0
                        /\ ranks[r].seen_first_time = TRUE
    BY DEF MfuInit
  <2>3. \A r \in Rank : \A i \in 1 .. ranks[r].current - 1 : FALSE BY <2>2
  <2>4. \A p : <<>> # <<p>> OBVIOUS
  <2>5. \A r \in Rank : RunOK(r, ranks[r]) BY <2>2, <2>4 DEF RunOK
  <2>6. \A r \in Rank : CountedBehind(r, ranks[r], mnb) BY <2>3 DEF CountedBehind
  <2>7. \A r \in Rank : ZeroBehind(r, ranks[r], mnb) BY <2>2, <2>3 DEF ZeroBehind
  <2>8. \A d : CountOK(mnb, d) BY <2>1 DEF CountOK
  <2> QED BY <2>5, <2>6, <2>7, <2>8 DEF CountInv
<1>2. CountInv /\ [Next]_vars => CountInv'
  <2> SUFFICES ASSUME CountInv, [Next]_vars PROVE CountInv' OBVIOUS
  <2>1. MfuNext \/ UNCHANGED mfuVars BY DEF Next, vars
  <2>2. CASE MfuNext
    BY <2>2, EndCounts, NewDirectoryCounts, NewParentCounts, EntryCounts DEF MfuNext
  <2>3. CASE UNCHANGED mfuVars
    <3>1. deal' = deal /\ ranks' = ranks /\ mnb' = mnb /\ msent' = msent BY <2>3 DEF mfuVars
    <3>2. MfuInv' BY <2>3, MfuStutters DEF CountInv
    <3> QED BY <3>1, <3>2, AfterStep DEF CountInv
  <2> QED BY <2>1, <2>2, <2>3
<1>3. CountInv => MfuCounted
  <2> SUFFICES ASSUME CountInv, MfuDone, NEW d \in MfuDirs, d.path \notin deal.gone,
                      Together(d.path)
               PROVE  \/ /\ d.path \in DOMAIN mnb
                         /\ mnb[d.path][1].value = Cardinality(FoundKids(d.path))
                      \/ Kids(d.path) = {} /\ AfterSkipped(d.path)
    BY DEF MfuCounted, FoundKids
  <2> DEFINE p == d.path
  <2>1. ASSUME NEW q \in Rank
        PROVE  /\ ranks[q].current - 1 = Len(deal.lists[q]) /\ ranks[q].parent_id = <<>>
               /\ CountedBehind(q, ranks[q], mnb) /\ ZeroBehind(q, ranks[q], mnb)
               /\ ParentOK(ranks[q]) /\ DOMAIN deal.lists[q] = 1 .. Len(deal.lists[q])
    <3>1. ranks[q].current = Len(deal.lists[q]) + 1 /\ ParentOK(ranks[q])
      BY DEF CountInv, MfuInv, MfuDone, RankOK
    <3>2. ranks[q].parent_id = <<>> BY DEF CountInv, MfuDone, RunOK
    <3> QED BY <3>1, <3>2, DealFacts DEF CountInv
  <2>2. PICK r \in Rank : \E i \in 1 .. Len(deal.lists[r]) : d = deal.lists[r][i]
    BY <2>1 DEF MfuDirs, Dealt, Range
  <2>3. PICK i \in 1 .. Len(deal.lists[r]) : d = deal.lists[r][i] BY <2>2
  <2>4. d.dir /\ p # NoId BY <2>3, DealFacts DEF MfuDirs, CountInv
  <2>5. CountOK(mnb, p) BY <2>4 DEF CountInv
  <2>6. CASE Kids(p) = {}
    <3>1. FoundKids(p) = {} BY <2>6 DEF FoundKids
    <3>2. Cardinality(FoundKids(p)) = 0 BY <3>1, FS_EmptySet
    <3>3. p \in DOMAIN mnb \/ Skipping(r, i) BY <2>1, <2>3, <2>4 DEF ZeroBehind
    <3>4. p \in DOMAIN mnb => mnb[p][1].value = 0 BY <2>5, <2>6 DEF CountOK, FinalOK
    <3>5. Skipping(r, i) => AfterSkipped(p) BY <2>1, <2>3 DEF AfterSkipped
    <3> QED BY <2>6, <3>2, <3>3, <3>4, <3>5
  <2>7. CASE Kids(p) # {}
    <3>1. PICK e \in Kids(p) : TRUE BY <2>7
    <3>2. Kid(e, p) /\ e \in Dealt BY <3>1 DEF Kids, Kid
    <3>3. PICK q \in Rank : \E j \in 1 .. Len(deal.lists[q]) : e = deal.lists[q][j]
      BY <3>2, <2>1 DEF Dealt, Range
    <3>4. PICK j \in 1 .. Len(deal.lists[q]) : e = deal.lists[q][j] BY <3>3
    <3>5. p # <<"..">> BY <3>2, <3>4, DealFacts DEF CountInv, Kid
    <3>6. ranks[q].parent = <<p>> \/ Final(mnb, p)
      BY <2>1, <2>4, <3>2, <3>4 DEF CountedBehind
    <3>7. ranks[q].parent # <<p>>
      <4> SUFFICES ASSUME ranks[q].parent = <<p>> PROVE FALSE OBVIOUS
      <4>1. PICK x : ranks[q].parent = <<x>> /\ (x # <<"..">> => ranks[q].parent_id = mfu_build_id(x))
        BY <2>1, SMTT(30) DEF ParentOK
      <4>2. ranks[q].parent_id = <<p>> BY <3>5, <4>1 DEF mfu_build_id
      <4> QED BY <2>1, <4>2
    <3>8. p \in DOMAIN mnb /\ mnb[p][1].final BY <3>6, <3>7 DEF Final
    <3>9. FinalOK(p, mnb[p][1].value) BY <2>5, <3>8 DEF CountOK
    <3> QED BY <3>8, <3>9 DEF FinalOK
  <2> QED BY <2>6, <2>7
<1> QED BY <1>1, <1>2, <1>3, PTL DEF Spec
=============================================================================
