-------------------------- MODULE QuickSortProofs --------------------------
(***************************************************************************)
(* The invariant of QuickSortInv, for any number of candidates and any     *)
(* scores that are numbers, and the properties that follow from it: a      *)
(* lemma for each action, and before them one for what the two scans have  *)
(* in common, the exchange of two rows.                                    *)
(***************************************************************************)
EXTENDS QuickSortInv, SequenceTheorems, TLAPS

(* Where the row at i comes from when low and high are exchanged.          *)
Exchanged(i) == IF i = low THEN high ELSE IF i = high THEN low ELSE i

(* Where the hole is.                                                      *)
LEMMA HoleAt ==
    /\ pc = "high" => Hole = low
    /\ pc = "low" => Hole = high
    /\ pc = "place" => Hole = low
    /\ pc \in {"call", "done"} => Hole = 0
  BY DEF Hole

(* What the invariant says of the arrays, the rows and the ranges.         *)
LEMMA RowTypes ==
    ASSUME Typed
    PROVE  /\ Positions = 1..Len(given) /\ Len(given) \in Nat
           /\ \A i \in Positions : i \in Int /\ Rows[i] \in Positions /\ Scores[i] \in Nat
           /\ \A i \in Positions : given[i] \in Nat
           /\ \A k \in DOMAIN calls : k \in Nat /\ calls[k][1] \in Int /\ calls[k][2] \in Int
<1>1. Positions = 1..Len(given) /\ Len(given) \in Nat
  BY DEF Typed, Positions
<1>2. ASSUME NEW i \in Positions PROVE i \in Int /\ Rows[i] \in Positions /\ Scores[i] \in Nat
  <2>1. /\ key \in Nat /\ key_index \in Positions
        /\ input[i] \in Nat /\ indices[i] \in Positions
    BY DEF Typed
  <2> QED
    BY <1>1, <2>1 DEF Rows, Scores
<1>3. \A i \in Positions : given[i] \in Nat
  BY <1>1 DEF Typed
<1>4. ASSUME NEW k \in DOMAIN calls
      PROVE  k \in Nat /\ calls[k][1] \in Int /\ calls[k][2] \in Int
  <2>1. calls[k] \in Ranges /\ k \in Nat
    BY DEF Typed
  <2> QED
    BY <1>1, <2>1 DEF Ranges
<1> QED
  BY <1>1, <1>2, <1>3, <1>4

(* Between two partitions the rows are those of the arrays.                *)
LEMMA WithoutHole ==
    ASSUME Typed, pc \in {"call", "done"}
    PROVE  Rows = indices /\ Scores = input
<1>1. Hole = 0
  BY HoleAt
<1>2. \A i \in Positions : i # 0
  BY DEF Positions
<1> QED
  BY <1>1, <1>2 DEF Typed, Rows, Scores

(* Moving the hole exchanges the rows at low and high, which keeps what    *)
(* the invariant says of the rows once both scans have stopped there.      *)
LEMMA ExchangeKeeps ==
    ASSUME SortInv, Partitioning, Partitioning',
           UNCHANGED <<given, calls, left, right, low, high, key>>,
           \A i \in Positions : Rows'[i] = Rows[Exchanged(i)] /\ Scores'[i] = Scores[Exchanged(i)]
    PROVE  RangesApart' /\ KeyDivides' /\ RowsMatch' /\ OrderedOrTogether'
<1>1. /\ 1 <= left /\ left <= low /\ low <= high /\ high <= right /\ right <= Len(given)
      /\ left \in Int /\ right \in Int /\ low \in Int /\ high \in Int /\ Typed
  BY DEF SortInv, ScansInside, Typed
<1>2. Positions' = Positions /\ low \in Positions /\ high \in Positions
  BY <1>1 DEF Positions, Typed
<1>3. \A i \in Positions : Exchanged(i) \in Positions
  BY <1>2 DEF Exchanged
<1>4. \A i, j \in Positions : Exchanged(i) = Exchanged(j) => i = j
  BY <1>2 DEF Exchanged
<1>5. RangesApart'
  BY DEF SortInv, RangesApart
<1>6. KeyDivides'
  <2>1. \A i \in Positions : (left <= i /\ i < low)
        \/ (high < i /\ i <= right) => Exchanged(i) = i
    BY <1>1, RowTypes DEF Exchanged
  <2> QED
    BY <1>2, <2>1 DEF SortInv, KeyDivides
<1>7. RowsMatch'
  BY <1>2, <1>3, <1>4 DEF SortInv, RowsMatch
<1>8. OrderedOrTogether'
  <2> SUFFICES ASSUME NEW i \in Positions, NEW j \in Positions, i < j, ~ Together(i, j)
               PROVE  Scores[Exchanged(i)] >= Scores[Exchanged(j)]
    BY <1>2 DEF OrderedOrTogether, Together
  <2>1. i \in Int /\ j \in Int
    BY RowTypes, <1>1
  <2>2. ~ (left <= i /\ j <= right)
    BY DEF Together
  <2>3. Exchanged(i) < Exchanged(j)
    BY <1>1, <2>1, <2>2 DEF Exchanged
  <2>4. ~ Together(Exchanged(i), Exchanged(j))
    <3>1. ~ (left <= Exchanged(i) /\ Exchanged(j) <= right)
      BY <1>1, <2>1, <2>2 DEF Exchanged
    <3>2. ASSUME NEW k \in DOMAIN calls,
                 calls[k][1] <= Exchanged(i) /\ Exchanged(j) <= calls[k][2]
          PROVE  FALSE
      <4>1. right < calls[k][1] /\ calls[k][1] \in Int /\ calls[k][2] \in Int
        BY RowTypes, <1>1 DEF SortInv, RangesApart
      <4>2. Exchanged(i) = i
        BY <1>1, <2>1, <3>2, <4>1 DEF Exchanged
      <4>3. Exchanged(j) = j
        BY <1>1, <2>1, <2>3, <3>2, <4>1, <4>2 DEF Exchanged
      <4> QED
        BY <3>2, <4>2, <4>3 DEF Together
    <3> QED
      BY <3>1, <3>2 DEF Together
  <2> QED
    BY <1>3, <2>3, <2>4 DEF SortInv, OrderedOrTogether
<1> QED
  BY <1>5, <1>6, <1>7, <1>8

(* ScanHigh keeps the invariant.                                           *)
LEMMA ScanHighPreserves ==
    ASSUME SortInv, ScanHigh
    PROVE  SortInv'
<1>1. /\ pc = "high" /\ Partitioning /\ Typed
      /\ UNCHANGED <<given, calls, left, right, low, key, key_index>>
  BY DEF SortInv, ScanHigh, Partitioning
<1>2. /\ 1 <= left /\ left <= low /\ low <= high /\ high <= right /\ right <= Len(given)
      /\ left \in Int /\ right \in Int /\ low \in Int /\ high \in Int
  BY <1>1 DEF SortInv, ScansInside, Typed
<1>3. Positions' = Positions /\ low \in Positions /\ high \in Positions
  BY <1>1, <1>2 DEF Positions, Typed
<1>4. CASE low < high /\ input[high] <= key
  <2>1. high' = high - 1 /\ UNCHANGED <<input, indices, pc>>
    BY <1>4 DEF ScanHigh
  <2>2. Hole' = Hole
    BY <1>1, <2>1 DEF Hole
  <2>3. Rows' = Rows /\ Scores' = Scores
    BY <1>1, <1>3, <2>1, <2>2 DEF Rows, Scores
  <2>4. Scores[high] <= key
    BY <1>1, <1>2, <1>3, <1>4, HoleAt DEF Scores
  <2>5. Typed' /\ ScansInside'
    BY <1>1, <1>2, <1>3, <1>4, <2>1 DEF SortInv, Typed, ScansInside, Partitioning, Ranges
  <2>6. RangesApart' /\ RowsMatch' /\ OrderedOrTogether'
    BY <1>1, <1>3, <2>1, <2>3
       DEF SortInv, RangesApart, RowsMatch, OrderedOrTogether, Together, Partitioning
  <2>7. KeyDivides'
    <3>1. \A i \in Positions : high - 1 < i => i = high \/ high < i
      BY <1>1, <1>2, RowTypes
    <3> QED
      BY <1>1, <1>3, <2>1, <2>3, <2>4, <3>1 DEF SortInv, KeyDivides, Partitioning
  <2> QED
    BY <2>5, <2>6, <2>7 DEF SortInv
<1>5. CASE ~ (low < high /\ input[high] <= key)
  <2>1. /\ input' = [input EXCEPT ![low] = input[high]]
        /\ indices' = [indices EXCEPT ![low] = indices[high]]
        /\ pc' = "low" /\ high' = high
    BY <1>5 DEF ScanHigh
  <2>2. Hole = low /\ Hole' = high /\ Partitioning'
    BY <1>1, <2>1 DEF Hole, Partitioning
  <2>3. \A i \in Positions : Rows'[i] = Rows[Exchanged(i)] /\ Scores'[i] = Scores[Exchanged(i)]
    BY <1>1, <1>3, <2>1, <2>2 DEF Typed, Rows, Scores, Exchanged
  <2>4. RangesApart' /\ KeyDivides' /\ RowsMatch' /\ OrderedOrTogether'
    BY <1>1, <2>1, <2>2, <2>3, ExchangeKeeps
  <2>5. Typed' /\ ScansInside'
    BY <1>1, <1>2, <1>3, <2>1 DEF Typed, ScansInside, Ranges
  <2> QED
    BY <2>4, <2>5 DEF SortInv
<1> QED
  BY <1>4, <1>5

(* ScanLow keeps the invariant.                                            *)
LEMMA ScanLowPreserves ==
    ASSUME SortInv, ScanLow
    PROVE  SortInv'
<1>1. /\ pc = "low" /\ Partitioning /\ Typed
      /\ UNCHANGED <<given, calls, left, right, high, key, key_index>>
  BY DEF SortInv, ScanLow, Partitioning
<1>2. /\ 1 <= left /\ left <= low /\ low <= high /\ high <= right /\ right <= Len(given)
      /\ left \in Int /\ right \in Int /\ low \in Int /\ high \in Int
  BY <1>1 DEF SortInv, ScansInside, Typed
<1>3. Positions' = Positions /\ low \in Positions /\ high \in Positions
  BY <1>1, <1>2 DEF Positions, Typed
<1>4. CASE low < high /\ input[low] >= key
  <2>1. low' = low + 1 /\ UNCHANGED <<input, indices, pc>>
    BY <1>4 DEF ScanLow
  <2>2. Hole' = Hole
    BY <1>1, <2>1 DEF Hole
  <2>3. Rows' = Rows /\ Scores' = Scores
    BY <1>1, <1>3, <2>1, <2>2 DEF Rows, Scores
  <2>4. Scores[low] >= key
    BY <1>1, <1>2, <1>3, <1>4, HoleAt DEF Scores
  <2>5. Typed' /\ ScansInside'
    BY <1>1, <1>2, <1>3, <1>4, <2>1 DEF SortInv, Typed, ScansInside, Partitioning, Ranges
  <2>6. RangesApart' /\ RowsMatch' /\ OrderedOrTogether'
    BY <1>1, <1>3, <2>1, <2>3
       DEF SortInv, RangesApart, RowsMatch, OrderedOrTogether, Together, Partitioning
  <2>7. KeyDivides'
    <3>1. \A i \in Positions : i < low + 1 => i = low \/ i < low
      BY <1>1, <1>2, RowTypes
    <3> QED
      BY <1>1, <1>3, <2>1, <2>3, <2>4, <3>1 DEF SortInv, KeyDivides, Partitioning
  <2> QED
    BY <2>5, <2>6, <2>7 DEF SortInv
<1>5. CASE ~ (low < high /\ input[low] >= key)
  <2>1. /\ input' = [input EXCEPT ![high] = input[low]]
        /\ indices' = [indices EXCEPT ![high] = indices[low]]
        /\ low' = low
        /\ (low < high /\ pc' = "high") \/ (~ (low < high) /\ pc' = "place")
    BY <1>5 DEF ScanLow
  <2>2. Hole = high /\ Hole' = low /\ Partitioning'
    BY <1>1, <2>1 DEF Hole, Partitioning
  <2>3. \A i \in Positions : Rows'[i] = Rows[Exchanged(i)] /\ Scores'[i] = Scores[Exchanged(i)]
    BY <1>1, <1>3, <2>1, <2>2 DEF Typed, Rows, Scores, Exchanged
  <2>4. RangesApart' /\ KeyDivides' /\ RowsMatch' /\ OrderedOrTogether'
    BY <1>1, <2>1, <2>2, <2>3, ExchangeKeeps
  <2>5. Typed'
    <3>1. Ranges' = Ranges
      BY <1>1 DEF Ranges
    <3>2. input' \in [Positions' -> Nat] /\ indices' \in [Positions' -> Positions']
      BY <1>1, <1>3, <2>1 DEF Typed
    <3>3. low' \in Int /\ pc' \in {"call", "high", "low", "place", "done"}
      BY <1>2, <2>1
    <3> QED
      BY <1>1, <1>3, <3>1, <3>2, <3>3 DEF Typed
  <2>6. ScansInside'
    <3>1. ~ (low < high) => low = high
      BY <1>2
    <3>2. pc' = "place" => low' = high'
      BY <1>1, <2>1, <3>1
    <3> QED
      BY <1>1, <1>2, <2>1, <3>2 DEF ScansInside
  <2> QED
    BY <2>4, <2>5, <2>6 DEF SortInv
<1> QED
  BY <1>4, <1>5

(* The ranges that are left once the first is taken.                       *)
LEMMA CallsShift ==
    ASSUME Typed, calls # <<>>
    PROVE  /\ Len(calls) \in Nat \ {0} /\ 1 \in DOMAIN calls /\ Head(calls) = calls[1]
           /\ Tail(calls) \in Seq(Ranges)
           /\ DOMAIN Tail(calls) = 1..(Len(calls) - 1)
           /\ \A k \in DOMAIN Tail(calls) : k + 1 \in DOMAIN calls /\ Tail(calls)[k] = calls[k + 1]
           /\ \A k \in DOMAIN calls : k = 1 \/ (k - 1 \in DOMAIN Tail(calls) /\ k > 1)
<1> DEFINE n == Len(calls)
           rest == Tail(calls)
<1>1. /\ calls \in Seq(Ranges) /\ n \in Nat /\ n # 0 /\ DOMAIN calls = 1..n
      /\ Head(calls) = calls[1]
  BY DEF Typed
<1>2. /\ rest \in Seq(Ranges) /\ Len(rest) = n - 1
      /\ \A k \in 1..(n - 1) : rest[k] = calls[k + 1]
  BY <1>1, HeadTailProperties
<1>3. DOMAIN rest = 1..(n - 1)
  BY <1>2
<1> HIDE DEF n, rest
<1>4. /\ 1 \in 1..n /\ n \in Nat \ {0}
      /\ \A k \in 1..(n - 1) : k + 1 \in 1..n
      /\ \A k \in 1..n : k = 1 \/ (k - 1 \in 1..(n - 1) /\ k > 1)
  BY <1>1
<1> QED
  BY <1>1, <1>2, <1>3, <1>4 DEF n, rest

(* Call keeps the invariant.                                               *)
LEMMA CallPreserves ==
    ASSUME SortInv, Call
    PROVE  SortInv'
<1>1. /\ pc = "call" /\ Typed /\ calls # <<>> /\ ~ Partitioning
      /\ UNCHANGED <<given, input, indices>>
      /\ left' = calls[1][1] /\ right' = calls[1][2] /\ low' = left' /\ high' = right'
      /\ calls' = Tail(calls)
  BY CallsShift DEF SortInv, Call, Partitioning
<1>2. calls[1] \in Ranges /\ Len(given) \in Nat
  BY <1>1, CallsShift, RowTypes DEF Typed
<1>3. /\ left' \in 1..(Len(given) + 1) /\ left' \in Int
      /\ right' \in 0..Len(given) /\ right' \in Int
  BY <1>1, <1>2 DEF Ranges
<1>4. Positions' = Positions
  BY <1>1 DEF Positions
<1>5. Rows = indices /\ Scores = input
  BY <1>1, WithoutHole
<1>6. /\ \A k \in DOMAIN calls' : right' < calls'[k][1]
      /\ \A k, m \in DOMAIN calls' : k < m => calls'[k][2] < calls'[m][1]
  <2>1. \A k, m \in DOMAIN calls : k < m => calls[k][2] < calls[m][1]
    BY DEF SortInv, RangesApart
  <2>2. \A k \in DOMAIN calls' : /\ k + 1 \in DOMAIN calls /\ calls'[k] = calls[k + 1]
                                /\ k \in Nat /\ k > 0
    BY <1>1, CallsShift
  <2>3. 1 \in DOMAIN calls
    BY <1>1, CallsShift
  <2> QED
    BY <1>1, <2>1, <2>2, <2>3
<1>7. CASE left' < right'
  <2>1. /\ key' = input[left'] /\ key_index' = indices[left'] /\ pc' = "high"
        /\ Partitioning' /\ Hole' = left'
    BY <1>1, <1>7 DEF Call, Partitioning, Hole
  <2>2. left' \in Positions
    BY <1>2, <1>3, <1>7 DEF Positions
  <2>3. Rows' = indices /\ Scores' = input
    BY <1>1, <1>4, <2>1, <2>2 DEF Typed, Rows, Scores
  <2>4. Typed' /\ ScansInside'
    <3>1. calls' \in Seq(Ranges) /\ Ranges' = Ranges
      BY <1>1, CallsShift DEF Ranges
    <3>2. key' \in Nat /\ key_index' \in Positions
      BY <1>1, <2>1, <2>2 DEF Typed
    <3>3. Typed'
      BY <1>1, <1>3, <1>4, <2>1, <3>1, <3>2 DEF Typed
    <3>4. ScansInside'
      BY <1>1, <1>3, <1>7, <2>1, RowTypes DEF ScansInside
    <3> QED
      BY <3>3, <3>4
  <2>5. RangesApart'
    BY <1>6 DEF RangesApart
  <2>6. KeyDivides'
    BY <1>1, <1>3, <1>4, RowTypes DEF KeyDivides
  <2>7. RowsMatch'
    BY <1>1, <1>4, <1>5, <2>3 DEF SortInv, RowsMatch
  <2>8. OrderedOrTogether'
    <3> SUFFICES ASSUME NEW i \in Positions, NEW j \in Positions, Together(i, j)
                 PROVE  Together(i, j)'
      BY <1>4, <1>5, <2>3 DEF SortInv, OrderedOrTogether
    <3>1. PICK k \in DOMAIN calls : calls[k][1] <= i /\ j <= calls[k][2]
      BY <1>1 DEF Together
    <3>2. CASE k = 1
      BY <1>1, <2>1, <3>1, <3>2 DEF Together
    <3>3. CASE k # 1
      <4>1. k - 1 \in DOMAIN calls' /\ calls'[k - 1] = calls[k]
        BY <1>1, <3>3, CallsShift, RowTypes
      <4> QED
        BY <3>1, <4>1 DEF Together
    <3> QED
      BY <3>2, <3>3
  <2> QED
    BY <2>4, <2>5, <2>6, <2>7, <2>8 DEF SortInv
<1>8. CASE ~ (left' < right')
  <2>1. UNCHANGED <<key, key_index, pc>> /\ ~ Partitioning' /\ Hole' = Hole
    BY <1>1, <1>8 DEF Call, Partitioning, Hole
  <2>2. Rows' = Rows /\ Scores' = Scores
    BY <1>1, <1>4, <2>1 DEF Rows, Scores
  <2>3. Typed' /\ ScansInside'
    BY <1>1, <1>3, <2>1, CallsShift DEF Typed, ScansInside, Positions, Ranges, Partitioning
  <2>4. RangesApart' /\ KeyDivides'
    BY <1>6, <2>1 DEF RangesApart, KeyDivides
  <2>5. RowsMatch'
    BY <1>1, <1>4, <2>2 DEF SortInv, RowsMatch
  <2>6. OrderedOrTogether'
    <3> SUFFICES ASSUME NEW i \in Positions, NEW j \in Positions, i < j, Together(i, j)
                 PROVE  Together(i, j)'
      BY <1>4, <2>2 DEF SortInv, OrderedOrTogether
    <3>1. PICK k \in DOMAIN calls : calls[k][1] <= i /\ j <= calls[k][2]
      BY <1>1 DEF Together
    <3>2. k # 1
      BY <1>1, <1>3, <1>8, <3>1, RowTypes
    <3>3. k - 1 \in DOMAIN calls' /\ calls'[k - 1] = calls[k]
      BY <1>1, <3>2, CallsShift, RowTypes
    <3> QED
      BY <3>1, <3>3 DEF Together
  <2> QED
    BY <2>3, <2>4, <2>5, <2>6 DEF SortInv
<1> QED
  BY <1>7, <1>8

(* The ranges once the two sides of the key were put before them.          *)
LEMMA CallsGrow ==
    ASSUME Typed, NEW a \in Ranges,
           NEW b \in Ranges
    PROVE  LET new == <<a, b>> \o calls IN
           /\ new \in Seq(Ranges)
           /\ DOMAIN new = 1..(Len(calls) + 2) /\ Len(calls) \in Nat
           /\ new[1] = a /\ new[2] = b
           /\ \A k \in DOMAIN calls : k + 2 \in DOMAIN new /\ new[k + 2] = calls[k]
           /\ \A k \in DOMAIN new : k = 1 \/ k = 2 \/ (k - 2 \in DOMAIN calls /\ k > 2
                                                     /\ new[k] = calls[k - 2])
<1> DEFINE n == Len(calls)
           new == <<a, b>> \o calls
<1>1. /\ <<a, b>> \in Seq(Ranges) /\ Len(<<a, b>>) = 2 /\ calls \in Seq(Ranges)
      /\ <<a, b>>[1] = a /\ <<a, b>>[2] = b
      /\ n \in Nat /\ DOMAIN calls = 1..n
  BY DEF Typed
<1>2. /\ new \in Seq(Ranges) /\ Len(new) = 2 + n
      /\ \A k \in 1..(2 + n) : new[k] = IF k <= 2 THEN <<a, b>>[k] ELSE calls[k - 2]
  BY <1>1, ConcatProperties
<1>3. DOMAIN new = 1..(2 + n)
  BY <1>2
<1> HIDE DEF n, new
<1>4. /\ 1..(2 + n) = 1..(n + 2) /\ 1 \in 1..(2 + n) /\ 2 \in 1..(2 + n)
      /\ \A k \in 1..n : k + 2 \in 1..(2 + n) /\ ~ (k + 2 <= 2) /\ k + 2 - 2 = k
      /\ \A k \in 1..(2 + n) : k = 1 \/ k = 2 \/ (k - 2 \in 1..n /\ k > 2 /\ ~ (k <= 2))
  BY <1>1
<1>5. new[1] = a /\ new[2] = b
  BY <1>1, <1>2, <1>4
<1>6. \A k \in 1..n : new[k + 2] = calls[k]
  BY <1>2, <1>4
<1>7. \A k \in 1..(2 + n) : k > 2 /\ ~ (k <= 2) => new[k] = calls[k - 2]
  BY <1>2
<1> QED
  BY <1>1, <1>2, <1>3, <1>4, <1>5, <1>6, <1>7 DEF n, new

(* Place keeps the invariant.                                              *)
LEMMA PlacePreserves ==
    ASSUME SortInv, Place
    PROVE  SortInv'
<1> DEFINE a == <<left, low - 1>>
           b == <<low + 1, right>>
<1>1. /\ pc = "place" /\ Partitioning /\ Typed /\ Hole = low
      /\ input' = [input EXCEPT ![low] = key] /\ indices' = [indices EXCEPT ![low] = key_index]
      /\ calls' = <<a, b>> \o calls /\ pc' = "call"
      /\ UNCHANGED <<given, left, right, low, high, key, key_index>>
      /\ ~ Partitioning' /\ Hole' = 0
  BY DEF SortInv, Place, Partitioning, Hole, locals
<1>2. /\ 1 <= left /\ left <= low /\ low = high /\ high <= right /\ right <= Len(given)
      /\ left \in Int /\ right \in Int /\ low \in Int /\ high \in Int /\ Len(given) \in Nat
  BY <1>1 DEF SortInv, ScansInside, Typed
<1>3. Positions' = Positions /\ low \in Positions
  BY <1>1, <1>2 DEF Positions
<1>4. Rows' = Rows /\ Scores' = Scores /\ Scores[low] = key
  <2>1. \A i \in Positions : i # 0
    BY DEF Positions
  <2> QED
    BY <1>1, <1>3, <2>1 DEF Typed, Rows, Scores
<1>5. a \in Ranges /\ b \in Ranges /\ Ranges' = Ranges
  BY <1>1, <1>2 DEF Ranges
<1>6. a[1] = left /\ a[2] = low - 1 /\ b[1] = low + 1 /\ b[2] = right
  OBVIOUS
<1> HIDE DEF a, b
<1>7. /\ calls' \in Seq(Ranges)
      /\ DOMAIN calls' = 1..(Len(calls) + 2) /\ Len(calls) \in Nat
      /\ calls'[1] = a /\ calls'[2] = b
      /\ \A k \in DOMAIN calls : k + 2 \in DOMAIN calls' /\ calls'[k + 2] = calls[k]
      /\ \A k \in DOMAIN calls' : k = 1 \/ k = 2 \/ (k - 2 \in DOMAIN calls /\ k > 2
                                                 /\ calls'[k] = calls[k - 2])
  BY <1>1, <1>5, CallsGrow
<1>8. Typed' /\ ScansInside'
  BY <1>1, <1>3, <1>5, <1>7 DEF Typed, ScansInside, Partitioning
<1>9. RangesApart' /\ KeyDivides'
  <2> SUFFICES ASSUME NEW k \in DOMAIN calls', NEW m \in DOMAIN calls', k < m
               PROVE  calls'[k][2] < calls'[m][1]
    BY <1>1 DEF RangesApart, KeyDivides
  <2>1. \A n \in DOMAIN calls : right < calls[n][1] /\ calls[n][1] \in Int
    BY <1>1, RowTypes DEF SortInv, RangesApart
  <2>2. CASE m = 2
    <3>1. k = 1
      BY <1>7, <2>2
    <3> QED
      BY <1>2, <1>6, <1>7, <2>2, <3>1
  <2>3. CASE m # 2
    <3>1. m - 2 \in DOMAIN calls /\ calls'[m] = calls[m - 2]
      BY <1>7, <2>3
    <3>2. CASE k \in {1, 2}
      <4>1. right < calls'[m][1] /\ calls'[m][1] \in Int
        BY <2>1, <3>1
      <4>2. calls'[k][2] = low - 1 \/ calls'[k][2] = right
        BY <1>6, <1>7, <3>2
      <4> QED
        BY <1>2, <4>1, <4>2
    <3>3. CASE k \notin {1, 2}
      <4>1. k - 2 \in DOMAIN calls /\ calls'[k] = calls[k - 2] /\ k - 2 < m - 2
        BY <1>7, <3>3
      <4> QED
        BY <3>1, <4>1 DEF SortInv, RangesApart
    <3> QED
      BY <3>2, <3>3
  <2> QED
    BY <2>2, <2>3
<1>10. RowsMatch'
  BY <1>1, <1>3, <1>4 DEF SortInv, RowsMatch
<1>11. OrderedOrTogether'
  <2> SUFFICES ASSUME NEW i \in Positions, NEW j \in Positions, i < j, Together(i, j)
               PROVE  Scores[i] >= Scores[j] \/ Together(i, j)'
    BY <1>3, <1>4 DEF SortInv, OrderedOrTogether
  <2>1. i \in Int /\ j \in Int /\ Scores[i] \in Nat /\ Scores[j] \in Nat /\ key \in Nat
    BY <1>1, RowTypes DEF Typed
  <2>2. CASE left <= i /\ j <= right
    <3>1. CASE j < low
      <4>1. 1 \in DOMAIN calls' /\ calls'[1][1] <= i /\ j <= calls'[1][2]
        BY <1>2, <1>6, <1>7, <2>1, <2>2, <3>1
      <4> QED
        BY <4>1 DEF Together
    <3>2. CASE i > low
      <4>1. 2 \in DOMAIN calls' /\ calls'[2][1] <= i /\ j <= calls'[2][2]
        BY <1>2, <1>6, <1>7, <2>1, <2>2, <3>2
      <4> QED
        BY <4>1 DEF Together
    <3>3. CASE i <= low /\ low <= j
      <4>1. Scores[i] >= key
        BY <1>1, <1>2, <1>4, <2>1, <2>2, <3>3 DEF SortInv, KeyDivides
      <4>2. Scores[j] <= key
        BY <1>1, <1>2, <1>4, <2>1, <2>2, <3>3 DEF SortInv, KeyDivides
      <4> QED
        BY <2>1, <4>1, <4>2
    <3> QED
      BY <1>2, <2>1, <3>1, <3>2, <3>3
  <2>3. CASE \E k \in DOMAIN calls : calls[k][1] <= i /\ j <= calls[k][2]
    BY <1>7, <2>3 DEF Together
  <2> QED
    BY <2>2, <2>3 DEF Together
<1> QED
  BY <1>8, <1>9, <1>10, <1>11 DEF SortInv

(* Return keeps the invariant.                                             *)
LEMMA ReturnPreserves ==
    ASSUME SortInv, Return
    PROVE  SortInv'
<1>1. /\ pc = "call" /\ pc' = "done" /\ calls = <<>> /\ Typed
      /\ UNCHANGED <<given, input, indices, calls, left, right, low, high, key, key_index>>
      /\ ~ Partitioning /\ ~ Partitioning' /\ Hole = 0 /\ Hole' = 0
  BY DEF SortInv, Return, locals, Partitioning, Hole
<1>2. Positions' = Positions /\ Rows' = Rows /\ Scores' = Scores
  BY <1>1 DEF Positions, Rows, Scores
<1>3. Typed' /\ ScansInside'
  BY <1>1, <1>2 DEF Typed, ScansInside, Ranges
<1>4. RangesApart' /\ KeyDivides' /\ RowsMatch' /\ OrderedOrTogether'
  BY <1>1, <1>2 DEF SortInv, RangesApart, KeyDivides, RowsMatch, OrderedOrTogether, Together
<1> QED
  BY <1>3, <1>4 DEF SortInv

(* A step that changes nothing keeps the invariant ...                     *)
LEMMA StutterPreserves ==
    ASSUME SortInv, UNCHANGED vars
    PROVE  SortInv'
<1>1. Positions' = Positions /\ Hole' = Hole /\ (Partitioning' <=> Partitioning)
  BY DEF vars, locals, Positions, Hole, Partitioning
<1>2. Rows' = Rows /\ Scores' = Scores
  BY <1>1 DEF vars, locals, Rows, Scores
<1>3. Typed' /\ ScansInside'
  BY <1>1 DEF SortInv, vars, locals, Typed, ScansInside, Ranges
<1>4. RangesApart' /\ KeyDivides' /\ RowsMatch' /\ OrderedOrTogether'
  BY <1>1, <1>2
     DEF SortInv, vars, locals, RangesApart, KeyDivides, RowsMatch, OrderedOrTogether,
         Together
<1> QED
  BY <1>3, <1>4 DEF SortInv

(* ... and it holds at the start ...                                       *)
LEMMA InitInv == Init => SortInv
<1> SUFFICES ASSUME Init PROVE SortInv
  OBVIOUS
<1>1. PICK n \in 1..MaxLen : given \in [1..n -> Values]
  BY DEF Init
<1>2. n \in Nat /\ n > 0
  BY ValuesAssumption
<1>3. given \in [1..n -> Nat]
  <2>1. \A i \in 1..n : given[i] \in Nat
    BY <1>1, ValuesAssumption
  <2> QED
    BY <1>1, <2>1
<1>4. given \in Seq(Nat) /\ Len(given) = n
  BY <1>2, <1>3
<1>5. Positions = 1..n /\ Hole = 0 /\ ~ Partitioning
  BY <1>2, <1>4 DEF Init, Positions, Hole, Partitioning
<1>6. Typed
  BY <1>2, <1>3, <1>4, <1>5 DEF Init, Typed, Ranges
<1>7. Rows = indices /\ Scores = input
  BY <1>6, WithoutHole DEF Init
<1>8. ScansInside /\ RangesApart /\ KeyDivides
  BY <1>2, <1>4, <1>5 DEF Init, ScansInside, RangesApart, KeyDivides
<1>9. RowsMatch
  BY <1>2, <1>4, <1>5, <1>7 DEF Init, RowsMatch
<1>10. OrderedOrTogether
  BY <1>2, <1>4, <1>5 DEF Init, OrderedOrTogether, Together
<1> QED
  BY <1>6, <1>8, <1>9, <1>10 DEF SortInv

(* ... so it always holds: every partition leaves its range divided by the *)
(* key, and two rows out of order are together in a range still to be      *)
(* sorted (postprocess.cpp:139-170).                                       *)
THEOREM Invariance == Spec => []SortInv
<1>1. SortInv /\ [Next]_vars => SortInv'
  BY CallPreserves, ScanHighPreserves, ScanLowPreserves, PlacePreserves, ReturnPreserves,
     StutterPreserves DEF Next
<1> QED
  BY InitInv, <1>1, PTL DEF Spec

(* Every variable has its type; the scans stay inside the range they sort  *)
(* and the ranges inside the arrays (postprocess.cpp:149-167).             *)
THEOREM TypeCorrect == Spec => []TypeOK
<1>1. SortInv => TypeOK
  BY RowTypes DEF SortInv, Typed, ScansInside, Partitioning, TypeOK, Positions, Ranges
<1> QED
  BY Invariance, <1>1, PTL

(* Through every assignment of the sort the values, with the key put back, *)
(* are those given, each beside its index (postprocess.cpp:150-164).       *)
THEOREM PairsStayTogether == Spec => []PairsTogether
<1>1. SortInv => PairsTogether
  BY RowTypes DEF SortInv, RowsMatch, Rows, Scores, PairsTogether, IsPermutation
<1> QED
  BY Invariance, <1>1, PTL

(* When no range is left the indices are a descending order.               *)
LEMMA SortedAtTheEnd ==
    ASSUME SortInv, pc \in {"call", "done"}, calls = <<>>
    PROVE  indices \in DescendingOrders(given)
<1>1. Rows = indices /\ Scores = input /\ Typed
  BY WithoutHole DEF SortInv
<1>2. \A i, j \in Positions : i < j => Scores[i] >= Scores[j]
  BY DEF SortInv, OrderedOrTogether, Together, Partitioning
<1>3. \A i, j \in Positions : i < j => given[indices[i]] >= given[indices[j]]
  BY <1>1, <1>2 DEF SortInv, RowsMatch
<1>4. indices \in [1..Len(given) -> 1..Len(given)]
  BY <1>1 DEF Typed, Positions
<1> QED
  BY <1>1, <1>3, <1>4
     DEF SortInv, RowsMatch, DescendingOrders, IsPermutation, Descends, Positions

(* The sort implements the abstract one: for every number of candidates it *)
(* ends with the indices in a descending order of their scores, equal      *)
(* scores in any order (postprocess.cpp:139-170).                          *)
THEOREM SortIsImplemented == Spec => ImplementsSort
<1>1. Init => Abstract!Init
  <2> SUFFICES ASSUME Init PROVE Abstract!Init
    OBVIOUS
  <2>1. given \in Seq(Nat)
    BY InitInv DEF SortInv, Typed
  <2> QED
    BY <2>1 DEF Init, Abstract!Init, Abstract!NotYet
<1>2. SortInv /\ [Next]_vars => [Abstract!Sort]_<<given, IF pc = "done" THEN indices ELSE <<>> >>
  <2> SUFFICES ASSUME SortInv, [Next]_vars
               PROVE  \/ Abstract!Sort
                      \/ UNCHANGED <<given, IF pc = "done" THEN indices ELSE <<>> >>
    OBVIOUS
  <2>1. CASE Return
    <3>1. indices \in DescendingOrders(given)
      BY <2>1, SortedAtTheEnd DEF Return
    <3> QED
      BY <2>1, <3>1
         DEF Return, Abstract!Sort, Abstract!NotYet, Abstract!DescendingOrders,
             DescendingOrders, Abstract!IsPermutation, IsPermutation, Abstract!Descends,
             Descends
  <2>2. CASE Call \/ ScanHigh \/ ScanLow \/ Place
    BY <2>2 DEF Call, ScanHigh, ScanLow, Place
  <2>3. CASE UNCHANGED vars
    BY <2>3 DEF vars
  <2> QED
    BY <2>1, <2>2, <2>3 DEF Next
<1> QED
  BY <1>1, <1>2, Invariance, PTL DEF Spec, ImplementsSort, Abstract!Spec
(* What is still to be done is a number, before and after a step.          *)
LEMMA WorkIsNatural == SortInv => ScanWork \in Nat /\ Len(calls) \in Nat
<1> SUFFICES ASSUME SortInv PROVE ScanWork \in Nat /\ Len(calls) \in Nat
  OBVIOUS
<1>1. Typed /\ Len(calls) \in Nat
  BY DEF SortInv, Typed
<1>2. CASE Partitioning
  <2>1. low \in Int /\ high \in Int /\ low <= high
    BY <1>1, <1>2 DEF SortInv, ScansInside, Typed
  <2>2. high - low \in Nat
    BY <2>1
  <2> HIDE <2>1
  <2> QED
    BY <1>1, <2>2 DEF ScanWork
<1>3. CASE ~ Partitioning
  BY <1>1, <1>3 DEF ScanWork, Partitioning
<1> QED
  BY <1>2, <1>3

(* A scan leaves the ranges alone.                                         *)
LEMMA ScanPlacesNothing ==
    ASSUME Partitioning, Partitioning', UNCHANGED <<given, calls, left, right>>
    PROVE  Unplaced' = Unplaced
<1>1. Positions' = Positions
  BY DEF Positions
<1> QED
  BY <1>1 DEF Unplaced

(* The scan from the right has less to do after each of its turns: the     *)
(* score it copies when it stops does not stop the scan from the left.     *)
LEMMA ScanHighShrinks ==
    ASSUME SortInv, ScanHigh
    PROVE  Shrinks
<1>1. /\ pc = "high" /\ Partitioning /\ Typed
      /\ UNCHANGED <<given, calls, left, right, low, key, key_index>>
  BY DEF SortInv, ScanHigh, Partitioning
<1>2. /\ low <= high /\ low \in Int /\ high \in Int /\ key \in Int
      /\ low \in Positions /\ high \in Positions
      /\ \A i \in Positions : input[i] \in Int
  <2>1. /\ 1 <= left /\ left <= low /\ low <= high /\ high <= right /\ right <= Len(given)
        /\ left \in Int /\ right \in Int /\ low \in Int /\ high \in Int
        /\ Len(given) \in Nat
    BY <1>1 DEF SortInv, ScansInside, Typed
  <2>2. low \in Positions /\ high \in Positions
    BY <2>1 DEF Positions
  <2>3. key \in Int /\ \A i \in Positions : input[i] \in Int
    BY <1>1 DEF Typed
  <2> QED
    BY <2>1, <2>2, <2>3
<1>3. CASE low < high /\ input[high] <= key
  <2>1. high' = high - 1 /\ pc' = "high" /\ input' = input
    BY <1>1, <1>3 DEF ScanHigh
  <2>2. ScanWork = 3 * (high - low)
    BY <1>1, <1>2, <1>3 DEF ScanWork
  <2>3. \E c \in 0..2 : ScanWork' = 3 * (high - 1 - low) + c
    BY <1>1, <2>1 DEF ScanWork
  <2>4. ScanWork' < ScanWork
    BY <1>2, <2>2, <2>3
  <2>5. Unplaced' = Unplaced
    BY <1>1, <2>1, ScanPlacesNothing DEF Partitioning
  <2> QED
    BY <1>1, <2>4, <2>5 DEF Shrinks
<1>4. CASE ~ (low < high /\ input[high] <= key)
  <2>1. /\ input' = [input EXCEPT ![low] = input[high]]
        /\ pc' = "low" /\ high' = high
    BY <1>4 DEF ScanHigh
  <2>2. input'[low] = input[high]
    BY <1>1, <1>2, <2>1 DEF Typed
  <2>3. CASE low = high
    <3>1. ScanWork = 3 * (high - low) + 2
      BY <1>1, <2>3 DEF ScanWork
    <3>2. ScanWork' = 3 * (high - low) + 1
      BY <1>1, <2>1, <2>3 DEF ScanWork
    <3> QED
      BY <1>1, <1>2, <2>1, <3>1, <3>2, ScanPlacesNothing DEF Shrinks, Partitioning
  <2>4. CASE low # high
    <3>1. ~ (input[high] <= key) /\ input[high] >= key
      BY <1>2, <1>4, <2>4
    <3>2. ScanWork = 3 * (high - low) + 1
      BY <1>1, <2>4, <3>1 DEF ScanWork
    <3>3. ScanWork' = 3 * (high - low) + 0
      BY <1>1, <2>1, <2>2, <2>4, <3>1 DEF ScanWork
    <3> QED
      BY <1>1, <1>2, <2>1, <3>2, <3>3, ScanPlacesNothing DEF Shrinks, Partitioning
  <2> QED
    BY <2>3, <2>4
<1> QED
  BY <1>3, <1>4

(* The scan from the left likewise.                                        *)
LEMMA ScanLowShrinks ==
    ASSUME SortInv, ScanLow
    PROVE  Shrinks
<1>1. /\ pc = "low" /\ Partitioning /\ Typed
      /\ UNCHANGED <<given, calls, left, right, high, key, key_index>>
  BY DEF SortInv, ScanLow, Partitioning
<1>2. /\ low <= high /\ low \in Int /\ high \in Int /\ key \in Int
      /\ low \in Positions /\ high \in Positions
      /\ \A i \in Positions : input[i] \in Int
  <2>1. /\ 1 <= left /\ left <= low /\ low <= high /\ high <= right /\ right <= Len(given)
        /\ left \in Int /\ right \in Int /\ low \in Int /\ high \in Int
        /\ Len(given) \in Nat
    BY <1>1 DEF SortInv, ScansInside, Typed
  <2>2. low \in Positions /\ high \in Positions
    BY <2>1 DEF Positions
  <2>3. key \in Int /\ \A i \in Positions : input[i] \in Int
    BY <1>1 DEF Typed
  <2> QED
    BY <2>1, <2>2, <2>3
<1>3. CASE low < high /\ input[low] >= key
  <2>1. low' = low + 1 /\ pc' = "low" /\ input' = input
    BY <1>1, <1>3 DEF ScanLow
  <2>2. ScanWork = 3 * (high - low)
    BY <1>1, <1>2, <1>3 DEF ScanWork
  <2>3. \E c \in 0..2 : ScanWork' = 3 * (high - (low + 1)) + c
    BY <1>1, <2>1 DEF ScanWork
  <2>4. ScanWork' < ScanWork
    BY <1>2, <2>2, <2>3
  <2>5. Unplaced' = Unplaced
    BY <1>1, <2>1, ScanPlacesNothing DEF Partitioning
  <2> QED
    BY <1>1, <2>4, <2>5 DEF Shrinks
<1>4. CASE ~ (low < high /\ input[low] >= key)
  <2>1. /\ input' = [input EXCEPT ![high] = input[low]] /\ low' = low
        /\ (low < high /\ pc' = "high") \/ (~ (low < high) /\ pc' = "place")
    BY <1>4 DEF ScanLow
  <2>2. input'[high] = input[low]
    BY <1>1, <1>2, <2>1 DEF Typed
  <2>3. Partitioning'
    BY <2>1 DEF Partitioning
  <2>4. CASE low = high
    <3>1. ScanWork = 3 * (high - low) + 1
      BY <1>1, <2>4 DEF ScanWork
    <3>2. pc' = "place"
      BY <1>2, <2>1, <2>4
    <3>3. ScanWork' = 0
      BY <3>2 DEF ScanWork
    <3> QED
      BY <1>1, <1>2, <2>3, <3>1, <3>3, ScanPlacesNothing DEF Shrinks
  <2>5. CASE low # high
    <3>1. ~ (input[low] >= key) /\ input[low] <= key /\ pc' = "high"
      BY <1>2, <1>4, <2>1, <2>5
    <3>2. ScanWork = 3 * (high - low) + 1
      BY <1>1, <2>5, <3>1 DEF ScanWork
    <3>3. ScanWork' = 3 * (high - low) + 0
      BY <1>1, <2>1, <2>2, <2>5, <3>1 DEF ScanWork
    <3> QED
      BY <1>1, <1>2, <2>3, <3>2, <3>3, ScanPlacesNothing DEF Shrinks
  <2> QED
    BY <2>4, <2>5
<1> QED
  BY <1>3, <1>4

(* A call takes its range off the stack, and partitions no other one.      *)
LEMMA CallShrinks ==
    ASSUME SortInv, Call
    PROVE  Shrinks
<1>1. /\ pc = "call" /\ Typed /\ calls # <<>> /\ ~ Partitioning /\ given' = given
      /\ left' = calls[1][1] /\ right' = calls[1][2] /\ calls' = Tail(calls)
  BY CallsShift DEF SortInv, Call, Partitioning
<1>2. Len(calls') < Len(calls)
  <2>1. calls \in Seq(Ranges)
    BY <1>1 DEF Typed
  <2>2. Len(calls) \in Nat /\ Len(calls') = Len(calls) - 1
    BY <1>1, <2>1, HeadTailProperties
  <2> QED
    BY <2>2
<1>3. \A k \in DOMAIN calls' : k + 1 \in DOMAIN calls /\ calls'[k] = calls[k + 1]
  BY <1>1, CallsShift
<1>4. 1 \in DOMAIN calls
  BY <1>1, CallsShift
<1>5. Unplaced' \subseteq Unplaced
  <2> SUFFICES ASSUME NEW i \in Unplaced' PROVE i \in Unplaced
    OBVIOUS
  <2>1. Positions' = Positions
    BY <1>1 DEF Positions
  <2>2. i \in Positions /\ \/ left' <= i /\ i <= right'
                           \/ \E k \in DOMAIN calls' : calls'[k][1] <= i /\ i <= calls'[k][2]
    BY <2>1 DEF Unplaced
  <2>3. \E k \in DOMAIN calls : calls[k][1] <= i /\ i <= calls[k][2]
    BY <1>1, <1>3, <1>4, <2>2
  <2> QED
    BY <2>2, <2>3 DEF Unplaced
<1> QED
  BY <1>2, <1>5 DEF Shrinks

(* Putting the key back places one score: the ranges of its two sides, and *)
(* those after them, are apart from where it is.                           *)
LEMMA PlaceShrinks ==
    ASSUME SortInv, Place
    PROVE  Shrinks
<1> DEFINE a == <<left, low - 1>>
           b == <<low + 1, right>>
<1>1. /\ pc = "place" /\ Partitioning /\ Typed /\ given' = given
      /\ calls' = <<a, b>> \o calls /\ ~ Partitioning'
  BY DEF SortInv, Place, Partitioning, locals
<1>2. /\ 1 <= left /\ left <= low /\ low <= right /\ right <= Len(given)
      /\ left \in Int /\ right \in Int /\ low \in Int /\ Len(given) \in Nat
  BY <1>1 DEF SortInv, ScansInside, Typed
<1>3. a \in Ranges /\ b \in Ranges /\ a[1] = left /\ a[2] = low - 1 /\ b[1] = low + 1 /\ b[2] = right
  BY <1>1, <1>2 DEF Ranges
<1> HIDE DEF a, b
<1>4. /\ calls'[1] = a /\ calls'[2] = b
      /\ \A k \in DOMAIN calls' : k = 1 \/ k = 2 \/ (k - 2 \in DOMAIN calls
                                                 /\ calls'[k] = calls[k - 2])
  BY <1>1, <1>3, CallsGrow
<1>5. \A k \in DOMAIN calls : right < calls[k][1] /\ calls[k][1] \in Int
  BY <1>1, RowTypes DEF SortInv, RangesApart
<1>6. Positions' = Positions /\ low \in Positions
  BY <1>1, <1>2 DEF Positions
<1>7. Unplaced' \subseteq Unplaced
  <2> SUFFICES ASSUME NEW i \in Unplaced' PROVE i \in Unplaced
    OBVIOUS
  <2>1. i \in Positions /\ i \in Int
    BY <1>1, <1>6, RowTypes DEF Unplaced
  <2>2. PICK k \in DOMAIN calls' : calls'[k][1] <= i /\ i <= calls'[k][2]
    BY <1>1 DEF Unplaced
  <2>3. CASE k \in {1, 2}
    <3>1. left <= i /\ i <= right
      BY <1>2, <1>3, <1>4, <2>1, <2>2, <2>3
    <3> QED
      BY <1>1, <2>1, <3>1 DEF Unplaced
  <2>4. CASE k \notin {1, 2}
    <3>1. k - 2 \in DOMAIN calls /\ calls'[k] = calls[k - 2]
      BY <1>4, <2>4
    <3> QED
      BY <2>1, <2>2, <3>1 DEF Unplaced
  <2> QED
    BY <2>3, <2>4
<1>8. low \in Unplaced
  BY <1>1, <1>2, <1>6 DEF Unplaced
<1>9. low \notin Unplaced'
  <2> SUFFICES ASSUME NEW k \in DOMAIN calls', calls'[k][1] <= low, low <= calls'[k][2]
               PROVE  FALSE
    BY <1>1 DEF Unplaced
  <2>1. CASE k \in {1, 2}
    BY <1>2, <1>3, <1>4, <2>1
  <2>2. CASE k \notin {1, 2}
    <3>1. right < calls'[k][1] /\ calls'[k][1] \in Int
      BY <1>4, <1>5, <2>2
    <3> QED
      BY <1>2, <3>1
  <2> QED
    BY <2>1, <2>2
<1> QED
  BY <1>7, <1>8, <1>9 DEF Shrinks

(* The last step changes nothing but where the sort is.                    *)
LEMMA ReturnShrinks ==
    ASSUME SortInv, Return
    PROVE  Shrinks
<1>1. pc = "call" /\ pc' = "done" /\ given' = given /\ calls' = calls
  BY DEF Return
<1>2. Unplaced' = Unplaced /\ ScanWork' = ScanWork
  BY <1>1 DEF Unplaced, Positions, Partitioning, ScanWork
<1> QED
  BY <1>1, <1>2 DEF Shrinks

(* No step of the sort is taken in vain, whatever the scores, equal ones   *)
(* too: each puts a score in its place, or takes a range off the stack, or *)
(* brings the scans closer, and what they count is finite: the sort cannot *)
(* go on for ever (postprocess.cpp:148-167).                               *)
THEOREM SortShrinks == Spec => EveryStepShrinks
<1>1. SortInv /\ [Next]_vars => [Shrinks]_vars
  BY CallShrinks, ScanHighShrinks, ScanLowShrinks, PlaceShrinks, ReturnShrinks DEF Next
<1>2. (ScanWork \in Nat /\ Len(calls) \in Nat)' <=> ScanWork' \in Nat /\ Len(calls') \in Nat
  OBVIOUS
<1>3. SortInv' => ScanWork' \in Nat /\ Len(calls') \in Nat
  BY WorkIsNatural, <1>2, PTL
<1>4. SortInv /\ SortInv' /\ [Next]_vars
      => [Shrinks /\ ScanWork' \in Nat /\ Len(calls') \in Nat]_vars
  BY <1>1, <1>3
<1> QED
  BY Invariance, <1>4, PTL DEF Spec, EveryStepShrinks
=============================================================================
