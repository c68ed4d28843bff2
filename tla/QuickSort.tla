------------------------------ MODULE QuickSort ------------------------------
(***************************************************************************)
(* quick_sort_indice_inverse: sorts `input' downwards in place and         *)
(* permutes `indices' along with it.  The calls it makes of itself are a   *)
(* stack of ranges still to be sorted.  Positions start at 1.              *)
(***************************************************************************)
EXTENDS DescendingOrder

CONSTANTS
    Values,   \* the scores, integers
    MaxLen    \* bound on the number of candidates

ASSUME ValuesAssumption == Values \subseteq Nat /\ MaxLen \in Nat \ {0}

VARIABLES
    given,            \* the values as they were handed over
    input, indices,   \* the two arrays
    calls,            \* ranges <<left, right>> to be sorted, the next one first
    pc, left, right, low, high, key, key_index

locals == <<left, right, low, high, key, key_index>>
vars == <<given, input, indices, calls, pc, locals>>

(* post_process hands over the scores with the indices in their order.     *)
Init ==
    /\ \E n \in 1..MaxLen : given \in [1..n -> Values]
    /\ input = given
    /\ indices = [i \in 1..Len(given) |-> i]
    /\ calls = <<(<<1, Len(given)>>)>>
    /\ pc = "call"
    /\ left = 1 /\ right = 1 /\ low = 1 /\ high = 1 /\ key = 0 /\ key_index = 1

(* Enter the next call; a range of one or none is left alone.              *)
Call ==
    /\ pc = "call" /\ calls # <<>>
    /\ left' = Head(calls)[1] /\ right' = Head(calls)[2]
    /\ low' = left' /\ high' = right'
    /\ calls' = Tail(calls)
    /\ IF left' < right'
          THEN key' = input[left'] /\ key_index' = indices[left'] /\ pc' = "high"
          ELSE UNCHANGED <<key, key_index, pc>>
    /\ UNCHANGED <<given, input, indices>>

(* Mutant: the index stays behind.                                         *)
ScanHighValueOnly ==
    /\ pc = "high"
    /\ IF low < high /\ input[high] <= key
          THEN high' = high - 1 /\ UNCHANGED <<input, indices, pc>>
          ELSE /\ input' = [input EXCEPT ![low] = input[high]]
               /\ pc' = "low"
               /\ UNCHANGED <<high, indices>>
    /\ UNCHANGED <<given, calls, left, right, low, key, key_index>>

(* From the right: the first value above the key goes into the hole at low.*)
ScanHigh ==
    /\ pc = "high"
    /\ IF low < high /\ input[high] <= key
          THEN high' = high - 1 /\ UNCHANGED <<input, indices, pc>>
          ELSE /\ input' = [input EXCEPT ![low] = input[high]]
               /\ indices' = [indices EXCEPT ![low] = indices[high]]
               /\ pc' = "low"
               /\ UNCHANGED high
    /\ UNCHANGED <<given, calls, left, right, low, key, key_index>>

(* Mutant: the partition goes on while low <= high.                        *)
ScanLowUntilCrossed ==
    /\ pc = "low"
    /\ IF low < high /\ input[low] >= key
          THEN low' = low + 1 /\ UNCHANGED <<input, indices, pc>>
          ELSE /\ input' = [input EXCEPT ![high] = input[low]]
               /\ indices' = [indices EXCEPT ![high] = indices[low]]
               /\ pc' = IF low <= high THEN "high" ELSE "place"
               /\ UNCHANGED low
    /\ UNCHANGED <<given, calls, left, right, high, key, key_index>>

(* From the left: the first value below the key goes into the hole at high.*)
ScanLow ==
    /\ pc = "low"
    /\ IF low < high /\ input[low] >= key
          THEN low' = low + 1 /\ UNCHANGED <<input, indices, pc>>
          ELSE /\ input' = [input EXCEPT ![high] = input[low]]
               /\ indices' = [indices EXCEPT ![high] = indices[low]]
               /\ pc' = IF low < high THEN "high" ELSE "place"
               /\ UNCHANGED low
    /\ UNCHANGED <<given, calls, left, right, high, key, key_index>>

(* Mutant: the right part keeps its last position out.                     *)
PlaceShortRight ==
    /\ pc = "place"
    /\ input' = [input EXCEPT ![low] = key]
    /\ indices' = [indices EXCEPT ![low] = key_index]
    /\ calls' = <<(<<left, low - 1>>), (<<low + 1, right - 1>>)>> \o calls
    /\ pc' = "call"
    /\ UNCHANGED <<given, locals>>

(* The key goes where the scans met, the two sides are sorted in turn.     *)
Place ==
    /\ pc = "place"
    /\ input' = [input EXCEPT ![low] = key]
    /\ indices' = [indices EXCEPT ![low] = key_index]
    /\ calls' = <<(<<left, low - 1>>), (<<low + 1, right>>)>> \o calls
    /\ pc' = "call"
    /\ UNCHANGED <<given, locals>>

Return ==
    /\ pc = "call" /\ calls = <<>>
    /\ pc' = "done"
    /\ UNCHANGED <<given, input, indices, calls, locals>>

Next == Call \/ ScanHigh \/ ScanLow \/ Place \/ Return

Spec == Init /\ [][Next]_vars
FairSpec == Spec /\ WF_vars(Next)

-----------------------------------------------------------------------------
Positions == 1..Len(given)

(* Every variable has its type; the scans stay inside the range they sort, *)
(* and the ranges inside the arrays (postprocess.cpp:149-167).             *)
TypeOK ==
    /\ DOMAIN input = Positions /\ DOMAIN indices = Positions
    /\ pc \in {"call", "high", "low", "place", "done"}
    /\ \A k \in DOMAIN calls :
          calls[k] \in (1..(Len(given) + 1)) \X (0..Len(given))
    /\ pc \in {"high", "low", "place"} =>
          left <= low /\ low <= high /\ high <= right /\ right \in Positions

(* Where the key was taken from and not put back yet, if anywhere.         *)
Hole == CASE pc = "high" -> low [] pc = "low" -> high [] pc = "place" -> low [] OTHER -> 0

(* With the key put back, the values are those given, each still beside    *)
(* its index: post_process reads the score of row i from the one array and *)
(* the box and the class from the other (postprocess.cpp:629-643).         *)
PairsTogether ==
    LET full == [i \in Positions |-> IF i = Hole THEN key_index ELSE indices[i]]
    IN  /\ IsPermutation(full, given)
        /\ \A i \in Positions :
              (IF i = Hole THEN key ELSE input[i]) = given[full[i]]

(* The sort implements the abstract one: it ends with the indices in a     *)
(* descending order of the values given (postprocess.cpp:139-170).         *)
Abstract == INSTANCE DescendingSort WITH
    order <- IF pc = "done" THEN indices ELSE <<>>
ImplementsSort == Abstract!Spec

(* The sort ends, also on equal values.                                    *)
SortEnds == <>(pc = "done")
=============================================================================
