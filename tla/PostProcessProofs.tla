-------------------------- MODULE PostProcessProofs --------------------------
(***************************************************************************)
(* Proofs about post_process, for any cells, distances, pictures, classes, *)
(* quantisation and number of results.  Sort is taken by what it promises: *)
(* a descending order of the scores.                                       *)
(***************************************************************************)
EXTENDS PostProcessInv, SequenceTheorems, WellFoundedInduction, TLAPS

(* A function on 1..n is a sequence of length n.                           *)
LEMMA FunctionIsSeq ==
    ASSUME NEW S, NEW n \in Nat, NEW f \in [1..n -> S]
    PROVE  f \in Seq(S) /\ Len(f) = n
<1>1. f \in Seq(S)
  BY SeqDef
<1>2. DOMAIN f = 1..Len(f) /\ Len(f) \in Nat
  BY <1>1, LenProperties
<1>3. DOMAIN f = 1..n
  OBVIOUS
<1> QED
  BY <1>1, <1>2, <1>3

(* The scores are a sequence as long as the candidates.                    *)
LEMMA ScoresLength ==
    ASSUME cands \in Seq(Candidate)
    PROVE  /\ Len(cands) \in Nat /\ DOMAIN cands = 1..Len(cands)
           /\ DOMAIN ScoresOf = 1..Len(cands)
           /\ ScoresOf \in Seq({cands[n].score : n \in 1..Len(cands)})
           /\ Len(ScoresOf) = Len(cands)
<1>1. Len(cands) \in Nat /\ DOMAIN cands = 1..Len(cands)
  OBVIOUS
<1>2. ScoresOf = [n \in 1..Len(cands) |-> cands[n].score]
  BY <1>1 DEF ScoresOf
<1>3. ScoresOf \in [1..Len(cands) -> {cands[n].score : n \in 1..Len(cands)}]
  BY <1>2
<1>4. DOMAIN ScoresOf = 1..Len(cands)
  BY <1>2
<1> QED
  BY <1>1, <1>3, <1>4, FunctionIsSeq

-----------------------------------------------------------------------------
(* A quotient is below b when the dividend is below b times the divisor.   *)
LEMMA QuotientBelow ==
    ASSUME NEW a \in Nat, NEW b \in Nat, NEW n \in Nat \ {0}, a < b * n
    PROVE  a \div n \in Nat /\ a \div n < b
<1> DEFINE q == a \div n
<1>1. q \in Nat /\ n * q <= a
  OBVIOUS
<1> HIDE DEF q
<1>2. ASSUME q >= b PROVE FALSE
  <2>1. q - b \in Nat
    BY <1>1, <1>2
  <2>2. n * (q - b) \in Nat
    BY <2>1
  <2>3. n * q = n * (q - b) + n * b /\ n * b = b * n
    BY <1>1
  <2> QED
    BY <1>1, <2>2, <2>3
<1> QED
  BY <1>1, <1>2 DEF q

(* Division does not change the order.                                     *)
LEMMA QuotientMonotone ==
    ASSUME NEW a \in Nat, NEW b \in Nat, NEW n \in Nat \ {0}, a <= b
    PROVE  a \div n \in Nat /\ b \div n \in Nat /\ a \div n <= b \div n
<1> DEFINE q == b \div n
<1>1. q \in Nat /\ b < n * q + n
  OBVIOUS
<1> HIDE DEF q
<1>2. n * q + n = (q + 1) * n
  BY <1>1
<1>3. a < (q + 1) * n /\ q + 1 \in Nat
  BY <1>1, <1>2
<1>4. a \div n \in Nat /\ a \div n < q + 1
  BY <1>3, QuotientBelow
<1> QED
  BY <1>1, <1>4 DEF q

(* One axis of a detection: its edges in the picture are in order, and the *)
(* near one inside, when the centre is in the part the picture covers.     *)
LEMMA EdgesInPicture ==
    ASSUME NEW size \in Nat \ {0}, NEW num \in Nat \ {0}, NEW den \in Nat \ {0},
           NEW limit \in Nat, NEW pad \in Int, NEW lo \in Nat, NEW hi \in Nat,
           NEW c \in pad..(pad + (size * num) \div den - 1)
    PROVE  LET near == (Least(Most((c - lo) - pad, 0), limit) * den) \div num
               far  == (Least(Most(((c - lo) - pad) + (lo + hi), 0), limit) * den) \div num
           IN  near \in Nat /\ far \in Nat /\ near <= far /\ near < size
<1> DEFINE a == Least(Most((c - lo) - pad, 0), limit)
           b == Least(Most(((c - lo) - pad) + (lo + hi), 0), limit)
           n == (size * num) \div den
<1>1. n \in Nat /\ den * n <= size * num /\ size * num \in Nat
  <2>1. size * num \in Nat
    OBVIOUS
  <2> DEFINE p == size * num
  <2>2. p \in Nat
    BY <2>1
  <2> HIDE DEF p
  <2>3. p \div den \in Nat /\ den * (p \div den) <= p
    BY <2>2
  <2> QED
    BY <2>1, <2>3 DEF p
<1> HIDE DEF n
<1>2. c \in Int /\ pad <= c /\ c <= pad + n - 1
  BY <1>1 DEF n
<1>3. a \in Nat /\ b \in Nat /\ a <= b /\ a <= n - 1
  BY <1>1, <1>2 DEF Least, Most
<1> HIDE DEF a, b
<1>4. a * den \in Nat /\ b * den \in Nat /\ a * den <= b * den
  <2>1. (b - a) * den \in Nat
    BY <1>3
  <2>2. b * den = a * den + (b - a) * den
    BY <1>3
  <2> QED
    BY <1>3, <2>1, <2>2
<1>5. a * den < size * num
  <2>1. (n - 1 - a) * den \in Nat
    BY <1>1, <1>3
  <2>2. den * n = a * den + (n - 1 - a) * den + den
    BY <1>1, <1>3
  <2> QED
    BY <1>1, <1>4, <2>1, <2>2
<1>6. (a * den) \div num \in Nat /\ (a * den) \div num < size
  BY <1>4, <1>5, QuotientBelow
<1>7. (b * den) \div num \in Nat /\ (a * den) \div num <= (b * den) \div num
  BY <1>4, QuotientMonotone
<1> QED
  BY <1>6, <1>7 DEF a, b

(* The scale is a fraction, the padding a number of columns and rows.      *)
LEMMA LetterboxType ==
    ASSUME picture \in Pictures
    PROVE  /\ Scale.num \in Nat \ {0} /\ Scale.den \in Nat \ {0}
           /\ XPad \in Int /\ YPad \in Int
           /\ picture.w \in Nat \ {0} /\ picture.h \in Nat \ {0}
<1>1. /\ picture.w \in Nat \ {0} /\ picture.h \in Nat \ {0}
      /\ ModelW \in Nat \ {0} /\ ModelH \in Nat \ {0}
  BY SizesAssumption
<1>2. Scale.num \in Nat \ {0} /\ Scale.den \in Nat \ {0}
  BY <1>1 DEF Scale
<1>3. ASSUME NEW m \in Nat, NEW size \in Nat, NEW num \in Nat, NEW den \in Nat \ {0}
      PROVE  (m - (size * num) \div den) \div 2 \in Int
  <2> DEFINE p == size * num
  <2>1. p \in Nat
    OBVIOUS
  <2> HIDE DEF p
  <2>2. p \div den \in Int
    BY <2>1
  <2> DEFINE q == p \div den
  <2>3. q \in Int
    BY <2>2
  <2> HIDE DEF q
  <2>4. (m - q) \div 2 \in Int
    BY <2>3
  <2> QED
    BY <2>4 DEF p, q
<1>4. XPad \in Int
  BY <1>1, <1>2, <1>3 DEF XPad
<1>5. YPad \in Int
  BY <1>1, <1>2, <1>3 DEF YPad
<1> QED
  BY <1>1, <1>2, <1>4, <1>5

(* The box of a cell of the network's output.                              *)
LEMMA BoxType ==
    ASSUME NEW c \in 1..Len(Cells), NEW d \in Distances
    PROVE  /\ Centre(Cells[c]).x \in Int /\ Centre(Cells[c]).y \in Int
           /\ BoxAround(Cells[c], d) \in Box
<1>1. Cells[c] \in [i : Nat, j : Nat, stride : Nat]
  <2> DEFINE R == [i : Nat, j : Nat, stride : Nat]
  <2>1. Cells \in Seq(R)
    BY CellsAssumption
  <2> HIDE DEF R
  <2>2. Cells[c] \in R
    BY <2>1, ElementOfSeq
  <2> QED
    BY <2>2 DEF R
<1>2. Centre(Cells[c]).x \in Int /\ Centre(Cells[c]).y \in Int
  BY <1>1 DEF Centre
<1>3. d \in [left : Nat, top : Nat, right : Nat, bottom : Nat]
  BY SizesAssumption
<1> QED
  BY <1>2, <1>3 DEF BoxAround, Box

(* A coordinate of the decoded picture.                                    *)
LEMMA UnscaledType ==
    ASSUME picture \in Pictures, NEW v \in Int, NEW limit \in Nat
    PROVE  Unscaled(v, limit) \in Nat
<1> DEFINE a == Least(Most(v, 0), limit)
<1>1. a \in Nat
  BY DEF Least, Most
<1> HIDE DEF a
<1>2. Scale.num \in Nat \ {0} /\ Scale.den \in Nat \ {0}
  BY LetterboxType
<1>3. a * Scale.den \in Nat
  BY <1>1, <1>2
<1>4. (a * Scale.den) \div Scale.num \in Nat
  BY <1>2, <1>3, QuotientMonotone
<1> QED
  BY <1>4 DEF Unscaled, a

(* The result of a row that is left.                                       *)
LEMMA ResultType ==
    ASSUME picture \in Pictures, cands \in Seq(Candidate), NEW i \in Nat,
           order[i] \in 1..Len(cands), sorted[i] \in 1..Len(cands)
    PROVE  [row |-> i, det |-> Detection(i), rect |-> Rect(Detection(i))] \in Result
<1> DEFINE c == cands[order[i]]
           x == c.box.x - XPad
           y == c.box.y - YPad
<1>1. c \in Candidate /\ cands[sorted[i]] \in Candidate
  OBVIOUS
<1>2. /\ c.box.x \in Int /\ c.box.y \in Int /\ c.box.w \in Int /\ c.box.h \in Int
      /\ c.class \in FoundIds /\ cands[sorted[i]].score \in Scores
  BY <1>1 DEF Candidate, Box
<1>3. x \in Int /\ y \in Int /\ x + c.box.w \in Int /\ y + c.box.h \in Int
  <2>1. XPad \in Int /\ YPad \in Int
    BY LetterboxType
  <2> HIDE DEF c
  <2>2. c.box.x - XPad \in Int /\ c.box.y - YPad \in Int
    BY <1>2, <2>1
  <2> HIDE DEF x, y
  <2>3. x \in Int /\ y \in Int
    BY <2>2 DEF x, y
  <2> QED
    BY <1>2, <2>3
<1> HIDE DEF c, x, y
<1>4. ModelW \in Nat /\ ModelH \in Nat
  BY SizesAssumption
<1>5. \A v \in Int, limit \in Nat : Unscaled(v, limit) \in Int
  <2>1. \A v \in Int, limit \in Nat : Unscaled(v, limit) \in Nat
    BY UnscaledType
  <2> QED
    BY <2>1
<1>6. /\ Unscaled(x, ModelW) \in Int /\ Unscaled(y, ModelH) \in Int
      /\ Unscaled(x + c.box.w, ModelW) \in Int /\ Unscaled(y + c.box.h, ModelH) \in Int
  BY <1>3, <1>4, <1>5
<1>7. Detection(i) = [left |-> Unscaled(x, ModelW), top |-> Unscaled(y, ModelH),
                      right |-> Unscaled(x + c.box.w, ModelW),
                      bottom |-> Unscaled(y + c.box.h, ModelH),
                      prop |-> cands[sorted[i]].score, cls_id |-> c.class]
  BY DEF Detection, c, x, y
<1>8. Detection(i) \in [left : Int, top : Int, right : Int, bottom : Int,
                        prop : Scores, cls_id : FoundIds]
  BY <1>2, <1>6, <1>7
<1>9. \A d \in [left : Int, top : Int, right : Int, bottom : Int,
                prop : Scores, cls_id : FoundIds] : Rect(d) \in Box
  <2>1. picture.w \in Int /\ picture.h \in Int
    BY LetterboxType
  <2>2. SUFFICES ASSUME NEW l \in Int, NEW t \in Int, NEW r \in Int, NEW b \in Int,
                        NEW d, d.left = l, d.top = t, d.right = r, d.bottom = b
                 PROVE  Rect(d) \in Box
    OBVIOUS
  <2>3. /\ Most(0, l) \in Int /\ Most(0, t) \in Int
        /\ Least(r, picture.w - 1) - Most(0, l) + 1 \in Int
        /\ Least(b, picture.h - 1) - Most(0, t) + 1 \in Int
    <3>1. \A u, v \in Int : Least(u, v) \in Int /\ Most(0, u) \in Int
      BY DEF Least, Most
    <3>2. picture.w - 1 \in Int /\ picture.h - 1 \in Int
      BY <2>1
    <3>3. /\ Most(0, l) \in Int /\ Most(0, t) \in Int
          /\ Least(r, picture.w - 1) \in Int /\ Least(b, picture.h - 1) \in Int
      BY <3>1, <3>2
    <3> QED
      BY <3>3
  <2> QED
    BY <2>2, <2>3 DEF Rect, Box
<1> QED
  BY <1>8, <1>9 DEF Result

-----------------------------------------------------------------------------
(* What the loop over the classes has found before class c, by its         *)
(* recursive equation.                                                     *)
BestBefore(scores, N, f) ==
    f = [c \in 0..N |->
            IF c = 0 THEN [score |-> Start, class |-> -1]
            ELSE IF scores[c - 1] > Thres /\ scores[c - 1] > f[c - 1].score
                 THEN [score |-> scores[c - 1], class |-> c - 1]
                 ELSE f[c - 1]]

(* The equation, pointwise.                                                *)
LEMMA BestBeforeValues ==
    ASSUME NEW scores, NEW N \in Nat, NEW f
    PROVE  BestBefore(scores, N, f) <=>
              /\ f = [c \in 0..N |-> f[c]]
              /\ f[0] = [score |-> Start, class |-> -1]
              /\ \A c \in 1..N :
                    f[c] = IF scores[c - 1] > Thres /\ scores[c - 1] > f[c - 1].score
                           THEN [score |-> scores[c - 1], class |-> c - 1]
                           ELSE f[c - 1]
<1> DEFINE e(c) == IF c = 0 THEN [score |-> Start, class |-> -1]
                   ELSE IF scores[c - 1] > Thres /\ scores[c - 1] > f[c - 1].score
                        THEN [score |-> scores[c - 1], class |-> c - 1]
                        ELSE f[c - 1]
<1>1. BestBefore(scores, N, f) <=> f = [c \in 0..N |-> e(c)]
  BY DEF BestBefore
<1>2. /\ e(0) = [score |-> Start, class |-> -1]
      /\ \A c \in 1..N :
            e(c) = IF scores[c - 1] > Thres /\ scores[c - 1] > f[c - 1].score
                   THEN [score |-> scores[c - 1], class |-> c - 1]
                   ELSE f[c - 1]
  OBVIOUS
<1>3. 0..N = {0} \cup 1..N
  OBVIOUS
<1> HIDE DEF e
<1>4. f = [c \in 0..N |-> e(c)] <=>
         f = [c \in 0..N |-> f[c]] /\ \A c \in 0..N : f[c] = e(c)
  OBVIOUS
<1>5. (\A c \in 0..N : f[c] = e(c)) <=> f[0] = e(0) /\ \A c \in 1..N : f[c] = e(c)
  BY <1>3
<1> QED
  BY <1>1, <1>2, <1>4, <1>5

(* A set of numbers that is not empty has a least one.                     *)
LEMMA LeastExists ==
    ASSUME NEW S, S \subseteq Nat, S # {}
    PROVE  \E x \in S : \A y \in S : ~ (y < x)
<1>1. \E x \in S : \A y \in S : ~ (<<y, x>> \in OpToRel(<, Nat))
  BY NatLessThanWellFounded, WFMin
<1>2. PICK x \in S : \A y \in S : ~ (<<y, x>> \in OpToRel(<, Nat))
  BY <1>1
<1>3. \A y \in S : ~ (y < x)
  BY <1>2 DEF OpToRel
<1> QED
  BY <1>3

(* Induction over numbers, for a set.                                      *)
LEMMA SetInduction ==
    ASSUME NEW S, 0 \in S, \A n \in Nat : n \in S => n + 1 \in S
    PROVE  Nat \subseteq S
<1>1. SUFFICES ASSUME Nat \ S # {} PROVE FALSE
  OBVIOUS
<1>2. PICK x \in Nat \ S : \A y \in Nat \ S : ~ (y < x)
  BY <1>1, LeastExists
<1>3. x \in Nat /\ x # 0
  BY <1>2
<1>4. x - 1 \in Nat /\ x - 1 < x /\ (x - 1) + 1 = x
  BY <1>3
<1>5. x - 1 \in S
  BY <1>2, <1>4
<1> QED
  BY <1>2, <1>4, <1>5

(* The loop has a result for any number of classes.                        *)
LEMMA BestExists ==
    ASSUME NEW scores
    PROVE  \A N \in Nat : \E f : BestBefore(scores, N, f)
<1> DEFINE S == {N \in Nat : \E f : BestBefore(scores, N, f)}
<1>1. 0 \in S
  <2> DEFINE g == [c \in 0..0 |-> [score |-> Start, class |-> -1]]
  <2>1. g = [c \in 0..0 |-> g[c]] /\ g[0] = [score |-> Start, class |-> -1]
    OBVIOUS
  <2> HIDE DEF g
  <2>2. 0 \in Nat /\ 1..0 = {}
    OBVIOUS
  <2>3. BestBefore(scores, 0, g)
    BY <2>1, <2>2, BestBeforeValues
  <2> QED
    BY <2>2, <2>3
<1>2. ASSUME NEW n \in Nat, n \in S PROVE n + 1 \in S
  <2>1. PICK f : BestBefore(scores, n, f)
    BY <1>2
  <2> DEFINE step == IF scores[n] > Thres /\ scores[n] > f[n].score
                        THEN [score |-> scores[n], class |-> n] ELSE f[n]
             g == [c \in 0..(n + 1) |-> IF c = n + 1 THEN step ELSE f[c]]
  <2>2. /\ f[0] = [score |-> Start, class |-> -1]
        /\ \A c \in 1..n :
              f[c] = IF scores[c - 1] > Thres /\ scores[c - 1] > f[c - 1].score
                     THEN [score |-> scores[c - 1], class |-> c - 1]
                     ELSE f[c - 1]
    BY <2>1, BestBeforeValues
  <2>3. g = [c \in 0..(n + 1) |-> g[c]]
    OBVIOUS
  <2>4. g[n + 1] = step /\ \A c \in 0..n : g[c] = f[c]
    OBVIOUS
  <2>5. step = IF scores[n] > Thres /\ scores[n] > f[n].score
                        THEN [score |-> scores[n], class |-> n] ELSE f[n]
    OBVIOUS
  <2> HIDE DEF g, step
  <2>6. g[0] = [score |-> Start, class |-> -1]
    BY <2>2, <2>4
  <2>7. ASSUME NEW c \in 1..(n + 1)
        PROVE  g[c] = IF scores[c - 1] > Thres /\ scores[c - 1] > g[c - 1].score
                      THEN [score |-> scores[c - 1], class |-> c - 1]
                      ELSE g[c - 1]
    <3>1. CASE c = n + 1
      <4>1. g[c] = step /\ c - 1 = n /\ g[n] = f[n]
        BY <3>1, <2>4
      <4> QED
        BY <4>1, <2>5
    <3>2. CASE c \in 1..n
      <4>1. g[c] = f[c] /\ g[c - 1] = f[c - 1]
        BY <3>2, <2>4
      <4> QED
        BY <4>1, <3>2, <2>2
    <3> QED
      BY <3>1, <3>2
  <2>8. n + 1 \in Nat
    OBVIOUS
  <2>9. BestBefore(scores, n + 1, g)
    BY <2>3, <2>6, <2>7, <2>8, BestBeforeValues
  <2> QED
    BY <2>8, <2>9
<1> HIDE DEF S
<1>3. Nat \subseteq S
  BY <1>1, <1>2, SetInduction
<1> QED
  BY <1>3 DEF S

(* BestClass is the last value of a function that satisfies the equation.  *)
LEMMA BestClassUnfolds ==
    ASSUME NEW scores
    PROVE  \E f : BestBefore(scores, Classes, f) /\ BestClass(scores) = f[Classes]
<1> DEFINE f == CHOOSE g : BestBefore(scores, Classes, g)
<1>1. Classes \in Nat
  BY BoundAssumption
<1>2. BestBefore(scores, Classes, f)
  BY <1>1, BestExists
<1>3. BestClass(scores) = f[Classes]
  BY DEF BestClass, BestBefore
<1> QED
  BY <1>2, <1>3

(* b is what the loop should have found before class N: the start, or the  *)
(* first class with the best score, above the threshold and the start.     *)
BestOf(scores, N, b) ==
    \/ /\ b = [score |-> Start, class |-> -1]
       /\ \A d \in 0..(N - 1) : scores[d] <= Thres \/ scores[d] <= Start
    \/ /\ b.class \in 0..(N - 1) /\ b.score = scores[b.class]
       /\ b.score > Thres /\ b.score > Start
       /\ \A d \in 0..(N - 1) :
             scores[d] <= b.score /\ (scores[d] = b.score => b.class <= d)

(* Every quantisation gives a start and a threshold that are scores.       *)
LEMMA QuantType ==
    ASSUME quant \in Quants
    PROVE  Start \in Scores /\ Thres \in Scores
  BY QuantAssumption DEF Start, Thres

(* One turn of the loop over the classes.                                  *)
LEMMA BestOfStep ==
    ASSUME quant \in Quants, NEW N \in Nat, NEW scores, \A d \in 0..N : scores[d] \in Int,
           NEW b, BestOf(scores, N, b)
    PROVE  BestOf(scores, N + 1,
                  IF scores[N] > Thres /\ scores[N] > b.score
                  THEN [score |-> scores[N], class |-> N] ELSE b)
<1>1. Start \in Int /\ Thres \in Int
  BY QuantType DEF Scores
<1>2. 0..((N + 1) - 1) = 0..(N - 1) \cup {N} /\ N \in 0..N
  OBVIOUS
(* The class just seen is the best.                                        *)
<1> DEFINE c == [score |-> scores[N], class |-> N]
<1>3. c.score = scores[N] /\ c.class = N
  OBVIOUS
<1> HIDE DEF c
<1>4. ASSUME scores[N] > Thres, scores[N] > Start, scores[N] > b.score,
             \A d \in 0..((N + 1) - 1) :
                 scores[d] <= scores[N] /\ (scores[d] = scores[N] => N <= d)
      PROVE  BestOf(scores, N + 1,
                    IF scores[N] > Thres /\ scores[N] > b.score THEN c ELSE b)
  <2>1. BestOf(scores, N + 1, c)
    <3>1. N \in 0..((N + 1) - 1)
      OBVIOUS
    <3>2. /\ c.class \in 0..((N + 1) - 1) /\ c.score = scores[c.class]
          /\ c.score > Thres /\ c.score > Start
      BY <1>3, <1>4, <3>1
    <3>3. \A d \in 0..((N + 1) - 1) :
             scores[d] <= c.score /\ (scores[d] = c.score => c.class <= d)
      BY <1>3, <1>4
    <3> QED
      BY <3>2, <3>3 DEF BestOf
  <2> QED
    BY <2>1, <1>4
<1>5. CASE /\ b = [score |-> Start, class |-> -1]
           /\ \A d \in 0..(N - 1) : scores[d] <= Thres \/ scores[d] <= Start
  <2>1. b.score = Start
    BY <1>5
  <2>2. CASE scores[N] > Thres /\ scores[N] > Start
    <3>1. scores[N] > b.score
      BY <2>1, <2>2
    <3>2. \A d \in 0..((N + 1) - 1) :
                 scores[d] <= scores[N] /\ (scores[d] = scores[N] => N <= d)
      BY <1>1, <1>2, <1>5, <2>2
    <3> QED
      BY <2>2, <3>1, <3>2, <1>4 DEF c
  <2>3. CASE ~ (scores[N] > Thres /\ scores[N] > Start)
    <3>1. scores[N] <= Thres \/ scores[N] <= Start
      BY <1>1, <1>2, <2>3
    <3> QED
      BY <1>2, <1>5, <2>1, <2>3, <3>1 DEF BestOf
  <2> QED
    BY <2>2, <2>3
<1>6. CASE /\ b.class \in 0..(N - 1) /\ b.score = scores[b.class]
           /\ b.score > Thres /\ b.score > Start
           /\ \A d \in 0..(N - 1) :
                 scores[d] <= b.score /\ (scores[d] = b.score => b.class <= d)
  <2>1. b.score \in Int /\ scores[N] \in Int
    BY <1>2, <1>6
  <2>2. CASE scores[N] > b.score
    <3>1. scores[N] > Thres /\ scores[N] > Start
      BY <1>1, <1>6, <2>1, <2>2
    <3>2. \A d \in 0..((N + 1) - 1) :
                 scores[d] <= scores[N] /\ (scores[d] = scores[N] => N <= d)
      <4>1. \A d \in 0..(N - 1) : scores[d] < scores[N]
        BY <1>6, <2>1, <2>2
      <4> QED
        BY <1>2, <2>1, <4>1
    <3> QED
      BY <2>2, <3>1, <3>2, <1>4 DEF c
  <2>3. CASE ~ (scores[N] > b.score)
    <3>1. \A d \in 0..((N + 1) - 1) :
                 scores[d] <= b.score /\ (scores[d] = b.score => b.class <= d)
      BY <1>2, <1>6, <2>1, <2>3
    <3>2. b.class \in 0..((N + 1) - 1)
      BY <1>2, <1>6
    <3> QED
      BY <1>6, <2>3, <3>1, <3>2 DEF BestOf
  <2> QED
    BY <2>2, <2>3
<1> QED
  BY <1>5, <1>6 DEF BestOf

(* What the loop over the classes returns for any number of classes.       *)
LEMMA BestClassFinds ==
    ASSUME quant \in Quants, NEW scores \in [ClassIds -> Scores]
    PROVE  BestOf(scores, Classes, BestClass(scores))
<1>1. PICK f : BestBefore(scores, Classes, f) /\ BestClass(scores) = f[Classes]
  BY BestClassUnfolds
<1>2. Classes \in Nat /\ ClassIds = 0..(Classes - 1)
  BY BoundAssumption DEF ClassIds
<1>3. /\ f[0] = [score |-> Start, class |-> -1]
      /\ \A c \in 1..Classes :
            f[c] = IF scores[c - 1] > Thres /\ scores[c - 1] > f[c - 1].score
                   THEN [score |-> scores[c - 1], class |-> c - 1]
                   ELSE f[c - 1]
  BY <1>1, <1>2, BestBeforeValues
<1>4. \A d \in 0..(Classes - 1) : scores[d] \in Int
  BY <1>2 DEF Scores
<1> DEFINE S == {n \in Nat : n <= Classes => BestOf(scores, n, f[n])}
<1>5. 0 \in S
  <2>1. 0..(0 - 1) = {}
    OBVIOUS
  <2>2. BestOf(scores, 0, f[0])
    BY <1>3, <2>1 DEF BestOf
  <2> QED
    BY <2>2
<1>6. ASSUME NEW n \in Nat, n \in S PROVE n + 1 \in S
  <2>1. SUFFICES ASSUME n + 1 <= Classes PROVE BestOf(scores, n + 1, f[n + 1])
    OBVIOUS
  <2>2. BestOf(scores, n, f[n])
    BY <1>2, <1>6, <2>1
  <2>3. \A d \in 0..n : scores[d] \in Int
    BY <1>2, <1>4, <2>1
  <2>4. n + 1 \in 1..Classes /\ (n + 1) - 1 = n
    BY <1>2, <2>1
  <2>5. f[n + 1] = IF scores[n] > Thres /\ scores[n] > f[n].score
                   THEN [score |-> scores[n], class |-> n] ELSE f[n]
    BY <1>3, <2>4
  <2> QED
    BY <2>2, <2>3, <2>5, BestOfStep
<1> HIDE DEF S
<1>7. Nat \subseteq S
  BY <1>5, <1>6, SetInduction
<1>8. Classes \in S
  BY <1>2, <1>7
<1> QED
  BY <1>1, <1>2, <1>8 DEF S

-----------------------------------------------------------------------------
(* A step that leaves the cells and the candidates alone keeps what is     *)
(* known of them.                                                          *)
LEMMA NoLastCell == last' = None => BestOfCell'
  BY DEF BestOfCell

LEMMA CandidatesKept ==
    ASSUME UNCHANGED <<quant, cell, cands>>
    PROVE  /\ FromCells => FromCells'
           /\ BestOfCell /\ last' = last => BestOfCell'
<1>1. FromCells => FromCells'
  BY DEF FromCells
<1>2. ASSUME BestOfCell, last' = last PROVE BestOfCell'
  <2>1. Thres' = Thres /\ Start' = Start
    BY DEF Thres, Start
  <2>2. /\ {c \in ClassIds : last'[c] > Thres' /\ last'[c] > Start'}
              = {c \in ClassIds : last[c] > Thres /\ last[c] > Start}
        /\ {n \in DOMAIN cands' : cands'[n].cell = cell'}
              = {n \in DOMAIN cands : cands[n].cell = cell}
    BY <1>2, <2>1
  <2> QED
    BY <1>2, <2>1, <2>2 DEF BestOfCell
<1> QED
  BY <1>1, <1>2

(* As long as the loop over the results has not begun there are none.      *)
LEMMA NothingEmitted ==
    ASSUME out' = 0, results' = <<>>
    PROVE  ResultsInv'
<1>1. 1..Len(<<>>) = {} /\ 1..0 = {}
  OBVIOUS
<1> QED
  BY <1>1 DEF ResultsInv

(* No candidate, no row.                                                   *)
LEMMA InitInv == Init => PostInv
<1> SUFFICES ASSUME Init PROVE PostInv
  OBVIOUS
<1>1. /\ picture \in Pictures /\ quant \in Quants
      /\ phase = "collect" /\ cell = 0 /\ last = None
      /\ cands = <<>> /\ sorted = <<>> /\ order = <<>> /\ todo = {} /\ cls = 0
      /\ row = 1 /\ out = 0 /\ results = <<>>
  BY DEF Init
<1>2. TypeOK
  <2>1. cell \in 0..Len(Cells) /\ Len(cands) = 0 /\ Len(results) = 0
    BY <1>1, CellsAssumption
  <2>2. cls \in FoundIds
    BY <1>1, BoundAssumption DEF ClassIds, FoundIds
  <2>3. cands \in Seq(Candidate) /\ results \in Seq(Result)
    BY <1>1
  <2>4. sorted \in Seq(1..Len(cands)) /\ order \in Seq(Gone..Len(cands))
    BY <1>1
  <2>5. row \in 1..(Len(cands) + 1) /\ out \in 0..Len(cands) /\ Len(results) <= MaxResults
    BY <1>1, <2>1, BoundAssumption
  <2> QED
    BY <1>1, <2>1, <2>2, <2>3, <2>4, <2>5 DEF TypeOK
<1>3. Phases
  BY <1>1 DEF Phases
<1>4. FromCells /\ BestOfCell /\ NmsInv
  BY <1>1 DEF FromCells, BestOfCell, NmsInv
<1>5. ResultsInv
  <2>1. 1..Len(results) = {} /\ 1..out = {}
    BY <1>1
  <2> QED
    BY <2>1 DEF ResultsInv
<1> QED
  BY <1>2, <1>3, <1>4, <1>5 DEF PostInv

(* What BestOf says of a candidate's class and score.                      *)
LEMMA CandidateIsBest ==
    ASSUME quant \in Quants,
           NEW scores \in [ClassIds -> Scores], NEW b, b = BestClass(scores),
           NEW above, above = {c \in ClassIds : scores[c] > Thres /\ scores[c] > Start}
    PROVE  /\ above = {} => b.class = -1 /\ b.score = Start
           /\ above # {} =>
                 /\ b.class \in above /\ b.score = scores[b.class] /\ b.score > Thres
                 /\ \A c \in ClassIds : /\ scores[c] <= b.score
                                        /\ scores[c] = b.score => b.class <= c
           /\ b.class \in FoundIds /\ b.score \in Scores
<1>1. BestOf(scores, Classes, b)
  BY BestClassFinds
<1>2. /\ Start \in Int /\ Thres \in Int /\ Start \in Scores
      /\ \A c \in ClassIds : scores[c] \in Int
  BY QuantType DEF Scores
<1>3. CASE /\ b = [score |-> Start, class |-> -1]
           /\ \A d \in ClassIds : scores[d] <= Thres \/ scores[d] <= Start
  <2>1. b.score = Start /\ b.class = -1
    BY <1>3
  <2>2. above = {}
    BY <1>2, <1>3
  <2> QED
    BY <1>2, <2>1, <2>2 DEF FoundIds
<1>4. CASE /\ b.class \in ClassIds /\ b.score = scores[b.class]
           /\ b.score > Thres /\ b.score > Start
           /\ \A d \in ClassIds : scores[d] <= b.score /\ (scores[d] = b.score => b.class <= d)
  <2>1. b.class \in above
    BY <1>4
  <2> QED
    BY <1>4, <2>1 DEF FoundIds
<1> QED
  BY <1>1, <1>3, <1>4 DEF BestOf, ClassIds

(* A cell adds a candidate or none; there are no rows yet.                 *)
LEMMA ProcessCellPreserves ==
    ASSUME PostInv, ProcessCell
    PROVE  PostInv'
<1>1. TypeOK /\ Phases /\ FromCells /\ ResultsInv
  BY DEF PostInv
<1>2. /\ phase = "collect" /\ phase' = "collect" /\ cell' = cell + 1
      /\ cell' \in 1..Len(Cells) /\ cell \in Nat
      /\ UNCHANGED <<picture, quant, sorted, order, todo, cls, row, out, results>>
  BY <1>1, CellsAssumption DEF ProcessCell, nmsVars, TypeOK
<1>3. /\ order = <<>> /\ sorted = <<>> /\ out = 0 /\ results = <<>>
      /\ cands \in Seq(Candidate) /\ Len(cands) \in 0..cell
  BY <1>1, <1>2 DEF Phases, TypeOK, NmsDone
(* The candidates that were there are of earlier cells.                    *)
<1>4. \A n \in 1..Len(cands) :
        /\ cands[n].cell \in 1..cell' /\ cands[n].cell # cell'
        /\ \E d \in Distances : cands[n].box = BoxAround(Cells[cands[n].cell], d)
  BY <1>1, <1>2, <1>3 DEF FromCells
<1>5. /\ cands' \in Seq(Candidate) /\ Len(cands') \in Len(cands)..cell'
      /\ FromCells' /\ BestOfCell'
      /\ last' \in [ClassIds -> Scores] \cup {None}
  <2> quant \in Quants /\ Thres' = Thres /\ Start' = Start
    BY <1>1, <1>2 DEF TypeOK, Thres, Start
  <2>1. CASE last' = None /\ cands' = cands
    <3>1. FromCells'
      BY <1>3, <1>4, <2>1 DEF FromCells
    <3>2. BestOfCell'
      BY <2>1 DEF BestOfCell
    <3> QED
      BY <1>2, <1>3, <2>1, <3>1, <3>2
  <2>2. ASSUME NEW scores \in [ClassIds -> Scores], NEW d \in Distances,
               cands' = IF BestClass(scores).score > Thres
                           THEN Append(cands, [box |-> BoxAround(Cells[cell'], d),
                                               cell |-> cell',
                                               score |-> BestClass(scores).score,
                                               class |-> BestClass(scores).class])
                           ELSE cands,
               last' = scores
        PROVE  /\ cands' \in Seq(Candidate) /\ Len(cands') \in Len(cands)..cell'
               /\ FromCells' /\ BestOfCell'
    <3> DEFINE b == BestClass(scores)
               above == {c \in ClassIds : scores[c] > Thres /\ scores[c] > Start}
               cand == [box |-> BoxAround(Cells[cell'], d), cell |-> cell',
                        score |-> b.score, class |-> b.class]
    <3>1. /\ above = {} => b.class = -1 /\ b.score = Start
          /\ above # {} =>
                /\ b.class \in above /\ b.score = scores[b.class] /\ b.score > Thres
                /\ \A c \in ClassIds : /\ scores[c] <= b.score
                                       /\ scores[c] = b.score => b.class <= c
          /\ b.class \in FoundIds /\ b.score \in Scores
      BY CandidateIsBest
    <3>4. above = {c \in ClassIds : last'[c] > Thres' /\ last'[c] > Start'}
      BY <2>2
    <3>5. Start \in Int /\ Thres \in Int
      BY QuantType DEF Scores
    <3> HIDE DEF b, above
    <3>2. CASE b.score > Thres
      <4>1. cand \in Candidate
        BY <1>2, <3>1, <3>2, BoxType DEF Candidate
      <4>2. /\ cand.cell = cell' /\ cand.box = BoxAround(Cells[cell'], d)
            /\ cand.score = b.score /\ cand.class = b.class
        OBVIOUS
      <4>3. cands' = Append(cands, cand)
        BY <2>2, <3>2 DEF b
      <4> HIDE DEF cand
      <4>4. /\ cands' \in Seq(Candidate) /\ Len(cands') = Len(cands) + 1
            /\ cands'[Len(cands) + 1] = cand
            /\ \A n \in 1..Len(cands) : cands'[n] = cands[n]
        BY <1>3, <4>1, <4>3
      <4>5. FromCells'
        <5>1. ASSUME NEW n \in 1..Len(cands')
              PROVE  /\ cands'[n].cell \in 1..cell'
                     /\ \E e \in Distances :
                           cands'[n].box = BoxAround(Cells[cands'[n].cell], e)
          <6>1. CASE n = Len(cands) + 1
            BY <1>2, <4>2, <4>4, <6>1
          <6>2. CASE n \in 1..Len(cands)
            BY <1>4, <4>4, <6>2
          <6> QED
            BY <1>3, <4>4, <6>1, <6>2
        <5>2. DOMAIN cands' = 1..Len(cands')
          BY <4>4
        <5> QED
          BY <5>1, <5>2 DEF FromCells
      <4>6. BestOfCell'
        <5>1. {n \in DOMAIN cands' : cands'[n].cell = cell'} = {Len(cands) + 1}
          BY <1>3, <1>4, <4>2, <4>4
        <5>2. above = {} => ~ (Start <= Thres)
          BY <3>1, <3>2, <3>5
        <5> QED
          BY <2>2, <3>1, <3>4, <4>2, <4>4, <5>1, <5>2 DEF BestOfCell
      <4> QED
        BY <1>2, <1>3, <4>4, <4>5, <4>6
    <3>3. CASE ~ (b.score > Thres)
      <4>1. cands' = cands
        BY <2>2, <3>3 DEF b
      <4>2. FromCells'
        BY <1>3, <1>4, <4>1 DEF FromCells
      <4>3. BestOfCell'
        <5>1. {n \in DOMAIN cands' : cands'[n].cell = cell'} = {}
          BY <1>3, <1>4, <4>1
        <5>2. above = {} /\ Start <= Thres
          BY <3>1, <3>3, <3>5
        <5> QED
          BY <2>2, <3>4, <5>1, <5>2 DEF BestOfCell
      <4> QED
        BY <1>2, <1>3, <4>1, <4>2, <4>3
    <3> QED
      BY <3>2, <3>3
  <2> QED
    BY <2>1, <2>2 DEF ProcessCell
<1>6. TypeOK'
  <2>1. sorted' \in Seq(1..Len(cands')) /\ order' \in Seq(Gone..Len(cands'))
    BY <1>2, <1>3
  <2>2. row' \in 1..(Len(cands') + 1) /\ out' \in 0..Len(cands')
    BY <1>1, <1>2, <1>3, <1>5 DEF TypeOK
  <2>3. cell' \in 0..Len(Cells) /\ Len(cands') <= cell'
    BY <1>2, <1>3, <1>5, CellsAssumption
  <2> QED
    BY <1>1, <1>2, <1>5, <2>1, <2>2, <2>3 DEF TypeOK
<1>7. Phases' /\ NmsInv' /\ ResultsInv'
  BY <1>2, <1>3, NothingEmitted DEF Phases, NmsInv
<1> QED
  BY <1>5, <1>6, <1>7 DEF PostInv

(* After the sort every row is there and no class has been looked at.      *)
LEMMA SortPreserves ==
    ASSUME PostInv, Sort
    PROVE  PostInv'
<1>1. /\ TypeOK /\ Phases /\ FromCells
      /\ phase = "collect" /\ last' = None
      /\ UNCHANGED <<picture, quant, cell, cands, out, results>>
      /\ cands \in Seq(Candidate) /\ Len(cands) \in Nat
  BY DEF PostInv, TypeOK, Sort
<1>2. out = 0 /\ results = <<>>
  BY <1>1 DEF Phases, TypeOK, NmsDone
<1>3. FromCells' /\ BestOfCell' /\ ResultsInv'
  BY <1>1, <1>2, CandidatesKept, NoLastCell, NothingEmitted
<1>4. CASE cands = <<>>
  <2>1. phase' = "done" /\ UNCHANGED <<sorted, order, todo, cls, row>>
    BY <1>4 DEF Sort, nmsVars
  <2>2. TypeOK'
    BY <1>1, <2>1 DEF TypeOK
  <2>3. Phases' /\ NmsInv'
    BY <1>1, <1>2, <1>4, <2>1 DEF Phases, NmsInv
  <2> QED
    BY <1>3, <2>2, <2>3 DEF PostInv
<1>5. CASE cands # <<>>
  <2>1. /\ phase' = "nms" /\ order' = sorted' /\ cls' = cls
        /\ sorted' \in DescendingOrders(ScoresOf)
        /\ todo' = {cands[n].class : n \in DOMAIN cands}
        /\ row' = Len(cands) + 1
    BY <1>5 DEF Sort, ScoresOf
  <2>2. /\ sorted' \in [1..Len(cands) -> 1..Len(cands)]
        /\ Descends(sorted', ScoresOf)
    BY <2>1, <1>1, ScoresLength DEF DescendingOrders
  <2>3. ScoresOf' = ScoresOf
    BY <1>1 DEF ScoresOf
  <2>4. order' \in [1..Len(cands) -> Gone..Len(cands)]
    BY <2>1, <2>2, <1>1 DEF Gone
  <2>5. RowsSorted'
    BY <2>1, <2>2, <2>3, <2>4, <1>1 DEF RowsSorted
  <2>6. \A j \in 1..Len(cands) : order'[j] # Gone
    BY <2>1, <2>2, <1>1 DEF Gone
  <2>7. \A i \in 1..Len(cands) : ClassAt(i)' \in todo'
    BY <2>1, <2>2, <1>1 DEF ClassAt
  <2>8. LoopPosition'
    BY <2>1, <1>1 DEF LoopPosition
  <2>9. GoneForReason'
    BY <2>6, <1>1 DEF GoneForReason
  <2>10. PassedRowsApart'
    BY <2>7, <1>1 DEF PassedRowsApart, Passed
  <2>11. TypeOK'
    <3>1. sorted' \in Seq(1..Len(cands)) /\ order' \in Seq(Gone..Len(cands))
      BY <1>1, <2>2, <2>4, FunctionIsSeq
    <3>2. todo' \subseteq FoundIds
      <4>1. \A n \in 1..Len(cands) : cands[n] \in Candidate
        BY <1>1
      <4>2. \A n \in 1..Len(cands) : cands[n].class \in FoundIds
        BY <4>1 DEF Candidate
      <4> QED
        BY <1>1, <2>1, <4>2
    <3>3. row' \in 1..(Len(cands) + 1)
      BY <1>1, <2>1
    <3> QED
      BY <1>1, <2>1, <3>1, <3>2, <3>3 DEF TypeOK
  <2>12. Phases'
    <3>1. Len(cands) > 0
      BY <1>1, <1>5
    <3> QED
      BY <1>1, <1>2, <1>5, <2>1, <3>1 DEF Phases
  <2> QED
    BY <1>3, <2>5, <2>8, <2>9, <2>10, <2>11, <2>12 DEF PostInv, NmsInv
<1> QED
  BY <1>4, <1>5

(* Steps of nms leave the candidates and the sorted rows alone.            *)
LEMMA NmsFrame ==
    ASSUME PostInv, UNCHANGED <<cell, cands, sorted>>
    PROVE  /\ \A i \in 1..Len(cands) : ClassAt(i)' = ClassAt(i)
           /\ \A i, j \in 1..Len(cands) : Excludes(i, j)' <=> Excludes(i, j)
           /\ ScoresOf' = ScoresOf
           /\ Len(cands) \in Nat
<1>1. \A i : ClassAt(i)' = ClassAt(i)
  BY DEF ClassAt
<1>2. \A m, n : Overlaps(m, n)' <=> Overlaps(m, n)
  BY DEF Overlaps
<1>3. \A i, j : Excludes(i, j)' <=> Excludes(i, j)
  BY <1>1, <1>2 DEF Excludes
<1>4. ScoresOf' = ScoresOf
  BY DEF ScoresOf
<1>5. Len(cands) \in Nat
  BY DEF PostInv, TypeOK
<1> QED
  BY <1>1, <1>3, <1>4, <1>5

(* Going on to the next class passes no row.                               *)
LEMMA NextClassPreserves ==
    ASSUME PostInv, NextClass
    PROVE  PostInv'
<1>1. PICK c \in todo : cls' = c /\ todo' = todo \ {c}
  BY DEF NextClass
<1>2. /\ phase = "nms" /\ phase' = "nms" /\ row' = 1 /\ row > Len(cands)
      /\ UNCHANGED <<picture, quant, cell, last, cands, sorted, order, out, results>>
  BY DEF NextClass
<1>3. /\ TypeOK /\ Phases /\ FromCells /\ BestOfCell
      /\ RowsSorted /\ LoopPosition /\ GoneForReason /\ PassedRowsApart
  BY <1>2 DEF PostInv, NmsInv, Phases
<1>4. \A i \in 1..Len(cands) : Passed(i)' <=> Passed(i)
  <2>1. SUFFICES ASSUME NEW i \in 1..Len(cands) PROVE Passed(i)' <=> Passed(i)
    OBVIOUS
  <2>2. ClassAt(i)' = ClassAt(i) /\ ~ (i < 1) /\ i < row
    BY <1>2, <1>3, NmsFrame DEF LoopPosition, TypeOK
  <2> QED
    BY <1>1, <1>2, <2>2 DEF Passed
<1>5. GoneForReason'
  <2>1. SUFFICES ASSUME NEW j \in 1..Len(cands), order[j] = Gone
                 PROVE  \E i \in 1..(j - 1) :
                           Passed(i)' /\ order[i] # Gone /\ Excludes(i, j)'
    BY <1>2 DEF GoneForReason
  <2>2. PICK i \in 1..(j - 1) : Passed(i) /\ order[i] # Gone /\ Excludes(i, j)
    BY <1>3, <2>1 DEF GoneForReason
  <2>3. i \in 1..Len(cands)
    BY <1>2, NmsFrame
  <2> QED
    BY <2>2, <2>3, <1>4, <1>2, NmsFrame
<1>6. PassedRowsApart'
  BY <1>2, <1>3, <1>4, NmsFrame DEF PassedRowsApart
<1>7. RowsSorted'
  BY <1>2, <1>3, NmsFrame DEF RowsSorted
<1>8. LoopPosition'
  BY <1>1, <1>2, NmsFrame DEF LoopPosition
<1>9. out = 0 /\ results = <<>>
  BY <1>1, <1>2, <1>3 DEF Phases, TypeOK, NmsDone
<1>10. TypeOK'
  <2>1. todo' \subseteq FoundIds /\ cls' \in FoundIds /\ row' \in 1..(Len(cands) + 1)
    BY <1>1, <1>2, <1>3 DEF TypeOK
  <2> QED
    BY <1>2, <1>3, <2>1 DEF TypeOK
<1>11. Phases' /\ NmsInv' /\ ResultsInv'
  BY <1>2, <1>3, <1>5, <1>6, <1>7, <1>8, <1>9, NothingEmitted DEF Phases, NmsInv
<1>12. FromCells' /\ BestOfCell'
  BY <1>2, <1>3, CandidatesKept
<1> QED
  BY <1>10, <1>11, <1>12 DEF PostInv

(* The turn of one row: what it suppresses it overlaps, and what it leaves *)
(* of its class, further down, it does not.                                *)
LEMMA SuppressRowPreserves ==
    ASSUME PostInv, SuppressRow
    PROVE  PostInv'
<1>1. /\ phase = "nms" /\ phase' = "nms" /\ row <= Len(cands) /\ row' = row + 1
      /\ UNCHANGED <<picture, quant, cell, last, cands, sorted, todo, cls, out, results>>
  BY DEF SuppressRow
<1>2. /\ TypeOK /\ Phases /\ FromCells /\ BestOfCell
      /\ RowsSorted /\ LoopPosition /\ GoneForReason /\ PassedRowsApart
  BY <1>1 DEF PostInv, NmsInv, Phases
<1>3. /\ row \in 1..Len(cands) /\ Len(cands) \in Nat /\ cls \notin todo
      /\ \A j \in 1..Len(cands) : sorted[j] # Gone
  BY <1>1, <1>2, NmsFrame DEF TypeOK, LoopPosition, RowsSorted, Gone
(* What the turn does, in terms of rows.                                   *)
<1>4. /\ order' \in [1..Len(cands) -> Gone..Len(cands)]
      /\ \A j \in 1..Len(cands) :
            order'[j] = IF /\ order[row] # Gone /\ ClassAt(row) = cls
                           /\ j > row /\ order[j] # Gone
                           /\ ClassAt(j) = cls /\ Overlaps(sorted[row], sorted[j])
                        THEN Gone ELSE order[j]
  <2>1. /\ DOMAIN order = 1..Len(cands)
        /\ \A j \in 1..Len(cands) : order[j] # Gone => order[j] = sorted[j]
    BY <1>2 DEF RowsSorted
  <2>2. \A j \in 1..Len(cands) :
            order'[j] = IF /\ order[row] # Gone /\ cands[order[row]].class = cls
                           /\ j > row /\ order[j] # Gone
                           /\ cands[order[j]].class = cls
                           /\ Overlaps(order[row], order[j])
                        THEN Gone ELSE order[j]
    BY <2>1 DEF SuppressRow
  <2>3. DOMAIN order' = 1..Len(cands) /\ order' = [j \in 1..Len(cands) |-> order'[j]]
    BY <2>1 DEF SuppressRow
  <2>4. \A j \in 1..Len(cands) : order'[j] \in Gone..Len(cands)
    BY <2>2, <1>2, <1>3 DEF RowsSorted, Gone
  <2>5. order' \in [1..Len(cands) -> Gone..Len(cands)]
    BY <2>3, <2>4
  <2> QED
    BY <2>1, <2>2, <2>5, <1>3 DEF ClassAt
<1>5. \A i \in 1..Len(cands) :
        Passed(i)' <=> Passed(i) \/ (i = row /\ ClassAt(row) = cls)
  <2>1. SUFFICES ASSUME NEW i \in 1..Len(cands)
                 PROVE  Passed(i)' <=> Passed(i) \/ (i = row /\ ClassAt(row) = cls)
    OBVIOUS
  <2>2. ClassAt(i)' = ClassAt(i) /\ (i < row' <=> i < row \/ i = row)
    BY <1>1, <1>3, NmsFrame
  <2>3. CASE ClassAt(i) = cls
    BY <1>1, <1>3, <2>2, <2>3 DEF Passed
  <2>4. CASE ClassAt(i) # cls
    BY <1>1, <1>3, <2>2, <2>4 DEF Passed
  <2> QED
    BY <2>3, <2>4
(* A passed row is not touched.                                            *)
<1>6. \A i \in 1..Len(cands) : Passed(i)' => order'[i] = order[i]
  BY <1>3, <1>4, <1>5 DEF Passed
<1>7. GoneForReason'
  <2>1. SUFFICES ASSUME NEW j \in 1..Len(cands), order'[j] = Gone
                 PROVE  \E i \in 1..(j - 1) :
                           Passed(i)' /\ order'[i] # Gone /\ Excludes(i, j)'
    BY <1>1 DEF GoneForReason
  <2>2. CASE order[j] = Gone
    <3>1. PICK i \in 1..(j - 1) : Passed(i) /\ order[i] # Gone /\ Excludes(i, j)
      BY <1>2, <2>2 DEF GoneForReason
    <3>2. i \in 1..Len(cands)
      BY <1>3
    <3> QED
      BY <3>1, <3>2, <1>1, <1>5, <1>6, NmsFrame
  <2>3. CASE order[j] # Gone
    <3>1. PICK r \in 1..Len(cands) : r = row
      BY <1>3
    <3>2. /\ order[r] # Gone /\ ClassAt(r) = cls /\ r < j
          /\ ClassAt(j) = cls /\ Overlaps(sorted[r], sorted[j])
      BY <1>4, <2>1, <2>3, <1>3, <3>1
    <3>3. r \in 1..(j - 1)
      BY <3>2, <1>3
    <3>4. Passed(r)' /\ order'[r] # Gone
      BY <3>1, <3>2, <1>5, <1>6
    <3>5. Excludes(r, j)
      BY <3>2 DEF Excludes
    <3>6. Excludes(r, j)'
      BY <3>5, <1>1, NmsFrame
    <3> QED
      BY <3>3, <3>4, <3>6
  <2> QED
    BY <2>2, <2>3
<1>8. PassedRowsApart'
  <2>1. SUFFICES ASSUME NEW i \in 1..Len(cands), NEW j \in 1..Len(cands), i < j,
                        Passed(i)', order'[i] # Gone, order'[j] # Gone
                 PROVE  ~ Excludes(i, j)
    BY <1>1, NmsFrame DEF PassedRowsApart
  <2>2. order[i] # Gone /\ order[j] # Gone
    BY <2>1, <1>4
  <2>3. CASE Passed(i)
    BY <2>1, <2>2, <2>3, <1>2 DEF PassedRowsApart
  <2>4. CASE i = row /\ ClassAt(row) = cls
    BY <2>1, <2>2, <2>4, <1>4 DEF Excludes
  <2> QED
    BY <2>1, <2>3, <2>4, <1>5
<1>9. RowsSorted'
  BY <1>1, <1>2, <1>4, NmsFrame DEF RowsSorted
<1>10. LoopPosition'
  BY <1>1, <1>3 DEF LoopPosition
<1>11. out = 0 /\ results = <<>>
  BY <1>1, <1>2, <1>3 DEF Phases, TypeOK, NmsDone
<1>12. TypeOK'
  <2>1. order' \in Seq(Gone..Len(cands))
    BY <1>3, <1>4, FunctionIsSeq
  <2>2. row' \in 1..(Len(cands) + 1)
    BY <1>1, <1>3
  <2> QED
    BY <1>1, <1>2, <2>1, <2>2 DEF TypeOK
<1>13. Phases' /\ NmsInv' /\ ResultsInv'
  BY <1>1, <1>2, <1>7, <1>8, <1>9, <1>10, <1>11, NothingEmitted DEF Phases, NmsInv
<1>14. FromCells' /\ BestOfCell'
  BY <1>1, <1>2, CandidatesKept
<1> QED
  BY <1>12, <1>13, <1>14 DEF PostInv

(* What nms has achieved stays when its variables do.                      *)
LEMMA NmsKept ==
    ASSUME PostInv, RowsSorted, LoopPosition, GoneForReason, PassedRowsApart,
           UNCHANGED <<cell, cands, sorted, order, todo, cls, row>>,
           phase' = "done" => todo = {} /\ row > Len(cands)
    PROVE  RowsSorted' /\ LoopPosition' /\ GoneForReason' /\ PassedRowsApart'
<1>1. \A i \in 1..Len(cands) : Passed(i)' <=> Passed(i)
  BY NmsFrame DEF Passed
<1>2. GoneForReason'
  <2>1. SUFFICES ASSUME NEW j \in 1..Len(cands), order[j] = Gone
                 PROVE  \E i \in 1..(j - 1) :
                           Passed(i)' /\ order[i] # Gone /\ Excludes(i, j)'
    BY DEF GoneForReason
  <2>2. PICK i \in 1..(j - 1) : Passed(i) /\ order[i] # Gone /\ Excludes(i, j)
    BY <2>1 DEF GoneForReason
  <2>3. i \in 1..Len(cands)
    BY NmsFrame
  <2> QED
    BY <2>2, <2>3, <1>1, NmsFrame
<1>3. PassedRowsApart'
  BY <1>1, NmsFrame DEF PassedRowsApart
<1>4. RowsSorted' /\ LoopPosition'
  BY NmsFrame DEF RowsSorted, LoopPosition
<1> QED
  BY <1>2, <1>3, <1>4

(* The rows' results depend on the rows, the candidates and the picture.   *)
LEMMA DetectionsKept ==
    ASSUME UNCHANGED <<picture, quant, cands, sorted, order>>
    PROVE  /\ \A i : Detection(i)' = Detection(i)
           /\ \A d : Rect(d)' = Rect(d)
  BY DEF Detection, Rect, Unscaled, Scale, XPad, YPad

(* A row is passed: it becomes the next result, or is gone, or there is no *)
(* room.                                                                   *)
LEMMA EmitRowPreserves ==
    ASSUME PostInv, EmitRow
    PROVE  PostInv'
<1>1. /\ phase = "nms" /\ row > Len(cands) /\ todo = {} /\ out' = out + 1
      /\ phase' = IF out' = Len(cands) THEN "done" ELSE phase
      /\ UNCHANGED <<picture, quant, cell, last, cands, sorted, order, todo, cls, row>>
  BY DEF EmitRow, NmsDone, nmsVars
<1>2. /\ TypeOK /\ Phases /\ FromCells /\ BestOfCell /\ ResultsInv /\ cands # <<>>
      /\ RowsSorted /\ LoopPosition /\ GoneForReason /\ PassedRowsApart
  BY <1>1 DEF PostInv, NmsInv, Phases
<1>3. /\ cands \in Seq(Candidate) /\ Len(cands) \in Nat /\ out \in Nat /\ out < Len(cands)
      /\ out' \in 1..Len(cands) /\ results \in Seq(Result) /\ Len(results) \in Nat
      /\ Len(results) <= MaxResults /\ MaxResults \in Nat /\ phase' \in {"nms", "done"}
  BY <1>1, <1>2, BoundAssumption DEF TypeOK, Phases
<1>4. FromCells' /\ BestOfCell'
  BY <1>1, <1>2, CandidatesKept
<1>5. NmsInv'
  BY <1>1, <1>2, NmsKept DEF NmsInv
<1>6. \A i, d : Detection(i)' = Detection(i) /\ Rect(d)' = Rect(d)
  BY <1>1, DetectionsKept
<1> DEFINE Kept(k, f, o) ==
      /\ f[k].row \in 1..o /\ order[f[k].row] # Gone
      /\ f[k].det = Detection(f[k].row)
      /\ f[k].rect = Rect(f[k].det)
      /\ \A i \in 1..(f[k].row - 1) : order[i] # Gone =>
            \E m \in 1..(k - 1) : f[m].row = i
<1>7. /\ \A k \in 1..Len(results) : Kept(k, results, out)
      /\ Len(results) < MaxResults =>
            \A i \in 1..out : order[i] # Gone =>
               \E k \in 1..Len(results) : results[k].row = i
  BY <1>2 DEF ResultsInv
<1>8. /\ results' \in Seq(Result) /\ Len(results') <= MaxResults
      /\ \A k \in 1..Len(results') : Kept(k, results', out')
      /\ Len(results') < MaxResults =>
            \A i \in 1..out' : order[i] # Gone =>
               \E k \in 1..Len(results') : results'[k].row = i
  <2>1. CASE order[out'] # Gone /\ Len(results) < MaxResults
    <3> DEFINE new == [row |-> out', det |-> Detection(out'), rect |-> Rect(Detection(out'))]
    <3>1. results' = Append(results, new)
      BY <2>1 DEF EmitRow
    <3>2. new \in Result
      <4>1. order[out'] \in 1..Len(cands) /\ sorted[out'] \in 1..Len(cands)
        BY <1>2, <1>3, <2>1 DEF RowsSorted, Gone
      <4>2. picture \in Pictures /\ out' \in Nat
        BY <1>2, <1>3 DEF TypeOK
      <4> QED
        BY <1>3, <4>1, <4>2, ResultType
    <3>3. /\ new.row = out' /\ new.det = Detection(out') /\ new.rect = Rect(new.det)
      OBVIOUS
    <3> HIDE DEF new
    <3>4. /\ results' \in Seq(Result) /\ Len(results') = Len(results) + 1
          /\ results'[Len(results) + 1] = new
          /\ \A k \in 1..Len(results) : results'[k] = results[k]
      BY <1>3, <3>1, <3>2
    <3>5. ASSUME NEW k \in 1..Len(results) PROVE Kept(k, results', out')
      <4>1. Kept(k, results, out)
        BY <1>7
      <4>2. results'[k] = results[k] /\ \A m \in 1..(k - 1) : results'[m] = results[m]
        BY <1>3, <3>4
      <4>3. results'[k].row \in 1..out'
        BY <1>1, <1>3, <4>1, <4>2
      <4> QED
        BY <4>1, <4>2, <4>3
    <3>6. Kept(Len(results) + 1, results', out')
      <4>1. ASSUME NEW i \in 1..(out' - 1), order[i] # Gone
            PROVE  \E m \in 1..((Len(results) + 1) - 1) : results'[m].row = i
        <5>1. i \in 1..out
          BY <1>1, <1>3
        <5>2. PICK m \in 1..Len(results) : results[m].row = i
          BY <1>7, <2>1, <4>1, <5>1
        <5>3. m \in 1..((Len(results) + 1) - 1) /\ results'[m].row = i
          BY <1>3, <3>4, <5>2
        <5> QED
          BY <5>3
      <4>2. out' \in 1..out'
        BY <1>3
      <4> QED
        BY <2>1, <3>3, <3>4, <4>1, <4>2
    <3>7. \A k \in 1..Len(results') : Kept(k, results', out')
      <4>1. \A k \in 1..Len(results') : k \in 1..Len(results) \/ k = Len(results) + 1
        BY <1>3, <3>4
      <4> HIDE DEF Kept
      <4> QED
        BY <3>5, <3>6, <4>1
    <3>8. ASSUME NEW i \in 1..out', order[i] # Gone
          PROVE  \E k \in 1..Len(results') : results'[k].row = i
      <4>1. CASE i = out'
        <5>1. Len(results) + 1 \in 1..Len(results') /\ results'[Len(results) + 1].row = i
          BY <1>3, <3>3, <3>4, <4>1
        <5> QED
          BY <5>1
      <4>2. CASE i \in 1..out
        <5>1. PICK k \in 1..Len(results) : results[k].row = i
          BY <1>7, <2>1, <3>8, <4>2
        <5>2. k \in 1..Len(results') /\ results'[k].row = i
          BY <1>3, <3>4, <5>1
        <5> QED
          BY <5>2
      <4> QED
        BY <1>1, <1>3, <4>1, <4>2
    <3>9. Len(results') <= MaxResults
      BY <1>3, <2>1, <3>4
    <3> HIDE DEF Kept
    <3> QED
      BY <3>4, <3>7, <3>8, <3>9
  <2>2. CASE ~ (order[out'] # Gone /\ Len(results) < MaxResults)
    <3>1. results' = results
      BY <2>2 DEF EmitRow
    <3>2. ASSUME NEW k \in 1..Len(results) PROVE Kept(k, results, out')
      <4>1. Kept(k, results, out)
        BY <1>7
      <4>2. results[k].row \in 1..out'
        BY <1>1, <1>3, <4>1
      <4> QED
        BY <4>1, <4>2
    <3>3. ASSUME Len(results) < MaxResults, NEW i \in 1..out', order[i] # Gone
          PROVE  \E k \in 1..Len(results) : results[k].row = i
      <4>1. order[out'] = Gone
        BY <2>2, <3>3
      <4>2. i \in 1..out
        BY <1>1, <1>3, <3>3, <4>1
      <4> QED
        BY <1>7, <3>3, <4>2
    <3> HIDE DEF Kept
    <3> QED
      BY <1>3, <3>1, <3>2, <3>3
  <2> QED
    BY <2>1, <2>2
<1>9. ResultsInv'
  BY <1>1, <1>6, <1>8 DEF ResultsInv
<1>10. TypeOK'
  BY <1>1, <1>2, <1>3, <1>8 DEF TypeOK
<1>11. Phases'
  <2>1. out' > 0
    BY <1>3
  <2>2. phase' = "nms" => out' < Len(cands)
    BY <1>1, <1>3
  <2>3. phase' = "done" => out' = Len(cands)
    BY <1>1
  <2>4. last' = None
    BY <1>1, <1>2 DEF Phases
  <2> QED
    BY <1>1, <1>2, <1>3, <2>1, <2>2, <2>3, <2>4 DEF Phases, NmsDone
<1> QED
  BY <1>4, <1>5, <1>9, <1>10, <1>11 DEF PostInv

(* A step that changes nothing keeps the invariant.                        *)
LEMMA StutterPreserves ==
    ASSUME PostInv, UNCHANGED vars
    PROVE  PostInv'
<1>1. /\ UNCHANGED <<picture, quant, phase, cell, last, cands, sorted, out, results>>
      /\ UNCHANGED <<order, todo, cls, row>>
  BY DEF vars, nmsVars
<1>2. TypeOK /\ Phases /\ FromCells /\ BestOfCell /\ NmsInv /\ ResultsInv
  BY DEF PostInv
<1>3. TypeOK' /\ Phases'
  BY <1>1, <1>2 DEF TypeOK, Phases, NmsDone
<1>4. FromCells' /\ BestOfCell'
  BY <1>1, <1>2, CandidatesKept
<1>5. NmsInv'
  <2>1. CASE phase # "collect" /\ cands # <<>>
    <3>1. RowsSorted /\ LoopPosition /\ GoneForReason /\ PassedRowsApart
      BY <1>2, <2>1 DEF NmsInv
    <3>2. phase' = "done" => todo = {} /\ row > Len(cands)
      BY <1>1, <3>1 DEF LoopPosition
    <3> QED
      BY <1>1, <1>2, <3>1, <3>2, NmsKept DEF NmsInv
  <2>2. CASE ~ (phase # "collect" /\ cands # <<>>)
    BY <1>1, <2>2 DEF NmsInv
  <2> QED
    BY <2>1, <2>2
<1>6. ResultsInv'
  <2>1. \A i, d : Detection(i)' = Detection(i) /\ Rect(d)' = Rect(d)
    BY <1>1, DetectionsKept
  <2> QED
    BY <1>1, <1>2, <2>1 DEF ResultsInv
<1> QED
  BY <1>3, <1>4, <1>5, <1>6 DEF PostInv

-----------------------------------------------------------------------------
(* PostInv holds in every state of post_process.                           *)
THEOREM Invariance == Spec => []PostInv
<1>1. PostInv /\ [Next]_vars => PostInv'
  BY ProcessCellPreserves, SortPreserves, NextClassPreserves, SuppressRowPreserves,
     EmitRowPreserves, StutterPreserves
  DEF Next
<1> QED
  BY InitInv, <1>1, PTL DEF Spec

(* Every variable has its type, and the results fit the array.             *)
THEOREM TypeCorrect == Spec => []TypeOK
<1>1. PostInv => TypeOK
  BY DEF PostInv
<1> QED
  BY <1>1, Invariance, PTL

(* A cell's candidate is the first of its classes with the best score, if  *)
(* that score is above the threshold and the start; without such a class   *)
(* there is one, of no class, exactly when the start is above the          *)
(* threshold.                                                              *)
THEOREM CandidatesAreBest == Spec => []BestOfCell
<1>1. PostInv => BestOfCell
  BY DEF PostInv
<1> QED
  BY <1>1, Invariance, PTL

(* Once nms is through, no two rows of a class that are left overlap: all  *)
(* rows have been passed, and the rows passed are apart from those left.   *)
THEOREM NoOverlapLeft == Spec => []KeptApart
<1>1. PostInv => KeptApart
  <2>1. SUFFICES ASSUME PostInv,
                        NmsDone \/ phase = "done",
                        NEW i \in DOMAIN order, NEW j \in DOMAIN order,
                        i < j, order[i] # Gone, order[j] # Gone,
                        cands[order[i]].class = cands[order[j]].class
                 PROVE  ~ Overlaps(order[i], order[j])
    BY DEF KeptApart
  <2>2. cands # <<>>
    BY <2>1 DEF PostInv, Phases, NmsDone
  <2>3. /\ RowsSorted /\ PassedRowsApart /\ LoopPosition
        /\ row \in Nat /\ Len(cands) \in Nat
    BY <2>1, <2>2 DEF PostInv, NmsInv, TypeOK, NmsDone
  <2>4. /\ i \in 1..Len(cands) /\ j \in 1..Len(cands)
        /\ order[i] = sorted[i] /\ order[j] = sorted[j]
    BY <2>1, <2>3 DEF RowsSorted
  <2>5. todo = {} /\ row > Len(cands) /\ row \in Nat /\ Len(cands) \in Nat
    BY <2>1, <2>3 DEF LoopPosition, NmsDone
  <2>6. Passed(i)
    BY <2>4, <2>5 DEF Passed
  <2>7. ~ Excludes(i, j)
    BY <2>1, <2>3, <2>4, <2>6 DEF PassedRowsApart
  <2> QED
    BY <2>1, <2>4, <2>7 DEF Excludes, ClassAt
<1> QED
  BY <1>1, Invariance, PTL

(* Nothing is suppressed but by a surer row of its class that stays.       *)
THEOREM SuppressionIsJustified == Spec => []SuppressedByBetter
<1>1. PostInv => SuppressedByBetter
  <2>1. SUFFICES ASSUME PostInv, NEW j \in DOMAIN order, order[j] = Gone
                 PROVE  \E i \in 1..(j - 1) :
                           /\ order[i] = sorted[i]
                           /\ cands[sorted[i]].class = cands[sorted[j]].class
                           /\ cands[sorted[i]].score >= cands[sorted[j]].score
                           /\ Overlaps(sorted[i], sorted[j])
    BY DEF SuppressedByBetter
  <2>2. phase # "collect" /\ cands # <<>> /\ cands \in Seq(Candidate)
    BY <2>1 DEF PostInv, TypeOK, Phases
  <2>3. RowsSorted /\ GoneForReason
    BY <2>1, <2>2 DEF PostInv, NmsInv
  <2>4. j \in 1..Len(cands) /\ Len(cands) \in Nat
    BY <2>2, <2>3 DEF RowsSorted
  <2>5. PICK i \in 1..(j - 1) : order[i] # Gone /\ Excludes(i, j)
    BY <2>1, <2>3, <2>4 DEF GoneForReason
  <2>6. i \in 1..Len(cands) /\ i < j /\ order[i] = sorted[i]
    BY <2>3, <2>4, <2>5 DEF RowsSorted
  <2>7. /\ Len(ScoresOf) = Len(cands)
        /\ \A n \in 1..Len(cands) : ScoresOf[n] = cands[n].score
    BY <2>2, ScoresLength DEF ScoresOf
  <2>8. ScoresOf[sorted[i]] >= ScoresOf[sorted[j]]
    BY <2>3, <2>4, <2>6, <2>7 DEF RowsSorted, Descends
  <2>9. cands[sorted[i]].score >= cands[sorted[j]].score
    BY <2>3, <2>4, <2>6, <2>7, <2>8 DEF RowsSorted
  <2> QED
    BY <2>5, <2>6, <2>9 DEF Excludes, ClassAt
<1> QED
  BY <1>1, Invariance, PTL

(* A result is of a row that is left and of a candidate of some cell.      *)
LEMMA ResultsRow ==
    ASSUME PostInv, NEW k \in 1..Len(results), NEW r, r = results[k].row
    PROVE  /\ r \in 1..Len(cands) /\ r \in 1..out /\ order[r] = sorted[r]
           /\ order[r] \in 1..Len(cands) /\ DOMAIN order = 1..Len(cands)
           /\ results[k].det = Detection(r) /\ results[k].rect = Rect(Detection(r))
           /\ RowsSorted /\ cands \in Seq(Candidate) /\ Len(cands) \in Nat
<1>1. TypeOK /\ Phases /\ NmsInv /\ ResultsInv
  BY DEF PostInv
<1>2. /\ r \in 1..out /\ order[r] # Gone
      /\ results[k].det = Detection(r) /\ results[k].rect = Rect(Detection(r))
  BY <1>1 DEF ResultsInv
<1>3. out \in 0..Len(cands) /\ Len(cands) \in Nat /\ cands \in Seq(Candidate)
  BY <1>1 DEF TypeOK
<1>4. r \in 1..Len(cands) /\ out > 0
  BY <1>2, <1>3
<1>5. cands # <<>> /\ phase # "collect"
  BY <1>1, <1>3, <1>4 DEF Phases, NmsDone
<1>6. RowsSorted
  BY <1>1, <1>5 DEF NmsInv
<1>7. order[r] = sorted[r] /\ sorted[r] \in 1..Len(cands) /\ DOMAIN order = 1..Len(cands)
  BY <1>2, <1>4, <1>6 DEF RowsSorted
<1> QED
  BY <1>2, <1>3, <1>4, <1>6, <1>7

(* The results are the surest rows left: the loop passes the rows in the   *)
(* order of their scores, and takes each that is left while there is room. *)
THEOREM ResultsAreSurest == Spec => []SurestFirst
<1>1. PostInv => SurestFirst
  <2> SUFFICES ASSUME PostInv, phase = "done" PROVE SurestFirst
    BY DEF SurestFirst
  <2>1. TypeOK /\ Phases /\ NmsInv /\ ResultsInv
    BY DEF PostInv
  <2>2. /\ out = Len(cands) /\ Len(cands) \in Nat /\ cands \in Seq(Candidate)
        /\ DOMAIN results = 1..Len(results)
    BY <2>1 DEF Phases, TypeOK
  <2>3. DOMAIN order = 1..Len(cands)
    <3>1. CASE cands = <<>>
      BY <2>1, <3>1 DEF Phases
    <3>2. CASE cands # <<>>
      BY <2>1, <3>2 DEF NmsInv, RowsSorted
    <3> QED
      BY <3>1, <3>2
  <2>4. ASSUME NEW k \in 1..Len(results)
        PROVE  LET r == results[k].row IN
               /\ r \in 1..Len(cands) /\ order[r] # Gone
               /\ results[k].det.prop = cands[order[r]].score
               /\ \A i \in 1..Len(cands) :
                     order[i] # Gone /\ cands[order[i]].score > results[k].det.prop
                        => \E m \in 1..(k - 1) : results[m].row = i
    <3> DEFINE r == results[k].row
    <3>1. /\ r \in 1..Len(cands) /\ order[r] = sorted[r] /\ order[r] \in 1..Len(cands)
          /\ results[k].det = Detection(r) /\ RowsSorted
      BY ResultsRow
    <3>2. /\ order[r] # Gone
          /\ \A i \in 1..(r - 1) : order[i] # Gone =>
                \E m \in 1..(k - 1) : results[m].row = i
      BY <2>1 DEF ResultsInv
    <3> HIDE DEF r
    <3>3. results[k].det.prop = cands[order[r]].score
      BY <3>1 DEF Detection
    <3>4. ASSUME NEW i \in 1..Len(cands), order[i] # Gone,
                 cands[order[i]].score > results[k].det.prop
          PROVE  \E m \in 1..(k - 1) : results[m].row = i
      <4>1. order[i] = sorted[i] /\ sorted[i] \in 1..Len(cands) /\ sorted[r] \in 1..Len(cands)
        BY <3>1, <3>4 DEF RowsSorted
      <4>2. /\ Len(ScoresOf) = Len(cands)
            /\ \A n \in 1..Len(cands) : ScoresOf[n] = cands[n].score /\ ScoresOf[n] \in Int
        <5>1. \A n \in 1..Len(cands) : cands[n] \in Candidate
          BY <2>2
        <5>2. \A n \in 1..Len(cands) : cands[n].score \in Int
          BY <5>1 DEF Candidate, Scores
        <5> QED
          BY <2>2, <5>2, ScoresLength DEF ScoresOf
      <4>3. ScoresOf[sorted[i]] > ScoresOf[sorted[r]]
        BY <3>1, <3>3, <3>4, <4>1, <4>2
      <4>4. i # r
        BY <4>1, <4>2, <4>3
      <4>5. ~ (r < i)
        <5>1. SUFFICES ASSUME r < i PROVE FALSE
          OBVIOUS
        <5>2. ScoresOf[sorted[r]] >= ScoresOf[sorted[i]]
          BY <3>1, <4>2, <5>1 DEF RowsSorted, Descends
        <5> QED
          BY <4>1, <4>2, <4>3, <5>2
      <4>6. i \in 1..(r - 1)
        BY <2>2, <3>1, <4>4, <4>5
      <4> QED
        BY <3>2, <3>4, <4>6
    <3> QED
      BY <3>1, <3>2, <3>3, <3>4 DEF r
  <2>5. Len(results) < MaxResults =>
           \A i \in 1..Len(cands) : order[i] # Gone =>
              \E k \in 1..Len(results) : results[k].row = i
    BY <2>1, <2>2 DEF ResultsInv
  <2> QED
    BY <2>2, <2>3, <2>4, <2>5 DEF SurestFirst
<1> QED
  BY <1>1, Invariance, PTL

(* The rectangle drawn for a detection whose centre is in the picture is   *)
(* not empty and inside the picture: clamping and scaling keep the order   *)
(* of the edges, and the near edge is scaled back to inside the picture.   *)
THEOREM RectanglesInside == Spec => []RectInPicture
<1>1. PostInv => RectInPicture
  <2> SUFFICES ASSUME PostInv, NEW k \in DOMAIN results,
                      InPicture(Centre(Cells[cands[order[results[k].row]].cell]))
               PROVE  LET r == results[k].rect IN
                      /\ r.w >= 1 /\ r.x + r.w <= picture.w
                      /\ r.h >= 1 /\ r.y + r.h <= picture.h
    BY DEF RectInPicture
  <2> DEFINE i == results[k].row
             c == cands[order[i]]
             ctr == Centre(Cells[c.cell])
  <2>1. TypeOK /\ FromCells /\ picture \in Pictures /\ k \in 1..Len(results)
    BY DEF PostInv, TypeOK
  <2>2. /\ order[i] \in DOMAIN cands
        /\ results[k].rect = Rect(Detection(i))
    BY <2>1, ResultsRow
  <2>3. PICK d \in Distances : c.box = BoxAround(Cells[c.cell], d)
    BY <2>1, <2>2 DEF FromCells
  <2>4. /\ d.left \in Nat /\ d.top \in Nat /\ d.right \in Nat /\ d.bottom \in Nat
        /\ ModelW \in Nat /\ ModelH \in Nat
    BY SizesAssumption
  <2>5. /\ Scale.num \in Nat \ {0} /\ Scale.den \in Nat \ {0}
        /\ XPad \in Int /\ YPad \in Int
        /\ picture.w \in Nat \ {0} /\ picture.h \in Nat \ {0}
    BY <2>1, LetterboxType
  <2>6. /\ ctr.x \in XPad..(XPad + (picture.w * Scale.num) \div Scale.den - 1)
        /\ ctr.y \in YPad..(YPad + (picture.h * Scale.num) \div Scale.den - 1)
    BY DEF InPicture
  <2>7. /\ c.box.x = ctr.x - d.left /\ c.box.y = ctr.y - d.top
        /\ c.box.w = d.left + d.right /\ c.box.h = d.top + d.bottom
    BY <2>3 DEF BoxAround
  <2> DEFINE det == Detection(i)
  <2>8. /\ det.left = Unscaled(c.box.x - XPad, ModelW)
        /\ det.right = Unscaled((c.box.x - XPad) + c.box.w, ModelW)
        /\ det.top = Unscaled(c.box.y - YPad, ModelH)
        /\ det.bottom = Unscaled((c.box.y - YPad) + c.box.h, ModelH)
    BY DEF Detection
  <2> HIDE DEF det, c, ctr
  <2>9. /\ det.left \in Nat /\ det.right \in Nat /\ det.left <= det.right
        /\ det.left < picture.w
    <3>1. LET near == (Least(Most((ctr.x - d.left) - XPad, 0), ModelW) * Scale.den) \div Scale.num
              far  == (Least(Most(((ctr.x - d.left) - XPad) + (d.left + d.right), 0), ModelW)
                          * Scale.den) \div Scale.num
          IN  near \in Nat /\ far \in Nat /\ near <= far /\ near < picture.w
      BY <2>4, <2>5, <2>6, EdgesInPicture
    <3> QED
      BY <2>7, <2>8, <3>1 DEF Unscaled
  <2>10. /\ det.top \in Nat /\ det.bottom \in Nat /\ det.top <= det.bottom
         /\ det.top < picture.h
    <3>1. LET near == (Least(Most((ctr.y - d.top) - YPad, 0), ModelH) * Scale.den) \div Scale.num
              far  == (Least(Most(((ctr.y - d.top) - YPad) + (d.top + d.bottom), 0), ModelH)
                          * Scale.den) \div Scale.num
          IN  near \in Nat /\ far \in Nat /\ near <= far /\ near < picture.h
      BY <2>4, <2>5, <2>6, EdgesInPicture
    <3> QED
      BY <2>7, <2>8, <3>1 DEF Unscaled
  <2>11. /\ Rect(det).x = Most(0, det.left)
         /\ Rect(det).w = Least(det.right, picture.w - 1) - Most(0, det.left) + 1
         /\ Rect(det).y = Most(0, det.top)
         /\ Rect(det).h = Least(det.bottom, picture.h - 1) - Most(0, det.top) + 1
    BY DEF Rect
  <2>12. \A near, far, size \in Nat :
            near <= far /\ near < size =>
               /\ Least(far, size - 1) - Most(0, near) + 1 >= 1
               /\ Most(0, near) + (Least(far, size - 1) - Most(0, near) + 1) <= size
    BY DEF Least, Most
  <2>13. Rect(det).w >= 1 /\ Rect(det).x + Rect(det).w <= picture.w
    BY <2>5, <2>9, <2>11, <2>12
  <2>14. Rect(det).h >= 1 /\ Rect(det).y + Rect(det).h <= picture.h
    BY <2>5, <2>10, <2>11, <2>12
  <2> QED
    BY <2>2, <2>13, <2>14 DEF det
<1> QED
  BY <1>1, Invariance, PTL
(* p puts the first n values of t in descending order.                     *)
Orders(p, t, n) ==
    /\ p \in [1..n -> 1..n]
    /\ \A i, j \in 1..n : p[i] = p[j] => i = j
    /\ \A i, j \in 1..n : i < j => t[p[i]] >= t[p[j]]

(* One more value has a place among values in order: before the first that *)
(* is below it, or at the end.                                             *)
LEMMA OrderGrows ==
    ASSUME NEW n \in Nat, NEW t, \A i \in 1..(n + 1) : t[i] \in Int,
           NEW p, Orders(p, t, n)
    PROVE  \E q : Orders(q, t, n + 1)
<1> DEFINE Places == {m \in 1..(n + 1) : m = n + 1 \/ t[p[m]] < t[n + 1]}
<1>1. Places \subseteq Nat /\ n + 1 \in Places
  OBVIOUS
<1>2. PICK m \in Places : \A k \in Places : ~ (k < m)
  BY <1>1, LeastExists
<1>3. /\ m \in 1..(n + 1) /\ (m = n + 1 \/ t[p[m]] < t[n + 1])
      /\ \A k \in 1..n : k < m => ~ (t[p[k]] < t[n + 1])
  <2>1. \A k \in 1..n : k < m => k \notin Places
    BY <1>2
  <2> QED
    BY <1>2, <2>1
<1> HIDE DEF Places
<1> DEFINE q == [i \in 1..(n + 1) |-> IF i < m THEN p[i] ELSE IF i = m THEN n + 1 ELSE p[i - 1]]
<1>4. /\ p \in [1..n -> 1..n]
      /\ \A i, j \in 1..n : p[i] = p[j] => i = j
      /\ \A i, j \in 1..n : i < j => t[p[i]] >= t[p[j]]
  BY DEF Orders
<1>5. \A i \in 1..n : p[i] \in 1..n /\ t[p[i]] \in Int
  BY <1>4
<1>6. \A i \in 1..(n + 1) : /\ i < m => i \in 1..n /\ q[i] = p[i]
                            /\ i = m => q[i] = n + 1
                            /\ i > m => i - 1 \in 1..n /\ q[i] = p[i - 1] /\ ~ (i - 1 < m)
  BY <1>3
<1> HIDE DEF q
<1>7. q \in [1..(n + 1) -> 1..(n + 1)]
  <2>1. \A i \in 1..(n + 1) : q[i] \in 1..(n + 1)
    BY <1>3, <1>5, <1>6
  <2> QED
    BY <2>1 DEF q
<1>8. \A i, j \in 1..(n + 1) : i < j => q[i] # q[j] /\ t[q[i]] >= t[q[j]]
  <2> SUFFICES ASSUME NEW i \in 1..(n + 1), NEW j \in 1..(n + 1), i < j
               PROVE  q[i] # q[j] /\ t[q[i]] >= t[q[j]]
    OBVIOUS
  <2>1. t[n + 1] \in Int /\ n + 1 \notin 1..n /\ m \in Int
    BY <1>3
  <2>2. CASE j < m
    BY <1>3, <1>4, <1>6, <2>2
  <2>3. CASE j = m
    BY <1>3, <1>5, <1>6, <2>1, <2>3
  <2>4. CASE j > m
    <3>1. j - 1 \in 1..n /\ q[j] = p[j - 1] /\ ~ (j - 1 < m)
      BY <1>6, <2>4
    <3>2. CASE i < m
      <4>1. i < j - 1 /\ i \in 1..n /\ q[i] = p[i]
        BY <1>3, <1>6, <3>1, <3>2
      <4> QED
        BY <1>4, <3>1, <4>1
    <3>3. CASE i = m
      <4>1. m \in 1..n /\ t[p[m]] < t[n + 1]
        BY <1>3, <2>4
      <4>2. j - 1 = m \/ t[p[m]] >= t[p[j - 1]]
        BY <1>3, <1>4, <3>1, <4>1
      <4>3. q[i] = n + 1 /\ t[p[m]] \in Int /\ t[p[j - 1]] \in Int /\ p[j - 1] \in 1..n
        BY <1>5, <1>6, <3>1, <3>3, <4>1
      <4> QED
        BY <2>1, <3>1, <4>1, <4>2, <4>3
    <3>4. CASE i > m
      <4>1. i - 1 \in 1..n /\ q[i] = p[i - 1] /\ i - 1 < j - 1
        BY <1>6, <3>4
      <4> QED
        BY <1>4, <3>1, <4>1
    <3> QED
      BY <1>3, <3>2, <3>3, <3>4
  <2> QED
    BY <1>3, <2>2, <2>3, <2>4
<1>9. \A i, j \in 1..(n + 1) : q[i] = q[j] => i = j
  BY <1>8
<1> QED
  BY <1>7, <1>8, <1>9 DEF Orders

(* Any list of integers can be put in descending order.                    *)
LEMMA DescendingOrderExists ==
    ASSUME NEW s \in Seq(Int)
    PROVE  DescendingOrders(s) # {}
<1> DEFINE S == {n \in Nat : n <= Len(s) => \E p : Orders(p, s, n)}
<1>1. 0 \in S
  <2>1. 1..0 = {}
    OBVIOUS
  <2>2. Orders(<<>>, s, 0)
    BY <2>1 DEF Orders
  <2> QED
    BY <2>2
<1>2. ASSUME NEW n \in Nat, n \in S PROVE n + 1 \in S
  <2> SUFFICES ASSUME n + 1 <= Len(s) PROVE \E q : Orders(q, s, n + 1)
    OBVIOUS
  <2>1. PICK p : Orders(p, s, n)
    BY <1>2
  <2>2. \A i \in 1..(n + 1) : s[i] \in Int
    OBVIOUS
  <2> QED
    BY <2>1, <2>2, OrderGrows
<1>3. Nat \subseteq S
  <2> HIDE DEF S
  <2> QED
    BY <1>1, <1>2, SetInduction
<1>4. PICK p : Orders(p, s, Len(s))
  BY <1>3
<1> QED
  BY <1>4 DEF Orders, DescendingOrders, IsPermutation, Descends

(* post_process never stops half way: whatever the candidates, there is an *)
(* order to sort them in, and nms and the loop over the results reach      *)
(* their ends row by row (postprocess.cpp:139-170, 585-647).               *)
THEOREM AlwaysGoesOn == Spec => []NeverStuck
<1>1. ASSUME PostInv PROVE NeverStuck
  <2>1. TypeOK /\ Phases
    BY <1>1 DEF PostInv
  <2>2. CASE phase = "collect"
    <3>1. ScoresOf \in Seq(Int)
      <4>1. cands \in Seq(Candidate) /\ Len(cands) \in Nat /\ DOMAIN cands = 1..Len(cands)
        BY <2>1 DEF TypeOK
      <4>2. \A n \in 1..Len(cands) : cands[n].score \in Int
        <5>1. \A n \in 1..Len(cands) : cands[n] \in Candidate
          BY <4>1, ElementOfSeq
        <5> QED
          BY <5>1 DEF Candidate, Scores
      <4>3. ScoresOf \in [1..Len(cands) -> Int]
        BY <4>1, <4>2 DEF ScoresOf
      <4> QED
        BY <4>1, <4>3, FunctionIsSeq
    <3>2. DescendingOrders(ScoresOf) # {}
      BY <3>1, DescendingOrderExists
    <3>3. cell \in 0..Len(Cells) /\ Len(Cells) \in Nat
      BY <2>1, CellsAssumption DEF TypeOK
    <3> QED
      BY <2>2, <3>2, <3>3 DEF NeverStuck
  <2>3. CASE phase = "nms"
    <3>1. Len(cands) \in Nat /\ row \in 1..(Len(cands) + 1) /\ todo \subseteq FoundIds
      BY <2>1 DEF TypeOK
    <3>5. CASE -1 \in todo
      <4>1. \A d \in todo : -1 <= d
        BY <3>1, BoundAssumption DEF ClassIds, FoundIds
      <4> QED
        BY <2>3, <3>5, <4>1 DEF NeverStuck
    <3>2. CASE todo # {} /\ -1 \notin todo
      <4>1. todo \subseteq Nat
        BY <3>1, <3>2, BoundAssumption DEF ClassIds, FoundIds
      <4>2. PICK c \in todo : \A d \in todo : ~ (d < c)
        BY <3>2, <4>1, LeastExists
      <4>3. \A d \in todo : c <= d
        BY <4>1, <4>2
      <4> QED
        BY <2>3, <4>3 DEF NeverStuck
    <3>3. CASE todo = {} /\ row > Len(cands)
      BY <2>1, <2>3, <3>3 DEF NeverStuck, NmsDone, Phases
    <3>4. CASE row <= Len(cands)
      BY <2>3, <3>4 DEF NeverStuck
    <3> QED
      BY <3>1, <3>2, <3>3, <3>4, <3>5
  <2>4. CASE phase = "done"
    BY <2>4 DEF NeverStuck
  <2> QED
    BY <2>1, <2>2, <2>3, <2>4 DEF TypeOK
<1> QED
  BY Invariance, <1>1, PTL
=============================================================================
