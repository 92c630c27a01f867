---------------------------- MODULE CommonLemmas ----------------------------
(***************************************************************************)
(* Facts of the data several components are built from.                    *)
(*                                                                         *)
(* Whole numbers and sequences.  What SeqSum computes: the sums of the     *)
(* prefixes of a sequence exist and are determined, by the least prefix    *)
(* for which they would not be; SeqSum is the last of them, and appending  *)
(* to the sequence, or changing one of its elements, changes the last by   *)
(* as much; what holds of elements of three sequences, place by place,     *)
(* holds of their sums when it is linear.                                  *)
(*                                                                         *)
(* Finite sets, gone through one element after the other.                  *)
(*                                                                         *)
(* Fractions.  Euclid's algorithm finds the greatest common divisor, so    *)
(* what Frac, Plus, Product, Times and Over return is in lowest terms, and *)
(* two fractions in lowest terms with the same value are equal: the laws   *)
(* of the rationals hold of them as equations, and sums of them over a     *)
(* finite set change as their terms do.                                    *)
(***************************************************************************)
EXTENDS Fractions, Integers, FiniteSetsExt, SequencesExt, SequenceTheorems,
        FiniteSetTheorems, WellFoundedInduction, TLAPS

(* Every set of naturals has a least element: induction without a formula  *)
(* for a parameter.                                                        *)
LEMMA LeastElement ==
  ASSUME NEW T, T \subseteq Nat, T # {}
  PROVE  \E x \in T : \A y \in T : x <= y
<1>1. IsWellFoundedOn(OpToRel(<, Nat), Nat)
  BY NatLessThanWellFounded
<1>2. PICK x \in T : \A y \in T : <<y, x>> \notin OpToRel(<, Nat)
  BY <1>1, WFMin
<1>3. \A y \in T : ~(y < x)
  BY <1>2 DEF OpToRel
<1> QED
  BY <1>3

(* ... which is what Min takes.                                            *)
LEMMA MinOfNaturals ==
  ASSUME NEW T, T \subseteq Nat, T # {}
  PROVE  Min(T) \in T /\ \A y \in T : Min(T) <= y
BY LeastElement DEF Min

-----------------------------------------------------------------------------
(* Whole numbers.                                                          *)

\* The quotient of a by d is the q with q * d <= a < (q + 1) * d.
LEMMA IntegerQuotient ==
  ASSUME NEW a \in Int, NEW d \in Nat \ {0}
  PROVE  /\ a \div d \in Int
         /\ d * (a \div d) <= a
         /\ a < d * (a \div d) + d
  OBVIOUS

LEMMA NaturalQuotient ==
  ASSUME NEW a \in Nat, NEW d \in Nat \ {0}
  PROVE  a \div d \in Nat
OBVIOUS

\* The quotient is the largest such q.
LEMMA QuotientBelow ==
  ASSUME NEW a \in Int, NEW d \in Nat \ {0}, NEW q \in Int, a < d * (q + 1)
  PROVE  a \div d <= q
<1>1. PICK r \in Int : r = a \div d
  BY IntegerQuotient
<1>2. d * r <= a
  BY <1>1, IntegerQuotient
<1>3. SUFFICES ASSUME r >= q + 1 PROVE FALSE
  BY <1>1
<1>4. d * r >= d * (q + 1)
  BY <1>3
<1> QED
  BY <1>2, <1>4

LEMMA MaxOfTwo ==
  ASSUME NEW a \in Int, NEW b \in Int
  PROVE  Max({a, b}) \in {a, b} /\ Max({a, b}) >= a /\ Max({a, b}) >= b
<1>1. \E x \in {a, b} : \A y \in {a, b} : x >= y
  OBVIOUS
<1> QED BY <1>1 DEF Max

LEMMA MaxIs ==
  ASSUME NEW a \in Int, NEW b \in Int
  PROVE  Max({a, b}) = IF a >= b THEN a ELSE b
<1>1. Max({a, b}) \in {a, b} /\ Max({a, b}) >= a /\ Max({a, b}) >= b
  BY MaxOfTwo, Zenon
<1> QED BY <1>1

LEMMA ProductOfNaturals ==
  ASSUME NEW a \in Nat, NEW b \in Nat
  PROVE  a * b \in Nat
OBVIOUS

LEMMA ProductsAreOrdered ==
  ASSUME NEW a \in Nat, NEW b \in Nat, NEW c \in Nat, b <= c
  PROVE  a * b <= a * c
<1>1. PICK d \in Nat : c = b + d
  <2>1. c - b \in Nat /\ c = b + (c - b)
    OBVIOUS
  <2> QED BY <2>1
<1>2. a * c = a * b + a * d
  BY <1>1
<1>3. a * b \in Nat /\ a * d \in Nat
  BY <1>1, ProductOfNaturals
<1> QED BY <1>2, <1>3

-----------------------------------------------------------------------------
(* An element taken out of a sequence.                                     *)
LEMMA RemoveAtProps ==
  ASSUME NEW S, NEW s \in Seq(S), NEW k \in 1..Len(s)
  PROVE  /\ RemoveAt(s, k) \in Seq(S)
         /\ Len(RemoveAt(s, k)) = Len(s) - 1
         /\ \A i \in 1..(Len(s) - 1) :
              RemoveAt(s, k)[i] = IF i < k THEN s[i] ELSE s[i + 1]
<1> DEFINE front == SubSeq(s, 1, k - 1)
           back == SubSeq(s, k + 1, Len(s))
<1>1. /\ front \in Seq(S) /\ Len(front) = k - 1
      /\ \A i \in 1..(k - 1) : front[i] = s[i]
  OBVIOUS
<1>2. /\ back \in Seq(S) /\ Len(back) = Len(s) - k
      /\ \A i \in 1..(Len(s) - k) : back[i] = s[k + i]
  OBVIOUS
<1>3. RemoveAt(s, k) = front \o back
  BY DEF RemoveAt
<1> HIDE DEF front, back
<1>4. front \o back \in Seq(S) /\ Len(front \o back) = Len(s) - 1
  BY <1>1, <1>2
<1>5. ASSUME NEW i \in 1..(Len(s) - 1)
      PROVE  (front \o back)[i] = IF i < k THEN s[i] ELSE s[i + 1]
  <2>1. CASE i < k
    BY <2>1, <1>1, <1>2
  <2>2. CASE i >= k
    <3>1. (front \o back)[i] = back[i - (k - 1)]
      BY <2>2, <1>1, <1>2, SMTT(30)
    <3>2. i - (k - 1) \in 1..(Len(s) - k) /\ k + (i - (k - 1)) = i + 1
      BY <2>2
    <3> QED BY <3>1, <3>2, <2>2, <1>2
  <2>3. i < k \/ i >= k
    OBVIOUS
  <2> QED BY <2>1, <2>2, <2>3
<1> QED
  BY <1>3, <1>4, <1>5

(* RemoveFirst takes out one that is the element.                          *)
LEMMA RemoveFirstProps ==
  ASSUME NEW S, NEW s \in Seq(S), NEW e, \E i \in 1..Len(s) : s[i] = e
  PROVE  \E k \in 1..Len(s) : s[k] = e /\ RemoveFirst(s, e) = RemoveAt(s, k)
<1> DEFINE I == {i \in 1..Len(s) : s[i] = e}
<1>1. Min(I) \in I
  <2>1. I \subseteq Nat /\ I # {}
    OBVIOUS
  <2> HIDE DEF I
  <2> QED BY <2>1, MinOfNaturals
<1>2. RemoveFirst(s, e) = RemoveAt(s, Min(I))
  BY <1>1 DEF RemoveFirst, SelectInSeq
<1> QED
  BY <1>1, <1>2

(* The last element, and those before it.                                  *)
LEMMA LastAndFront ==
  ASSUME NEW S, NEW s \in Seq(S), s # <<>>
  PROVE  /\ Len(s) \in Nat \ {0} /\ Last(s) = s[Len(s)] /\ Last(s) \in S
         /\ Front(s) \in Seq(S) /\ Len(Front(s)) = Len(s) - 1
         /\ \A k \in 1..(Len(s) - 1) : Front(s)[k] = s[k]
<1>1. Len(s) \in Nat \ {0} /\ \A k \in 1..Len(s) : s[k] \in S
  OBVIOUS
<1>2. Last(s) = s[Len(s)] /\ Last(s) \in S
  BY <1>1 DEF Last
<1>3. PICK n \in Nat : n = Len(s) - 1
  BY <1>1
<1>4. SubSeq(s, 1, n) \in Seq(S) /\ Len(SubSeq(s, 1, n)) = n
  BY <1>1, <1>3
<1>5. \A k \in 1..n : SubSeq(s, 1, n)[k] = s[k]
  BY <1>1, <1>3
<1>6. Front(s) = SubSeq(s, 1, n)
  BY <1>3 DEF Front
<1> QED BY <1>1, <1>2, <1>3, <1>4, <1>5, <1>6

(* A second element.                                                       *)
LEMMA TwoElements ==
  ASSUME NEW x, NEW y
  PROVE  Append(<<x>>, y) = <<x, y>>
<1> SUFFICES ASSUME NEW one, one = <<x>> PROVE Append(one, y) = <<x, y>>
  OBVIOUS
<1> DEFINE two == Append(one, y)
           both == <<x, y>>
<1>1. one \in Seq({x, y}) /\ Len(one) = 1 /\ one[1] = x
  OBVIOUS
<1>2. both \in Seq({x, y}) /\ Len(both) = 2 /\ both[1] = x /\ both[2] = y
  OBVIOUS
<1>3. two \in Seq({x, y}) /\ Len(two) = 2 /\ two[1] = x /\ two[2] = y
  BY <1>1
<1> HIDE DEF two, both
<1>4. two = both
  BY <1>2, <1>3, SeqEqual
<1> QED BY <1>4 DEF two, both

-----------------------------------------------------------------------------
(* Sums.                                                                   *)

(* s[k] is the total of the first k of n elements.                         *)
PartialSums(seq, n, s) ==
  /\ s \in [0..n -> Int] /\ s[0] = 0
  /\ \A k \in 1..n : s[k] = s[k - 1] + seq[k]

-----------------------------------------------------------------------------
(* Every sequence of integers has partial sums.                          *)
LEMMA PartialSumsExist ==
  ASSUME NEW seq \in Seq(Int)
  PROVE  \E s : PartialSums(seq, Len(seq), s)
<1> DEFINE Without == {n \in 0..Len(seq) : ~ \E s : PartialSums(seq, n, s)}
<1>1. SUFFICES ASSUME Without # {} PROVE FALSE
  <2>1. Len(seq) \in 0..Len(seq)
    OBVIOUS
  <2> QED BY <2>1
<1>2. PICK n \in Without : \A m \in Without : n <= m
  <2>1. Without \subseteq Nat
    OBVIOUS
  <2> HIDE DEF Without
  <2> QED BY <1>1, <2>1, LeastElement
<1>3. n # 0
  <2>1. PartialSums(seq, 0, [k \in 0..0 |-> 0])
    BY DEF PartialSums
  <2> QED BY <1>2, <2>1
<1>4. n - 1 \in 0..Len(seq) /\ n - 1 \notin Without
  BY <1>2, <1>3
<1>5. PICK s : PartialSums(seq, n - 1, s)
  BY <1>4
<1> DEFINE t == [k \in 0..n |-> IF k = n THEN s[n - 1] + seq[n] ELSE s[k]]
<1>6. PartialSums(seq, n, t)
  <2>1. seq[n] \in Int /\ s[n - 1] \in Int
    BY <1>2, <1>3, <1>5 DEF PartialSums
  <2>2. t \in [0..n -> Int] /\ t[0] = 0
    BY <1>2, <1>3, <1>5, <2>1 DEF PartialSums
  <2>3. ASSUME NEW k \in 1..n PROVE t[k] = t[k - 1] + seq[k]
    BY <1>2, <1>3, <1>5, <2>3 DEF PartialSums
  <2> QED BY <2>2, <2>3 DEF PartialSums
<1> QED BY <1>2, <1>6

(* SeqSum is the last of them.                                         *)
LEMMA SeqSumIsTheLast ==
  ASSUME NEW seq \in Seq(Int), NEW s, PartialSums(seq, Len(seq), s)
  PROVE  SeqSum(seq) = s[Len(seq)]
<1> DEFINE N == Len(seq)
           Step(f) == [k \in 0..N |-> IF k = 0 THEN 0 ELSE f[k - 1] + seq[k]]
           upTo == CHOOSE f : f = Step(f)
<1>1. s = Step(s)
  BY DEF PartialSums
<1>2. upTo = Step(upTo)
  BY <1>1
<1>3. /\ upTo[0] = 0
      /\ \A k \in 1..N : upTo[k] = upTo[k - 1] + seq[k]
  <2>1. N \in Nat
    OBVIOUS
  <2> HIDE DEF upTo, N
  <2> QED BY <1>2, <2>1
<1>4. \A k \in 0..N : upTo[k] = s[k]
  <2> HIDE DEF upTo
  <2> DEFINE Bad == {k \in 0..N : upTo[k] # s[k]}
  <2>1. SUFFICES ASSUME Bad # {} PROVE FALSE
    OBVIOUS
  <2>2. PICK k \in Bad : \A m \in Bad : k <= m
    <3>1. Bad \subseteq Nat
      OBVIOUS
    <3> HIDE DEF Bad
    <3> QED BY <2>1, <3>1, LeastElement
  <2>3. k # 0
    BY <1>3, <2>2 DEF PartialSums
  <2>4. k - 1 \in 0..N /\ k - 1 \notin Bad
    BY <2>2, <2>3
  <2> QED BY <1>3, <2>2, <2>3, <2>4 DEF PartialSums
<1> QED BY <1>4 DEF SeqSum

-----------------------------------------------------------------------------
(* A sequence of integers has an integer total.                            *)
THEOREM SeqSumIsInt == ASSUME NEW seq \in Seq(Int) PROVE SeqSum(seq) \in Int
BY PartialSumsExist, SeqSumIsTheLast DEF PartialSums

(* Nothing totals nothing.                                                 *)
THEOREM SeqSumOfNothing == SeqSum(<<>>) = 0
<1>1. <<>> \in Seq(Int) /\ Len(<<>>) = 0
  OBVIOUS
<1>2. PICK s : PartialSums(<<>>, 0, s)
  BY <1>1, PartialSumsExist
<1> QED BY <1>1, <1>2, SeqSumIsTheLast DEF PartialSums

(* Appending x adds x.                                                     *)
THEOREM SeqSumOfAppend ==
  ASSUME NEW seq \in Seq(Int), NEW x \in Int
  PROVE  SeqSum(Append(seq, x)) = SeqSum(seq) + x
<1> DEFINE N == Len(seq)
           more == Append(seq, x)
<1>1. PICK s : PartialSums(seq, N, s)
  BY PartialSumsExist
<1> DEFINE t == [k \in 0..(N + 1) |-> IF k = N + 1 THEN s[N] + x ELSE s[k]]
<1>2. more \in Seq(Int) /\ Len(more) = N + 1 /\ N \in Nat
  OBVIOUS
<1>3. \A k \in 1..(N + 1) : more[k] = IF k = N + 1 THEN x ELSE seq[k]
  OBVIOUS
<1>4. PartialSums(more, N + 1, t)
  <2>1. t \in [0..(N + 1) -> Int] /\ t[0] = 0
    BY <1>1, <1>2 DEF PartialSums
  <2>2. ASSUME NEW k \in 1..(N + 1) PROVE t[k] = t[k - 1] + more[k]
    BY <1>1, <1>2, <1>3, <2>2 DEF PartialSums
  <2> QED BY <2>1, <2>2 DEF PartialSums
<1>5. SeqSum(more) = t[N + 1] /\ SeqSum(seq) = s[N]
  BY <1>1, <1>2, <1>4, SeqSumIsTheLast
<1> QED BY <1>2, <1>5

(* Putting x in the place of an element takes the element away and adds x. *)
THEOREM SeqSumOfChange ==
  ASSUME NEW seq \in Seq(Int), NEW i \in 1..Len(seq), NEW x \in Int
  PROVE  SeqSum([seq EXCEPT ![i] = x]) = SeqSum(seq) - seq[i] + x
<1> DEFINE N == Len(seq)
           changed == [seq EXCEPT ![i] = x]
<1>1. PICK s : PartialSums(seq, N, s)
  BY PartialSumsExist
<1> DEFINE t == [k \in 0..N |-> IF k < i THEN s[k] ELSE s[k] - seq[i] + x]
<1>2. changed \in Seq(Int) /\ Len(changed) = N /\ N \in Nat /\ seq[i] \in Int
  BY ExceptSeq
<1>3. \A k \in 1..N : changed[k] = IF k = i THEN x ELSE seq[k]
  OBVIOUS
<1>4. PartialSums(changed, N, t)
  <2>1. t \in [0..N -> Int] /\ t[0] = 0
    BY <1>1, <1>2 DEF PartialSums
  <2>2. ASSUME NEW k \in 1..N PROVE t[k] = t[k - 1] + changed[k]
    <3>1. /\ s[k] \in Int /\ s[k - 1] \in Int /\ s[k] = s[k - 1] + seq[k]
          /\ seq[k] \in Int /\ k \in Nat /\ i \in Nat
      BY <1>1, <1>2, <2>2, SMTT(30) DEF PartialSums
    <3>2. /\ t[k] = IF k < i THEN s[k] ELSE s[k] - seq[i] + x
          /\ t[k - 1] = IF k - 1 < i THEN s[k - 1] ELSE s[k - 1] - seq[i] + x
      BY <1>2, <2>2
    <3>3. changed[k] = IF k = i THEN x ELSE seq[k]
      BY <1>3
    <3> HIDE DEF t, changed
    <3>4. CASE k < i
      BY <3>1, <3>2, <3>3, <3>4
    <3>5. CASE k = i
      BY <1>2, <3>1, <3>2, <3>3, <3>5, SMTT(30)
    <3>6. CASE k > i
      <4>1. ~ k < i /\ ~ k - 1 < i /\ k # i
        BY <3>1, <3>6
      <4>2. t[k] = s[k] - seq[i] + x /\ t[k - 1] = s[k - 1] - seq[i] + x
        BY <3>2, <4>1
      <4>3. changed[k] = seq[k]
        BY <3>3, <4>1
      <4>4. (s[k - 1] + seq[k]) - seq[i] + x = (s[k - 1] - seq[i] + x) + seq[k]
        BY <1>2, <3>1, SMTT(30)
      <4> QED BY <3>1, <4>2, <4>3, <4>4, Zenon
    <3> QED BY <3>1, <3>4, <3>5, <3>6
  <2> QED BY <2>1, <2>2 DEF PartialSums
<1>5. SeqSum(changed) = t[N] /\ SeqSum(seq) = s[N]
  BY <1>1, <1>2, <1>4, SeqSumIsTheLast
<1> QED BY <1>2, <1>5

(* Nothing is said of the elements that is not said of the sums.           *)
THEOREM SumsCompare ==
  ASSUME NEW s \in Seq(Int), NEW t \in Seq(Int), NEW u \in Seq(Int),
         Len(t) = Len(s), Len(u) = Len(s),
         NEW a \in Int, NEW b \in Int, NEW c \in Int,
         \A i \in 1..Len(s) : a * s[i] <= b * t[i] + c * u[i]
  PROVE  a * SeqSum(s) <= b * SeqSum(t) + c * SeqSum(u)
<1> DEFINE N == Len(s)
<1>1. PICK f : PartialSums(s, N, f)
  BY PartialSumsExist
<1>2. PICK g : PartialSums(t, N, g)
  BY PartialSumsExist
<1>3. PICK h : PartialSums(u, N, h)
  BY PartialSumsExist
<1>4. N \in Nat /\ SeqSum(s) = f[N] /\ SeqSum(t) = g[N] /\ SeqSum(u) = h[N]
  BY <1>1, <1>2, <1>3, SeqSumIsTheLast
<1> HIDE DEF N
<1> DEFINE Bad == {k \in 0..N : ~(a * f[k] <= b * g[k] + c * h[k])}
<1>5. SUFFICES ASSUME Bad # {} PROVE FALSE
  BY <1>4
<1>6. PICK k \in Bad : \A m \in Bad : k <= m
  <2>1. Bad \subseteq Nat
    BY <1>4
  <2> HIDE DEF Bad
  <2> QED BY <1>5, <2>1, LeastElement
<1>7. k \in 0..N /\ k # 0
  BY <1>1, <1>2, <1>3, <1>6 DEF PartialSums
<1>8. k - 1 \in 0..N /\ k - 1 \notin Bad
  BY <1>4, <1>6, <1>7
<1>9. PICK x \in Int, y \in Int, z \in Int, x1 \in Int, y1 \in Int, z1 \in Int :
        /\ x = f[k - 1] /\ y = g[k - 1] /\ z = h[k - 1]
        /\ x1 = s[k] /\ y1 = t[k] /\ z1 = u[k]
        /\ f[k] = x + x1 /\ g[k] = y + y1 /\ h[k] = z + z1
  <2>1. k \in 1..N
    BY <1>4, <1>7
  <2>2. /\ f[k - 1] \in Int /\ g[k - 1] \in Int /\ h[k - 1] \in Int
        /\ f[k] = f[k - 1] + s[k] /\ g[k] = g[k - 1] + t[k] /\ h[k] = h[k - 1] + u[k]
    BY <1>1, <1>2, <1>3, <1>8, <2>1 DEF PartialSums
  <2>3. s[k] \in Int /\ t[k] \in Int /\ u[k] \in Int
    BY <2>1, SMTT(30) DEF N
  <2> QED BY <2>2, <2>3
<1>10. a * x <= b * y + c * z
  BY <1>8, <1>9
<1>11. a * x1 <= b * y1 + c * z1
  BY <1>4, <1>7, <1>9 DEF N
<1>12. /\ a * (x + x1) = a * x + a * x1 /\ b * (y + y1) = b * y + b * y1
       /\ c * (z + z1) = c * z + c * z1
  OBVIOUS
<1>13. a * (x + x1) <= b * (y + y1) + c * (z + z1)
  BY <1>10, <1>11, <1>12
<1> QED BY <1>6, <1>9, <1>13

COROLLARY SumsAreOrdered ==
  ASSUME NEW s \in Seq(Int), NEW t \in Seq(Int), Len(t) = Len(s),
         \A i \in 1..Len(s) : s[i] <= t[i]
  PROVE  SeqSum(s) <= SeqSum(t)
<1>1. PICK one \in Int, none \in Int : one = 1 /\ none = 0
  OBVIOUS
<1>2. ASSUME NEW i \in 1..Len(s) PROVE one * s[i] <= one * t[i] + none * t[i]
  <2>1. PICK x \in Int, y \in Int : x = s[i] /\ y = t[i]
    OBVIOUS
  <2>2. x <= y
    BY <2>1
  <2>3. one * x = x /\ one * y = y /\ none * y = 0
    BY <1>1
  <2>4. one * x <= one * y + none * y
    BY <2>2, <2>3
  <2> QED BY <2>1, <2>4
<1>3. one * SeqSum(s) <= one * SeqSum(t) + none * SeqSum(t)
  BY <1>2, SumsCompare
<1>4. PICK x \in Int, y \in Int : x = SeqSum(s) /\ y = SeqSum(t)
  BY SeqSumIsInt
<1>5. one * x <= one * y + none * y
  BY <1>3, <1>4
<1>6. one * x = x /\ one * y = y /\ none * y = 0
  BY <1>1
<1> QED BY <1>4, <1>5, <1>6

COROLLARY SumOfNaturals ==
  ASSUME NEW s \in Seq(Nat)
  PROVE  SeqSum(s) \in Nat
<1>1. PICK one \in Int, none \in Int : one = 1 /\ none = 0
  OBVIOUS
<1>2. s \in Seq(Int)
  OBVIOUS
<1>3. ASSUME NEW i \in 1..Len(s) PROVE none * s[i] <= one * s[i] + none * s[i]
  <2>1. PICK x \in Nat : x = s[i]
    OBVIOUS
  <2>2. one * x = x /\ none * x = 0
    BY <1>1
  <2> QED BY <2>1, <2>2
<1>4. none * SeqSum(s) <= one * SeqSum(s) + none * SeqSum(s)
  BY <1>2, <1>3, SumsCompare
<1>5. PICK x \in Int : x = SeqSum(s)
  BY <1>2, SeqSumIsInt
<1>6. none * x <= one * x + none * x
  BY <1>4, <1>5
<1>7. one * x = x /\ none * x = 0
  BY <1>1
<1> QED BY <1>5, <1>6, <1>7

-----------------------------------------------------------------------------
(* Recursion.                                                              *)

IsIteration(f, X, x, n, step) ==
  f \in [0..n -> X] /\ f[0] = x /\ \A k \in 1..n : f[k] = step[k][f[k - 1]]

(* Steps within a set can be taken one after the other, n times.           *)
LEMMA Iterates ==
  ASSUME NEW X, NEW x \in X, NEW n \in Nat, NEW step \in [1..n -> [X -> X]]
  PROVE  \E f : IsIteration(f, X, x, n, step)
<1> USE DEF IsIteration
<1> DEFINE Taken(f, m) == f \in [0..m -> X] /\ f[0] = x /\ \A k \in 1..m : f[k] = step[k][f[k - 1]]
           Without == {m \in 0..n : ~ \E f : Taken(f, m)}
<1>1. SUFFICES ASSUME Without # {} PROVE FALSE
  <2>1. n \in 0..n
    OBVIOUS
  <2> QED BY <2>1
<1>2. PICK m \in Without : \A k \in Without : m <= k
  <2>1. Without \subseteq Nat
    OBVIOUS
  <2> HIDE DEF Without
  <2> QED BY <1>1, <2>1, LeastElement
<1>3. m \in 0..n /\ ~ \E f : Taken(f, m)
  OBVIOUS
<1>4. m # 0
  <2>1. Taken([k \in 0..0 |-> x], 0)
    OBVIOUS
  <2> QED BY <1>3, <2>1
<1>5. m - 1 \in 0..n /\ m - 1 \notin Without /\ m \in 1..n
  <2>1. m - 1 \in 0..n /\ m \in 1..n /\ ~(m <= m - 1)
    BY <1>3, <1>4
  <2> HIDE DEF Without
  <2> QED BY <1>2, <2>1
<1>6. PICK f : Taken(f, m - 1)
  BY <1>5
<1> DEFINE y == step[m][f[m - 1]]
           g == [k \in 0..m |-> IF k = m THEN y ELSE f[k]]
<1>7. Taken(g, m)
  <2>1. m - 1 \in 0..(m - 1) /\ f[m - 1] \in X
    BY <1>5, <1>6
  <2>2. y \in X
    BY <1>5, <2>1
  <2> HIDE DEF y
  <2>3. g \in [0..m -> X] /\ g[0] = x
    BY <1>3, <1>4, <1>6, <2>2
  <2>4. ASSUME NEW k \in 1..m PROVE g[k] = step[k][g[k - 1]]
    <3>1. k - 1 \in 0..m /\ k - 1 # m /\ k \in 0..m /\ g[k - 1] = f[k - 1]
      BY <1>3
    <3>2. CASE k = m
      BY <3>1, <3>2 DEF y
    <3>3. CASE k # m
      <4>1. k \in 1..(m - 1) /\ g[k] = f[k]
        BY <1>3, <3>1, <3>3
      <4> QED BY <1>6, <3>1, <4>1
    <3> QED BY <3>2, <3>3
  <2> QED BY <2>3, <2>4
<1> QED BY <1>3, <1>7

-----------------------------------------------------------------------------
(* Going through a finite set, one element after the other.                *)

Elem(T) == CHOOSE x \in T : TRUE

Counted(S) ==
  \A T \in SUBSET S :
    /\ Cardinality(T) \in Nat /\ (Cardinality(T) = 0 => T = {})
    /\ T # {} => /\ Elem(T) \in T /\ T \ {Elem(T)} \in SUBSET S
                 /\ Cardinality(T \ {Elem(T)}) = Cardinality(T) - 1

LEMMA PartsAreCounted ==
  ASSUME NEW S, IsFiniteSet(S)
  PROVE  Counted(S)
<1>1. SUFFICES ASSUME NEW T \in SUBSET S
      PROVE  /\ Cardinality(T) \in Nat /\ (Cardinality(T) = 0 => T = {})
             /\ T # {} => /\ Elem(T) \in T /\ T \ {Elem(T)} \in SUBSET S
                          /\ Cardinality(T \ {Elem(T)}) = Cardinality(T) - 1
  BY DEF Counted
<1>2. IsFiniteSet(T)
  BY FS_Subset
<1>3. Cardinality(T) \in Nat /\ (Cardinality(T) = 0 => T = {})
  BY <1>2, FS_CardinalityType, FS_EmptySet
<1>4. ASSUME T # {}
      PROVE  /\ Elem(T) \in T /\ T \ {Elem(T)} \in SUBSET S
             /\ Cardinality(T \ {Elem(T)}) = Cardinality(T) - 1
  <2>1. Elem(T) \in T
    BY <1>4 DEF Elem
  <2> QED BY <1>2, <2>1, FS_RemoveElement
<1> QED BY <1>3, <1>4

\* What holds of nothing, and of a part when it holds of the part without its
\* element, holds of every part.
LEMMA PartsInduction ==
  ASSUME NEW S, IsFiniteSet(S), NEW Good, {} \in Good,
         \A T \in SUBSET S : T # {} /\ T \ {Elem(T)} \in Good => T \in Good
  PROVE  \A T \in SUBSET S : T \in Good
<1> DEFINE Bad == {k \in Nat : \E T \in SUBSET S : Cardinality(T) = k /\ T \notin Good}
<1>1. Counted(S)
  BY PartsAreCounted
<1>2. ASSUME Bad # {} PROVE FALSE
  <2>1. PICK k \in Bad : \A m \in Bad : k <= m
    <3>1. Bad \subseteq Nat
      OBVIOUS
    <3> HIDE DEF Bad
    <3> QED BY <1>2, <3>1, LeastElement
  <2>2. PICK T \in SUBSET S : Cardinality(T) = k /\ T \notin Good
    BY <2>1
  <2>3. T # {}
    BY <2>2
  <2>4. /\ T \ {Elem(T)} \in SUBSET S /\ Cardinality(T \ {Elem(T)}) = k - 1
        /\ k - 1 \in Nat
    <3>1. Cardinality(T \ {Elem(T)}) \in Nat
      BY <1>1, <2>3 DEF Counted
    <3> QED BY <1>1, <2>2, <2>3, <3>1 DEF Counted
  <2>5. k - 1 \notin Bad
    BY <2>1, <2>4
  <2>6. T \ {Elem(T)} \in Good
    BY <2>4, <2>5
  <2> QED BY <2>2, <2>3, <2>6
<1> QED BY <1>1, <1>2 DEF Counted

\* p[T] is what b becomes when the steps of T's elements are taken.
Folds(p, S, V, b, step) ==
  /\ p \in [SUBSET S -> V] /\ p[{}] = b
  /\ \A T \in SUBSET S : T # {} => p[T] = step[Elem(T)][p[T \ {Elem(T)}]]

LEMMA FoldsExist ==
  ASSUME NEW S, IsFiniteSet(S), NEW V, NEW b \in V, NEW step \in [S -> [V -> V]]
  PROVE  \E p : Folds(p, S, V, b, step)
<1> DEFINE Small(n) == {T \in SUBSET S : Cardinality(T) <= n}
           FoldsUpTo(p, n) ==
             /\ p \in [Small(n) -> V] /\ p[{}] = b
             /\ \A T \in Small(n) : T # {} => p[T] = step[Elem(T)][p[T \ {Elem(T)}]]
           Without == {n \in Nat : ~ \E p : FoldsUpTo(p, n)}
<1>1. Counted(S) /\ Cardinality({}) = 0 /\ {} \in SUBSET S
  BY PartsAreCounted, FS_EmptySet
<1>2. ASSUME Without # {} PROVE FALSE
  <2>1. PICK n \in Without : \A m \in Without : n <= m
    <3>1. Without \subseteq Nat
      OBVIOUS
    <3> HIDE DEF Without
    <3> QED BY <1>2, <3>1, LeastElement
  <2>2. n \in Nat /\ ~ \E p : FoldsUpTo(p, n)
    OBVIOUS
  <2>3. n # 0
    <3>1. FoldsUpTo([T \in Small(0) |-> b], 0)
      <4>1. {} \in Small(0)
        BY <1>1
      <4>2. ASSUME NEW T \in Small(0) PROVE T = {}
        <5>1. Cardinality(T) \in Nat /\ Cardinality(T) <= 0 /\ (Cardinality(T) = 0 => T = {})
          BY <1>1 DEF Counted
        <5> QED BY <5>1
      <4>3. PICK g : g = [T \in Small(0) |-> b]
        OBVIOUS
      <4>4. g \in [Small(0) -> V] /\ g[{}] = b
        BY <4>1, <4>3
      <4> QED BY <4>2, <4>3, <4>4
    <3>2. \E p : FoldsUpTo(p, 0)
      <4> HIDE DEF FoldsUpTo
      <4> QED BY <3>1
    <3> HIDE DEF FoldsUpTo
    <3> QED BY <2>2, <3>2
  <2>4. n - 1 \in Nat /\ n - 1 \notin Without
    <3> HIDE DEF Without
    <3> QED BY <2>1, <2>2, <2>3
  <2>5. PICK p : FoldsUpTo(p, n - 1)
    BY <2>4
  <2> DEFINE q == [T \in Small(n) |->
                     IF T = {} THEN b ELSE step[Elem(T)][p[T \ {Elem(T)}]]]
  <2>6. \A T \in Small(n) : T # {} => T \ {Elem(T)} \in Small(n - 1) /\ step[Elem(T)] \in [V -> V]
    BY <1>1, <2>2 DEF Counted
  <2>7. \A T \in Small(n - 1) : T \in Small(n)
    <3>1. ASSUME NEW T \in SUBSET S, Cardinality(T) <= n - 1 PROVE Cardinality(T) <= n
      <4>1. PICK k \in Nat : k = Cardinality(T)
        BY <1>1 DEF Counted
      <4> QED BY <2>2, <3>1, <4>1
    <3> QED BY <3>1
  <2>8. {} \in Small(n) /\ {} \in Small(n - 1)
    BY <1>1, <2>2, <2>4
  <2> HIDE DEF Small
  <2>9. q \in [Small(n) -> V] /\ q[{}] = b
    BY <2>5, <2>6, <2>8
  <2>10. \A T \in Small(n - 1) : q[T] = p[T]
    BY <2>5, <2>7
  <2>11. \A T \in Small(n) : T # {} => q[T] = step[Elem(T)][q[T \ {Elem(T)}]]
    BY <2>6, <2>10
  <2>12. FoldsUpTo(q, n)
    BY <2>9, <2>11
  <2> QED BY <2>2, <2>12
<1>3. PICK n \in Nat : n = Cardinality(S)
  BY FS_CardinalityType
<1>4. Small(n) = SUBSET S
  BY <1>3, FS_Subset
<1>5. PICK p : FoldsUpTo(p, n)
  BY <1>2
<1> QED BY <1>4, <1>5 DEF Folds

-----------------------------------------------------------------------------
(* The greatest common divisor.                                            *)

\* What it is for: it divides both, and is a combination of them.
IsGcd(g, a, b) ==
  /\ g \in Nat
  /\ \E p, q \in Nat : a = g * p /\ b = g * q
  /\ \E u, v \in Int : u * a + v * b = g

\* Naturals that divide each other are equal.
LEMMA DivideEachOther ==
  ASSUME NEW a \in Nat, NEW b \in Nat, NEW j \in Int, NEW k \in Int, a = b * j, b = a * k
  PROVE  a = b
<1>1. CASE a = 0
  <2>1. 0 * k = 0
    OBVIOUS
  <2> QED BY <1>1, <2>1
<1>2. CASE a > 0 /\ b > 0
  <2>1. j >= 1
    <3>1. j < 1 => b * j <= 0
      <4>1. ASSUME j < 1 PROVE b * j <= 0
        <5>1. PICK m \in Nat : m = -j
          BY <4>1
        <5>2. b * m \in Nat /\ b * j = -(b * m)
          BY <5>1
        <5> QED BY <5>2
      <4> QED BY <4>1
    <3> QED BY <1>2, <3>1
  <2>2. k >= 1
    <3>1. k < 1 => a * k <= 0
      <4>1. ASSUME k < 1 PROVE a * k <= 0
        <5>1. PICK m \in Nat : m = -k
          BY <4>1
        <5>2. a * m \in Nat /\ a * k = -(a * m)
          BY <5>1
        <5> QED BY <5>2
      <4> QED BY <4>1
    <3> QED BY <1>2, <3>1
  <2>3. b * j >= b * 1 /\ a * k >= a * 1
    <3>1. 1 \in Nat /\ j \in Nat /\ k \in Nat
      BY <2>1, <2>2
    <3> QED BY <2>1, <2>2, <3>1, ProductsAreOrdered
  <2> QED BY <2>3
<1>3. CASE b = 0
  <2>1. 0 * j = 0
    OBVIOUS
  <2> QED BY <1>3, <2>1
<1> QED BY <1>1, <1>2, <1>3

LEMMA GcdIsUnique ==
  ASSUME NEW a \in Nat, NEW b \in Nat, NEW g, NEW h, IsGcd(g, a, b), IsGcd(h, a, b)
  PROVE  g = h
<1>1. PICK p \in Nat, q \in Nat : a = g * p /\ b = g * q
  BY DEF IsGcd
<1>2. PICK s \in Nat, t \in Nat : a = h * s /\ b = h * t
  BY DEF IsGcd
<1>3. PICK u \in Int, v \in Int : u * a + v * b = g
  BY DEF IsGcd
<1>4. PICK w \in Int, x \in Int : w * a + x * b = h
  BY DEF IsGcd
<1>5. g \in Nat /\ h \in Nat
  BY DEF IsGcd
<1>6. g = h * (u * s + v * t)
  <2>1. u * (h * s) + v * (h * t) = h * (u * s + v * t)
    BY <1>5
  <2> QED BY <1>2, <1>3, <2>1
<1>7. h = g * (w * p + x * q)
  <2>1. w * (g * p) + x * (g * q) = g * (w * p + x * q)
    BY <1>5
  <2> QED BY <1>1, <1>4, <2>1
<1>8. u * s + v * t \in Int /\ w * p + x * q \in Int
  OBVIOUS
<1> QED BY <1>5, <1>6, <1>7, <1>8, DivideEachOther

\* Euclid's step keeps it.
LEMMA GcdOfRemainder ==
  ASSUME NEW a \in Nat, NEW b \in Nat \ {0}, NEW g, IsGcd(g, b, a % b)
  PROVE  IsGcd(g, a, b)
<1>1. PICK d \in Nat, r \in Nat : d = a \div b /\ r = a % b /\ a = b * d + r
  <2>1. a \div b \in Nat /\ a % b \in Nat /\ a = b * (a \div b) + (a % b)
    OBVIOUS
  <2> QED BY <2>1
<1>2. PICK p \in Nat, q \in Nat : b = g * p /\ r = g * q
  BY <1>1 DEF IsGcd
<1>3. PICK u \in Int, v \in Int : u * b + v * r = g
  BY <1>1 DEF IsGcd
<1>4. g \in Nat
  BY DEF IsGcd
<1>5. a = g * (p * d + q)
  <2>1. (g * p) * d + g * q = g * (p * d + q)
    BY <1>4
  <2> QED BY <1>1, <1>2, <2>1
<1>6. v * a + (u - v * d) * b = g
  <2>1. v * (b * d + r) + (u - v * d) * b = u * b + v * r
    OBVIOUS
  <2> QED BY <1>1, <1>3, <2>1
<1>7. p * d + q \in Nat /\ u - v * d \in Int
  BY ProductOfNaturals
<1> QED BY <1>2, <1>4, <1>5, <1>6, <1>7 DEF IsGcd

LEMMA GcdOfZero ==
  ASSUME NEW a \in Nat
  PROVE  IsGcd(a, a, 0)
<1>1. a = a * 1 /\ 0 = a * 0 /\ 1 * a + 0 * 0 = a
  OBVIOUS
<1>2. 0 \in Nat /\ 1 \in Nat /\ 0 \in Int /\ 1 \in Int
  OBVIOUS
<1> QED BY <1>1, <1>2 DEF IsGcd

LEMMA GcdExists ==
  ASSUME NEW a \in Nat, NEW b \in Nat
  PROVE  \E g : IsGcd(g, a, b)
<1> DEFINE Bad == {n \in Nat : \E m \in Nat : ~ \E g : IsGcd(g, m, n)}
<1>1. ASSUME Bad # {} PROVE FALSE
  <2>1. PICK n \in Bad : \A k \in Bad : n <= k
    <3>1. Bad \subseteq Nat
      OBVIOUS
    <3> HIDE DEF Bad
    <3> QED BY <1>1, <3>1, LeastElement
  <2>2. PICK m \in Nat : ~ \E g : IsGcd(g, m, n)
    BY <2>1
  <2>3. n # 0
    BY <2>2, GcdOfZero
  <2>4. m % n \in Nat /\ m % n < n /\ n \in Nat
    <3>1. n \in Nat
      BY <2>1
    <3> HIDE DEF Bad
    <3> QED BY <2>3, <3>1
  <2>5. m % n \notin Bad
    <3>1. ~(n <= m % n)
      BY <2>4
    <3> HIDE DEF Bad
    <3> QED BY <2>1, <3>1
  <2>6. PICK g : IsGcd(g, n, m % n)
    BY <2>4, <2>5
  <2> QED BY <2>2, <2>3, <2>4, <2>6, GcdOfRemainder
<1> QED BY <1>1

\* Euclid's algorithm, the recursive function, computes it for every pair.
THEOREM GcdIsGcd == \A a, b \in Nat : IsGcd(Gcd(a, b), a, b)
<1> DEFINE Body(f) == [z \in Nat \X Nat |-> IF z[2] = 0 THEN z[1] ELSE f[<<z[2], z[1] % z[2]>>]]
           p == [z \in Nat \X Nat |-> CHOOSE g : IsGcd(g, z[1], z[2])]
<1>1. \A a, b \in Nat : IsGcd(p[<<a, b>>], a, b)
  BY GcdExists
<1>2. DOMAIN p = Nat \X Nat /\ p = [z \in Nat \X Nat |-> p[z]]
  OBVIOUS
<1> HIDE DEF p
<1>3. ASSUME NEW a \in Nat, NEW b \in Nat
      PROVE  p[<<a, b>>] = IF b = 0 THEN a ELSE p[<<b, a % b>>]
  <2>1. CASE b = 0
    BY <1>1, <2>1, GcdOfZero, GcdIsUnique
  <2>2. CASE b # 0
    <3>1. a % b \in Nat
      BY <2>2
    <3>2. IsGcd(p[<<b, a % b>>], a, b)
      BY <1>1, <2>2, <3>1, GcdOfRemainder
    <3> QED BY <1>1, <2>2, <3>2, GcdIsUnique
  <2> QED BY <2>1, <2>2
<1>4. p = Body(p)
  <2>1. \A z \in Nat \X Nat : z = <<z[1], z[2]>> /\ z[1] \in Nat /\ z[2] \in Nat
    OBVIOUS
  <2>2. \A z \in Nat \X Nat : p[z] = IF z[2] = 0 THEN z[1] ELSE p[<<z[2], z[1] % z[2]>>]
    <3>1. ASSUME NEW z \in Nat \X Nat
          PROVE  p[z] = IF z[2] = 0 THEN z[1] ELSE p[<<z[2], z[1] % z[2]>>]
      <4>1. PICK a \in Nat, b \in Nat : a = z[1] /\ b = z[2] /\ z = <<a, b>>
        BY <2>1
      <4>2. p[<<a, b>>] = IF b = 0 THEN a ELSE p[<<b, a % b>>]
        BY <1>3
      <4> QED BY <4>1, <4>2
    <3> QED BY <3>1
  <2> QED BY <1>2, <2>2
<1>5. Euclid = Body(Euclid)
  <2>1. Euclid = (CHOOSE f : f = Body(f))
    BY DEF Euclid
  <2> HIDE DEF Body
  <2> QED BY <1>4, <2>1
<1>6. \A a, b \in Nat : Gcd(a, b) = IF b = 0 THEN a ELSE Gcd(b, a % b)
  BY <1>5 DEF Gcd
<1> HIDE DEF Body
<1> DEFINE Bad == {n \in Nat : \E m \in Nat : ~IsGcd(Gcd(m, n), m, n)}
<1>7. ASSUME Bad # {} PROVE FALSE
  <2>1. PICK n \in Bad : \A k \in Bad : n <= k
    <3>1. Bad \subseteq Nat
      OBVIOUS
    <3> HIDE DEF Bad
    <3> QED BY <1>7, <3>1, LeastElement
  <2>2. PICK m \in Nat : ~IsGcd(Gcd(m, n), m, n)
    BY <2>1
  <2>3. n # 0
    BY <1>6, <2>2, GcdOfZero
  <2>4. m % n \in Nat /\ m % n < n /\ n \in Nat
    <3>1. n \in Nat
      BY <2>1
    <3> HIDE DEF Bad
    <3> QED BY <2>3, <3>1
  <2>5. m % n \notin Bad
    <3> HIDE DEF Bad
    <3>1. ~(n <= m % n)
      BY <2>4
    <3> QED BY <2>1, <3>1
  <2>6. IsGcd(Gcd(n, m % n), n, m % n)
    BY <2>4, <2>5
  <2> QED BY <1>6, <2>2, <2>3, <2>4, <2>6, GcdOfRemainder
<1> QED BY <1>7

-----------------------------------------------------------------------------
(* Fractions in lowest terms.                                              *)

Coprime(a, b) == \E u, v \in Int : u * a + v * b = 1
Lowest(x) == x \in Int \X (Nat \ {0}) /\ Coprime(x[1], x[2])

\* x is n / d.
IsValue(x, n, d) == x[1] * d = n * x[2]

LEMMA Cancelled ==
  ASSUME NEW a \in Int, NEW b \in Int, NEW k \in Nat \ {0}, a * k = b * k
  PROVE  a = b
<1>1. \A m \in Nat \ {0} : m * k # 0
  <2>1. ASSUME NEW m \in Nat \ {0} PROVE m * k >= m * 1
    BY ProductsAreOrdered
  <2> QED BY <2>1
<1>2. CASE a > b
  <2>1. PICK m \in Nat \ {0} : m = a - b
    BY <1>2
  <2>2. m * k = a * k - b * k
    BY <2>1
  <2>3. a * k \in Int /\ b * k \in Int
    OBVIOUS
  <2> QED BY <1>1, <2>2, <2>3
<1>3. CASE a < b
  <2>1. PICK m \in Nat \ {0} : m = b - a
    BY <1>3
  <2>2. m * k = b * k - a * k
    BY <2>1
  <2>3. a * k \in Int /\ b * k \in Int
    OBVIOUS
  <2> QED BY <1>1, <2>2, <2>3
<1> QED BY <1>2, <1>3

LEMMA DividedExactly ==
  ASSUME NEW g \in Nat \ {0}, NEW k \in Int
  PROVE  (g * k) \div g = k
<1>1. PICK a \in Int : a = g * k
  OBVIOUS
<1>2. PICK q \in Int : q = a \div g
  BY IntegerQuotient
<1>3. g * q <= a /\ a < g * q + g
  BY <1>2, IntegerQuotient
<1>4. q <= k
  <2>1. a < g * (k + 1)
    <3>1. g * (k + 1) = a + g
      BY <1>1
    <3> QED BY <3>1
  <2> QED BY <1>2, <2>1, QuotientBelow
<1>5. q >= k
  <2>1. SUFFICES ASSUME q < k PROVE FALSE
    OBVIOUS
  <2>2. PICK m \in Nat : k = q + 1 + m
    <3>1. k - q - 1 \in Nat /\ k = q + 1 + (k - q - 1)
      BY <2>1
    <3> QED BY <3>1
  <2>3. a = g * q + g + g * m
    BY <1>1, <2>2
  <2>4. g * m \in Nat /\ g * q \in Int
    OBVIOUS
  <2> QED BY <1>3, <2>3, <2>4
<1> QED BY <1>1, <1>2, <1>4, <1>5

\* Two naturals above zero divided by their greatest common divisor are
\* coprime.
LEMMA DividedByGcd ==
  ASSUME NEW a \in Nat \ {0}, NEW b \in Nat
  PROVE  \E g \in Nat \ {0}, p \in Nat \ {0}, q \in Nat :
           g = Gcd(a, b) /\ a = g * p /\ b = g * q /\ Coprime(p, q)
<1>1. PICK g : g = Gcd(a, b) /\ IsGcd(g, a, b)
  BY GcdIsGcd
<1>2. PICK p \in Nat, q \in Nat : a = g * p /\ b = g * q
  BY <1>1 DEF IsGcd
<1>3. PICK u \in Int, v \in Int : u * a + v * b = g
  BY <1>1 DEF IsGcd
<1>4. g \in Nat \ {0}
  <2>1. 0 * p = 0
    OBVIOUS
  <2> QED BY <1>1, <1>2, <2>1 DEF IsGcd
<1>5. p # 0
  <2>1. g * 0 = 0
    BY <1>4
  <2> QED BY <1>2, <2>1
<1>6. u * p + v * q = 1
  <2>1. (u * p + v * q) * g = 1 * g
    <3>1. (u * p + v * q) * g = u * (g * p) + v * (g * q)
      BY <1>4
    <3> QED BY <1>2, <1>3, <1>4, <3>1
  <2>2. u * p + v * q \in Int
    OBVIOUS
  <2> QED BY <1>4, <2>1, <2>2, Cancelled
<1> QED BY <1>1, <1>2, <1>4, <1>5, <1>6 DEF Coprime

LEMMA CoprimeOfNegative ==
  ASSUME NEW a \in Int, NEW b \in Int, Coprime(a, b)
  PROVE  Coprime(b, a) /\ Coprime(-a, b) /\ Coprime(a, -b)
<1>1. PICK u \in Int, v \in Int : u * a + v * b = 1
  BY DEF Coprime
<1>2. v * b + u * a = 1 /\ (-u) * (-a) + v * b = 1 /\ u * a + (-v) * (-b) = 1
  BY <1>1
<1>3. -u \in Int /\ -v \in Int
  OBVIOUS
<1> QED BY <1>2, <1>3 DEF Coprime

LEMMA CoprimeToBoth ==
  ASSUME NEW a \in Int, NEW b \in Int, NEW c \in Int, Coprime(a, b), Coprime(a, c)
  PROVE  Coprime(a, b * c)
<1>1. PICK u \in Int, v \in Int : u * a + v * b = 1
  BY DEF Coprime
<1>2. PICK s \in Int, t \in Int : s * a + t * c = 1
  BY DEF Coprime
<1>3. (u * s * a + u * t * c + v * b * s) * a + (v * t) * (b * c) = (u * a + v * b) * (s * a + t * c)
  OBVIOUS
<1>4. (u * a + v * b) * (s * a + t * c) = 1
  BY <1>1, <1>2
<1>5. u * s * a + u * t * c + v * b * s \in Int /\ v * t \in Int
  OBVIOUS
<1> QED BY <1>3, <1>4, <1>5 DEF Coprime

\* Two fractions in lowest terms that are worth the same are the same: to
\* compare them with = is to compare the rationals they stand for.
THEOREM SameValue ==
  ASSUME NEW x, NEW y, Lowest(x), Lowest(y),
         NEW n \in Int, NEW m \in Int, NEW d \in Nat \ {0}, NEW e \in Nat \ {0},
         IsValue(x, n, d), IsValue(y, m, e), n * e = m * d
  PROVE  x = y
<1>1. PICK a \in Int, b \in Nat \ {0} : x = <<a, b>> /\ Coprime(a, b)
  BY DEF Lowest
<1>2. PICK c \in Int, f \in Nat \ {0} : y = <<c, f>> /\ Coprime(c, f)
  BY DEF Lowest
<1>3. a * d = n * b /\ c * e = m * f
  BY <1>1, <1>2 DEF IsValue
<1>4. a * f = c * b
  <2>1. (a * f) * (d * e) = (c * b) * (d * e)
    <3>1. (a * f) * (d * e) = (a * d) * (f * e)
      OBVIOUS
    <3>2. (n * b) * (f * e) = (n * e) * (b * f)
      OBVIOUS
    <3>3. (m * d) * (b * f) = (m * f) * (b * d)
      OBVIOUS
    <3>4. (c * e) * (b * d) = (c * b) * (d * e)
      OBVIOUS
    <3> QED BY <1>3, <3>1, <3>2, <3>3, <3>4
  <2>2. d * e \in Nat \ {0}
    <3>1. d * e >= d * 1
      BY ProductsAreOrdered
    <3> QED BY <3>1
  <2>3. a * f \in Int /\ c * b \in Int
    OBVIOUS
  <2> QED BY <2>1, <2>2, <2>3, Cancelled
<1>5. b = f
  <2>1. PICK u \in Int, v \in Int : u * a + v * b = 1
    BY <1>1 DEF Coprime
  <2>2. PICK s \in Int, t \in Int : s * c + t * f = 1
    BY <1>2 DEF Coprime
  <2>3. f = b * (u * c + v * f)
    <3>1. (u * a + v * b) * f = u * (a * f) + v * b * f
      OBVIOUS
    <3>2. b * (u * c + v * f) = u * (c * b) + v * b * f
      OBVIOUS
    <3>3. (u * a + v * b) * f = f
      BY <2>1
    <3> QED BY <1>4, <3>1, <3>2, <3>3
  <2>4. b = f * (s * a + t * b)
    <3>1. (s * c + t * f) * b = s * (c * b) + t * f * b
      OBVIOUS
    <3>2. f * (s * a + t * b) = s * (a * f) + t * f * b
      OBVIOUS
    <3>3. (s * c + t * f) * b = b
      BY <2>2
    <3> QED BY <1>4, <3>1, <3>2, <3>3
  <2>5. u * c + v * f \in Int /\ s * a + t * b \in Int
    OBVIOUS
  <2>6. b \in Nat /\ f \in Nat
    OBVIOUS
  <2> QED BY <2>3, <2>4, <2>5, <2>6, DivideEachOther
<1>6. a = c
  <2>1. a * b = c * b
    BY <1>4, <1>5
  <2> QED BY <2>1, Cancelled
<1> QED BY <1>1, <1>2, <1>5, <1>6

\* A natural above zero and a whole number divided by their greatest common
\* divisor: p and q are what is left of a and b.
LeftOf(a, b, g, p, q) ==
  /\ g = Gcd(a, Abs(b)) /\ a = g * p /\ b = g * q
  /\ a \div g = p /\ b \div g = q /\ Coprime(q, p)
LEMMA DividedBySigned ==
  ASSUME NEW a \in Nat \ {0}, NEW b \in Int
  PROVE  \E g \in Nat \ {0}, p \in Nat \ {0}, q \in Int : LeftOf(a, b, g, p, q)
<1>1. Abs(b) \in Nat /\ (b = Abs(b) \/ b = -Abs(b))
  BY DEF Abs
<1>2. PICK g \in Nat \ {0}, p \in Nat \ {0}, q \in Nat :
        g = Gcd(a, Abs(b)) /\ a = g * p /\ Abs(b) = g * q /\ Coprime(p, q)
  BY <1>1, DividedByGcd
<1>3. Coprime(q, p) /\ Coprime(-q, p)
  <2>1. Coprime(q, p)
    BY <1>2, CoprimeOfNegative
  <2> QED BY <2>1, CoprimeOfNegative
<1>4. PICK r \in Int : (r = q \/ r = -q) /\ b = g * r
  <2>1. -(g * q) = g * (-q) /\ -q \in Int /\ q \in Int
    OBVIOUS
  <2> QED BY <1>1, <1>2, <2>1
<1>5. Coprime(r, p)
  BY <1>3, <1>4
<1>6. a \div g = p /\ b \div g = r
  <2>1. (g * p) \div g = p /\ (g * r) \div g = r
    BY DividedExactly
  <2> QED BY <1>2, <1>4, <2>1
<1> QED BY <1>2, <1>4, <1>5, <1>6 DEF LeftOf

LEMMA WholeIs ==
  ASSUME NEW n \in Int
  PROVE  Lowest(Whole(n)) /\ Whole(n)[1] = n /\ Whole(n)[2] = 1
<1>1. 0 * n + 1 * 1 = 1 /\ 0 \in Int /\ 1 \in Int
  OBVIOUS
<1>2. Coprime(n, 1)
  BY <1>1 DEF Coprime
<1> QED BY <1>2 DEF Lowest, Whole

LEMMA FracIs ==
  ASSUME NEW n \in Int, NEW d \in Nat \ {0}
  PROVE  Lowest(Frac(n, d)) /\ IsValue(Frac(n, d), n, d)
<1>1. CASE d = 1
  <2>1. Frac(n, d) = Whole(n)
    BY <1>1 DEF Frac, Whole
  <2> QED BY <1>1, <2>1, WholeIs DEF IsValue
<1>2. CASE d # 1
  <2>1. PICK g \in Nat \ {0}, p \in Nat \ {0}, q \in Int :
          LeftOf(d, n, g, p, q)
    BY DividedBySigned
  <2>2. Frac(n, d) = <<q, p>>
    BY <1>2, <2>1 DEF Frac, DividedBy, LeftOf
  <2>3. q * (g * p) = (g * q) * p
    OBVIOUS
  <2> QED BY <2>1, <2>2, <2>3 DEF Lowest, IsValue, LeftOf
<1> QED BY <1>1, <1>2

LEMMA PlusIs ==
  ASSUME NEW x, NEW y, Lowest(x), Lowest(y)
  PROVE  Lowest(Plus(x, y)) /\ IsValue(Plus(x, y), x[1] * y[2] + y[1] * x[2], x[2] * y[2])
<1>1. PICK a \in Int, b \in Nat \ {0} : x = <<a, b>>
  BY DEF Lowest
<1>2. PICK c \in Int, f \in Nat \ {0} : y = <<c, f>>
  BY DEF Lowest
<1>3. CASE b = f
  <2>1. PICK z : z = Plus(x, y) /\ z = Frac(a + c, b)
    BY <1>1, <1>2, <1>3 DEF Plus
  <2>2. Lowest(z) /\ z[1] * b = (a + c) * z[2]
    BY <2>1, FracIs DEF IsValue
  <2>3. PICK r \in Int, s \in Int : r = z[1] /\ s = z[2]
    BY <2>2 DEF Lowest
  <2>4. r * (b * b) = (a * b + c * b) * s
    <3>1. r * (b * b) = (r * b) * b
      OBVIOUS
    <3>2. ((a + c) * s) * b = (a * b + c * b) * s
      OBVIOUS
    <3> QED BY <2>2, <2>3, <3>1, <3>2
  <2> QED BY <1>1, <1>2, <1>3, <2>1, <2>2, <2>3, <2>4 DEF IsValue
<1>4. CASE b # f
  <2>1. Abs(f) = f /\ f \in Int
    BY DEF Abs
  <2>2. PICK k \in Nat \ {0}, p \in Nat \ {0}, q \in Int :
          LeftOf(b, f, k, p, q)
    BY <2>1, DividedBySigned
  <2>3. PICK n \in Int, d \in Nat \ {0} : n = a * q + c * p /\ d = p * f
    <3>1. p * f >= p * 1
      BY ProductsAreOrdered
    <3> QED BY <3>1
  <2>4. PICK z : z = Plus(x, y) /\ z = Frac(n, d)
    BY <1>1, <1>2, <1>4, <2>1, <2>2, <2>3 DEF Plus, PlusOver, LeftOf
  <2>5. Lowest(z) /\ z[1] * d = n * z[2]
    BY <2>4, FracIs DEF IsValue
  <2>6. PICK r \in Int, s \in Int : r = z[1] /\ s = z[2]
    BY <2>5 DEF Lowest
  <2>7. r * (b * f) = (a * f + c * b) * s
    <3>1. r * (b * f) = (r * (p * f)) * k
      <4>1. r * ((k * p) * f) = (r * (p * f)) * k
        OBVIOUS
      <4> QED BY <2>2, <4>1 DEF LeftOf
    <3>2. (a * f + c * b) * s = ((a * q + c * p) * s) * k
      <4>1. (a * (k * q) + c * (k * p)) * s = ((a * q + c * p) * s) * k
        OBVIOUS
      <4> QED BY <2>2, <4>1 DEF LeftOf
    <3> QED BY <2>3, <2>5, <2>6, <3>1, <3>2
  <2> QED BY <1>1, <1>2, <2>4, <2>5, <2>6, <2>7 DEF IsValue
<1> QED BY <1>3, <1>4

LEMMA ProductIs ==
  ASSUME NEW x, NEW y, Lowest(x), Lowest(y)
  PROVE  Lowest(Product(x, y)) /\ IsValue(Product(x, y), x[1] * y[1], x[2] * y[2])
<1>1. PICK a \in Int, b \in Nat \ {0} : x = <<a, b>> /\ Coprime(a, b)
  BY DEF Lowest
<1>2. PICK c \in Int, f \in Nat \ {0} : y = <<c, f>> /\ Coprime(c, f)
  BY DEF Lowest
<1>3. CASE b = 1 /\ f = 1
  <2>1. PICK n \in Int : n = a * c
    OBVIOUS
  <2>2. Product(x, y) = Whole(n)
    BY <1>1, <1>2, <1>3, <2>1 DEF Product, Whole
  <2>3. n * (1 * 1) = n * 1
    OBVIOUS
  <2> QED BY <1>1, <1>2, <1>3, <2>1, <2>2, <2>3, WholeIs DEF IsValue
<1>4. CASE ~(b = 1 /\ f = 1)
  <2>1. PICK j \in Nat \ {0}, fj \in Nat \ {0}, aj \in Int :
          LeftOf(f, a, j, fj, aj)
    BY DividedBySigned
  <2>2. PICK k \in Nat \ {0}, bk \in Nat \ {0}, ck \in Int :
          LeftOf(b, c, k, bk, ck)
    BY DividedBySigned
  <2>3. Coprime(aj, bk)
    <3>1. PICK u \in Int, v \in Int : u * a + v * b = 1
      BY <1>1 DEF Coprime
    <3>2. (u * j) * aj + (v * k) * bk = u * (j * aj) + v * (k * bk)
      OBVIOUS
    <3>3. (u * j) * aj + (v * k) * bk = 1
      BY <2>1, <2>2, <3>1, <3>2 DEF LeftOf
    <3>4. u * j \in Int /\ v * k \in Int
      OBVIOUS
    <3> QED BY <3>3, <3>4 DEF Coprime
  <2>4. Coprime(ck, fj)
    <3>1. PICK u \in Int, v \in Int : u * c + v * f = 1
      BY <1>2 DEF Coprime
    <3>2. (u * k) * ck + (v * j) * fj = u * (k * ck) + v * (j * fj)
      OBVIOUS
    <3>3. (u * k) * ck + (v * j) * fj = 1
      BY <2>1, <2>2, <3>1, <3>2 DEF LeftOf
    <3>4. u * k \in Int /\ v * j \in Int
      OBVIOUS
    <3> QED BY <3>3, <3>4 DEF Coprime
  <2>5. PICK n \in Int, d \in Nat \ {0} : n = aj * ck /\ d = bk * fj
    <3>1. bk * fj >= bk * 1
      BY ProductsAreOrdered
    <3> QED BY <3>1
  <2>6. Coprime(n, d)
    <3>1. Coprime(aj, d) /\ Coprime(ck, d)
      BY <2>1, <2>2, <2>3, <2>4, <2>5, CoprimeToBoth DEF LeftOf
    <3>2. Coprime(d, aj) /\ Coprime(d, ck)
      BY <3>1, CoprimeOfNegative
    <3>3. Coprime(d, n)
      BY <2>5, <3>2, CoprimeToBoth
    <3> QED BY <3>3, CoprimeOfNegative
  <2>7. Product(x, y) = <<n, d>>
    BY <1>1, <1>2, <1>4, <2>1, <2>2, <2>5 DEF Product, ProductOver, LeftOf
  <2>8. (aj * ck) * (b * f) = (a * c) * (bk * fj)
    <3>1. (aj * ck) * ((k * bk) * (j * fj)) = ((j * aj) * (k * ck)) * (bk * fj)
      OBVIOUS
    <3> QED BY <2>1, <2>2, <3>1 DEF LeftOf
  <2> QED BY <1>1, <1>2, <2>5, <2>6, <2>7, <2>8 DEF Lowest, IsValue
<1> QED BY <1>3, <1>4

-----------------------------------------------------------------------------
(* Their arithmetic is that of the rationals.                              *)

LEMMA ValueOfPlus ==
  ASSUME NEW x, NEW y, Lowest(x), Lowest(y),
         NEW n \in Int, NEW m \in Int, NEW d \in Nat \ {0}, NEW e \in Nat \ {0},
         IsValue(x, n, d), IsValue(y, m, e)
  PROVE  IsValue(Plus(x, y), n * e + m * d, d * e)
<1>1. PICK a \in Int, b \in Nat \ {0} : a = x[1] /\ b = x[2]
  BY DEF Lowest
<1>2. PICK c \in Int, f \in Nat \ {0} : c = y[1] /\ f = y[2]
  BY DEF Lowest
<1>3. PICK r \in Int, s \in Int : r = Plus(x, y)[1] /\ s = Plus(x, y)[2]
  BY PlusIs DEF Lowest
<1>4. r * (b * f) = (a * f + c * b) * s
  BY <1>1, <1>2, <1>3, PlusIs DEF IsValue
<1>5. a * d = n * b /\ c * e = m * f
  BY <1>1, <1>2 DEF IsValue
<1>6. (r * (d * e)) * (b * f) = ((n * e + m * d) * s) * (b * f)
  <2>1. (r * (d * e)) * (b * f) = (r * (b * f)) * (d * e)
    OBVIOUS
  <2>2. ((a * f + c * b) * s) * (d * e) = ((a * d) * f * e + (c * e) * b * d) * s
    OBVIOUS
  <2>3. ((n * b) * f * e + (m * f) * b * d) * s = ((n * e + m * d) * s) * (b * f)
    OBVIOUS
  <2> QED BY <1>4, <1>5, <2>1, <2>2, <2>3
<1>7. b * f \in Nat \ {0}
  <2>1. b * f >= b * 1
    BY ProductsAreOrdered
  <2> QED BY <2>1
<1>8. r * (d * e) \in Int /\ (n * e + m * d) * s \in Int
  OBVIOUS
<1>9. r * (d * e) = (n * e + m * d) * s
  BY <1>6, <1>7, <1>8, Cancelled
<1> QED BY <1>3, <1>9 DEF IsValue

LEMMA ValueOfTimes ==
  ASSUME NEW x, Lowest(x), NEW k \in Int, NEW n \in Int, NEW d \in Nat \ {0}, IsValue(x, n, d)
  PROVE  Lowest(Times(x, k)) /\ IsValue(Times(x, k), n * k, d)
<1>1. PICK a \in Int, b \in Nat \ {0} : a = x[1] /\ b = x[2]
  BY DEF Lowest
<1>2. /\ Lowest(Times(x, k))
      /\ IsValue(Times(x, k), x[1] * Whole(k)[1], x[2] * Whole(k)[2])
  BY WholeIs, ProductIs DEF Times
<1>3. PICK r \in Int, s \in Int : r = Times(x, k)[1] /\ s = Times(x, k)[2]
  BY <1>2 DEF Lowest
<1>4. r * (b * 1) = (a * k) * s
  BY <1>1, <1>2, <1>3, WholeIs DEF IsValue
<1>5. a * d = n * b
  BY <1>1 DEF IsValue
<1>6. (r * d) * b = ((n * k) * s) * b
  <2>1. (r * d) * b = (r * (b * 1)) * d
    OBVIOUS
  <2>2. ((a * k) * s) * d = (a * d) * (k * s)
    OBVIOUS
  <2>3. (n * b) * (k * s) = ((n * k) * s) * b
    OBVIOUS
  <2> QED BY <1>4, <1>5, <2>1, <2>2, <2>3
<1>7. r * d \in Int /\ (n * k) * s \in Int
  OBVIOUS
<1>8. r * d = (n * k) * s
  BY <1>6, <1>7, Cancelled
<1> QED BY <1>2, <1>3, <1>8 DEF IsValue

LEMMA OwnValue ==
  ASSUME NEW x, Lowest(x)
  PROVE  \E n \in Int, d \in Nat \ {0} : IsValue(x, n, d)
<1>1. x[1] \in Int /\ x[2] \in Nat \ {0} /\ x[1] * x[2] = x[1] * x[2]
  BY DEF Lowest
<1> QED BY <1>1 DEF IsValue

LEMMA WholeValue ==
  ASSUME NEW n \in Int
  PROVE  IsValue(Whole(n), n, 1)
BY WholeIs DEF IsValue

LEMMA PositiveProduct ==
  ASSUME NEW d \in Nat \ {0}, NEW e \in Nat \ {0}
  PROVE  d * e \in Nat \ {0}
<1>1. d * e >= d * 1
  BY ProductsAreOrdered
<1> QED BY <1>1

LEMMA PlusCommutes ==
  ASSUME NEW x, NEW y, Lowest(x), Lowest(y)
  PROVE  Plus(x, y) = Plus(y, x)
<1>1. PICK n \in Int, d \in Nat \ {0} : IsValue(x, n, d)
  BY OwnValue
<1>2. PICK m \in Int, e \in Nat \ {0} : IsValue(y, m, e)
  BY OwnValue
<1>3. IsValue(Plus(x, y), n * e + m * d, d * e) /\ IsValue(Plus(y, x), m * d + n * e, e * d)
  BY <1>1, <1>2, ValueOfPlus
<1>4. m * d + n * e = n * e + m * d /\ e * d = d * e /\ n * e + m * d \in Int /\ d * e \in Nat \ {0}
  BY PositiveProduct
<1>5. Lowest(Plus(x, y)) /\ Lowest(Plus(y, x))
  BY PlusIs
<1> QED BY <1>3, <1>4, <1>5, SameValue

LEMMA PlusAssociates ==
  ASSUME NEW x, NEW y, NEW z, Lowest(x), Lowest(y), Lowest(z)
  PROVE  Plus(Plus(x, y), z) = Plus(x, Plus(y, z))
<1>1. PICK n \in Int, d \in Nat \ {0} : IsValue(x, n, d)
  BY OwnValue
<1>2. PICK m \in Int, e \in Nat \ {0} : IsValue(y, m, e)
  BY OwnValue
<1>3. PICK l \in Int, f \in Nat \ {0} : IsValue(z, l, f)
  BY OwnValue
<1>4. Lowest(Plus(x, y)) /\ Lowest(Plus(y, z))
  BY PlusIs
<1>5. PICK i \in Int, j \in Nat \ {0} : i = n * e + m * d /\ j = d * e
  BY PositiveProduct
<1>6. PICK p \in Int, q \in Nat \ {0} : p = m * f + l * e /\ q = e * f
  BY PositiveProduct
<1>7. IsValue(Plus(x, y), i, j) /\ IsValue(Plus(y, z), p, q)
  BY <1>1, <1>2, <1>3, <1>5, <1>6, ValueOfPlus
<1>8. /\ IsValue(Plus(Plus(x, y), z), i * f + l * j, j * f)
      /\ IsValue(Plus(x, Plus(y, z)), n * q + p * d, d * q)
  BY <1>1, <1>3, <1>4, <1>7, ValueOfPlus
<1>9. i * f + l * j = n * q + p * d /\ j * f = d * q
  BY <1>5, <1>6
<1>10. i * f + l * j \in Int /\ j * f \in Nat \ {0}
  BY PositiveProduct
<1>11. Lowest(Plus(Plus(x, y), z)) /\ Lowest(Plus(x, Plus(y, z)))
  BY <1>4, PlusIs
<1> QED BY <1>8, <1>9, <1>10, <1>11, SameValue

LEMMA PlusNothing ==
  ASSUME NEW x, Lowest(x)
  PROVE  Plus(x, Whole(0)) = x
<1>1. PICK n \in Int, d \in Nat \ {0} : IsValue(x, n, d)
  BY OwnValue
<1>2. Lowest(Whole(0)) /\ IsValue(Whole(0), 0, 1)
  BY WholeIs, WholeValue
<1>3. Lowest(Plus(x, Whole(0))) /\ IsValue(Plus(x, Whole(0)), n * 1 + 0 * d, d * 1)
  BY <1>1, <1>2, PlusIs, ValueOfPlus
<1>4. n * 1 + 0 * d = n /\ d * 1 = d
  OBVIOUS
<1> QED BY <1>1, <1>3, <1>4, SameValue

LEMMA PlusOfWholes ==
  ASSUME NEW n \in Int, NEW m \in Int
  PROVE  Plus(Whole(n), Whole(m)) = Whole(n + m)
<1>1. /\ Lowest(Whole(n)) /\ IsValue(Whole(n), n, 1)
      /\ Lowest(Whole(m)) /\ IsValue(Whole(m), m, 1)
      /\ Lowest(Whole(n + m)) /\ IsValue(Whole(n + m), n + m, 1)
  BY WholeIs, WholeValue
<1>2. /\ Lowest(Plus(Whole(n), Whole(m)))
      /\ IsValue(Plus(Whole(n), Whole(m)), n * 1 + m * 1, 1 * 1)
  BY <1>1, PlusIs, ValueOfPlus
<1>3. n * 1 + m * 1 = n + m /\ 1 * 1 = 1
  OBVIOUS
<1> QED BY <1>1, <1>2, <1>3, SameValue

LEMMA TimesOfSum ==
  ASSUME NEW x, Lowest(x), NEW j \in Int, NEW k \in Int
  PROVE  Plus(Times(x, j), Times(x, k)) = Times(x, j + k)
<1>1. PICK n \in Int, d \in Nat \ {0} : IsValue(x, n, d)
  BY OwnValue
<1>2. PICK l \in Int, a \in Int, b \in Int, c \in Int :
        l = j + k /\ a = n * j /\ b = n * k /\ c = n * l
  OBVIOUS
<1>3. /\ Lowest(Times(x, j)) /\ IsValue(Times(x, j), a, d)
      /\ Lowest(Times(x, k)) /\ IsValue(Times(x, k), b, d)
      /\ Lowest(Times(x, l)) /\ IsValue(Times(x, l), c, d)
  BY <1>1, <1>2, ValueOfTimes
<1>4. /\ Lowest(Plus(Times(x, j), Times(x, k)))
      /\ IsValue(Plus(Times(x, j), Times(x, k)), a * d + b * d, d * d)
  BY <1>3, PlusIs, ValueOfPlus
<1>5. PICK p \in Int, q \in Nat \ {0} : p = a * d + b * d /\ q = d * d
  BY PositiveProduct
<1>6. p * d = c * q
  BY <1>2, <1>5
<1> QED BY <1>2, <1>3, <1>4, <1>5, <1>6, SameValue

LEMMA TimesOfPlus ==
  ASSUME NEW x, NEW y, Lowest(x), Lowest(y), NEW k \in Int
  PROVE  Times(Plus(x, y), k) = Plus(Times(x, k), Times(y, k))
<1>1. PICK n \in Int, d \in Nat \ {0} : IsValue(x, n, d)
  BY OwnValue
<1>2. PICK m \in Int, e \in Nat \ {0} : IsValue(y, m, e)
  BY OwnValue
<1>3. PICK a \in Int, b \in Int : a = n * k /\ b = m * k
  OBVIOUS
<1>4. PICK p \in Int, q \in Nat \ {0} : p = n * e + m * d /\ q = d * e
  BY PositiveProduct
<1>5. /\ Lowest(Times(x, k)) /\ IsValue(Times(x, k), a, d)
      /\ Lowest(Times(y, k)) /\ IsValue(Times(y, k), b, e)
      /\ Lowest(Plus(x, y)) /\ IsValue(Plus(x, y), p, q)
  BY <1>1, <1>2, <1>3, <1>4, ValueOfTimes, PlusIs, ValueOfPlus
<1>6. /\ Lowest(Times(Plus(x, y), k)) /\ IsValue(Times(Plus(x, y), k), p * k, q)
      /\ Lowest(Plus(Times(x, k), Times(y, k)))
      /\ IsValue(Plus(Times(x, k), Times(y, k)), a * e + b * d, d * e)
  BY <1>5, ValueOfTimes, PlusIs, ValueOfPlus
<1>7. p * k = a * e + b * d /\ p * k \in Int
  BY <1>3, <1>4
<1> QED BY <1>4, <1>6, <1>7, SameValue

LEMMA TimesOfTimes ==
  ASSUME NEW x, Lowest(x), NEW j \in Int, NEW k \in Int
  PROVE  Times(Times(x, j), k) = Times(x, j * k)
<1>1. PICK n \in Int, d \in Nat \ {0} : IsValue(x, n, d)
  BY OwnValue
<1>2. PICK i \in Int, a \in Int, b \in Int, c \in Int :
        i = j * k /\ a = n * j /\ b = a * k /\ c = n * i
  OBVIOUS
<1>3. /\ Lowest(Times(x, j)) /\ IsValue(Times(x, j), a, d)
      /\ Lowest(Times(x, i)) /\ IsValue(Times(x, i), c, d)
  BY <1>1, <1>2, ValueOfTimes
<1>4. Lowest(Times(Times(x, j), k)) /\ IsValue(Times(Times(x, j), k), b, d)
  BY <1>2, <1>3, ValueOfTimes
<1>5. b = c
  BY <1>2
<1> QED BY <1>2, <1>3, <1>4, <1>5, SameValue

LEMMA TimesOfWhole ==
  ASSUME NEW n \in Int, NEW k \in Int
  PROVE  Times(Whole(n), k) = Whole(n * k)
<1>1. PICK m \in Int : m = n * k
  OBVIOUS
<1>2. /\ Lowest(Whole(n)) /\ IsValue(Whole(n), n, 1)
      /\ Lowest(Whole(m)) /\ IsValue(Whole(m), m, 1)
  BY WholeIs, WholeValue
<1>3. Lowest(Times(Whole(n), k)) /\ IsValue(Times(Whole(n), k), m, 1)
  <2>1. Lowest(Times(Whole(n), k)) /\ IsValue(Times(Whole(n), k), n * k, 1)
    <3>1. 1 \in Nat \ {0}
      OBVIOUS
    <3> QED BY <1>2, <3>1, ValueOfTimes, Zenon
  <2> QED BY <1>1, <2>1
<1> QED BY <1>1, <1>2, <1>3, SameValue

\* What is divided and multiplied again is what it was.
LEMMA TimesOfOver ==
  ASSUME NEW x, Lowest(x), NEW k \in Nat \ {0}
  PROVE  Lowest(Over(x, k)) /\ Times(Over(x, k), k) = x
<1>1. PICK a \in Int, b \in Nat \ {0} : a = x[1] /\ b = x[2] /\ IsValue(x, a, b)
  BY DEF Lowest, IsValue
<1>2. Lowest(<<1, k>>)
  <2>1. 1 * 1 + 0 * k = 1 /\ 1 \in Int /\ 0 \in Int
    OBVIOUS
  <2>2. Coprime(1, k)
    BY <2>1 DEF Coprime
  <2> QED BY <2>2 DEF Lowest
<1>3. PICK i \in Int, j \in Nat \ {0}, p \in Int : i = a * 1 /\ j = b * k /\ p = i * k
  BY PositiveProduct
<1>4. Lowest(Over(x, k)) /\ IsValue(Over(x, k), i, j)
  BY <1>1, <1>2, <1>3, ProductIs DEF Over
<1>5. Lowest(Times(Over(x, k), k)) /\ IsValue(Times(Over(x, k), k), p, j)
  BY <1>3, <1>4, ValueOfTimes
<1>6. p * b = a * j
  BY <1>3
<1> QED BY <1>1, <1>4, <1>5, <1>6, SameValue

LEMMA TimesIs ==
  ASSUME NEW x, Lowest(x), NEW k \in Int
  PROVE  Lowest(Times(x, k))
BY OwnValue, ValueOfTimes

LEMMA TimesNothing ==
  ASSUME NEW x, Lowest(x)
  PROVE  Times(x, 0) = Whole(0)
<1>1. PICK n \in Int, d \in Nat \ {0} : IsValue(x, n, d)
  BY OwnValue
<1>2. n * 0 = 0 /\ 0 * 1 = 0 * d
  OBVIOUS
<1>3. Lowest(Times(x, 0)) /\ IsValue(Times(x, 0), 0, d)
  <2>1. Lowest(Times(x, 0)) /\ IsValue(Times(x, 0), n * 0, d)
    <3>1. 0 \in Int
      OBVIOUS
    <3> QED BY <1>1, <3>1, ValueOfTimes, Zenon
  <2> QED BY <1>2, <2>1
<1> QED BY <1>2, <1>3, WholeIs, WholeValue, SameValue

-----------------------------------------------------------------------------
(* Sums of fractions over a finite set.                                    *)

\* p[T] is b and the terms of T, added up.
AddsUp(p, S, b, f) ==
  \A T \in SUBSET S :
    p[T] = IF T = {} THEN b ELSE Plus(p[T \ {Elem(T)}], f[Elem(T)])

LEMMA SumsOfFractionsExist ==
  ASSUME NEW S, IsFiniteSet(S), NEW b, Lowest(b), NEW f, \A v \in S : Lowest(f[v])
  PROVE  \E p : AddsUp(p, S, b, f) /\ DOMAIN p = SUBSET S /\ p = [T \in SUBSET S |-> p[T]]
<1> DEFINE V == {x \in Int \X (Nat \ {0}) : Lowest(x)}
           step == [v \in S |-> [x \in V |-> Plus(x, f[v])]]
<1>1. \A x : x \in V <=> Lowest(x)
  BY DEF Lowest
<1> HIDE DEF V
<1>2. \A v \in S : \A x \in V : Plus(x, f[v]) \in V
  BY <1>1, PlusIs
<1>3. step \in [S -> [V -> V]]
  BY <1>2
<1>4. \A v \in S : \A x \in V : step[v][x] = Plus(x, f[v])
  OBVIOUS
<1>5. b \in V
  BY <1>1
<1> HIDE DEF step
<1>6. PICK p : Folds(p, S, V, b, step)
  BY <1>3, <1>5, FoldsExist
<1>7. ASSUME NEW T \in SUBSET S, T # {}
      PROVE  p[T] = Plus(p[T \ {Elem(T)}], f[Elem(T)])
  <2>1. Elem(T) \in S /\ T \ {Elem(T)} \in SUBSET S
    BY <1>7 DEF Elem
  <2>2. p[T \ {Elem(T)}] \in V
    BY <1>6, <2>1 DEF Folds
  <2> QED BY <1>4, <1>6, <1>7, <2>1, <2>2 DEF Folds
<1>8. AddsUp(p, S, b, f)
  BY <1>6, <1>7 DEF AddsUp, Folds
<1>9. DOMAIN p = SUBSET S /\ p = [T \in SUBSET S |-> p[T]]
  BY <1>6 DEF Folds
<1> QED BY <1>8, <1>9

\* Terms of nothing add nothing.
LEMMA SumOfNothings ==
  ASSUME NEW S, IsFiniteSet(S), NEW b, Lowest(b), NEW f, \A v \in S : f[v] = Whole(0),
         NEW p, AddsUp(p, S, b, f)
  PROVE  p[S] = b
<1> DEFINE Good == {T \in SUBSET S : p[T] = b}
<1>1. {} \in Good
  BY DEF AddsUp
<1>2. ASSUME NEW T \in SUBSET S, T # {}, T \ {Elem(T)} \in Good PROVE T \in Good
  <2>1. Elem(T) \in S
    BY <1>2 DEF Elem
  <2>2. p[T] = Plus(b, Whole(0))
    BY <1>2, <2>1 DEF AddsUp
  <2> QED BY <2>2, PlusNothing
<1> HIDE DEF Good
<1>3. S \in Good
  BY <1>1, <1>2, PartsInduction
<1> QED BY <1>3 DEF Good

\* When the term of s changes, and what is added up to, the sum changes by
\* what the two changes come to.
Changes(S, s, f, g, e, r) ==
  /\ Lowest(e) /\ Lowest(r) /\ \A v \in S : Lowest(f[v]) /\ Lowest(g[v])
  /\ \A v \in S \ {s} : g[v] = f[v]
  /\ Plus(e, g[s]) = Plus(f[s], r)
LEMMA SumOfFractionsChanges ==
  ASSUME NEW S, IsFiniteSet(S), NEW s \in S, NEW f, NEW g, NEW e, NEW r, Changes(S, s, f, g, e, r),
         NEW b, Lowest(b), NEW p, AddsUp(p, S, b, f), NEW q, AddsUp(q, S, Plus(b, e), g)
  PROVE  q[S] = Plus(p[S], r)
<1> DEFINE Good == {T \in SUBSET S : /\ Lowest(p[T])
                                     /\ q[T] = Plus(p[T], IF s \in T THEN r ELSE e)}
<1>1. {} \in Good
  BY DEF AddsUp
<1>2. ASSUME NEW T \in SUBSET S, T # {}, T \ {Elem(T)} \in Good PROVE T \in Good
  <2>1. PICK v \in S, U \in SUBSET S : v = Elem(T) /\ U = T \ {v} /\ v \in T
    BY <1>2 DEF Elem
  <2>2. PICK k : k = IF s \in U THEN r ELSE e
    OBVIOUS
  <2>3. Lowest(p[U]) /\ q[U] = Plus(p[U], k) /\ Lowest(k)
    BY <1>2, <2>1, <2>2 DEF Changes
  <2>4. p[T] = Plus(p[U], f[v]) /\ q[T] = Plus(q[U], g[v])
    BY <1>2, <2>1 DEF AddsUp
  <2>5. Lowest(f[v]) /\ Lowest(g[v]) /\ Lowest(r) /\ Lowest(e)
    BY DEF Changes
  <2>6. Lowest(p[T])
    BY <2>3, <2>4, <2>5, PlusIs
  <2>7. CASE v = s
    <3>1. k = e /\ s \in T
      BY <2>1, <2>2, <2>7
    <3>2. q[T] = Plus(p[U], Plus(e, g[s]))
      BY <2>3, <2>4, <2>5, <2>7, <3>1, PlusAssociates
    <3>3. Plus(p[U], Plus(f[s], r)) = Plus(p[T], r)
      BY <2>3, <2>4, <2>5, <2>7, PlusAssociates
    <3> QED BY <2>6, <3>1, <3>2, <3>3 DEF Changes
  <2>8. CASE v # s
    <3>1. g[v] = f[v] /\ (s \in T <=> s \in U)
      BY <2>1, <2>8 DEF Changes
    <3>2. q[T] = Plus(p[U], Plus(k, f[v]))
      BY <2>3, <2>4, <2>5, <3>1, PlusAssociates
    <3>3. Plus(k, f[v]) = Plus(f[v], k)
      BY <2>3, <2>5, PlusCommutes
    <3>4. Plus(p[U], Plus(f[v], k)) = Plus(p[T], k)
      BY <2>3, <2>4, <2>5, PlusAssociates
    <3> QED BY <2>2, <2>6, <3>1, <3>2, <3>3, <3>4
  <2> QED BY <2>7, <2>8
<1> HIDE DEF Good
<1>3. S \in Good
  BY <1>1, <1>2, PartsInduction
<1> QED BY <1>3 DEF Good
=============================================================================
