----------------------------- MODULE Fractions -----------------------------
(* Exact rational numbers in lowest terms, <<numerator, denominator>>: the *)
(* value a float quotient approximates; and the sum of a sequence of whole *)
(* ones.                                                                   *)
LOCAL INSTANCE Integers
LOCAL INSTANCE Sequences

Abs(x) == IF x < 0 THEN -x ELSE x

(* Euclid's greatest common divisor.                                       *)
Euclid[z \in Nat \X Nat] ==
  IF z[2] = 0 THEN z[1] ELSE Euclid[<<z[2], z[1] % z[2]>>]
Gcd(a, b) == Euclid[<<a, b>>]

(* n / d, for a positive d.                                                *)
DividedBy(n, d, k) == <<n \div k, d \div k>>
Frac(n, d) == IF d = 1 THEN <<n, 1>> ELSE DividedBy(n, d, Gcd(d, Abs(n)))

Whole(n) == <<n, 1>>
(* Over a common denominator, as small as it can be.                      *)
PlusOver(x, y, k) == Frac(x[1] * (y[2] \div k) + y[1] * (x[2] \div k), (x[2] \div k) * y[2])
Plus(x, y) ==
  IF x[2] = y[2] THEN Frac(x[1] + y[1], x[2]) ELSE PlusOver(x, y, Gcd(x[2], y[2]))
Minus(x, y) == Plus(x, <<-y[1], y[2]>>)
ProductOver(x, y, j, k) == <<(x[1] \div j) * (y[1] \div k), (x[2] \div k) * (y[2] \div j)>>
Product(x, y) ==
  IF x[2] = 1 /\ y[2] = 1 THEN <<x[1] * y[1], 1>>
  ELSE ProductOver(x, y, Gcd(y[2], Abs(x[1])), Gcd(x[2], Abs(y[1])))
Times(x, n) == Product(x, Whole(n))
Over(x, n) == Product(x, <<1, n>>)

(* x / y, for a y that is not zero.                                        *)
Quotient(x, y) ==
  Product(x, IF y[1] > 0 THEN <<y[2], y[1]>> ELSE <<-y[2], -y[1]>>)

Less(x, y) == IF x[2] = y[2] THEN x[1] < y[1] ELSE Minus(x, y)[1] < 0
LeastOf(x, y) == IF Less(y, x) THEN y ELSE x
MostOf(x, y) == IF Less(x, y) THEN y ELSE x

(* seq[1] + ... + seq[Len(seq)], as a recursive function for the proofs.   *)
SeqSum(seq) ==
  LET upTo[k \in 0..Len(seq)] == IF k = 0 THEN 0 ELSE upTo[k - 1] + seq[k]
  IN  upTo[Len(seq)]
=============================================================================
