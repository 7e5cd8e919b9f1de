---------------------------- MODULE RtspTextProofs ---------------------------
(***************************************************************************)
(* Theorems about the conversions of RtspText, for all numbers.  Functions *)
(* that are defined by recursion are first shown to exist; what they give  *)
(* then follows by induction on the naturals.                              *)
(***************************************************************************)
EXTENDS RtspText, SequenceTheorems, WellFoundedInduction, TLAPS

------------------------------------------------------------------------------
(* Induction and recursion, over sets and functions.                       *)

Smaller == {p \in Nat \X Nat : p[1] < p[2]}

(* A set that has each number whose predecessors it has has all numbers.   *)
LEMMA Induction ==
  ASSUME NEW S, \A n \in Nat : (\A m \in Nat : m < n => m \in S) => n \in S
  PROVE  Nat \subseteq S
<1>1. IsWellFoundedOn(Smaller, Nat)
  BY NatLessThanWellFounded DEF OpToRel, Smaller
<1> SUFFICES ASSUME Nat \ S # {}
             PROVE  FALSE
  OBVIOUS
<1>2. PICK n \in Nat \ S : \A m \in Nat \ S : ~ (<<m, n>> \in Smaller)
  BY <1>1, WFMin
<1>3. \A m \in Nat : m < n => m \in S
  BY <1>2 DEF Smaller
<1> QED BY <1>2, <1>3

(* What holds of an element whenever it holds of those of lower rank.      *)
LEMMA RankInduction ==
  ASSUME NEW R, NEW rank \in [R -> Nat], NEW T,
         \A r \in R : (\A q \in R : rank[q] < rank[r] => q \in T) => r \in T
  PROVE  R \subseteq T
<1> DEFINE N == {n \in Nat : \A r \in R : rank[r] = n => r \in T}
<1>1. ASSUME NEW n \in Nat, \A m \in Nat : m < n => m \in N
      PROVE  n \in N
  <2> SUFFICES ASSUME NEW r \in R, rank[r] = n
               PROVE  r \in T
    OBVIOUS
  <2>1. ASSUME NEW q \in R, rank[q] < rank[r]
        PROVE  q \in T
    <3>1. rank[q] \in Nat /\ rank[q] \in N
      BY <1>1, <2>1
    <3> QED BY <3>1
  <2> QED BY <2>1
<1>2. Nat \subseteq N
  <2> HIDE DEF N
  <2> QED BY <1>1, Induction
<1> QED BY <1>2

(* A function may be defined by its values where the recursion ends and by *)
(* a step from the value at an element of lower rank.                      *)
WellFounded(R, rank, leaf, down) ==
  /\ rank \in [R -> Nat]
  /\ down \in [R -> R]
  /\ \A r \in R \ leaf : rank[down[r]] < rank[r]

Recursive(f, R, leaf, down, S, base, step) ==
  /\ f \in [R -> S]
  /\ \A r \in R : f[r] = IF r \in leaf THEN base[r] ELSE step[<<r, f[down[r]]>>]

LEMMA Recursion ==
  ASSUME NEW R, NEW rank, NEW leaf, NEW down, WellFounded(R, rank, leaf, down),
         NEW S, NEW base \in [R -> S], NEW step \in [R \X S -> S]
  PROVE  \E f : Recursive(f, R, leaf, down, S, base, step)
<1> USE DEF WellFounded
<1> DEFINE
  Closed(X) ==
    /\ \A r \in R : r \in leaf => <<r, base[r]>> \in X
    /\ \A r \in R, s \in S :
         r \notin leaf /\ <<down[r], s>> \in X => <<r, step[<<r, s>>]>> \in X
  Graph == {p \in R \X S : \A X \in SUBSET (R \X S) : Closed(X) => p \in X}
  Single == {r \in R : \E s \in S : \A t \in S : <<r, t>> \in Graph <=> t = s}
<1>1. Closed(Graph)
  <2>1. ASSUME NEW r \in R, r \in leaf
        PROVE  <<r, base[r]>> \in Graph
    BY <2>1
  <2>2. ASSUME NEW r \in R, NEW s \in S, r \notin leaf, <<down[r], s>> \in Graph
        PROVE  <<r, step[<<r, s>>]>> \in Graph
    <3>1. <<r, s>> \in R \X S /\ step[<<r, s>>] \in S
      OBVIOUS
    <3>2. ASSUME NEW X \in SUBSET (R \X S), Closed(X)
          PROVE  <<r, step[<<r, s>>]>> \in X
      <4>1. <<down[r], s>> \in X
        BY <2>2, <3>2
      <4> QED BY <2>2, <3>2, <4>1
    <3> QED BY <3>1, <3>2
  <2> QED BY <2>1, <2>2
<1>2. ASSUME NEW p \in Graph
      PROVE  ~ Closed(Graph \ {p})
  <2>1. Graph \ {p} \in SUBSET (R \X S)
    OBVIOUS
  <2> SUFFICES ASSUME Closed(Graph \ {p})
               PROVE  FALSE
    OBVIOUS
  <2>2. p \in Graph \ {p}
    BY <2>1
  <2> QED BY <2>2
<1>3. ASSUME NEW r \in R, NEW v \in S, NEW t \in S, <<r, t>> \in Graph,
             r \in leaf => v = base[r],
             r \notin leaf => \A s \in S : <<down[r], s>> \in Graph => v = step[<<r, s>>]
      PROVE  t = v
  <2> SUFFICES ASSUME t # v
               PROVE  FALSE
    OBVIOUS
  <2> HIDE DEF Graph
  <2>1. ASSUME NEW q \in R, q \in leaf
        PROVE  <<q, base[q]>> \in Graph \ {<<r, t>>}
    <3>1. <<q, base[q]>> \in Graph
      BY <1>1, <2>1
    <3>2. q = r => base[q] # t
      BY <1>3, <2>1
    <3> QED BY <3>1, <3>2
  <2>2. ASSUME NEW q \in R, NEW s \in S, q \notin leaf, <<down[q], s>> \in Graph \ {<<r, t>>}
        PROVE  <<q, step[<<q, s>>]>> \in Graph \ {<<r, t>>}
    <3>1. <<q, step[<<q, s>>]>> \in Graph
      BY <1>1, <2>2
    <3>2. q = r => step[<<q, s>>] # t
      BY <1>3, <2>2
    <3> QED BY <3>1, <3>2
  <2>3. Closed(Graph \ {<<r, t>>})
    BY <2>1, <2>2
  <2> HIDE DEF Closed
  <2> QED BY <1>2, <1>3, <2>3
<1>4. ASSUME NEW r \in R, \A q \in R : rank[q] < rank[r] => q \in Single
      PROVE  r \in Single
  <2>1. CASE r \in leaf
    <3> HIDE DEF Graph
    <3>1. base[r] \in S /\ <<r, base[r]>> \in Graph
      BY <1>1, <2>1
    <3>2. \A t \in S : <<r, t>> \in Graph => t = base[r]
      BY <1>3, <2>1, <3>1
    <3> QED BY <3>1, <3>2
  <2>2. CASE r \notin leaf
    <3>1. down[r] \in Single
      BY <1>4, <2>2
    <3>2. PICK s \in S : \A u \in S : <<down[r], u>> \in Graph <=> u = s
      BY <3>1
    <3> HIDE DEF Graph
    <3>3. step[<<r, s>>] \in S
      OBVIOUS
    <3>4. <<r, step[<<r, s>>]>> \in Graph
      BY <1>1, <2>2, <3>2
    <3>5. ASSUME NEW t \in S, <<r, t>> \in Graph
          PROVE  t = step[<<r, s>>]
      <4>1. \A u \in S : <<down[r], u>> \in Graph => step[<<r, s>>] = step[<<r, u>>]
        BY <3>2
      <4> HIDE DEF Single
      <4> QED BY <1>3, <2>2, <3>3, <3>5, <4>1
    <3> QED BY <3>3, <3>4, <3>5
  <2> QED BY <2>1, <2>2
<1>5. R \subseteq Single
  <2> HIDE DEF Single
  <2> QED BY <1>4, RankInduction
<1> DEFINE f == [r \in R |-> CHOOSE s \in S : <<r, s>> \in Graph]
<1>6. \A r \in R : f[r] \in S /\ \A t \in S : <<r, t>> \in Graph <=> t = f[r]
  <2> TAKE r \in R
  <2>1. PICK s \in S : \A t \in S : <<r, t>> \in Graph <=> t = s
    BY <1>5
  <2> HIDE DEF Graph
  <2>2. f[r] \in S /\ <<r, f[r]>> \in Graph
    BY <2>1
  <2> QED BY <2>1, <2>2
<1>7. f \in [R -> S]
  BY <1>6
<1>8. ASSUME NEW r \in R
      PROVE  f[r] = IF r \in leaf THEN base[r] ELSE step[<<r, f[down[r]]>>]
  <2> HIDE DEF f, Graph
  <2>1. CASE r \in leaf
    <3>1. base[r] \in S /\ <<r, base[r]>> \in Graph
      BY <1>1, <2>1
    <3> QED BY <1>6, <2>1, <3>1
  <2>2. CASE r \notin leaf
    <3>1. down[r] \in R /\ f[down[r]] \in S
      BY <1>6
    <3>2. <<down[r], f[down[r]]>> \in Graph
      BY <1>6, <3>1
    <3>3. step[<<r, f[down[r]]>>] \in S
      BY <3>1
    <3>4. <<r, step[<<r, f[down[r]]>>]>> \in Graph
      BY <1>1, <2>2, <3>1, <3>2
    <3> QED BY <1>6, <2>2, <3>3, <3>4
  <2> QED BY <2>1, <2>2
<1> HIDE DEF f
<1> QED BY <1>7, <1>8 DEF Recursive

------------------------------------------------------------------------------
(* Decimal, Power and Digits are what their definitions say.               *)

DigitToken == ToSet(Digit)

(* Dividing by ten.                                                        *)
LEMMA DivideByTen ==
  ASSUME NEW n \in Nat
  PROVE  /\ n \div 10 \in Nat /\ n % 10 \in 0 .. 9
         /\ n = 10 * (n \div 10) + (n % 10)
         /\ n >= 10 => n \div 10 >= 1
         /\ n >= 1 => n \div 10 < n
         /\ n < 10 => n \div 10 = 0 /\ n % 10 = n
OBVIOUS

(* A digit has a token.                                                    *)
LEMMA DigitOf ==
  ASSUME NEW d \in 0 .. 9
  PROVE  Digit[d + 1] \in DigitToken
BY DEF Digit, DigitToken, ToSet

DecimalOf(n, shorter) == Append(shorter, Digit[(n % 10) + 1])

(* The decimal text of a number is that of a tenth of it and a digit.      *)
LEMMA DecimalDef ==
  /\ Decimal \in [Nat -> Seq(DigitToken)]
  /\ \A n \in Nat :
       Decimal[n] = IF n < 10 THEN <<Digit[n + 1]>>
                    ELSE Append(Decimal[n \div 10], Digit[(n % 10) + 1])
<1> DEFINE S == Seq(DigitToken)
           rank == [n \in Nat |-> n]
           leaf == 0 .. 9
           down == [n \in Nat |-> n \div 10]
           base == [n \in Nat |-> IF n < 10 THEN <<Digit[n + 1]>> ELSE <<>>]
           step == [p \in Nat \X S |-> DecimalOf(p[1], p[2])]
           Good(f) == f = [n \in Nat |-> IF n < 10 THEN <<Digit[n + 1]>>
                                         ELSE Append(f[n \div 10], Digit[(n % 10) + 1])]
<1>1. rank \in [Nat -> Nat] /\ down \in [Nat -> Nat]
  BY DivideByTen
<1>2. WellFounded(Nat, rank, leaf, down)
  BY <1>1, DivideByTen DEF WellFounded
<1>3. base \in [Nat -> S]
  <2>1. ASSUME NEW n \in Nat, n < 10
        PROVE  <<Digit[n + 1]>> \in S
    <3>1. Digit[n + 1] \in DigitToken
      BY <2>1, DigitOf
    <3> QED BY <3>1
  <2> QED BY <2>1
<1>4. step \in [Nat \X S -> S]
  <2>1. ASSUME NEW n \in Nat, NEW t \in S
        PROVE  DecimalOf(n, t) \in S
    <3>1. Digit[(n % 10) + 1] \in DigitToken
      BY DivideByTen, DigitOf
    <3> QED BY <3>1 DEF DecimalOf
  <2> QED BY <2>1
<1>5. PICK f : Recursive(f, Nat, leaf, down, S, base, step)
  <2> HIDE DEF S, rank, leaf, down, base, step
  <2> QED BY <1>2, <1>3, <1>4, Recursion
<1>6. \A n \in Nat : f[n] = IF n < 10 THEN <<Digit[n + 1]>>
                             ELSE Append(f[n \div 10], Digit[(n % 10) + 1])
  <2> TAKE n \in Nat
  <2>1. n \div 10 \in Nat /\ f[n \div 10] \in S
    BY <1>5, DivideByTen DEF Recursive
  <2>2. CASE n < 10
    <3>1. n \in leaf /\ base[n] = <<Digit[n + 1]>>
      BY <2>2
    <3> QED BY <1>5, <2>2, <3>1 DEF Recursive
  <2>3. CASE ~ (n < 10)
    <3>1. n \notin leaf /\ down[n] = n \div 10
      BY <2>3
    <3>2. f[n] = step[<<n, f[n \div 10]>>]
      BY <1>5, <3>1 DEF Recursive
    <3> QED BY <2>1, <2>3, <3>2 DEF DecimalOf
  <2> QED BY <2>2, <2>3
<1>7. Good(f)
  <2>1. f = [n \in Nat |-> f[n]]
    BY <1>5 DEF Recursive
  <2> QED BY <1>6, <2>1
<1>8. Decimal = CHOOSE g : Good(g)
  BY DEF Decimal
<1>9. Good(Decimal)
  <2> HIDE DEF Good
  <2> QED BY <1>7, <1>8
<1>10. \A n \in Nat : Decimal[n] = IF n < 10 THEN <<Digit[n + 1]>>
                                   ELSE Append(Decimal[n \div 10], Digit[(n % 10) + 1])
  BY <1>9
<1>11. ASSUME NEW n \in Nat, \A m \in Nat : m < n => m \in {k \in Nat : Decimal[k] \in S}
       PROVE  n \in {k \in Nat : Decimal[k] \in S}
  <2>1. CASE n < 10
    <3>1. Decimal[n] = base[n] /\ base[n] \in S
      BY <1>3, <1>10, <2>1
    <3> QED BY <3>1
  <2>2. CASE ~ (n < 10)
    <3>1. Decimal[n \div 10] \in S /\ Digit[(n % 10) + 1] \in DigitToken
      BY <1>11, <2>2, DivideByTen, DigitOf
    <3>2. Append(Decimal[n \div 10], Digit[(n % 10) + 1]) \in S
      BY <3>1
    <3> QED BY <1>10, <2>2, <3>2
  <2> QED BY <2>1, <2>2
<1>12. \A n \in Nat : Decimal[n] \in S
  <2> HIDE DEF S
  <2>1. Nat \subseteq {k \in Nat : Decimal[k] \in S}
    BY <1>11, Induction
  <2> QED BY <2>1
<1>13. Decimal = [n \in Nat |-> Decimal[n]]
  <2>1. Decimal = [n \in Nat |-> IF n < 10 THEN <<Digit[n + 1]>>
                                 ELSE Append(Decimal[n \div 10], Digit[(n % 10) + 1])]
    BY <1>9
  <2> QED BY <2>1
<1> QED BY <1>10, <1>12, <1>13

(* Power multiplies by ten for each tenth, as the loop of itoa does.       *)
LEMMA PowerDef ==
  \A n \in Nat :
    /\ Power[n] \in Nat \ {0}
    /\ Power[n] = IF n < 10 THEN 1 ELSE 10 * Power[n \div 10]
<1> DEFINE S == Nat \ {0}
           rank == [n \in Nat |-> n]
           leaf == 0 .. 9
           down == [n \in Nat |-> n \div 10]
           base == [n \in Nat |-> 1]
           step == [p \in Nat \X S |-> 10 * p[2]]
           Good(f) == f = [n \in Nat |-> IF n < 10 THEN 1 ELSE 10 * f[n \div 10]]
<1>1. rank \in [Nat -> Nat] /\ down \in [Nat -> Nat]
  BY DivideByTen
<1>2. WellFounded(Nat, rank, leaf, down)
  BY <1>1, DivideByTen DEF WellFounded
<1>3. base \in [Nat -> S] /\ step \in [Nat \X S -> S]
  OBVIOUS
<1>4. PICK f : Recursive(f, Nat, leaf, down, S, base, step)
  <2> HIDE DEF S, rank, leaf, down, base, step
  <2> QED BY <1>2, <1>3, Recursion
<1>5. ASSUME NEW n \in Nat
      PROVE  f[n] \in S /\ f[n] = IF n < 10 THEN 1 ELSE 10 * f[n \div 10]
  <2>1. n \div 10 \in Nat /\ f[n] \in S /\ f[n \div 10] \in S
    BY <1>4, DivideByTen DEF Recursive
  <2>2. CASE n < 10
    <3>1. n \in leaf /\ base[n] = 1
      BY <2>2
    <3> QED BY <1>4, <2>1, <2>2, <3>1 DEF Recursive
  <2>3. CASE ~ (n < 10)
    <3>1. n \notin leaf /\ down[n] = n \div 10
      BY <2>3
    <3>2. f[n] = step[<<n, f[n \div 10]>>]
      BY <1>4, <3>1 DEF Recursive
    <3> QED BY <2>1, <2>3, <3>2
  <2> QED BY <2>2, <2>3
<1>6. Good(f)
  <2>1. f = [n \in Nat |-> f[n]]
    BY <1>4 DEF Recursive
  <2> QED BY <1>5, <2>1
<1>7. Power = CHOOSE g : Good(g)
  BY DEF Power
<1>8. Good(Power)
  <2> HIDE DEF Good
  <2> QED BY <1>6, <1>7
<1>9. \A n \in Nat : Power[n] = IF n < 10 THEN 1 ELSE 10 * Power[n \div 10]
  BY <1>8
<1>10. ASSUME NEW n \in Nat, \A m \in Nat : m < n => m \in {k \in Nat : Power[k] \in S}
       PROVE  n \in {k \in Nat : Power[k] \in S}
  <2>1. CASE n < 10
    BY <1>9, <2>1
  <2>2. CASE ~ (n < 10)
    <3>1. Power[n \div 10] \in S
      BY <1>10, <2>2, DivideByTen
    <3> QED BY <1>9, <2>2, <3>1
  <2> QED BY <2>1, <2>2
<1>11. Nat \subseteq {k \in Nat : Power[k] \in S}
  <2> HIDE DEF S
  <2> QED BY <1>10, Induction
<1> QED BY <1>9, <1>11

(* Dividing by any other number.                                           *)
LEMMA Divide ==
  ASSUME NEW n \in Nat, NEW p \in Nat \ {0}
  PROVE  n \div p \in Nat /\ n % p \in 0 .. p - 1 /\ n = p * (n \div p) + (n % p)
OBVIOUS

(* Quotient and remainder are unique.                                      *)
LEMMA DivideUnique ==
  ASSUME NEW n \in Nat, NEW p \in Nat \ {0}, NEW a \in Nat, NEW r \in Nat,
         n = p * a + r, r < p
  PROVE  n \div p = a /\ n % p = r
OBVIOUS

(* Digits gives a digit for each power of ten down to one.                 *)
AnyDigit == {Digit[d + 1] : d \in Nat}

LEMMA DigitsDef ==
  \A p \in Nat, n \in Nat :
    /\ Digits[p][n] \in Seq(AnyDigit)
    /\ Digits[p][n] = IF p = 0 THEN <<>>
                      ELSE <<Digit[(n \div p) + 1]>> \o Digits[p \div 10][n % p]
<1> DEFINE S == [Nat -> Seq(AnyDigit)]
           rank == [p \in Nat |-> p]
           leaf == {0}
           down == [p \in Nat |-> p \div 10]
           base == [p \in Nat |-> [n \in Nat |-> <<>>]]
           next(p, g) == [n \in Nat |-> IF p = 0 THEN <<>>
                                       ELSE <<Digit[(n \div p) + 1]>> \o g[n % p]]
           step == [p \in Nat \X S |-> next(p[1], p[2])]
           Good(f) == f = [p \in Nat |-> [n \in Nat |->
                             IF p = 0 THEN <<>>
                             ELSE <<Digit[(n \div p) + 1]>> \o f[p \div 10][n % p]]]
<1>1. rank \in [Nat -> Nat] /\ down \in [Nat -> Nat]
  BY DivideByTen
<1>2. WellFounded(Nat, rank, leaf, down)
  BY <1>1, DivideByTen DEF WellFounded
<1>3. base \in [Nat -> S]
  OBVIOUS
<1>4. ASSUME NEW p \in Nat, NEW g \in S
      PROVE  next(p, g) \in S
  <2>1. ASSUME NEW n \in Nat
        PROVE  next(p, g)[n] \in Seq(AnyDigit)
    <3>1. CASE p = 0
      BY <3>1
    <3>2. CASE p # 0
      <4>1. n \div p \in Nat /\ n % p \in Nat
        BY <3>2, Divide
      <4>2. <<Digit[(n \div p) + 1]>> \in Seq(AnyDigit)
        <5>1. Digit[(n \div p) + 1] \in AnyDigit
          BY <4>1 DEF AnyDigit
        <5> QED BY <5>1
      <4>3. g[n % p] \in Seq(AnyDigit)
        BY <4>1
      <4> QED BY <3>2, <4>2, <4>3
    <3> QED BY <3>1, <3>2
  <2> QED BY <2>1
<1>5. step \in [Nat \X S -> S]
  BY <1>4
<1>6. PICK f : Recursive(f, Nat, leaf, down, S, base, step)
  <2> HIDE DEF S, rank, leaf, down, base, step
  <2> QED BY <1>2, <1>3, <1>5, Recursion
<1>7. ASSUME NEW p \in Nat
      PROVE  f[p] \in S /\ f[p] = next(p, f[p \div 10])
  <2>1. p \div 10 \in Nat /\ f[p] \in S /\ f[p \div 10] \in S
    BY <1>6, DivideByTen DEF Recursive
  <2>2. CASE p = 0
    BY <1>6, <2>1, <2>2 DEF Recursive
  <2>3. CASE p # 0
    <3>1. f[p] = step[<<p, f[p \div 10]>>]
      BY <1>6, <2>3 DEF Recursive
    <3> QED BY <2>1, <3>1
  <2> QED BY <2>2, <2>3
<1>8. Good(f)
  <2>1. f = [p \in Nat |-> f[p]]
    BY <1>6 DEF Recursive
  <2> QED BY <1>7, <2>1
<1>9. Digits = CHOOSE g : Good(g)
  BY DEF Digits
<1>10. Good(Digits)
  <2> HIDE DEF Good
  <2> QED BY <1>8, <1>9
<1>11. \A p \in Nat : Digits[p] = next(p, Digits[p \div 10])
  BY <1>10
<1>12. ASSUME NEW p \in Nat, \A m \in Nat : m < p => m \in {k \in Nat : Digits[k] \in S}
       PROVE  p \in {k \in Nat : Digits[k] \in S}
  <2>1. CASE p = 0
    <3>1. next(p, Digits[p \div 10]) = base[p] /\ base[p] \in S
      BY <1>3, <2>1
    <3> QED BY <1>11, <3>1
  <2>2. CASE p # 0
    <3>1. Digits[p \div 10] \in S
      BY <1>12, <2>2, DivideByTen
    <3> HIDE DEF next, S
    <3> QED BY <1>4, <1>11, <2>2, <3>1
  <2> QED BY <2>1, <2>2
<1>13. Nat \subseteq {k \in Nat : Digits[k] \in S}
  <2> HIDE DEF S
  <2> QED BY <1>12, Induction
<1> QED BY <1>11, <1>13

------------------------------------------------------------------------------
(* itoa writes the number in decimal.                                      *)

(* The power is one for a single digit and ten times another for more.     *)
LEMMA PowerOfLonger ==
  ASSUME NEW m \in Nat, m >= 10
  PROVE  /\ Power[m] = 10 * Power[m \div 10] /\ Power[m] # 1
         /\ Power[m] \div 10 = Power[m \div 10]
         /\ Power[m \div 10] \in Nat \ {0} /\ m \div 10 \in Nat
<1>1. m \div 10 \in Nat
  BY DivideByTen
<1>2. Power[m] = 10 * Power[m \div 10] /\ Power[m \div 10] \in Nat \ {0}
  BY <1>1, PowerDef
<1>3. ASSUME NEW q \in Nat \ {0}
      PROVE  10 * q # 1 /\ (10 * q) \div 10 = q
  OBVIOUS
<1> QED BY <1>1, <1>2, <1>3

(* The number has no more digits than its power gives.                     *)
LEMMA PowerIsGreatest == \A n \in Nat : n < 10 * Power[n]
<1> DEFINE T == {n \in Nat : n < 10 * Power[n]}
<1>1. ASSUME NEW n \in Nat, \A m \in Nat : m < n => m \in T
      PROVE  n \in T
  <2>1. CASE n < 10
    BY <2>1, PowerDef
  <2>2. CASE n >= 10
    <3>1. /\ n \div 10 \in T /\ Power[n] = 10 * Power[n \div 10]
          /\ Power[n \div 10] \in Nat
      BY <1>1, <2>2, DivideByTen, PowerOfLonger
    <3> QED BY <3>1, DivideByTen
  <2> QED BY <2>1, <2>2
<1>2. Nat \subseteq T
  <2> HIDE DEF T
  <2> QED BY <1>1, Induction
<1> QED BY <1>2

(* The digits of a number, and of its tenth.                               *)
LEMMA DigitsOfTenth ==
  ASSUME NEW n \in Nat, NEW q \in Nat \ {0}
  PROVE  LET r == n % (10 * q) IN
         /\ r \in Nat /\ r < 10 * q
         /\ n \div (10 * q) = (n \div 10) \div q
         /\ r \div 10 = (n \div 10) % q
         /\ r % 10 = n % 10
<1> DEFINE p == 10 * q
           a == n \div p
           r == n % p
           b == r \div 10
           c == r % 10
<1>1. p \in Nat \ {0}
  OBVIOUS
<1>2. a \in Nat /\ r \in Nat /\ r < p /\ n = p * a + r
  <2> HIDE DEF p
  <2> QED BY <1>1, Divide
<1>3. b \in Nat /\ c \in 0 .. 9 /\ r = 10 * b + c
  <2> HIDE DEF r
  <2> QED BY <1>2, DivideByTen
<1> HIDE DEF a, r, b, c
<1>4. b < q
  BY <1>2, <1>3
<1>5. q * a \in Nat /\ n = 10 * (q * a + b) + c
  BY <1>2, <1>3
<1> DEFINE x == q * a + b
<1>6. x \in Nat /\ n = 10 * x + c /\ x = q * a + b
  BY <1>3, <1>5
<1> HIDE DEF x
<1>7. n \div 10 = x /\ n % 10 = c
  BY <1>3, <1>6
<1>8. x \div q = a /\ x % q = b
  BY <1>2, <1>3, <1>4, <1>6, DivideUnique
<1> QED BY <1>2, <1>7, <1>8 DEF a, r, b, c

(* The loop of itoa writes the last digit of a number after its tenth.     *)
LEMMA LastDigit ==
  \A m \in Nat, n \in Nat :
    n < 10 * Power[m] =>
      Digits[Power[m]][n] =
        IF Power[m] = 1 THEN <<Digit[n + 1]>>
        ELSE Append(Digits[Power[m] \div 10][n \div 10], Digit[(n % 10) + 1])
<1> DEFINE
  Written(p, n) ==
    Digits[p][n] = IF p = 1 THEN <<Digit[n + 1]>>
                   ELSE Append(Digits[p \div 10][n \div 10], Digit[(n % 10) + 1])
  T == {m \in Nat : \A n \in Nat : n < 10 * Power[m] => Written(Power[m], n)}
<1>1. ASSUME NEW n \in Nat
      PROVE  Written(1, n)
  <2>1. \A p \in Nat \ {0} :
          Digits[p][n] = <<Digit[(n \div p) + 1]>> \o Digits[p \div 10][n % p]
    BY DigitsDef
  <2> DEFINE p == 1
  <2>2. p \in Nat \ {0} /\ n \div p = n /\ n % p = 0 /\ p \div 10 = 0
    OBVIOUS
  <2>3. Digits[0][0] = <<>>
    BY DigitsDef
  <2>4. ASSUME NEW x
        PROVE  <<x>> \o <<>> = <<x>>
    OBVIOUS
  <2>5. Digits[p][n] = <<Digit[n + 1]>> \o <<>>
    <3> HIDE DEF p
    <3> QED BY <2>1, <2>2, <2>3
  <2> QED BY <2>4, <2>5
<1>2. ASSUME NEW m \in Nat, \A k \in Nat : k < m => k \in T
      PROVE  m \in T
  <2>1. CASE m < 10
    <3>1. Power[m] = 1
      BY <2>1, PowerDef
    <3> HIDE DEF Written
    <3> QED BY <1>1, <3>1
  <2>2. CASE m >= 10
    <3> DEFINE q == Power[m \div 10]
    <3>1. /\ Power[m] = 10 * q /\ Power[m] # 1 /\ Power[m] \div 10 = q
          /\ q \in Nat \ {0} /\ m \div 10 \in T
      BY <1>2, <2>2, PowerOfLonger, DivideByTen
    <3> HIDE DEF q
    <3> SUFFICES ASSUME NEW n \in Nat, n < 10 * (10 * q)
                 PROVE  Digits[10 * q][n] = Append(Digits[q][n \div 10], Digit[(n % 10) + 1])
      BY <3>1
    <3> DEFINE r == n % (10 * q)
    <3>2. /\ r \in Nat /\ r < 10 * q
          /\ n \div (10 * q) = (n \div 10) \div q
          /\ r \div 10 = (n \div 10) % q
          /\ r % 10 = n % 10
      BY <3>1, DigitsOfTenth
    <3> HIDE DEF r
    <3>3. Digits[10 * q][n] = <<Digit[((n \div 10) \div q) + 1]>> \o Digits[q][r]
      <4>1. ASSUME NEW p \in Nat \ {0}
            PROVE  Digits[p][n] = <<Digit[(n \div p) + 1]>> \o Digits[p \div 10][n % p]
        BY DigitsDef
      <4>2. 10 * q \in Nat \ {0} /\ (10 * q) \div 10 = q
        BY <3>1
      <4> QED BY <3>2, <4>1, <4>2 DEF r
    <3>4. Written(q, r)
      BY <3>1, <3>2 DEF q
    <3>5. CASE q = 1
      <4>1. Digits[q][r] = <<Digit[(n % 10) + 1]>>
        <5>1. r = r % 10
          BY <3>2, <3>5, DivideByTen
        <5> QED BY <3>2, <3>4, <3>5, <5>1
      <4>2. Digits[q][n \div 10] = <<Digit[((n \div 10) \div q) + 1]>>
        <5>1. n \div 10 \in Nat /\ (n \div 10) \div 1 = n \div 10
          BY DivideByTen
        <5> QED BY <1>1, <3>5, <5>1
      <4> QED BY <3>3, <4>1, <4>2
    <3>6. CASE q # 1
      <4>1. Digits[q][r] = Append(Digits[q \div 10][(n \div 10) % q], Digit[(n % 10) + 1])
        BY <3>2, <3>4, <3>6
      <4>2. n \div 10 \in Nat /\ q \div 10 \in Nat /\ (n \div 10) % q \in Nat
        <5>1. n \div 10 \in Nat /\ q \div 10 \in Nat
          BY <3>1, DivideByTen
        <5> QED BY <3>1, <5>1, Divide
      <4>3. /\ Digits[q][n \div 10] = <<Digit[((n \div 10) \div q) + 1]>>
                                       \o Digits[q \div 10][(n \div 10) % q]
            /\ Digits[q \div 10][(n \div 10) % q] \in Seq(AnyDigit)
        BY <3>1, <4>2, DigitsDef
      <4>4. ASSUME NEW s \in Seq(AnyDigit), NEW x, NEW y
            PROVE  <<x>> \o Append(s, y) = Append(<<x>> \o s, y)
        OBVIOUS
      <4> DEFINE s == Digits[q \div 10][(n \div 10) % q]
                 x == Digit[((n \div 10) \div q) + 1]
                 y == Digit[(n % 10) + 1]
      <4>5. /\ Digits[10 * q][n] = <<x>> \o Append(s, y)
            /\ Digits[q][n \div 10] = <<x>> \o s /\ s \in Seq(AnyDigit)
        BY <3>3, <4>1, <4>3
      <4> HIDE DEF s, x, y
      <4>6. <<x>> \o Append(s, y) = Append(<<x>> \o s, y)
        BY <4>4, <4>5
      <4>7. Digits[10 * q][n] = Append(Digits[q][n \div 10], y)
        BY <4>5, <4>6
      <4> QED BY <4>7 DEF y
    <3> QED BY <3>5, <3>6
  <2> QED BY <2>1, <2>2
<1>3. Nat \subseteq T
  <2> HIDE DEF T
  <2> QED BY <1>2, Induction
<1> QED BY <1>3

(* itoa gives what printf("%u") gives, for every number: the digits are as *)
(* many as the number has, in their order, without a leading zero.         *)
THEOREM ItoaIsDecimal == \A n \in Nat : Itoa(n) = Decimal[n]
<1> DEFINE T == {n \in Nat : Itoa(n) = Decimal[n]}
<1>1. ASSUME NEW n \in Nat, \A m \in Nat : m < n => m \in T
      PROVE  n \in T
  <2>1. n < 10 * Power[n]
    BY PowerIsGreatest
  <2>2. CASE n < 10
    <3>1. Power[n] = 1
      BY <2>2, PowerDef
    <3> QED BY <2>1, <2>2, <3>1, LastDigit, DecimalDef DEF Itoa
  <2>3. CASE n >= 10
    <3>1. n \div 10 \in T
      BY <1>1, <2>3, DivideByTen
    <3>2. Power[n] # 1 /\ Power[n] \div 10 = Power[n \div 10]
      BY <2>3, PowerOfLonger
    <3>3. Itoa(n) = Append(Itoa(n \div 10), Digit[(n % 10) + 1])
      BY <2>1, <3>2, LastDigit DEF Itoa
    <3>4. Itoa(n \div 10) = Decimal[n \div 10]
      BY <3>1
    <3>5. Decimal[n] = Append(Decimal[n \div 10], Digit[(n % 10) + 1])
      <4>1. ~ (n < 10)
        BY <2>3
      <4> QED BY <4>1, DecimalDef
    <3> QED BY <3>3, <3>4, <3>5
  <2> QED BY <2>2, <2>3
<1>2. Nat \subseteq T
  <2> HIDE DEF T
  <2> QED BY <1>1, Induction
<1> QED BY <1>2

------------------------------------------------------------------------------
(* atoi reads what itoa writes.                                            *)

DigitValue(c) == CHOOSE d \in 0 .. 9 : Digit[d + 1] = c

(* The tokens of two digits differ, so each has its value.                 *)
LEMMA ValueOfDigit ==
  /\ \A d \in 0 .. 9 : DigitValue(Digit[d + 1]) = d
  /\ \A c \in DigitToken : DigitValue(c) \in 0 .. 9
<1>1. \A d, e \in 0 .. 9 : Digit[d + 1] = Digit[e + 1] => d = e
  BY DEF Digit
<1>2. \A c \in DigitToken : \E d \in 0 .. 9 : Digit[d + 1] = c
  <2>1. DigitToken = {Digit[i] : i \in 1 .. 10}
    BY DEF DigitToken, ToSet, Digit
  <2>2. \A i \in 1 .. 10 : i - 1 \in 0 .. 9 /\ (i - 1) + 1 = i
    OBVIOUS
  <2> QED BY <2>1, <2>2
<1> QED BY <1>1, <1>2 DEF DigitValue

(* The front of a text that is not empty.                                  *)
LEMMA FrontAndLast ==
  ASSUME NEW S, NEW s \in Seq(S), s # <<>>
  PROVE  Front(s) \in Seq(S) /\ Len(Front(s)) < Len(s) /\ Len(s) \in Nat /\ Last(s) \in S
<1>1. Len(s) \in Nat \ {0}
  BY EmptySeq
<1>2. Last(s) \in S
  BY <1>1 DEF Last
<1>3. Front(s) \in Seq(S) /\ Len(Front(s)) = Len(s) - 1
  <2>1. \A i \in 1 .. Len(s) - 1 : s[i] \in S
    BY <1>1
  <2>2. /\ SubSeq(s, 1, Len(s) - 1) \in Seq(S)
        /\ Len(SubSeq(s, 1, Len(s) - 1)) = IF 1 <= Len(s) - 1 THEN (Len(s) - 1) - 1 + 1 ELSE 0
    BY <1>1, <2>1, SubSeqProperties
  <2>3. Len(SubSeq(s, 1, Len(s) - 1)) = Len(s) - 1
    <3>1. ASSUME NEW k \in Nat \ {0}
          PROVE  (IF 1 <= k - 1 THEN (k - 1) - 1 + 1 ELSE 0) = k - 1
      OBVIOUS
    <3>2. (IF 1 <= Len(s) - 1 THEN (Len(s) - 1) - 1 + 1 ELSE 0) = Len(s) - 1
      BY <1>1, <3>1
    <3> QED BY <2>2, <3>2
  <2> QED BY <2>2, <2>3 DEF Front
<1> QED BY <1>1, <1>2, <1>3

(* What was appended is the last, and the rest the front.                  *)
LEMMA FrontOfAppend ==
  ASSUME NEW S, NEW s \in Seq(S), NEW x \in S
  PROVE  /\ Append(s, x) \in Seq(S) /\ Append(s, x) # <<>>
         /\ Front(Append(s, x)) = s /\ Last(Append(s, x)) = x
BY DEF Front, Last

(* Number adds a digit to ten times what those before it give.             *)
LEMMA NumberDef ==
  \A s \in Seq(DigitToken) :
    /\ Number[s] \in Nat
    /\ Number[s] = IF s = <<>> THEN 0 ELSE 10 * Number[Front(s)] + DigitValue(Last(s))
<1> DEFINE R == Seq(DigitToken)
           rank == [s \in R |-> Len(s)]
           leaf == {<<>>}
           down == [s \in R |-> IF s = <<>> THEN <<>> ELSE Front(s)]
           base == [s \in R |-> 0]
           next(s, n) == IF s = <<>> THEN 0 ELSE 10 * n + DigitValue(Last(s))
           step == [p \in R \X Nat |-> next(p[1], p[2])]
           Good(f) == f = [s \in R |-> IF s = <<>> THEN 0
                                      ELSE 10 * f[Front(s)] + DigitValue(Last(s))]
<1>1. rank \in [R -> Nat] /\ down \in [R -> R]
  BY FrontAndLast, EmptySeq
<1>2. WellFounded(R, rank, leaf, down)
  BY <1>1, FrontAndLast DEF WellFounded
<1>3. base \in [R -> Nat]
  OBVIOUS
<1>4. ASSUME NEW s \in R, NEW n \in Nat
      PROVE  next(s, n) \in Nat
  BY FrontAndLast, ValueOfDigit
<1>5. step \in [R \X Nat -> Nat]
  BY <1>4
<1>6. PICK f : Recursive(f, R, leaf, down, Nat, base, step)
  <2> HIDE DEF R, rank, leaf, down, base, step
  <2> QED BY <1>2, <1>3, <1>5, Recursion
<1>7. ASSUME NEW s \in R
      PROVE  f[s] \in Nat /\ f[s] = next(s, f[Front(s)])
  <2>1. f[s] \in Nat
    BY <1>6 DEF Recursive
  <2>2. CASE s = <<>>
    BY <1>6, <2>1, <2>2 DEF Recursive
  <2>3. CASE s # <<>>
    <3>1. Front(s) \in R /\ down[s] = Front(s) /\ f[Front(s)] \in Nat
      BY <1>6, <2>3, FrontAndLast DEF Recursive
    <3>2. f[s] = step[<<s, f[Front(s)]>>]
      BY <1>6, <2>3, <3>1 DEF Recursive
    <3> QED BY <2>1, <3>1, <3>2
  <2> QED BY <2>2, <2>3
<1>8. Good(f)
  <2>1. f = [s \in R |-> f[s]]
    BY <1>6 DEF Recursive
  <2> QED BY <1>7, <2>1
<1>9. Number = CHOOSE g : Good(g)
  BY DEF Number, DigitToken, DigitValue
<1>10. Good(Number)
  <2> HIDE DEF Good
  <2> QED BY <1>8, <1>9
<1>11. \A s \in R : Number[s] = next(s, Number[Front(s)])
  BY <1>10
<1>12. ASSUME NEW s \in R, \A t \in R : rank[t] < rank[s] => t \in {u \in R : Number[u] \in Nat}
       PROVE  s \in {u \in R : Number[u] \in Nat}
  <2>1. CASE s = <<>>
    <3>1. next(s, Number[Front(s)]) = 0
      BY <2>1
    <3> HIDE DEF next
    <3> QED BY <1>11, <3>1
  <2>2. CASE s # <<>>
    <3>1. Number[Front(s)] \in Nat
      BY <1>12, <2>2, FrontAndLast
    <3> HIDE DEF next
    <3> QED BY <1>4, <1>11, <3>1
  <2> QED BY <2>1, <2>2
<1>13. R \subseteq {u \in R : Number[u] \in Nat}
  <2> DEFINE T == {u \in R : Number[u] \in Nat}
  <2>1. \A s \in R : (\A t \in R : rank[t] < rank[s] => t \in T) => s \in T
    BY <1>12
  <2> HIDE DEF R, rank, T
  <2>2. rank \in [R -> Nat]
    BY <1>1
  <2>3. R \subseteq T
    BY <2>1, <2>2, RankInduction
  <2> QED BY <2>3 DEF T
<1> QED BY <1>11, <1>13

(* The digits of a number in decimal give the number.                      *)
LEMMA NumberOfDecimal == \A n \in Nat : Number[Decimal[n]] = n
<1> DEFINE T == {n \in Nat : Number[Decimal[n]] = n}
<1>1. ASSUME NEW s \in Seq(DigitToken), NEW d \in 0 .. 9
      PROVE  Number[Append(s, Digit[d + 1])] = 10 * Number[s] + d
  <2> DEFINE x == Digit[d + 1]
  <2>1. x \in DigitToken /\ DigitValue(x) = d
    BY DigitOf, ValueOfDigit
  <2> HIDE DEF x
  <2>2. /\ Append(s, x) \in Seq(DigitToken) /\ Append(s, x) # <<>>
        /\ Front(Append(s, x)) = s /\ Last(Append(s, x)) = x
    BY <2>1, FrontOfAppend
  <2>3. Number[Append(s, x)] = 10 * Number[s] + d
    BY <2>1, <2>2, NumberDef
  <2> QED BY <2>3 DEF x
<1>2. ASSUME NEW n \in Nat, \A m \in Nat : m < n => m \in T
      PROVE  n \in T
  <2>1. CASE n < 10
    <3> DEFINE e == <<>>
    <3>1. e \in Seq(DigitToken) /\ e = <<>>
      BY EmptySeq
    <3>2. Number[e] = 0
      <4> HIDE DEF e
      <4> QED BY <3>1, NumberDef
    <3>3. Decimal[n] = Append(e, Digit[n + 1])
      <4>1. Decimal[n] = <<Digit[n + 1]>>
        BY <2>1, DecimalDef
      <4> QED BY <4>1
    <3> HIDE DEF e
    <3>4. n \in 0 .. 9
      BY <2>1
    <3>5. Number[Decimal[n]] = 10 * Number[e] + n
      BY <1>1, <3>1, <3>3, <3>4
    <3> QED BY <3>2, <3>5
  <2>2. CASE ~ (n < 10)
    <3>1. Decimal[n \div 10] \in Seq(DigitToken) /\ Number[Decimal[n \div 10]] = n \div 10
      <4>1. n \div 10 \in Nat /\ n \div 10 < n
        BY <2>2, DivideByTen
      <4>2. n \div 10 \in T
        BY <1>2, <4>1
      <4> QED BY <4>1, <4>2, DecimalDef
    <3>2. Decimal[n] = Append(Decimal[n \div 10], Digit[(n % 10) + 1])
      BY <2>2, DecimalDef
    <3>3. Number[Decimal[n]] = 10 * (n \div 10) + (n % 10)
      <4>1. n % 10 \in 0 .. 9
        BY DivideByTen
      <4>2. Number[Append(Decimal[n \div 10], Digit[(n % 10) + 1])]
              = 10 * Number[Decimal[n \div 10]] + (n % 10)
        BY <1>1, <3>1, <4>1
      <4> QED BY <3>1, <3>2, <4>2
    <3> QED BY <3>3, DivideByTen
  <2> QED BY <2>1, <2>2
<1>3. Nat \subseteq T
  <2> HIDE DEF T
  <2> QED BY <1>2, Induction
<1> QED BY <1>3

(* The least number of a set, and where a text is cut.                     *)
LEMMA LeastIs ==
  ASSUME NEW T \in SUBSET Int, NEW k \in T, \A i \in T : k <= i
  PROVE  Min(T) = k
<1>1. \A x \in T : (\A y \in T : x <= y) => x = k
  OBVIOUS
<1>2. \E x \in T : \A y \in T : x <= y
  OBVIOUS
<1> QED BY <1>1, <1>2 DEF Min

(* A text without a first blank is not shortened.                          *)
LEMMA NothingSkipped ==
  ASSUME NEW S, NEW s \in Seq(S), s # <<>>, s[1] \notin Blank
  PROVE  SkipBlanks(s) = s
<1>1. Len(s) \in Nat \ {0}
  BY EmptySeq
<1> DEFINE T == {i \in DOMAIN s : s[i] \notin Blank} \cup {Len(s) + 1}
<1>2. T \in SUBSET Int /\ 1 \in T /\ \A i \in T : 1 <= i
  BY <1>1
<1>3. Min(T) = 1
  <2> HIDE DEF T
  <2> QED BY <1>2, LeastIs
<1>4. SubSeq(s, 1, Len(s)) = s
  BY <1>1
<1> QED BY <1>3, <1>4 DEF SkipBlanks

(* The digits at the start of a text end where something else comes.       *)
LEMMA DigitsLead ==
  ASSUME NEW S, NEW d \in Seq(DigitToken), NEW s \in Seq(S),
         s = <<>> \/ s[1] \notin DigitToken
  PROVE  LeadingDigits(d \o s) = d
<1> DEFINE t == d \o s
           T == {i \in DOMAIN t : t[i] \notin ToSet(Digit)} \cup {Len(t) + 1}
           k == Len(d) + 1
<1>1. Len(d) \in Nat /\ Len(s) \in Nat /\ Len(t) = Len(d) + Len(s) /\ DOMAIN t = 1 .. Len(t)
  BY LenProperties
<1>2. /\ \A i \in 1 .. Len(d) : t[i] = d[i] /\ d[i] \in DigitToken
      /\ Len(s) # 0 => t[k] = s[1]
  BY <1>1
<1>3. Len(s) = 0 => s = <<>>
  BY EmptySeq
<1>4. k \in T
  <2>1. CASE Len(s) = 0
    BY <1>1, <2>1
  <2>2. CASE Len(s) # 0
    <3>1. k \in DOMAIN t /\ s # <<>>
      BY <1>1, <2>2
    <3> QED BY <1>2, <2>2, <3>1 DEF DigitToken
  <2> QED BY <2>1, <2>2
<1>5. ASSUME NEW i \in T
      PROVE  i \in Int /\ k <= i
  <2>1. i \in Nat
    BY <1>1
  <2>2. CASE i \in 1 .. Len(d)
    <3>1. t[i] \in ToSet(Digit) /\ i # Len(t) + 1
      BY <1>1, <1>2, <2>2 DEF DigitToken
    <3> QED BY <3>1
  <2>3. i # 0
    BY <1>1
  <2> QED BY <1>1, <2>1, <2>2, <2>3
<1>6. Min(T) = k
  <2> HIDE DEF T, k
  <2> QED BY <1>4, <1>5, LeastIs
<1>7. SubSeq(t, 1, Len(d)) = d
  BY <1>1, <1>2
<1>8. k - 1 = Len(d)
  BY <1>1
<1> QED BY <1>6, <1>7, <1>8 DEF LeadingDigits

LEMMA DecimalNotEmpty ==
  ASSUME NEW n \in Nat
  PROVE  Decimal[n] # <<>>
<1>0. Decimal[n] \in Seq(DigitToken)
  BY DecimalDef
<1>1. CASE n < 10
  <2>1. Decimal[n] = <<Digit[n + 1]>>
    BY <1>1, DecimalDef
  <2>2. ASSUME NEW x
        PROVE  <<x>> # <<>>
    OBVIOUS
  <2> QED BY <1>0, <2>1, <2>2
<1>2. CASE ~ (n < 10)
  <2>1. Decimal[n] = Append(Decimal[n \div 10], Digit[(n % 10) + 1])
    BY <1>2, DecimalDef
  <2>2. Decimal[n \div 10] \in Seq(DigitToken)
    BY DivideByTen, DecimalDef
  <2>3. Digit[(n % 10) + 1] \in DigitToken
    BY DivideByTen, DigitOf
  <2> QED BY <1>0, <2>1, <2>2, <2>3, FrontOfAppend
<1> QED BY <1>1, <1>2

(* atoi finds the number in any text that begins with its digits.          *)
LEMMA AtoiOfDecimal ==
  ASSUME NEW n \in Nat, NEW S, NEW s \in Seq(S), s = <<>> \/ s[1] \notin DigitToken
  PROVE  Atoi(Decimal[n] \o s) = n
<1> DEFINE t == Decimal[n] \o s
<1>1. Decimal[n] \in Seq(DigitToken) /\ Decimal[n] # <<>>
  BY DecimalDef, DecimalNotEmpty
<1>2. t \in Seq(DigitToken \cup S) /\ t # <<>> /\ t[1] \in DigitToken
  BY <1>1
<1>3. DigitToken \cap Blank = {}
  <2>1. \A i \in 1 .. 10 : Digit[i] \notin Blank
    <3>1. \A i \in 1 .. 10 : Digit[i] \in {"0", "1", "2", "3", "4", "5", "6", "7", "8", "9"}
      BY DEF Digit
    <3>2. \A c \in {"0", "1", "2", "3", "4", "5", "6", "7", "8", "9"} : c \notin {" ", "CRLF"}
      OBVIOUS
    <3> QED BY <3>1, <3>2 DEF Blank, CRLF
  <2>2. DigitToken = {Digit[i] : i \in 1 .. 10}
    BY DEF DigitToken, ToSet, Digit
  <2> QED BY <2>1, <2>2
<1>4. SkipBlanks(t) = t
  <2> HIDE DEF t
  <2> QED BY <1>2, <1>3, NothingSkipped
<1>5. LeadingDigits(t) = Decimal[n]
  BY <1>1, DigitsLead
<1> QED BY <1>4, <1>5, NumberOfDecimal DEF Atoi

(* Every number survives the way through text: what itoa writes, at the    *)
(* end of a text or before a separator, atoi reads as the same number.     *)
THEOREM NumbersSurvive ==
  ASSUME NEW n \in Nat, NEW S, NEW s \in Seq(S), s = <<>> \/ s[1] \notin DigitToken
  PROVE  Atoi(Itoa(n) \o s) = n
BY ItoaIsDecimal, AtoiOfDecimal

------------------------------------------------------------------------------
(* The buffer of itoa.                                                     *)

LEMMA LengthOfDecimal ==
  ASSUME NEW n \in Nat
  PROVE  /\ n < 10 => Len(Decimal[n]) = 1
         /\ n >= 10 => Len(Decimal[n]) = Len(Decimal[n \div 10]) + 1
<1>1. CASE n < 10
  <2>1. Decimal[n] = <<Digit[n + 1]>>
    BY <1>1, DecimalDef
  <2>2. \A c : Len(<<c>>) = 1
    OBVIOUS
  <2> QED BY <1>1, <2>1, <2>2
<1>2. CASE ~ (n < 10)
  <2>1. Decimal[n] = Append(Decimal[n \div 10], Digit[(n % 10) + 1])
    BY <1>2, DecimalDef
  <2>2. Decimal[n \div 10] \in Seq(DigitToken) /\ Digit[(n % 10) + 1] \in DigitToken
    BY DivideByTen, DigitOf, DecimalDef
  <2>3. ASSUME NEW s \in Seq(DigitToken), NEW c \in DigitToken
        PROVE  Len(Append(s, c)) = Len(s) + 1
    OBVIOUS
  <2> QED BY <1>2, <2>1, <2>2, <2>3
<1> QED BY <1>1, <1>2

(* How many digits itoa writes.                                            *)
LEMMA LengthOfItoa ==
  ASSUME NEW number \in Nat
  PROVE  /\ Len(Itoa(number)) \in Nat
         /\ Len(Itoa(number)) <= 4 <=> number < 10000
         /\ Len(Itoa(number)) <= 5 <=> number < 100000
<1> DEFINE length == [n \in Nat |-> Len(Decimal[n])]
           Short(k, limit) == \A n \in Nat : length[n] <= k <=> n < limit
<1>1. length \in [Nat -> Nat]
  <2>1. ASSUME NEW s \in Seq(DigitToken)
        PROVE  Len(s) \in Nat
    OBVIOUS
  <2> QED BY <2>1, DecimalDef
<1>2. ASSUME NEW n \in Nat
      PROVE  /\ n < 10 => length[n] = 1
             /\ n >= 10 => length[n] = length[n \div 10] + 1
                           /\ length[n \div 10] \in Nat \ {0}
  <2>1. n \div 10 \in Nat
    BY DivideByTen
  <2>2. Decimal[n \div 10] \in Seq(DigitToken) /\ Decimal[n \div 10] # <<>>
    BY <2>1, DecimalDef, DecimalNotEmpty
  <2>3. Len(Decimal[n \div 10]) \in Nat \ {0}
    BY <2>2, EmptySeq, LenProperties
  <2> QED BY <2>1, <2>3, LengthOfDecimal
<1>3. ASSUME NEW n \in Nat
      PROVE  Len(Itoa(n)) = length[n]
  <2>1. Itoa(n) = Decimal[n]
    BY ItoaIsDecimal
  <2>2. length[n] = Len(Decimal[n])
    OBVIOUS
  <2> HIDE DEF length
  <2> QED BY <2>1, <2>2
<1> HIDE DEF length
<1>4. Short(1, 10)
  <2> SUFFICES ASSUME NEW n \in Nat
               PROVE  length[n] <= 1 <=> n < 10
    OBVIOUS
  <2> QED BY <1>1, <1>2
<1>5. ASSUME NEW k \in Nat, NEW limit \in Nat, limit >= 1, Short(k, limit)
      PROVE  Short(k + 1, 10 * limit)
  <2> SUFFICES ASSUME NEW n \in Nat
               PROVE  length[n] <= k + 1 <=> n < 10 * limit
    OBVIOUS
  <2>1. CASE n < 10
    BY <1>2, <1>5, <2>1
  <2>2. CASE n >= 10
    <3>1. n \div 10 \in Nat /\ (n \div 10 < limit <=> n < 10 * limit)
      OBVIOUS
    <3>2. length[n \div 10] \in Nat /\ (length[n \div 10] <= k <=> n \div 10 < limit)
      BY <1>1, <1>5, <3>1
    <3> QED BY <1>2, <2>2, <3>1, <3>2
  <2> QED BY <2>1, <2>2
<1> HIDE DEF Short
<1>6. Short(2, 100)
  BY <1>4, <1>5
<1>7. Short(3, 1000)
  BY <1>5, <1>6
<1>8. Short(4, 10000)
  BY <1>5, <1>7
<1>9. Short(5, 100000)
  BY <1>5, <1>8
<1>10. length[number] \in Nat /\ Len(Itoa(number)) = length[number]
  BY <1>1, <1>3
<1>11. /\ length[number] <= 4 <=> number < 10000
       /\ length[number] <= 5 <=> number < 100000
  BY <1>8, <1>9 DEF Short
<1> DEFINE l == Len(Itoa(number))
<1>12. l = length[number]
  BY <1>10
<1> HIDE DEF l
<1>13. l \in Nat /\ (l <= 4 <=> number < 10000) /\ (l <= 5 <=> number < 100000)
  BY <1>10, <1>11, <1>12
<1> QED BY <1>13 DEF l

(* The five bytes and the end that the server's itoa allocates hold every  *)
(* port: it writes nothing behind its buffer when catchAlarm gives it one. *)
THEOREM PortsFit ==
  ASSUME NEW port \in Nat, port <= 65535
  PROVE  Len(Itoa(port)) + 1 <= 5 + 1
<1> DEFINE l == Len(Itoa(port))
<1>1. l \in Nat /\ (l <= 5 <=> port < 100000)
  BY LengthOfItoa
<1> HIDE DEF l
<1>2. l + 1 <= 5 + 1
  BY <1>1
<1> QED BY <1>2 DEF l

(* The client's itoa allocates one byte less: its buffer holds the digits  *)
(* and the end of the numbers below 10000 and of no others, so of a cseq   *)
(* number in any session a user will see, but of no port above 9999.       *)
THEOREM ClientNumbersFit ==
  ASSUME NEW number \in Nat
  PROVE  Len(Itoa(number)) + 1 <= 4 + 1 <=> number < 10000
<1> DEFINE l == Len(Itoa(number))
<1>1. l \in Nat /\ (l <= 4 <=> number < 10000)
  BY LengthOfItoa
<1> HIDE DEF l
<1>2. l + 1 <= 4 + 1 <=> number < 10000
  BY <1>1
<1> QED BY <1>2 DEF l
==============================================================================
