------------------------------ MODULE Division ------------------------------
(* Division of natural numbers by one that is not a numeral. *)
EXTENDS Integers, TLAPS

LEMMA DivMod ==
  ASSUME NEW n \in Nat, NEW p \in Nat \ {0}
  PROVE  n \div p \in Nat /\ n % p \in 0 .. p - 1 /\ n = p * (n \div p) + (n % p)
<1>1. n % p \in 0 .. p - 1
  OBVIOUS
<1>2. n = p * (n \div p) + (n % p)
  OBVIOUS
<1>3. n \div p \in Int
  OBVIOUS
<1>4. n \div p >= 0
  <2> DEFINE d == n \div p
  <2>1. d \in Int /\ n < p * d + p
    BY <1>1, <1>2, <1>3
  <2> HIDE DEF d
  <2>2. CASE d < 0
    <3>1. p * d + p <= 0
      BY <2>1, <2>2
    <3> QED  BY <2>1, <3>1
  <2> QED  BY <2>1, <2>2 DEF d
<1> QED  BY <1>1, <1>2, <1>3, <1>4

LEMMA ProductGap ==
  ASSUME NEW a \in Nat, NEW b \in Nat, NEW p \in Nat \ {0}, a < b
  PROVE  p * a + p <= p * b
  OBVIOUS

LEMMA Distributed ==
  ASSUME NEW a \in Nat, NEW b \in Nat, NEW p \in Nat
  PROVE  (a + b) * p = a * p + b * p
  OBVIOUS

LEMMA DivUnique ==
  ASSUME NEW p \in Nat \ {0}, NEW a \in Nat, NEW b \in 0 .. p - 1
  PROVE  (p * a + b) \div p = a /\ (p * a + b) % p = b
<1> DEFINE n == p * a + b
           d == n \div p
           m == n % p
<1>1. n \in Nat /\ n = p * a + b
  OBVIOUS
<1>2. d \in Nat /\ m \in 0 .. p - 1 /\ n = p * d + m
  BY <1>1, DivMod
<1> HIDE DEF n, d, m
<1>3. p * a \in Nat /\ p * d \in Nat
  BY <1>2
<1>4. ~(a < d)
  <2> SUFFICES ASSUME a < d PROVE FALSE
    OBVIOUS
  <2>1. p * a + p <= p * d
    BY <1>2, ProductGap
  <2> QED  BY <2>1, <1>1, <1>2, <1>3
<1>5. ~(d < a)
  <2> SUFFICES ASSUME d < a PROVE FALSE
    OBVIOUS
  <2>1. p * d + p <= p * a
    BY <1>2, ProductGap
  <2> QED  BY <2>1, <1>1, <1>2, <1>3
<1>6. d = a
  BY <1>2, <1>4, <1>5
<1> QED  BY <1>1, <1>2, <1>3, <1>6 DEF n, d, m
=============================================================================
