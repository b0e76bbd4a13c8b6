------------------------------ MODULE Quotients -----------------------------
(* Lemmas on quotients and remainders of natural numbers: the round robin  *)
(* of the pool counts with them, and the time stamp of the log.            *)
EXTENDS Integers, TLAPS

LEMMA LessFactor ==
  ASSUME NEW a \in Nat, NEW b \in Nat, NEW n \in Nat, a < b
  PROVE  a * n + n <= b * n
<1>1. PICK k \in Nat : b = a + 1 + k
  <2>1. b - a - 1 \in Nat /\ b = a + 1 + (b - a - 1)
    OBVIOUS
  <2> QED BY <2>1
<1>2. (a + 1 + k) * n = a * n + n + k * n
  BY Z3
<1>3. k * n \in Nat /\ a * n \in Nat
  BY Z3
<1> QED BY <1>1, <1>2, <1>3

(* There is one quotient and one remainder.                                *)
LEMMA OneQuotient ==
  ASSUME NEW n \in Nat, 0 < n, NEW a \in Nat, NEW b \in Nat,
         NEW r \in Nat, NEW s \in Nat, r < n, s < n, a * n + r = b * n + s
  PROVE  a = b /\ r = s
<1>1. a * n \in Nat /\ b * n \in Nat
  BY Z3
<1>2. ~(a < b)
  <2> SUFFICES ASSUME a < b PROVE FALSE
    OBVIOUS
  <2>1. a * n + n <= b * n
    BY LessFactor
  <2> QED BY <1>1, <2>1
<1>3. ~(b < a)
  <2> SUFFICES ASSUME b < a PROVE FALSE
    OBVIOUS
  <2>1. b * n + n <= a * n
    BY LessFactor
  <2> QED BY <1>1, <2>1
<1>4. a = b
  BY <1>2, <1>3
<1> QED BY <1>1, <1>4

LEMMA Division ==
  ASSUME NEW n \in Nat, 0 < n, NEW a \in Nat
  PROVE  /\ a \div n \in Nat /\ a % n \in Nat /\ a % n < n
         /\ a = ((a \div n) * n) + (a % n)
<1>1. a % n \in Nat /\ a % n < n
  OBVIOUS
<1>2. PICK d \in Int : d = a \div n /\ a = (n * d) + (a % n)
  <2>1. a \div n \in Int /\ a = (n * (a \div n)) + (a % n)
    BY Z3
  <2> QED BY <2>1
<1>3. d >= 0
  <2> SUFFICES ASSUME d < 0 PROVE FALSE
    OBVIOUS
  <2>1. PICK k \in Nat : d = 0 - (k + 1)
    <3>1. 0 - d - 1 \in Nat /\ d = 0 - ((0 - d - 1) + 1)
      OBVIOUS
    <3> QED BY <3>1
  <2>2. n * (0 - (k + 1)) = 0 - n - n * k /\ n * k \in Nat
    BY Z3
  <2> QED BY <1>1, <1>2, <2>1, <2>2
<1>4. n * d = d * n
  BY Z3
<1> QED BY <1>1, <1>2, <1>3, <1>4

LEMMA QuotientIs ==
  ASSUME NEW n \in Nat, 0 < n, NEW q \in Nat, NEW r \in Nat, r < n
  PROVE  (q * n + r) \div n = q /\ (q * n + r) % n = r
<1>1. PICK a \in Nat : a = q * n + r
  <2>1. q * n + r \in Nat
    BY Z3
  <2> QED BY <2>1
<1>2. PICK d \in Nat, s \in Nat : d = a \div n /\ s = a % n /\ s < n /\ a = d * n + s
  BY Division
<1>3. d = q /\ s = r
  BY <1>1, <1>2, OneQuotient
<1> QED BY <1>1, <1>2, <1>3

(* The next remainder.                                                     *)
LEMMA NextRemainder ==
  ASSUME NEW n \in Nat, 0 < n, NEW a \in Nat
  PROVE  /\ (a + 1) % n = IF (a % n) + 1 = n THEN 0 ELSE (a % n) + 1
         /\ 0 % n = 0
<1>1. PICK q \in Nat, r \in Nat : q = a \div n /\ r = a % n /\ r < n /\ a = q * n + r
  BY Division
<1>2. CASE r + 1 = n
  <2>1. a + 1 = (q + 1) * n + 0
    BY <1>1, <1>2, Z3
  <2>2. ((q + 1) * n + 0) % n = 0
    BY QuotientIs
  <2> QED BY <1>1, <1>2, <2>1, <2>2
<1>3. CASE r + 1 # n
  <2>1. a + 1 = q * n + (r + 1)
    BY <1>1, Z3
  <2>2. (q * n + (r + 1)) % n = r + 1
    <3>1. r + 1 \in Nat /\ r + 1 < n
      BY <1>1, <1>3
    <3> QED BY <3>1, QuotientIs
  <2> QED BY <1>1, <1>3, <2>1, <2>2
<1>4. 0 % n = 0
  <2>1. 0 * n + 0 = 0
    OBVIOUS
  <2>2. (0 * n + 0) % n = 0
    BY QuotientIs
  <2> QED BY <2>1, <2>2
<1> QED BY <1>1, <1>2, <1>3, <1>4

LEMMA NestedQuotient ==
  ASSUME NEW n \in Nat, 0 < n, NEW m \in Nat, 0 < m, NEW a \in Nat
  PROVE  a \div (n * m) = (a \div n) \div m
<1>1. PICK q \in Nat, r \in Nat : q = a \div n /\ r < n /\ a = q * n + r
  BY Division
<1>2. PICK p \in Nat, s \in Nat : p = q \div m /\ s < m /\ q = p * m + s
  BY Division
<1>3. PICK k \in Nat : k = n * m /\ k = m * n
  <2>1. n * m \in Nat /\ n * m = m * n
    BY Z3
  <2> QED BY <2>1
<1>4. PICK e \in Nat : e = s * n
  <2>1. s * n \in Nat
    BY Z3
  <2> QED BY <2>1
<1>5. e + r \in Nat /\ e + r < k
  <2>1. s * n + n <= m * n
    BY <1>2, LessFactor
  <2> QED BY <1>1, <1>3, <1>4, <2>1
<1>6. a = p * k + (e + r)
  <2>1. (p * m + s) * n = p * (m * n) + s * n
    BY Z3
  <2>2. p * k \in Nat
    BY Z3
  <2> QED BY <1>1, <1>2, <1>3, <1>4, <2>1, <2>2
<1>7. (p * k + (e + r)) \div k = p
  BY <1>5, QuotientIs
<1> QED BY <1>1, <1>2, <1>3, <1>6, <1>7

(* Division that rounds up.                                                *)
LEMMA RoundedUp ==
  ASSUME NEW n \in Nat, 0 < n, NEW a \in Nat
  PROVE  (a + n - 1) \div n = IF a % n = 0 THEN a \div n ELSE (a \div n) + 1
<1>1. PICK q \in Nat, r \in Nat : q = a \div n /\ r = a % n /\ r < n /\ a = q * n + r
  BY Division
<1>2. PICK e \in Nat : e = q * n
  <2>1. q * n \in Nat
    BY Z3
  <2> QED BY <2>1
<1>3. CASE r = 0
  <2>1. n - 1 \in Nat /\ n - 1 < n /\ a + n - 1 = q * n + (n - 1)
    BY <1>1, <1>2, <1>3
  <2>2. (q * n + (n - 1)) \div n = q
    BY <2>1, QuotientIs
  <2> QED BY <1>1, <1>3, <2>1, <2>2
<1>4. CASE r # 0
  <2>1. (q + 1) * n = q * n + n
    BY Z3
  <2>2. r - 1 \in Nat /\ r - 1 < n /\ q + 1 \in Nat /\ a + n - 1 = (q + 1) * n + (r - 1)
    BY <1>1, <1>2, <1>4, <2>1
  <2>3. ((q + 1) * n + (r - 1)) \div n = q + 1
    BY <2>2, QuotientIs
  <2> QED BY <1>1, <1>4, <2>2, <2>3
<1> QED BY <1>3, <1>4
=============================================================================
