--------------------------- MODULE WorkCodecProofs ---------------------------
(***************************************************************************)
(* Lemmas about the functions of WorkCodec, for every size of digits,      *)
(* words, nonces and blobs, each standing on the one before: induction, in *)
(* the form that a set of numbers contains all; powers; division; the      *)
(* digits of a number; the loops that shift bytes in; texts; and counting. *)
(***************************************************************************)
EXTENDS WorkCodec, FiniteSetTheorems, TLAPS

-----------------------------------------------------------------------------
(* Induction                                                               *)

Less == {ss \in Nat \X Nat : ss[1] < ss[2]}

LEMMA Least ==
  ASSUME NEW T \in SUBSET Nat, T # {}
  PROVE  \E m \in T : \A k \in T : m <= k
<1>1. IsWellFoundedOn(Less, Nat) BY NatLessThanWellFounded DEF OpToRel, Less
<1>2. PICK m \in T : \A k \in T : <<k, m>> \notin Less BY <1>1, WFMin
<1>3. ASSUME NEW k \in T, k < m PROVE FALSE
  <2>1. <<k, m>> \in Nat \X Nat /\ <<k, m>>[1] = k /\ <<k, m>>[2] = m OBVIOUS
  <2>2. <<k, m>> \in Less BY <1>3, <2>1 DEF Less
  <2>3. QED BY <1>2, <2>2
<1>4. QED BY <1>3

(* A set with zero and with the successor of each of its numbers has all.  *)
LEMMA Induction ==
  ASSUME NEW S, 0 \in S, \A n \in Nat : n \in S => n + 1 \in S
  PROVE  Nat \subseteq S
<1>1. SUFFICES ASSUME Nat \ S # {} PROVE FALSE OBVIOUS
<1>2. PICK m \in Nat \ S : \A k \in Nat \ S : m <= k BY <1>1, Least
<1>3. m - 1 \in Nat /\ (m - 1) + 1 = m /\ ~(m <= m - 1) BY <1>2
<1>4. m - 1 \in S BY <1>2, <1>3
<1>5. QED BY <1>2, <1>3, <1>4

(* The sequence of values that starts with c and takes the step F.         *)
Steps(S) == [S \X Nat -> S]
Iterates(S, c, F, g) ==
  g \in [Nat -> S] /\ g[0] = c /\ \A k \in Nat : g[k + 1] = F[<<g[k], k>>]

LEMMA Recursion ==
  ASSUME NEW S, NEW c \in S, NEW F \in Steps(S)
  PROVE  \E g : Iterates(S, c, F, g)
<1> USE DEF Steps, Iterates
<1> DEFINE Start(n, g) == g[0] = c /\ \A k \in 0..(n - 1) : g[k + 1] = F[<<g[k], k>>]
           N == {n \in Nat : \E g \in [0..n -> S] : Start(n, g)}
<1>1. 0 \in N
  <2>1. [k \in 0..0 |-> c] \in [0..0 -> S] /\ Start(0, [k \in 0..0 |-> c]) OBVIOUS
  <2>2. QED BY <2>1
<1>2. ASSUME NEW n \in Nat, n \in N PROVE n + 1 \in N
  <2>1. PICK g \in [0..n -> S] : Start(n, g) BY <1>2
  <2> DEFINE h == [k \in 0..(n + 1) |-> IF k = n + 1 THEN F[<<g[n], n>>] ELSE g[k]]
  <2>2. h \in [0..(n + 1) -> S]
    <3>1. <<g[n], n>> \in S \X Nat OBVIOUS
    <3>2. \A k \in 0..(n + 1) : k # n + 1 => k \in 0..n OBVIOUS
    <3>3. QED BY <3>1, <3>2
  <2>3. h[0] = c BY <2>1
  <2>4. ASSUME NEW k \in 0..n PROVE h[k + 1] = F[<<h[k], k>>]
    <3>1. h[k] = g[k] OBVIOUS
    <3>2. CASE k = n
      <4>1. h[n + 1] = F[<<g[n], n>>] OBVIOUS
      <4>2. QED BY <3>1, <3>2, <4>1
    <3>3. CASE k # n
      <4>1. k \in 0..(n - 1) /\ k + 1 # n + 1 /\ k + 1 \in 0..(n + 1) BY <3>3
      <4>2. QED BY <2>1, <3>1, <4>1
    <3>4. QED BY <3>2, <3>3
  <2>5. (n + 1) - 1 = n OBVIOUS
  <2> HIDE DEF h
  <2>6. Start(n + 1, h) BY <2>3, <2>4, <2>5
  <2>7. QED BY <2>2, <2>6
<1>3. Nat \subseteq N
  <2> HIDE DEF N
  <2>1. QED BY <1>1, <1>2, Induction
<1> DEFINE G == [n \in Nat |-> CHOOSE g : g \in [0..n -> S] /\ Start(n, g)]
<1>4. \A n \in Nat : G[n] \in [0..n -> S] /\ Start(n, G[n])
  <2> SUFFICES ASSUME NEW n \in Nat PROVE G[n] \in [0..n -> S] /\ Start(n, G[n]) OBVIOUS
  <2>1. \E g : g \in [0..n -> S] /\ Start(n, g) BY <1>3
  <2>2. G[n] = CHOOSE g : g \in [0..n -> S] /\ Start(n, g) OBVIOUS
  <2> HIDE DEF G
  <2>3. QED BY <2>1, <2>2, Zenon
<1> HIDE DEF G
<1>5. ASSUME NEW m \in Nat PROVE \A k \in 0..m : G[m][k] = G[k][k]
  <2> DEFINE E == {k \in Nat : \A n \in Nat : k <= n => G[n][k] = G[k][k]}
  <2>1. 0 \in E BY <1>4
  <2>2. ASSUME NEW k \in Nat, k \in E PROVE k + 1 \in E
    <3> SUFFICES ASSUME NEW n \in Nat, k + 1 <= n PROVE G[n][k + 1] = G[k + 1][k + 1]
      OBVIOUS
    <3>1. k \in 0..(n - 1) /\ k \in 0..((k + 1) - 1) /\ k <= n /\ k <= k + 1 /\ k + 1 \in Nat OBVIOUS
    <3>2. G[n][k + 1] = F[<<G[n][k], k>>] /\ G[k + 1][k + 1] = F[<<G[k + 1][k], k>>]
      BY <1>4, <3>1
    <3>3. G[n][k] = G[k][k] /\ G[k + 1][k] = G[k][k] BY <2>2, <3>1
    <3>4. QED BY <3>2, <3>3
  <2>3. Nat \subseteq E
    <3> HIDE DEF E
    <3>1. QED BY <2>1, <2>2, Induction
  <2>4. QED BY <2>3
<1> DEFINE f == [n \in Nat |-> G[n][n]]
<1>6. f \in [Nat -> S] BY <1>4
<1>7. f[0] = c BY <1>4
<1>8. \A k \in Nat : f[k + 1] = F[<<f[k], k>>]
  <2> SUFFICES ASSUME NEW k \in Nat PROVE G[k + 1][k + 1] = F[<<G[k][k], k>>] OBVIOUS
  <2>1. k + 1 \in Nat /\ k \in 0..((k + 1) - 1) /\ k \in 0..(k + 1) OBVIOUS
  <2>2. G[k + 1][k + 1] = F[<<G[k + 1][k], k>>] BY <1>4, <2>1
  <2>3. QED BY <1>5, <2>1, <2>2
<1>9. QED BY <1>6, <1>7, <1>8
-----------------------------------------------------------------------------
(* Powers                                                                  *)

LEMMA PowerSteps ==
  ASSUME NEW b \in Nat
  PROVE  /\ Power(b, 0) = 1
         /\ \A k \in Nat : Power(b, k) \in Nat /\ Power(b, k + 1) = b * Power(b, k)
<1> DEFINE F == [p \in Nat \X Nat |-> b * p[1]]
<1>1. \A v, k \in Nat : F[<<v, k>>] = b * v
  <2>1. \A v, k \in Nat : <<v, k>> \in Nat \X Nat /\ <<v, k>>[1] = v OBVIOUS
  <2>2. QED BY <2>1
<1>2. F \in [Nat \X Nat -> Nat] OBVIOUS
<1> HIDE DEF F
<1>3. PICK g : Iterates(Nat, 1, F, g)
  <2>1. 1 \in Nat /\ F \in Steps(Nat) BY <1>2 DEF Steps
  <2>2. QED BY <2>1, Recursion
<1> DEFINE power[k \in Nat] == IF k = 0 THEN 1 ELSE b * power[k - 1]
<1>4. power = [k \in Nat |-> IF k = 0 THEN 1 ELSE b * power[k - 1]]
  <2>1. \A k \in Nat : k # 0 => k - 1 \in Nat /\ (k - 1) + 1 = k OBVIOUS
  <2>2. \A k \in Nat : g[k] = IF k = 0 THEN 1 ELSE b * g[k - 1] BY <1>1, <1>3, <2>1 DEF Iterates
  <2>3. g \in [Nat -> Nat] BY <1>3 DEF Iterates
  <2>4. g = [k \in Nat |-> IF k = 0 THEN 1 ELSE b * g[k - 1]] BY <2>2, <2>3
  <2>5. QED BY <2>4
<1>5. \A k \in Nat : Power(b, k) = power[k] BY DEF Power, power
<1> HIDE DEF power
<1>6. power[0] = 1 BY <1>4
<1>7. \A k \in Nat : power[k + 1] = b * power[k] BY <1>4
<1> DEFINE N == {k \in Nat : power[k] \in Nat}
<1>8. 0 \in N BY <1>6
<1>9. \A k \in Nat : k \in N => k + 1 \in N BY <1>7
<1>10. Nat \subseteq N
  <2> HIDE DEF N
  <2>1. QED BY <1>8, <1>9, Induction
<1>11. QED BY <1>5, <1>6, <1>7, <1>10

LEMMA PowerPositive ==
  ASSUME NEW b \in Nat \ {0}, NEW n \in Nat
  PROVE  Power(b, n) \in Nat \ {0}
<1> DEFINE N == {k \in Nat : Power(b, k) # 0}
<1>1. 0 \in N BY PowerSteps
<1>2. ASSUME NEW k \in Nat, k \in N PROVE k + 1 \in N
  <2>1. Power(b, k) \in Nat /\ Power(b, k + 1) = b * Power(b, k) BY PowerSteps
  <2>2. \A x, y \in Nat : x # 0 /\ y # 0 => x * y # 0 OBVIOUS
  <2>3. Power(b, k) # 0 /\ b # 0 /\ b \in Nat BY <1>2
  <2>4. b * Power(b, k) # 0 BY <2>1, <2>2, <2>3
  <2>5. QED BY <2>1, <2>4
<1>3. Nat \subseteq N
  <2> HIDE DEF N
  <2>1. QED BY <1>1, <1>2, Induction
<1>4. QED BY <1>3, PowerSteps

LEMMA PowerSum ==
  ASSUME NEW b \in Nat, NEW m \in Nat, NEW n \in Nat
  PROVE  Power(b, m + n) = Power(b, m) * Power(b, n)
<1> DEFINE N == {k \in Nat : Power(b, m + k) = Power(b, m) * Power(b, k)}
<1>1. 0 \in N BY PowerSteps
<1>2. ASSUME NEW k \in Nat, k \in N PROVE k + 1 \in N
  <2>1. m + (k + 1) = (m + k) + 1 /\ m + k \in Nat OBVIOUS
  <2>2. Power(b, m + (k + 1)) = b * Power(b, m + k) BY <2>1, PowerSteps
  <2>3. Power(b, m) \in Nat /\ Power(b, k) \in Nat /\ Power(b, k + 1) = b * Power(b, k)
    BY PowerSteps
  <2>4. \A x, y \in Nat : b * (x * y) = x * (b * y) OBVIOUS
  <2>5. QED BY <1>2, <2>2, <2>3, <2>4
<1>3. Nat \subseteq N
  <2> HIDE DEF N
  <2>1. QED BY <1>1, <1>2, Induction
<1>4. QED BY <1>3

LEMMA PowerSquare ==
  ASSUME NEW b \in Nat, NEW n \in Nat
  PROVE  Power(b * b, n) = Power(b, 2 * n)
<1> DEFINE N == {k \in Nat : Power(b * b, k) = Power(b, 2 * k)}
<1>1. b * b \in Nat OBVIOUS
<1>2. 0 \in N BY <1>1, PowerSteps
<1>3. ASSUME NEW k \in Nat, k \in N PROVE k + 1 \in N
  <2>1. 2 * (k + 1) = (2 * k + 1) + 1 /\ 2 * k + 1 \in Nat /\ 2 * k \in Nat OBVIOUS
  <2>2. Power(b, 2 * (k + 1)) = b * (b * Power(b, 2 * k)) /\ Power(b, 2 * k) \in Nat
    BY <2>1, PowerSteps
  <2>3. Power(b * b, k + 1) = (b * b) * Power(b * b, k) BY <1>1, PowerSteps
  <2>4. \A x \in Nat : b * (b * x) = (b * b) * x OBVIOUS
  <2>5. QED BY <1>3, <2>2, <2>3, <2>4
<1>4. Nat \subseteq N
  <2> HIDE DEF N
  <2>1. QED BY <1>2, <1>3, Induction
<1>5. QED BY <1>4

-----------------------------------------------------------------------------
(* Division                                                                *)

LEMMA Division ==
  ASSUME NEW a \in Nat, NEW d \in Nat \ {0}
  PROVE  /\ a = (a \div d) * d + (a % d)
         /\ a \div d \in Nat /\ a % d \in 0..(d - 1)
<1>1. a % d \in 0..(d - 1) /\ a \div d \in Nat OBVIOUS
<1>2. a = d * (a \div d) + (a % d) OBVIOUS
<1>3. \A x \in Int : d * x = x * d OBVIOUS
<1>4. QED BY <1>1, <1>2, <1>3

(* Quotient and remainder are the only ones.                               *)
LEMMA Quotient ==
  ASSUME NEW a \in Nat, NEW d \in Nat \ {0}, NEW q \in Nat, NEW r \in 0..(d - 1), a = q * d + r
  PROVE  a \div d = q /\ a % d = r
<1> DEFINE p == a \div d
           s == a % d
<1>1. a = p * d + s /\ p \in Nat /\ s \in 0..(d - 1) BY Division
<1> HIDE DEF p, s
<1>2. (q - p) * d = s - r BY <1>1
<1>3. s - r < d /\ r - s < d BY <1>1
<1>4. \A z \in Int : z >= 1 => z * d >= d
  <2>1. \A x, y \in Nat : x * y >= 0 OBVIOUS
  <2>2. \A z \in Int : z >= 1 => (z - 1) * d >= 0 /\ (z - 1) * d = z * d - d BY <2>1
  <2>3. QED BY <2>2
<1>5. (p - q) * d = r - s BY <1>1
<1>6. ~(q - p >= 1) /\ ~(p - q >= 1) BY <1>1, <1>2, <1>3, <1>4, <1>5
<1>7. p = q BY <1>1, <1>6
<1>8. s = r BY <1>1, <1>7
<1>9. QED BY <1>7, <1>8 DEF p, s

-----------------------------------------------------------------------------
(* The digits of a number, from the lowest                                 *)

DigitAt(x, b, i) == (x \div Power(b, i)) % b

LEMMA DigitType ==
  ASSUME NEW b \in Nat \ {0}, NEW x \in Nat, NEW i \in Nat
  PROVE  DigitAt(x, b, i) \in 0..(b - 1)
<1>1. Power(b, i) \in Nat \ {0} BY PowerPositive
<1>2. x \div Power(b, i) \in Nat BY <1>1, Division
<1>3. QED BY <1>2, Division DEF DigitAt

(* A product of bounded factors with a bounded rest.                       *)
LEMMA Bounded ==
  ASSUME NEW m \in Nat, NEW n \in Nat, NEW x \in 0..(m - 1), NEW y \in 0..(n - 1)
  PROVE  x * n + y \in 0..(m * n - 1)
<1>1. \A u, v \in Nat : u * v \in Nat OBVIOUS
<1>2. (m - 1 - x) \in Nat BY SMT
<1>3. (m - 1 - x) * n \in Nat BY <1>1, <1>2
<1>4. (m - 1 - x) * n = m * n - n - x * n BY SMT
<1>5. x * n \in Nat /\ m * n \in Nat BY <1>1
<1>6. QED BY <1>3, <1>4, <1>5

(* The lowest digit is the remainder, the others are the quotient's.       *)
LEMMA DigitsOfQuotient ==
  ASSUME NEW b \in Nat \ {0}, NEW x \in Nat
  PROVE  /\ DigitAt(x, b, 0) = x % b
         /\ \A i \in Nat : DigitAt(x, b, i + 1) = DigitAt(x \div b, b, i)
<1>1. DigitAt(x, b, 0) = x % b
  <2>1. x = x * 1 + 0 OBVIOUS
  <2>2. x \div 1 = x BY <2>1, Quotient
  <2>3. Power(b, 0) = 1 BY PowerSteps
  <2>4. QED BY <2>2, <2>3 DEF DigitAt
<1>2. SUFFICES ASSUME NEW i \in Nat PROVE DigitAt(x, b, i + 1) = DigitAt(x \div b, b, i)
  BY <1>1
<1> DEFINE P == Power(b, i)
           v == x \div b
           r == x % b
           q == v \div P
           s == v % P
<1>3. P \in Nat \ {0} /\ Power(b, i + 1) = b * P BY PowerPositive, PowerSteps
<1>4. x = v * b + r /\ v \in Nat /\ r \in 0..(b - 1) BY Division
<1> HIDE DEF P, v, r
<1>5. v = q * P + s /\ q \in Nat /\ s \in 0..(P - 1) BY <1>3, <1>4, Division
<1> HIDE DEF q, s
<1>6. s * b + r \in 0..(b * P - 1)
  <2>1. P * b = b * P /\ b \in Nat BY <1>3
  <2>2. s * b + r \in 0..(P * b - 1) BY <1>3, <1>4, <1>5, <2>1, Bounded
  <2>3. QED BY <2>1, <2>2
<1>7. x = q * (b * P) + (s * b + r)
  <2>1. (q * P + s) * b + r = q * (b * P) + (s * b + r) BY <1>3, <1>4, <1>5
  <2>2. QED BY <1>4, <1>5, <2>1
<1>8. b * P \in Nat \ {0}
  <2>1. \A y, z \in Nat : y # 0 /\ z # 0 => y * z \in Nat /\ y * z # 0 OBVIOUS
  <2>2. QED BY <1>3, <2>1
<1>9. x \div (b * P) = q BY <1>5, <1>6, <1>7, <1>8, Quotient
<1>10. DigitAt(x, b, i + 1) = q % b BY <1>3, <1>9 DEF DigitAt
<1>11. DigitAt(v, b, i) = q % b BY DEF DigitAt, q, P
<1>12. QED BY <1>10, <1>11 DEF v

(* A digit put behind a number moves the others up by one.                 *)
LEMMA DigitBehind ==
  ASSUME NEW b \in Nat \ {0}, NEW v \in Nat, NEW r \in 0..(b - 1)
  PROVE  LET x == v * b + r
         IN  /\ DigitAt(x, b, 0) = r
             /\ \A i \in Nat : DigitAt(x, b, i + 1) = DigitAt(v, b, i)
<1> DEFINE x == v * b + r
<1>1. x \in Nat
  <2>1. v * b \in Nat OBVIOUS
  <2>2. QED BY <2>1
<1>2. x = v * b + r OBVIOUS
<1> HIDE DEF x
<1>3. x \div b = v /\ x % b = r BY <1>1, <1>2, Quotient
<1>4. DigitAt(x, b, 0) = r /\ \A i \in Nat : DigitAt(x, b, i + 1) = DigitAt(v, b, i)
  BY <1>1, <1>3, DigitsOfQuotient
<1>5. QED BY <1>4 DEF x

(* What a word is cut to keeps its lower digits.                           *)
LEMMA LowDigits ==
  ASSUME NEW b \in Nat \ {0}, NEW x \in Nat, NEW n \in Nat, NEW i \in 0..(n - 1)
  PROVE  DigitAt(x % Power(b, n), b, i) = DigitAt(x, b, i)
<1> DEFINE P == Power(b, i)
           R == Power(b, n - 1 - i)
           W == Power(b, n)
           r == x % W
           q == x \div W
           t == r \div P
           s == r % P
           u == t \div b
           e == t % b
<1>1. i \in Nat /\ n - 1 - i \in Nat /\ (n - 1 - i) + 1 \in Nat /\ n = i + ((n - 1 - i) + 1) BY SMT
<1>2. P \in Nat \ {0} /\ R \in Nat \ {0} /\ W \in Nat \ {0} BY <1>1, PowerPositive
<1>3. W = P * (b * R)
  <2>1. Power(b, (n - 1 - i) + 1) = b * R BY <1>1, PowerSteps
  <2>2. Power(b, i + ((n - 1 - i) + 1)) = P * Power(b, (n - 1 - i) + 1) BY <1>1, PowerSum
  <2>3. QED BY <1>1, <2>1, <2>2
<1> HIDE DEF P, R, W
<1>4. x = q * W + r /\ q \in Nat /\ r \in Nat BY <1>2, Division
<1> HIDE DEF q, r
<1>5. r = t * P + s /\ t \in Nat /\ s \in 0..(P - 1) BY <1>2, <1>4, Division
<1> HIDE DEF t, s
<1>6. t = u * b + e /\ u \in Nat /\ e \in 0..(b - 1) BY <1>5, Division
<1> HIDE DEF u, e
<1>7. q * R \in Nat /\ q * R + u \in Nat /\ (q * R + u) * b + e \in Nat
  <2>1. \A y, z \in Nat : y * z \in Nat OBVIOUS
  <2>2. QED BY <1>2, <1>4, <1>6, <2>1
<1>8. x = ((q * R + u) * b + e) * P + s
  <2>1. q * (P * (b * R)) + ((u * b + e) * P + s) = ((q * R + u) * b + e) * P + s
    BY <1>2, <1>4, <1>5, <1>6
  <2>2. QED BY <1>3, <1>4, <1>5, <1>6, <2>1
<1>9. x \div P = (q * R + u) * b + e BY <1>2, <1>5, <1>7, <1>8, Quotient
<1>10. ((q * R + u) * b + e) % b = e BY <1>6, <1>7, Quotient
<1>11. DigitAt(x, b, i) = e BY <1>9, <1>10 DEF DigitAt, P
<1>12. DigitAt(r, b, i) = e BY DEF DigitAt, P, t, e
<1>13. QED BY <1>11, <1>12 DEF r, W

LEMMA QuotientBound ==
  ASSUME NEW m \in Nat, NEW n \in Nat \ {0}, NEW x \in 0..(m * n - 1)
  PROVE  x \div n \in 0..(m - 1)
<1> DEFINE q == x \div n
           r == x % n
<1>1. m * n \in Nat /\ x \in Nat OBVIOUS
<1>2. x = q * n + r /\ q \in Nat /\ r \in 0..(n - 1) BY <1>1, Division
<1> HIDE DEF q, r
<1>3. CASE q >= m
  <2>1. q - m \in Nat BY <1>2, <1>3
  <2>2. (q - m) * n \in Nat /\ (q - m) * n = q * n - m * n BY <1>2, <2>1
  <2>3. q * n \in Nat BY <1>2
  <2>4. QED BY <1>1, <1>2, <2>2, <2>3
<1>4. QED BY <1>2, <1>3 DEF q

(* Numbers of so many digits are told apart by them.                       *)
LEMMA EqualDigits ==
  ASSUME NEW b \in Nat \ {0}, NEW n \in Nat,
         NEW x \in 0..(Power(b, n) - 1), NEW y \in 0..(Power(b, n) - 1),
         \A i \in 0..(n - 1) : DigitAt(x, b, i) = DigitAt(y, b, i)
  PROVE  x = y
<1> DEFINE Same(m, u, v) == \A i \in 0..(m - 1) : DigitAt(u, b, i) = DigitAt(v, b, i)
           N == {m \in Nat : \A u, v \in 0..(Power(b, m) - 1) : Same(m, u, v) => u = v}
<1>1. 0 \in N
  <2>1. Power(b, 0) = 1 BY PowerSteps
  <2>2. \A u \in 0..(1 - 1) : u = 0 OBVIOUS
  <2>3. QED BY <2>1, <2>2
<1>2. ASSUME NEW m \in Nat, m \in N PROVE m + 1 \in N
  <2> DEFINE P == Power(b, m)
  <2>1. P \in Nat \ {0} /\ Power(b, m + 1) = P * b /\ P * b \in Nat
    <3>1. P \in Nat \ {0} /\ Power(b, m + 1) = b * P BY PowerPositive, PowerSteps
    <3>2. \A z \in Nat : b * z = z * b /\ z * b \in Nat OBVIOUS
    <3>3. QED BY <3>1, <3>2
  <2> SUFFICES ASSUME NEW u \in 0..(P * b - 1), NEW v \in 0..(P * b - 1), Same(m + 1, u, v)
               PROVE  u = v
    BY <2>1
  <2>2. /\ u = (u \div b) * b + (u % b) /\ u % b \in 0..(b - 1)
        /\ v = (v \div b) * b + (v % b) /\ v % b \in 0..(b - 1)
    <3>1. u \in Nat /\ v \in Nat BY <2>1
    <3>2. QED BY <3>1, Division
  <2>3. u \div b \in 0..(P - 1) /\ v \div b \in 0..(P - 1)
    <3>1. P \in Nat BY <2>1
    <3> HIDE DEF P
    <3>2. QED BY <3>1, QuotientBound
  <2>4. u \in Nat /\ v \in Nat BY <2>1
  <2>5. u % b = v % b
    <3>1. 0 \in 0..((m + 1) - 1) OBVIOUS
    <3>2. DigitAt(u, b, 0) = DigitAt(v, b, 0) BY <3>1
    <3>3. QED BY <2>4, <3>2, DigitsOfQuotient
  <2>6. Same(m, u \div b, v \div b)
    <3> SUFFICES ASSUME NEW i \in 0..(m - 1)
                 PROVE  DigitAt(u \div b, b, i) = DigitAt(v \div b, b, i)
      OBVIOUS
    <3>1. i \in Nat /\ i + 1 \in 0..((m + 1) - 1) OBVIOUS
    <3>2. DigitAt(u, b, i + 1) = DigitAt(v, b, i + 1) BY <3>1
    <3>3. QED BY <2>4, <3>1, <3>2, DigitsOfQuotient
  <2>7. u \div b = v \div b BY <1>2, <2>3, <2>6
  <2>8. QED BY <2>2, <2>5, <2>7
<1>3. Nat \subseteq N
  <2> HIDE DEF N
  <2>1. QED BY <1>1, <1>2, Induction
<1>4. Same(n, x, y) OBVIOUS
<1>5. n \in N BY <1>3
<1>6. QED BY <1>4, <1>5

(* A digit to the base b * b is two digits to the base b.                  *)
LEMMA DigitHalves ==
  ASSUME NEW b \in Nat \ {0}, NEW x \in Nat, NEW i \in Nat
  PROVE  /\ DigitAt(x, b, 2 * i) = DigitAt(x, b * b, i) % b
         /\ DigitAt(x, b, 2 * i + 1) = DigitAt(x, b * b, i) \div b
<1> DEFINE P == Power(b, 2 * i)
           y == x \div P
           s == x % P
           c == y \div (b * b)
           e == y % (b * b)
           h == e \div b
           l == e % b
<1>1. /\ 2 * i \in Nat /\ P \in Nat \ {0} /\ Power(b * b, i) = P
      /\ Power(b, 2 * i + 1) = b * P
  <2>1. 2 * i \in Nat OBVIOUS
  <2>2. QED BY <2>1, PowerPositive, PowerSquare, PowerSteps
<1>2. b * b \in Nat \ {0} /\ b * P \in Nat \ {0}
  <2>1. \A u, v \in Nat : u # 0 /\ v # 0 => u * v \in Nat /\ u * v # 0 OBVIOUS
  <2>2. QED BY <1>1, <2>1
<1>3. DigitAt(x, b * b, i) = e /\ DigitAt(x, b, 2 * i) = y % b BY <1>1 DEF DigitAt
<1>4. DigitAt(x, b, 2 * i + 1) = (x \div (b * P)) % b BY <1>1 DEF DigitAt
<1> HIDE DEF P
<1>5. x = y * P + s /\ y \in Nat /\ s \in 0..(P - 1) BY <1>1, Division
<1> HIDE DEF y, s
<1>6. y = c * (b * b) + e /\ c \in Nat /\ e \in 0..(b * b - 1) BY <1>2, <1>5, Division
<1> HIDE DEF c, e
<1>7. e = h * b + l /\ h \in 0..(b - 1) /\ l \in 0..(b - 1)
  <2>1. e \in Nat BY <1>6
  <2>2. QED BY <1>6, <2>1, Division, QuotientBound
<1> HIDE DEF h, l
<1>8. c * b + h \in Nat
  <2>1. \A u, v \in Nat : u * v \in Nat OBVIOUS
  <2>2. QED BY <1>6, <1>7, <2>1
<1>9. y = (c * b + h) * b + l
  <2>1. c * (b * b) + (h * b + l) = (c * b + h) * b + l BY <1>6, <1>7
  <2>2. QED BY <1>6, <1>7, <2>1
<1>10. y % b = l BY <1>5, <1>7, <1>8, <1>9, Quotient
<1>11. x \div (b * P) = c * b + h
  <2>1. l * P + s \in 0..(b * P - 1)
    <3>1. P \in Nat /\ b \in Nat BY <1>1
    <3>2. QED BY <1>5, <1>7, <3>1, Bounded
  <2>2. ((c * b + h) * b + l) * P + s = (c * b + h) * (b * P) + (l * P + s)
    BY <1>1, <1>5, <1>7, <1>8
  <2>3. x = (c * b + h) * (b * P) + (l * P + s) BY <1>5, <1>9, <2>2
  <2>4. QED BY <1>2, <1>8, <2>1, <2>3, Quotient
<1>12. (c * b + h) % b = h BY <1>6, <1>7, <1>8, Quotient
<1>13. QED BY <1>3, <1>4, <1>10, <1>11, <1>12 DEF h, l

-----------------------------------------------------------------------------
(* Bytes shifted into a number                                             *)

LEMMA Sizes ==
  /\ Digits \in Nat \ {0, 1} /\ ByteSize \in Nat \ {0, 1}
  /\ WordBytes \in Nat \ {0} /\ NonceBytes \in Nat \ {0} /\ NonceAt \in Nat /\ MinBlob \in Nat
  /\ WordSize \in Nat \ {0} /\ NonceSize \in Nat \ {0}
  /\ ExtraAt = NonceAt + NonceBytes /\ ExtraAt <= MinBlob
<1>1. \A d \in Nat \ {0, 1} : d * d \in Nat \ {0, 1}
  <2>1. \A d \in Nat \ {0, 1} : d - 1 \in Nat /\ (d - 1) * d \in Nat /\ (d - 1) * d = d * d - d
    OBVIOUS
  <2>2. QED BY <2>1
<1>2. ByteSize \in Nat \ {0, 1} BY <1>1, CodecAssumption DEF ByteSize
<1>3. WordSize \in Nat \ {0} /\ NonceSize \in Nat \ {0}
  BY <1>2, CodecAssumption, PowerPositive DEF WordSize, NonceSize
<1>4. QED BY <1>2, <1>3, CodecAssumption DEF ExtraAt

(* The values that the loop goes through.                                  *)
LEMMA ShiftedValues ==
  ASSUME NEW bytes \in Seq(Byte), NEW size \in Nat \ {0}
  PROVE  \E value \in [0..Len(bytes) -> 0..(size - 1)] :
           /\ value[0] = 0 /\ value[Len(bytes)] = Shifted(bytes, size)
           /\ \A k \in 0..(Len(bytes) - 1) :
                value[k + 1] = (value[k] * ByteSize + bytes[k + 1]) % size
<1> DEFINE n == Len(bytes)
           S == 0..(size - 1)
           F == [p \in S \X Nat |->
                   IF p[2] < n THEN (p[1] * ByteSize + bytes[p[2] + 1]) % size ELSE 0]
<1>1. n \in Nat /\ 0 \in S /\ \A k \in 0..(n - 1) : k + 1 \in 1..n /\ bytes[k + 1] \in Byte
  OBVIOUS
<1>2. \A v \in S, k \in 0..(n - 1) : (v * ByteSize + bytes[k + 1]) % size \in S
  <2> SUFFICES ASSUME NEW v \in S, NEW k \in 0..(n - 1)
               PROVE  (v * ByteSize + bytes[k + 1]) % size \in S
    OBVIOUS
  <2>1. v \in Nat /\ ByteSize \in Nat /\ bytes[k + 1] \in Nat BY <1>1, Sizes DEF Byte
  <2>2. v * ByteSize + bytes[k + 1] \in Nat
    <3>1. v * ByteSize \in Nat BY <2>1
    <3>2. QED BY <2>1, <3>1
  <2>3. QED BY <2>2, Division
<1>3. \A v \in S, k \in Nat :
        F[<<v, k>>] = IF k < n THEN (v * ByteSize + bytes[k + 1]) % size ELSE 0
  <2>1. \A v \in S, k \in Nat : <<v, k>> \in S \X Nat /\ <<v, k>>[1] = v /\ <<v, k>>[2] = k
    OBVIOUS
  <2>2. QED BY <2>1
<1>4. F \in Steps(S)
  <2>1. \A p \in S \X Nat : p[1] \in S /\ p[2] \in Nat OBVIOUS
  <2>2. \A k \in Nat : k < n => k \in 0..(n - 1) BY <1>1
  <2>3. \A p \in S \X Nat :
          (IF p[2] < n THEN (p[1] * ByteSize + bytes[p[2] + 1]) % size ELSE 0) \in S
    BY <1>1, <1>2, <2>1, <2>2
  <2>4. QED BY <2>3 DEF Steps
<1> HIDE DEF F, S
<1>5. PICK g : Iterates(S, 0, F, g) BY <1>1, <1>4, Recursion
<1> DEFINE Loop(f) == [k \in 0..n |-> IF k = 0 THEN 0 ELSE (f[k - 1] * ByteSize + bytes[k]) % size]
           h == [k \in 0..n |-> g[k]]
           value[k \in 0..n] == IF k = 0 THEN 0 ELSE (value[k - 1] * ByteSize + bytes[k]) % size
<1>6. h = Loop(h)
  <2>1. g[0] = 0 /\ \A k \in Nat : g[k] \in S /\ g[k + 1] = F[<<g[k], k>>]
    BY <1>5 DEF Iterates
  <2>2. \A k \in 0..n : k # 0 => /\ k - 1 \in 0..n /\ k - 1 \in Nat /\ k - 1 < n /\ (k - 1) + 1 = k
    BY <1>1
  <2>3. ASSUME NEW k \in 0..n, k # 0
        PROVE  h[k] = (h[k - 1] * ByteSize + bytes[k]) % size
    <3>1. g[k] = F[<<g[k - 1], k - 1>>] BY <2>1, <2>2, <2>3
    <3>2. g[k] = (g[k - 1] * ByteSize + bytes[k]) % size BY <1>3, <2>1, <2>2, <2>3, <3>1
    <3>3. QED BY <2>2, <2>3, <3>2
  <2>4. h[0] = 0 BY <1>1, <2>1
  <2>5. \A k \in 0..n : h[k] = IF k = 0 THEN 0 ELSE (h[k - 1] * ByteSize + bytes[k]) % size
    BY <2>3, <2>4
  <2>6. QED BY <2>5
<1>7. value = Loop(value) BY <1>6
<1>8. Shifted(bytes, size) = value[n] BY DEF Shifted, value
<1> HIDE DEF value
<1>9. value[0] = 0 BY <1>1, <1>7
<1>10. \A k \in 0..(n - 1) : value[k + 1] = (value[k] * ByteSize + bytes[k + 1]) % size
  <2>1. \A k \in 0..(n - 1) : k + 1 \in 0..n /\ k + 1 # 0 /\ (k + 1) - 1 = k BY <1>1
  <2>2. QED BY <1>7, <2>1
<1> DEFINE N == {k \in Nat : k <= n => value[k] \in S}
<1>11. 0 \in N BY <1>1, <1>9
<1>12. \A k \in Nat : k \in N => k + 1 \in N
  <2>1. \A k \in Nat : k + 1 <= n => k \in 0..(n - 1) /\ k <= n BY <1>1
  <2>2. QED BY <1>2, <1>10, <2>1
<1>13. Nat \subseteq N
  <2> HIDE DEF N
  <2>1. QED BY <1>11, <1>12, Induction
<1>14. value \in [0..n -> S]
  <2>1. \A k \in 0..n : value[k] \in S BY <1>1, <1>13
  <2>2. value = [k \in 0..n |-> value[k]] BY <1>7
  <2>3. QED BY <2>1, <2>2
<1>15. QED BY <1>8, <1>9, <1>10, <1>14 DEF S

(* The last byte is the lowest digit; of the first bytes those are lost    *)
(* that the word has no room for.                                          *)
LEMMA ShiftedDigits ==
  ASSUME NEW bytes \in Seq(Byte), NEW w \in Nat
  PROVE  LET x == Shifted(bytes, Power(ByteSize, w))
         IN  /\ x \in 0..(Power(ByteSize, w) - 1)
             /\ \A i \in 0..(w - 1) :
                  DigitAt(x, ByteSize, i) = IF i < Len(bytes) THEN bytes[Len(bytes) - i] ELSE 0
<1> DEFINE n == Len(bytes)
           W == Power(ByteSize, w)
           B == ByteSize
<1>1. B \in Nat \ {0} /\ W \in Nat \ {0} /\ n \in Nat BY Sizes, PowerPositive
<1>2. PICK value \in [0..n -> 0..(W - 1)] :
           /\ value[0] = 0 /\ value[n] = Shifted(bytes, W)
           /\ \A k \in 0..(n - 1) : value[k + 1] = (value[k] * B + bytes[k + 1]) % W
  BY <1>1, ShiftedValues
<1> DEFINE Has(k) == \A i \in 0..(w - 1) :
                       DigitAt(value[k], B, i) = IF i < k THEN bytes[k - i] ELSE 0
           N == {k \in Nat : k <= n => Has(k)}
<1>3. 0 \in N
  <2> SUFFICES ASSUME NEW i \in 0..(w - 1) PROVE DigitAt(0, B, i) = 0 BY <1>2
  <2>1. Power(B, i) \in Nat \ {0}
    <3>1. i \in Nat OBVIOUS
    <3> HIDE DEF B
    <3>2. QED BY <1>1, <3>1, PowerPositive
  <2>2. \A d \in Nat \ {0} : 0 \div d = 0 /\ 0 % d = 0
    <3> SUFFICES ASSUME NEW d \in Nat \ {0} PROVE 0 \div d = 0 /\ 0 % d = 0 OBVIOUS
    <3> DEFINE z == 0
    <3>1. z = z * d + z /\ z \in 0..(d - 1) /\ z \in Nat OBVIOUS
    <3> HIDE DEF z
    <3>2. z \div d = z /\ z % d = z BY <3>1, Quotient
    <3>3. QED BY <3>2 DEF z
  <2>3. QED BY <1>1, <2>1, <2>2 DEF DigitAt
<1>4. ASSUME NEW k \in Nat, k \in N, k + 1 <= n PROVE Has(k + 1)
  <2> DEFINE v == value[k]
             r == bytes[k + 1]
             x == v * B + r
  <2>1. v \in Nat /\ r \in 0..(B - 1) /\ Has(k)
    <3>1. k \in 0..n /\ k <= n /\ k + 1 \in 1..n BY <1>1, <1>4
    <3>2. r \in Byte BY <3>1
    <3>3. value[k] \in 0..(W - 1) BY <1>2, <3>1
    <3>4. QED BY <1>1, <1>4, <3>1, <3>2, <3>3 DEF Byte
  <2>2. value[k + 1] = x % W
    <3>1. k \in 0..(n - 1) BY <1>1, <1>4
    <3>2. QED BY <1>2, <3>1
  <2>3. x \in Nat
    <3>1. \A y, z \in Nat : y * z \in Nat OBVIOUS
    <3>2. QED BY <1>1, <2>1, <3>1
  <2>4. DigitAt(x, B, 0) = r /\ \A i \in Nat : DigitAt(x, B, i + 1) = DigitAt(v, B, i)
    <3> HIDE DEF B, v, r
    <3>1. QED BY <1>1, <2>1, DigitBehind
  <2> HIDE DEF v, x
  <2> SUFFICES ASSUME NEW i \in 0..(w - 1)
               PROVE  DigitAt(x % W, B, i) = IF i < k + 1 THEN bytes[k + 1 - i] ELSE 0
    BY <2>2
  <2>5. DigitAt(x % W, B, i) = DigitAt(x, B, i)
    <3> HIDE DEF B
    <3>1. QED BY <1>1, <2>3, LowDigits DEF B
  <2>6. CASE i = 0
    <3>1. i < k + 1 /\ k + 1 - i = k + 1 BY <2>6
    <3>2. QED BY <2>4, <2>5, <2>6, <3>1
  <2>7. CASE i # 0
    <3>1. /\ i - 1 \in Nat /\ (i - 1) + 1 = i /\ i - 1 \in 0..(w - 1)
          /\ k + 1 - i = k - (i - 1) /\ (i < k + 1 <=> i - 1 < k)
      BY <2>7
    <3>2. DigitAt(x, B, i) = DigitAt(v, B, i - 1) BY <2>4, <3>1
    <3>3. DigitAt(v, B, i - 1) = IF i - 1 < k THEN bytes[k - (i - 1)] ELSE 0
      BY <2>1, <3>1 DEF v
    <3>4. QED BY <2>5, <3>1, <3>2, <3>3
  <2>8. QED BY <2>6, <2>7
<1>5. Nat \subseteq N
  <2>1. \A k \in Nat : k \in N => k + 1 \in N BY <1>4
  <2> HIDE DEF N
  <2>2. QED BY <1>3, <2>1, Induction
<1>6. Has(n) BY <1>1, <1>5
<1>7. Shifted(bytes, W) \in 0..(W - 1) BY <1>1, <1>2
<1>8. QED BY <1>2, <1>6, <1>7

LEMMA FunctionIsSequence ==
  ASSUME NEW S, NEW n \in Nat, NEW f \in [1..n -> S]
  PROVE  f \in Seq(S) /\ Len(f) = n /\ DOMAIN f = 1..n
OBVIOUS

(* Read from the last byte to the first, byte i + 1 is digit i.            *)
LEMMA ReadUpwards ==
  ASSUME NEW w \in Nat, NEW bytes \in [1..w -> Byte]
  PROVE  LET x == Shifted(Reverse(bytes), Power(ByteSize, w))
         IN  /\ x \in 0..(Power(ByteSize, w) - 1)
             /\ \A i \in 0..(w - 1) : DigitAt(x, ByteSize, i) = bytes[i + 1]
<1> DEFINE back == Reverse(bytes)
<1>1. bytes \in Seq(Byte) /\ Len(bytes) = w BY FunctionIsSequence
<1>2. back = [i \in 1..w |-> bytes[(w - i) + 1]] BY <1>1 DEF Reverse
<1>3. \A i \in 1..w : (w - i) + 1 \in 1..w OBVIOUS
<1>4. back \in [1..w -> Byte] BY <1>2, <1>3
<1> HIDE DEF back
<1>5. back \in Seq(Byte) /\ Len(back) = w BY <1>4, FunctionIsSequence
<1>6. \A i \in 0..(w - 1) : i < w /\ back[w - i] = bytes[i + 1]
  <2>1. \A i \in 0..(w - 1) : i < w /\ w - i \in 1..w /\ (w - (w - i)) + 1 = i + 1 OBVIOUS
  <2>2. QED BY <1>2, <2>1
<1> DEFINE x == Shifted(back, Power(ByteSize, w))
<1>7. /\ x \in 0..(Power(ByteSize, w) - 1)
      /\ \A i \in 0..(w - 1) :
           DigitAt(x, ByteSize, i) = IF i < Len(back) THEN back[Len(back) - i] ELSE 0
  BY <1>5, ShiftedDigits
<1> HIDE DEF x
<1>8. \A i \in 0..(w - 1) : DigitAt(x, ByteSize, i) = bytes[i + 1] BY <1>5, <1>6, <1>7
<1>9. QED BY <1>7, <1>8 DEF x, back

(* The number of these bytes is the only one with these digits.            *)
LEMMA ReadBack ==
  ASSUME NEW w \in Nat, NEW y \in 0..(Power(ByteSize, w) - 1)
  PROVE  LET bytes == [j \in 1..w |-> DigitAt(y, ByteSize, j - 1)]
         IN  /\ bytes \in [1..w -> Byte]
             /\ Shifted(Reverse(bytes), Power(ByteSize, w)) = y
<1> DEFINE bytes == [j \in 1..w |-> DigitAt(y, ByteSize, j - 1)]
           x == Shifted(Reverse(bytes), Power(ByteSize, w))
<1>1. ByteSize \in Nat \ {0} BY Sizes
<1>2. y \in Nat
  <2>1. Power(ByteSize, w) \in Nat BY <1>1, PowerPositive
  <2>2. QED BY <2>1
<1>3. \A j \in 1..w : j - 1 \in Nat /\ DigitAt(y, ByteSize, j - 1) \in Byte
  <2> SUFFICES ASSUME NEW j \in 1..w PROVE j - 1 \in Nat /\ DigitAt(y, ByteSize, j - 1) \in Byte
    OBVIOUS
  <2>1. j - 1 \in Nat OBVIOUS
  <2>2. QED BY <1>1, <1>2, <2>1, DigitType DEF Byte
<1>4. bytes \in [1..w -> Byte] BY <1>3
<1>5. \A i \in 0..(w - 1) : bytes[i + 1] = DigitAt(y, ByteSize, i)
  <2>1. \A i \in 0..(w - 1) : i + 1 \in 1..w /\ (i + 1) - 1 = i OBVIOUS
  <2>2. QED BY <2>1
<1> HIDE DEF bytes
<1>6. /\ x \in 0..(Power(ByteSize, w) - 1)
      /\ \A i \in 0..(w - 1) : DigitAt(x, ByteSize, i) = bytes[i + 1]
  BY <1>4, ReadUpwards
<1> HIDE DEF x
<1>7. \A i \in 0..(w - 1) : DigitAt(x, ByteSize, i) = DigitAt(y, ByteSize, i) BY <1>5, <1>6
<1>8. x = y BY <1>1, <1>6, <1>7, EqualDigits
<1>9. QED BY <1>4, <1>8 DEF x, bytes

-----------------------------------------------------------------------------
(* Texts                                                                   *)

LEMMA StrtolByte ==
  ASSUME NEW s
  PROVE  Strtol(s) \in Byte
<1>1. Digits \in Nat \ {0, 1} /\ ByteSize \in Nat \ {0} /\ 0 \in Byte
  BY Sizes DEF Byte
<1>2. \A x, y \in Digit : x * Digits + y \in Byte
  <2>1. \A x, y \in 0..(Digits - 1) : x * Digits + y \in 0..(Digits * Digits - 1)
    BY <1>1, Bounded
  <2>2. QED BY <2>1 DEF Digit, Byte, ByteSize
<1>3. \A x \in Digit : x \in Byte
  <2>1. (Digits - 1) * Digits \in Nat /\ (Digits - 1) * Digits = Digits * Digits - Digits BY <1>1
  <2>2. QED BY <1>1, <2>1 DEF Digit, Byte, ByteSize
<1>4. \A x \in Digit : (ByteSize - x) % ByteSize \in Byte
  <2>1. \A x \in Digit : ByteSize - x \in Nat BY <1>1, <1>3 DEF Digit, Byte
  <2>2. QED BY <1>1, <2>1, Division DEF Byte
<1>5. QED BY <1>1, <1>2, <1>3, <1>4 DEF Strtol

(* Two characters make a byte, and the last alone if their number is odd.  *)
LEMMA TextBytes ==
  ASSUME NEW hex \in Seq(Char)
  PROVE  LET n == (Len(hex) + 1) \div 2
         IN  n \in Nat /\ hex_to_bytes(hex) \in [1..n -> Byte]
<1> DEFINE n == (Len(hex) + 1) \div 2
<1>1. n \in Nat OBVIOUS
<1> HIDE DEF n
<1>2. QED BY <1>1, StrtolByte DEF hex_to_bytes, n

WellFormedText(text) == Len(text) % 2 = 0 /\ \A i \in DOMAIN text : text[i] \in Digit

(* Two digits make a byte that gives the same two digits.                  *)
LEMMA DigitPair ==
  ASSUME NEW hex \in Seq(Char), NEW k \in Nat, 2 * k + 2 <= Len(hex),
         hex[2 * k + 1] \in Digit, hex[2 * k + 2] \in Digit
  PROVE  /\ hex_to_bytes(hex)[k + 1] = hex[2 * k + 1] * Digits + hex[2 * k + 2]
         /\ hex_to_bytes(hex)[k + 1] \div Digits = hex[2 * k + 1]
         /\ hex_to_bytes(hex)[k + 1] % Digits = hex[2 * k + 2]
<1> DEFINE s == SubSeq(hex, 2 * k + 1, 2 * k + 2)
<1>1. Digits \in Nat \ {0} BY Sizes
<1>2. k + 1 \in 1..((Len(hex) + 1) \div 2) /\ 2 * (k + 1) - 1 = 2 * k + 1 /\ 2 * (k + 1) = 2 * k + 2
  OBVIOUS
<1>3. hex_to_bytes(hex)[k + 1] = Strtol(s) BY <1>2 DEF hex_to_bytes
<1>4. Len(s) = 2 /\ s[1] = hex[2 * k + 1] /\ s[2] = hex[2 * k + 2]
  <2> DEFINE m == 2 * k + 1
  <2>1. m \in 1..Len(hex) /\ m + 1 \in 1..Len(hex) /\ m + 1 = 2 * k + 2 OBVIOUS
  <2> HIDE DEF m
  <2>2. LET t == SubSeq(hex, m, m + 1) IN Len(t) = 2 /\ t[1] = hex[m] /\ t[2] = hex[m + 1]
    BY <2>1
  <2>3. QED BY <2>1, <2>2 DEF m
<1> HIDE DEF s
<1>5. Strtol(s) = hex[2 * k + 1] * Digits + hex[2 * k + 2]
  <2>1. s[1] \in Digit /\ s[2] \in Digit BY <1>4
  <2>2. s[1] # Minus /\ s[1] # Blank BY <1>1, <2>1 DEF Digit, Minus, Blank
  <2>3. Strtol(s) = s[1] * Digits + s[2] BY <1>4, <2>1, <2>2 DEF Strtol
  <2>4. QED BY <1>4, <2>3
<1>6. hex[2 * k + 1] \in Nat /\ hex[2 * k + 2] \in 0..(Digits - 1) BY <1>1 DEF Digit
<1>7. hex[2 * k + 1] * Digits + hex[2 * k + 2] \in Nat
  <2>1. \A x \in Nat : x * Digits \in Nat BY <1>1
  <2>2. QED BY <1>1, <1>6, <2>1
<1> DEFINE x == hex[2 * k + 1]
           y == hex[2 * k + 2]
           z == x * Digits + y
<1>8. z \in Nat /\ x \in Nat /\ y \in 0..(Digits - 1) /\ z = x * Digits + y BY <1>6, <1>7
<1> HIDE DEF x, y, z
<1>9. z \div Digits = x /\ z % Digits = y BY <1>1, <1>8, Quotient
<1>10. QED BY <1>3, <1>5, <1>9 DEF x, y, z

LEMMA BytesText ==
  ASSUME NEW n \in Nat, NEW bytes \in [1..n -> Byte]
  PROVE  /\ bytes_to_hex(bytes) \in [1..(2 * n) -> Digit]
         /\ \A k \in 0..(n - 1) : /\ bytes_to_hex(bytes)[2 * k + 1] = bytes[k + 1] \div Digits
                                  /\ bytes_to_hex(bytes)[2 * k + 2] = bytes[k + 1] % Digits
<1> DEFINE text == bytes_to_hex(bytes)
           half(i) == IF i % 2 = 1 THEN bytes[(i + 1) \div 2] \div Digits
                                   ELSE bytes[(i + 1) \div 2] % Digits
<1>1. Len(bytes) = n BY FunctionIsSequence
<1>2. text = [i \in 1..(2 * n) |-> half(i)] BY <1>1 DEF bytes_to_hex
<1>3. Digits \in Nat \ {0} BY Sizes
<1>4. \A b \in Byte : b \div Digits \in Digit /\ b % Digits \in Digit
  <2> SUFFICES ASSUME NEW b \in Byte PROVE b \div Digits \in Digit /\ b % Digits \in Digit
    OBVIOUS
  <2>1. b \in 0..(Digits * Digits - 1) BY DEF Byte, ByteSize
  <2>2. Digits \in Nat BY <1>3
  <2>3. b \in Nat
    <3>1. Digits * Digits \in Nat BY <2>2
    <3>2. QED BY <2>1, <3>1
  <2>4. b \div Digits \in 0..(Digits - 1) BY <1>3, <2>1, <2>2, QuotientBound
  <2>5. b % Digits \in 0..(Digits - 1) BY <1>3, <2>3, Division
  <2>6. QED BY <2>4, <2>5 DEF Digit
<1>5. \A i \in 1..(2 * n) : (i + 1) \div 2 \in 1..n OBVIOUS
<1>6. text \in [1..(2 * n) -> Digit]
  <2>1. \A i \in 1..(2 * n) : half(i) \in Digit BY <1>4, <1>5
  <2>2. QED BY <1>2, <2>1
<1>7. ASSUME NEW k \in 0..(n - 1)
      PROVE  text[2 * k + 1] = bytes[k + 1] \div Digits /\ text[2 * k + 2] = bytes[k + 1] % Digits
  <2>1. 2 * k + 1 \in 1..(2 * n) /\ 2 * k + 2 \in 1..(2 * n) OBVIOUS
  <2>2. /\ (2 * k + 1) % 2 = 1 /\ ((2 * k + 1) + 1) \div 2 = k + 1
        /\ (2 * k + 2) % 2 = 0 /\ ((2 * k + 2) + 1) \div 2 = k + 1
    OBVIOUS
  <2>3. half(2 * k + 1) = bytes[k + 1] \div Digits /\ half(2 * k + 2) = bytes[k + 1] % Digits
    BY <2>2
  <2> HIDE DEF half, text
  <2>4. QED BY <1>2, <2>1, <2>3
<1>8. QED BY <1>6, <1>7

(* Positions in a text of n pairs.                                         *)
LEMMA PairPositions ==
  ASSUME NEW n \in Nat, NEW i \in 1..(2 * n)
  PROVE  \E k \in 0..(n - 1) : i = 2 * k + 1 \/ i = 2 * k + 2
<1>1. (i - 1) \div 2 \in 0..(n - 1) OBVIOUS
<1>2. i = 2 * ((i - 1) \div 2) + 1 \/ i = 2 * ((i - 1) \div 2) + 2 OBVIOUS
<1>3. QED BY <1>1, <1>2

LEMMA TextSurvives ==
  ASSUME NEW hex \in Seq(Char)
  PROVE  bytes_to_hex(hex_to_bytes(hex)) = hex <=> WellFormedText(hex)
<1> DEFINE n == (Len(hex) + 1) \div 2
           bytes == hex_to_bytes(hex)
           text == bytes_to_hex(bytes)
<1>1. n \in Nat /\ bytes \in [1..n -> Byte] BY TextBytes
<1> HIDE DEF n, bytes
<1>2. /\ text \in [1..(2 * n) -> Digit]
      /\ \A k \in 0..(n - 1) : /\ text[2 * k + 1] = bytes[k + 1] \div Digits
                               /\ text[2 * k + 2] = bytes[k + 1] % Digits
  BY <1>1, BytesText
<1> HIDE DEF text
<1>3. ASSUME text = hex PROVE WellFormedText(hex)
  <2>1. DOMAIN hex = 1..(2 * n) /\ \A i \in 1..(2 * n) : hex[i] \in Digit BY <1>2, <1>3
  <2>2. Len(hex) = 2 * n BY <1>1, <2>1
  <2>3. Len(hex) % 2 = 0 BY <1>1, <2>2
  <2>4. QED BY <2>1, <2>3 DEF WellFormedText
<1>4. ASSUME WellFormedText(hex) PROVE text = hex
  <2>1. Len(hex) = 2 * n
    <3>1. Len(hex) % 2 = 0 BY <1>4 DEF WellFormedText
    <3>2. QED BY <3>1 DEF n
  <2>2. DOMAIN hex = 1..(2 * n) /\ \A i \in 1..(2 * n) : hex[i] \in Digit
    BY <1>4, <2>1 DEF WellFormedText
  <2>3. ASSUME NEW k \in 0..(n - 1)
        PROVE  text[2 * k + 1] = hex[2 * k + 1] /\ text[2 * k + 2] = hex[2 * k + 2]
    <3>1. /\ k \in Nat /\ 2 * k + 2 <= Len(hex)
          /\ 2 * k + 1 \in 1..(2 * n) /\ 2 * k + 2 \in 1..(2 * n)
      BY <1>1, <2>1
    <3>2. hex[2 * k + 1] \in Digit /\ hex[2 * k + 2] \in Digit BY <2>2, <3>1
    <3>3. /\ bytes[k + 1] \div Digits = hex[2 * k + 1]
          /\ bytes[k + 1] % Digits = hex[2 * k + 2]
      BY <3>1, <3>2, DigitPair DEF bytes
    <3>4. QED BY <1>2, <3>3
  <2>4. \A i \in 1..(2 * n) : text[i] = hex[i] BY <1>1, <2>3, PairPositions
  <2>5. hex = [i \in 1..(2 * n) |-> hex[i]] BY <2>2
  <2>6. text = [i \in 1..(2 * n) |-> text[i]] BY <1>2
  <2>7. QED BY <2>4, <2>5, <2>6
<1>5. QED BY <1>3, <1>4 DEF text, bytes

LEMMA WordTextSize ==
  ASSUME NEW hex \in Seq(Char)
  PROVE  /\ WordText(hex) \in Seq(Char)
         /\ hex_to_bytes(WordText(hex)) \in Seq(Byte)
         /\ Len(hex_to_bytes(WordText(hex))) \in 0..WordBytes
<1> DEFINE m == IF Len(hex) < 2 * WordBytes THEN Len(hex) ELSE 2 * WordBytes
<1>1. WordBytes \in Nat /\ m \in 0..Len(hex) /\ m <= 2 * WordBytes BY Sizes
<1>2. WordText(hex) = SubSeq(hex, 1, m) BY DEF WordText
<1> HIDE DEF m
<1>3. WordText(hex) \in Seq(Char) /\ Len(WordText(hex)) = m BY <1>1, <1>2
<1>4. (m + 1) \div 2 \in 0..WordBytes BY <1>1
<1>5. hex_to_bytes(WordText(hex)) \in [1..((m + 1) \div 2) -> Byte] BY <1>3, TextBytes
<1>6. (m + 1) \div 2 \in Nat BY <1>4
<1>7. QED BY <1>3, <1>4, <1>5, <1>6, FunctionIsSequence

(* A target printed and a word of bytes printed are the same text.         *)
LEMMA CompactText ==
  ASSUME NEW hex \in Seq(Char), Len(WordText(hex)) = 2 * WordBytes
  PROVE  uint64_to_compact(compact_to_uint64(hex)) = bytes_to_hex(hex_to_bytes(WordText(hex)))
<1> DEFINE w == WordBytes
           bytes == hex_to_bytes(WordText(hex))
           t == Shifted(bytes, WordSize)
           text == bytes_to_hex(bytes)
<1>1. w \in Nat /\ Digits \in Nat \ {0} /\ WordSize \in Nat \ {0} BY Sizes
<1>2. bytes \in [1..w -> Byte]
  <2>1. (2 * w + 1) \div 2 = w BY <1>1
  <2>2. WordText(hex) \in Seq(Char) BY WordTextSize
  <2>3. QED BY <2>1, <2>2, TextBytes
<1>3. compact_to_uint64(hex) = t BY DEF compact_to_uint64
<1> HIDE DEF bytes
<1>4. bytes \in Seq(Byte) /\ Len(bytes) = w BY <1>1, <1>2, FunctionIsSequence
<1>5. /\ t \in 0..(WordSize - 1)
      /\ \A e \in 0..(w - 1) :
           DigitAt(t, ByteSize, e) = IF e < Len(bytes) THEN bytes[Len(bytes) - e] ELSE 0
  BY <1>1, <1>4, ShiftedDigits DEF WordSize
<1>6. t \in Nat BY <1>1, <1>5
<1>7. /\ text \in [1..(2 * w) -> Digit]
      /\ \A k \in 0..(w - 1) : /\ text[2 * k + 1] = bytes[k + 1] \div Digits
                               /\ text[2 * k + 2] = bytes[k + 1] % Digits
  BY <1>1, <1>2, BytesText
<1> HIDE DEF t, text, w
<1>8. uint64_to_compact(t) = [i \in 1..(2 * w) |-> DigitAt(t, Digits, 2 * w - i)]
  BY DEF uint64_to_compact, DigitAt, w
<1>9. ASSUME NEW k \in 0..(w - 1)
      PROVE  /\ DigitAt(t, Digits, 2 * w - (2 * k + 1)) = text[2 * k + 1]
             /\ DigitAt(t, Digits, 2 * w - (2 * k + 2)) = text[2 * k + 2]
  <2> DEFINE e == w - (k + 1)
  <2>1. /\ e \in Nat /\ e \in 0..(w - 1) /\ e < w /\ w - e = k + 1
        /\ 2 * w - (2 * k + 1) = 2 * e + 1 /\ 2 * w - (2 * k + 2) = 2 * e
    BY <1>1
  <2> HIDE DEF e
  <2>2. DigitAt(t, ByteSize, e) = bytes[k + 1] BY <1>4, <1>5, <2>1
  <2>3. /\ DigitAt(t, Digits, 2 * e) = DigitAt(t, Digits * Digits, e) % Digits
        /\ DigitAt(t, Digits, 2 * e + 1) = DigitAt(t, Digits * Digits, e) \div Digits
    BY <1>1, <1>6, <2>1, DigitHalves
  <2>4. QED BY <1>7, <2>1, <2>2, <2>3 DEF ByteSize
<1>10. \A i \in 1..(2 * w) : DigitAt(t, Digits, 2 * w - i) = text[i]
  BY <1>1, <1>9, PairPositions
<1>11. text = [i \in 1..(2 * w) |-> text[i]] BY <1>7
<1>12. QED BY <1>3, <1>8, <1>10, <1>11 DEF text, t, bytes

-----------------------------------------------------------------------------
(* Targets and blobs                                                       *)

LEMMA TargetDigits ==
  ASSUME NEW hex \in Seq(Char), NEW i \in 0..(WordBytes - 1)
  PROVE  LET bytes == hex_to_bytes(WordText(hex))
         IN  /\ DigitAt(target_to_uint64(hex), ByteSize, i)
                  = IF i < Len(bytes) THEN bytes[i + 1] ELSE 0
             /\ DigitAt(compact_to_uint64(hex), ByteSize, i)
                  = IF i < Len(bytes) THEN bytes[Len(bytes) - i] ELSE 0
<1> DEFINE w == WordBytes
           bytes == hex_to_bytes(WordText(hex))
           padded == [k \in 1..w |-> IF k <= Len(bytes) THEN bytes[k] ELSE 0]
<1>1. w \in Nat /\ ByteSize \in Nat \ {0} BY Sizes
<1>2. bytes \in Seq(Byte) BY WordTextSize
<1>3. compact_to_uint64(hex) = Shifted(bytes, WordSize) BY DEF compact_to_uint64
<1>4. target_to_uint64(hex) = Shifted(Reverse(padded), WordSize) BY DEF target_to_uint64
<1> HIDE DEF bytes
<1>5. padded \in [1..w -> Byte]
  <2>1. 0 \in Byte BY <1>1 DEF Byte
  <2>2. \A k \in 1..w : k <= Len(bytes) => bytes[k] \in Byte BY <1>2
  <2>3. QED BY <2>1, <2>2
<1>6. padded[i + 1] = IF i < Len(bytes) THEN bytes[i + 1] ELSE 0
  <2>1. i + 1 \in 1..w /\ (i + 1 <= Len(bytes) <=> i < Len(bytes)) BY <1>1, <1>2
  <2>2. QED BY <2>1
<1> HIDE DEF padded
<1>7. DigitAt(target_to_uint64(hex), ByteSize, i) = padded[i + 1]
  BY <1>1, <1>4, <1>5, ReadUpwards DEF WordSize
<1>8. DigitAt(compact_to_uint64(hex), ByteSize, i)
        = IF i < Len(bytes) THEN bytes[Len(bytes) - i] ELSE 0
  BY <1>1, <1>2, <1>3, ShiftedDigits DEF WordSize
<1>9. QED BY <1>6, <1>7, <1>8 DEF bytes

(* The nonce is read where its bytes are, lowest first.                    *)
LEMMA NonceRead ==
  ASSUME NEW work \in Seq(Byte), ExtraAt <= Len(work), NEW n \in Nonces,
         \A j \in 1..NonceBytes : work[NonceAt + j] = DigitAt(n, ByteSize, j - 1)
  PROVE  extract_nonce(work) = n
<1> DEFINE w == NonceBytes
           part == SubSeq(work, NonceAt + 1, ExtraAt)
           bytes == [j \in 1..w |-> DigitAt(n, ByteSize, j - 1)]
<1>1. w \in Nat /\ NonceAt \in Nat /\ ExtraAt = NonceAt + w BY Sizes
<1>2. part = [j \in 1..w |-> work[NonceAt + j]]
  <2>1. (NonceAt + w) - (NonceAt + 1) + 1 = w BY <1>1
  <2>2. SubSeq(work, NonceAt + 1, NonceAt + w) = [j \in 1..w |-> work[NonceAt + j]]
    BY <1>1, <2>1
  <2>3. QED BY <1>1, <2>2
<1>3. part = bytes BY <1>2
<1>4. n \in 0..(Power(ByteSize, w) - 1) BY DEF Nonces, NonceSize
<1>5. Shifted(Reverse(bytes), Power(ByteSize, w)) = n BY <1>1, <1>4, ReadBack
<1>6. QED BY <1>3, <1>5 DEF extract_nonce, NonceSize

LEMMA NonceInserted ==
  ASSUME NEW m \in Nat, ExtraAt <= m, NEW blob \in [1..m -> Byte], NEW n \in Nonces
  PROVE  /\ insert_nonce(blob, n) \in [1..m -> Byte]
         /\ \A i \in 1..m : i <= NonceAt \/ i > ExtraAt => insert_nonce(blob, n)[i] = blob[i]
         /\ \A j \in 1..NonceBytes :
              insert_nonce(blob, n)[NonceAt + j] = DigitAt(n, ByteSize, j - 1)
<1> DEFINE work == insert_nonce(blob, n)
           in(i) == i \in (NonceAt + 1)..ExtraAt
<1>1. /\ NonceAt \in Nat /\ NonceBytes \in Nat /\ ExtraAt = NonceAt + NonceBytes
      /\ ByteSize \in Nat \ {0} /\ n \in Nat
  BY Sizes DEF Nonces
<1>2. work = [i \in 1..m |-> IF in(i) THEN DigitAt(n, ByteSize, i - NonceAt - 1) ELSE blob[i]]
  BY DEF insert_nonce, DigitAt
<1>3. \A i \in 1..m : in(i) => DigitAt(n, ByteSize, i - NonceAt - 1) \in Byte
  <2> SUFFICES ASSUME NEW i \in 1..m, in(i)
               PROVE  DigitAt(n, ByteSize, i - NonceAt - 1) \in Byte
    OBVIOUS
  <2>1. i - NonceAt - 1 \in Nat BY <1>1
  <2>2. QED BY <1>1, <2>1, DigitType DEF Byte
<1>4. work \in [1..m -> Byte] BY <1>2, <1>3
<1>5. \A i \in 1..m : i <= NonceAt \/ i > ExtraAt => ~in(i) BY <1>1
<1>6. \A j \in 1..NonceBytes : /\ NonceAt + j \in 1..m /\ in(NonceAt + j)
                               /\ (NonceAt + j) - NonceAt - 1 = j - 1
  BY <1>1
<1> HIDE DEF work, in
<1>7. \A i \in 1..m : i <= NonceAt \/ i > ExtraAt => work[i] = blob[i] BY <1>2, <1>5
<1>8. \A j \in 1..NonceBytes : work[NonceAt + j] = DigitAt(n, ByteSize, j - 1) BY <1>2, <1>6
<1>9. QED BY <1>4, <1>7, <1>8 DEF work

(* A sequence put between two others.                                      *)
LEMMA PutBetween ==
  ASSUME NEW a \in Seq(Byte), NEW x \in Seq(Byte), NEW c \in Seq(Byte)
  PROVE  LET all == (a \o x) \o c
         IN  /\ all \in Seq(Byte) /\ Len(all) = Len(a) + Len(x) + Len(c)
             /\ \A i \in 1..Len(a) : all[i] = a[i]
             /\ SubSeq(all, Len(a) + 1, Len(all)) = x \o c
<1> DEFINE all == (a \o x) \o c
           k == Len(a)
           m == Len(x) + Len(c)
<1>1. k \in Nat /\ Len(x) \in Nat /\ Len(c) \in Nat OBVIOUS
<1>2. all \in Seq(Byte) /\ Len(all) = k + m OBVIOUS
<1>3. \A i \in 1..k : all[i] = a[i] OBVIOUS
<1>4. \A i \in 1..m : all[k + i] = (x \o c)[i]
  <2> SUFFICES ASSUME NEW i \in 1..m PROVE all[k + i] = (x \o c)[i] OBVIOUS
  <2>1. CASE i <= Len(x)
    <3>1. k + i \in 1..(k + Len(x)) /\ i \in 1..Len(x) BY <1>1, <2>1
    <3>2. all[k + i] = (a \o x)[k + i] BY <1>1, <3>1
    <3>3. QED BY <1>1, <3>1, <3>2
  <2>2. CASE i > Len(x)
    <3>1. k + i > k + Len(x) /\ k + i - (k + Len(x)) = i - Len(x) BY <1>1, <2>2
    <3>2. all[k + i] = c[i - Len(x)] BY <1>1, <3>1
    <3>3. QED BY <1>1, <2>2, <3>2
  <2>3. QED BY <1>1, <2>1, <2>2
<1>5. SubSeq(all, k + 1, k + m) = x \o c
  <2> HIDE DEF all
  <2>1. (k + m) - (k + 1) + 1 = m BY <1>1
  <2>2. SubSeq(all, k + 1, k + m) = [i \in 1..m |-> all[k + i]] BY <1>1, <1>2, <2>1
  <2>3. x \o c = [i \in 1..m |-> (x \o c)[i]]
    <3>1. x \o c \in Seq(Byte) /\ Len(x \o c) = m OBVIOUS
    <3>2. \A s \in Seq(Byte) : s = [i \in 1..Len(s) |-> s[i]] OBVIOUS
    <3>3. QED BY <3>1, <3>2
  <2>4. QED BY <1>4, <2>2, <2>3
<1>6. QED BY <1>2, <1>3, <1>5

(* The work for a nonce carries it and is the blob everywhere else, with   *)
(* an extra nonce behind it too.                                           *)
LEMMA WorkForNonce ==
  ASSUME NEW hex \in Seq(Char), NEW n \in Nonces
  PROVE  LET blob == hex_to_bytes(hex)
             work == construct_mining_blob(hex, n)
         IN  IF validate_blob(blob)
             THEN /\ extract_nonce(work) = n
                  /\ DOMAIN work = DOMAIN blob
                  /\ \A i \in DOMAIN blob : i <= NonceAt \/ i > ExtraAt => work[i] = blob[i]
                  /\ LET more == insert_extra_nonce(work, <<n % ByteSize, 0>>)
                     IN  /\ extract_nonce(more) = n
                         /\ extract_extra_nonce(more)
                              = <<n % ByteSize, 0>> \o extract_extra_nonce(blob)
             ELSE work = TooShort
<1> DEFINE blob == hex_to_bytes(hex)
           work == construct_mining_blob(hex, n)
           m == (Len(hex) + 1) \div 2
           extra == <<n % ByteSize, 0>>
           more == insert_extra_nonce(work, extra)
<1>1. /\ NonceAt \in Nat /\ NonceBytes \in Nat /\ ExtraAt = NonceAt + NonceBytes
      /\ ExtraAt <= MinBlob /\ MinBlob \in Nat /\ ByteSize \in Nat \ {0} /\ n \in Nat
  BY Sizes DEF Nonces
<1>2. m \in Nat /\ blob \in [1..m -> Byte] BY TextBytes
<1>3. Len(blob) = m /\ DOMAIN blob = 1..m BY <1>2, FunctionIsSequence
<1>4. ~validate_blob(blob) => work = TooShort
  BY <1>1, <1>2, <1>3 DEF validate_blob, construct_mining_blob
<1> HIDE DEF m
<1>5. ASSUME validate_blob(blob)
      PROVE  /\ extract_nonce(work) = n
             /\ DOMAIN work = DOMAIN blob
             /\ \A i \in DOMAIN blob : i <= NonceAt \/ i > ExtraAt => work[i] = blob[i]
             /\ extract_nonce(more) = n
             /\ extract_extra_nonce(more) = extra \o extract_extra_nonce(blob)
  <2>1. m >= MinBlob /\ ExtraAt <= m BY <1>1, <1>2, <1>3, <1>5 DEF validate_blob
  <2>2. work = insert_nonce(blob, n) BY <1>1, <1>2, <1>3, <2>1 DEF construct_mining_blob
  <2> HIDE DEF blob, work
  <2>3. /\ work \in [1..m -> Byte]
        /\ \A i \in 1..m : i <= NonceAt \/ i > ExtraAt => work[i] = blob[i]
        /\ \A j \in 1..NonceBytes : work[NonceAt + j] = DigitAt(n, ByteSize, j - 1)
    BY <1>2, <2>1, <2>2, NonceInserted
  <2>4. work \in Seq(Byte) /\ Len(work) = m /\ DOMAIN work = 1..m
    BY <1>2, <2>3, FunctionIsSequence
  <2>5. extract_nonce(work) = n BY <2>1, <2>3, <2>4, NonceRead
  <2> DEFINE a == SubSeq(work, 1, ExtraAt)
             c == SubSeq(work, ExtraAt + 1, Len(work))
  <2>6. /\ a \in Seq(Byte) /\ Len(a) = ExtraAt
        /\ \A i \in 1..ExtraAt : a[i] = work[i]
    BY <1>1, <1>2, <2>1, <2>4
  <2>7. c \in Seq(Byte) BY <1>1, <1>2, <2>1, <2>4
  <2>8. extra \in Seq(Byte) /\ Len(extra) = 2
    <3>1. n % ByteSize \in Byte /\ 0 \in Byte BY <1>1, Division DEF Byte
    <3>2. QED BY <3>1
  <2>9. more = (a \o extra) \o c BY DEF insert_extra_nonce
  <2> HIDE DEF a, c, extra, more
  <2>10. /\ more \in Seq(Byte) /\ Len(more) = ExtraAt + 2 + Len(c)
         /\ \A i \in 1..ExtraAt : more[i] = a[i]
         /\ SubSeq(more, ExtraAt + 1, Len(more)) = extra \o c
    <3>1. LET all == (a \o extra) \o c
          IN  /\ all \in Seq(Byte) /\ Len(all) = Len(a) + Len(extra) + Len(c)
              /\ \A i \in 1..Len(a) : all[i] = a[i]
              /\ SubSeq(all, Len(a) + 1, Len(all)) = extra \o c
      BY <2>6, <2>7, <2>8, PutBetween
    <3>2. QED BY <2>6, <2>8, <2>9, <3>1
  <2>11. extract_nonce(more) = n
    <3>1. \A j \in 1..NonceBytes : NonceAt + j \in 1..ExtraAt BY <1>1
    <3>2. \A j \in 1..NonceBytes : more[NonceAt + j] = DigitAt(n, ByteSize, j - 1)
      BY <2>3, <2>6, <2>10, <3>1
    <3>3. Len(c) \in Nat /\ ExtraAt <= Len(more) BY <1>1, <2>7, <2>10
    <3>4. QED BY <2>10, <3>2, <3>3, NonceRead
  <2>12. extract_extra_nonce(more) = extra \o c
    <3>1. Len(c) \in Nat /\ ExtraAt < Len(more) BY <1>1, <2>7, <2>10
    <3>2. QED BY <2>10, <3>1 DEF extract_extra_nonce
  <2>13. extract_extra_nonce(blob) = c
    <3>1. CASE m > ExtraAt
      <4>1. \A i \in 1..(m - ExtraAt) : /\ ExtraAt + i \in 1..m /\ ExtraAt + i > ExtraAt
        BY <1>1, <1>2, <3>1
      <4>2. SubSeq(blob, ExtraAt + 1, m) = [i \in 1..(m - ExtraAt) |-> blob[ExtraAt + i]]
        <5>1. m - (ExtraAt + 1) + 1 = m - ExtraAt BY <1>1, <1>2
        <5>2. QED BY <1>1, <1>2, <3>1, <5>1
      <4>3. c = [i \in 1..(m - ExtraAt) |-> work[ExtraAt + i]]
        <5>1. m - (ExtraAt + 1) + 1 = m - ExtraAt BY <1>1, <1>2
        <5>2. QED BY <1>1, <1>2, <2>3, <2>4, <3>1, <5>1 DEF c
      <4>4. SubSeq(blob, ExtraAt + 1, m) = c BY <2>3, <4>1, <4>2, <4>3
      <4>5. QED BY <1>3, <3>1, <4>4 DEF extract_extra_nonce
    <3>2. CASE m = ExtraAt
      <4>1. c = << >> BY <1>1, <2>4, <3>2 DEF c
      <4>2. QED BY <1>1, <1>3, <3>2, <4>1 DEF extract_extra_nonce
    <3>3. QED BY <1>1, <1>2, <2>1, <3>1, <3>2
  <2>14. QED BY <1>3, <2>3, <2>4, <2>5, <2>11, <2>12, <2>13
<1>6. QED BY <1>4, <1>5

-----------------------------------------------------------------------------
(* Counting                                                                *)

(* As many hashes meet a target as its value says.                         *)
LEMMA HashesThatMeet ==
  ASSUME NEW target \in 0..WordSize
  PROVE  Cardinality({h \in [1..WordBytes -> Byte] : hash_meets_target(h, target)}) = target
<1> DEFINE w == WordBytes
           number(h) == Shifted(Reverse(h), WordSize)
           T == {h \in [1..w -> Byte] : hash_meets_target(h, target)}
           V == 0..(target - 1)
           f == [v \in V |-> [j \in 1..w |-> DigitAt(v, ByteSize, j - 1)]]
<1>1. w \in Nat /\ WordSize \in Nat \ {0} /\ ByteSize \in Nat \ {0} BY Sizes
<1>2. \A h \in [1..w -> Byte] : hash_meets_target(h, target) <=> number(h) < target
  <2> SUFFICES ASSUME NEW h \in [1..w -> Byte]
               PROVE  SubSeq(h, 1, w) = h
    BY DEF hash_meets_target
  <2>1. h \in Seq(Byte) /\ Len(h) = w BY <1>1, FunctionIsSequence
  <2>2. QED BY <2>1
<1>3. \A v \in V : f[v] \in [1..w -> Byte] /\ number(f[v]) = v
  <2> SUFFICES ASSUME NEW v \in V PROVE f[v] \in [1..w -> Byte] /\ number(f[v]) = v OBVIOUS
  <2>1. v \in 0..(Power(ByteSize, w) - 1) BY <1>1 DEF WordSize
  <2>2. f[v] = [j \in 1..w |-> DigitAt(v, ByteSize, j - 1)] OBVIOUS
  <2> HIDE DEF f
  <2>3. QED BY <1>1, <2>1, <2>2, ReadBack DEF WordSize
<1>4. ASSUME NEW h \in T PROVE number(h) \in V /\ f[number(h)] = h
  <2>1. h \in [1..w -> Byte] /\ number(h) < target BY <1>2
  <2>2. /\ number(h) \in 0..(WordSize - 1)
        /\ \A i \in 0..(w - 1) : DigitAt(number(h), ByteSize, i) = h[i + 1]
    BY <1>1, <2>1, ReadUpwards DEF WordSize
  <2>3. number(h) \in V BY <1>1, <2>1, <2>2
  <2> HIDE DEF number
  <2>4. \A j \in 1..w : j - 1 \in 0..(w - 1) /\ (j - 1) + 1 = j BY <1>1
  <2>5. \A j \in 1..w : DigitAt(number(h), ByteSize, j - 1) = h[j] BY <2>2, <2>4
  <2>6. h = [j \in 1..w |-> h[j]] BY <2>1
  <2>7. f[number(h)] = [j \in 1..w |-> DigitAt(number(h), ByteSize, j - 1)] BY <2>3
  <2>8. f[number(h)] = h BY <2>5, <2>6, <2>7
  <2>9. QED BY <2>3, <2>8
<1> HIDE DEF number
<1>5. \A v \in V : f[v] \in T
  <2>1. \A v \in V : v < target BY <1>1
  <2> HIDE DEF f
  <2>2. QED BY <1>2, <1>3, <2>1
<1>6. f \in Bijection(V, T)
  <2>1. f \in [V -> T] BY <1>5
  <2> HIDE DEF f, T, V
  <2>2. \A u, v \in V : f[u] = f[v] => u = v BY <1>3
  <2>3. \A h \in T : \E v \in V : f[v] = h BY <1>4
  <2>4. QED BY <2>1, <2>2, <2>3 DEF Bijection, Injection, Surjection, IsInjective
<1>7. IsFiniteSet(V) /\ Cardinality(V) = target
  <2>1. 0 \in Int /\ target - 1 \in Int /\ target \in Nat BY <1>1
  <2>2. IsFiniteSet(V) /\ Cardinality(V) = IF 0 > target - 1 THEN 0 ELSE (target - 1) - 0 + 1
    BY <2>1, FS_Interval
  <2>3. QED BY <2>1, <2>2
<1> HIDE DEF T, V, f
<1>8. Cardinality(T) = Cardinality(V) BY <1>6, <1>7, FS_Bijection DEF ExistsBijection
<1>9. QED BY <1>7, <1>8 DEF T

(* Rounding and cutting: with X over Y the quotient in units a / b, at     *)
(* least Significand / 2 of them, s units are off by the Significand-th    *)
(* part of it at most.                                                     *)
LEMMA Nearest ==
  ASSUME NEW X \in Nat, NEW Y \in Nat \ {0}, NEW S \in Nat \ {0}, S * Y <= 2 * X
  PROVE  LET s == (2 * X + Y) \div (2 * Y)
         IN  /\ s \in Nat
             /\ (s * Y) * S <= X * (S + 1) /\ (s * Y) * S > X * (S - 1)
<1> DEFINE s == (2 * X + Y) \div (2 * Y)
           r == (2 * X + Y) % (2 * Y)
<1>1. 2 * X + Y \in Nat /\ 2 * Y \in Nat \ {0} OBVIOUS
<1>2. 2 * X + Y = s * (2 * Y) + r /\ s \in Nat /\ r \in 0..(2 * Y - 1) BY <1>1, Division
<1> HIDE DEF s, r
<1> DEFINE Z == s * Y
<1>3. s * (2 * Y) = 2 * Z /\ Z \in Nat BY <1>2
<1> HIDE DEF Z
<1>4. 2 * Z <= 2 * X + Y /\ 2 * X < 2 * Z + Y BY <1>2, <1>3
<1>5. \A x, y \in Nat : /\ x <= y => x * S <= y * S
                        /\ x < y => x * S < y * S
  <2>1. \A x, k \in Nat : (x + k) * S = x * S + k * S /\ k * S \in Nat OBVIOUS
  <2>2. \A k \in Nat : k # 0 => k * S # 0 OBVIOUS
  <2> TAKE x, y \in Nat
  <2>3. x <= y => y - x \in Nat /\ x + (y - x) = y /\ (x < y => y - x # 0) OBVIOUS
  <2>4. x <= y => y * S = x * S + (y - x) * S /\ (y - x) * S \in Nat BY <2>1, <2>3
  <2>5. x * S \in Nat /\ y * S \in Nat OBVIOUS
  <2>6. QED BY <2>2, <2>3, <2>4, <2>5
<1>6. (2 * Z) * S <= (2 * X + Y) * S /\ (2 * X) * S < (2 * Z + Y) * S BY <1>3, <1>4, <1>5
<1>7. /\ (2 * Z) * S = 2 * (Z * S) /\ (2 * X) * S = 2 * (X * S)
      /\ (2 * X + Y) * S = 2 * (X * S) + S * Y /\ (2 * Z + Y) * S = 2 * (Z * S) + S * Y
      /\ X * (S + 1) = X * S + X /\ X * (S - 1) = X * S - X
      /\ Z * S \in Nat /\ X * S \in Nat /\ S * Y \in Nat
  BY <1>3
<1>8. Z * S <= X * (S + 1) /\ Z * S > X * (S - 1) BY <1>6, <1>7
<1>9. QED BY <1>2, <1>8 DEF s, Z

(* A factor can be cancelled.                                              *)
LEMMA Cancelled ==
  ASSUME NEW x \in Int, NEW y \in Int, NEW z \in Nat \ {0}
  PROVE  /\ x * z <= y * z => x <= y
         /\ x * z < y * z => x < y
<1>1. \A k, n \in Nat : k * n \in Nat /\ (k # 0 /\ n # 0 => k * n # 0) OBVIOUS
<1>2. x > y => x * z > y * z
  <2> SUFFICES ASSUME x > y PROVE x * z > y * z OBVIOUS
  <2>1. x - y \in Nat /\ x - y # 0 OBVIOUS
  <2>2. (x - y) * z \in Nat /\ (x - y) * z # 0 BY <1>1, <2>1
  <2>3. (x - y) * z = x * z - y * z /\ x * z \in Int /\ y * z \in Int OBVIOUS
  <2>4. QED BY <2>2, <2>3
<1>3. x = y => x * z = y * z OBVIOUS
<1>4. x * z \in Int /\ y * z \in Int OBVIOUS
<1>5. QED BY <1>2, <1>3, <1>4

LEMMA Units ==
  ASSUME NEW e \in Int
  PROVE  Unit(e)[1] \in Nat \ {0} /\ Unit(e)[2] \in Nat \ {0}
<1>1. CASE e < 0
  <2>1. -e \in Nat /\ 2 \in Nat \ {0} BY <1>1
  <2>2. Power(2, -e) \in Nat \ {0} BY <2>1, PowerPositive
  <2>3. QED BY <1>1, <2>2 DEF Unit
<1>2. CASE ~(e < 0)
  <2>1. e \in Nat /\ 2 \in Nat \ {0} BY <1>2
  <2>2. Power(2, e) \in Nat \ {0} BY <2>1, PowerPositive
  <2>3. QED BY <1>2, <2>2 DEF Unit
<1>3. QED BY <1>1, <1>2

(* A quotient rounded and cut differs from the quotient by the part in     *)
(* Significand that rounding takes or adds, and by less than the one that  *)
(* cutting takes.                                                          *)
LEMMA QuotientRounded ==
  ASSUME NEW p \in Nat, NEW q \in Nat \ {0}, \E e \in Exponents : Fits(e, p, q)
  PROVE  LET t == RoundedThenCut(p, q)
         IN  /\ t \in Nat
             /\ t * q * Significand <= p * (Significand + 1)
             /\ (t + 1) * q * Significand > p * (Significand - 1)
<1> DEFINE e == CHOOSE e \in Exponents : Fits(e, p, q)
           a == Unit(e)[1]
           b == Unit(e)[2]
           S == Significand
           X == p * b
           Y == a * q
           s == (2 * X + Y) \div (2 * Y)
           t == (s * a) \div b
<1>1. e \in Exponents /\ Fits(e, p, q) OBVIOUS
<1>2. e \in Int /\ S \in Nat \ {0} BY <1>1, CodecAssumption
<1> HIDE DEF e
<1>3. a \in Nat \ {0} /\ b \in Nat \ {0} BY <1>2, Units
<1>4. S * a * q <= 2 * p * b BY <1>1 DEF Fits
<1>5. RoundedThenCut(p, q) = (((2 * p * b + a * q) \div (2 * a * q)) * a) \div b
  BY DEF RoundedThenCut, e
<1> HIDE DEF a, b, S
<1>6. X \in Nat /\ Y \in Nat \ {0}
  <2>1. \A m, n \in Nat : m * n \in Nat /\ (m # 0 /\ n # 0 => m * n # 0) OBVIOUS
  <2>2. QED BY <1>3, <2>1
<1>7. S * a * q = S * Y /\ 2 * p * b = 2 * X /\ 2 * a * q = 2 * Y BY <1>2, <1>3
<1>8. RoundedThenCut(p, q) = t BY <1>5, <1>7
<1> HIDE DEF X, Y
<1>9. s \in Nat /\ (s * Y) * S <= X * (S + 1) /\ (s * Y) * S > X * (S - 1)
  BY <1>2, <1>4, <1>6, <1>7, Nearest
<1> HIDE DEF s
<1>10. s * a \in Nat BY <1>3, <1>9
<1>11. s * a = t * b + ((s * a) % b) /\ t \in Nat /\ ((s * a) % b) \in 0..(b - 1)
  BY <1>3, <1>10, Division
<1> HIDE DEF t
<1>12. t * b <= s * a /\ s * a < (t + 1) * b
  <2>1. t * b \in Nat /\ (t + 1) * b = t * b + b BY <1>3, <1>11
  <2>2. QED BY <1>3, <1>10, <1>11, <2>1
<1> DEFINE w == q * S
<1>13. w \in Nat \ {0}
  <2>1. \A m, n \in Nat : m # 0 /\ n # 0 => m * n \in Nat /\ m * n # 0 OBVIOUS
  <2>2. QED BY <1>2, <2>1
<1>14. (s * Y) * S = (s * a) * w
  <2>1. Y = a * q BY DEF Y
  <2>2. (s * (a * q)) * S = (s * a) * (q * S) BY <1>2, <1>3, <1>9
  <2>3. QED BY <2>1, <2>2
<1>15. (t * b) * w = (t * q * S) * b /\ ((t + 1) * b) * w = ((t + 1) * q * S) * b
  BY <1>2, <1>3, <1>11
<1>16. X * (S + 1) = (p * (S + 1)) * b /\ X * (S - 1) = (p * (S - 1)) * b
  BY <1>2, <1>3 DEF X
<1> HIDE DEF w
<1>17. (t * b) * w <= (s * a) * w /\ (s * a) * w < ((t + 1) * b) * w
  <2>1. t * b \in Nat /\ (t + 1) * b \in Nat BY <1>3, <1>11
  <2>2. \A m, n \in Nat : /\ m <= n => m * w <= n * w
                          /\ m < n => m * w < n * w
    <3> TAKE m, n \in Nat
    <3>1. m * w \in Int /\ n * w \in Int BY <1>13
    <3>2. /\ n * w <= m * w => n <= m
          /\ n * w < m * w => n < m
      BY <1>13, Cancelled
    <3>3. QED BY <3>1, <3>2
  <2>3. QED BY <1>10, <1>12, <2>1, <2>2
<1>18. /\ t * q * S \in Int /\ (t + 1) * q * S \in Int
       /\ p * (S + 1) \in Int /\ p * (S - 1) \in Int
       /\ (s * a) * w \in Int
  BY <1>2, <1>3, <1>10, <1>11, <1>13
<1>19. (t * q * S) * b <= (p * (S + 1)) * b /\ (p * (S - 1)) * b < ((t + 1) * q * S) * b
  <2>1. /\ (t * q * S) * b \in Int /\ ((t + 1) * q * S) * b \in Int
        /\ (p * (S + 1)) * b \in Int /\ (p * (S - 1)) * b \in Int
    BY <1>3, <1>18
  <2>2. QED BY <1>9, <1>14, <1>15, <1>16, <1>17, <1>18, <2>1
<1>20. t * q * S <= p * (S + 1) /\ p * (S - 1) < (t + 1) * q * S
  BY <1>3, <1>18, <1>19, Cancelled
<1>21. QED BY <1>8, <1>11, <1>18, <1>20 DEF S

(* A difficulty above 1 gives a target that fits in its word and that many *)
(* hashes below it as a double can tell.                                   *)
LEMMA TargetRounds ==
  ASSUME NEW d, IsDouble(d), d[1] > d[2]
  PROVE  LET t == RoundedThenCut(WordSize * d[2], d[1])
             fair == WordSize * d[2]
         IN  /\ t \in 0..(WordSize - 1)
             /\ t * d[1] * Significand <= fair * (Significand + 1)
             /\ (t + 1) * d[1] * Significand > fair * (Significand - 1)
<1> DEFINE p == d[1]
           q == d[2]
           S == Significand
           W == WordSize
           t == RoundedThenCut(W * q, p)
<1>1. /\ p \in Int /\ q \in Nat \ {0} /\ p > q
      /\ (p - q) * S >= 2 * q /\ \E e \in Exponents : Fits(e, W * q, p)
  BY DEF IsDouble
<1>2. p \in Nat \ {0} /\ p - q \in Nat /\ S \in Nat \ {0} /\ W \in Nat \ {0}
  BY <1>1, CodecAssumption, Sizes
<1> HIDE DEF p, q, S, W
<1>3. W * q \in Nat BY <1>1, <1>2
<1>4. t \in Nat /\ t * p * S <= (W * q) * (S + 1) /\ (t + 1) * p * S > (W * q) * (S - 1)
  BY <1>1, <1>2, <1>3, QuotientRounded DEF S
<1> HIDE DEF t
<1>5. ASSUME t >= W PROVE FALSE
  <2>1. p * S = q * S + (p - q) * S /\ q * S \in Nat /\ (p - q) * S \in Nat /\ p * S \in Nat
    BY <1>1, <1>2
  <2>2. p * S >= q * S + 2 * q BY <1>1, <1>2, <2>1
  <2>3. q * (S + 1) = q * S + q /\ q * (S + 1) \in Nat BY <1>1, <1>2
  <2>4. p * S > q * (S + 1) BY <1>1, <2>1, <2>2, <2>3
  <2> DEFINE x == p * S
             y == q * (S + 1)
  <2>5. x \in Nat /\ y \in Nat /\ x > y BY <2>1, <2>3, <2>4
  <2>6. t * p * S = t * x /\ (W * q) * (S + 1) = W * y BY <1>1, <1>2, <1>4
  <2> HIDE DEF x, y
  <2>7. W * x > W * y
    <3>1. \A m, n \in Nat : m # 0 /\ n # 0 => m * n \in Nat /\ m * n # 0 OBVIOUS
    <3>2. W * (x - y) = W * x - W * y /\ W * x \in Nat /\ W * y \in Nat BY <1>2, <2>5
    <3>3. x - y \in Nat /\ x - y # 0 BY <2>5
    <3>4. W * (x - y) \in Nat /\ W * (x - y) # 0 BY <1>2, <3>1, <3>3
    <3>5. QED BY <3>2, <3>4
  <2>8. t * x >= W * x
    <3>1. t - W \in Nat BY <1>2, <1>4, <1>5
    <3>2. (t - W) * x \in Nat BY <2>5, <3>1
    <3>3. (t - W) * x = t * x - W * x /\ t * x \in Nat /\ W * x \in Nat BY <1>2, <1>4, <2>5
    <3>4. QED BY <3>2, <3>3
  <2>9. t * x \in Nat /\ W * x \in Nat /\ W * y \in Nat BY <1>2, <1>4, <2>5
  <2>10. QED BY <1>4, <2>6, <2>7, <2>8, <2>9
<1>6. t \in 0..(W - 1) BY <1>2, <1>4, <1>5
<1>7. QED BY <1>4, <1>6 DEF t, p, q, S, W

(* Of the numbers up to n, those that leave one remainder are at most one  *)
(* more than those that leave another, and no more than a lesser one's.    *)
Leaving(n, m, c) == {i \in 1..n : (i - 1) % m = c}

LEMMA LeavingFinite ==
  ASSUME NEW n \in Nat, NEW m, NEW c
  PROVE  IsFiniteSet(Leaving(n, m, c)) /\ Cardinality(Leaving(n, m, c)) \in Nat
<1>1. IsFiniteSet(1..n)
  <2>1. 1 \in Int /\ n \in Int OBVIOUS
  <2>2. QED BY <2>1, FS_Interval
<1>2. Leaving(n, m, c) \in SUBSET (1..n) BY DEF Leaving
<1>3. IsFiniteSet(Leaving(n, m, c)) BY <1>1, <1>2, FS_Subset
<1>4. QED BY <1>3, FS_CardinalityType

(* From a remainder c to a remainder d, by k periods.                      *)
LEMMA LeavingMoves ==
  ASSUME NEW n \in Nat, NEW m \in Nat \ {0}, NEW c \in 0..(m - 1), NEW d \in 0..(m - 1),
         NEW k \in {0, 1}, d <= c \/ k = 1, NEW i \in Leaving(n, m, c), i > c + 1 \/ k = 0
  PROVE  i - c + d - k * m \in Leaving(n, m, d)
<1> DEFINE q == (i - 1) \div m
           j == i - c + d - k * m
<1>1. i \in 1..n /\ (i - 1) % m = c /\ i - 1 \in Nat BY DEF Leaving
<1>2. i - 1 = q * m + c /\ q \in Nat BY <1>1, Division
<1> HIDE DEF q
<1>3. k = 1 => q - 1 \in Nat
  <2>1. CASE q = 0
    <3>1. 0 * m = 0 OBVIOUS
    <3>2. i - 1 = c BY <1>2, <2>1, <3>1
    <3>3. QED BY <1>1, <3>2
  <2>2. QED BY <1>2, <2>1
<1>4. q - k \in Nat
  <2>1. CASE k = 0 BY <1>2, <2>1
  <2>2. CASE k = 1 BY <1>3, <2>2
  <2>3. QED BY <2>1, <2>2
<1>5. j - 1 = (q - k) * m + d
  <2>1. CASE k = 0
    <3>1. 0 * m = 0 /\ q - 0 = q BY <1>2
    <3>2. q * m \in Nat BY <1>2
    <3>3. QED BY <1>1, <1>2, <2>1, <3>1, <3>2
  <2>2. CASE k = 1
    <3>1. (q - 1) * m = q * m - m /\ 1 * m = m /\ q * m \in Nat BY <1>2
    <3>2. QED BY <1>1, <1>2, <2>2, <3>1
  <2>3. QED BY <2>1, <2>2
<1>6. (q - k) * m \in Nat BY <1>4
<1>7. j - 1 \in Nat BY <1>5, <1>6
<1>8. j <= n
  <2>1. 0 * m = 0 /\ 1 * m = m OBVIOUS
  <2>2. QED BY <1>1, <2>1
<1>9. (j - 1) % m = d
  <2> DEFINE y == j - 1
             x == q - k
  <2>1. y \in Nat /\ x \in Nat /\ y = x * m + d BY <1>4, <1>5, <1>7
  <2> HIDE DEF x, y
  <2>2. y % m = d BY <2>1, Quotient
  <2>3. QED BY <2>2 DEF y
<1>10. j \in 1..n
  <2>1. j \in Int
    <3>1. 0 * m = 0 /\ 1 * m = m OBVIOUS
    <3>2. QED BY <1>1, <3>1
  <2> HIDE DEF j
  <2>2. QED BY <1>7, <1>8, <2>1
<1>11. QED BY <1>9, <1>10 DEF Leaving

LEMMA LeavingBalanced ==
  ASSUME NEW n \in Nat, NEW m \in Nat \ {0}, NEW c \in 0..(m - 1), NEW d \in 0..(m - 1)
  PROVE  /\ Cardinality(Leaving(n, m, c)) <= Cardinality(Leaving(n, m, d)) + 1
         /\ d <= c => Cardinality(Leaving(n, m, c)) <= Cardinality(Leaving(n, m, d))
<1> DEFINE P == Leaving(n, m, c)
           Q == Leaving(n, m, d)
           R == P \ {c + 1}
<1>1. /\ IsFiniteSet(P) /\ Cardinality(P) \in Nat
      /\ IsFiniteSet(Q) /\ Cardinality(Q) \in Nat
  BY LeavingFinite
<1>2. \A i \in P : i \in Int /\ i >= c + 1
  <2> SUFFICES ASSUME NEW i \in P PROVE i \in Int /\ i >= c + 1 OBVIOUS
  <2>1. i \in 1..n /\ (i - 1) % m = c /\ i - 1 \in Nat BY DEF Leaving
  <2>2. i - 1 = ((i - 1) \div m) * m + c /\ (i - 1) \div m \in Nat BY <2>1, Division
  <2>3. ((i - 1) \div m) * m \in Nat BY <2>2
  <2>4. QED BY <2>1, <2>2, <2>3
<1>3. ASSUME d <= c PROVE Cardinality(P) <= Cardinality(Q)
  <2> DEFINE f == [i \in P |-> i - c + d]
  <2>1. \A i \in P : i - c + d \in Q
    <3> SUFFICES ASSUME NEW i \in P PROVE i - c + d \in Q OBVIOUS
    <3>1. i - c + d - 0 * m = i - c + d BY <1>2
    <3>2. i - c + d - 0 * m \in Q BY <1>3, LeavingMoves
    <3>3. QED BY <3>1, <3>2
  <2>2. f \in [P -> Q] BY <2>1
  <2>3. \A i, j \in P : f[i] = f[j] => i = j BY <1>2
  <2> HIDE DEF f, P, Q
  <2>4. f \in Injection(P, Q) BY <2>2, <2>3 DEF Injection, IsInjective
  <2>5. QED BY <1>1, <2>4, FS_Injection
<1>4. Cardinality(P) <= Cardinality(Q) + 1
  <2> DEFINE f == [i \in R |-> i - c + d - m]
  <2>1. \A i \in R : i - c + d - m \in Q
    <3> SUFFICES ASSUME NEW i \in R PROVE i - c + d - m \in Q OBVIOUS
    <3>1. i \in P /\ i > c + 1 BY <1>2
    <3>2. i - c + d - 1 * m = i - c + d - m BY <1>2
    <3>3. i - c + d - 1 * m \in Q BY <3>1, LeavingMoves
    <3>4. QED BY <3>2, <3>3
  <2>2. f \in [R -> Q] BY <2>1
  <2>3. \A i, j \in R : f[i] = f[j] => i = j BY <1>2
  <2>4. /\ IsFiniteSet(R)
        /\ Cardinality(R) = IF c + 1 \in P THEN Cardinality(P) - 1 ELSE Cardinality(P)
    <3> HIDE DEF P
    <3>1. QED BY <1>1, FS_RemoveElement
  <2> HIDE DEF f, P, Q, R
  <2>5. f \in Injection(R, Q) BY <2>2, <2>3 DEF Injection, IsInjective
  <2>6. Cardinality(R) <= Cardinality(Q) BY <1>1, <2>5, FS_Injection
  <2>7. QED BY <1>1, <2>4, <2>6
<1>5. QED BY <1>3, <1>4

=============================================================================
