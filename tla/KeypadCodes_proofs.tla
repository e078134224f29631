-------------------------- MODULE KeypadCodes_proofs --------------------------
(***************************************************************************)
(* A code that client and bridge encrypt and decrypt with the same valid   *)
(* settings is the code again (unless encryptKeypadCode's product wraps),  *)
(* for words and codes of any length: the loop of modInverse finds the     *)
(* inverse of every multiplier that is coprime to the modulus, and its     *)
(* cofactors do not leave the modulus.                                     *)
(***************************************************************************)
EXTENDS KeypadCodes, TLAPS

\* A number is its quotient and remainder (the operator % of the code).
LEMMA Division ==
  ASSUME NEW n \in Int, NEW m \in Nat \ {0}
  PROVE /\ n \div m \in Int /\ n % m \in 0..(m - 1)
        /\ n = m * (n \div m) + (n % m)
  BY SMT

\* A positive multiple is not less than its divisor.
LEMMA Multiple ==
  ASSUME NEW m \in Nat \ {0}, NEW d \in Int, d >= 1
  PROVE m * d >= m
<1>1. PICK e \in Nat : d = e + 1
  <2>1. d - 1 \in Nat /\ d = (d - 1) + 1  OBVIOUS
  <2> QED  BY <2>1
<1>2. m * d = m * e + m /\ m * e >= 0  BY <1>1
<1> QED  BY <1>2

\* Remainders are unique: adding multiples of m does not change one.
LEMMA Remainder ==
  ASSUME NEW m \in Nat \ {0}, NEW k \in Int, NEW c \in 0..(m - 1)
  PROVE (c + m * k) % m = c
<1> DEFINE n == c + m * k
           q == n \div m
           r == n % m
<1>1. n \in Int  OBVIOUS
<1>2. q \in Int /\ r \in 0..(m - 1) /\ n = m * q + r
  BY <1>1, Division
<1> HIDE DEF q, r
<1>3. m * (k - q) = r - c /\ m * (q - k) = c - r
  BY <1>2
<1>4. ~(k - q >= 1)
  BY <1>2, <1>3, Multiple
<1>5. ~(q - k >= 1)
  BY <1>2, <1>3, Multiple
<1>6. k = q
  BY <1>2, <1>4, <1>5
<1>7. r = c
  BY <1>2, <1>6
<1> QED
  BY <1>7 DEF r

\* The bounds are numbers in the order the code has them.
LEMMA Bounds ==
  /\ LowCode \in Nat \ {0} /\ HighCode \in Moduli /\ Word \in Nat
  /\ MaxLong \in Nat /\ MaxLong < Word /\ Unset \notin Int
  /\ DefaultMult \in Words /\ DefaultOff \in Words
  BY KeypadAssumption DEF KeypadAssumption, Moduli, Words

\* Decrypting what was encrypted gives the code, if the inverse is one
\* (encryptKeypadCode, decryptKeypadCode).
LEMMA DecryptFormula ==
  ASSUME NEW c \in Nat, NEW key,
         key.mod \in Nat \ {0}, key.mult \in Nat, key.off \in Nat,
         IsInverse(key.inv, key.mult, key.mod),
         key.off < key.mod, c < key.mod, 2 * key.mod <= MaxLong
  PROVE Decrypt(ToInt(Formula(c, key)), key) = c
<1> DEFINE m == key.mod
           a == key.mult
           o == key.off
           i == key.inv
           w == Word
           e == Formula(c, key)
           x == (c * a + o) % m
           q == (c * a + o) \div m
           s == (e - o) % m
           p == (e - o) \div m
           t == (a * i) \div m
<1>a. /\ m \in Nat \ {0} /\ a \in Nat /\ o \in Nat /\ i \in Nat \ {0}
      /\ o < m /\ c < m /\ (a * i) % m = 1
      /\ w \in Nat /\ 2 * m <= MaxLong /\ MaxLong \in Nat /\ MaxLong < w
  BY Bounds DEF IsInverse
<1>0. e = x + m
  BY DEF Formula
<1>b. Decrypt(ToInt(e), key) = ((((ToInt(e) - o) % w) % m) * i) % m
  BY <1>a DEF Decrypt, Shifted
<1> HIDE DEF m, a, o, i, w, e
<1>1. c * a + o \in Int /\ a * i \in Int
  BY <1>a
<1>2. q \in Int /\ x \in 0..(m - 1) /\ c * a + o = m * q + x
  BY <1>1, <1>a, Division
<1>3. t \in Int /\ a * i = m * t + 1
  BY <1>1, <1>a, Division
<1> HIDE DEF x, q, t
<1>4. e - o \in 0..(w - 1) /\ e \in Nat /\ e < 2 * m
  BY <1>a, <1>0, <1>2
<1>5. (e - o) % w = e - o
  BY <1>a, <1>4
<1>6. p \in Int /\ s \in 0..(m - 1) /\ e - o = m * p + s
  <2>1. e - o \in Int  BY <1>4
  <2> QED  BY <1>a, <2>1, Division
<1> HIDE DEF s, p
<1>7. s = c * a + m * (1 - q - p)
  BY <1>a, <1>0, <1>2, <1>6
<1>8. s * i = c * (a * i) + m * ((1 - q - p) * i)
  <2> DEFINE u == 1 - q - p
  <2>1. u \in Int /\ s = c * a + m * u  BY <1>2, <1>6, <1>7
  <2> HIDE DEF u
  <2>2. (c * a + m * u) * i = c * (a * i) + m * (u * i)  BY <1>a, <2>1
  <2> QED  BY <2>1, <2>2 DEF u
<1>9. c * (a * i) = c + m * (c * t)
  <2>1. c * (m * t + 1) = c + m * (c * t)  BY <1>a, <1>3
  <2> QED  BY <2>1, <1>3
<1>10. PICK k \in Int : s * i = c + m * k
  <2> DEFINE v == (1 - q - p) * i
             k == c * t + v
  <2>1. v \in Int /\ c * t \in Int  BY <1>a, <1>2, <1>3, <1>6
  <2>2. s * i = c + m * (c * t) + m * v  BY <1>8, <1>9
  <2> HIDE DEF v
  <2>3. m * (c * t) + m * v = m * k /\ k \in Int  BY <1>a, <2>1
  <2>4. s * i = c + m * k  BY <1>a, <2>1, <2>2, <2>3
  <2> QED  BY <2>3, <2>4
<1>11. (s * i) % m = c
  <2>1. c \in 0..(m - 1)  BY <1>a
  <2>2. (c + m * k) % m = c  BY <1>a, <1>10, <2>1, Remainder
  <2> QED  BY <1>10, <2>2
<1>12. ToInt(e) = e
  BY <1>a, <1>4 DEF ToInt
<1>13. ((((e - o) % w) % m) * i) % m = c
  BY <1>5, <1>11 DEF s
<1> QED
  BY <1>b, <1>12, <1>13 DEF e

\* While its product does not wrap, encryptKeypadCode computes the formula.
LEMMA EncryptIsFormula ==
  ASSUME NEW c \in Nat, NEW key,
         key.mod \in Nat \ {0}, key.mult \in Nat, key.off \in Nat,
         2 * key.mod <= MaxLong, Fits(c, key)
  PROVE Encrypt(c, key) = Formula(c, key)
<1> DEFINE m == key.mod
           n == c * key.mult + key.off
<1>1. n \in Nat /\ n < Word
  BY DEF Fits
<1>2. /\ Fits(c, key) /\ m \in Nat \ {0} /\ 2 * m <= MaxLong
      /\ Word \in Nat /\ MaxLong \in Nat /\ MaxLong < Word
  BY Bounds
<1>3. Encrypt(c, key) = (((n % Word) % m) + m) % Word /\ Formula(c, key) = (n % m) + m
  BY DEF Encrypt, Formula
<1> HIDE DEF m, n
<1>4. n % Word = n
  BY <1>1, <1>2
<1>5. n % m \in 0..(m - 1)
  <2>1. n \in Int  BY <1>1
  <2> QED  BY <1>2, <2>1, Division
<1>6. (n % m) + m \in 0..(Word - 1)
  BY <1>2, <1>5
<1>7. ((n % m) + m) % Word = (n % m) + m
  <2> DEFINE k == (n % m) + m
  <2>1. k \in 0..(Word - 1)  BY <1>6
  <2> HIDE DEF k
  <2>2. k % Word = k  BY <1>2, <2>1
  <2> QED  BY <2>2 DEF k
<1> QED
  BY <1>3, <1>4, <1>7

-----------------------------------------------------------------------------
\* The loop of modInverse(a, m): both remainders are combinations of a and m with
\* the cofactors kept (modulo m), a and m are combinations of the remainders, and
\* the cofactors alternate in sign and grow up to m.
Cofactors(a, m, e) ==
  \E t, z, x, y \in Int, u, v \in Nat :
    /\ a * e.oldS = e.oldR + m * t /\ a * e.s = e.r + m * z
    /\ a = x * e.oldR + y * e.r
    /\ m = v * e.oldR + u * e.r
    /\ (e.oldS = u /\ e.s = 0 - v) \/ (e.oldS = 0 - u /\ e.s = v)
    /\ (e.r < e.oldR /\ u <= v) \/ (u = 1 /\ v = 0)

\* The loop starts so.
LEMMA CofactorsStart ==
  ASSUME NEW a \in Nat, NEW m \in Nat
  PROVE Cofactors(a, m, [oldR |-> a, r |-> m, oldS |-> 1, s |-> 0])
<1> DEFINE e == [oldR |-> a, r |-> m, oldS |-> 1, s |-> 0]
<1>1. /\ a * 1 = a + m * 0 /\ a * 0 = m + m * (-1) /\ a = 1 * a + 0 * m
      /\ m = 0 * a + 1 * m
  <2>1. m * (-1) = -m /\ m * 0 = 0 /\ a * 0 = 0 /\ 0 * m = 0 /\ 0 * a = 0  BY SMT
  <2> QED  BY <2>1
<1>2. e.oldR = a /\ e.r = m /\ e.oldS = 1 /\ e.s = 0
  OBVIOUS
<1> HIDE DEF e
<1>3. \E t, z, x, y \in Int, u, v \in Nat :
        /\ a * e.oldS = e.oldR + m * t /\ a * e.s = e.r + m * z
        /\ a = x * e.oldR + y * e.r
        /\ m = v * e.oldR + u * e.r
        /\ (e.oldS = u /\ e.s = 0 - v) \/ (e.oldS = 0 - u /\ e.s = v)
        /\ (e.r < e.oldR /\ u <= v) \/ (u = 1 /\ v = 0)
  <2> WITNESS 0 \in Int, -1 \in Int, 1 \in Int, 0 \in Int
  <2> WITNESS 1 \in Nat, 0 \in Nat
  <2> QED  BY <1>1, <1>2
<1> QED
  BY <1>3 DEF Cofactors, e

\* A turn of it keeps them.
LEMMA CofactorsKept ==
  ASSUME NEW a \in Nat, NEW m \in Nat, NEW e, NEW f,
         e.oldR \in Nat, e.r \in Nat, e.r # 0, Cofactors(a, m, e),
         f.oldR = e.r, f.r = e.oldR - (e.oldR \div e.r) * e.r,
         f.oldS = e.s, f.s = e.oldS - (e.oldR \div e.r) * e.s
  PROVE Cofactors(a, m, f) /\ f.r \in Nat /\ f.r < f.oldR
<1> DEFINE R == e.oldR
           r == e.r
           S == e.oldS
           s == e.s
           q == R \div r
           n == R - q * r
<1>1. PICK t, z, x, y \in Int, u, v \in Nat :
        /\ a * S = R + m * t /\ a * s = r + m * z
        /\ a = x * R + y * r
        /\ m = v * R + u * r
        /\ (S = u /\ s = 0 - v) \/ (S = 0 - u /\ s = v)
        /\ (r < R /\ u <= v) \/ (u = 1 /\ v = 0)
  BY DEF Cofactors
<1>2. R \in Nat /\ r \in Nat \ {0}
  OBVIOUS
<1>3. f.oldR = r /\ f.r = n /\ f.oldS = s /\ f.s = S - q * s
  OBVIOUS
<1> HIDE DEF R, r, S, s
<1>4. S \in Int /\ s \in Int
  <2>1. (S = u /\ s = 0 - v) \/ (S = 0 - u /\ s = v)  BY <1>1
  <2> QED  BY <2>1
<1>5. q \in Int /\ n \in 0..(r - 1) /\ R = r * q + n
  <2>1. q \in Int /\ R % r \in 0..(r - 1) /\ R = r * q + (R % r)
    <3>1. R \in Int  BY <1>2
    <3> QED  BY <1>2, <3>1, Division
  <2>2. q * r = r * q  BY <1>2, <2>1
  <2> QED  BY <1>2, <2>1, <2>2
<1> HIDE DEF q, n
<1>6. q \in Nat /\ (r < R => q >= 1)
  <2>1. ~(q <= -1)
    <3> SUFFICES ASSUME q <= -1 PROVE FALSE  OBVIOUS
    <3>1. r * (-q) >= r  BY <1>5, <1>2, <1>4, Multiple
    <3> QED  BY <1>5, <1>2, <1>4, <3>1
  <2>2. ASSUME r < R, q = 0 PROVE FALSE
    BY <1>5, <1>2, <1>4, <2>2
  <2> QED  BY <1>5, <2>1, <2>2
<1>7. a * (S - q * s) = n + m * (t - q * z)
  <2>1. a * (S - q * s) = a * S - q * (a * s)  BY <1>5, <1>2, <1>4
  <2>2. q * (r + m * z) = q * r + m * (q * z)  BY <1>5, <1>2, <1>4
  <2>3. m * t - m * (q * z) = m * (t - q * z)  BY <1>5, <1>2, <1>4
  <2> QED  BY <1>1, <1>5, <1>2, <1>4, <2>1, <2>2, <2>3
<1>8. a = (x * q + y) * r + x * n
  <2>1. x * (r * q + n) = (x * q) * r + x * n  BY <1>5, <1>2, <1>4
  <2>2. (x * q) * r + y * r = (x * q + y) * r  BY <1>5, <1>2, <1>4
  <2> QED  BY <1>1, <1>5, <1>2, <1>4, <2>1, <2>2
<1>9. m = (u + q * v) * r + v * n
  <2>1. v * (r * q + n) = (q * v) * r + v * n  BY <1>5, <1>2, <1>4
  <2>2. (q * v) * r + u * r = (u + q * v) * r  BY <1>5, <1>2, <1>4
  <2> QED  BY <1>1, <1>5, <1>2, <1>4, <2>1, <2>2
<1>10. /\ u + q * v \in Nat
      /\ \/ s = 0 - v /\ S - q * s = u + q * v
         \/ s = v /\ S - q * s = 0 - (u + q * v)
  <2>1. q * v \in Nat  BY <1>6
  <2>2. CASE S = u /\ s = 0 - v
    <3>1. q * s = -(q * v)  BY <1>4, <1>6, <2>2
    <3> QED  BY <1>4, <2>1, <2>2, <3>1
  <2>3. CASE S = 0 - u /\ s = v
    <3>1. q * s = q * v  BY <2>3
    <3> QED  BY <1>4, <2>1, <2>3, <3>1
  <2> QED  BY <1>1, <2>2, <2>3
<1>11. n < r /\ v <= u + q * v
  <2>1. CASE v = 0  BY <1>5, <1>2, <1>10, <2>1
  <2>2. CASE v # 0
    <3>1. q >= 1  BY <1>1, <1>6, <2>2
    <3>2. v \in Nat \ {0} /\ q \in Int  BY <1>5, <2>2
    <3>3. v * q >= v  BY <3>1, <3>2, Multiple
    <3>4. v * q = q * v  BY <3>2
    <3>5. v <= u + q * v  BY <3>2, <3>3, <3>4
    <3> QED  BY <1>2, <1>5, <3>5
  <2> QED  BY <2>1, <2>2
<1>12. /\ x * q + y \in Int /\ t - q * z \in Int
       /\ n \in Nat
  BY <1>5, <1>2, <1>4
<1>13. Cofactors(a, m, f)
  <2>1. \E t2, z2, x2, y2 \in Int, u2, v2 \in Nat :
          /\ a * f.oldS = f.oldR + m * t2 /\ a * f.s = f.r + m * z2
          /\ a = x2 * f.oldR + y2 * f.r
          /\ m = v2 * f.oldR + u2 * f.r
          /\ (f.oldS = u2 /\ f.s = 0 - v2) \/ (f.oldS = 0 - u2 /\ f.s = v2)
          /\ (f.r < f.oldR /\ u2 <= v2) \/ (u2 = 1 /\ v2 = 0)
    <3> DEFINE z2 == t - q * z
               x2 == x * q + y
               v2 == u + q * v
    <3>1. /\ a * f.oldS = f.oldR + m * z /\ a * f.s = f.r + m * z2
          /\ a = x2 * f.oldR + x * f.r
          /\ m = v2 * f.oldR + v * f.r
          /\ (f.oldS = v /\ f.s = 0 - v2) \/ (f.oldS = 0 - v /\ f.s = v2)
          /\ f.r < f.oldR /\ v <= v2
      BY <1>1, <1>3, <1>7, <1>8, <1>9, <1>10, <1>11
    <3> z2 \in Int  BY <1>12
    <3> x2 \in Int  BY <1>12
    <3> v2 \in Nat  BY <1>10
    <3> HIDE DEF z2, x2, v2
    <3> WITNESS z \in Int, z2 \in Int, x2 \in Int, x \in Int
    <3> WITNESS v \in Nat, v2 \in Nat
    <3> QED  BY <3>1
  <2> QED  BY <2>1 DEF Cofactors
<1> QED
  BY <1>3, <1>11, <1>12, <1>13

\* The cofactors are never beyond m.
LEMMA CofactorsBounded ==
  ASSUME NEW a \in Nat, NEW m \in Nat \ {0}, NEW e,
         e.oldR \in Nat, e.r \in Nat, Cofactors(a, m, e)
  PROVE e.oldS \in (-m)..m /\ e.s \in (-m)..m
<1> DEFINE R == e.oldR
           r == e.r
<1>1. PICK u, v \in Nat :
        /\ m = v * R + u * r
        /\ (e.oldS = u /\ e.s = 0 - v) \/ (e.oldS = 0 - u /\ e.s = v)
        /\ (r < R /\ u <= v) \/ (u = 1 /\ v = 0)
  BY DEF Cofactors
<1>2. R \in Nat /\ r \in Nat  OBVIOUS
<1> HIDE DEF R, r
<1>3. u <= m /\ v <= m
  <2>1. CASE v = 0
    BY <1>1, <1>2, <2>1
  <2>2. CASE v # 0
    <3>1. R >= 1 /\ u <= v  BY <1>1, <1>2, <2>2
    <3>2. v * R >= v  BY <1>2, <2>2, <3>1, Multiple
    <3>3. u * r >= 0  BY <1>2
    <3> QED  BY <1>1, <1>2, <3>1, <3>2, <3>3
  <2> QED  BY <2>1, <2>2
<1> QED
  BY <1>1, <1>3

\* No multiple of a number above 1 is 1.
LEMMA NoUnit ==
  ASSUME NEW m \in Nat, m >= 2, NEW k \in Int
  PROVE m * k # 1
<1>1. CASE k >= 1
  <2>1. m * k >= m  BY <1>1, Multiple
  <2> QED  BY <2>1
<1>2. CASE k < 1
  <2>1. -k \in Nat  BY <1>2
  <2>2. m * (-k) >= 0  BY <2>1
  <2>3. m * k = -(m * (-k))  OBVIOUS
  <2> QED  BY <2>2, <2>3
<1> QED
  BY <1>1, <1>2

\* Without a common divisor the last cofactor, made positive, is the inverse
\* modulo m.
LEMMA LastCofactor ==
  ASSUME NEW a \in Nat, NEW m \in Nat, m >= 2, NEW S \in Int, NEW t \in Int,
         a * S = 1 + m * t, S <= m, -m <= S
  PROVE IsInverse(IF S < 0 THEN S + m ELSE S, a, m)
<1>1. S # 0
  <2> SUFFICES ASSUME S = 0 PROVE FALSE  OBVIOUS
  <2>1. m * (-t) = -(m * t) /\ a * 0 = 0  OBVIOUS
  <2>2. m * (-t) = 1  BY <2>1
  <2> QED  BY <2>2, NoUnit
<1>2. S # m
  <2> SUFFICES ASSUME S = m PROVE FALSE  OBVIOUS
  <2>1. m * (a - t) = a * m - m * t  OBVIOUS
  <2>2. m * (a - t) = 1 /\ a - t \in Int  BY <2>1
  <2> QED  BY <2>2, NoUnit
<1>3. S # -m
  <2> SUFFICES ASSUME S = -m PROVE FALSE  OBVIOUS
  <2>1. a * (-m) = -(a * m)  OBVIOUS
  <2>2. m * (-a - t) = -(a * m) - m * t  OBVIOUS
  <2>3. m * (-a - t) = 1 /\ -a - t \in Int  BY <2>1, <2>2
  <2> QED  BY <2>3, NoUnit
<1>4. m \in Nat \ {0} /\ 1 \in 0..(m - 1)
  OBVIOUS
<1>5. CASE S < 0
  <2>1. a * (S + m) = 1 + m * (t + a)
    <3>1. a * (S + m) = a * S + a * m  OBVIOUS
    <3>2. m * (t + a) = m * t + a * m  OBVIOUS
    <3> QED  BY <3>1, <3>2
  <2>2. t + a \in Int  OBVIOUS
  <2>3. (1 + m * (t + a)) % m = 1  BY <1>4, <2>2, Remainder
  <2>4. S + m \in 1..(m - 1)  BY <1>3, <1>5
  <2> QED  BY <1>5, <2>1, <2>3, <2>4 DEF IsInverse
<1>6. CASE ~(S < 0)
  <2>1. (1 + m * t) % m = 1  BY <1>4, Remainder
  <2>2. S \in 1..(m - 1)  BY <1>1, <1>2, <1>6
  <2> QED  BY <1>6, <2>1, <2>2 DEF IsInverse
<1> QED
  BY <1>5, <1>6

\* When the loop ends, oldR tells whether a and m are coprime, and oldS is the
\* inverse then.
LEMMA LoopEnd ==
  ASSUME NEW a \in Nat, NEW m \in Nat, m >= 2, NEW e,
         e.oldR \in Nat, e.r = 0, Cofactors(a, m, e)
  PROVE /\ e.oldR = 1 => /\ Coprime(a, m)
                         /\ IsInverse(IF e.oldS < 0 THEN e.oldS + m ELSE e.oldS, a, m)
        /\ e.oldR # 1 => ~Coprime(a, m)
<1> DEFINE R == e.oldR
           S == e.oldS
<1>1. PICK t, z, x, y \in Int, u, v \in Nat :
        /\ a * S = R + m * t /\ a * e.s = e.r + m * z
        /\ a = x * R + y * e.r
        /\ m = v * R + u * e.r
        /\ (S = u /\ e.s = 0 - v) \/ (S = 0 - u /\ e.s = v)
        /\ (e.r < R /\ u <= v) \/ (u = 1 /\ v = 0)
  BY DEF Cofactors
<1>2. R \in Nat /\ S \in Int
  <2>1. S = u \/ S = 0 - u  BY <1>1
  <2> QED  BY <2>1
<1>3. S <= m /\ -m <= S
  <2>1. m \in Nat \ {0} /\ e.r \in Nat  OBVIOUS
  <2>2. S \in (-m)..m  BY <2>1, CofactorsBounded
  <2> QED  BY <2>2
<1> HIDE DEF R, S
<1>4. a = R * x /\ m = R * v
  <2>1. y * 0 = 0 /\ u * 0 = 0  OBVIOUS
  <2>2. x * R = R * x /\ v * R = R * v  BY <1>2
  <2>3. a = x * R + 0 /\ m = v * R + 0  BY <1>1, <2>1
  <2> QED  BY <1>2, <2>2, <2>3
<1>5. R # 0
  <2> SUFFICES ASSUME R = 0 PROVE FALSE  OBVIOUS
  <2>1. 0 * v = 0  OBVIOUS
  <2> QED  BY <1>4, <2>1
<1>6. ASSUME R = 1
      PROVE Coprime(a, m) /\ IsInverse(IF S < 0 THEN S + m ELSE S, a, m)
  <2>1. a * S = 1 + m * t  BY <1>1, <1>6
  <2>2. ASSUME NEW d \in 2..m, a % d = 0, m % d = 0 PROVE FALSE
    <3> DEFINE k == a \div d
               l == m \div d
    <3>1. d \in Nat \ {0} /\ d \in Nat /\ d >= 2 /\ a \in Int /\ m \in Int  OBVIOUS
    <3>2. k \in Int /\ l \in Int /\ a = d * k + 0 /\ m = d * l + 0
      BY <2>2, <3>1, Division
    <3> HIDE DEF k, l
    <3>3. (d * k) * S = 1 + (d * l) * t  BY <2>1, <3>2
    <3>4. (d * k) * S = d * (k * S) /\ (d * l) * t = d * (l * t)  BY <1>2, <3>2
    <3>5. d * (k * S - l * t) = d * (k * S) - d * (l * t)  BY <1>2, <3>2
    <3>6. k * S - l * t \in Int  BY <1>2, <3>2
    <3>7. k * S \in Int /\ l * t \in Int  BY <1>2, <3>2
    <3>8. d * (k * S) \in Int /\ d * (l * t) \in Int  BY <3>7
    <3>9. d * (k * S - l * t) = 1  BY <3>3, <3>4, <3>5, <3>8
    <3> QED  BY <3>1, <3>6, <3>9, NoUnit
  <2>3. Coprime(a, m)  BY <2>2 DEF Coprime
  <2>4. IsInverse(IF S < 0 THEN S + m ELSE S, a, m)
    BY <1>2, <1>3, <2>1, LastCofactor
  <2> QED  BY <2>3, <2>4
<1>7. ASSUME R # 1 PROVE ~Coprime(a, m)
  <2>1. R \in Nat \ {0} /\ 0 \in 0..(R - 1)  BY <1>2, <1>5
  <2>2. v \in Int /\ v >= 1
    <3>1. v # 0
      <4> SUFFICES ASSUME v = 0 PROVE FALSE  OBVIOUS
      <4>1. R * 0 = 0  BY <1>2
      <4> QED  BY <1>4, <4>1
    <3> QED  BY <3>1
  <2>3. m >= R  BY <1>4, <2>1, <2>2, Multiple
  <2>4. (0 + R * x) % R = 0 /\ (0 + R * v) % R = 0  BY <2>1, <2>2, Remainder
  <2>5. 0 + R * x = a /\ 0 + R * v = m  BY <1>4
  <2>6. a % R = 0 /\ m % R = 0  BY <2>4, <2>5
  <2>7. R \in 2..m  BY <1>7, <2>1, <2>3
  <2> QED  BY <2>6, <2>7 DEF Coprime
<1> QED
  BY <1>6, <1>7 DEF R, S

-----------------------------------------------------------------------------
\* readSettings loads the members one after the other; the first time there is
\* nothing in them before.
MembersRead ==
  /\ loaded.inv # Unset \/ page \in {"off", "mod", "inv", "divide"} => loaded.mult \in Words
  /\ loaded.inv # Unset \/ page \in {"mod", "inv", "divide"} => loaded.off \in Words
  /\ loaded.inv # Unset \/ page \in {"inv", "divide"} => loaded.mod \in Moduli

\* The loop runs on the members that were just loaded.
LoopInv == page = "divide" => Cofactors(loaded.mult, loaded.mod, euclid)

IInv == TypeOK /\ MembersRead /\ LoopInv /\ InverseExact /\ DecryptedRight

\* A modulus is a number above 1, and a word.
LEMMA ModulusBounds ==
  ASSUME NEW m \in Moduli
  PROVE m \in Nat \ {0} /\ m >= 2 /\ m <= MaxLong /\ m \in Words
  BY Bounds DEF Moduli, Words

\* currentMod - 1 is a word.
LEMMA LastBelowModWord == TypeOK => LastBelowMod \in Words
<1> SUFFICES ASSUME TypeOK PROVE LastBelowMod \in Words
  OBVIOUS
<1> DEFINE n == OrElse(stored.mod, 0) - 1
<1>1. n \in Int
  BY Bounds DEF OrElse, TypeOK, Moduli
<1>2. Word \in Nat \ {0}
  BY KeypadAssumption DEF KeypadAssumption
<1> HIDE DEF n
<1>3. n % Word \in 0..(Word - 1)
  BY <1>1, <1>2, Division
<1> QED
  BY <1>3 DEF LastBelowMod, Words, n

\* decryptKeypadCode gives a number.
LEMMA DecryptNumber ==
  ASSUME TypeOK, loaded.inv # Unset, MembersRead, NEW n \in Int
  PROVE Decrypt(n, loaded) \in Nat
<1> DEFINE m == loaded.mod
           w == (n - loaded.off) % Word
           s == w % m
<1>1. m \in Nat \ {0} /\ loaded.off \in Int /\ loaded.inv \in Int
  BY ModulusBounds, Bounds DEF TypeOK, MembersRead, Words
<1>2. Word \in Nat \ {0}
  BY KeypadAssumption DEF KeypadAssumption
<1>3. w \in Int
  <2>1. n - loaded.off \in Int  BY <1>1
  <2> QED  BY <1>2, <2>1, Division
<1> HIDE DEF w
<1>4. s \in Int
  BY <1>1, <1>3, Division
<1>5. (s * loaded.inv) % m \in 0..(m - 1)
  <2> HIDE DEF s, m
  <2>1. s * loaded.inv \in Int  BY <1>1, <1>4
  <2> QED  BY <1>1, <2>1, Division
<1> QED
  BY <1>1, <1>5 DEF Decrypt, Shifted, s, w

\* The encrypted code is a number, also when the client's settings are not those
\* of the bridge.
LEMMA EncryptNumber ==
  ASSUME TypeOK, NEW code \in Nat
  PROVE Formula(code, Shown) \in Int /\ Encrypt(code, Shown) \in Int
<1> DEFINE m == Shown.mod
           n == code * Shown.mult + Shown.off
<1>1. m \in Nat \ {0} /\ Shown.mult \in Int /\ Shown.off \in Int
  BY KeypadAssumption, Bounds DEF KeypadAssumption, TypeOK, Shown, OrElse, Moduli, Words
<1>2. n \in Int /\ Word \in Nat \ {0}
  BY <1>1, KeypadAssumption DEF KeypadAssumption
<1> HIDE DEF m, n
<1>3. ASSUME NEW k \in Int PROVE (k % m) + m \in Int
  BY <1>1, <1>3, Division
<1>4. ASSUME NEW k \in Int PROVE k % Word \in Int
  BY <1>2, <1>4, Division
<1>5. Formula(code, Shown) \in Int
  BY <1>2, <1>3 DEF Formula, m, n
<1>6. Encrypt(code, Shown) \in Int
  <2>1. n % Word \in Int  BY <1>2, <1>4
  <2>2. ((n % Word) % m) + m \in Int  BY <2>1, <1>3
  <2>3. (((n % Word) % m) + m) % Word \in Int  BY <2>2, <1>4
  <2> QED  BY <2>3 DEF Encrypt, m, n
<1> QED
  BY <1>5, <1>6

-----------------------------------------------------------------------------
\* The loop's invariant, its bounds and the inverse it loads.
LEMMA StartKeeps == IInv /\ StartInverse => IInv'
<1> SUFFICES ASSUME IInv, StartInverse PROVE IInv'
  OBVIOUS
<1> USE DEF IInv
<1>1. /\ page' = "divide" /\ page = "inv" /\ command' = NoCommand /\ stored' = stored
      /\ loaded' = loaded
      /\ euclid' = [oldR |-> loaded.mult, r |-> loaded.mod, oldS |-> 1, s |-> 0]
  BY DEF StartInverse, Begin
<1>2. loaded.mult \in Words /\ loaded.mod \in Words /\ loaded.mult \in Nat /\ loaded.mod \in Nat
  BY <1>1, Bounds, ModulusBounds DEF MembersRead, Words
<1>3. Cofactors(loaded.mult, loaded.mod, euclid')
  BY <1>1, <1>2, CofactorsStart
<1>4. TypeOK'
  <2>1. 1 \in -MaxLong..MaxLong /\ 0 \in -MaxLong..MaxLong
    BY Bounds DEF Moduli
  <2> QED  BY <1>1, <1>2, <2>1 DEF TypeOK, NoCommand
<1>5. MembersRead' /\ InverseExact' /\ DecryptedRight'
  BY <1>1 DEF MembersRead, InverseExact, Reloading, DecryptedRight, NoCommand
<1> QED
  BY <1>1, <1>3, <1>4, <1>5 DEF LoopInv

LEMMA DivideKeeps == IInv /\ Divide => IInv'
<1> SUFFICES ASSUME IInv, Divide PROVE IInv'
  OBVIOUS
<1> USE DEF IInv
<1> DEFINE a == loaded.mult
           m == loaded.mod
           f == euclid'
<1>1. /\ page = "divide" /\ euclid.r # 0 /\ command' = NoCommand
      /\ stored' = stored /\ loaded' = loaded /\ page' = page
      /\ f = [oldR |-> euclid.r,
              r |-> euclid.oldR - (euclid.oldR \div euclid.r) * euclid.r,
              oldS |-> euclid.s,
              s |-> euclid.oldS - (euclid.oldR \div euclid.r) * euclid.s]
  BY DEF Divide
<1>2. a \in Nat /\ m \in Nat \ {0} /\ m <= MaxLong /\ m \in Nat
  BY <1>1, Bounds, ModulusBounds DEF MembersRead, Words
<1>3. euclid.oldR \in Nat /\ euclid.r \in Nat /\ euclid.r \in Words
  BY Bounds DEF TypeOK, Words
<1>4. Cofactors(a, m, euclid)
  BY <1>1 DEF LoopInv
<1>5. /\ f.oldR = euclid.r
      /\ f.r = euclid.oldR - (euclid.oldR \div euclid.r) * euclid.r
      /\ f.oldS = euclid.s
      /\ f.s = euclid.oldS - (euclid.oldR \div euclid.r) * euclid.s
  BY <1>1
<1>6. f = [oldR |-> f.oldR, r |-> f.r, oldS |-> f.oldS, s |-> f.s]
  BY <1>1
<1> HIDE DEF f, a, m
<1>7. Cofactors(a, m, f) /\ f.r \in Nat /\ f.r < f.oldR
  BY <1>1, <1>2, <1>3, <1>4, <1>5, CofactorsKept
<1>8. f.oldS \in (-m)..m /\ f.s \in (-m)..m
  BY <1>2, <1>3, <1>5, <1>7, CofactorsBounded
<1>9. TypeOK'
  <2>1. f.oldR \in Words /\ f.r \in Words
    BY <1>3, <1>5, <1>7, Bounds DEF Words
  <2>2. f.oldS \in -MaxLong..MaxLong /\ f.s \in -MaxLong..MaxLong
    BY <1>2, <1>8, Bounds
  <2>3. f \in [oldR : Words, r : Words, oldS : -MaxLong..MaxLong, s : -MaxLong..MaxLong]
    BY <1>6, <2>1, <2>2
  <2> QED  BY <1>1, <2>3 DEF TypeOK, NoCommand, f
<1>10. MembersRead' /\ InverseExact' /\ DecryptedRight'
  BY <1>1 DEF MembersRead, InverseExact, Reloading, DecryptedRight, NoCommand
<1> QED
  BY <1>1, <1>7, <1>9, <1>10 DEF LoopInv, a, m, f

LEMMA LoadInvKeeps == IInv /\ LoadInv => IInv'
<1> SUFFICES ASSUME IInv, LoadInv PROVE IInv'
  OBVIOUS
<1> USE DEF IInv
<1> DEFINE a == loaded.mult
           m == loaded.mod
<1>1. /\ page = "divide" /\ euclid.r = 0 /\ command' = NoCommand
      /\ stored' = stored /\ page' = "idle" /\ euclid' = euclid
      /\ loaded' = [loaded EXCEPT !["inv"] = Inverse]
  BY DEF LoadInv, Load
<1>2. a \in Nat /\ m \in Nat \ {0} /\ m >= 2 /\ m <= MaxLong /\ m \in Nat /\ m \in Moduli
  BY <1>1, Bounds, ModulusBounds DEF MembersRead, Words
<1>3. euclid.oldR \in Nat /\ euclid.oldS \in Int
  BY Bounds DEF TypeOK, Words
<1>4. /\ euclid.oldR = 1 => /\ Coprime(a, m)
                            /\ IsInverse(IF euclid.oldS < 0 THEN euclid.oldS + m
                                         ELSE euclid.oldS, a, m)
      /\ euclid.oldR # 1 => ~Coprime(a, m)
  BY <1>1, <1>2, <1>3, LoopEnd DEF LoopInv
<1>5. /\ loaded'.mod = m /\ loaded'.mult = a /\ loaded'.off = loaded.off
      /\ loaded'.inv = Inverse
      /\ loaded' = [mod |-> m, mult |-> a, off |-> loaded.off, inv |-> Inverse]
  BY <1>1 DEF TypeOK
<1>6. IF Coprime(a, m) THEN IsInverse(Inverse, a, m) ELSE Inverse = 0
  <2>1. CASE euclid.oldR # 1  BY <1>4, <2>1 DEF Inverse
  <2>2. CASE euclid.oldR = 1
    <3>1. Inverse = IF euclid.oldS < 0 THEN euclid.oldS + m ELSE euclid.oldS
      BY <1>3, <2>2 DEF Inverse
    <3> QED  BY <1>4, <2>2, <3>1
  <2> QED  BY <2>1, <2>2
<1>7. Inverse \in Words /\ Inverse # Unset
  <2>1. Inverse = 0 \/ Inverse \in 1..(m - 1)  BY <1>6 DEF IsInverse
  <2> QED  BY <1>2, <2>1, Bounds DEF Words
<1>8. TypeOK'
  BY <1>1, <1>5, <1>7 DEF TypeOK, NoCommand
<1>9. MembersRead' /\ LoopInv' /\ DecryptedRight'
  BY <1>1, <1>2, <1>5 DEF MembersRead, LoopInv, DecryptedRight, NoCommand
<1>10. InverseExact'
  BY <1>5, <1>6 DEF InverseExact
<1> QED
  BY <1>8, <1>9, <1>10

-----------------------------------------------------------------------------
\* The settings page stores words and moduli, and touches nothing else.
LEMMA PageKeeps == IInv /\ (OpenPage \/ SaveMod \/ SaveMult \/ SaveOff) => IInv'
<1> SUFFICES ASSUME IInv, OpenPage \/ SaveMod \/ SaveMult \/ SaveOff PROVE IInv'
  OBVIOUS
<1> USE DEF IInv
<1>1. /\ loaded' = loaded /\ euclid' = euclid /\ command' = NoCommand
      /\ page \in {"idle", "KPMOD", "KPMULT", "KPOFF"}
      /\ page' \in {"KPMOD", "KPMULT", "KPOFF", "mult"}
  BY DEF OpenPage, SaveMod, SaveMult, SaveOff, Save
<1>2. stored' \in [mod : Moduli \cup {Unset}, mult : Words \cup {Unset},
                   off : Words \cup {Unset}]
  <2>1. CASE OpenPage  BY <2>1 DEF OpenPage, TypeOK
  <2>2. CASE SaveMod  BY <2>2 DEF SaveMod, Save, TypeOK, Moduli
  <2>3. CASE SaveMult
    <3>1. 2..LastBelowMod \subseteq Words  BY LastBelowModWord, Bounds DEF Words
    <3> QED  BY <2>3, <3>1 DEF SaveMult, Save, TypeOK
  <2>4. CASE SaveOff
    <3>1. 1..LastBelowMod \subseteq Words  BY LastBelowModWord, Bounds DEF Words
    <3> QED  BY <2>4, <3>1 DEF SaveOff, Save, TypeOK
  <2> QED  BY <2>1, <2>2, <2>3, <2>4
<1>3. TypeOK'
  BY <1>1, <1>2 DEF TypeOK, NoCommand
<1>4. MembersRead' /\ LoopInv' /\ InverseExact' /\ DecryptedRight'
  BY <1>1 DEF MembersRead, LoopInv, InverseExact, Reloading, DecryptedRight, NoCommand
<1> QED
  BY <1>3, <1>4

\* readSettings copies words and moduli, one after the other.
LEMMA LoadKeeps == IInv /\ (LoadMult \/ LoadOff \/ LoadMod) => IInv'
<1> SUFFICES ASSUME IInv, LoadMult \/ LoadOff \/ LoadMod PROVE IInv'
  OBVIOUS
<1> USE DEF IInv
<1>1. /\ stored' = stored /\ euclid' = euclid /\ command' = NoCommand
      /\ page' \in {"off", "mod", "inv"}
  BY DEF LoadMult, LoadOff, LoadMod, Load
<1>2. /\ OrElse(stored.mult, DefaultMult) \in Words
      /\ OrElse(stored.off, DefaultOff) \in Words
      /\ OrElse(stored.mod, HighCode) \in Moduli
  BY Bounds DEF OrElse, TypeOK
<1>3. /\ loaded' \in [mod : Moduli \cup {Unset}, mult : Words \cup {Unset},
                      off : Words \cup {Unset}, inv : Words \cup {Unset}]
      /\ MembersRead'
  <2>1. CASE LoadMult
    BY <1>2, <2>1 DEF LoadMult, Load, TypeOK, MembersRead
  <2>2. CASE LoadOff
    BY <1>2, <2>2 DEF LoadOff, Load, TypeOK, MembersRead
  <2>3. CASE LoadMod
    BY <1>2, <2>3 DEF LoadMod, Load, TypeOK, MembersRead
  <2> QED  BY <2>1, <2>2, <2>3
<1>4. TypeOK' /\ LoopInv' /\ InverseExact' /\ DecryptedRight'
  BY <1>1, <1>3 DEF TypeOK, LoopInv, InverseExact, Reloading, DecryptedRight, NoCommand
<1> QED
  BY <1>3, <1>4

\* A command with agreed settings decrypts to its code; any command leaves the
\* settings alone.
LEMMA AddKeeps == IInv /\ Add => IInv'
<1> SUFFICES ASSUME IInv, Add PROVE IInv'
  OBVIOUS
<1> USE DEF IInv
<1>1. PICK code \in Codes : \/ Received(code, Formula(code, Shown), TRUE)
                            \/ Received(code, Encrypt(code, Shown), Fits(code, Shown))
  BY DEF Add
<1>2. /\ loaded.inv # Unset /\ stored' = stored /\ loaded' = loaded
      /\ page' = page /\ euclid' = euclid
  BY DEF Add
<1>3. code \in Nat
  BY Bounds DEF Codes, Moduli
<1>4. ASSUME Agreed(code)
      PROVE /\ Decrypt(ToInt(Formula(code, Shown)), loaded) = code
            /\ Fits(code, Shown) => Encrypt(code, Shown) = Formula(code, Shown)
  <2>1. Shown = [mod |-> loaded.mod, mult |-> loaded.mult, off |-> loaded.off]
    BY <1>4 DEF Agreed, Shown
  <2>2. /\ loaded.off < loaded.mod /\ 2 * loaded.mod <= MaxLong /\ code < loaded.mod
        /\ IsInverse(loaded.inv, loaded.mult, loaded.mod)
    BY <1>2, <1>4 DEF Agreed, InverseExact
  <2>3. loaded.mod \in Nat \ {0} /\ loaded.mult \in Nat /\ loaded.off \in Nat
    BY <1>2, ModulusBounds, Bounds DEF MembersRead, Words
  <2>4. Formula(code, Shown) = Formula(code, loaded)
    BY <2>1 DEF Formula
  <2>5. Decrypt(ToInt(Formula(code, loaded)), loaded) = code
    BY <1>3, <2>2, <2>3, DecryptFormula
  <2>6. /\ Shown.mod \in Nat \ {0} /\ Shown.mult \in Nat /\ Shown.off \in Nat
        /\ 2 * Shown.mod <= MaxLong
    BY <2>1, <2>2, <2>3
  <2>7. Fits(code, Shown) => Encrypt(code, Shown) = Formula(code, Shown)
    BY <1>3, <2>6, EncryptIsFormula
  <2> QED  BY <2>4, <2>5, <2>7
<1>5. PICK text \in Int, due \in BOOLEAN :
        /\ Received(code, text, due)
        /\ Agreed(code) /\ due => Decrypt(ToInt(text), loaded) = code
  <2>1. Fits(code, Shown) \in BOOLEAN
    BY DEF Fits
  <2>2. CASE Received(code, Formula(code, Shown), TRUE)
    BY <1>3, <1>4, <2>2, EncryptNumber
  <2>3. CASE Received(code, Encrypt(code, Shown), Fits(code, Shown))
    BY <1>3, <1>4, <2>1, <2>3, EncryptNumber
  <2> QED  BY <1>1, <2>2, <2>3
<1>6. command' = [code |-> code, agreed |-> Agreed(code) /\ due,
                  codeInt |-> Decrypt(ToInt(text), loaded),
                  answer |-> Answer(text, Decrypt(ToInt(text), loaded))]
  BY <1>5 DEF Received
<1>7. Decrypt(ToInt(text), loaded) \in Nat
  <2>1. ToInt(text) \in Int  BY Bounds DEF ToInt
  <2> QED  BY <1>2, <2>1, DecryptNumber
<1>8. (Agreed(code) /\ due) \in BOOLEAN
  BY DEF Agreed
<1>9. ASSUME NEW n \in Nat
      PROVE Answer(text, n) \in {"none", "added", "MissingParameterCode", "CodeInvalid"}
  BY <1>9 DEF Answer
<1>10. TypeOK'
  BY <1>2, <1>3, <1>6, <1>7, <1>8, <1>9 DEF TypeOK
<1>11. DecryptedRight'
  BY <1>5, <1>6 DEF DecryptedRight
<1>12. MembersRead' /\ LoopInv' /\ InverseExact'
  BY <1>2 DEF MembersRead, LoopInv, InverseExact, Reloading
<1> QED
  BY <1>10, <1>11, <1>12

LEMMA StepKeeps == IInv /\ [Next]_vars => IInv'
<1>1. IInv /\ UNCHANGED vars => IInv'
  BY DEF IInv, TypeOK, MembersRead, LoopInv, InverseExact, Reloading, DecryptedRight, vars
<1> QED
  BY <1>1, PageKeeps, LoadKeeps, StartKeeps, DivideKeeps, LoadInvKeeps, AddKeeps DEF Next

LEMMA InitHolds == Init => IInv
<1> SUFFICES ASSUME Init PROVE IInv
  OBVIOUS
<1>1. 0 \in Words /\ 0 \in -MaxLong..MaxLong
  <2>1. Word \in Nat \ {0}  BY KeypadAssumption DEF KeypadAssumption
  <2> QED  BY <2>1, Bounds DEF Words
<1> QED
  BY <1>1 DEF Init, IInv, TypeOK, MembersRead, LoopInv, InverseExact, DecryptedRight, NoCommand

LEMMA Inductive == Spec => []IInv
  BY InitHolds, StepKeeps, PTL DEF Spec

\* The settings have their types, and no cofactor of modInverse leaves the modulus,
\* so that its 64 bits are enough for every pair of words.
THEOREM SettingsTyped == Spec => []TypeOK
<1>1. IInv => TypeOK
  BY DEF IInv
<1> QED
  BY <1>1, Inductive, PTL

\* modInverse finds the inverse exactly if there is one: for every multiplier and
\* every modulus, once readSettings is done.
THEOREM InverseFound == Spec => []InverseExact
<1>1. IInv => InverseExact
  BY DEF IInv
<1> QED
  BY <1>1, Inductive, PTL

\* A code below the modulus, encrypted and decrypted with the same valid settings,
\* is the code again, in whatever order pages and commands came: encrypted by the
\* README's formula always, by encryptKeypadCode while its product fits the word.
THEOREM CodesRecovered == Spec => []DecryptedRight
<1>1. IInv => DecryptedRight
  BY DEF IInv
<1> QED
  BY <1>1, Inductive, PTL
=============================================================================
