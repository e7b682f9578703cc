---------------------------- MODULE AddressProofs ----------------------------
(***************************************************************************)
(* Texts of keys and addresses, for any length: EncodeBase58BTC and        *)
(* DecodeBase58 are exact and inverse to each other (module Base58).  And  *)
(* whom a transaction pays, for all wallets, addresses and any number of   *)
(* inputs (module Payment, at the end).                                    *)
(***************************************************************************)
EXTENDS Base58, Payment, WellFoundedInduction, TLAPS

-----------------------------------------------------------------------------
(* Induction and recursion on numbers.                                     *)

\* A set of natural numbers has a smallest one.
LEMMA Smallest ==
    ASSUME NEW T, T \subseteq Nat, T # {}
    PROVE  \E x \in T : \A y \in T : x <= y
<1>1. PICK R : R = OpToRel(<, Nat) /\ IsWellFoundedOn(R, Nat) BY NatLessThanWellFounded
<1>2. PICK x \in T : \A y \in T : ~(<<y, x>> \in R) BY <1>1, WFMin
<1>3. \A y \in Nat : y < x => <<y, x>> \in R BY <1>1 DEF OpToRel
<1>4. ASSUME NEW y \in T PROVE x <= y
  <2>1. ~(y < x) BY <1>2, <1>3
  <2> QED BY <2>1
<1> QED BY <1>4

\* A bounded one has a largest.
LEMMA Largest ==
    ASSUME NEW n \in Nat, NEW T, T \subseteq 0 .. n, T # {}
    PROVE  \E x \in T : \A y \in T : y <= x
<1> DEFINE U == {n - x : x \in T}
<1>1. PICK u \in U : \A v \in U : u <= v
  <2>1. ASSUME NEW x \in T PROVE n - x \in Nat
    <3>1. x \in 0 .. n OBVIOUS
    <3> QED BY <3>1
  <2>2. U \subseteq Nat BY <2>1
  <2>3. U # {}
    <3>1. PICK x : x \in T OBVIOUS
    <3>2. n - x \in U BY <3>1
    <3> QED BY <3>2
  <2> HIDE DEF U
  <2> QED BY <2>2, <2>3, Smallest
<1>2. PICK x \in T : u = n - x OBVIOUS
<1>3. ASSUME NEW y \in T PROVE y <= x
  <2>1. n - y \in U OBVIOUS
  <2>2. n - x <= n - y BY <1>1, <1>2, <2>1
  <2>3. x \in Nat /\ y \in Nat OBVIOUS
  <2> QED BY <2>2, <2>3
<1> QED BY <1>3

\* What holds for 0 and passes from k to k + 1 holds for all.
LEMMA Always ==
    ASSUME NEW P, 0 \in P, \A k \in Nat : k \in P => k + 1 \in P
    PROVE  Nat \subseteq P
<1> DEFINE T == Nat \ P
<1> SUFFICES ASSUME T # {} PROVE FALSE OBVIOUS
<1>1. PICK x \in T : \A y \in T : x <= y
  <2>1. T \subseteq Nat OBVIOUS
  <2> HIDE DEF T
  <2> QED BY <2>1, Smallest
<1>2. x # 0 /\ x - 1 \in Nat OBVIOUS
<1>3. x - 1 \notin T BY <1>1, <1>2
<1>4. x - 1 \in P BY <1>2, <1>3
<1>5. (x - 1) + 1 \in P BY <1>2, <1>4
<1> QED BY <1>5

\* The same up to m.
LEMMA UpTo ==
    ASSUME NEW P, NEW m \in Nat, 0 \in P, \A k \in 0 .. m - 1 : k \in P => k + 1 \in P
    PROVE  0 .. m \subseteq P
<1> DEFINE Q == {k \in Nat : k <= m => k \in P}
<1>1. 0 \in Q OBVIOUS
<1>2. ASSUME NEW k \in Nat, k \in Q PROVE k + 1 \in Q
  <2>1. CASE k + 1 <= m
    <3>1. k \in 0 .. m - 1 /\ k <= m BY <2>1
    <3> QED BY <1>2, <3>1
  <2>2. CASE ~(k + 1 <= m) BY <2>2
  <2> QED BY <2>1, <2>2
<1>3. Nat \subseteq Q
  <2> HIDE DEF Q
  <2> QED BY <1>1, <1>2, Always
<1> QED BY <1>3

\* h runs through the first n steps of g from a.
Runs(h, n, S, a, g) ==
    h \in [0 .. n -> S] /\ h[0] = a /\ \A k \in 0 .. n - 1 : h[k + 1] = g[k][h[k]]

\* There is such an h,
LEMMA RunsExist ==
    ASSUME NEW S, NEW a \in S, NEW g \in [Nat -> [S -> S]], NEW n \in Nat
    PROVE  \E h : Runs(h, n, S, a, g)
<1> DEFINE P == {m \in Nat : \E h : Runs(h, m, S, a, g)}
<1>1. 0 \in P
  <2>1. Runs([k \in 0 .. 0 |-> a], 0, S, a, g) BY DEF Runs
  <2> QED BY <2>1
<1>2. ASSUME NEW m \in Nat, m \in P PROVE m + 1 \in P
  <2>1. PICK h : Runs(h, m, S, a, g) BY <1>2
  <2>2. h \in [0 .. m -> S] /\ h[0] = a /\ \A k \in 0 .. m - 1 : h[k + 1] = g[k][h[k]]
    BY <2>1 DEF Runs
  <2>3. PICK x \in S : x = g[m][h[m]]
    <3>1. h[m] \in S BY <2>2
    <3>2. g[m] \in [S -> S] OBVIOUS
    <3> QED BY <3>1, <3>2
  <2>4. PICK i : i = [k \in 0 .. m + 1 |-> IF k <= m THEN h[k] ELSE x] OBVIOUS
  <2>5. i \in [0 .. m + 1 -> S] BY <2>2, <2>4
  <2>6. i[0] = a BY <2>2, <2>4
  <2>7. ASSUME NEW k \in 0 .. (m + 1) - 1 PROVE i[k + 1] = g[k][i[k]]
    <3>1. k \in 0 .. m + 1 /\ k + 1 \in 0 .. m + 1 /\ k <= m BY <1>2
    <3>2. i[k] = h[k] BY <2>4, <3>1
    <3>3. CASE k = m
      <4>1. ~(m + 1 <= m) OBVIOUS
      <4>2. i[k + 1] = x BY <2>4, <3>1, <3>3, <4>1
      <4> QED BY <2>3, <3>2, <3>3, <4>2
    <3>4. CASE k # m
      <4>1. k \in 0 .. m - 1 /\ k + 1 <= m BY <3>1, <3>4
      <4>2. i[k + 1] = h[k + 1] BY <2>4, <3>1, <4>1
      <4> QED BY <2>2, <3>2, <4>1, <4>2
    <3> QED BY <3>3, <3>4
  <2>8. Runs(i, m + 1, S, a, g) BY <2>5, <2>6, <2>7 DEF Runs
  <2> QED BY <2>8
<1>3. Nat \subseteq P
  <2> HIDE DEF P
  <2> QED BY <1>1, <1>2, Always
<1> QED BY <1>3

\* and a longer one begins like it.
LEMMA RunsAgree ==
    ASSUME NEW S, NEW a, NEW g, NEW n \in Nat, NEW m \in Nat, n <= m,
           NEW h, Runs(h, n, S, a, g), NEW i, Runs(i, m, S, a, g)
    PROVE  \A k \in 0 .. n : h[k] = i[k]
<1> DEFINE P == {k \in 0 .. n : h[k] = i[k]}
<1>1. 0 \in P BY DEF Runs
<1>2. ASSUME NEW k \in 0 .. n - 1, k \in P PROVE k + 1 \in P
  <2>1. k \in 0 .. m - 1 /\ k + 1 \in 0 .. n OBVIOUS
  <2>2. h[k + 1] = g[k][h[k]] /\ i[k + 1] = g[k][i[k]] BY <2>1 DEF Runs
  <2> QED BY <1>2, <2>1, <2>2
<1>3. 0 .. n \subseteq P
  <2> HIDE DEF P
  <2> QED BY <1>1, <1>2, UpTo
<1> QED BY <1>3

\* Recursion: a function that begins with a and goes on by g.
Goes(f, S, a, g) ==
    f \in [Nat -> S] /\ f[0] = a /\ \A k \in Nat : f[k + 1] = g[k][f[k]]

\* There is one.
LEMMA Recursion ==
    ASSUME NEW S, NEW a \in S, NEW g \in [Nat -> [S -> S]]
    PROVE  \E f : Goes(f, S, a, g)
<1> DEFINE h(n) == CHOOSE h : Runs(h, n, S, a, g)
           f == [n \in Nat |-> h(n)[n]]
<1>1. ASSUME NEW n \in Nat PROVE Runs(h(n), n, S, a, g)
  <2>1. \E i : Runs(i, n, S, a, g) BY RunsExist
  <2> QED BY <2>1, Zenon
<1> HIDE DEF h
<1>2. ASSUME NEW n \in Nat PROVE h(n)[n] \in S BY <1>1 DEF Runs
<1>3. f \in [Nat -> S] BY <1>2
<1>4. f[0] = a
  <2>1. h(0)[0] = a BY <1>1 DEF Runs
  <2> QED BY <2>1
<1>5. ASSUME NEW k \in Nat PROVE f[k + 1] = g[k][f[k]]
  <2>1. k \in 0 .. (k + 1) - 1 /\ k \in 0 .. k /\ k <= k + 1 /\ k + 1 \in Nat OBVIOUS
  <2>2. Runs(h(k), k, S, a, g) /\ Runs(h(k + 1), k + 1, S, a, g) BY <1>1, <2>1
  <2>3. h(k)[k] = h(k + 1)[k] BY <2>1, <2>2, RunsAgree
  <2>4. h(k + 1)[k + 1] = g[k][h(k + 1)[k]] BY <2>1, <2>2 DEF Runs
  <2> QED BY <2>1, <2>3, <2>4
<1>6. Goes(f, S, a, g) BY <1>3, <1>4, <1>5 DEF Goes
<1> QED BY <1>6

-----------------------------------------------------------------------------
(* Powers, and the numbers that digits d[1], d[2], ... write to the base b. *)

MulBy(b) == [k \in Nat |-> [x \in Nat |-> x * b]]
Pow(b) == CHOOSE f : Goes(f, Nat, 1, MulBy(b))

\* The highest digit first, as text is read,
HornerBy(d, b) == [k \in Nat |-> [x \in Nat |-> x * b + d[k + 1]]]
Num(d, b) == CHOOSE f : Goes(f, Nat, 0, HornerBy(d, b))

\* and the lowest first, as buf is laid out.
AddsBy(d, b) == [k \in Nat |-> [x \in Nat |-> x + d[k + 1] * Pow(b)[k]]]
Low(d, b) == CHOOSE f : Goes(f, Nat, 0, AddsBy(d, b))

LEMMA PowIs ==
    ASSUME NEW b \in Nat
    PROVE  Pow(b) \in [Nat -> Nat] /\ Pow(b)[0] = 1 /\ \A k \in Nat : Pow(b)[k + 1] = Pow(b)[k] * b
<1>1. MulBy(b) \in [Nat -> [Nat -> Nat]] BY DEF MulBy
<1>2. \E f : Goes(f, Nat, 1, MulBy(b)) BY <1>1, Recursion
<1>3. Goes(Pow(b), Nat, 1, MulBy(b)) BY <1>2, Zenon DEF Pow
<1>4. Pow(b) \in [Nat -> Nat] /\ Pow(b)[0] = 1 /\ \A k \in Nat : Pow(b)[k + 1] = MulBy(b)[k][Pow(b)[k]]
  BY <1>3 DEF Goes
<1>5. ASSUME NEW k \in Nat PROVE Pow(b)[k + 1] = Pow(b)[k] * b
  <2>1. PICK x \in Nat : x = Pow(b)[k] BY <1>4
  <2>2. MulBy(b)[k][x] = x * b BY DEF MulBy
  <2> QED BY <1>4, <2>1, <2>2
<1> QED BY <1>4, <1>5

LEMMA NumIs ==
    ASSUME NEW b \in Nat, NEW d \in [Nat -> Nat]
    PROVE  /\ Num(d, b) \in [Nat -> Nat] /\ Num(d, b)[0] = 0
           /\ \A k \in Nat : Num(d, b)[k + 1] = Num(d, b)[k] * b + d[k + 1]
<1>0. ASSUME NEW k \in Nat PROVE d[k + 1] \in Nat OBVIOUS
<1>1. HornerBy(d, b) \in [Nat -> [Nat -> Nat]]
  <2>1. ASSUME NEW k \in Nat PROVE [x \in Nat |-> x * b + d[k + 1]] \in [Nat -> Nat] BY <1>0
  <2> QED BY <2>1 DEF HornerBy
<1>2. \E f : Goes(f, Nat, 0, HornerBy(d, b)) BY <1>1, Recursion
<1>3. Goes(Num(d, b), Nat, 0, HornerBy(d, b)) BY <1>2, Zenon DEF Num
<1>4. /\ Num(d, b) \in [Nat -> Nat] /\ Num(d, b)[0] = 0
      /\ \A k \in Nat : Num(d, b)[k + 1] = HornerBy(d, b)[k][Num(d, b)[k]]
  BY <1>3 DEF Goes
<1>5. ASSUME NEW k \in Nat PROVE Num(d, b)[k + 1] = Num(d, b)[k] * b + d[k + 1]
  <2>1. PICK x \in Nat : x = Num(d, b)[k] BY <1>4
  <2>2. HornerBy(d, b)[k][x] = x * b + d[k + 1] BY DEF HornerBy
  <2> QED BY <1>4, <2>1, <2>2
<1> QED BY <1>4, <1>5

LEMMA LowIs ==
    ASSUME NEW b \in Nat, NEW d \in [Nat -> Nat]
    PROVE  /\ Low(d, b) \in [Nat -> Nat] /\ Low(d, b)[0] = 0
           /\ \A k \in Nat : Low(d, b)[k + 1] = Low(d, b)[k] + d[k + 1] * Pow(b)[k]
<1>0. ASSUME NEW k \in Nat PROVE d[k + 1] * Pow(b)[k] \in Nat
  <2>1. d[k + 1] \in Nat /\ Pow(b)[k] \in Nat BY PowIs
  <2> QED BY <2>1
<1>1. AddsBy(d, b) \in [Nat -> [Nat -> Nat]]
  <2>1. ASSUME NEW k \in Nat PROVE [x \in Nat |-> x + d[k + 1] * Pow(b)[k]] \in [Nat -> Nat] BY <1>0
  <2> QED BY <2>1 DEF AddsBy
<1>2. \E f : Goes(f, Nat, 0, AddsBy(d, b)) BY <1>1, Recursion
<1>3. Goes(Low(d, b), Nat, 0, AddsBy(d, b)) BY <1>2, Zenon DEF Low
<1>4. /\ Low(d, b) \in [Nat -> Nat] /\ Low(d, b)[0] = 0
      /\ \A k \in Nat : Low(d, b)[k + 1] = AddsBy(d, b)[k][Low(d, b)[k]]
  BY <1>3 DEF Goes
<1>5. ASSUME NEW k \in Nat PROVE Low(d, b)[k + 1] = Low(d, b)[k] + d[k + 1] * Pow(b)[k]
  <2>1. PICK x \in Nat : x = Low(d, b)[k] BY <1>4
  <2>2. AddsBy(d, b)[k][x] = x + d[k + 1] * Pow(b)[k] BY DEF AddsBy
  <2> QED BY <1>4, <2>1, <2>2
<1> QED BY <1>4, <1>5

\* A product of powers.
LEMMA PowAdd ==
    ASSUME NEW b \in Nat, NEW m \in Nat
    PROVE  \A n \in Nat : Pow(b)[m + n] = Pow(b)[m] * Pow(b)[n]
<1> DEFINE P == {n \in Nat : Pow(b)[m + n] = Pow(b)[m] * Pow(b)[n]}
<1>0. \A k \in Nat : Pow(b)[k] \in Nat BY PowIs
<1>1. 0 \in P
  <2>1. m + 0 = m /\ Pow(b)[m] \in Nat /\ Pow(b)[0] = 1 BY <1>0, PowIs
  <2> QED BY <2>1
<1>2. ASSUME NEW n \in Nat, n \in P PROVE n + 1 \in P
  <2>1. PICK x \in Nat, y \in Nat : x = Pow(b)[m] /\ y = Pow(b)[n] BY <1>0
  <2>2. Pow(b)[m + n] = x * y BY <1>2, <2>1
  <2>3. Pow(b)[n + 1] = y * b BY <2>1, PowIs
  <2>4. (m + n) + 1 = m + (n + 1) /\ m + n \in Nat OBVIOUS
  <2>5. Pow(b)[m + (n + 1)] = (x * y) * b BY <2>2, <2>4, PowIs
  <2>6. (x * y) * b = x * (y * b) OBVIOUS
  <2> QED BY <2>1, <2>3, <2>5, <2>6
<1>3. Nat \subseteq P
  <2> HIDE DEF P
  <2> QED BY <1>1, <1>2, Always
<1> QED BY <1>3

\* Factors grow a product.
LEMMA MulMono ==
    ASSUME NEW a \in Nat, NEW b \in Nat, NEW c \in Nat, NEW d \in Nat, a <= b, c <= d
    PROVE  a * c <= b * d
<1>1. PICK x \in Nat : b = a + x
  <2>1. b - a \in Nat /\ b = a + (b - a) OBVIOUS
  <2> QED BY <2>1
<1>2. PICK y \in Nat : d = c + y
  <2>1. d - c \in Nat /\ d = c + (d - c) OBVIOUS
  <2> QED BY <2>1
<1>3. b * d = a * c + a * y + x * c + x * y BY <1>1, <1>2
<1>4. a * y \in Nat /\ x * c \in Nat /\ x * y \in Nat /\ a * c \in Nat OBVIOUS
<1> QED BY <1>3, <1>4

\* A power of a base above 0 is above 0, and the powers grow.
LEMMA PowPositive ==
    ASSUME NEW b \in Nat, b # 0
    PROVE  \A k \in Nat : Pow(b)[k] \in Nat /\ 1 <= Pow(b)[k]
<1> DEFINE P == {k \in Nat : Pow(b)[k] \in Nat /\ 1 <= Pow(b)[k]}
<1>1. 0 \in P
  <2>1. Pow(b)[0] = 1 BY PowIs
  <2> QED BY <2>1
<1>2. ASSUME NEW k \in Nat, k \in P PROVE k + 1 \in P
  <2>1. PICK x \in Nat : x = Pow(b)[k] /\ 1 <= x BY <1>2
  <2>2. Pow(b)[k + 1] = x * b BY <2>1, PowIs
  <2>3. 1 * 1 <= x * b /\ x * b \in Nat BY <2>1, MulMono
  <2> QED BY <2>2, <2>3
<1>3. Nat \subseteq P
  <2> HIDE DEF P
  <2> QED BY <1>1, <1>2, Always
<1> QED BY <1>3

LEMMA PowGrows ==
    ASSUME NEW b \in Nat, b # 0, NEW m \in Nat, NEW n \in Nat, m <= n
    PROVE  Pow(b)[m] <= Pow(b)[n]
<1>1. PICK k \in Nat : n = m + k
  <2>1. n - m \in Nat /\ n = m + (n - m) OBVIOUS
  <2> QED BY <2>1
<1>2. PICK x \in Nat, y \in Nat : x = Pow(b)[m] /\ y = Pow(b)[k] /\ 1 <= y BY PowPositive
<1>3. Pow(b)[n] = x * y BY <1>1, <1>2, PowAdd
<1>4. x * 1 <= x * y BY <1>2, MulMono
<1> QED BY <1>2, <1>3, <1>4

\* Digits below the base write a number below its power.
LEMMA NumBound ==
    ASSUME NEW b \in Nat, NEW d \in [Nat -> Nat], NEW n \in Nat, \A k \in 1 .. n : d[k] < b
    PROVE  \A k \in 0 .. n : Num(d, b)[k] < Pow(b)[k]
<1> DEFINE P == {k \in Nat : Num(d, b)[k] < Pow(b)[k]}
<1>0. /\ Num(d, b) \in [Nat -> Nat] /\ Num(d, b)[0] = 0
      /\ \A k \in Nat : Num(d, b)[k + 1] = Num(d, b)[k] * b + d[k + 1]
  BY NumIs
<1>1. 0 \in P
  <2>1. Pow(b)[0] = 1 BY PowIs
  <2> QED BY <1>0, <2>1
<1>2. ASSUME NEW k \in 0 .. n - 1, k \in P PROVE k + 1 \in P
  <2>0. k \in Nat /\ k + 1 \in Nat /\ k + 1 \in 1 .. n OBVIOUS
  <2>1. PICK x \in Nat, y \in Nat, e \in Nat : x = Num(d, b)[k] /\ y = Pow(b)[k] /\ e = d[k + 1]
    <3>1. Num(d, b)[k] \in Nat /\ d[k + 1] \in Nat BY <1>0, <2>0
    <3>2. Pow(b)[k] \in Nat BY <2>0, PowIs
    <3> QED BY <3>1, <3>2
  <2>2. Num(d, b)[k + 1] = x * b + e /\ Pow(b)[k + 1] = y * b
    <3>1. Num(d, b)[k + 1] = x * b + e BY <1>0, <2>0, <2>1
    <3>2. Pow(b)[k + 1] = y * b BY <2>0, <2>1, PowIs
    <3> QED BY <3>1, <3>2
  <2>3. e < b BY <2>0, <2>1
  <2>4. x + 1 <= y BY <1>2, <2>1
  <2>5. (x + 1) * b <= y * b BY <2>4, MulMono
  <2>6. (x + 1) * b = x * b + b OBVIOUS
  <2>7. x * b \in Nat /\ y * b \in Nat OBVIOUS
  <2>8. x * b + e < y * b BY <2>3, <2>5, <2>6, <2>7
  <2> QED BY <2>0, <2>2, <2>8
<1>3. 0 .. n \subseteq P
  <2> HIDE DEF P
  <2> QED BY <1>1, <1>2, UpTo
<1> QED BY <1>3

-----------------------------------------------------------------------------
(* The estimated sizes: n bytes fit into n * 138 / 100 + 1 characters, and *)
(* n characters into n * 733 / 1000 + 1 bytes.                             *)

\* Numbers of m digits to the base b have at most n to the base c.
Fits(b, m, c, n) == Pow(b)[m] <= Pow(c)[n]

LEMMA FitsAdd ==
    ASSUME NEW b \in Nat, NEW m1 \in Nat, NEW m2 \in Nat,
           NEW c \in Nat, NEW n1 \in Nat, NEW n2 \in Nat,
           Fits(b, m1, c, n1), Fits(b, m2, c, n2)
    PROVE  Fits(b, m1 + m2, c, n1 + n2)
<1>1. PICK x1 \in Nat, x2 \in Nat : x1 = Pow(b)[m1] /\ x2 = Pow(b)[m2] BY PowIs
<1>2. PICK y1 \in Nat, y2 \in Nat : y1 = Pow(c)[n1] /\ y2 = Pow(c)[n2] BY PowIs
<1>3. x1 * x2 <= y1 * y2 BY <1>1, <1>2, MulMono DEF Fits
<1>4. Pow(b)[m1 + m2] = x1 * x2 BY <1>1, PowAdd
<1>5. Pow(c)[n1 + n2] = y1 * y2 BY <1>2, PowAdd
<1> QED BY <1>3, <1>4, <1>5 DEF Fits

LEMMA FitsTimes ==
    ASSUME NEW b \in Nat, NEW m \in Nat, NEW c \in Nat, NEW n \in Nat, Fits(b, m, c, n)
    PROVE  \A q \in Nat : Fits(b, m * q, c, n * q)
<1> DEFINE P == {q \in Nat : Fits(b, m * q, c, n * q)}
<1>1. 0 \in P
  <2>1. m * 0 = 0 /\ n * 0 = 0 OBVIOUS
  <2>2. Pow(b)[0] = 1 /\ Pow(c)[0] = 1 BY PowIs
  <2>3. Fits(b, 0, c, 0) BY <2>2 DEF Fits
  <2> QED BY <2>1, <2>3
<1>2. ASSUME NEW q \in Nat, q \in P PROVE q + 1 \in P
  <2>1. m * q \in Nat /\ n * q \in Nat OBVIOUS
  <2>2. Fits(b, m * q + m, c, n * q + n) BY <1>2, <2>1, FitsAdd
  <2>3. m * q + m = m * (q + 1) /\ n * q + n = n * (q + 1) OBVIOUS
  <2> QED BY <2>2, <2>3
<1>3. Nat \subseteq P
  <2> HIDE DEF P
  <2> QED BY <1>1, <1>2, Always
<1> QED BY <1>3

LEMMA FitsMore ==
    ASSUME NEW b \in Nat, NEW m \in Nat, NEW c \in Nat, c # 0, NEW n \in Nat, NEW k \in Nat,
           Fits(b, m, c, n), n <= k
    PROVE  Fits(b, m, c, k)
<1>1. Pow(c)[n] <= Pow(c)[k] BY PowGrows
<1>2. PICK x \in Nat, y \in Nat, z \in Nat : x = Pow(b)[m] /\ y = Pow(c)[n] /\ z = Pow(c)[k] BY PowIs
<1> QED BY <1>1, <1>2 DEF Fits

\* A power is a product of earlier ones.
LEMMA PowOne ==
    ASSUME NEW b \in Nat
    PROVE  Pow(b)[1] = b
<1>1. Pow(b)[0] = 1 /\ Pow(b)[0 + 1] = Pow(b)[0] * b BY PowIs
<1> QED BY <1>1

LEMMA PowProduct ==
    ASSUME NEW b \in Nat, NEW m \in Nat, NEW n \in Nat, NEW k \in Nat, k = m + n,
           NEW x, x = Pow(b)[m], NEW y, y = Pow(b)[n]
    PROVE  \E p \in Nat : p = x * y /\ p = Pow(b)[k]
<1>1. Pow(b)[k] = x * y BY PowAdd
<1>2. Pow(b)[k] \in Nat BY PowIs
<1> QED BY <1>1, <1>2

LEMMA PowSquare ==
    ASSUME NEW b \in Nat, NEW m \in Nat, NEW k \in Nat, k = m + m, NEW x, x = Pow(b)[m]
    PROVE  \E p \in Nat : p = x * x /\ p = Pow(b)[k]
BY PowProduct

\* What a few bytes fit into,
LEMMA FewBytes ==
    Fits(256, 1, 58, 2) /\ Fits(256, 2, 58, 3) /\ Fits(256, 5, 58, 7) /\ Fits(256, 8, 58, 11)
<1>1. PICK a1 \in Nat : a1 = 256 /\ a1 = Pow(256)[1] BY PowOne
<1>2. PICK a2 \in Nat : a2 = a1 * a1 /\ a2 = Pow(256)[2] BY <1>1, PowSquare
<1>3. PICK a4 \in Nat : a4 = a2 * a2 /\ a4 = Pow(256)[4] BY <1>2, PowSquare
<1>4. PICK a5 \in Nat : a5 = a4 * a1 /\ a5 = Pow(256)[5] BY <1>3, <1>1, PowProduct
<1>5. PICK a8 \in Nat : a8 = a4 * a4 /\ a8 = Pow(256)[8] BY <1>3, PowSquare
<1>6. PICK c1 \in Nat : c1 = 58 /\ c1 = Pow(58)[1] BY PowOne
<1>7. PICK c2 \in Nat : c2 = c1 * c1 /\ c2 = Pow(58)[2] BY <1>6, PowSquare
<1>8. PICK c3 \in Nat : c3 = c2 * c1 /\ c3 = Pow(58)[3] BY <1>7, <1>6, PowProduct
<1>9. PICK c4 \in Nat : c4 = c2 * c2 /\ c4 = Pow(58)[4] BY <1>7, PowSquare
<1>10. PICK c7 \in Nat : c7 = c4 * c3 /\ c7 = Pow(58)[7] BY <1>9, <1>8, PowProduct
<1>11. PICK c8 \in Nat : c8 = c4 * c4 /\ c8 = Pow(58)[8] BY <1>9, PowSquare
<1>12. PICK c11 \in Nat : c11 = c8 * c3 /\ c11 = Pow(58)[11] BY <1>11, <1>8, PowProduct
<1>13. /\ a1 = 256 /\ a2 = a1 * a1 /\ a4 = a2 * a2 /\ a5 = a4 * a1 /\ a8 = a4 * a4
      /\ c1 = 58 /\ c2 = c1 * c1 /\ c3 = c2 * c1 /\ c4 = c2 * c2 /\ c7 = c4 * c3
      /\ c8 = c4 * c4 /\ c11 = c8 * c3
  BY <1>1, <1>2, <1>3, <1>4, <1>5, <1>6, <1>7, <1>8, <1>9, <1>10, <1>11, <1>12
<1>14. a1 <= c2 BY <1>13, SMT
<1>15. a2 <= c3 BY <1>13, SMT
<1>16. a5 <= c7 BY <1>13, SMT
<1>17. a8 <= c11 BY <1>13, SMT
<1> QED BY <1>1, <1>2, <1>4, <1>5, <1>7, <1>8, <1>10, <1>12, <1>14, <1>15, <1>16, <1>17 DEF Fits

\* and a few characters.
LEMMA FewCharacters ==
    Fits(58, 1, 256, 1) /\ Fits(58, 4, 256, 3) /\ Fits(58, 15, 256, 11) /\ Fits(58, 71, 256, 52)
<1>1. PICK a1 \in Nat : a1 = 256 /\ a1 = Pow(256)[1] BY PowOne
<1>2. PICK a2 \in Nat : a2 = a1 * a1 /\ a2 = Pow(256)[2] BY <1>1, PowSquare
<1>3. PICK a3 \in Nat : a3 = a2 * a1 /\ a3 = Pow(256)[3] BY <1>2, <1>1, PowProduct
<1>4. PICK a4 \in Nat : a4 = a2 * a2 /\ a4 = Pow(256)[4] BY <1>2, PowSquare
<1>5. PICK a8 \in Nat : a8 = a4 * a4 /\ a8 = Pow(256)[8] BY <1>4, PowSquare
<1>6. PICK a9 \in Nat : a9 = a8 * a1 /\ a9 = Pow(256)[9] BY <1>5, <1>1, PowProduct
<1>7. PICK a11 \in Nat : a11 = a8 * a3 /\ a11 = Pow(256)[11] BY <1>5, <1>3, PowProduct
<1>8. PICK a16 \in Nat : a16 = a8 * a8 /\ a16 = Pow(256)[16] BY <1>5, PowSquare
<1>9. PICK a32 \in Nat : a32 = a16 * a16 /\ a32 = Pow(256)[32] BY <1>8, PowSquare
<1>10. PICK a43 \in Nat : a43 = a32 * a11 /\ a43 = Pow(256)[43] BY <1>9, <1>7, PowProduct
<1>11. PICK a52 \in Nat : a52 = a43 * a9 /\ a52 = Pow(256)[52] BY <1>10, <1>6, PowProduct
<1>12. PICK c1 \in Nat : c1 = 58 /\ c1 = Pow(58)[1] BY PowOne
<1>13. PICK c2 \in Nat : c2 = c1 * c1 /\ c2 = Pow(58)[2] BY <1>12, PowSquare
<1>14. PICK c3 \in Nat : c3 = c2 * c1 /\ c3 = Pow(58)[3] BY <1>13, <1>12, PowProduct
<1>15. PICK c4 \in Nat : c4 = c2 * c2 /\ c4 = Pow(58)[4] BY <1>13, PowSquare
<1>16. PICK c7 \in Nat : c7 = c4 * c3 /\ c7 = Pow(58)[7] BY <1>15, <1>14, PowProduct
<1>17. PICK c8 \in Nat : c8 = c4 * c4 /\ c8 = Pow(58)[8] BY <1>15, PowSquare
<1>18. PICK c15 \in Nat : c15 = c8 * c7 /\ c15 = Pow(58)[15] BY <1>17, <1>16, PowProduct
<1>19. PICK c16 \in Nat : c16 = c8 * c8 /\ c16 = Pow(58)[16] BY <1>17, PowSquare
<1>20. PICK c32 \in Nat : c32 = c16 * c16 /\ c32 = Pow(58)[32] BY <1>19, PowSquare
<1>21. PICK c64 \in Nat : c64 = c32 * c32 /\ c64 = Pow(58)[64] BY <1>20, PowSquare
<1>22. PICK c71 \in Nat : c71 = c64 * c7 /\ c71 = Pow(58)[71] BY <1>21, <1>16, PowProduct
<1>23. /\ a1 = 256 /\ a2 = a1 * a1 /\ a3 = a2 * a1 /\ a4 = a2 * a2 /\ a8 = a4 * a4
      /\ a9 = a8 * a1 /\ a11 = a8 * a3 /\ a16 = a8 * a8 /\ a32 = a16 * a16
      /\ a43 = a32 * a11 /\ a52 = a43 * a9 /\ c1 = 58 /\ c2 = c1 * c1 /\ c3 = c2 * c1
      /\ c4 = c2 * c2 /\ c7 = c4 * c3 /\ c8 = c4 * c4 /\ c15 = c8 * c7 /\ c16 = c8 * c8
      /\ c32 = c16 * c16 /\ c64 = c32 * c32 /\ c71 = c64 * c7
  BY <1>1, <1>2, <1>3, <1>4, <1>5, <1>6, <1>7, <1>8, <1>9, <1>10,
     <1>11, <1>12, <1>13, <1>14, <1>15, <1>16, <1>17, <1>18, <1>19, <1>20, <1>21, <1>22
<1>24. c1 <= a1 BY <1>23, SMT
<1>25. c4 <= a3 BY <1>23, SMT
<1>26. c15 <= a11 BY <1>23, SMT
<1>27. c71 <= a52 BY <1>23, SMT
<1> QED BY <1>1, <1>3, <1>7, <1>11, <1>12, <1>15, <1>18, <1>22, <1>24, <1>25, <1>26, <1>27 DEF Fits

\* EncodeBase58BTC's estimate: 8 bytes, 5, 2 and 1 at a time.
LEMMA EncodeSize ==
    ASSUME NEW n \in Nat
    PROVE  Fits(256, n, 58, (n * 138) \div 100 + 1)
<1>1. PICK q \in Nat, u \in Nat, v \in Nat, w \in Nat :
        n = 8 * q + (5 * u + (2 * v + 1 * w)) /\ 10 * u + 24 * v + 62 * w <= 100
  <2>1. PICK q \in Nat, r \in 0 .. 7 : n = 8 * q + r
    <3>1. n \div 8 \in Nat /\ n % 8 \in 0 .. 7 /\ n = 8 * (n \div 8) + (n % 8) OBVIOUS
    <3> QED BY <3>1
  <2>2. \E u \in Nat, v \in Nat, w \in Nat : r = 5 * u + (2 * v + 1 * w) /\ 10 * u + 24 * v + 62 * w <= 100
    <3>1. CASE r = 0 BY <3>1
    <3>2. CASE r = 1 BY <3>2
    <3>3. CASE r = 2 BY <3>3
    <3>4. CASE r = 3 BY <3>4
    <3>5. CASE r = 4 BY <3>5
    <3>6. CASE r = 5 BY <3>6
    <3>7. CASE r = 6 BY <3>7
    <3>8. CASE r = 7 BY <3>8
    <3> QED BY <3>1, <3>2, <3>3, <3>4, <3>5, <3>6, <3>7, <3>8
  <2> QED BY <2>1, <2>2
<1>2. Fits(256, 8 * q, 58, 11 * q) BY FewBytes, FitsTimes
<1>3. Fits(256, 5 * u, 58, 7 * u) BY FewBytes, FitsTimes
<1>4. Fits(256, 2 * v, 58, 3 * v) BY FewBytes, FitsTimes
<1>5. Fits(256, 1 * w, 58, 2 * w) BY FewBytes, FitsTimes
<1>6. Fits(256, 2 * v + 1 * w, 58, 3 * v + 2 * w) BY <1>4, <1>5, FitsAdd
<1>7. Fits(256, 5 * u + (2 * v + 1 * w), 58, 7 * u + (3 * v + 2 * w)) BY <1>3, <1>6, FitsAdd
<1>8. Fits(256, n, 58, 11 * q + (7 * u + (3 * v + 2 * w)))
  <2>1. /\ 8 * q \in Nat /\ 5 * u + (2 * v + 1 * w) \in Nat
        /\ 11 * q \in Nat /\ 7 * u + (3 * v + 2 * w) \in Nat
    OBVIOUS
  <2>2. Fits(256, 8 * q + (5 * u + (2 * v + 1 * w)), 58, 11 * q + (7 * u + (3 * v + 2 * w)))
    BY <1>2, <1>7, <2>1, FitsAdd
  <2> QED BY <1>1, <2>2
<1>9. 11 * q + (7 * u + (3 * v + 2 * w)) <= (n * 138) \div 100 + 1 BY <1>1
<1> QED BY <1>8, <1>9, FitsMore

\* DecodeBase58's: 71 characters, 15, 4 and 1 at a time.
LEMMA DecodeSize ==
    ASSUME NEW n \in Nat
    PROVE  Fits(58, n, 256, (n * 733) \div 1000 + 1)
<1> DEFINE Parts(q, u, v, w) == /\ n = 71 * q + (15 * u + (4 * v + 1 * w))
                                /\ 5 * u + 68 * v + 267 * w <= 1000
<1>1. PICK q \in Nat, u \in Nat, v \in Nat, w \in Nat : Parts(q, u, v, w)
  <2>1. PICK q \in Nat, r \in 0 .. 70 : n = 71 * q + r
    <3>1. n \div 71 \in Nat /\ n % 71 \in 0 .. 70 /\ n = 71 * (n \div 71) + (n % 71) OBVIOUS
    <3> QED BY <3>1
  <2>2. PICK u \in 0 .. 4, t \in 0 .. 14 : r = 15 * u + t
    <3>1. r \div 15 \in 0 .. 4 /\ r % 15 \in 0 .. 14 /\ r = 15 * (r \div 15) + (r % 15) OBVIOUS
    <3> QED BY <3>1
  <2>3. PICK v \in 0 .. 3, w \in 0 .. 3 : t = 4 * v + w
    <3>1. t \div 4 \in 0 .. 3 /\ t % 4 \in 0 .. 3 /\ t = 4 * (t \div 4) + (t % 4) OBVIOUS
    <3> QED BY <3>1
  <2>4. 5 * u + 68 * v + 267 * w <= 1000 BY <2>2, <2>3
  <2>5. n = 71 * q + (15 * u + (4 * v + 1 * w)) BY <2>1, <2>2, <2>3
  <2>6. u \in Nat /\ v \in Nat /\ w \in Nat OBVIOUS
  <2>7. Parts(q, u, v, w) BY <2>4, <2>5
  <2> HIDE DEF Parts
  <2> QED BY <2>6, <2>7, Zenon
<1>2. Fits(58, 71 * q, 256, 52 * q) BY FewCharacters, FitsTimes
<1>3. Fits(58, 15 * u, 256, 11 * u) BY FewCharacters, FitsTimes
<1>4. Fits(58, 4 * v, 256, 3 * v) BY FewCharacters, FitsTimes
<1>5. Fits(58, 1 * w, 256, 1 * w) BY FewCharacters, FitsTimes, ZenonT(60)
<1>6. Fits(58, 4 * v + 1 * w, 256, 3 * v + 1 * w) BY <1>4, <1>5, FitsAdd
<1>7. Fits(58, 15 * u + (4 * v + 1 * w), 256, 11 * u + (3 * v + 1 * w)) BY <1>3, <1>6, FitsAdd, SMTT(30)
<1>8. Fits(58, n, 256, 52 * q + (11 * u + (3 * v + 1 * w)))
  <2>1. /\ 71 * q \in Nat /\ 15 * u + (4 * v + 1 * w) \in Nat
        /\ 52 * q \in Nat /\ 11 * u + (3 * v + 1 * w) \in Nat
    OBVIOUS
  <2>2. Fits(58, 71 * q + (15 * u + (4 * v + 1 * w)), 256, 52 * q + (11 * u + (3 * v + 1 * w)))
    BY <1>2, <1>7, <2>1, FitsAdd
  <2> QED BY <1>1, <2>2
<1>9. 52 * q + (11 * u + (3 * v + 1 * w)) <= (n * 733) \div 1000 + 1 BY <1>1
<1> QED BY <1>8, <1>9, FitsMore

-----------------------------------------------------------------------------
(* Digits.                                                                 *)

\* What has the same digits is the same number.
LEMMA NumSame ==
    ASSUME NEW b \in Nat, NEW d \in [Nat -> Nat], NEW e \in [Nat -> Nat], NEW n \in Nat,
           \A k \in 1 .. n : d[k] = e[k]
    PROVE  \A k \in 0 .. n : Num(d, b)[k] = Num(e, b)[k]
<1> DEFINE P == {k \in Nat : Num(d, b)[k] = Num(e, b)[k]}
<1>1. 0 \in P
  <2>1. Num(d, b)[0] = 0 BY NumIs
  <2>2. Num(e, b)[0] = 0 BY NumIs
  <2> QED BY <2>1, <2>2
<1>2. ASSUME NEW k \in 0 .. n - 1, k \in P PROVE k + 1 \in P
  <2>1. k \in Nat /\ k + 1 \in Nat /\ k + 1 \in 1 .. n OBVIOUS
  <2>2. Num(d, b)[k + 1] = Num(d, b)[k] * b + d[k + 1] BY <2>1, NumIs
  <2>3. Num(e, b)[k + 1] = Num(e, b)[k] * b + e[k + 1] BY <2>1, NumIs
  <2> QED BY <1>2, <2>1, <2>2, <2>3
<1>3. 0 .. n \subseteq P
  <2> HIDE DEF P
  <2> QED BY <1>1, <1>2, UpTo
<1> QED BY <1>3

LEMMA LowSame ==
    ASSUME NEW b \in Nat, NEW d \in [Nat -> Nat], NEW e \in [Nat -> Nat], NEW n \in Nat,
           \A k \in 1 .. n : d[k] = e[k]
    PROVE  \A k \in 0 .. n : Low(d, b)[k] = Low(e, b)[k]
<1> DEFINE P == {k \in Nat : Low(d, b)[k] = Low(e, b)[k]}
<1>1. 0 \in P
  <2>1. Low(d, b)[0] = 0 BY LowIs
  <2>2. Low(e, b)[0] = 0 BY LowIs
  <2> QED BY <2>1, <2>2
<1>2. ASSUME NEW k \in 0 .. n - 1, k \in P PROVE k + 1 \in P
  <2>1. k \in Nat /\ k + 1 \in Nat /\ k + 1 \in 1 .. n OBVIOUS
  <2>2. Low(d, b)[k + 1] = Low(d, b)[k] + d[k + 1] * Pow(b)[k] BY <2>1, LowIs
  <2>3. Low(e, b)[k + 1] = Low(e, b)[k] + e[k + 1] * Pow(b)[k] BY <2>1, LowIs
  <2> QED BY <1>2, <2>1, <2>2, <2>3
<1>3. 0 .. n \subseteq P
  <2> HIDE DEF P
  <2> QED BY <1>1, <1>2, UpTo
<1> QED BY <1>3

\* Zeros above the highest digit add nothing,
ZeroAbove(d, i, n) == \A k \in i + 1 .. n : d[k] = 0

LEMMA LowZeros ==
    ASSUME NEW b \in Nat, NEW d \in [Nat -> Nat], NEW i \in Nat, NEW n \in Nat, i <= n,
           ZeroAbove(d, i, n)
    PROVE  Low(d, b)[n] = Low(d, b)[i]
<1> DEFINE P == {k \in Nat : Low(d, b)[i + k] = Low(d, b)[i]}
<1>0. n - i \in Nat /\ i + (n - i) = n OBVIOUS
<1>1. 0 \in P
  <2>1. i + 0 = i OBVIOUS
  <2> QED BY <2>1
<1>2. ASSUME NEW k \in 0 .. (n - i) - 1, k \in P PROVE k + 1 \in P
  <2>1. i + k \in Nat /\ k + 1 \in Nat /\ (i + k) + 1 \in i + 1 .. n /\ (i + k) + 1 = i + (k + 1) OBVIOUS
  <2>2. Low(d, b)[(i + k) + 1] = Low(d, b)[i + k] + d[(i + k) + 1] * Pow(b)[i + k] BY <2>1, LowIs
  <2>3. d[(i + k) + 1] = 0 BY <2>1 DEF ZeroAbove
  <2>4. Low(d, b)[i + k] \in Nat BY <2>1, LowIs
  <2>5. Pow(b)[i + k] \in Nat BY <2>1, PowIs
  <2>6. Low(d, b)[(i + k) + 1] = Low(d, b)[i + k] BY <2>2, <2>3, <2>4, <2>5
  <2> QED BY <1>2, <2>1, <2>6
<1>3. 0 .. n - i \subseteq P
  <2> HIDE DEF P
  <2> QED BY <1>0, <1>1, <1>2, UpTo
<1>4. n - i \in P BY <1>0, <1>3
<1> QED BY <1>0, <1>4

\* nor do zeros before the first.
LEMMA NumZeros ==
    ASSUME NEW b \in Nat, NEW d \in [Nat -> Nat], NEW n \in Nat, \A k \in 1 .. n : d[k] = 0
    PROVE  \A k \in 0 .. n : Num(d, b)[k] = 0
<1> DEFINE P == {k \in Nat : Num(d, b)[k] = 0}
<1>1. 0 \in P
  <2>1. Num(d, b)[0] = 0 BY NumIs
  <2> QED BY <2>1
<1>2. ASSUME NEW k \in 0 .. n - 1, k \in P PROVE k + 1 \in P
  <2>1. k \in Nat /\ k + 1 \in Nat /\ k + 1 \in 1 .. n OBVIOUS
  <2>2. Num(d, b)[k + 1] = Num(d, b)[k] * b + d[k + 1] BY <2>1, NumIs
  <2>3. d[k + 1] = 0 /\ Num(d, b)[k] = 0 BY <1>2, <2>1
  <2> QED BY <2>1, <2>2, <2>3
<1>3. 0 .. n \subseteq P
  <2> HIDE DEF P
  <2> QED BY <1>1, <1>2, UpTo
<1> QED BY <1>3

AfterZeros(d, z, e, n) == (\A k \in 1 .. z : d[k] = 0) /\ (\A k \in 1 .. n : d[z + k] = e[k])

LEMMA NumAfterZeros ==
    ASSUME NEW b \in Nat, NEW d \in [Nat -> Nat], NEW e \in [Nat -> Nat], NEW z \in Nat, NEW n \in Nat,
           AfterZeros(d, z, e, n)
    PROVE  Num(d, b)[z + n] = Num(e, b)[n]
<1> DEFINE P == {k \in Nat : Num(d, b)[z + k] = Num(e, b)[k]}
<1>1. 0 \in P
  <2>1. Num(d, b)[z] = 0
    <3>1. z \in 0 .. z /\ \A k \in 1 .. z : d[k] = 0 BY DEF AfterZeros
    <3> QED BY <3>1, NumZeros
  <2>2. Num(e, b)[0] = 0 BY NumIs
  <2>3. z + 0 = z OBVIOUS
  <2> QED BY <2>1, <2>2, <2>3
<1>2. ASSUME NEW k \in 0 .. n - 1, k \in P PROVE k + 1 \in P
  <2>1. k \in Nat /\ k + 1 \in Nat /\ k + 1 \in 1 .. n /\ z + k \in Nat /\ (z + k) + 1 = z + (k + 1) OBVIOUS
  <2>2. Num(d, b)[(z + k) + 1] = Num(d, b)[z + k] * b + d[(z + k) + 1] BY <2>1, NumIs
  <2>3. Num(e, b)[k + 1] = Num(e, b)[k] * b + e[k + 1] BY <2>1, NumIs
  <2>4. d[(z + k) + 1] = e[k + 1] BY <2>1 DEF AfterZeros
  <2> QED BY <1>2, <2>1, <2>2, <2>3, <2>4
<1>3. 0 .. n \subseteq P
  <2> HIDE DEF P
  <2> QED BY <1>1, <1>2, UpTo
<1>4. n \in P BY <1>3
<1> QED BY <1>4

\* Digits read backwards are the same number, highest digit first.
Mirrors(e, d, n) == \A k \in 1 .. n : e[k] = d[n - k + 1]

LEMMA Reversed ==
    ASSUME NEW b \in Nat, NEW d \in [Nat -> Nat], NEW e \in [Nat -> Nat], NEW n \in Nat, Mirrors(e, d, n)
    PROVE  Num(e, b)[n] = Low(d, b)[n]
<1> DEFINE P == {k \in Nat : Num(e, b)[k] * Pow(b)[n - k] + Low(d, b)[n - k] = Low(d, b)[n]}
<1>0. /\ \A k \in Nat : Num(e, b)[k] \in Nat
      /\ \A k \in Nat : Low(d, b)[k] \in Nat
      /\ \A k \in Nat : Pow(b)[k] \in Nat
  <2>1. \A k \in Nat : Num(e, b)[k] \in Nat BY NumIs
  <2>2. \A k \in Nat : Low(d, b)[k] \in Nat BY LowIs
  <2>3. \A k \in Nat : Pow(b)[k] \in Nat BY PowIs
  <2> QED BY <2>1, <2>2, <2>3
<1>1. 0 \in P
  <2>1. Num(e, b)[0] = 0 BY NumIs
  <2>2. n - 0 = n OBVIOUS
  <2>3. PICK x \in Nat, y \in Nat : x = Pow(b)[n] /\ y = Low(d, b)[n] BY <1>0
  <2>4. 0 * x + y = y OBVIOUS
  <2> QED BY <2>1, <2>2, <2>3, <2>4
<1>2. ASSUME NEW k \in 0 .. n - 1, k \in P PROVE k + 1 \in P
  <2>1. PICK j \in Nat : j = n - (k + 1) /\ j + 1 = n - k
    <3>1. n - (k + 1) \in Nat /\ (n - (k + 1)) + 1 = n - k OBVIOUS
    <3> QED BY <3>1
  <2>2. k \in Nat /\ k + 1 \in Nat /\ k + 1 \in 1 .. n /\ n - (k + 1) + 1 = j + 1 BY <2>1
  <2>3. PICK u \in Nat, p \in Nat, w \in Nat, c \in Nat :
          u = Num(e, b)[k] /\ p = Pow(b)[j] /\ w = Low(d, b)[j] /\ c = d[j + 1]
    <3>1. d[j + 1] \in Nat OBVIOUS
    <3> QED BY <1>0, <2>2, <3>1
  <2>4. e[k + 1] = c BY <2>2, <2>3 DEF Mirrors
  <2>5. Num(e, b)[k + 1] = u * b + c BY <2>2, <2>3, <2>4, NumIs, SMTT(30)
  <2>6. Pow(b)[j + 1] = p * b BY <2>3, PowIs
  <2>7. Low(d, b)[j + 1] = w + c * p BY <2>3, LowIs
  <2>8. u * (p * b) + (w + c * p) = Low(d, b)[n] BY <1>2, <2>1, <2>3, <2>6, <2>7
  <2>9. (u * b + c) * p + w = u * (p * b) + (w + c * p) OBVIOUS
  <2> QED BY <2>1, <2>2, <2>3, <2>5, <2>8, <2>9
<1>3. 0 .. n \subseteq P
  <2> HIDE DEF P
  <2> QED BY <1>1, <1>2, UpTo
<1>4. n \in P BY <1>3
<1>5. n - n = 0 OBVIOUS
<1>6. Pow(b)[0] = 1 BY PowIs
<1>7. Low(d, b)[0] = 0 BY LowIs
<1>8. PICK x \in Nat : x = Num(e, b)[n] BY <1>0
<1>9. x * 1 + 0 = x OBVIOUS
<1> QED BY <1>4, <1>5, <1>6, <1>7, <1>8, <1>9

\* The inner loop: new = F * old + ch, with carry c[k] into digit k + 1.
MulAdds(new, c, T, F, old, n) ==
    \A k \in 0 .. n - 1 : T * c[k + 1] + new[k + 1] = c[k] + F * old[k + 1]

MulAdded(new, c, T, F, old, n) ==
    \A k \in 0 .. n : Low(new, T)[k] + c[k] * Pow(T)[k] = c[0] + F * Low(old, T)[k]

LEMMA MulAdd ==
    ASSUME NEW T \in Nat, NEW F \in Nat, NEW n \in Nat,
           NEW old \in [Nat -> Nat], NEW new \in [Nat -> Nat], NEW c \in [Nat -> Nat],
           MulAdds(new, c, T, F, old, n)
    PROVE  MulAdded(new, c, T, F, old, n)
<1>6. PICK ch \in Nat : ch = c[0] OBVIOUS
<1> DEFINE P == {k \in Nat : Low(new, T)[k] + c[k] * Pow(T)[k] = ch + F * Low(old, T)[k]}
<1>0. /\ \A k \in Nat : Low(new, T)[k] \in Nat
      /\ \A k \in Nat : Low(old, T)[k] \in Nat
      /\ \A k \in Nat : Pow(T)[k] \in Nat
  <2>1. \A k \in Nat : Low(new, T)[k] \in Nat BY LowIs
  <2>2. \A k \in Nat : Low(old, T)[k] \in Nat BY LowIs
  <2>3. \A k \in Nat : Pow(T)[k] \in Nat BY PowIs
  <2> QED BY <2>1, <2>2, <2>3
<1>4. \A k \in Nat : Low(new, T)[k + 1] = Low(new, T)[k] + new[k + 1] * Pow(T)[k] BY LowIs
<1>5. \A k \in Nat : Low(old, T)[k + 1] = Low(old, T)[k] + old[k + 1] * Pow(T)[k] BY LowIs
<1>1. 0 \in P
  <2>1. Low(new, T)[0] = 0 BY LowIs
  <2>2. Low(old, T)[0] = 0 BY LowIs
  <2>3. Pow(T)[0] = 1 BY PowIs
  <2>4. 0 + ch * 1 = ch + F * 0 OBVIOUS
  <2> QED BY <1>6, <2>1, <2>2, <2>3, <2>4
<1>2. ASSUME NEW k \in 0 .. n - 1, k \in P PROVE k + 1 \in P
  <2>1. k \in Nat /\ k + 1 \in Nat OBVIOUS
  <2>2. PICK u \in Nat, v \in Nat, p \in Nat : u = Low(new, T)[k] /\ v = Low(old, T)[k] /\ p = Pow(T)[k]
    BY <1>0, <2>1
  <2>3. PICK x \in Nat, y \in Nat, a \in Nat, o \in Nat :
          x = c[k] /\ y = c[k + 1] /\ a = new[k + 1] /\ o = old[k + 1]
    <3>1. c[k] \in Nat /\ c[k + 1] \in Nat /\ new[k + 1] \in Nat /\ old[k + 1] \in Nat BY <2>1
    <3> QED BY <3>1
  <2>4. T * y + a = x + F * o BY <2>3 DEF MulAdds
  <2>5. u + x * p = ch + F * v BY <1>2, <2>2, <2>3
  <2>6. Low(new, T)[k + 1] = u + a * p
    BY <1>4, <2>1, <2>2, <2>3
  <2>7. Low(old, T)[k + 1] = v + o * p
    BY <1>5, <2>1, <2>2, <2>3
  <2>8. Pow(T)[k + 1] = p * T BY <2>1, <2>2, PowIs
  <2>9. (T * y + a) * p = (x + F * o) * p BY <2>4
  <2>10. (u + a * p) + y * (p * T) = u + (T * y + a) * p OBVIOUS
  <2>11. u + (x + F * o) * p = (u + x * p) + F * (o * p) OBVIOUS
  <2>12. (ch + F * v) + F * (o * p) = ch + F * (v + o * p) OBVIOUS
  <2>13. (u + a * p) + y * (p * T) = ch + F * (v + o * p) BY <2>5, <2>9, <2>10, <2>11, <2>12
  <2> QED BY <2>1, <2>3, <2>6, <2>7, <2>8, <2>13
<1>3. 0 .. n \subseteq P
  <2> HIDE DEF P
  <2> QED BY <1>1, <1>2, UpTo
<1> QED BY <1>3, <1>6 DEF MulAdded

-----------------------------------------------------------------------------
(* A number has one way of writing it.                                     *)

LEMMA DivMod ==
    ASSUME NEW q \in Nat, NEW R \in Nat \ {0}, NEW r \in 0 .. R - 1
    PROVE  (q * R + r) \div R = q /\ (q * R + r) % R = r
OBVIOUS

LEMMA DivModIs ==
    ASSUME NEW x \in Nat, NEW R \in Nat \ {0}
    PROVE  x \div R \in Nat /\ x % R \in 0 .. R - 1 /\ x = R * (x \div R) + (x % R)
OBVIOUS

\* Below(d, b, n): the first n digits are digits to the base b.
Below(d, b, n) == d \in [Nat -> Nat] /\ \A k \in 1 .. n : d[k] < b

Unique(b, n) ==
    \A d, e : Below(d, b, n) /\ Below(e, b, n) /\ Num(d, b)[n] = Num(e, b)[n]
                => \A k \in 1 .. n : d[k] = e[k]

LEMMA DigitsUnique ==
    ASSUME NEW b \in Nat \ {0}
    PROVE  \A n \in Nat : Unique(b, n)
<1> DEFINE P == {n \in Nat : Unique(b, n)}
<1>1. 0 \in P BY DEF Unique
<1>2. ASSUME NEW n \in Nat, n \in P PROVE n + 1 \in P
  <2> SUFFICES ASSUME NEW d, NEW e, Below(d, b, n + 1), Below(e, b, n + 1),
                      Num(d, b)[n + 1] = Num(e, b)[n + 1]
               PROVE  \A k \in 1 .. n + 1 : d[k] = e[k]
    BY DEF Unique
  <2>1. /\ d \in [Nat -> Nat] /\ \A k \in 1 .. n + 1 : d[k] < b
        /\ e \in [Nat -> Nat] /\ \A k \in 1 .. n + 1 : e[k] < b
    BY DEF Below
  <2>2. n + 1 \in 1 .. n + 1 /\ n + 1 \in Nat /\ b \in Nat OBVIOUS
  <2>3. PICK u \in 0 .. b - 1, v \in 0 .. b - 1 : u = d[n + 1] /\ v = e[n + 1]
    <3>1. d[n + 1] \in 0 .. b - 1 BY <2>1, <2>2
    <3>2. e[n + 1] \in 0 .. b - 1 BY <2>1, <2>2
    <3> QED BY <3>1, <3>2
  <2>4. PICK x \in Nat, y \in Nat : x = Num(d, b)[n] /\ y = Num(e, b)[n]
    <3>1. Num(d, b)[n] \in Nat BY <2>1, <2>2, NumIs
    <3>2. Num(e, b)[n] \in Nat BY <2>1, <2>2, NumIs
    <3> QED BY <3>1, <3>2
  <2>5. x * b + u = y * b + v
    <3>1. Num(d, b)[n + 1] = Num(d, b)[n] * b + d[n + 1] BY <2>1, <2>2, NumIs
    <3>2. Num(e, b)[n + 1] = Num(e, b)[n] * b + e[n + 1] BY <2>1, <2>2, NumIs, SMTT(30)
    <3> QED BY <2>3, <2>4, <3>1, <3>2
  <2>6. x = y /\ u = v
    <3>1. (x * b + u) \div b = x /\ (x * b + u) % b = u BY DivMod
    <3>2. (y * b + v) \div b = y /\ (y * b + v) % b = v BY DivMod
    <3> QED BY <2>5, <3>1, <3>2
  <2>7. Below(d, b, n) /\ Below(e, b, n) BY <2>1 DEF Below
  <2>8. \A k \in 1 .. n : d[k] = e[k] BY <1>2, <2>4, <2>6, <2>7 DEF Unique
  <2>9. ASSUME NEW k \in 1 .. n + 1 PROVE d[k] = e[k]
    <3>1. k = n + 1 \/ k \in 1 .. n OBVIOUS
    <3> QED BY <2>3, <2>6, <2>8, <3>1
  <2> QED BY <2>9
<1>3. Nat \subseteq P
  <2> HIDE DEF P
  <2> QED BY <1>1, <1>2, Always
<1> QED BY <1>3

\* A number whose first digit is not 0 is at least a power.
LEMMA NumAtLeast ==
    ASSUME NEW b \in Nat, NEW d \in [Nat -> Nat], d[1] # 0
    PROVE  \A k \in Nat : Pow(b)[k] <= Num(d, b)[k + 1]
<1> DEFINE P == {k \in Nat : Pow(b)[k] <= Num(d, b)[k + 1]}
<1>1. 0 \in P
  <2>1. Num(d, b)[0] = 0 /\ Num(d, b)[0 + 1] = Num(d, b)[0] * b + d[0 + 1] BY NumIs
  <2>2. Pow(b)[0] = 1 BY PowIs
  <2>3. d[1] \in Nat /\ 1 <= d[1] /\ 0 + 1 = 1 OBVIOUS
  <2>4. Num(d, b)[0 + 1] = d[1] BY <2>1, <2>3
  <2> QED BY <2>2, <2>3, <2>4
<1>2. ASSUME NEW k \in Nat, k \in P PROVE k + 1 \in P
  <2>1. k + 1 \in Nat OBVIOUS
  <2>2. PICK x \in Nat, y \in Nat, c \in Nat : x = Pow(b)[k] /\ y = Num(d, b)[k + 1] /\ c = d[(k + 1) + 1]
    <3>1. Pow(b)[k] \in Nat BY PowIs
    <3>2. Num(d, b)[k + 1] \in Nat BY <2>1, NumIs
    <3>3. d[(k + 1) + 1] \in Nat OBVIOUS
    <3> QED BY <3>1, <3>2, <3>3
  <2>3. Num(d, b)[(k + 1) + 1] = Num(d, b)[k + 1] * b + d[(k + 1) + 1] BY <2>1, NumIs
  <2>4. Pow(b)[k + 1] = x * b BY <2>2, PowIs
  <2>5. x * b <= y * b BY <1>2, <2>2, MulMono
  <2>6. x * b \in Nat /\ y * b \in Nat OBVIOUS
  <2>7. x * b <= y * b + c BY <2>5, <2>6
  <2> QED BY <2>1, <2>2, <2>3, <2>4, <2>7
<1>3. Nat \subseteq P
  <2> HIDE DEF P
  <2> QED BY <1>1, <1>2, Always
<1> QED BY <1>3

\* The longer of two numbers without zeros in front is the larger one.
LEMMA LongerIsLarger ==
    ASSUME NEW b \in Nat \ {0}, NEW m \in Nat, NEW n \in Nat, m < n,
           NEW d, Below(d, b, m), NEW e \in [Nat -> Nat], e[1] # 0
    PROVE  Num(d, b)[m] < Num(e, b)[n]
<1>1. n - 1 \in Nat /\ (n - 1) + 1 = n /\ m <= n - 1 /\ m \in 0 .. m /\ b \in Nat /\ b # 0 OBVIOUS
<1>2. d \in [Nat -> Nat] /\ \A k \in 1 .. m : d[k] < b BY DEF Below
<1>3. Num(d, b)[m] < Pow(b)[m] BY <1>1, <1>2, NumBound
<1>4. Pow(b)[m] <= Pow(b)[n - 1] BY <1>1, PowGrows
<1>5. Pow(b)[n - 1] <= Num(e, b)[n] BY <1>1, NumAtLeast
<1>6. Num(d, b)[m] \in Nat BY <1>1, <1>2, NumIs
<1>7. Num(e, b)[n] \in Nat BY <1>1, NumIs
<1>8. Pow(b)[m] \in Nat /\ Pow(b)[n - 1] \in Nat BY <1>1, PowIs
<1> QED BY <1>3, <1>4, <1>5, <1>6, <1>7, <1>8

LEMMA SameLength ==
    ASSUME NEW b \in Nat \ {0}, NEW m \in Nat, NEW n \in Nat,
           NEW d, Below(d, b, m), m # 0 => d[1] # 0, NEW e, Below(e, b, n), n # 0 => e[1] # 0,
           Num(d, b)[m] = Num(e, b)[n]
    PROVE  m = n
<1>0. d \in [Nat -> Nat] /\ e \in [Nat -> Nat] BY DEF Below
<1>1. Num(d, b)[m] \in Nat BY <1>0, NumIs
<1>2. ~(m < n)
  <2> SUFFICES ASSUME m < n PROVE FALSE OBVIOUS
  <2>1. e[1] # 0 OBVIOUS
  <2>2. Num(d, b)[m] < Num(e, b)[n] BY <1>0, <2>1, LongerIsLarger
  <2> QED BY <1>1, <2>2
<1>3. ~(n < m)
  <2> SUFFICES ASSUME n < m PROVE FALSE OBVIOUS
  <2>1. d[1] # 0 OBVIOUS
  <2>2. Num(e, b)[n] < Num(d, b)[m] BY <1>0, <2>1, LongerIsLarger
  <2> QED BY <1>1, <2>2
<1> QED BY <1>2, <1>3

-----------------------------------------------------------------------------
(* The operators of the model.                                             *)

\* The digits of a text, and no others.
Tot(s) == [k \in Nat |-> IF k \in 1 .. Len(s) THEN s[k] ELSE 0]

LEMMA TotIs ==
    ASSUME NEW s \in Seq(Nat)
    PROVE  /\ Tot(s) \in [Nat -> Nat]
           /\ \A k \in 1 .. Len(s) : Tot(s)[k] = s[k] /\ s[k] \in Nat
           /\ \A k \in Nat : k > Len(s) => Tot(s)[k] = 0
<1>1. Len(s) \in Nat OBVIOUS
<1>2. \A k \in 1 .. Len(s) : s[k] \in Nat OBVIOUS
<1> QED BY <1>1, <1>2 DEF Tot

LEMMA ModStep ==
    ASSUME NEW x \in Nat, NEW b \in Nat, NEW d \in Nat, NEW p \in Nat \ {0}
    PROVE  (x * b + d) % p = ((x % p) * b + d) % p
<1>1. PICK q \in Nat, r \in Nat : r = x % p /\ x = p * q + r
  <2>1. x \div p \in Nat /\ x % p \in 0 .. p - 1 /\ x = p * (x \div p) + (x % p) BY DivModIs
  <2> QED BY <2>1
<1>2. PICK y \in Nat : y = r * b + d OBVIOUS
<1>3. PICK s \in Nat, t \in 0 .. p - 1 : t = y % p /\ y = p * s + t
  <2>1. y \div p \in Nat /\ y % p \in 0 .. p - 1 /\ y = p * (y \div p) + (y % p) BY DivModIs
  <2> QED BY <2>1
<1>4. x * b + d = (q * b + s) * p + t
  <2>1. (p * q + r) * b + d = (q * b) * p + (r * b + d) OBVIOUS
  <2>2. (q * b) * p + (p * s + t) = (q * b + s) * p + t OBVIOUS
  <2> QED BY <1>1, <1>2, <1>3, <2>1, <2>2
<1>5. q * b + s \in Nat OBVIOUS
<1>6. ((q * b + s) * p + t) % p = t BY <1>5, DivMod
<1> QED BY <1>1, <1>2, <1>3, <1>4, <1>6

\* ValueMod computes the number, modulo p.
Mods(v, s, b, p) == v = [k \in 0 .. Len(s) |-> IF k = 0 THEN 0 ELSE (v[k - 1] * b + s[k]) % p]

LEMMA ValueModIs ==
    ASSUME NEW s \in Seq(Nat), NEW b \in Nat, NEW p \in Nat \ {0}
    PROVE  ValueMod(s, b, p) = Num(Tot(s), b)[Len(s)] % p
<1> DEFINE N == Num(Tot(s), b)
           w == [k \in 0 .. Len(s) |-> N[k] % p]
<1>0. Len(s) \in Nat OBVIOUS
<1>1. ValueMod(s, b, p) = (CHOOSE v : Mods(v, s, b, p))[Len(s)] BY DEF ValueMod, Mods
<1>2. N \in [Nat -> Nat] /\ N[0] = 0
  <2>1. Tot(s) \in [Nat -> Nat] BY TotIs
  <2> QED BY <2>1, NumIs
<1>3. ASSUME NEW k \in 1 .. Len(s) PROVE N[k] = N[k - 1] * b + s[k]
  <2>1. Tot(s) \in [Nat -> Nat] /\ Tot(s)[k] = s[k] BY TotIs
  <2>2. k - 1 \in Nat /\ (k - 1) + 1 = k BY <1>0
  <2>3. N[(k - 1) + 1] = N[k - 1] * b + Tot(s)[(k - 1) + 1] BY <2>1, <2>2, NumIs
  <2> QED BY <2>1, <2>2, <2>3
<1> HIDE DEF N
<1>4. ASSUME NEW k \in 1 .. Len(s) PROVE N[k] % p = ((N[k - 1] % p) * b + s[k]) % p
  <2>1. k - 1 \in Nat BY <1>0
  <2>2. PICK x \in Nat, d \in Nat : x = N[k - 1] /\ d = s[k]
    <3>1. N[k - 1] \in Nat BY <1>2, <2>1
    <3>2. s[k] \in Nat BY TotIs
    <3> QED BY <3>1, <3>2
  <2>3. (x * b + d) % p = ((x % p) * b + d) % p BY ModStep, ZenonT(60)
  <2> QED BY <1>3, <2>2, <2>3
<1>5. 0 % p = 0
  <2>1. (0 * p + 0) % p = 0 BY DivMod
  <2> QED BY <2>1
<1>6. Mods(w, s, b, p)
  <2>1. ASSUME NEW k \in 0 .. Len(s)
        PROVE  w[k] = IF k = 0 THEN 0 ELSE (w[k - 1] * b + s[k]) % p
    <3>1. CASE k = 0 BY <1>2, <1>5, <3>1
    <3>2. CASE k # 0
      <4>1. k \in 1 .. Len(s) /\ k - 1 \in 0 .. Len(s) BY <1>0, <3>2
      <4>2. w[k] = N[k] % p /\ w[k - 1] = N[k - 1] % p BY <4>1
      <4> QED BY <1>4, <3>2, <4>1, <4>2
    <3> QED BY <3>1, <3>2
  <2> QED BY <2>1 DEF Mods
<1>7. PICK v : v = CHOOSE x : Mods(x, s, b, p) OBVIOUS
<1>8. Mods(v, s, b, p)
  <2> HIDE DEF w
  <2> QED BY <1>6, <1>7, Zenon
<1>9. /\ v[0] = 0
      /\ \A k \in 1 .. Len(s) : v[k] = (v[k - 1] * b + s[k]) % p
  <2>1. v = [k \in 0 .. Len(s) |-> IF k = 0 THEN 0 ELSE (v[k - 1] * b + s[k]) % p] BY <1>8 DEF Mods
  <2>2. \A k \in 0 .. Len(s) : v[k] = IF k = 0 THEN 0 ELSE (v[k - 1] * b + s[k]) % p BY <2>1
  <2> QED BY <1>0, <2>2
<1> DEFINE P == {k \in 0 .. Len(s) : v[k] = N[k] % p}
<1>10. 0 \in P BY <1>0, <1>2, <1>5, <1>9
<1>11. ASSUME NEW k \in 0 .. Len(s) - 1, k \in P PROVE k + 1 \in P
  <2>1. k + 1 \in 1 .. Len(s) /\ (k + 1) - 1 = k /\ k + 1 \in 0 .. Len(s) BY <1>0
  <2>2. v[k + 1] = (v[(k + 1) - 1] * b + s[k + 1]) % p BY <1>9, <2>1
  <2>3. N[k + 1] % p = ((N[(k + 1) - 1] % p) * b + s[k + 1]) % p BY <1>4, <2>1
  <2> QED BY <1>11, <2>1, <2>2, <2>3
<1>12. 0 .. Len(s) \subseteq P
  <2> HIDE DEF P
  <2> QED BY <1>0, <1>10, <1>11, UpTo
<1>13. v[Len(s)] = N[Len(s)] % p BY <1>0, <1>12
<1> QED BY <1>1, <1>7, <1>13 DEF N

\* The carries of a turn.
Carrying(c, ch, F, T, n, d) ==
    c = [k \in 0 .. n |-> IF k = 0 THEN ch ELSE (c[k - 1] + F * d[k]) \div T]

\* The carries c of old * F + ch, to the base T.
CarriesOf(c, ch, F, T, old, n) ==
    /\ \A k \in 0 .. n : c[k] \in Nat
    /\ c[0] = ch
    /\ \A k \in 1 .. n : c[k] = (c[k - 1] + F * old[k]) \div T

LEMMA CarryingIs ==
    ASSUME NEW ch \in Nat, NEW F \in Nat, NEW T \in Nat \ {0}, NEW n \in Nat,
           NEW d \in Seq(Nat), n = Len(d),
           NEW c, c = CHOOSE x : Carrying(x, ch, F, T, n, d)
    PROVE  CarriesOf(c, ch, F, T, d, n)
<1>0. \A k \in 1 .. n : d[k] \in Nat BY TotIs
<1> DEFINE e == [k \in Nat |-> IF k \in 1 .. n THEN d[k] ELSE 0]
           g == [k \in Nat |-> [x \in Nat |-> (x + F * e[k + 1]) \div T]]
<1>1. e \in [Nat -> Nat] BY <1>0
<1>2. \A k \in 1 .. n : e[k] = d[k] OBVIOUS
<1> HIDE DEF e
<1>3. ASSUME NEW k \in Nat, NEW x \in Nat PROVE (x + F * e[k + 1]) \div T \in Nat
  <2>1. e[k + 1] \in Nat
    <3>1. k + 1 \in Nat OBVIOUS
    <3> QED BY <1>1, <3>1
  <2>2. F * e[k + 1] \in Nat BY <2>1
  <2>3. x + F * e[k + 1] \in Nat BY <2>2
  <2> QED BY <2>3, DivModIs
<1>4. g \in [Nat -> [Nat -> Nat]]
  <2>1. ASSUME NEW k \in Nat PROVE [x \in Nat |-> (x + F * e[k + 1]) \div T] \in [Nat -> Nat] BY <1>3
  <2> QED BY <2>1
<1>5. PICK f : Goes(f, Nat, ch, g)
  <2> HIDE DEF g
  <2> QED BY <1>4, Recursion
<1>6. f \in [Nat -> Nat] /\ f[0] = ch /\ \A k \in Nat : f[k + 1] = g[k][f[k]] BY <1>5 DEF Goes
<1>7. ASSUME NEW k \in 1 .. n PROVE f[k] = (f[k - 1] + F * d[k]) \div T
  <2>1. k - 1 \in Nat /\ (k - 1) + 1 = k OBVIOUS
  <2>2. f[k] = g[k - 1][f[k - 1]] BY <1>6, <2>1
  <2>3. PICK x \in Nat : x = f[k - 1] BY <1>6, <2>1
  <2>4. g[k - 1][x] = (x + F * e[(k - 1) + 1]) \div T BY <2>1
  <2> QED BY <1>2, <2>1, <2>2, <2>3, <2>4
<1> HIDE DEF g
<1> DEFINE h == [k \in 0 .. n |-> f[k]]
<1>8. Carrying(h, ch, F, T, n, d)
  <2>1. ASSUME NEW k \in 0 .. n
        PROVE  h[k] = IF k = 0 THEN ch ELSE (h[k - 1] + F * d[k]) \div T
    <3>1. CASE k = 0 BY <1>6, <3>1
    <3>2. CASE k # 0
      <4>1. k \in 1 .. n /\ k - 1 \in 0 .. n BY <3>2
      <4>2. h[k] = f[k] /\ h[k - 1] = f[k - 1] BY <4>1
      <4> QED BY <1>7, <3>2, <4>1, <4>2
    <3> QED BY <3>1, <3>2
  <2> QED BY <2>1 DEF Carrying
<1>9. Carrying(c, ch, F, T, n, d)
  <2> HIDE DEF h
  <2> QED BY <1>8, Zenon
<1>10. /\ c[0] = ch
       /\ \A k \in 1 .. n : c[k] = (c[k - 1] + F * d[k]) \div T
  <2>1. c = [k \in 0 .. n |-> IF k = 0 THEN ch ELSE (c[k - 1] + F * d[k]) \div T] BY <1>9 DEF Carrying
  <2>2. \A k \in 0 .. n : c[k] = IF k = 0 THEN ch ELSE (c[k - 1] + F * d[k]) \div T BY <2>1
  <2> QED BY <2>2
<1> DEFINE P == {k \in 0 .. n : c[k] \in Nat}
<1>11. 0 \in P BY <1>10
<1>12. ASSUME NEW k \in 0 .. n - 1, k \in P PROVE k + 1 \in P
  <2>1. k + 1 \in 1 .. n /\ (k + 1) - 1 = k /\ k + 1 \in 0 .. n OBVIOUS
  <2>2. PICK x \in Nat, y \in Nat : x = c[k] /\ y = d[k + 1] BY <1>0, <1>12, <2>1
  <2>3. x + F * y \in Nat OBVIOUS
  <2>4. (x + F * y) \div T \in Nat BY <2>3, DivModIs
  <2>5. c[k + 1] = (x + F * y) \div T BY <1>10, <2>1, <2>2
  <2> QED BY <2>1, <2>4, <2>5
<1>13. 0 .. n \subseteq P
  <2> HIDE DEF P
  <2> QED BY <1>11, <1>12, UpTo
<1> QED BY <1>10, <1>13 DEF CarriesOf

-----------------------------------------------------------------------------
(* What is read, and what is refused.                                      *)

LEMMA SeqIs ==
    ASSUME NEW m \in Nat, NEW s \in Seq(0 .. m)
    PROVE  /\ s \in Seq(Nat) /\ Len(s) \in Nat /\ DOMAIN s = 1 .. Len(s)
           /\ \A k \in 1 .. Len(s) : s[k] \in Nat /\ s[k] <= m
<1>1. Len(s) \in Nat /\ DOMAIN s = 1 .. Len(s) OBVIOUS
<1>2. \A k \in 1 .. Len(s) : s[k] \in 0 .. m OBVIOUS
<1>3. \A k \in 1 .. Len(s) : s[k] \in Nat /\ s[k] <= m BY <1>2
<1>4. s \in [1 .. Len(s) -> Nat] BY <1>1, <1>3
<1> QED BY <1>1, <1>3, <1>4

LEMMA TextIs ==
    ASSUME call \in Calls
    PROVE  /\ text \in Seq(Nat) /\ Len(text) \in Nat /\ DOMAIN text = 1 .. Len(text)
           /\ \A k \in 1 .. Len(text) :
                 text[k] \in Nat /\ (encoding => text[k] < 256) /\ (~encoding => text[k] <= Bad)
<1>1. PICK t : t = call.text OBVIOUS
<1>2. CASE call.op = "encode" /\ t \in Seq(0 .. 255)
  <2>1. /\ t \in Seq(Nat) /\ Len(t) \in Nat /\ DOMAIN t = 1 .. Len(t)
        /\ \A k \in 1 .. Len(t) : t[k] \in Nat /\ t[k] <= 255
    BY <1>2, SeqIs, ZenonT(60)
  <2>2. \A k \in 1 .. Len(t) : t[k] \in Nat /\ t[k] < 256 BY <2>1
  <2>3. encoding BY <1>2 DEF encoding
  <2> QED BY <1>1, <2>1, <2>2, <2>3 DEF text
<1>3. CASE call.op = "decode" /\ t \in Seq(0 .. Bad)
  <2>1. Bad \in Nat BY DEF Bad
  <2>2. /\ t \in Seq(Nat) /\ Len(t) \in Nat /\ DOMAIN t = 1 .. Len(t)
        /\ \A k \in 1 .. Len(t) : t[k] \in Nat /\ t[k] <= Bad
    BY <1>3, <2>1, SeqIs
  <2>3. ~encoding BY <1>3 DEF encoding
  <2> QED BY <1>1, <2>2, <2>3 DEF text
<1> QED BY <1>1, <1>2, <1>3, CallsAssumption

\* s characters of white space, then zeros, then characters that are digits.
Begins(s) ==
    /\ s \in 0 .. pos /\ (encoding => s = 0)
    /\ \A k \in 1 .. s : text[k] = Space
    /\ ~encoding /\ s < Len(text) => text[s + 1] # Space
    /\ zeroes \in 0 .. pos - s
    /\ \A k \in s + 1 .. s + zeroes : text[k] = 0
    /\ \A k \in s + 1 .. pos : text[k] < From
    /\ pc = "zeroes" => pos = s + zeroes
    /\ pc # "zeroes" /\ s + zeroes < Len(text) => text[(s + zeroes) + 1] # 0

\* Why the call is over.
Ends ==
    /\ pc = "done" => IF encoding THEN AtEnd ELSE Trailing
    /\ pc = "refused" => ~encoding /\ (At(Bad) \/ (At(Space) /\ ~Trailing))

ReadInv ==
    /\ call \in Calls
    /\ pc \in {"spaces", "zeroes", "digits", "done", "refused"}
    /\ pos \in 0 .. Len(text)
    /\ pc = "spaces" => ~encoding /\ zeroes = 0 /\ \A k \in 1 .. pos : text[k] = Space
    /\ pc # "spaces" => \E s : Begins(s)
    /\ Ends

LEMMA ReadInit == Init => ReadInv
<1> SUFFICES ASSUME Init PROVE ReadInv OBVIOUS
<1>1. call \in Calls /\ pos = 0 /\ zeroes = 0 /\ (pc = IF encoding THEN "zeroes" ELSE "spaces") BY DEF Init
<1>2. Len(text) \in Nat BY <1>1, TextIs
<1>3. encoding => Begins(0) BY <1>1, <1>2 DEF Begins
<1> QED BY <1>1, <1>2, <1>3 DEF ReadInv, Ends

\* Once the white space is skipped, what has been read stays so.
LEMMA BeginsStays ==
    ASSUME ReadInv, [Next]_vars, pc # "spaces", NEW s, Begins(s)
    PROVE  Begins(s)'
<1>0. call' = call
  BY DEF Next, vars, SkipSpaces, SkipZeroes, Digit, BadCharacter, Finish, Refuse, Terminated
<1>1. text' = text /\ encoding' = encoding /\ From' = From BY <1>0 DEF text, encoding, From
<1>2. /\ text \in Seq(Nat) /\ Len(text) \in Nat
      /\ \A k \in 1 .. Len(text) :
            text[k] \in Nat /\ (encoding => text[k] < 256) /\ (~encoding => text[k] <= Bad)
  BY TextIs DEF ReadInv
<1>3. pos \in 0 .. Len(text) BY DEF ReadInv
<1>4. Space = 58 /\ Bad = 59 /\ From = (IF encoding THEN 256 ELSE 58) BY DEF Space, Bad, From
<1> HIDE DEF text, encoding, From, Space, Bad
<1>5. CASE SkipZeroes
  <2>0. pc = "zeroes" BY <1>5 DEF SkipZeroes
  <2>1. CASE At(0) /\ pos' = pos + 1 /\ zeroes' = zeroes + 1 /\ pc' = pc
    <3>1. text[pos + 1] = 0 BY <2>1 DEF At, AtEnd, Next1
    <3>2. pos = s + zeroes /\ s \in Nat /\ zeroes \in Nat /\ pos \in Nat BY <1>2, <1>3, <2>0 DEF Begins
    <3>3. ASSUME NEW k \in s + 1 .. s + (zeroes + 1) PROVE text[k] = 0
      <4>1. k = pos + 1 \/ k \in s + 1 .. s + zeroes BY <3>2
      <4> QED BY <3>1, <4>1 DEF Begins
    <3>4. \A k \in s + 1 .. pos + 1 : text[k] < From
      <4>1. 0 < From BY <1>4
      <4>2. pos + 1 = s + (zeroes + 1) BY <3>2
      <4> QED BY <3>3, <4>1, <4>2
    <3>5. zeroes + 1 \in 0 .. (pos + 1) - s /\ s \in 0 .. pos + 1 /\ pos + 1 = s + (zeroes + 1) BY <3>2
    <3> QED BY <1>1, <2>0, <2>1, <3>3, <3>4, <3>5 DEF Begins
  <2>2. CASE ~At(0) /\ pc' = "digits" /\ pos' = pos /\ zeroes' = zeroes
    <3>1. pos < Len(text) => text[pos + 1] # 0 BY <1>2, <1>3, <2>2 DEF At, AtEnd, Next1
    <3> QED BY <1>1, <1>2, <1>3, <2>0, <2>2, <3>1 DEF Begins
  <2> QED BY <1>5, <2>1, <2>2 DEF SkipZeroes
<1>6. CASE Digit
  <2>0. /\ pc = "digits" /\ pc' = pc /\ zeroes' = zeroes /\ pos' = pos + 1
        /\ ~AtEnd /\ (encoding \/ Next1 < Space)
    BY <1>6 DEF Digit
  <2>1. pos + 1 \in 1 .. Len(text) BY <1>2, <1>3, <2>0 DEF AtEnd
  <2>2. text[pos + 1] < From BY <1>2, <1>4, <2>0, <2>1 DEF Next1
  <2> QED BY <1>1, <1>2, <1>3, <2>0, <2>1, <2>2 DEF Begins
<1>7. CASE BadCharacter \/ Finish
  <2>1. pc = "digits" /\ pc' # "zeroes" /\ zeroes' = zeroes /\ pos' = pos
    BY <1>7 DEF BadCharacter, Finish, Refuse
  <2> QED BY <1>1, <2>1 DEF Begins
<1>8. CASE Terminated \/ UNCHANGED vars
  <2>1. UNCHANGED vars BY <1>8 DEF Terminated
  <2>2. UNCHANGED <<pc, pos, zeroes>> BY <2>1 DEF vars
  <2> QED BY <1>1, <2>2 DEF Begins
<1>9. ~SkipSpaces BY DEF SkipSpaces
<1> QED BY <1>5, <1>6, <1>7, <1>8, <1>9 DEF Next

LEMMA ReadStep == ReadInv /\ [Next]_vars => ReadInv'
<1> SUFFICES ASSUME ReadInv, [Next]_vars PROVE ReadInv' OBVIOUS
<1>0. call' = call
  BY DEF Next, vars, SkipSpaces, SkipZeroes, Digit, BadCharacter, Finish, Refuse, Terminated
<1>1. text' = text /\ encoding' = encoding BY <1>0 DEF text, encoding
<1>2. Len(text) \in Nat BY TextIs DEF ReadInv
<1>3. /\ call \in Calls /\ pos \in 0 .. Len(text)
      /\ pc = "spaces" => ~encoding /\ zeroes = 0 /\ \A k \in 1 .. pos : text[k] = Space
      /\ pc # "spaces" => \E s : Begins(s)
      /\ Ends
  BY DEF ReadInv
<1>4. pc # "spaces" => \E s : Begins(s)' BY <1>3, BeginsStays
<1> HIDE DEF text, encoding, Space, Bad
<1>5. CASE SkipSpaces
  <2>1. pc = "spaces" /\ zeroes' = zeroes BY <1>5 DEF SkipSpaces
  <2>2. CASE At(Space) /\ pos' = pos + 1 /\ pc' = pc
    <3>1. pos + 1 \in 0 .. Len(text) /\ text[pos + 1] = Space BY <1>2, <1>3, <2>2 DEF At, AtEnd, Next1
    <3>2. \A k \in 1 .. pos + 1 : text[k] = Space
      <4>1. \A k \in 1 .. pos + 1 : k = pos + 1 \/ k \in 1 .. pos BY <1>3
      <4> QED BY <1>3, <2>1, <3>1, <4>1
    <3> QED BY <1>0, <1>1, <1>3, <2>1, <2>2, <3>1, <3>2 DEF ReadInv, Ends
  <2>3. CASE ~At(Space) /\ pc' = "zeroes" /\ pos' = pos
    <3>1. pos < Len(text) => text[pos + 1] # Space BY <1>2, <1>3, <2>3 DEF At, AtEnd, Next1
    <3>2. Begins(pos)'
      BY <1>1, <1>2, <1>3, <2>1, <2>3, <3>1 DEF Begins
    <3> QED BY <1>0, <1>1, <1>3, <2>3, <3>2 DEF ReadInv, Ends
  <2> QED BY <1>5, <2>2, <2>3 DEF SkipSpaces
<1>6. CASE SkipZeroes
  <2>1. pc = "zeroes" /\ pc' \in {"zeroes", "digits"} /\ pos' \in {pos, pos + 1} /\ (pos' # pos => ~AtEnd)
    BY <1>6 DEF SkipZeroes, At
  <2>2. pos' \in 0 .. Len(text) BY <1>2, <1>3, <2>1 DEF AtEnd
  <2> QED BY <1>0, <1>1, <1>3, <1>4, <2>1, <2>2 DEF ReadInv, Ends
<1>7. CASE Digit
  <2>1. pc = "digits" /\ pc' = pc /\ pos' = pos + 1 /\ ~AtEnd BY <1>7 DEF Digit
  <2>2. pos' \in 0 .. Len(text) BY <1>2, <1>3, <2>1 DEF AtEnd
  <2> QED BY <1>0, <1>1, <1>3, <1>4, <2>1, <2>2 DEF ReadInv, Ends
<1>8. CASE BadCharacter
  <2>1. pc = "digits" /\ pc' = "refused" /\ pos' = pos /\ ~encoding /\ At(Bad)
    BY <1>8 DEF BadCharacter, Refuse
  <2>2. At(Bad)' BY <1>1, <2>1 DEF At, AtEnd, Next1, Bad
  <2> QED BY <1>0, <1>1, <1>3, <1>4, <2>1, <2>2 DEF ReadInv, Ends
<1>9. CASE Finish
  <2>1. /\ pc = "digits" /\ pos' = pos
        /\ IF encoding THEN AtEnd ELSE AtEnd \/ At(Space)
        /\ \/ ~encoding /\ ~Trailing /\ pc' = "refused"
           \/ (encoding \/ Trailing) /\ pc' = "done"
    BY <1>9 DEF Finish, Refuse
  <2>2. Trailing' = Trailing /\ At(Space)' = At(Space) /\ AtEnd' = AtEnd
    BY <1>1, <2>1 DEF Trailing, At, AtEnd, Next1, Space
  <2>3. AtEnd => Trailing BY <1>2 DEF AtEnd, Trailing
  <2>4. Ends' BY <1>1, <2>1, <2>2, <2>3 DEF Ends
  <2> QED BY <1>0, <1>1, <1>3, <1>4, <2>1, <2>4 DEF ReadInv
<1>10. CASE Terminated \/ UNCHANGED vars
  <2>1. UNCHANGED vars BY <1>10 DEF Terminated
  <2>2. UNCHANGED <<call, pc, pos, zeroes>> BY <2>1 DEF vars
  <2>3. Ends'
    BY <1>1, <1>3, <2>2 DEF Ends, Trailing, At, AtEnd, Next1, Space, Bad
  <2> QED BY <1>0, <1>1, <1>3, <1>4, <2>2, <2>3 DEF ReadInv
<1> QED BY <1>5, <1>6, <1>7, <1>8, <1>9, <1>10 DEF Next

\* What a call that is over has read is well formed or not.
LEMMA ReadRefuses == ReadInv => RefusesExactly
<1> SUFFICES ASSUME ReadInv, ~encoding, pc \in {"done", "refused"} PROVE pc = "done" <=> WellFormed
  BY DEF RefusesExactly
<1>1. /\ Len(text) \in Nat /\ DOMAIN text = 1 .. Len(text)
      /\ \A k \in 1 .. Len(text) : text[k] \in Nat /\ text[k] <= Bad
  BY TextIs DEF ReadInv
<1>2. PICK s : Begins(s) BY DEF ReadInv
<1>3. /\ s \in Nat /\ pos \in 0 .. Len(text) /\ s <= pos
      /\ \A k \in 1 .. s : text[k] = 58
      /\ s < Len(text) => text[s + 1] # 58
      /\ \A k \in s + 1 .. pos : text[k] < 58
  BY <1>2 DEF ReadInv, Begins, Space, From
<1>4. CASE pc = "done"
  <2>1. \A k \in pos + 1 .. Len(text) : text[k] = 58 BY <1>4 DEF ReadInv, Ends, Trailing, Space
  <2>2. ASSUME NEW k \in 1 .. Len(text) PROVE text[k] # 59 /\ (text[k] < 58 <=> k \in s + 1 .. pos)
    <3>1. k \in 1 .. s \/ k \in s + 1 .. pos \/ k \in pos + 1 .. Len(text) BY <1>1, <1>3
    <3>2. text[k] \in Nat BY <1>1
    <3>3. CASE k \in s + 1 .. pos BY <1>3, <3>2, <3>3
    <3>4. CASE k \notin s + 1 .. pos
      <4>1. text[k] = 58 BY <1>3, <2>1, <3>1, <3>4
      <4> QED BY <3>4, <4>1
    <3> QED BY <3>3, <3>4
  <2>3. ASSUME NEW j \in 1 .. Len(text), NEW k \in 1 .. Len(text), j < k, text[j] < 58, text[k] < 58,
               NEW i \in j .. k
        PROVE  text[i] < 58
    <3>1. j \in s + 1 .. pos /\ k \in s + 1 .. pos BY <2>2, <2>3
    <3>2. i \in s + 1 .. pos BY <1>3, <3>1
    <3> QED BY <1>3, <3>2
  <2> QED BY <1>1, <1>4, <2>2, <2>3 DEF WellFormed, Space, Bad
<1>5. CASE pc = "refused"
  <2>1. At(Bad) \/ (At(Space) /\ ~Trailing) BY <1>5 DEF ReadInv, Ends
  <2>2. pos + 1 \in 1 .. Len(text)
    <3>1. pos # Len(text) BY <2>1 DEF At, AtEnd
    <3>2. Len(text) \in Nat BY <1>1
    <3>3. pos \in 0 .. Len(text) BY <1>3
    <3> QED BY <3>1, <3>2, <3>3
  <2>3. CASE text[pos + 1] = 59 BY <1>1, <1>5, <2>2, <2>3 DEF WellFormed, Bad
  <2>4. CASE text[pos + 1] = 58 /\ ~Trailing
    <3>1. PICK k \in pos + 1 .. Len(text) : text[k] # 58 BY <2>4 DEF Trailing, Space
    <3>2. k \in 1 .. Len(text) /\ pos < k BY <1>1, <1>3, <3>1
    <3>3. text[k] = 59 \/ text[k] < 58 BY <1>1, <3>1, <3>2 DEF Bad
    <3>4. CASE text[k] = 59 BY <1>1, <1>5, <3>2, <3>4 DEF WellFormed, Bad
    <3>5. CASE text[k] < 58
      <4>1. s # pos BY <1>1, <1>3, <2>2, <2>4
      <4>2. pos \in s + 1 .. pos /\ pos \in 1 .. Len(text) BY <1>1, <1>3, <4>1
      <4>3. text[pos] < 58 BY <1>3, <4>2
      <4>4. pos + 1 \in pos .. k BY <1>1, <1>3, <3>2
      <4>5. ~(text[pos + 1] < 58) BY <2>4
      <4> QED BY <1>1, <1>5, <3>2, <3>5, <4>2, <4>3, <4>4, <4>5 DEF WellFormed, Space
    <3> QED BY <3>3, <3>4, <3>5
  <2> QED BY <2>1, <2>3, <2>4 DEF At, Next1, Space, Bad
<1> QED BY <1>4, <1>5

-----------------------------------------------------------------------------
(* One turn of the inner loop.                                             *)

\* The digits that the turn would write if it went through all of the buffer.
Written(c, F, T, d, n) == [k \in 1 .. n |-> (c[k - 1] + F * d[k]) % T]

LEMMA WrittenIs ==
    ASSUME NEW F \in Nat, NEW T \in Nat \ {0}, NEW n \in Nat,
           NEW old \in Seq(Nat), Len(old) = n, NEW ch, NEW c, CarriesOf(c, ch, F, T, old, n)
    PROVE  /\ Written(c, F, T, old, n) \in Seq(0 .. T - 1)
           /\ Len(Written(c, F, T, old, n)) = n
           /\ \A k \in 1 .. n : /\ Written(c, F, T, old, n)[k] = (c[k - 1] + F * old[k]) % T
                                /\ T * c[k] + Written(c, F, T, old, n)[k] = c[k - 1] + F * old[k]
<1> DEFINE w == Written(c, F, T, old, n)
<1>1. ASSUME NEW k \in 1 .. n
      PROVE  /\ (c[k - 1] + F * old[k]) % T \in 0 .. T - 1
             /\ T * c[k] + ((c[k - 1] + F * old[k]) % T) = c[k - 1] + F * old[k]
  <2>1. PICK x \in Nat, y \in Nat : x = c[k - 1] /\ y = old[k]
    <3>1. k - 1 \in 0 .. n OBVIOUS
    <3>2. c[k - 1] \in Nat BY <3>1 DEF CarriesOf
    <3>3. old[k] \in Nat BY TotIs
    <3> QED BY <3>2, <3>3
  <2>2. x + F * y \in Nat OBVIOUS
  <2>3. /\ (x + F * y) % T \in 0 .. T - 1
        /\ x + F * y = T * ((x + F * y) \div T) + ((x + F * y) % T)
    BY <2>2, DivModIs
  <2>4. c[k] = (x + F * y) \div T BY <2>1 DEF CarriesOf
  <2> QED BY <2>1, <2>3, <2>4
<1>2. \A k \in 1 .. n : w[k] = (c[k - 1] + F * old[k]) % T BY DEF Written
<1>3. w \in [1 .. n -> 0 .. T - 1] BY <1>1 DEF Written
<1>4. w \in Seq(0 .. T - 1) /\ Len(w) = n BY <1>3
<1> HIDE DEF w
<1>5. \A k \in 1 .. n : T * c[k] + w[k] = c[k - 1] + F * old[k] BY <1>1, <1>2
<1> QED BY <1>2, <1>4, <1>5 DEF w

\* It is worth old * F + ch, if nothing is carried out of the buffer.
LEMMA WrittenValue ==
    ASSUME NEW F \in Nat, NEW T \in Nat \ {0}, NEW n \in Nat,
           NEW old \in Seq(Nat), Len(old) = n, NEW ch \in Nat, NEW c, CarriesOf(c, ch, F, T, old, n)
    PROVE  Low(Tot(Written(c, F, T, old, n)), T)[n] + c[n] * Pow(T)[n] = ch + F * Low(Tot(old), T)[n]
<1> DEFINE w == Written(c, F, T, old, n)
           e == [k \in Nat |-> IF k \in 0 .. n THEN c[k] ELSE 0]
<1>1. w \in Seq(0 .. T - 1) /\ Len(w) = n BY WrittenIs
<1>2. \A k \in 1 .. n : T * c[k] + w[k] = c[k - 1] + F * old[k] BY WrittenIs
<1> HIDE DEF w
<1>3. w \in Seq(Nat)
  <2>1. T - 1 \in Nat OBVIOUS
  <2> QED BY <1>1, <2>1, SeqIs
<1>4. Tot(w) \in [Nat -> Nat] /\ \A k \in 1 .. n : Tot(w)[k] = w[k] BY <1>1, <1>3, TotIs
<1>5. Tot(old) \in [Nat -> Nat] /\ \A k \in 1 .. n : Tot(old)[k] = old[k] BY TotIs
<1>6. e \in [Nat -> Nat] /\ e[0] = ch /\ \A k \in 0 .. n : e[k] = c[k] BY DEF CarriesOf
<1> HIDE DEF e
<1>7. ASSUME NEW k \in 0 .. n - 1 PROVE T * e[k + 1] + Tot(w)[k + 1] = e[k] + F * Tot(old)[k + 1]
  <2>1. k + 1 \in 1 .. n /\ (k + 1) - 1 = k /\ k \in 0 .. n /\ k + 1 \in 0 .. n OBVIOUS
  <2>2. T * c[k + 1] + w[k + 1] = c[(k + 1) - 1] + F * old[k + 1] BY <1>2, <2>1
  <2> QED BY <1>4, <1>5, <1>6, <2>1, <2>2
<1>8. PICK a \in [Nat -> Nat], b \in [Nat -> Nat] : a = Tot(w) /\ b = Tot(old) BY <1>4, <1>5
<1>9. MulAdds(a, e, T, F, b, n) BY <1>7, <1>8 DEF MulAdds
<1>10. MulAdded(a, e, T, F, b, n)
  <2>1. T \in Nat OBVIOUS
  <2> QED BY <1>6, <1>9, <2>1, MulAdd
<1>11. n \in 0 .. n OBVIOUS
<1>12. Low(a, T)[n] + e[n] * Pow(T)[n] = e[0] + F * Low(b, T)[n] BY <1>10, <1>11 DEF MulAdded
<1> QED BY <1>6, <1>8, <1>11, <1>12 DEF w

Balanced(x, y, v, p, g, ch, F) == y = x * F + ch /\ v + g * p = ch + F * x /\ y < p

LEMMA NoCarry ==
    ASSUME NEW x \in Nat, NEW y \in Nat, NEW v \in Nat, NEW p \in Nat, NEW g \in Nat,
           NEW ch \in Nat, NEW F \in Nat,
           Balanced(x, y, v, p, g, ch, F)
    PROVE  g = 0 /\ v = y
<1>0. y < p BY DEF Balanced
<1>1. v + g * p = y BY DEF Balanced
<1>2. g = 0
  <2> SUFFICES ASSUME 1 <= g PROVE FALSE OBVIOUS
  <2>1. 1 * p <= g * p BY MulMono
  <2>2. PICK q \in Nat : q = g * p OBVIOUS
  <2>3. v + q = y /\ p <= q BY <1>1, <2>1, <2>2
  <2> QED BY <1>0, <2>3
<1>3. g * p = 0 BY <1>2
<1> QED BY <1>1, <1>2, <1>3

\* Nothing is: j + 1 <= m digits fit into the buffer.
LEMMA OneDigit ==
    ASSUME NEW F \in Nat, F # 0, NEW T \in Nat \ {0}, NEW n \in Nat, NEW m \in Nat, Fits(F, m, T, n),
           NEW d, NEW j \in Nat, j + 1 <= m, Below(d, F, j + 1),
           NEW old \in Seq(Nat), Len(old) = n, Low(Tot(old), T)[n] = Num(d, F)[j],
           NEW c, CarriesOf(c, d[j + 1], F, T, old, n)
    PROVE  c[n] = 0 /\ Low(Tot(Written(c, F, T, old, n)), T)[n] = Num(d, F)[j + 1]
<1>0. d \in [Nat -> Nat] /\ \A k \in 1 .. j + 1 : d[k] < F BY DEF Below
<1>1. j + 1 \in Nat /\ j + 1 \in 0 .. j + 1 /\ T \in Nat OBVIOUS
<1>2. PICK x \in Nat, y \in Nat, ch \in Nat :
        x = Num(d, F)[j] /\ y = Num(d, F)[j + 1] /\ ch = d[j + 1] /\ y = x * F + ch
  <2>1. Num(d, F) \in [Nat -> Nat] /\ Num(d, F)[j + 1] = Num(d, F)[j] * F + d[j + 1]
    BY <1>0, <1>1, NumIs, ZenonT(60)
  <2>2. Num(d, F)[j] \in Nat /\ Num(d, F)[j + 1] \in Nat /\ d[j + 1] \in Nat BY <1>0, <1>1, <2>1
  <2> QED BY <2>1, <2>2
<1>3. PICK v \in Nat, p \in Nat, g \in Nat :
        v = Low(Tot(Written(c, F, T, old, n)), T)[n] /\ p = Pow(T)[n] /\ g = c[n]
  <2>1. Written(c, F, T, old, n) \in Seq(0 .. T - 1) BY <1>1, WrittenIs
  <2>2. T - 1 \in Nat OBVIOUS
  <2>3. Written(c, F, T, old, n) \in Seq(Nat) BY <2>1, <2>2, SeqIs
  <2>4. Tot(Written(c, F, T, old, n)) \in [Nat -> Nat] BY <2>3, TotIs
  <2>5. Low(Tot(Written(c, F, T, old, n)), T)[n] \in Nat
    <3>1. PICK w \in [Nat -> Nat] : w = Tot(Written(c, F, T, old, n)) BY <2>4
    <3>2. Low(w, T) \in [Nat -> Nat] BY <1>1, LowIs
    <3>3. Low(w, T)[n] \in Nat BY <3>2
    <3> QED BY <3>1, <3>3
  <2>6. Pow(T)[n] \in Nat BY <1>1, PowIs
  <2>7. c[n] \in Nat BY DEF CarriesOf
  <2> QED BY <2>5, <2>6, <2>7
<1>4. v + g * p = ch + F * x
  <2>1. Low(Tot(Written(c, F, T, old, n)), T)[n] + c[n] * Pow(T)[n] = ch + F * Low(Tot(old), T)[n]
    BY <1>2, WrittenValue
  <2> QED BY <1>2, <1>3, <2>1
<1>5. y < p
  <2>1. Num(d, F)[j + 1] < Pow(F)[j + 1] BY <1>0, <1>1, NumBound
  <2>2. Pow(F)[j + 1] <= Pow(F)[m] BY <1>1, PowGrows
  <2>3. Pow(F)[m] <= Pow(T)[n] BY DEF Fits
  <2>4. PICK a \in Nat, b \in Nat : a = Pow(F)[j + 1] /\ b = Pow(F)[m] BY <1>1, PowIs, ZenonT(60)
  <2>5. y < a /\ a <= b /\ b <= p BY <1>2, <1>3, <2>1, <2>2, <2>3, <2>4
  <2> QED BY <2>5
<1>6. g = 0 /\ v = y
  <2>1. Balanced(x, y, v, p, g, ch, F) BY <1>2, <1>4, <1>5 DEF Balanced
  <2> QED BY <2>1, NoCarry
<1> QED BY <1>2, <1>3, <1>6

\* Above the digits in use, once nothing is carried, there is nothing to write.
LEMMA NothingAbove ==
    ASSUME NEW F \in Nat, NEW T \in Nat \ {0}, NEW n \in Nat, NEW i \in 0 .. n,
           NEW old, ZeroAbove(old, i, n),
           NEW ch, NEW c, CarriesOf(c, ch, F, T, old, n), c[i] = 0
    PROVE  ZeroAbove(Written(c, F, T, old, n), i, n)
<1>0. (0 + F * 0) \div T = 0 /\ (0 + F * 0) % T = 0
  <2>1. 0 + F * 0 = 0 * T + 0 OBVIOUS
  <2>2. (0 * T + 0) \div T = 0 /\ (0 * T + 0) % T = 0 BY DivMod
  <2> QED BY <2>1, <2>2
<1> DEFINE P == {k \in Nat : c[i + k] = 0}
<1>1. 0 \in P
  <2>1. i + 0 = i OBVIOUS
  <2> QED BY <2>1
<1>2. ASSUME NEW k \in 0 .. (n - i) - 1, k \in P PROVE k + 1 \in P
  <2>1. /\ i + (k + 1) \in i + 1 .. n /\ i + (k + 1) \in 1 .. n
        /\ (i + (k + 1)) - 1 = i + k /\ k + 1 \in Nat
    OBVIOUS
  <2>2. c[i + (k + 1)] = (c[(i + (k + 1)) - 1] + F * old[i + (k + 1)]) \div T BY <2>1 DEF CarriesOf
  <2>3. c[(i + (k + 1)) - 1] = 0 /\ old[i + (k + 1)] = 0 BY <1>2, <2>1 DEF ZeroAbove
  <2> QED BY <1>0, <2>1, <2>2, <2>3
<1>3. 0 .. n - i \subseteq P
  <2>1. n - i \in Nat OBVIOUS
  <2> HIDE DEF P
  <2> QED BY <1>1, <1>2, <2>1, UpTo
<1>4. ASSUME NEW k \in i + 1 .. n PROVE Written(c, F, T, old, n)[k] = 0
  <2>1. (k - 1) - i \in 0 .. n - i /\ i + ((k - 1) - i) = k - 1 /\ k \in 1 .. n OBVIOUS
  <2>2. c[k - 1] = 0 /\ old[k] = 0 BY <1>3, <2>1 DEF ZeroAbove
  <2>3. Written(c, F, T, old, n)[k] = (c[k - 1] + F * old[k]) % T BY <2>1 DEF Written
  <2> QED BY <1>0, <2>2, <2>3
<1> QED BY <1>4 DEF ZeroAbove

-----------------------------------------------------------------------------
(* The buffer holds the number that has been read.                         *)

\* The text after its first z characters.
Rest(z) == [k \in Nat |-> IF k \in 1 .. Len(text) - z THEN text[z + k] ELSE 0]

Holds(z) ==
    /\ buf \in Seq(0 .. To - 1) /\ Len(buf) = SizeFor(Len(text) - z)
    /\ length \in 0 .. Len(buf)
    /\ \A k \in length + 1 .. Len(buf) : buf[k] = 0
    /\ Low(Tot(buf), To)[Len(buf)] = Num(Rest(z), From)[pos - z]

HoldsInv ==
    /\ carry = 0
    /\ pc \in {"spaces", "zeroes"} => length = 0
    /\ pc \notin {"spaces", "zeroes"} => \E s : Begins(s) /\ Holds(s + zeroes)
    /\ pc = "done" => res = [k \in 1 .. zeroes |-> 0] \o Digits

LEMMA Bases == From \in Nat /\ To \in Nat \ {0} /\ From # 0 /\ To - 1 \in Nat
BY DEF From, To

LEMMA SizeIs ==
    ASSUME NEW m \in Nat
    PROVE  SizeFor(m) \in Nat /\ Fits(From, m, To, SizeFor(m))
<1>1. CASE encoding
  <2>1. Fits(256, m, 58, (m * 138) \div 100 + 1) BY EncodeSize
  <2>2. (m * 138) \div 100 + 1 \in Nat OBVIOUS
  <2> QED BY <1>1, <2>1, <2>2 DEF SizeFor, From, To
<1>2. CASE ~encoding
  <2>1. Fits(58, m, 256, (m * 733) \div 1000 + 1) BY DecodeSize
  <2>2. (m * 733) \div 1000 + 1 \in Nat OBVIOUS
  <2> QED BY <1>2, <2>1, <2>2 DEF SizeFor, From, To
<1> QED BY <1>1, <1>2

LEMMA CarriesIs ==
    ASSUME buf \in Seq(Nat), NEW ch \in Nat
    PROVE  CarriesOf(Carries(ch), ch, From, To, buf, Len(buf))
<1>1. PICK F \in Nat, T \in Nat \ {0} : F = From /\ T = To BY Bases
<1>2. PICK d \in Seq(Nat) : d = buf OBVIOUS
<1>3. PICK n \in Nat : n = Len(d) OBVIOUS
<1>4. PICK c : c = CHOOSE x : Carrying(x, ch, F, T, n, d) OBVIOUS
<1>6. CarriesOf(c, ch, F, T, d, n) BY <1>3, <1>4, CarryingIs
<1>7. Carries(ch) = [k \in 0 .. n |-> c[k]]
  BY <1>1, <1>2, <1>3, <1>4 DEF Carries, Carrying
<1>8. CarriesOf([k \in 0 .. n |-> c[k]], ch, F, T, d, n)
  <2>1. PICK e : e = [k \in 0 .. n |-> c[k]] OBVIOUS
  <2>2. \A k \in 0 .. n : e[k] = c[k] BY <2>1
  <2>3. \A k \in 1 .. n : k \in 0 .. n /\ k - 1 \in 0 .. n OBVIOUS
  <2>4. 0 \in 0 .. n OBVIOUS
  <2>5. CarriesOf(e, ch, F, T, d, n) BY <1>6, <2>2, <2>3, <2>4 DEF CarriesOf
  <2> QED BY <2>1, <2>5
<1> QED BY <1>1, <1>2, <1>3, <1>7, <1>8

\* The loop stops at a digit not below length where nothing is carried.
LEMMA TurnsIs ==
    ASSUME length \in Nat, Len(buf) \in Nat, length <= Len(buf), NEW c, c[Len(buf)] = 0
    PROVE  Turns(c) \in length .. Len(buf) /\ c[Turns(c)] = 0
<1> DEFINE stops == {k \in length .. Len(buf) : c[k] = 0}
<1>1. Len(buf) \in stops OBVIOUS
<1>2. stops # {} /\ stops \subseteq Nat
  <2>1. length .. Len(buf) \subseteq Nat OBVIOUS
  <2> QED BY <1>1, <2>1
<1>3. Turns(c) = CHOOSE k \in stops : \A j \in stops : k <= j BY <1>2 DEF Turns
<1>4. \E k \in stops : \A j \in stops : k <= j
  <2> HIDE DEF stops
  <2> QED BY <1>2, Smallest
<1>5. Turns(c) \in stops
  <2> HIDE DEF stops
  <2> QED BY <1>3, <1>4, Zenon
<1> QED BY <1>5

LEMMA RestIs ==
    ASSUME call \in Calls, NEW z \in 0 .. Len(text)
    PROVE  Rest(z) \in [Nat -> Nat] /\ \A k \in 1 .. Len(text) - z : Rest(z)[k] = text[z + k]
<1>1. Len(text) \in Nat /\ \A k \in 1 .. Len(text) : text[k] \in Nat BY TextIs
<1>2. ASSUME NEW k \in 1 .. Len(text) - z PROVE text[z + k] \in Nat
  <2>1. z + k \in 1 .. Len(text) BY <1>1
  <2> QED BY <1>1, <2>1
<1>3. \A k \in 1 .. Len(text) - z : k \in Nat BY <1>1
<1> QED BY <1>2, <1>3 DEF Rest

\* One byte or character.
LEMMA DigitHolds ==
    ASSUME ReadInv, Digit, NEW s, Begins(s), Holds(s + zeroes)
    PROVE  Holds(s + zeroes)' /\ carry' = 0
<1>0. /\ pc = "digits" /\ pos' = pos + 1 /\ ~AtEnd /\ call' = call /\ zeroes' = zeroes
  BY DEF Digit
<1>1. text' = text /\ encoding' = encoding /\ From' = From /\ To' = To BY <1>0 DEF text, encoding, From, To
<1>2. PICK z \in Nat, L \in Nat : z = s + zeroes /\ L = Len(text) /\ z <= pos /\ pos < L /\ pos \in Nat
  <2>1. Len(text) \in Nat /\ pos \in 0 .. Len(text) /\ pos # Len(text) BY <1>0, TextIs DEF ReadInv, AtEnd
  <2>2. s \in 0 .. pos /\ zeroes \in 0 .. pos - s BY DEF Begins
  <2>3. s + zeroes \in Nat /\ s + zeroes <= pos BY <2>1, <2>2
  <2> QED BY <2>1, <2>3
<1>3. PICK m \in Nat, j \in Nat :
        /\ m = L - z /\ j = pos - z /\ j + 1 <= m
        /\ pos + 1 - z = j + 1 /\ z + (j + 1) = pos + 1 /\ z + j = pos
  <2>1. L - z \in Nat /\ pos - z \in Nat /\ (pos - z) + 1 <= L - z /\ pos + 1 - z = (pos - z) + 1
        /\ z + ((pos - z) + 1) = pos + 1 /\ z + (pos - z) = pos
    BY <1>2
  <2> QED BY <2>1
<1>4. PICK n \in Nat : n = Len(buf) /\ n = SizeFor(m) BY <1>2, <1>3, SizeIs DEF Holds
<1>5. PICK F \in Nat, T \in Nat \ {0} : F = From /\ T = To /\ F # 0 /\ T - 1 \in Nat BY Bases
<1>6. Fits(F, m, T, n) BY <1>4, <1>5, SizeIs
<1>7. PICK old : old = buf /\ old \in Seq(0 .. T - 1) /\ old \in Seq(Nat) /\ Len(old) = n
  <2>1. buf \in Seq(0 .. T - 1) BY <1>5 DEF Holds
  <2>2. buf \in Seq(Nat) BY <1>5, <2>1, SeqIs
  <2> QED BY <1>4, <2>1, <2>2
<1>8. PICK d : d = Rest(z) /\ Below(d, F, j + 1) /\ d[j + 1] = Next1 /\ d[j + 1] \in Nat
  <2>1. z \in 0 .. Len(text) /\ call \in Calls BY <1>2 DEF ReadInv
  <2>2. Rest(z) \in [Nat -> Nat] /\ \A k \in 1 .. m : Rest(z)[k] = text[z + k] BY <1>2, <1>3, <2>1, RestIs
  <2>3. j + 1 \in 1 .. m /\ j + 1 \in Nat BY <1>3
  <2>4. Rest(z)[j + 1] = Next1 BY <1>3, <2>2, <2>3 DEF Next1
  <2>5. Next1 < From
    <3>1. \A k \in s + 1 .. pos + 1 : text[k] < From
      <4>0. [Next]_vars /\ pc # "spaces" BY <1>0 DEF Next
      <4>1. Begins(s)' BY <4>0, BeginsStays
      <4> QED BY <1>0, <1>1, <4>1 DEF Begins
    <3>2. pos + 1 \in s + 1 .. pos + 1 BY <1>2 DEF Begins
    <3> QED BY <3>1, <3>2 DEF Next1
  <2>6. ASSUME NEW k \in 1 .. j + 1 PROVE Rest(z)[k] < F
    <3>1. CASE k = j + 1 BY <1>5, <2>4, <2>5, <3>1
    <3>2. CASE k # j + 1
      <4>0. j + 1 <= m /\ z + j = pos BY <1>3
      <4>1. k \in 1 .. m /\ z + k \in z + 1 .. pos BY <3>2, <4>0
      <4>2. z + k \in s + 1 .. pos BY <1>2, <4>1 DEF Begins
      <4>3. text[z + k] < From BY <4>2 DEF Begins
      <4> QED BY <1>5, <2>2, <4>1, <4>3
    <3> QED BY <3>1, <3>2
  <2>7. Below(Rest(z), F, j + 1) BY <2>2, <2>6 DEF Below
  <2>8. Rest(z)[j + 1] \in Nat BY <2>2, <2>3
  <2> QED BY <2>4, <2>7, <2>8
<1>9. Low(Tot(old), T)[n] = Num(d, F)[j] BY <1>2, <1>3, <1>4, <1>5, <1>7, <1>8 DEF Holds
<1>10. PICK c : c = Carries(Next1) /\ CarriesOf(c, d[j + 1], F, T, old, n)
  BY <1>4, <1>5, <1>7, <1>8, CarriesIs
<1>11. c[n] = 0 /\ Low(Tot(Written(c, F, T, old, n)), T)[n] = Num(d, F)[j + 1]
  <2>1. F # 0 BY <1>5
  <2>2. j + 1 <= m BY <1>3
  <2>3. Below(d, F, j + 1) BY <1>8
  <2>4. old \in Seq(Nat) /\ Len(old) = n BY <1>7
  <2>5. CarriesOf(c, d[j + 1], F, T, old, n) BY <1>10
  <2> QED BY <1>6, <1>9, <2>1, <2>2, <2>3, <2>4, <2>5, OneDigit
<1>12. PICK i : i = Turns(c) /\ i \in length .. n /\ c[i] = 0
  <2>1. length \in 0 .. Len(buf) BY DEF Holds
  <2>2. length \in Nat /\ Len(buf) \in Nat /\ length <= Len(buf) BY <1>4, <2>1
  <2> QED BY <1>4, <1>11, <2>2, TurnsIs
<1>13. length \in 0 .. n /\ \A k \in length + 1 .. n : old[k] = 0 BY <1>4, <1>7 DEF Holds
<1>14. i \in 0 .. n /\ ZeroAbove(old, i, n)
  <2>1. i \in 0 .. n BY <1>12, <1>13
  <2>2. \A k \in i + 1 .. n : k \in length + 1 .. n BY <1>12, <1>13, <2>1
  <2> QED BY <1>13, <2>1, <2>2 DEF ZeroAbove
<1>15. ZeroAbove(Written(c, F, T, old, n), i, n) BY <1>10, <1>12, <1>14, NothingAbove
<1>16. PICK w : w = Written(c, F, T, old, n) OBVIOUS
<1>17. /\ w \in Seq(0 .. T - 1) /\ Len(w) = n
       /\ \A k \in 1 .. n : w[k] = (c[k - 1] + F * old[k]) % T
  BY <1>7, <1>10, <1>16, WrittenIs, SMTT(30)
<1>18. /\ buf' = [k \in 1 .. n |-> IF k <= i THEN (c[k - 1] + F * old[k]) % T ELSE old[k]]
       /\ carry' = c[i] /\ length' = i
  BY <1>4, <1>5, <1>7, <1>10, <1>12 DEF Digit, DigitAt
<1>19. buf' = w
  <2>1. ASSUME NEW k \in 1 .. n PROVE (IF k <= i THEN (c[k - 1] + F * old[k]) % T ELSE old[k]) = w[k]
    <3>1. CASE k <= i BY <1>17, <3>1
    <3>2. CASE ~(k <= i)
      <4>1. k \in i + 1 .. n BY <1>14, <3>2
      <4> QED BY <1>14, <1>15, <1>16, <3>2, <4>1 DEF ZeroAbove
    <3> QED BY <3>1, <3>2
  <2>2. w = [k \in 1 .. n |-> w[k]] BY <1>17
  <2> QED BY <1>18, <2>1, <2>2
<1>20. \A k \in i + 1 .. n : w[k] = 0 BY <1>15, <1>16 DEF ZeroAbove
<1>21. Low(Tot(w), T)[n] = Num(d, F)[j + 1] BY <1>11, <1>16
<1>22. SizeFor(m)' = SizeFor(m) BY <1>1 DEF SizeFor
<1>23. Rest(z)' = d BY <1>1, <1>8 DEF Rest
<1>24. (s + zeroes)' = z /\ Len(text') - z = m /\ pos' - z = j + 1 BY <1>0, <1>1, <1>2, <1>3
<1>25. /\ buf' \in Seq(0 .. To' - 1) /\ Len(buf') = n BY <1>1, <1>5, <1>17, <1>19
<1>26. Len(buf') = SizeFor(Len(text) - z)' BY <1>1, <1>4, <1>22, <1>24, <1>25 DEF SizeFor
<1>27. length' \in 0 .. Len(buf') /\ \A k \in length' + 1 .. Len(buf') : buf'[k] = 0
  BY <1>14, <1>18, <1>19, <1>20, <1>25
<1>28. Low(Tot(buf'), To')[Len(buf')] = Num(Rest(z)', From')[pos' - z]
  BY <1>1, <1>5, <1>19, <1>21, <1>23, <1>24, <1>25
<1>29. Holds(z)' BY <1>25, <1>26, <1>27, <1>28 DEF Holds
<1> QED BY <1>0, <1>2, <1>12, <1>18, <1>29

LEMMA HoldsInit == Init => HoldsInv
BY DEF Init, HoldsInv

\* The buffer begins as zero, which is what no characters write.
LEMMA ZeroHolds ==
    ASSUME ReadInv, SkipZeroes, pc' = "digits", NEW s, Begins(s)
    PROVE  length = 0 => Holds(s + zeroes)'
<1> SUFFICES ASSUME length = 0 PROVE Holds(s + zeroes)' OBVIOUS
<1>0. /\ pc = "zeroes" /\ pos' = pos /\ zeroes' = zeroes /\ call' = call /\ length' = length
      /\ buf' = [k \in 1 .. SizeFor(Len(text) - pos) |-> 0]
  BY DEF SkipZeroes
<1>1. text' = text /\ encoding' = encoding /\ From' = From /\ To' = To BY <1>0 DEF text, encoding, From, To
<1>2. /\ pos \in 0 .. Len(text) /\ Len(text) \in Nat /\ call \in Calls BY TextIs DEF ReadInv
<1>3. PICK z \in Nat : z = s + zeroes /\ z = pos BY <1>0, <1>2 DEF Begins
<1>4. Len(text) - z \in Nat BY <1>2, <1>3
<1>5. PICK n \in Nat : n = SizeFor(Len(text) - z) BY <1>4, SizeIs
<1>6. PICK T \in Nat \ {0} : T = To BY Bases
<1>7. PICK b : b = [k \in 1 .. n |-> 0] OBVIOUS
<1>8. b \in [1 .. n -> 0 .. T - 1] /\ b \in [1 .. n -> Nat] BY <1>7
<1>9. b \in Seq(0 .. T - 1) /\ b \in Seq(Nat) /\ Len(b) = n BY <1>8
<1>10. ZeroAbove(Tot(b), 0, n)
  <2>1. \A k \in 0 + 1 .. n : k \in 1 .. n /\ b[k] = 0 BY <1>7
  <2> QED BY <1>9, <2>1, TotIs DEF ZeroAbove
<1>11. Low(Tot(b), T)[n] = 0
  <2>1. Tot(b) \in [Nat -> Nat] BY <1>9, TotIs
  <2>2. PICK d \in [Nat -> Nat] : d = Tot(b) BY <2>1
  <2>3. T \in Nat /\ 0 <= n OBVIOUS
  <2>4. Low(d, T)[n] = Low(d, T)[0] BY <1>10, <2>2, <2>3, LowZeros
  <2>5. Low(d, T)[0] = 0 BY <2>3, LowIs
  <2> QED BY <2>2, <2>4, <2>5
<1>12. Num(Rest(z), From)[0] = 0
  <2>1. Rest(z) \in [Nat -> Nat] BY <1>2, <1>3, RestIs
  <2> QED BY <2>1, Bases, NumIs
<1>13. Rest(z)' = Rest(z) BY <1>1 DEF Rest
<1>14. buf' = b /\ Len(text') - z = Len(text) - z /\ pos' - z = 0 BY <1>0, <1>1, <1>2, <1>3, <1>5, <1>7
<1>15. Len(buf') = SizeFor(Len(text) - z)' BY <1>1, <1>5, <1>9, <1>14 DEF SizeFor
<1>16. length' \in 0 .. Len(buf') /\ \A k \in length' + 1 .. Len(buf') : buf'[k] = 0
  <2>1. length' = 0 /\ Len(buf') = n BY <1>0, <1>9, <1>14
  <2>2. \A k \in 0 + 1 .. n : buf'[k] = 0 BY <1>7, <1>14
  <2>3. 0 \in 0 .. n OBVIOUS
  <2> QED BY <2>1, <2>2, <2>3
<1>17. Low(Tot(buf'), To')[Len(buf')] = Num(Rest(z)', From')[pos' - z]
  BY <1>1, <1>6, <1>9, <1>11, <1>12, <1>13, <1>14
<1>18. buf' \in Seq(0 .. To' - 1) BY <1>1, <1>6, <1>9, <1>14
<1>19. Holds(z)' BY <1>15, <1>16, <1>17, <1>18 DEF Holds
<1> QED BY <1>0, <1>3, <1>19

LEMMA HoldsStep == ReadInv /\ HoldsInv /\ [Next]_vars => HoldsInv'
<1> SUFFICES ASSUME ReadInv, HoldsInv, [Next]_vars PROVE HoldsInv' OBVIOUS
<1>1. CASE SkipSpaces
  BY <1>1 DEF SkipSpaces, HoldsInv
<1>2. CASE SkipZeroes
  <2>1. pc = "zeroes" /\ carry' = carry /\ length' = length /\ pc' \in {"zeroes", "digits"}
    BY <1>2 DEF SkipZeroes
  <2>2. carry' = 0 /\ length' = 0 BY <2>1 DEF HoldsInv
  <2>3. PICK s : Begins(s) BY <2>1 DEF ReadInv
  <2>4. Begins(s)' BY <2>1, <2>3, BeginsStays
  <2>5. pc' = "digits" => Holds(s + zeroes)' BY <1>2, <2>1, <2>2, <2>3, ZeroHolds
  <2> QED BY <2>1, <2>2, <2>4, <2>5 DEF HoldsInv
<1>3. CASE Digit
  <2>1. pc = "digits" /\ pc' = pc BY <1>3 DEF Digit
  <2>2. PICK s : Begins(s) /\ Holds(s + zeroes) BY <2>1 DEF HoldsInv
  <2>3. Begins(s)' BY <2>1, <2>2, BeginsStays
  <2>4. Holds(s + zeroes)' /\ carry' = 0 BY <1>3, <2>2, DigitHolds
  <2> QED BY <2>1, <2>3, <2>4 DEF HoldsInv
<1>4. CASE BadCharacter \/ Finish \/ Terminated \/ UNCHANGED vars
  <2>1. /\ UNCHANGED <<call, pos, zeroes, buf, length, carry>>
        /\ \/ pc = "digits" /\ pc' = "refused"
           \/ pc = "digits" /\ pc' = "done" /\ res' = [k \in 1 .. zeroes |-> 0] \o Digits
           \/ pc' = pc /\ res' = res
    BY <1>4 DEF BadCharacter, Finish, Refuse, Terminated, vars
  <2>2. text' = text /\ encoding' = encoding /\ From' = From /\ To' = To
    BY <2>1 DEF text, encoding, From, To
  <2>3. ASSUME NEW s, Begins(s), Holds(s + zeroes) PROVE Holds(s + zeroes)'
    BY <2>1, <2>2, <2>3 DEF Holds, Rest, SizeFor
  <2>4. Digits' = Digits BY <2>1 DEF Digits
  <2>5. carry' = 0 /\ (pc' \in {"spaces", "zeroes"} => length' = 0) BY <2>1 DEF HoldsInv
  <2>6. pc' = "done" => res' = [k \in 1 .. zeroes' |-> 0] \o Digits' BY <2>1, <2>4 DEF HoldsInv
  <2>7. pc' \notin {"spaces", "zeroes"} => \E s : Begins(s)' /\ Holds(s + zeroes)'
    <3> SUFFICES ASSUME pc' \notin {"spaces", "zeroes"} PROVE \E s : Begins(s)' /\ Holds(s + zeroes)' OBVIOUS
    <3>1. pc \notin {"spaces", "zeroes"} BY <2>1
    <3>2. PICK s : Begins(s) /\ Holds(s + zeroes) BY <3>1 DEF HoldsInv
    <3>3. Begins(s)' BY <3>1, <3>2, BeginsStays
    <3> QED BY <2>3, <3>2, <3>3
  <2> QED BY <2>5, <2>6, <2>7 DEF HoldsInv
<1> QED BY <1>1, <1>2, <1>3, <1>4 DEF Next

-----------------------------------------------------------------------------
(* The result.                                                             *)

LEMMA LeadingIs ==
    ASSUME NEW s \in Seq(Nat), NEW z \in 0 .. Len(s), \A k \in 1 .. z : s[k] = 0,
           z < Len(s) => s[z + 1] # 0
    PROVE  LeadingZeros(s) = 1 .. z
<1>1. Len(s) \in Nat /\ DOMAIN s = 1 .. Len(s) OBVIOUS
<1>2. ASSUME NEW k \in DOMAIN s, \A j \in 1 .. k : s[j] = 0 PROVE k \in 1 .. z
  <2> SUFFICES ASSUME k > z PROVE FALSE BY <1>1
  <2>1. z + 1 \in 1 .. k /\ z < Len(s) BY <1>1
  <2> QED BY <1>2, <2>1
<1>3. ASSUME NEW k \in 1 .. z PROVE k \in DOMAIN s /\ \A j \in 1 .. k : s[j] = 0
  <2>1. \A j \in 1 .. k : j \in 1 .. z OBVIOUS
  <2> QED BY <1>1, <2>1
<1> QED BY <1>2, <1>3 DEF LeadingZeros

\* The text without the white space around it is what has been read.
LEMMA TrimmedIs ==
    ASSUME ReadInv, pc = "done", NEW s, Begins(s)
    PROVE  /\ Trimmed \in Seq(0 .. From - 1) /\ Len(Trimmed) = pos - s
           /\ \A k \in 1 .. pos - s : Trimmed[k] = text[s + k]
<1>1. /\ text \in Seq(Nat) /\ Len(text) \in Nat /\ DOMAIN text = 1 .. Len(text)
      /\ \A k \in 1 .. Len(text) : text[k] \in Nat
  BY TextIs DEF ReadInv
<1>2. PICK p \in Nat : p = pos /\ p <= Len(text) /\ s \in 0 .. p BY <1>1 DEF ReadInv, Begins
<1> DEFINE chars == {k \in DOMAIN text : encoding \/ text[k] # Space}
<1>3. ASSUME NEW k \in 1 .. Len(text) PROVE (encoding \/ text[k] # Space) <=> k \in s + 1 .. p
  <2>1. CASE encoding
    <3>1. s = 0 /\ p = Len(text) BY <1>2, <2>1 DEF Begins, ReadInv, Ends, AtEnd
    <3> QED BY <1>1, <2>1, <3>1
  <2>2. CASE ~encoding
    <3>1. \A j \in p + 1 .. Len(text) : text[j] = 58 BY <1>2, <2>2 DEF ReadInv, Ends, Trailing, Space
    <3>2. \A j \in 1 .. s : text[j] = 58 BY DEF Begins, Space
    <3>3. \A j \in s + 1 .. p : text[j] < 58 BY <1>2, <2>2 DEF Begins, From
    <3>4. k \in 1 .. s \/ k \in s + 1 .. p \/ k \in p + 1 .. Len(text) BY <1>1, <1>2
    <3>5. CASE k \in s + 1 .. p
      <4>1. text[k] < 58 BY <3>3, <3>5
      <4>2. text[k] # 58 BY <4>1
      <4> QED BY <3>5, <4>2 DEF Space
    <3>6. CASE k \notin s + 1 .. p
      <4>1. text[k] = 58 BY <3>1, <3>2, <3>4, <3>6
      <4> QED BY <2>2, <3>6, <4>1 DEF Space
    <3> QED BY <3>5, <3>6
  <2> QED BY <2>1, <2>2
<1>4. chars = s + 1 .. p
  <2>1. \A k \in s + 1 .. p : k \in 1 .. Len(text) BY <1>1, <1>2
  <2> QED BY <1>1, <1>3, <2>1
<1>5. ASSUME NEW k \in 1 .. p - s PROVE text[s + k] \in 0 .. From - 1
  <2>1. s + k \in s + 1 .. p /\ s + k \in 1 .. Len(text) BY <1>1, <1>2
  <2>2. text[s + k] < From /\ text[s + k] \in Nat BY <1>1, <1>2, <2>1 DEF Begins
  <2> QED BY <2>2, Bases
<1>6. CASE s = p
  <2>1. chars = {} BY <1>2, <1>4, <1>6
  <2>2. Trimmed = <<>> BY <2>1 DEF Trimmed
  <2> QED BY <1>2, <1>6, <2>2
<1>7. CASE s # p
  <2>1. chars # {} /\ s + 1 \in chars /\ p \in chars /\ \A k \in chars : k \in Nat /\ s + 1 <= k /\ k <= p
    BY <1>2, <1>4, <1>7
  <2>2. (CHOOSE k \in chars : \A j \in chars : k <= j) = s + 1
    <3> HIDE DEF chars
    <3>1. \A k \in chars : (\A j \in chars : k <= j) => k = s + 1 BY <1>2, <2>1
    <3>2. \A j \in chars : s + 1 <= j BY <2>1
    <3> QED BY <2>1, <3>1, <3>2, Zenon
  <2>3. (CHOOSE k \in chars : \A j \in chars : j <= k) = p
    <3> HIDE DEF chars
    <3>1. \A k \in chars : (\A j \in chars : j <= k) => k = p BY <1>2, <2>1
    <3>2. \A j \in chars : j <= p BY <2>1
    <3> QED BY <2>1, <3>1, <3>2, Zenon
  <2>4. Trimmed = SubSeq(text, s + 1, p) BY <2>1, <2>2, <2>3, Zenon DEF Trimmed
  <2>5. PICK t : t = SubSeq(text, s + 1, p) OBVIOUS
  <2>6. /\ t \in Seq(Nat) /\ Len(t) = p - s
        /\ \A k \in 1 .. p - s : t[k] = text[s + k]
    BY <1>1, <1>2, <1>7, <2>5
  <2>7. t \in [1 .. p - s -> 0 .. From - 1] BY <1>5, <2>6
  <2>8. t \in Seq(0 .. From - 1)
    <3>1. PICK q \in Nat : q = p - s
      <4>1. p - s \in Nat BY <1>2
      <4> QED BY <4>1
    <3>2. PICK S : S = 0 .. From - 1 OBVIOUS
    <3>3. t \in [1 .. q -> S] BY <2>7, <3>1, <3>2
    <3>4. t \in Seq(S) BY <3>3
    <3> QED BY <3>2, <3>4
  <2> QED BY <1>2, <2>4, <2>5, <2>6, <2>8
<1> QED BY <1>6, <1>7

\* The digits in use, from the highest that is not zero.
LEMMA DigitsIs ==
    ASSUME NEW b \in Nat, buf \in Seq(0 .. b), length \in 0 .. Len(buf), ZeroAbove(buf, length, Len(buf))
    PROVE  \E n \in 0 .. Len(buf) :
              /\ Digits \in Seq(0 .. b) /\ Len(Digits) = n
              /\ Mirrors(Digits, buf, n)
              /\ n # 0 => Digits[1] # 0
              /\ ZeroAbove(buf, n, Len(buf))
<1> DEFINE used == {k \in 1 .. length : \E j \in k .. length : buf[j] # 0}
           top == IF used = {} THEN 0 ELSE CHOOSE k \in used : \A j \in used : j <= k
<1>0. PICK L \in Nat : L = Len(buf) OBVIOUS
<1>1. length \in 0 .. L BY <1>0
<1>2. \A k \in 1 .. L : buf[k] \in 0 .. b BY <1>0
<1>3. ASSUME NEW k \in 1 .. length, buf[k] # 0 PROVE k \in used
  <2>1. k \in k .. length BY <1>1
  <2> QED BY <1>3, <2>1
<1>4. top \in 0 .. length /\ (top # 0 => buf[top] # 0) /\ \A k \in used : k <= top
  <2>1. CASE used = {}
    <3>1. top = 0 BY <2>1
    <3>2. 0 \in 0 .. length BY <1>1
    <3> HIDE DEF top, used
    <3> QED BY <2>1, <3>1, <3>2
  <2>2. CASE used # {}
    <3>1. length \in Nat BY <1>1
    <3>2. used \subseteq 0 .. length BY <3>1
    <3>3. \E k \in used : \A j \in used : j <= k
      <4> HIDE DEF used
      <4> QED BY <2>2, <3>1, <3>2, Largest
    <3>4. top = CHOOSE k \in used : \A j \in used : j <= k BY <2>2
    <3>5. top \in used /\ \A j \in used : j <= top
      <4> HIDE DEF used, top
      <4> QED BY <3>3, <3>4, Zenon
    <3> HIDE DEF top
    <3>6. PICK j \in top .. length : buf[j] # 0 BY <3>5
    <3>7. top \in 1 .. length BY <3>5
    <3>8. j \in 1 .. length BY <3>1, <3>6, <3>7
    <3>9. j \in used BY <1>3, <3>6, <3>8
    <3>10. j <= top BY <3>5, <3>9
    <3>12. j \in Nat /\ top \in Nat /\ top <= j BY <3>1, <3>6, <3>7
    <3>11. j = top BY <3>10, <3>12
    <3> QED BY <3>1, <3>5, <3>6, <3>7, <3>11, SMTT(30)
  <2> QED BY <2>1, <2>2
<1>5. Digits = [k \in 1 .. top |-> buf[top - k + 1]] BY DEF Digits
<1> HIDE DEF top
<1>6. PICK n \in Nat : n = top /\ n <= L BY <1>1, <1>4
<1>7. PICK d : d = [k \in 1 .. n |-> buf[n - k + 1]] OBVIOUS
<1>8. ASSUME NEW k \in 1 .. n PROVE buf[n - k + 1] \in 0 .. b
  <2>1. n - k + 1 \in 1 .. L BY <1>6
  <2> QED BY <1>2, <2>1
<1>9. PICK S : S = 0 .. b OBVIOUS
<1>10. d \in [1 .. n -> S] BY <1>7, <1>8, <1>9
<1>11. d \in Seq(S) /\ Len(d) = n BY <1>10
<1>12. Mirrors(d, buf, n) BY <1>7 DEF Mirrors
<1>13. n # 0 => d[1] # 0
  <2> SUFFICES ASSUME n # 0 PROVE d[1] # 0 OBVIOUS
  <2>1. 1 \in 1 .. n /\ n - 1 + 1 = n OBVIOUS
  <2>2. d[1] = buf[n] BY <1>12, <2>1 DEF Mirrors
  <2> QED BY <1>4, <1>6, <2>2
<1>14. ASSUME NEW k \in n + 1 .. L PROVE buf[k] = 0
  <2>1. CASE k \in 1 .. length
    <3> SUFFICES ASSUME buf[k] # 0 PROVE FALSE OBVIOUS
    <3>1. k \in used BY <1>3, <2>1
    <3> HIDE DEF used
    <3>2. k <= n BY <1>4, <1>6, <3>1
    <3> QED BY <3>2
  <2>2. CASE k \notin 1 .. length
    <3>1. k \in length + 1 .. L BY <1>1, <1>6, <2>2
    <3> QED BY <1>0, <3>1 DEF ZeroAbove
  <2> QED BY <2>1, <2>2
<1>15. ZeroAbove(buf, n, Len(buf)) BY <1>0, <1>14 DEF ZeroAbove
<1>16. n \in 0 .. Len(buf) BY <1>0, <1>6
<1>17. Digits = d BY <1>5, <1>6, <1>7
<1> QED BY <1>9, <1>11, <1>12, <1>13, <1>15, <1>16, <1>17

\* The number that a text writes to the base b.
Number(s, b) == Num(Tot(s), b)[Len(s)]

\* The digits after z zeros write the number.
LEMMA NumberAfterZeros ==
    ASSUME NEW b \in Nat, NEW s \in Seq(Nat), NEW z \in Nat, NEW d \in [Nat -> Nat], NEW n \in Nat,
           Len(s) = z + n, AfterZeros(s, z, d, n)
    PROVE  Number(s, b) = Num(d, b)[n]
<1>1. PICK e \in [Nat -> Nat] : e = Tot(s) /\ \A k \in 1 .. z + n : e[k] = s[k] BY TotIs
<1>2. ASSUME NEW k \in 1 .. z PROVE e[k] = 0
  <2>1. k \in 1 .. z + n OBVIOUS
  <2> QED BY <1>1, <2>1 DEF AfterZeros
<1>3. ASSUME NEW k \in 1 .. n PROVE e[z + k] = d[k]
  <2>1. z + k \in 1 .. z + n OBVIOUS
  <2> QED BY <1>1, <2>1 DEF AfterZeros
<1>4. AfterZeros(e, z, d, n) BY <1>2, <1>3 DEF AfterZeros
<1>5. Num(e, b)[z + n] = Num(d, b)[n] BY <1>4, NumAfterZeros, ZenonT(60)
<1> QED BY <1>1, <1>5 DEF Number

LEMMA NumberPadded ==
    ASSUME NEW b \in Nat, NEW g \in Seq(Nat), NEW u \in Nat, NEW n \in Nat, Len(g) = n,
           NEW r \in Seq(Nat), Len(r) = u + n, AfterZeros(r, u, g, n)
    PROVE  Number(r, b) = Number(g, b)
<1>1. PICK e \in [Nat -> Nat] : e = Tot(g) /\ \A k \in 1 .. n : e[k] = g[k] BY TotIs
<1>2. AfterZeros(r, u, e, n) BY <1>1 DEF AfterZeros
<1>3. Number(r, b) = Num(e, b)[n] BY <1>2, NumberAfterZeros, ZenonT(60)
<1> QED BY <1>1, <1>3 DEF Number

\* The digits of s, from the nth down to the first, if there is nothing above.
TopDown(g, s, n, L) ==
    Len(s) = L /\ n <= L /\ Len(g) = n /\ Mirrors(g, s, n) /\ ZeroAbove(s, n, L)

LEMMA NumberMirrored ==
    ASSUME NEW b \in Nat, NEW s \in Seq(Nat), NEW L \in Nat, NEW n \in Nat, NEW g \in Seq(Nat),
           TopDown(g, s, n, L)
    PROVE  Number(g, b) = Low(Tot(s), b)[L]
<1>0. Len(s) = L /\ n <= L /\ Len(g) = n /\ Mirrors(g, s, n) /\ ZeroAbove(s, n, L) BY DEF TopDown
<1>1. PICK e \in [Nat -> Nat] : e = Tot(g) /\ \A k \in 1 .. n : e[k] = g[k] BY <1>0, TotIs
<1>2. PICK a \in [Nat -> Nat] : a = Tot(s) /\ \A k \in 1 .. L : a[k] = s[k] BY <1>0, TotIs
<1>3. Mirrors(e, a, n)
  <2>1. ASSUME NEW k \in 1 .. n PROVE e[k] = a[n - k + 1]
    <3>1. n - k + 1 \in 1 .. L BY <1>0
    <3> QED BY <1>0, <1>1, <1>2, <3>1 DEF Mirrors
  <2> QED BY <2>1 DEF Mirrors
<1>4. ZeroAbove(a, n, L)
  <2>1. \A k \in n + 1 .. L : k \in 1 .. L OBVIOUS
  <2> QED BY <1>0, <1>2, <2>1 DEF ZeroAbove
<1>5. Num(e, b)[n] = Low(a, b)[n] BY <1>3, Reversed
<1>6. Low(a, b)[L] = Low(a, b)[n] BY <1>0, <1>4, LowZeros, ZenonT(60)
<1> QED BY <1>0, <1>1, <1>2, <1>5, <1>6 DEF Number

Joins(r, x, y, S) ==
    /\ r \in Seq(S) /\ Len(r) = Len(x) + Len(y)
    /\ \A k \in 1 .. Len(x) : r[k] = x[k]
    /\ \A k \in 1 .. Len(y) : r[Len(x) + k] = y[k]

LEMMA ConcatIs ==
    ASSUME NEW S, NEW x, x \in Seq(S), NEW y, y \in Seq(S), NEW r, r = x \o y
    PROVE  Joins(r, x, y, S)
BY DEF Joins

\* y writes to the base c the number that x writes to the base b.
Converts(x, b, y, c) == LeadingZeros(x) = LeadingZeros(y) /\ Number(x, b) = Number(y, c)

LEMMA ResultConverts ==
    ASSUME ReadInv, HoldsInv, pc = "done"
    PROVE  /\ Trimmed \in Seq(0 .. From - 1) /\ res \in Seq(0 .. To - 1)
           /\ Converts(Trimmed, From, res, To)
<1>1. PICK s : Begins(s) /\ Holds(s + zeroes) BY DEF HoldsInv
<1>2. Len(text) \in Nat /\ pos \in 0 .. Len(text) /\ call \in Calls BY TextIs DEF ReadInv
<1>3. PICK z \in Nat, u \in Nat, m \in Nat :
        /\ z = s + zeroes /\ u = zeroes /\ m = pos - z /\ pos - s = u + m /\ z \in 0 .. Len(text)
        /\ s \in Nat /\ s <= z /\ z + m = pos
  <2>1. s \in 0 .. pos /\ zeroes \in 0 .. pos - s BY <1>1 DEF Begins
  <2>2. /\ s + zeroes \in Nat /\ zeroes \in Nat /\ pos - (s + zeroes) \in Nat /\ s \in Nat
        /\ pos - s = zeroes + (pos - (s + zeroes)) /\ s + zeroes \in 0 .. Len(text) /\ s <= s + zeroes
        /\ (s + zeroes) + (pos - (s + zeroes)) = pos
    BY <1>2, <2>1
  <2> QED BY <2>2
<1>4. PICK F \in Nat, T \in Nat \ {0} : F = From /\ T = To /\ F # 0 /\ T - 1 \in Nat BY Bases
<1>5. F - 1 \in Nat BY <1>4
<1>6. PICK t : t = Trimmed /\ t \in Seq(0 .. F - 1) /\ t \in Seq(Nat) /\ Len(t) = u + m
               /\ \A k \in 1 .. u + m : t[k] = text[s + k]
  <2>1. /\ Trimmed \in Seq(0 .. F - 1) /\ Len(Trimmed) = pos - s
        /\ \A k \in 1 .. pos - s : Trimmed[k] = text[s + k]
    BY <1>1, <1>4, TrimmedIs
  <2>2. Trimmed \in Seq(Nat) BY <1>5, <2>1, SeqIs
  <2> QED BY <1>3, <2>1, <2>2
<1>7. PICK d \in [Nat -> Nat] : d = Rest(z) /\ \A k \in 1 .. Len(text) - z : d[k] = text[z + k]
  BY <1>2, <1>3, RestIs
<1>8. u \in 0 .. Len(t) /\ \A k \in 1 .. u : t[k] = 0
  <2>1. ASSUME NEW k \in 1 .. u PROVE t[k] = 0
    <3>1. k \in 1 .. u + m /\ s + k \in s + 1 .. s + zeroes BY <1>3
    <3>2. text[s + k] = 0 BY <1>1, <3>1 DEF Begins
    <3> QED BY <1>6, <3>1, <3>2
  <2>2. u \in 0 .. Len(t) BY <1>6
  <2> QED BY <2>1, <2>2
<1>9. u < Len(t) => t[u + 1] # 0
  <2> SUFFICES ASSUME u < Len(t) PROVE t[u + 1] # 0 OBVIOUS
  <2>1. u + 1 \in 1 .. u + m /\ s + (u + 1) = z + 1 /\ z < Len(text)
    <3>1. u < u + m BY <1>6
    <3>2. z < pos BY <1>3, <3>1
    <3> QED BY <1>2, <1>3, <3>1, <3>2
  <2>2. t[u + 1] = text[z + 1] BY <1>6, <2>1
  <2>3. text[z + 1] # 0 BY <1>1, <1>3, <2>1 DEF Begins
  <2> QED BY <2>2, <2>3
<1>10. LeadingZeros(t) = 1 .. u BY <1>6, <1>8, <1>9, LeadingIs
<1>11. Number(t, F) = Num(d, F)[m]
  <2>2. ASSUME NEW k \in 1 .. m PROVE t[u + k] = d[k]
    <3>1. u + k \in 1 .. u + m /\ s + (u + k) = z + k /\ k \in 1 .. Len(text) - z BY <1>2, <1>3
    <3> QED BY <1>6, <1>7, <3>1
  <2>3. AfterZeros(t, u, d, m) BY <1>8, <2>2 DEF AfterZeros
  <2>4. t \in Seq(Nat) /\ Len(t) = u + m BY <1>6
  <2> QED BY <2>3, <2>4, NumberAfterZeros, ZenonT(60)
<1>12. PICK b : b = buf /\ b \in Seq(0 .. T - 1) /\ b \in Seq(Nat) /\ Len(b) \in Nat
  <2>1. buf \in Seq(0 .. T - 1) BY <1>1, <1>4 DEF Holds
  <2>2. buf \in Seq(Nat) /\ Len(buf) \in Nat BY <1>4, <2>1, SeqIs
  <2> QED BY <2>1, <2>2
<1>13. Low(Tot(b), T)[Len(b)] = Num(d, F)[m] BY <1>1, <1>3, <1>4, <1>7, <1>12 DEF Holds
<1>14. PICK n \in 0 .. Len(b) :
              /\ Digits \in Seq(0 .. T - 1) /\ Len(Digits) = n
              /\ Mirrors(Digits, b, n)
              /\ n # 0 => Digits[1] # 0
              /\ ZeroAbove(b, n, Len(b))
  <2>1. length \in 0 .. Len(buf) /\ ZeroAbove(buf, length, Len(buf)) BY <1>1 DEF Holds, ZeroAbove
  <2>2. buf \in Seq(0 .. T - 1) BY <1>12
  <2>3. \E n \in 0 .. Len(buf) :
              /\ Digits \in Seq(0 .. T - 1) /\ Len(Digits) = n
              /\ Mirrors(Digits, buf, n)
              /\ n # 0 => Digits[1] # 0
              /\ ZeroAbove(buf, n, Len(buf))
    BY <1>4, <2>1, <2>2, DigitsIs
  <2> QED BY <1>12, <2>3
<1>15. PICK g : g = Digits /\ g \in Seq(0 .. T - 1) /\ g \in Seq(Nat) /\ Len(g) = n
                /\ Mirrors(g, b, n) /\ (n # 0 => g[1] # 0)
  <2>1. Digits \in Seq(Nat) BY <1>4, <1>14, SeqIs
  <2> QED BY <1>14, <2>1
<1>16. Number(g, T) = Low(Tot(b), T)[Len(b)]
  <2>1. PICK L \in Nat, h \in Nat : L = Len(b) /\ h = n /\ h <= L BY <1>12
  <2>2. TopDown(g, b, h, L) BY <1>14, <1>15, <2>1 DEF TopDown
  <2>3. T \in Nat /\ b \in Seq(Nat) /\ g \in Seq(Nat) BY <1>12, <1>15
  <2>4. Number(g, T) = Low(Tot(b), T)[L] BY <2>2, <2>3, NumberMirrored
  <2> QED BY <2>1, <2>4
<1>17. PICK r : /\ r = res /\ r \in Seq(0 .. T - 1) /\ r \in Seq(Nat) /\ Len(r) = u + n
                /\ \A k \in 1 .. u : r[k] = 0
                /\ \A k \in 1 .. n : r[u + k] = g[k]
  <2>1. PICK o : o = [k \in 1 .. u |-> 0] OBVIOUS
  <2>2. PICK S : S = 0 .. T - 1 /\ 0 \in S BY <1>4
  <2>3. o \in [1 .. u -> S] BY <2>1, <2>2
  <2>4. o \in Seq(S) /\ Len(o) = u BY <2>3
  <2>5. g \in Seq(S) BY <1>15, <2>2
  <2>6. PICK r : r = o \o g OBVIOUS
  <2>7. /\ r \in Seq(S) /\ Len(r) = u + n
        /\ \A k \in 1 .. u : r[k] = o[k]
        /\ \A k \in 1 .. n : r[u + k] = g[k]
    <3>1. Joins(r, o, g, S) BY <2>4, <2>5, <2>6, ConcatIs
    <3>2. Len(o) = u /\ Len(g) = n BY <1>15, <2>4
    <3> QED BY <3>1, <3>2 DEF Joins
  <2>8. r = res BY <1>3, <1>15, <2>1, <2>6 DEF HoldsInv
  <2>9. r \in Seq(Nat) BY <1>4, <2>2, <2>7, SeqIs
  <2>10. \A k \in 1 .. u : r[k] = 0 BY <2>1, <2>7
  <2> QED BY <2>2, <2>7, <2>8, <2>9, <2>10
<1>18. u \in 0 .. Len(r) /\ n \in Nat /\ n = Len(r) - u BY <1>12, <1>17
<1>19. LeadingZeros(r) = 1 .. u
  <2>1. u < Len(r) => r[u + 1] # 0
    <3> SUFFICES ASSUME u < Len(r) PROVE r[u + 1] # 0 OBVIOUS
    <3>1. n # 0 /\ 1 \in 1 .. n BY <1>17, <1>18
    <3> QED BY <1>15, <1>17, <3>1
  <2> QED BY <1>17, <1>18, <2>1, LeadingIs
<1>20. Number(r, T) = Number(g, T)
  <2>1. PICK h \in Nat : h = n BY <1>18
  <2>2. AfterZeros(r, u, g, h) /\ r \in Seq(Nat) /\ Len(r) = u + h BY <1>17, <2>1 DEF AfterZeros
  <2>3. T \in Nat /\ g \in Seq(Nat) /\ Len(g) = h BY <1>15, <2>1
  <2> QED BY <2>2, <2>3, NumberPadded
<1>21. Converts(t, F, r, T) BY <1>10, <1>11, <1>13, <1>16, <1>19, <1>20 DEF Converts
<1> QED BY <1>4, <1>6, <1>17, <1>21

-----------------------------------------------------------------------------
(* Nothing is lost: zeros and number together are all there is of a text.  *)

\* s is z zeros and then the m digits of d, which do not begin with a zero.
Parts(s, b, z, d, m) ==
    /\ Len(s) = z + m /\ AfterZeros(s, z, d, m) /\ Below(d, b, m) /\ (m # 0 => d[1] # 0)
    /\ LeadingZeros(s) = 1 .. z /\ Number(s, b) = Num(d, b)[m]

LEMMA PartsExist ==
    ASSUME NEW b \in Nat \ {0}, NEW s \in Seq(0 .. b - 1)
    PROVE  \E z \in Nat, m \in Nat : \E d : Parts(s, b, z, d, m)
<1>0. b - 1 \in Nat OBVIOUS
<1>1. s \in Seq(Nat) /\ Len(s) \in Nat /\ \A k \in 1 .. Len(s) : s[k] \in Nat /\ s[k] <= b - 1 BY <1>0, SeqIs
<1> DEFINE T == {z \in 0 .. Len(s) : \A k \in 1 .. z : s[k] = 0}
<1>2. PICK z \in T : \A y \in T : y <= z
  <2>1. T \subseteq 0 .. Len(s) OBVIOUS
  <2>2. 0 \in T BY <1>1
  <2> HIDE DEF T
  <2> QED BY <1>1, <2>1, <2>2, Largest
<1>3. z \in 0 .. Len(s) /\ \A k \in 1 .. z : s[k] = 0 BY <1>2
<1>4. z < Len(s) => s[z + 1] # 0
  <2> SUFFICES ASSUME z < Len(s), s[z + 1] = 0 PROVE FALSE OBVIOUS
  <2>1. z \in Nat /\ z + 1 \in 0 .. Len(s) BY <1>1, <1>3
  <2>2. \A k \in 1 .. z + 1 : k = z + 1 \/ k \in 1 .. z BY <2>1
  <2>3. z + 1 \in T BY <1>3, <2>1, <2>2
  <2>4. z + 1 <= z BY <1>2, <2>3
  <2> QED BY <2>1, <2>4
<1> HIDE DEF T
<1>5. LeadingZeros(s) = 1 .. z BY <1>1, <1>3, <1>4, LeadingIs
<1>6. PICK m \in Nat : Len(s) = z + m /\ z \in Nat
  <2>1. Len(s) - z \in Nat /\ Len(s) = z + (Len(s) - z) /\ z \in Nat BY <1>1, <1>3
  <2> QED BY <2>1
<1>7. PICK d : d = [k \in Nat |-> IF k \in 1 .. m THEN s[z + k] ELSE 0] OBVIOUS
<1>8. ASSUME NEW k \in 1 .. m PROVE s[z + k] \in Nat /\ s[z + k] < b /\ d[k] = s[z + k]
  <2>1. z + k \in 1 .. Len(s) /\ k \in Nat BY <1>6
  <2>2. s[z + k] \in Nat /\ s[z + k] <= b - 1 BY <1>1, <2>1
  <2>3. d[k] = s[z + k] BY <1>7, <2>1
  <2> QED BY <2>2, <2>3
<1>9. d \in [Nat -> Nat] BY <1>7, <1>8
<1>10. Below(d, b, m) BY <1>8, <1>9 DEF Below
<1>11. AfterZeros(s, z, d, m) BY <1>3, <1>8 DEF AfterZeros
<1>12. m # 0 => d[1] # 0
  <2> SUFFICES ASSUME m # 0 PROVE d[1] # 0 OBVIOUS
  <2>1. 1 \in 1 .. m /\ z < Len(s) BY <1>6
  <2>2. d[1] = s[z + 1] BY <1>8, <2>1
  <2> QED BY <1>4, <2>1, <2>2
<1>13. Number(s, b) = Num(d, b)[m]
  <2>1. b \in Nat OBVIOUS
  <2> QED BY <1>1, <1>6, <1>9, <1>11, <2>1, NumberAfterZeros, ZenonT(60)
<1>14. Parts(s, b, z, d, m) BY <1>5, <1>6, <1>10, <1>11, <1>12, <1>13 DEF Parts
<1> QED BY <1>6, <1>14

LEMMA SameText ==
    ASSUME NEW b \in Nat \ {0}, NEW x \in Seq(0 .. b - 1), NEW y \in Seq(0 .. b - 1),
           LeadingZeros(x) = LeadingZeros(y), Number(x, b) = Number(y, b)
    PROVE  x = y
<1>a. PICK z \in Nat, m \in Nat : \E d : Parts(x, b, z, d, m) BY PartsExist
<1>1. PICK d : Parts(x, b, z, d, m) BY <1>a
<1>b. PICK w \in Nat, n \in Nat : \E e : Parts(y, b, w, e, n) BY PartsExist
<1>2. PICK e : Parts(y, b, w, e, n) BY <1>b
<1>3. z = w
  <2>1. 1 .. z = 1 .. w BY <1>1, <1>2 DEF Parts
  <2>2. z # 0 => z \in 1 .. w BY <2>1
  <2>3. w # 0 => w \in 1 .. z BY <2>1
  <2> QED BY <2>2, <2>3
<1>4. /\ Below(d, b, m) /\ (m # 0 => d[1] # 0) /\ Below(e, b, n) /\ (n # 0 => e[1] # 0)
      /\ Num(d, b)[m] = Num(e, b)[n]
  BY <1>1, <1>2 DEF Parts
<1>5. m = n BY <1>4, SameLength
<1>6. \A k \in 1 .. m : d[k] = e[k]
  <2>1. Unique(b, m) BY DigitsUnique
  <2> QED BY <1>4, <1>5, <2>1 DEF Unique
<1>7. /\ Len(x) = z + m /\ Len(y) = z + m
      /\ \A k \in 1 .. z : x[k] = 0 /\ y[k] = 0
      /\ \A k \in 1 .. m : x[z + k] = d[k] /\ y[z + k] = e[k]
  BY <1>1, <1>2, <1>3, <1>5 DEF Parts, AfterZeros
<1>8. ASSUME NEW k \in 1 .. z + m PROVE x[k] = y[k]
  <2>1. CASE k \in 1 .. z BY <1>7, <2>1
  <2>2. CASE k \notin 1 .. z
    <3>1. k - z \in 1 .. m /\ z + (k - z) = k BY <2>2
    <3> QED BY <1>6, <1>7, <3>1
  <2> QED BY <2>1, <2>2
<1>9. x = [k \in 1 .. z + m |-> x[k]] /\ y = [k \in 1 .. z + m |-> y[k]] BY <1>7
<1> QED BY <1>8, <1>9

-----------------------------------------------------------------------------
(* The theorems about Base58.                                              *)

LEMMA Invariance == Spec => [](ReadInv /\ HoldsInv)
<1>1. Init => ReadInv /\ HoldsInv BY ReadInit, HoldsInit
<1>2. ReadInv /\ HoldsInv /\ [Next]_vars => (ReadInv /\ HoldsInv)' BY ReadStep, HoldsStep
<1> QED BY <1>1, <1>2, PTL DEF Spec

\* DecodeBase58 refuses exactly the texts that, but for white space around them,
\* have a character outside of pszBase58, for texts of any length.
THEOREM Refuses == Spec => []RefusesExactly
BY Invariance, ReadRefuses, PTL

\* The result writes the number of the text, to the other base and with a zero byte
\* for every leading '1' or the other way round: the number itself and not only its
\* remainders, for bytes and characters of any length.
THEOREM ResultIsNumber ==
    Spec => [](pc = "done" => res \in Seq(0 .. To - 1) /\ Converts(Trimmed, From, res, To))
<1>1. ReadInv /\ HoldsInv => (pc = "done" => res \in Seq(0 .. To - 1) /\ Converts(Trimmed, From, res, To))
  BY ResultConverts
<1> QED BY <1>1, Invariance, PTL

\* Nothing is carried out of the buffer that EncodeBase58BTC and DecodeBase58 size by
\* size * 138 / 100 + 1 and size * 733 / 1000 + 1 ("assert(carry == 0)"), and the
\* result is exact, for texts of any length.
THEOREM Exact == Spec => []ResultExact
<1>1. ASSUME ReadInv, HoldsInv PROVE ResultExact
  <2>1. carry = 0 BY <1>1 DEF HoldsInv
  <2>2. ASSUME pc = "done"
        PROVE  /\ LeadingZeros(res) = LeadingZeros(Trimmed)
               /\ \A p \in Primes : ValueMod(res, To, p) = ValueMod(Trimmed, From, p)
    <3>1. /\ Trimmed \in Seq(0 .. From - 1) /\ res \in Seq(0 .. To - 1)
          /\ LeadingZeros(Trimmed) = LeadingZeros(res) /\ Number(Trimmed, From) = Number(res, To)
      BY <1>1, <2>2, ResultConverts DEF Converts
    <3>2. From - 1 \in Nat /\ To - 1 \in Nat BY DEF From, To
    <3>3. Trimmed \in Seq(Nat) BY <3>1, <3>2, SeqIs
    <3>4. res \in Seq(Nat) BY <3>1, <3>2, SeqIs
    <3>5. ASSUME NEW p \in Primes PROVE ValueMod(res, To, p) = ValueMod(Trimmed, From, p)
      <4>1. p \in Nat \ {0} BY PrimesAssumption
      <4>2. From \in Nat /\ To \in Nat BY Bases
      <4>3. ValueMod(res, To, p) = Number(res, To) % p BY <3>4, <4>1, <4>2, ValueModIs DEF Number
      <4>4. ValueMod(Trimmed, From, p) = Number(Trimmed, From) % p BY <3>3, <4>1, <4>2, ValueModIs DEF Number
      <4> QED BY <3>1, <4>3, <4>4
    <3> QED BY <3>1, <3>5
  <2> QED BY <2>1, <2>2 DEF ResultExact
<1> QED BY <1>1, Invariance, PTL

\* The text y, characters of the alphabet, and the bytes x stand for each other: they
\* write the same number with as many leading zeros.
Encodes(x, y) == x \in Seq(0 .. 255) /\ y \in Seq(0 .. 57) /\ Converts(x, 256, y, 58)

\* There is no white space around bytes.
LEMMA TrimmedBytes ==
    ASSUME ReadInv, pc = "done", encoding
    PROVE  Trimmed = text
<1>1. PICK s : Begins(s) BY DEF ReadInv
<1>2. text \in Seq(Nat) /\ Len(text) \in Nat BY TextIs DEF ReadInv
<1>3. s = 0 /\ pos = Len(text) BY <1>1, <1>2 DEF Begins, ReadInv, Ends, AtEnd
<1>4. PICK L \in Nat : L = Len(text) /\ L = pos - s BY <1>2, <1>3
<1>5. PICK t : /\ t = Trimmed /\ t \in Seq(0 .. From - 1) /\ Len(t) = L
               /\ \A k \in 1 .. L : t[k] = text[s + k]
  BY <1>1, <1>4, TrimmedIs
<1>6. ASSUME NEW k \in 1 .. L PROVE t[k] = text[k]
  <2>1. s + k = k BY <1>3
  <2> QED BY <1>5, <2>1
<1>7. t = [k \in 1 .. L |-> t[k]] BY <1>5
<1>8. text = [k \in 1 .. L |-> text[k]]
  <2>1. PICK x \in Seq(Nat) : x = text /\ Len(x) = L BY <1>2, <1>4
  <2>2. x = [k \in 1 .. L |-> x[k]] BY <2>1
  <2> QED BY <2>1, <2>2
<1> QED BY <1>5, <1>6, <1>7, <1>8

\* Bytes have one text and a text one meaning.
LEMMA OneText ==
    ASSUME NEW x, NEW y, Encodes(x, y)
    PROVE  /\ \A z : Encodes(x, z) => z = y
           /\ \A z : Encodes(z, y) => z = x
<1>1. ASSUME NEW z, Encodes(x, z) PROVE z = y
  <2>1. y \in Seq(0 .. 57) /\ z \in Seq(0 .. 57) BY <1>1 DEF Encodes
  <2>2. LeadingZeros(z) = LeadingZeros(y) /\ Number(z, 58) = Number(y, 58)
    BY <1>1 DEF Encodes, Converts
  <2>3. PICK b \in Nat \ {0} : b = 58 OBVIOUS
  <2>4. b - 1 = 57 BY <2>3
  <2>5. y \in Seq(0 .. b - 1) /\ z \in Seq(0 .. b - 1) BY <2>1, <2>4
  <2>6. LeadingZeros(z) = LeadingZeros(y) /\ Number(z, b) = Number(y, b) BY <2>2, <2>3
  <2> QED BY <2>5, <2>6, SameText, Zenon
<1>2. ASSUME NEW z, Encodes(z, y) PROVE z = x
  <2>1. x \in Seq(0 .. 255) /\ z \in Seq(0 .. 255) BY <1>2 DEF Encodes
  <2>2. LeadingZeros(z) = LeadingZeros(x) /\ Number(z, 256) = Number(x, 256)
    BY <1>2 DEF Encodes, Converts
  <2>3. PICK b \in Nat \ {0} : b = 256 OBVIOUS
  <2>4. b - 1 = 255 BY <2>3
  <2>5. x \in Seq(0 .. b - 1) /\ z \in Seq(0 .. b - 1) BY <2>1, <2>4
  <2>6. LeadingZeros(z) = LeadingZeros(x) /\ Number(z, b) = Number(x, b) BY <2>2, <2>3
  <2> QED BY <2>5, <2>6, SameText, Zenon
<1> QED BY <1>1, <1>2

\* Decoding undoes encoding, for bytes and characters of any length.  What
\* EncodeBase58BTC returns is the one text of its bytes, so that no two keys or
\* addresses share one; and what DecodeBase58 returns for a text are the only bytes
\* that have it, so that for the text of EncodeBase58BTC it returns those it was
\* made from.
THEOREM DecodeUndoesEncode ==
    Spec => [](pc = "done" =>
                 /\ encoding  => \A y : Encodes(text, y) <=> y = res
                 /\ ~encoding => \A x : Encodes(x, Trimmed) <=> x = res)
<1>1. ASSUME ReadInv, HoldsInv, pc = "done"
      PROVE  /\ encoding  => \A y : Encodes(text, y) <=> y = res
             /\ ~encoding => \A x : Encodes(x, Trimmed) <=> x = res
  <2>1. /\ Trimmed \in Seq(0 .. From - 1) /\ res \in Seq(0 .. To - 1)
        /\ Converts(Trimmed, From, res, To)
    BY <1>1, ResultConverts
  <2>2. CASE encoding
    <3>1. From = 256 /\ To = 58 /\ 256 - 1 = 255 /\ 58 - 1 = 57 BY <2>2 DEF From, To
    <3>2. Trimmed = text BY <1>1, <2>2, TrimmedBytes
    <3>3. Encodes(text, res) BY <2>1, <3>1, <3>2 DEF Encodes
    <3> QED BY <2>2, <3>3, OneText
  <2>3. CASE ~encoding
    <3>1. From = 58 /\ To = 256 /\ 256 - 1 = 255 /\ 58 - 1 = 57 BY <2>3 DEF From, To
    <3>2. Converts(res, 256, Trimmed, 58) BY <2>1, <3>1 DEF Converts
    <3>3. Encodes(res, Trimmed) BY <2>1, <3>1, <3>2 DEF Encodes
    <3> QED BY <2>3, <3>3, OneText
  <2> QED BY <2>2, <2>3
<1> QED BY <1>1, Invariance, PTL

-----------------------------------------------------------------------------
(* Whom a transaction pays: theorems about module Payment.                 *)

\* An address that passes checkAddressBase56 is the one its network byte and its
\* hash have.
Checked(address) ==
    /\ address.decodes
    /\ address.bytes = AddressBytes(address.bytes.version, address.bytes.hash)

\* From the check on the address stays checked, every input is signed for the
\* public key of the wallet, and there is one to take the change's key from.
PayInv ==
    /\ to \in Texts /\ inputs \in Nat \ {0}
    /\ step \in {"transfers", "done"} => Checked(to)
    /\ transfers \in Seq({PubKey(wallet)})
    /\ step = "refused" =>
        ~checkAddressBase56(to) \/ ~hexes \/ AddressToPubkeyScript(to.bytes) = Unscripted
    /\ step = "done" =>
        /\ Len(transfers) = inputs
        /\ AddressToPubkeyScript(to.bytes) # Unscripted
        /\ outputs[1] = AddressToPubkeyScript(to.bytes)
        /\ change => outputs[2] = Script("pubkey", PubKey(wallet))

LEMMA CheckedText ==
    ASSUME NEW address \in Texts, checkAddressBase56(address)
    PROVE  Checked(address)
<1>1. address # NoBase58
  BY DEF checkAddressBase56, NoBase58
<1>2. PICK bytes \in [size : Sizes, version : Versions, hash : Hashes,
                       sum : {doubleHash(data) : data \in Versions \X Hashes}] :
        address = Text(bytes)
  BY <1>1 DEF Texts
<1> QED BY <1>2 DEF checkAddressBase56, Checked, AddressBytes, Text

\* What AddressToPubkeyScript makes of a good address names what the address names.
LEMMA ScriptNames ==
    ASSUME NEW version, NEW hash,
           AddressToPubkeyScript(AddressBytes(version, hash)) # Unscripted
    PROVE  Names(AddressBytes(version, hash),
                 AddressToPubkeyScript(AddressBytes(version, hash)))
BY DEF AddressToPubkeyScript, AddressBytes, Names, Script

\* Whatever its length, a public key has an address, and the change a script.
LEMMA SenderScript ==
    ASSUME NEW pubKey
    PROVE  /\ AddressToPubkeyScript(SenderAddress(pubKey)) = Script("pubkey", pubKey)
           /\ Script("pubkey", pubKey) # Unscripted
           /\ Names(AddressBytes(0, pubKey), Script("pubkey", pubKey))
<1>1. SenderAddress(pubKey) = AddressBytes(0, pubKey)
  BY DEF SenderAddress, PubkeyToAddress, CompressedPubkeyToAddress, SizeOf, EC_KEY_LENGTH,
     EC_PUB_KEY_LENGTH
<1>2. AddressToPubkeyScript(AddressBytes(0, pubKey)) = Script("pubkey", pubKey)
  BY DEF AddressToPubkeyScript, AddressBytes
<1>3. Script("pubkey", pubKey) # Unscripted BY DEF Script, Unscripted
<1>4. Names(AddressBytes(0, pubKey), Script("pubkey", pubKey)) BY DEF AddressBytes, Names, Script
<1> QED BY <1>1, <1>2, <1>3, <1>4

LEMMA PayInvariance == PaymentSpec => []PayInv
<1>1. PaymentInit => PayInv
  BY MaxInputsAssumption DEF PaymentInit, PayInv
<1>2. PayInv /\ [PaymentNext]_paymentVars => PayInv'
  <2> SUFFICES ASSUME PayInv, [PaymentNext]_paymentVars PROVE PayInv'
    OBVIOUS
  <2> USE DEF PayInv, given
  <2>1. CASE genTransaction
    BY <2>1, CheckedText DEF genTransaction, RefusePayment, checkAddressBase56
  <2>2. CASE AddTransfer
    BY <2>2 DEF AddTransfer
  <2>3. CASE BuildOutputs
    <3>1. UNCHANGED <<given, transfers>>
      BY <2>3 DEF BuildOutputs, RefusePayment
    <3>2. step' = "refused" \/ step' = "done"
      BY <2>3 DEF BuildOutputs, RefusePayment
    <3>3. ASSUME step' = "refused" PROVE PayInv'
      <4>1. transfers[1] = PubKey(wallet)
        BY <2>3 DEF BuildOutputs
      <4>2. AddressToPubkeyScript(to.bytes) = Unscripted
        BY <2>3, <3>3, <4>1, SenderScript DEF BuildOutputs
      <4> QED BY <3>1, <3>3, <4>2 DEF checkAddressBase56
    <3>4. ASSUME step' = "done" PROVE PayInv'
      <4>1. transfers[1] = PubKey(wallet)
        BY <2>3 DEF BuildOutputs
      <4>2. /\ Len(transfers) = inputs /\ step = "transfers"
            /\ AddressToPubkeyScript(to.bytes) # Unscripted
            /\ outputs' = <<AddressToPubkeyScript(to.bytes)>>
                 \o (IF change
                       THEN <<Script("pubkey", PubKey(wallet))>>
                       ELSE <<>>)
        BY <2>3, <3>4, <4>1, SenderScript DEF BuildOutputs, RefusePayment
      <4> QED BY <3>1, <3>4, <4>2
    <3> QED BY <3>2, <3>3, <3>4
  <2>4. CASE UNCHANGED paymentVars
    BY <2>4 DEF paymentVars
  <2> QED BY <2>1, <2>2, <2>3, <2>4 DEF PaymentNext, PaymentOver
<1> QED BY <1>1, <1>2, PTL DEF PaymentSpec

\* genTransaction pays nobody but who the address it is given names, whatever the
\* address, the wallet and the number of inputs.
THEOREM OnlyTheReceiverIsPaid == PaymentSpec => []PaysReceiver
<1>1. PayInv => PaysReceiver
  BY ScriptNames DEF PayInv, PaysReceiver, Checked
<1> QED BY <1>1, PayInvariance, PTL

\* The change, and every signature, is for the address of the wallet.
THEOREM ChangeIsTheWallets == PaymentSpec => []ChangeComesBack
<1>1. PayInv => ChangeComesBack
  BY SenderScript DEF PayInv, ChangeComesBack, getAddress
<1> QED BY <1>1, PayInvariance, PTL

\* Both kinds of address of the main network can be paid, whatever their hash.
THEOREM NoAddressIsRefused == PaymentSpec => []EveryAddressPaid
<1>1. ASSUME NEW version \in {0, 5}, NEW hash
      PROVE  AddressToPubkeyScript(AddressBytes(version, hash)) # Unscripted
  BY DEF AddressToPubkeyScript, AddressBytes, Script, Unscripted
<1>2. ASSUME to.decodes, NEW version, NEW hash, to.bytes = AddressBytes(version, hash)
      PROVE  checkAddressBase56(to)
  BY <1>2 DEF checkAddressBase56, AddressBytes
<1>3. PayInv => EveryAddressPaid
  BY <1>1, <1>2 DEF PayInv, EveryAddressPaid
<1> QED BY <1>3, PayInvariance, PTL
=============================================================================
