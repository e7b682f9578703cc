----------------------------- MODULE BtcTxProofs -----------------------------
(***************************************************************************)
(* Proofs about BtcTx, for every number of inputs and every size of their  *)
(* scripts and signatures.                                                 *)
(***************************************************************************)
EXTENDS BtcTx, SequenceTheorems, FunctionTheorems, WellFoundedInduction, TLAPS

\* What a byte may hold: numbers, those that IntegerToBuffer writes among them.
Values == Nat \cup {(v \div 256 ^ (k - 1)) % 256 : v \in Nat, k \in Nat}
Names  == {"byte", "version", "outpoint", "sequence", "script", "hashcode", "amount",
           "receiver", "change", "sender", "locktime", "signature"}
Bytes  == Names \X Nat \X Values

-----------------------------------------------------------------------------
(* Bytes.                                                                  *)

\* A field has the size that is asked for.
LEMMA FieldBytes ==
    ASSUME NEW name \in Names, NEW n \in Nat, NEW size \in Nat
    PROVE  Field(name, n, size) \in Seq(Bytes) /\ Len(Field(name, n, size)) = size
<1>1. \A k \in 1 .. size : <<name, n, k>> \in Bytes BY DEF Bytes, Values
<1>2. Field(name, n, size) \in [1 .. size -> Bytes]
  <2> HIDE DEF Bytes
  <2> QED BY <1>1 DEF Field
<1> QED BY <1>2

\* A byte with a value is a byte.
LEMMA ByteBytes == ASSUME NEW v \in Values PROVE Byte(v) \in Bytes
  BY DEF Byte, Bytes, Names

\* IntegerToBuffer writes bytes.
LEMMA IntegerBytes ==
    ASSUME NEW v \in Nat, NEW w \in Nat
    PROVE  IntegerToBuffer(v, w) \in Seq(Bytes)
<1>1. \A k \in 1 .. w : (v \div 256 ^ (k - 1)) % 256 \in Values BY DEF Values
<1>2. \A k \in 1 .. w : Byte((v \div 256 ^ (k - 1)) % 256) \in Bytes BY <1>1, ByteBytes
<1> QED BY <1>2 DEF IntegerToBuffer

\* PackInteger writes bytes, whichever of its four forms it takes.
LEMMA PackBytes == ASSUME NEW v \in Nat PROVE PackInteger(v) \in Seq(Bytes)
<1>1. PICK a, b, c, d, e, f, g :
         /\ a = Byte(v) /\ b = Byte(253) /\ c = Byte(254) /\ d = Byte(255)
         /\ e = IntegerToBuffer(v, 2) /\ f = IntegerToBuffer(v, 4) /\ g = IntegerToBuffer(v, 8)
  OBVIOUS
<1>2. /\ a \in Bytes /\ b \in Bytes /\ c \in Bytes /\ d \in Bytes BY <1>1, ByteBytes DEF Values
<1>3. e \in Seq(Bytes) /\ f \in Seq(Bytes) /\ g \in Seq(Bytes) BY <1>1, IntegerBytes
<1>4. /\ <<a>> \in Seq(Bytes) /\ <<b>> \o e \in Seq(Bytes) /\ <<c>> \o f \in Seq(Bytes)
      /\ <<d>> \o g \in Seq(Bytes)
  BY <1>2, <1>3
<1>5. PackInteger(v) \in {<<a>>, <<b>> \o e, <<c>> \o f, <<d>> \o g}
  BY <1>1 DEF PackInteger
<1> QED BY <1>4, <1>5

\* The parts that do not depend on the transaction.
LEMMA PartBytes ==
    ASSUME NEW j \in Nat, NEW n \in Nat
    PROVE  /\ version(n) \in Seq(Bytes) /\ outpoint(j) \in Seq(Bytes)
           /\ sequence(j) \in Seq(Bytes) /\ hashcodetype \in Seq(Bytes) /\ Len(hashcodetype) = 4
<1>1. PICK a, b : a = Field("version", 0, 4) /\ b = PackInteger(n) OBVIOUS
<1>2. a \in Seq(Bytes) /\ b \in Seq(Bytes) BY <1>1, FieldBytes, PackBytes DEF Names
<1>3. version(n) \in Seq(Bytes) BY <1>1, <1>2 DEF version
<1>4. /\ outpoint(j) \in Seq(Bytes) /\ sequence(j) \in Seq(Bytes)
      /\ hashcodetype \in Seq(Bytes) /\ Len(hashcodetype) = 4
  <2>1. "outpoint" \in Names /\ "sequence" \in Names /\ "hashcode" \in Names BY DEF Names
  <2>2. 0 \in Nat /\ 4 \in Nat /\ 36 \in Nat OBVIOUS
  <2> QED BY <2>1, <2>2, FieldBytes DEF outpoint, sequence, hashcodetype
<1> QED BY <1>3, <1>4

\* The script of an input.
LEMMA ScriptBytes ==
    ASSUME NEW j, j \in Nat, scripts[j] \in Nat
    PROVE  script(j) \in Seq(Bytes) /\ fieldSize(j) = Len(script(j))
<1>1. PICK a, b : a = PackInteger(scripts[j]) /\ b = Field("script", j, scripts[j]) OBVIOUS
<1>2. a \in Seq(Bytes) /\ b \in Seq(Bytes) /\ Len(b) = scripts[j]
  <2>1. "script" \in Names BY DEF Names
  <2>2. b \in Seq(Bytes) /\ Len(b) = scripts[j] BY <1>1, <2>1, FieldBytes
  <2>3. a \in Seq(Bytes) BY <1>1, PackBytes
  <2> QED BY <2>2, <2>3
<1>3. a \o b \in Seq(Bytes) /\ Len(a \o b) = Len(b) + Len(a) BY <1>2
<1> QED BY <1>1, <1>2, <1>3 DEF script, fieldSize

\* The script of a signed input.
LEMMA InputscriptBytes ==
    ASSUME NEW j \in Nat, NEW size \in Nat
    PROVE  inputscript(j, size) \in Seq(Bytes)
<1>1. PICK a, b : a = Byte(size) /\ b = Field("signature", j, size) OBVIOUS
<1>2. a \in Bytes /\ b \in Seq(Bytes) BY <1>1, ByteBytes, FieldBytes DEF Names, Values
<1>3. <<a>> \o b \in Seq(Bytes) BY <1>2
<1> QED BY <1>1, <1>3 DEF inputscript

\* The outputs of a transaction, with or without the change.
LEMMA OutputsBytes ==
    ASSUME receiver \in Nat
    PROVE  Outputs \in Seq(Bytes)
<1>1. PICK a, b, c, d, e, f, g, h :
         /\ a = PackInteger(outcount) /\ b = Field("amount", 0, 8) /\ c = PackInteger(receiver)
         /\ d = Field("receiver", 0, receiver) /\ e = Field("change", 0, 8)
         /\ f = PackInteger(25) /\ g = Field("sender", 0, 25) /\ h = Field("locktime", 0, 4)
  OBVIOUS
<1>2. outcount \in Nat BY DEF outcount
<1>3. /\ a \in Seq(Bytes) /\ b \in Seq(Bytes) /\ c \in Seq(Bytes) /\ d \in Seq(Bytes)
      /\ e \in Seq(Bytes) /\ f \in Seq(Bytes) /\ g \in Seq(Bytes) /\ h \in Seq(Bytes)
  BY <1>1, <1>2, PackBytes, FieldBytes DEF Names
<1>4. PICK o : o = IF outcount = 2 THEN e \o f \o g ELSE <<>> OBVIOUS
<1>5. o \in Seq(Bytes) BY <1>3, <1>4
<1>6. Outputs = a \o b \o c \o d \o o \o h BY <1>1, <1>4 DEF Outputs
<1> QED BY <1>3, <1>5, <1>6

-----------------------------------------------------------------------------
(* substr and replace.                                                     *)

\* s consists of three parts, of which the first two have these sizes.
Parted(s, A, B, C, a, b) ==
    /\ A \in Seq(Bytes) /\ B \in Seq(Bytes) /\ C \in Seq(Bytes) /\ s = A \o B \o C
    /\ a = Len(A) /\ b = Len(B)

\* A part of a string that begins and ends where parts do.
LEMMA Cut ==
    ASSUME NEW s, NEW A, NEW B, NEW C, NEW a, NEW b, Parted(s, A, B, C, a, b)
    PROVE  substr(s, a, b) = B
<1>1. /\ A \in Seq(Bytes) /\ B \in Seq(Bytes) /\ C \in Seq(Bytes) /\ s = A \o B \o C
      /\ a = Len(A) /\ b = Len(B) /\ a \in Nat /\ b \in Nat
  BY DEF Parted
<1>2. PICK c \in Nat : s \in Seq(Bytes) /\ Len(s) = a + b + c
  <2>1. s \in Seq(Bytes) /\ Len(s) = a + b + Len(C) /\ Len(C) \in Nat BY <1>1
  <2> QED BY <2>1
<1>3. \A k \in 1 .. b : s[a + k] = B[k] BY <1>1
<1>4. substr(s, a, b) = SubSeq(s, a + 1, a + b)
  <2>1. (IF a + b > Len(s) THEN Len(s) ELSE a + b) = a + b BY <1>1, <1>2
  <2> QED BY <2>1 DEF substr
<1>5. PICK t : t = SubSeq(s, a + 1, a + b) OBVIOUS
<1>6. t \in Seq(Bytes) /\ Len(t) = b /\ \A k \in 1 .. b : t[k] = s[a + k]
  <2>1. \A k \in a + 1 .. a + b : k \in 1 .. Len(s) BY <1>1, <1>2
  <2>2. \A k \in a + 1 .. a + b : s[k] \in Bytes BY <1>2, <2>1
  <2>3. a + 1 \in Int /\ a + b \in Int BY <1>1
  <2>4. /\ t \in Seq(Bytes) /\ Len(t) = IF a + 1 <= a + b THEN (a + b) - (a + 1) + 1 ELSE 0
        /\ \A k \in 1 .. (a + b) - (a + 1) + 1 : t[k] = s[(a + 1) + k - 1]
    BY <1>5, <2>2, <2>3, SubSeqProperties
  <2>5. /\ (a + b) - (a + 1) + 1 = b
        /\ (IF a + 1 <= a + b THEN (a + b) - (a + 1) + 1 ELSE 0) = b
        /\ \A k \in 1 .. b : (a + 1) + k - 1 = a + k
    BY <1>1
  <2> QED BY <2>4, <2>5
<1>7. t = B BY <1>1, <1>3, <1>6, SeqEqual
<1> QED BY <1>4, <1>5, <1>7

\* Another part in the place of one.
LEMMA Replaced ==
    ASSUME NEW s, NEW A, NEW B, NEW C, NEW a, NEW b, Parted(s, A, B, C, a, b),
           NEW D \in Seq(Bytes)
    PROVE  replace(s, a, b, D) = A \o D \o C
<1>1. /\ A \in Seq(Bytes) /\ B \in Seq(Bytes) /\ C \in Seq(Bytes) /\ s = A \o B \o C
      /\ a = Len(A) /\ b = Len(B) /\ a \in Nat /\ b \in Nat
  BY DEF Parted
<1>2. PICK c : c = Len(C) /\ c \in Nat /\ Len(s) - a - b = c BY <1>1
<1>3. PICK E : E = <<>> /\ E \in Seq(Bytes) /\ Len(E) = 0
  <2>1. <<>> \in Seq(Bytes) /\ Len(<<>>) = 0 OBVIOUS
  <2> QED BY <2>1
<1>4. substr(s, 0, a) = A
  <2>1. PICK T : T = B \o C /\ T \in Seq(Bytes)
    <3>1. B \o C \in Seq(Bytes) BY <1>1
    <3> QED BY <3>1
  <2>2. s = E \o A \o T BY <1>1, <1>3, <2>1
  <2>3. Parted(s, E, A, T, 0, a) BY <1>1, <1>3, <2>1, <2>2 DEF Parted
  <2> QED BY <2>3, Cut
<1>5. substr(s, a + b, c) = C
  <2>1. PICK T : T = A \o B /\ T \in Seq(Bytes) /\ Len(T) = a + b
    <3>1. A \o B \in Seq(Bytes) /\ Len(A \o B) = a + b BY <1>1
    <3> QED BY <3>1
  <2>2. s = T \o C \o E BY <1>1, <1>3, <2>1
  <2>3. Parted(s, T, C, E, a + b, c) BY <1>1, <1>2, <1>3, <2>1, <2>2 DEF Parted
  <2> QED BY <2>3, Cut
<1> QED BY <1>2, <1>4, <1>5 DEF replace

-----------------------------------------------------------------------------
(* Induction: the smallest number that a set misses has a predecessor that *)
(* it does not miss.                                                       *)

\* A set of natural numbers has a smallest one.
LEMMA Smallest ==
    ASSUME NEW T, T \subseteq Nat, T # {}
    PROVE  \E x \in T : \A y \in T : x <= y
<1>1. PICK R : R = OpToRel(<, Nat) /\ IsWellFoundedOn(R, Nat) BY NatLessThanWellFounded
<1>2. PICK x \in T : \A y \in T : ~(<<y, x>> \in R) BY <1>1, WFMin
<1>3. \A y \in Nat : y < x => <<y, x>> \in R BY <1>1 DEF OpToRel
<1>4. ASSUME NEW y \in T PROVE x <= y
  <2>1. ~(y < x) BY <1>2, <1>3
  <2> QED BY <2>1
<1> QED BY <1>4

\* What holds for 0 and passes from k to k + 1 holds up to m.
LEMMA UpTo ==
    ASSUME NEW P, NEW m \in Nat, 0 \in P, \A k \in 0 .. m - 1 : k \in P => k + 1 \in P
    PROVE  0 .. m \subseteq P
<1> DEFINE T == (0 .. m) \ P
<1> SUFFICES ASSUME T # {} PROVE FALSE OBVIOUS
<1>1. PICK x \in T : \A y \in T : x <= y
  <2>1. T \subseteq Nat OBVIOUS
  <2> HIDE DEF T
  <2> QED BY <2>1, Smallest
<1>2. x # 0 /\ x - 1 \in 0 .. m - 1 OBVIOUS
<1>3. x - 1 \notin T BY <1>1, <1>2
<1>4. x - 1 \in P BY <1>2, <1>3
<1>5. (x - 1) + 1 \in P BY <1>2, <1>4
<1> QED BY <1>5

\* What is written up to input k, given the script field of each of n inputs.
Writes(p, n, f) ==
    /\ p[0] = version(n) /\ \A k \in 0 .. n : p[k] \in Seq(Bytes)
    /\ \A k \in 1 .. n : p[k] = p[k - 1] \o outpoint(k) \o f[k] \o sequence(k)

\* An input more.
LEMMA InputBytes ==
    ASSUME NEW x \in Seq(Bytes), NEW y \in Seq(Bytes), NEW k \in Nat
    PROVE  x \o outpoint(k) \o y \o sequence(k) \in Seq(Bytes)
<1>1. outpoint(k) \in Seq(Bytes) /\ sequence(k) \in Seq(Bytes) BY PartBytes
<1>2. x \o outpoint(k) \in Seq(Bytes) BY <1>1
<1>3. x \o outpoint(k) \o y \in Seq(Bytes) BY <1>2
<1> QED BY <1>1, <1>3

\* p writes the inputs as far as m.
WritesTo(p, n, m, f) ==
    p = [k \in 0 .. m |-> IF k = 0 THEN version(n)
                                   ELSE p[k - 1] \o outpoint(k) \o f[k] \o sequence(k)]

\* There is such a function: each prefix is the one before and an input more.
LEMMA WritingExists ==
    ASSUME NEW n \in Nat, NEW f
    PROVE  \E p : WritesTo(p, n, n, f)
<1> DEFINE P == {m \in 0 .. n : \E p : WritesTo(p, n, m, f)}
<1>1. 0 \in P
  <2>1. WritesTo([k \in 0 .. 0 |-> version(n)], n, 0, f) BY DEF WritesTo
  <2> QED BY <2>1
<1>2. ASSUME NEW m \in 0 .. n - 1, m \in P PROVE m + 1 \in P
  <2>1. PICK p : WritesTo(p, n, m, f) BY <1>2
  <2>2. PICK e : e = p[m] \o outpoint(m + 1) \o f[m + 1] \o sequence(m + 1) OBVIOUS
  <2>3. PICK q : q = [k \in 0 .. m + 1 |-> IF k = m + 1 THEN e ELSE p[k]] OBVIOUS
  <2>4. \A k \in 0 .. m : q[k] = p[k] BY <2>3
  <2>5. \A k \in 0 .. m : p[k] = IF k = 0 THEN version(n)
                                 ELSE p[k - 1] \o outpoint(k) \o f[k] \o sequence(k)
    BY <2>1 DEF WritesTo
  <2>6. \A k \in 0 .. m + 1 : q[k] = IF k = 0 THEN version(n)
                                     ELSE q[k - 1] \o outpoint(k) \o f[k] \o sequence(k)
    <3> TAKE k \in 0 .. m + 1
    <3>1. CASE k = m + 1
      <4>1. q[k] = e /\ k # 0 /\ k - 1 = m /\ q[k - 1] = p[m] BY <2>3, <2>4, <3>1
      <4> QED BY <2>2, <3>1, <4>1
    <3>2. CASE k # m + 1
      <4>1. k \in 0 .. m /\ (k # 0 => k - 1 \in 0 .. m) BY <3>2
      <4> QED BY <2>4, <2>5, <4>1
    <3> QED BY <3>1, <3>2
  <2>7. WritesTo(q, n, m + 1, f) BY <2>3, <2>6 DEF WritesTo
  <2>8. m + 1 \in 0 .. n OBVIOUS
  <2> QED BY <2>7, <2>8
<1>3. 0 .. n \subseteq P
  <2> HIDE DEF P
  <2> QED BY <1>1, <1>2, UpTo
<1>4. n \in P BY <1>3
<1> QED BY <1>4

\* The function that Serialized defines by recursion writes one input after the other.
LEMMA WritingWrites ==
    ASSUME NEW n \in Nat, NEW f, \A k \in 1 .. n : f[k] \in Seq(Bytes), NEW p, WritesTo(p, n, n, f)
    PROVE  Writes(p, n, f)
<1>1. \A k \in 0 .. n : p[k] = IF k = 0 THEN version(n)
                               ELSE p[k - 1] \o outpoint(k) \o f[k] \o sequence(k)
  BY DEF WritesTo
<1>2. p[0] = version(n) BY <1>1
<1>3. ASSUME NEW k \in 1 .. n
      PROVE  p[k] = p[k - 1] \o outpoint(k) \o f[k] \o sequence(k)
  <2>1. k \in 0 .. n /\ k # 0 OBVIOUS
  <2> QED BY <1>1, <2>1, Zenon
<1> DEFINE P == {k \in 0 .. n : p[k] \in Seq(Bytes)}
<1>4. 0 \in P
  <2>1. version(n) \in Seq(Bytes) BY 0 \in Nat, PartBytes, Zenon
  <2> QED BY <1>2, <2>1
<1>5. ASSUME NEW k \in 0 .. n - 1, k \in P PROVE k + 1 \in P
  <2>1. k + 1 \in 1 .. n /\ k + 1 \in Nat /\ k + 1 \in 0 .. n /\ (k + 1) - 1 = k OBVIOUS
  <2>2. PICK y \in Seq(Bytes) : y = f[k + 1] BY <2>1
  <2>3. PICK x \in Seq(Bytes) : x = p[k] BY <1>5
  <2>4. x \o outpoint(k + 1) \o y \o sequence(k + 1) \in Seq(Bytes) BY <2>1, InputBytes
  <2>5. p[k + 1] = x \o outpoint(k + 1) \o y \o sequence(k + 1) BY <1>3, <2>1, <2>2, <2>3
  <2> QED BY <2>1, <2>4, <2>5
<1>6. 0 .. n \subseteq P
  <2> HIDE DEF P
  <2> QED BY <1>4, <1>5, UpTo
<1> QED BY <1>2, <1>3, <1>6 DEF Writes

\* Serialized writes the inputs one after the other.
LEMMA SerializedWrites ==
    ASSUME scripts \in Seq(Nat), NEW n, n = Len(scripts), NEW f,
           \A k \in 1 .. n : f[k] \in Seq(Bytes)
    PROVE  \E p : Writes(p, n, f) /\ Serialized(f) = p[n] \o Outputs
<1>1. n \in Nat OBVIOUS
<1>2. PICK p : p = CHOOSE q : WritesTo(q, n, n, f) OBVIOUS
<1>3. WritesTo(p, n, n, f) BY <1>1, <1>2, WritingExists, Zenon
<1>4. Serialized(f) = p[n] \o Outputs BY <1>2 DEF Serialized, WritesTo
<1> QED BY <1>1, <1>3, <1>4, WritingWrites

\* Fields that agree up to w write the same up to w.
Agree(f, g, w) == \A k \in 1 .. w : f[k] = g[k]

\* What is written depends on the fields that are written alone.
LEMMA SameBefore ==
    ASSUME NEW n \in Nat, NEW f, NEW p, Writes(p, n, f), NEW g, NEW q, Writes(q, n, g),
           NEW w \in 0 .. n, Agree(f, g, w)
    PROVE  \A k \in 0 .. w : p[k] = q[k]
<1> DEFINE P == {k \in 0 .. w : p[k] = q[k]}
<1>1. 0 \in P BY DEF Writes
<1>2. ASSUME NEW k \in 0 .. w - 1, k \in P PROVE k + 1 \in P
  <2>1. k + 1 \in 1 .. n /\ k + 1 \in 1 .. w /\ k + 1 \in 0 .. w /\ (k + 1) - 1 = k OBVIOUS
  <2>2. f[k + 1] = g[k + 1] BY <2>1 DEF Agree
  <2>3. p[k + 1] = p[k] \o outpoint(k + 1) \o f[k + 1] \o sequence(k + 1) BY <2>1 DEF Writes
  <2>4. q[k + 1] = q[k] \o outpoint(k + 1) \o g[k + 1] \o sequence(k + 1) BY <2>1 DEF Writes
  <2> QED BY <1>2, <2>1, <2>2, <2>3, <2>4
<1>3. 0 .. w \subseteq P
  <2> HIDE DEF P
  <2> QED BY <1>1, <1>2, UpTo
<1> QED BY <1>3

\* The grouping of parts does not matter.
Regroups(A, B, C) == (A \o B) \o C = A \o (B \o C)

\* It does not for bytes.
LEMMA Regroup ==
    ASSUME NEW A \in Seq(Bytes), NEW B \in Seq(Bytes), NEW C \in Seq(Bytes)
    PROVE  Regroups(A, B, C)
  BY ConcatAssociative DEF Regroups

\* A part more at the end.
LEMMA PartedLonger ==
    ASSUME NEW s, NEW A, NEW B, NEW C, NEW a, NEW b, Parted(s, A, B, C, a, b),
           NEW D \in Seq(Bytes)
    PROVE  Parted(s \o D, A, B, C \o D, a, b)
<1>1. /\ A \in Seq(Bytes) /\ B \in Seq(Bytes) /\ C \in Seq(Bytes) /\ s = A \o B \o C
      /\ a = Len(A) /\ b = Len(B)
  BY DEF Parted
<1>2. A \o B \in Seq(Bytes) /\ C \o D \in Seq(Bytes) BY <1>1
<1>3. (A \o B \o C) \o D = A \o B \o (C \o D)
  <2>1. PICK T \in Seq(Bytes) : T = A \o B BY <1>2
  <2>2. Regroups(T, C, D) BY <1>1, Regroup
  <2> QED BY <2>1, <2>2 DEF Regroups
<1> QED BY <1>1, <1>2, <1>3 DEF Parted

\* Another input behind the parts.
LEMMA InputLonger ==
    ASSUME NEW s, NEW A, NEW B, NEW C, NEW a, NEW b, Parted(s, A, B, C, a, b),
           NEW y \in Seq(Bytes), NEW k \in Nat
    PROVE  Parted(s \o outpoint(k) \o y \o sequence(k), A, B,
                  C \o outpoint(k) \o y \o sequence(k), a, b)
<1>1. outpoint(k) \in Seq(Bytes) /\ sequence(k) \in Seq(Bytes) BY PartBytes
<1>2. Parted(s \o outpoint(k), A, B, C \o outpoint(k), a, b) BY <1>1, PartedLonger
<1>3. Parted(s \o outpoint(k) \o y, A, B, C \o outpoint(k) \o y, a, b) BY <1>2, PartedLonger
<1> QED BY <1>1, <1>3, PartedLonger

\* Fields that agree but for the one of input w.
Differ(f, g, n, w) == \A k \in 1 .. n : k # w => f[k] = g[k]

\* A is what precedes the field of input w; the sizes of A and of the field in f and in g.
Fronts(A, p, f, g, w, a, b, c) ==
    A = p[w - 1] \o outpoint(w) /\ a = Len(A) /\ b = Len(f[w]) /\ c = Len(g[w])

\* Fields that agree but for the one of input w write the same before and after it.
LEMMA Around ==
    ASSUME NEW n \in Nat, NEW f, NEW p, Writes(p, n, f), NEW g, NEW q, Writes(q, n, g),
           NEW w \in 1 .. n, Differ(f, g, n, w),
           \A k \in 1 .. n : f[k] \in Seq(Bytes), \A k \in 1 .. n : g[k] \in Seq(Bytes),
           NEW A, NEW a, NEW b, NEW c, Fronts(A, p, f, g, w, a, b, c)
    PROVE  \A k \in w .. n : \E R : /\ Parted(p[k], A, f[w], R, a, b)
                                    /\ Parted(q[k], A, g[w], R, a, c)
<1> DEFINE T(k) == \E R : Parted(p[k], A, f[w], R, a, b) /\ Parted(q[k], A, g[w], R, a, c)
           P == {d \in 0 .. n - w : T(w + d)}
<1> USE DEF Differ, Fronts
<1>1. 0 \in P
  <2>1. \A k \in 0 .. w - 1 : p[k] = q[k]
    <3>1. PICK h \in 0 .. n : h = w - 1 /\ Agree(f, g, h)
      <4>1. w - 1 \in 0 .. n /\ Agree(f, g, w - 1) BY DEF Agree
      <4> QED BY <4>1
    <3>2. \A k \in 0 .. h : p[k] = q[k] BY <3>1, SameBefore
    <3> QED BY <3>1, <3>2
  <2>2. p[w - 1] = q[w - 1] /\ p[w - 1] \in Seq(Bytes)
    <3>1. w - 1 \in 0 .. w - 1 /\ w - 1 \in 0 .. n OBVIOUS
    <3> QED BY <2>1, <3>1 DEF Writes
  <2>3. outpoint(w) \in Seq(Bytes) /\ sequence(w) \in Seq(Bytes)
    <3>1. w \in Nat OBVIOUS
    <3> QED BY <3>1, PartBytes
  <2>4. A \in Seq(Bytes) BY <2>2, <2>3
  <2>5. f[w] \in Seq(Bytes) /\ g[w] \in Seq(Bytes) OBVIOUS
  <2>6. p[w] = A \o f[w] \o sequence(w) /\ q[w] = A \o g[w] \o sequence(w)
    BY <2>2 DEF Writes
  <2>7. T(w) BY <2>3, <2>4, <2>5, <2>6 DEF Parted
  <2>8. w + 0 = w /\ 0 \in 0 .. n - w OBVIOUS
  <2> HIDE DEF T
  <2> QED BY <2>7, <2>8
<1>2. ASSUME NEW d \in 0 .. (n - w) - 1, d \in P PROVE d + 1 \in P
  <2>1. PICK k \in 1 .. n : k = w + (d + 1) /\ k - 1 = w + d /\ k # w /\ k \in Nat
    <3>1. /\ w + (d + 1) \in 1 .. n /\ (w + (d + 1)) - 1 = w + d /\ w + (d + 1) # w
          /\ w + (d + 1) \in Nat
      OBVIOUS
    <3> QED BY <3>1
  <2>2. PICK R : Parted(p[k - 1], A, f[w], R, a, b) /\ Parted(q[k - 1], A, g[w], R, a, c)
    BY <1>2, <2>1
  <2>3. PICK y \in Seq(Bytes) : y = f[k] /\ y = g[k] BY <2>1
  <2>4. /\ p[k] = p[k - 1] \o outpoint(k) \o y \o sequence(k)
        /\ q[k] = q[k - 1] \o outpoint(k) \o y \o sequence(k)
    BY <2>3 DEF Writes
  <2>5. PICK S : S = R \o outpoint(k) \o y \o sequence(k) OBVIOUS
  <2>6. Parted(p[k], A, f[w], S, a, b) BY <2>1, <2>2, <2>4, <2>5, InputLonger
  <2>7. Parted(q[k], A, g[w], S, a, c) BY <2>1, <2>2, <2>4, <2>5, InputLonger
  <2>8. T(w + (d + 1)) BY <2>1, <2>6, <2>7
  <2>9. d + 1 \in 0 .. n - w OBVIOUS
  <2> HIDE DEF T
  <2> QED BY <2>8, <2>9
<1>3. 0 .. n - w \subseteq P
  <2>1. n - w \in Nat OBVIOUS
  <2> HIDE DEF P
  <2> QED BY <1>1, <1>2, <2>1, UpTo
<1>4. ASSUME NEW k \in w .. n PROVE T(k)
  <2>1. k - w \in 0 .. n - w /\ w + (k - w) = k OBVIOUS
  <2>2. T(w + (k - w)) BY <1>3, <2>1
  <2> HIDE DEF T
  <2> QED BY <2>1, <2>2
<1> QED BY <1>4

\* s is what is written for these fields, and what follows.
Laid(s, n, f, p, O, H) ==
    /\ n \in Nat /\ Writes(p, n, f) /\ \A k \in 1 .. n : f[k] \in Seq(Bytes)
    /\ O \in Seq(Bytes) /\ H \in Seq(Bytes) /\ s = p[n] \o O \o H

\* Replacing the script of input w makes t of s, and moves the scripts behind it.
Replaces(s, t, n, f, p, g, q, w, a, b) ==
    /\ replace(s, a, b, g[w]) = t
    /\ \A k \in 1 .. n : Len(q[k - 1] \o outpoint(k)) =
          IF k > w THEN Len(p[k - 1] \o outpoint(k)) + Len(g[w]) - b
                   ELSE Len(p[k - 1] \o outpoint(k))

\* The field of input w has this place and this size.
PlacedAt(f, p, w, a, b) == a = Len(p[w - 1] \o outpoint(w)) /\ b = Len(f[w])

\* The script of input w is replaced: the transaction is the one with the new script, and
\* what follows has moved by the difference.
LEMMA ReplacedWrites ==
    ASSUME NEW s, NEW t, NEW n, NEW f, NEW p, NEW g, NEW q, NEW O, NEW H,
           Laid(s, n, f, p, O, H), Laid(t, n, g, q, O, H), NEW w \in 1 .. n, Differ(f, g, n, w),
           NEW a, NEW b, PlacedAt(f, p, w, a, b)
    PROVE  Replaces(s, t, n, f, p, g, q, w, a, b)
<1>0. /\ n \in Nat /\ Writes(p, n, f) /\ Writes(q, n, g)
      /\ \A k \in 1 .. n : f[k] \in Seq(Bytes) /\ g[k] \in Seq(Bytes)
      /\ O \in Seq(Bytes) /\ H \in Seq(Bytes) /\ s = p[n] \o O \o H /\ t = q[n] \o O \o H
      /\ \A k \in 1 .. n : k # w => f[k] = g[k]
  BY DEF Laid, Differ
<1>1. PICK A, c : A = p[w - 1] \o outpoint(w) /\ c = Len(g[w]) OBVIOUS
<1>2. a = Len(A) /\ b = Len(f[w]) BY <1>1 DEF PlacedAt
<1>3. \A k \in w .. n : \E R : /\ Parted(p[k], A, f[w], R, a, b)
                               /\ Parted(q[k], A, g[w], R, a, c)
  <2>1. Fronts(A, p, f, g, w, a, b, c) BY <1>1, <1>2 DEF Fronts
  <2>2. Differ(f, g, n, w) /\ w \in 1 .. n OBVIOUS
  <2>3. /\ n \in Nat /\ Writes(p, n, f) /\ Writes(q, n, g)
        /\ \A k \in 1 .. n : f[k] \in Seq(Bytes)
        /\ \A k \in 1 .. n : g[k] \in Seq(Bytes)
    BY <1>0
  <2> QED BY <2>1, <2>2, <2>3, Around
<1>4. replace(s, a, b, g[w]) = t
  <2>1. n \in w .. n BY <1>0
  <2>2. PICK R : Parted(p[n], A, f[w], R, a, b) /\ Parted(q[n], A, g[w], R, a, c) BY <1>3, <2>1
  <2>3. PICK S : S = R \o O \o H OBVIOUS
  <2>4. Parted(p[n] \o O, A, f[w], R \o O, a, b) /\ Parted(q[n] \o O, A, g[w], R \o O, a, c)
    BY <1>0, <2>2, PartedLonger
  <2>5. Parted(s, A, f[w], S, a, b) /\ Parted(t, A, g[w], S, a, c)
    BY <1>0, <2>3, <2>4, PartedLonger
  <2>6. PICK G \in Seq(Bytes) : G = g[w] BY <1>0
  <2>7. replace(s, a, b, G) = A \o G \o S BY <2>5, Replaced
  <2> QED BY <2>5, <2>6, <2>7 DEF Parted
<1>5. ASSUME NEW k \in 1 .. n
      PROVE  Len(q[k - 1] \o outpoint(k)) =
                 IF k > w THEN Len(p[k - 1] \o outpoint(k)) + Len(g[w]) - b
                          ELSE Len(p[k - 1] \o outpoint(k))
  <2>1. CASE k > w
    <3>1. PICK j \in w .. n : j = k - 1 BY <1>0, <2>1
    <3>2. PICK R : Parted(p[j], A, f[w], R, a, b) /\ Parted(q[j], A, g[w], R, a, c) BY <1>3
    <3>3. PICK o \in Seq(Bytes), x \in Seq(Bytes), y \in Seq(Bytes) :
             o = outpoint(k) /\ x = p[j] /\ y = q[j]
      <4>1. outpoint(k) \in Seq(Bytes) BY <1>0, PartBytes
      <4>2. p[j] \in Seq(Bytes) /\ q[j] \in Seq(Bytes) BY <1>0 DEF Writes
      <4> QED BY <4>1, <4>2
    <3>4. PICK r \in Nat, e \in Nat : r = Len(R) /\ e = Len(o)
      <4>1. R \in Seq(Bytes) BY <3>2 DEF Parted
      <4> QED BY <4>1
    <3>5. /\ Len(x) = a + b + r /\ Len(y) = a + c + r /\ a \in Nat /\ b \in Nat /\ c \in Nat
      BY <3>2, <3>3, <3>4 DEF Parted
    <3>6. Len(x \o o) = Len(x) + e /\ Len(y \o o) = Len(y) + e BY <3>4
    <3>7. PICK z \in Nat, u \in Nat, v \in Nat : z = a /\ u = b /\ v = c BY <3>5
    <3>8. PICK l, m : l = Len(x) /\ m = Len(y) OBVIOUS
    <3>9. l = z + u + r /\ m = z + v + r BY <3>5, <3>7, <3>8
    <3>10. m + e = (l + e) + v - u BY <3>9
    <3>11. Len(y \o o) = Len(x \o o) + c - b BY <3>6, <3>7, <3>8, <3>10
    <3> QED BY <1>1, <2>1, <3>1, <3>3, <3>11
  <2>2. CASE ~(k > w)
    <3>1. PICK h \in 0 .. n : k - 1 \in 0 .. h /\ Agree(f, g, h)
      <4>1. w - 1 \in 0 .. n /\ k - 1 \in 0 .. w - 1 /\ Agree(f, g, w - 1)
        BY <1>0, <2>2 DEF Agree
      <4> QED BY <4>1
    <3>2. \A j \in 0 .. h : p[j] = q[j] BY <1>0, <3>1, SameBefore
    <3> QED BY <2>2, <3>1, <3>2
  <2> QED BY <2>1, <2>2
<1> QED BY <1>4, <1>5 DEF Replaces

-----------------------------------------------------------------------------
(* removeScripts.                                                          *)

\* Where the field of input j lies in what is written.
LEMMA FieldAt ==
    ASSUME NEW n \in Nat, NEW f, NEW p, Writes(p, n, f), \A k \in 1 .. n : f[k] \in Seq(Bytes),
           NEW O \in Seq(Bytes), NEW H \in Seq(Bytes), NEW j \in 1 .. n
    PROVE  \E R : Parted(p[n] \o O \o H, p[j - 1] \o outpoint(j), f[j], R,
                         Len(p[j - 1] \o outpoint(j)), Len(f[j]))
<1>1. PICK A, a, b : A = p[j - 1] \o outpoint(j) /\ a = Len(A) /\ b = Len(f[j]) OBVIOUS
<1>2. \A k \in j .. n : \E R : Parted(p[k], A, f[j], R, a, b) /\ Parted(p[k], A, f[j], R, a, b)
  <2>1. Fronts(A, p, f, f, j, a, b, b) /\ Differ(f, f, n, j) BY <1>1 DEF Fronts, Differ
  <2> QED BY <2>1, Around
<1>3. n \in j .. n OBVIOUS
<1>4. PICK R : Parted(p[n], A, f[j], R, a, b) BY <1>2, <1>3
<1>5. Parted(p[n] \o O, A, f[j], R \o O, a, b) BY <1>4, PartedLonger
<1>6. Parted(p[n] \o O \o H, A, f[j], R \o O \o H, a, b) BY <1>5, PartedLonger
<1> QED BY <1>1, <1>6

\* s consists of four parts, of which the first three have these sizes.
Quartered(s, A, B, C, D, a, b, c) ==
    /\ A \in Seq(Bytes) /\ B \in Seq(Bytes) /\ C \in Seq(Bytes) /\ D \in Seq(Bytes)
    /\ s = A \o B \o C \o D /\ a = Len(A) /\ b = Len(B) /\ c = Len(C)

\* substr that begins at the third of four parts and has its size returns it.
LEMMA CutThird ==
    ASSUME NEW s, NEW A, NEW B, NEW C, NEW D, NEW a, NEW b, NEW c,
           Quartered(s, A, B, C, D, a, b, c)
    PROVE  substr(s, a + b, c) = C /\ a \in Nat /\ b \in Nat /\ c \in Nat
<1>1. /\ A \in Seq(Bytes) /\ B \in Seq(Bytes) /\ C \in Seq(Bytes) /\ D \in Seq(Bytes)
      /\ s = A \o B \o C \o D /\ a = Len(A) /\ b = Len(B) /\ c = Len(C)
      /\ a \in Nat /\ b \in Nat /\ c \in Nat
  BY DEF Quartered
<1>2. A \o B \in Seq(Bytes) /\ Len(A \o B) = a + b BY <1>1
<1>3. Parted(s, A \o B, C, D, a + b, c) BY <1>1, <1>2 DEF Parted
<1> QED BY <1>1, <1>3, Cut

\* Between the fields of two inputs lie the sequence of the one and the outpoint of the
\* other; behind the last, the sequence and the rest.
LiesBehind(s, n, f, p, O, H, j) ==
    LET a == Len(p[j - 1] \o outpoint(j)) + Len(f[j]) IN
    /\ a \in Nat /\ a <= Len(s) /\ Len(s) \in Nat
    /\ j = n => substr(s, a, Len(s) - a) = sequence(j) \o O \o H
    /\ j < n => /\ Len(p[j] \o outpoint(j + 1)) \in Nat
                /\ substr(s, a, Len(p[j] \o outpoint(j + 1)) - a)
                      = sequence(j) \o outpoint(j + 1)

\* This holds for every input of a transaction that is laid out.
LEMMA Behind ==
    ASSUME NEW s, NEW n, NEW f, NEW p, NEW O, NEW H, Laid(s, n, f, p, O, H), NEW j \in 1 .. n
    PROVE  LiesBehind(s, n, f, p, O, H, j)
<1> USE DEF Laid
<1>1. PICK A, B, C, h : A = p[j - 1] \o outpoint(j) /\ B = f[j] /\ C = sequence(j) /\ h = j - 1
  OBVIOUS
<1>2. A \in Seq(Bytes) /\ B \in Seq(Bytes) /\ C \in Seq(Bytes) /\ p[j] \in Seq(Bytes)
  <2>1. j - 1 \in 0 .. n /\ j \in 0 .. n /\ j \in Nat OBVIOUS
  <2>2. p[j - 1] \in Seq(Bytes) /\ p[j] \in Seq(Bytes) BY <2>1 DEF Writes
  <2>3. outpoint(j) \in Seq(Bytes) /\ sequence(j) \in Seq(Bytes) BY <2>1, PartBytes
  <2>4. p[j - 1] \o outpoint(j) \in Seq(Bytes) BY <2>2, <2>3
  <2> QED BY <1>1, <2>2, <2>3, <2>4
<1>3. PICK a \in Nat, b \in Nat, c \in Nat : a = Len(A) /\ b = Len(B) /\ c = Len(C) BY <1>2
<1>4. p[j] = A \o B \o C BY <1>1 DEF Writes
<1>5. p[n] \in Seq(Bytes) BY DEF Writes
<1>6. s \in Seq(Bytes) /\ Len(s) \in Nat BY <1>5
<1>7. a + b \in Nat /\ a + b <= Len(s)
  <2>1. PICK R : Parted(s, A, B, R, a, b) BY <1>1, <1>3, FieldAt
  <2>2. Len(s) = a + b + Len(R) /\ Len(R) \in Nat BY <1>3, <2>1 DEF Parted
  <2> QED BY <2>2
<1>8. ASSUME j = n PROVE substr(s, a + b, Len(s) - (a + b)) = C \o O \o H
  <2>1. PICK D, E, d : D = C \o O \o H /\ E = <<>> /\ d = Len(D) OBVIOUS
  <2>2. D \in Seq(Bytes) /\ E \in Seq(Bytes) BY <1>2, <2>1
  <2>3. s = A \o B \o D \o E
    <3>1. A \o B \in Seq(Bytes) /\ C \o O \in Seq(Bytes) BY <1>2
    <3>2. (A \o B \o C) \o O = A \o B \o (C \o O)
      <4>1. PICK T \in Seq(Bytes) : T = A \o B BY <3>1
      <4>2. Regroups(T, C, O) BY <1>2, Regroup
      <4> QED BY <4>1, <4>2 DEF Regroups
    <3>3. (A \o B \o (C \o O)) \o H = A \o B \o D
      <4>1. PICK T \in Seq(Bytes) : T = C \o O BY <3>1
      <4>2. PICK U \in Seq(Bytes) : U = A \o B BY <3>1
      <4>3. Regroups(U, T, H) BY Regroup
      <4> QED BY <2>1, <4>1, <4>2, <4>3 DEF Regroups
    <3>4. s = A \o B \o D BY <1>4, <1>8, <3>2, <3>3
    <3>5. A \o B \o D \in Seq(Bytes) BY <2>2, <3>1
    <3> QED BY <2>1, <3>4, <3>5, ConcatEmptySeq
  <2>4. Quartered(s, A, B, D, E, a, b, d) BY <1>2, <1>3, <2>1, <2>2, <2>3 DEF Quartered
  <2>5. substr(s, a + b, d) = D /\ d \in Nat BY <2>4, CutThird
  <2>6. Len(s) = a + b + d BY <1>2, <1>3, <2>1, <2>2, <2>3
  <2>7. (a + b + d) - (a + b) = d BY <2>5
  <2> QED BY <2>1, <2>5, <2>6, <2>7
<1>9. ASSUME j < n
      PROVE  /\ Len(p[j] \o outpoint(j + 1)) \in Nat
             /\ substr(s, a + b, Len(p[j] \o outpoint(j + 1)) - (a + b)) = C \o outpoint(j + 1)
  <2>1. PICK k \in 1 .. n : k = j + 1 /\ k - 1 = j /\ k \in Nat
    <3>1. j + 1 \in 1 .. n /\ (j + 1) - 1 = j BY <1>9
    <3> QED BY <3>1
  <2>2. PICK Q : Q = outpoint(k) OBVIOUS
  <2>3. Q \in Seq(Bytes) BY <2>1, <2>2, PartBytes
  <2>4. PICK R : Parted(s, p[j] \o Q, f[k], R, Len(p[j] \o Q), Len(f[k]))
    <3>1. \E R : Parted(s, p[k - 1] \o outpoint(k), f[k], R,
                        Len(p[k - 1] \o outpoint(k)), Len(f[k]))
      BY FieldAt
    <3> QED BY <2>1, <2>2, <3>1
  <2>5. PICK D, E, d : D = C \o Q /\ E = f[k] \o R /\ d = Len(D) OBVIOUS
  <2>6. /\ D \in Seq(Bytes) /\ E \in Seq(Bytes) /\ f[k] \in Seq(Bytes) /\ R \in Seq(Bytes)
        /\ s = (p[j] \o Q) \o f[k] \o R
    BY <1>2, <2>3, <2>4, <2>5 DEF Parted
  <2>7. p[j] \o Q = A \o B \o D
    <3>1. A \o B \in Seq(Bytes) BY <1>2
    <3>2. (A \o B \o C) \o Q = (A \o B) \o D
      <4>1. PICK T \in Seq(Bytes) : T = A \o B BY <3>1
      <4>2. Regroups(T, C, Q) BY <1>2, <2>3, Regroup
      <4> QED BY <2>5, <4>1, <4>2 DEF Regroups
    <3> QED BY <1>4, <3>2
  <2>8. s = A \o B \o D \o E
    <3>1. A \o B \o D \in Seq(Bytes) BY <1>2, <2>6
    <3>2. ((A \o B \o D) \o f[k]) \o R = (A \o B \o D) \o E
      <4>1. PICK T \in Seq(Bytes), F \in Seq(Bytes) : T = A \o B \o D /\ F = f[k] BY <2>6, <3>1
      <4>2. R \in Seq(Bytes) BY <2>6
      <4>3. Regroups(T, F, R) BY <4>2, Regroup
      <4> QED BY <2>5, <4>1, <4>3 DEF Regroups
    <3> QED BY <2>6, <2>7, <3>2
  <2>9. Quartered(s, A, B, D, E, a, b, d) BY <1>2, <1>3, <2>5, <2>6, <2>8 DEF Quartered
  <2>10. substr(s, a + b, d) = D /\ d \in Nat BY <2>9, CutThird
  <2>11. Len(p[j] \o Q) = a + b + d BY <1>2, <1>3, <2>5, <2>6, <2>7
  <2>12. (a + b + d) - (a + b) = d /\ a + b + d \in Nat BY <2>10
  <2> QED BY <2>1, <2>2, <2>5, <2>10, <2>11, <2>12
<1> QED BY <1>1, <1>3, <1>6, <1>7, <1>8, <1>9 DEF LiesBehind

\* The transaction that is cut into templates, and where its fields lie.
Template(n, f, p, O, H) ==
    /\ Laid(dump, n, f, p, O, H)
    /\ \A k \in 1 .. n : /\ copyTransfers[k] = Len(p[k - 1] \o outpoint(k))
                         /\ inscriptsize[k] = Len(f[k])

\* What the substr calls of removeScripts return on the template.
LEMMA TemplateCuts ==
    ASSUME NEW n, NEW f, NEW p, NEW O, NEW H, Template(n, f, p, O, H), NEW j \in 1 .. n
    PROVE  LET end == copyTransfers[j] + inscriptsize[j] IN
           /\ copyTransfers[j] \in Nat /\ inscriptsize[j] \in Nat
           /\ Len(dump) \in Nat /\ end <= Len(dump)
           /\ substr(dump, copyTransfers[j], inscriptsize[j]) = f[j]
           /\ j = 1 => substr(dump, 0, copyTransfers[1] - 0) = version(n) \o outpoint(1)
           /\ j < n => substr(dump, end, copyTransfers[j + 1] - end)
                          = sequence(j) \o outpoint(j + 1)
           /\ j = n => substr(dump, end, Len(dump) - end) = sequence(j) \o O \o H
<1>1. /\ n \in Nat /\ Writes(p, n, f) /\ \A k \in 1 .. n : f[k] \in Seq(Bytes)
      /\ O \in Seq(Bytes) /\ H \in Seq(Bytes) /\ dump = p[n] \o O \o H
      /\ \A k \in 1 .. n : /\ copyTransfers[k] = Len(p[k - 1] \o outpoint(k))
                           /\ inscriptsize[k] = Len(f[k])
  BY DEF Template, Laid
<1>2. PICK a, b : a = copyTransfers[j] /\ b = inscriptsize[j] OBVIOUS
<1>3. a = Len(p[j - 1] \o outpoint(j)) /\ b = Len(f[j]) BY <1>1, <1>2
<1>4. PICK R : Parted(dump, p[j - 1] \o outpoint(j), f[j], R, a, b)
  <2>1. \E R : Parted(p[n] \o O \o H, p[j - 1] \o outpoint(j), f[j], R,
                      Len(p[j - 1] \o outpoint(j)), Len(f[j]))
    BY <1>1, FieldAt
  <2> QED BY <1>1, <1>3, <2>1
<1>5. a \in Nat /\ b \in Nat BY <1>4 DEF Parted
<1>6. substr(dump, a, b) = f[j] BY <1>4, Cut
<1>7. ASSUME j = 1 PROVE substr(dump, 0, a - 0) = version(n) \o outpoint(1)
  <2>1. PICK E, A, T : E = <<>> /\ A = p[j - 1] \o outpoint(j) /\ T = f[j] \o R OBVIOUS
  <2>2. A \in Seq(Bytes) /\ f[j] \in Seq(Bytes) /\ R \in Seq(Bytes) /\ dump = A \o f[j] \o R
        /\ a = Len(A)
    BY <1>4, <2>1 DEF Parted
  <2>3. T \in Seq(Bytes) /\ E \in Seq(Bytes) /\ Len(E) = 0 BY <2>1, <2>2
  <2>4. dump = E \o A \o T
    <3>1. PICK F \in Seq(Bytes) : F = f[j] BY <2>2
    <3>2. A \in Seq(Bytes) /\ R \in Seq(Bytes) BY <2>2
    <3>3. A \o F \o R = A \o (F \o R) BY <3>2
    <3>4. <<>> \o A = A BY <3>2
    <3> QED BY <2>1, <2>2, <3>1, <3>3, <3>4
  <2>5. Parted(dump, E, A, T, 0, a) BY <2>2, <2>3, <2>4 DEF Parted
  <2>6. substr(dump, 0, a) = A BY <2>5, Cut
  <2>7. A = version(n) \o outpoint(1)
    <3>1. j - 1 = 0 BY <1>7
    <3>2. p[0] = version(n) BY <1>1 DEF Writes
    <3> QED BY <1>7, <2>1, <3>1, <3>2
  <2> QED BY <1>5, <2>6, <2>7
<1>8. /\ Len(dump) \in Nat /\ a + b <= Len(dump)
      /\ j = n => substr(dump, a + b, Len(dump) - (a + b)) = sequence(j) \o O \o H
      /\ j < n => substr(dump, a + b, Len(p[j] \o outpoint(j + 1)) - (a + b))
                     = sequence(j) \o outpoint(j + 1)
  <2>1. Laid(dump, n, f, p, O, H) BY DEF Template
  <2>2. LiesBehind(dump, n, f, p, O, H, j) BY <2>1, Behind
  <2> QED BY <1>3, <2>2 DEF LiesBehind
<1>9. j < n => copyTransfers[j + 1] = Len(p[j] \o outpoint(j + 1))
  <2>1. j < n => j + 1 \in 1 .. n /\ (j + 1) - 1 = j BY <1>1
  <2> QED BY <1>1, <2>1
<1> QED BY <1>2, <1>5, <1>6, <1>7, <1>8, <1>9

\* One turn of the loop of removeScripts.
After(before, j, x) ==
    [text |-> before.text
              \o substr(dump, before.pos, templateOffsets[j] - before.pos)
              \o (IF j # x THEN <<Byte(0)>>
                           ELSE substr(dump, templateOffsets[j], inscriptsize[j])),
     pos  |-> templateOffsets[j] + inscriptsize[j]]

\* The loop begins with nothing, and goes through the inputs.
Start == [text |-> <<>>, pos |-> 0]
Removes(w, n, x) == w = [j \in 0 .. n |-> IF j = 0 THEN Start ELSE After(w[j - 1], j, x)]

\* What the loop has written after input j.
Removed(g, e, j) ==
    [text |-> g[j - 1] \o outpoint(j) \o e[j], pos |-> copyTransfers[j] + inscriptsize[j]]

\* All fields but the one of input x are a zero byte.
Blanks(e, n, f, x) == \A k \in 1 .. n : e[k] = IF k # x THEN <<Byte(0)>> ELSE f[k]

\* The fields of the template with one script are bytes.
LEMMA BlanksBytes ==
    ASSUME NEW n, NEW f, NEW p, NEW O, NEW H, Template(n, f, p, O, H), NEW x,
           NEW e, Blanks(e, n, f, x)
    PROVE  \A k \in 1 .. n : e[k] \in Seq(Bytes)
<1>1. <<Byte(0)>> \in Seq(Bytes)
  <2>1. Byte(0) \in Bytes BY ByteBytes DEF Values
  <2> QED BY <2>1
<1> QED BY <1>1 DEF Blanks, Template, Laid

\* The first turn of the loop of removeScripts.
LEMMA RemovedFirst ==
    ASSUME NEW n, NEW f, NEW p, NEW O, NEW H, Template(n, f, p, O, H), NEW x,
           NEW e, Blanks(e, n, f, x), NEW g, Writes(g, n, e), 1 \in 1 .. n
    PROVE  After(Start, 1, x) = Removed(g, e, 1)
<1>1. /\ substr(dump, copyTransfers[1], inscriptsize[1]) = f[1]
      /\ substr(dump, 0, copyTransfers[1] - 0) = version(n) \o outpoint(1)
  BY TemplateCuts
<1>2. e[1] = IF 1 # x THEN <<Byte(0)>> ELSE f[1] BY DEF Blanks
<1>3. version(n) = g[1 - 1] BY DEF Writes
<1>4. g[1 - 1] \in Seq(Bytes) /\ outpoint(1) \in Seq(Bytes)
  <2>1. n \in Nat /\ 0 \in 0 .. n /\ 1 - 1 = 0 BY DEF Template, Laid
  <2> QED BY <2>1, PartBytes DEF Writes
<1>5. <<>> \o (version(n) \o outpoint(1)) = version(n) \o outpoint(1) BY <1>3, <1>4
<1> QED BY <1>1, <1>2, <1>3, <1>5 DEF After, Start, Removed, templateOffsets

\* Every further turn.
LEMMA RemovedNext ==
    ASSUME NEW n, NEW f, NEW p, NEW O, NEW H, Template(n, f, p, O, H), NEW x,
           NEW e, Blanks(e, n, f, x), NEW g, Writes(g, n, e), NEW j \in 1 .. n, j < n
    PROVE  After(Removed(g, e, j), j + 1, x) = Removed(g, e, j + 1)
<1>1. PICK k \in 1 .. n : k = j + 1 /\ k - 1 = j
  <2>1. j + 1 \in 1 .. n /\ (j + 1) - 1 = j BY DEF Template, Laid
  <2> QED BY <2>1
<1>2. PICK a, b : a = copyTransfers[j] + inscriptsize[j] /\ b = copyTransfers[k] - a OBVIOUS
<1>3. substr(dump, a, b) = sequence(j) \o outpoint(k) BY <1>1, <1>2, TemplateCuts
<1>4. substr(dump, copyTransfers[k], inscriptsize[k]) = f[k] BY TemplateCuts
<1>5. e[k] = IF k # x THEN <<Byte(0)>> ELSE f[k] BY DEF Blanks
<1>6. PICK X, Y, Z, S, Q : /\ X = g[j - 1] /\ Y = outpoint(j) /\ Z = e[j] /\ S = sequence(j)
                           /\ Q = outpoint(k)
  OBVIOUS
<1>7. /\ X \in Seq(Bytes) /\ Y \in Seq(Bytes) /\ Z \in Seq(Bytes) /\ S \in Seq(Bytes)
      /\ Q \in Seq(Bytes)
  <2>1. n \in Nat /\ j - 1 \in 0 .. n /\ j \in Nat /\ k \in Nat BY DEF Template, Laid
  <2> QED BY <1>6, <2>1, BlanksBytes, PartBytes DEF Writes
<1>8. g[k - 1] = X \o Y \o Z \o S BY <1>1, <1>6 DEF Writes
<1>9. (X \o Y \o Z) \o (S \o Q) = (X \o Y \o Z \o S) \o Q
  <2>1. X \o Y \o Z \in Seq(Bytes) BY <1>7
  <2>2. PICK T \in Seq(Bytes) : T = X \o Y \o Z BY <2>1
  <2>3. S \in Seq(Bytes) /\ Q \in Seq(Bytes) BY <1>7
  <2>4. Regroups(T, S, Q) BY <2>3, Regroup
  <2> QED BY <2>2, <2>4 DEF Regroups
<1>10. Removed(g, e, j).text = X \o Y \o Z /\ Removed(g, e, j).pos = a
  BY <1>2, <1>6 DEF Removed
<1>11. After(Removed(g, e, j), k, x).text
          = (X \o Y \o Z) \o (S \o Q) \o (IF k # x THEN <<Byte(0)>> ELSE f[k])
  BY <1>2, <1>3, <1>4, <1>6, <1>10 DEF After, templateOffsets
<1>12. Removed(g, e, k).text = (X \o Y \o Z \o S) \o Q \o e[k] BY <1>6, <1>8 DEF Removed
<1>13. After(Removed(g, e, j), k, x).text = Removed(g, e, k).text BY <1>5, <1>9, <1>11, <1>12
<1> QED BY <1>1, <1>13 DEF After, Removed, templateOffsets

\* removeScripts returns the transaction in which one input alone has its field.
LEMMA Removal ==
    ASSUME NEW n, n = Len(scripts), NEW f, NEW p, NEW O, NEW H, Template(n, f, p, O, H), NEW x,
           NEW e, Blanks(e, n, f, x), NEW g, Writes(g, n, e), 1 \in 1 .. n
    PROVE  removeScripts(x) = g[n] \o O \o H
<1>1. n \in Nat /\ n >= 1 BY DEF Template, Laid
<1> DEFINE U(j) == IF j = 0 THEN Start ELSE Removed(g, e, j)
<1>2. ASSUME NEW j \in 1 .. n PROVE After(U(j - 1), j, x) = Removed(g, e, j)
  <2>1. CASE j = 1 BY <2>1, RemovedFirst
  <2>2. CASE j # 1
    <3>1. PICK k \in 1 .. n : k = j - 1 /\ k + 1 = j /\ k < n /\ k # 0
      <4>1. j - 1 \in 1 .. n /\ (j - 1) + 1 = j /\ j - 1 < n /\ j - 1 # 0 BY <1>1, <2>2
      <4> QED BY <4>1
    <3>2. After(Removed(g, e, k), k + 1, x) = Removed(g, e, k + 1) BY <3>1, RemovedNext
    <3> QED BY <3>1, <3>2
  <2> QED BY <2>1, <2>2
<1>3. PICK w : w = CHOOSE v : Removes(v, n, x) OBVIOUS
<1>4. Removes(w, n, x)
  <2>1. PICK u : u = [j \in 0 .. n |-> U(j)] OBVIOUS
  <2>2. ASSUME NEW j \in 0 .. n PROVE u[j] = IF j = 0 THEN Start ELSE After(u[j - 1], j, x)
    <3>1. CASE j = 0 BY <2>1, <3>1
    <3>2. CASE j # 0
      <4>1. j \in 1 .. n /\ j - 1 \in 0 .. n BY <1>1, <3>2
      <4>2. u[j] = Removed(g, e, j) /\ u[j - 1] = U(j - 1) BY <2>1, <3>2, <4>1
      <4> HIDE DEF U
      <4> QED BY <1>2, <3>2, <4>1, <4>2
    <3> QED BY <3>1, <3>2
  <2>3. Removes(u, n, x)
    <3> HIDE DEF U
    <3> QED BY <2>1, <2>2 DEF Removes
  <2> QED BY <1>3, <2>3, Zenon
<1>5. ASSUME NEW j \in 0 .. n PROVE w[j] = IF j = 0 THEN Start ELSE After(w[j - 1], j, x)
  BY <1>4 DEF Removes
<1> DEFINE P == {j \in 0 .. n : w[j] = U(j)}
<1>6. 0 \in P
  <2>1. 0 \in 0 .. n BY <1>1
  <2> QED BY <1>5, <2>1
<1>7. ASSUME NEW j \in 0 .. n - 1, j \in P PROVE j + 1 \in P
  <2>1. PICK k \in 1 .. n : k = j + 1 /\ k \in 0 .. n /\ k - 1 = j /\ k # 0
    <3>1. j + 1 \in 1 .. n /\ j + 1 \in 0 .. n /\ (j + 1) - 1 = j /\ j + 1 # 0 BY <1>1
    <3> QED BY <3>1
  <2>2. w[k - 1] = U(k - 1) BY <1>7, <2>1
  <2>3. w[k] = After(w[k - 1], k, x) BY <1>5, <2>1
  <2>4. U(k) = Removed(g, e, k) BY <2>1
  <2>5. w[k] = U(k)
    <3> HIDE DEF U
    <3> QED BY <1>2, <2>2, <2>3, <2>4
  <2> HIDE DEF U
  <2> QED BY <2>1, <2>5
<1>8. 0 .. n \subseteq P
  <2> HIDE DEF P
  <2> QED BY <1>1, <1>6, <1>7, UpTo
<1>9. w[n] = Removed(g, e, n)
  <2>1. n \in 0 .. n /\ n # 0 BY <1>1
  <2> QED BY <1>8, <2>1
<1>10. removeScripts(x) = w[n].text \o substr(dump, w[n].pos, Len(dump) - w[n].pos)
  <2>1. w = CHOOSE v : Removes(v, Len(scripts), x) BY <1>3
  <2> QED BY <2>1 DEF removeScripts, Removes, After, Start
<1>11. PICK X, Y, Z, S : X = g[n - 1] /\ Y = outpoint(n) /\ Z = e[n] /\ S = sequence(n) OBVIOUS
<1>12. /\ X \in Seq(Bytes) /\ Y \in Seq(Bytes) /\ Z \in Seq(Bytes) /\ S \in Seq(Bytes)
       /\ O \in Seq(Bytes) /\ H \in Seq(Bytes)
  <2>1. n - 1 \in 0 .. n /\ n \in 1 .. n BY <1>1
  <2>2. Z \in Seq(Bytes) BY <1>11, <2>1, BlanksBytes
  <2> QED BY <1>1, <1>11, <2>1, <2>2, PartBytes DEF Writes, Template, Laid
<1>13. g[n] = X \o Y \o Z \o S
  <2>1. n \in 1 .. n BY <1>1
  <2> QED BY <1>11, <2>1 DEF Writes
<1>14. w[n].text = X \o Y \o Z /\ w[n].pos = copyTransfers[n] + inscriptsize[n]
  <2>1. /\ Removed(g, e, n).text = g[n - 1] \o outpoint(n) \o e[n]
        /\ Removed(g, e, n).pos = copyTransfers[n] + inscriptsize[n]
    BY DEF Removed
  <2> QED BY <1>9, <1>11, <2>1
<1>15. substr(dump, w[n].pos, Len(dump) - w[n].pos) = S \o O \o H
  <2>1. n \in 1 .. n BY <1>1
  <2>2. LET end == copyTransfers[n] + inscriptsize[n]
        IN  substr(dump, end, Len(dump) - end) = sequence(n) \o O \o H
    BY <2>1, TemplateCuts
  <2> QED BY <1>11, <1>14, <2>2
<1>16. (X \o Y \o Z) \o (S \o O \o H) = (X \o Y \o Z \o S) \o O \o H
  <2>1. PICK T \in Seq(Bytes) : T = X \o Y \o Z
    <3>1. X \o Y \o Z \in Seq(Bytes) BY <1>12
    <3> QED BY <3>1
  <2>2. PICK V \in Seq(Bytes) : V = S \o O
    <3>1. S \o O \in Seq(Bytes) BY <1>12
    <3> QED BY <3>1
  <2>3. S \in Seq(Bytes) /\ O \in Seq(Bytes) /\ H \in Seq(Bytes) BY <1>12
  <2>4. Regroups(T, V, H) /\ Regroups(T, S, O) BY <2>3, Regroup
  <2> QED BY <2>1, <2>2, <2>4 DEF Regroups
<1> QED BY <1>10, <1>13, <1>14, <1>15, <1>16

-----------------------------------------------------------------------------
(* The invariant.                                                          *)

\* The script field of each input: as it is built, and while it is signed.
scriptFields == [j \in Inputs |-> script(j)]
mixedFields  == [j \in Inputs |-> IF j < i THEN inputscript(j, sigs[j]) ELSE script(j)]

\* The types that the proofs need.
TypeInv ==
    /\ scripts \in Seq(Nat) /\ scripts # <<>> /\ receiver \in Nat
    /\ i \in 1 .. Len(scripts) + 1 /\ sigs \in [Inputs -> Nat]
    /\ DOMAIN signed = Inputs /\ DOMAIN inscriptoffset = Inputs /\ DOMAIN inscriptsize = Inputs

\* buildSignedDump has written the inputs before i, and knows where their scripts are.
Building ==
    pc = "build" =>
        \E p : /\ Writes(p, Len(scripts), scriptFields) /\ dump = p[i - 1]
               /\ \A j \in 1 .. i - 1 : /\ inscriptoffset[j] = Len(p[j - 1] \o outpoint(j))
                                        /\ inscriptsize[j] = Len(script(j))

\* signAllInputs has put a signature in place of the scripts before i, and knows where
\* the others have moved.
Signing ==
    pc = "sign" =>
        /\ \E p : Template(Len(scripts), scriptFields, p, Outputs, hashcodetype)
        /\ \E q : /\ Writes(q, Len(scripts), mixedFields)
                  /\ transaction = q[Len(scripts)] \o Outputs \o hashcodetype
                  /\ \A j \in 1 .. Len(scripts) :
                        inscriptoffset[j] = Len(q[j - 1] \o outpoint(j))

\* What every step keeps.
IInv == /\ TypeInv /\ Building /\ Signing
        /\ PreimageCorrect /\ SignedCorrectly /\ DumpChecksHold

\* For fields that are bytes there is a function that writes them.
LEMMA Writer ==
    ASSUME NEW n \in Nat, NEW f, \A k \in 1 .. n : f[k] \in Seq(Bytes)
    PROVE  \E p : Writes(p, n, f)
<1>1. PICK p : WritesTo(p, n, n, f) BY WritingExists
<1> QED BY <1>1, WritingWrites

\* The inputs, and the bytes of their fields.
LEMMA Given ==
    ASSUME TypeInv
    PROVE  /\ Len(scripts) \in Nat /\ Len(scripts) >= 1 /\ Inputs = 1 .. Len(scripts)
           /\ \A j \in Inputs : /\ scriptFields[j] = script(j) /\ script(j) \in Seq(Bytes)
                                /\ fieldSize(j) = Len(script(j))
                                /\ mixedFields[j] \in Seq(Bytes)
           /\ Outputs \in Seq(Bytes) /\ hashcodetype \in Seq(Bytes) /\ Len(hashcodetype) = 4
<1>1. Len(scripts) \in Nat /\ Len(scripts) >= 1 /\ Inputs = 1 .. Len(scripts)
  BY DEF TypeInv, Inputs
<1>2. ASSUME NEW j \in Inputs
      PROVE  /\ scriptFields[j] = script(j) /\ script(j) \in Seq(Bytes)
             /\ fieldSize(j) = Len(script(j)) /\ mixedFields[j] \in Seq(Bytes)
  <2>1. j \in Nat /\ scripts[j] \in Nat /\ sigs[j] \in Nat
    <3>1. j \in Nat /\ j \in 1 .. Len(scripts) BY <1>1
    <3>2. scripts \in Seq(Nat) /\ sigs \in [Inputs -> Nat] BY DEF TypeInv
    <3>3. scripts[j] \in Nat BY <3>1, <3>2
    <3> QED BY <3>1, <3>2, <3>3
  <2>2. script(j) \in Seq(Bytes) /\ fieldSize(j) = Len(script(j)) BY <2>1, ScriptBytes
  <2>3. inputscript(j, sigs[j]) \in Seq(Bytes) BY <2>1, InputscriptBytes
  <2>4. /\ scriptFields[j] = script(j)
        /\ mixedFields[j] = IF j < i THEN inputscript(j, sigs[j]) ELSE script(j)
    BY DEF scriptFields, mixedFields
  <2> QED BY <2>2, <2>3, <2>4
<1>3. Outputs \in Seq(Bytes) BY OutputsBytes DEF TypeInv
<1>4. hashcodetype \in Seq(Bytes) /\ Len(hashcodetype) = 4 BY 0 \in Nat, PartBytes, Zenon
<1> QED BY <1>1, <1>2, <1>3, <1>4

\* The invariant holds when buildSignedDump begins.
LEMMA InitIInv == Init => IInv
<1> SUFFICES ASSUME Init PROVE IInv OBVIOUS
<1>1. TypeInv
  <2>1. scripts \in Seq(Nat) /\ scripts # <<>> BY InputListsAssumption DEF Init
  <2>2. receiver \in Nat BY SizesAssumption DEF Init
  <2> QED BY <2>1, <2>2 DEF Init, TypeInv, Inputs
<1>2. Building
  <2>1. PICK n \in Nat : n = Len(scripts) BY <1>1, Given
  <2>2. \A k \in 1 .. n : scriptFields[k] \in Seq(Bytes) BY <1>1, <2>1, Given
  <2>3. PICK p : Writes(p, n, scriptFields) BY <2>2, Writer
  <2>4. p[0] = version(n) BY <2>3 DEF Writes
  <2>5. dump = version(n) /\ i = 1 BY <2>1 DEF Init
  <2>6. i - 1 = 0 /\ 1 .. i - 1 = {} BY <2>5
  <2> QED BY <2>1, <2>3, <2>4, <2>5, <2>6 DEF Building
<1>3. PreimageCorrect BY DEF Init, PreimageCorrect, Inputs
<1> QED BY <1>1, <1>2, <1>3 DEF IInv, Init, Signing, SignedCorrectly, DumpChecksHold

\* Every step keeps the types, and no step changes what the transaction is built from.
LEMMA NextTypeInv == ASSUME TypeInv, [Next]_vars PROVE TypeInv' /\ UNCHANGED <<given, Inputs>>
<1> USE DEF TypeInv, given, Inputs
<1>1. UNCHANGED <<given, Inputs>>
  BY DEF Next, vars, NotEnoughMoney, BuildInput, BuildOutputs, SignInput, Signed, Refuse, Strip,
         Terminated
<1>2. DOMAIN scripts = 1 .. Len(scripts) /\ Len(scripts) \in Nat OBVIOUS
<1>3. CASE NotEnoughMoney BY <1>1, <1>3 DEF NotEnoughMoney, Refuse
<1>4. CASE BuildInput BY <1>1, <1>2, <1>4 DEF BuildInput
<1>5. CASE BuildOutputs BY <1>1, <1>2, <1>5 DEF BuildOutputs
<1>6. CASE SignInput
  <2>1. CASE Refuse BY <1>1, <2>1 DEF Refuse
  <2>2. CASE Signed /\ i \in Inputs
    <3>1. SigSizes \subseteq Nat BY SizesAssumption
    <3>2. PICK size \in Nat : sigs' = [sigs EXCEPT ![i] = size] BY <2>2, <3>1 DEF Signed
    <3>3. sigs' \in [Inputs -> Nat] BY <2>2, <3>2
    <3>4. i' = i + 1 /\ inscriptsize' = inscriptsize /\ DOMAIN inscriptoffset' = Inputs
          /\ DOMAIN signed' = Inputs
      BY <2>2 DEF Signed
    <3> QED BY <1>1, <1>2, <2>2, <3>3, <3>4
  <2> QED BY <1>6, <2>1, <2>2 DEF SignInput
<1>7. CASE Strip BY <1>1, <1>7 DEF Strip
<1>8. CASE Terminated \/ UNCHANGED vars BY <1>8 DEF Terminated, vars
<1> QED BY <1>1, <1>3, <1>4, <1>5, <1>6, <1>7, <1>8 DEF Next

-----------------------------------------------------------------------------
(* The steps.                                                              *)

\* The transaction that is given does not change, and nothing that is computed from it.
LEMMA GivenKept ==
    ASSUME UNCHANGED given
    PROVE  /\ UNCHANGED <<scriptFields, Inputs, Outputs, scripts>>
           /\ \A j : script(j)' = script(j)
           /\ \A n, f, p, O, H :
                 UNCHANGED <<dump, copyTransfers, inscriptsize>>
                 => Template(n, f, p, O, H)' = Template(n, f, p, O, H)
  BY DEF given, scriptFields, Inputs, script, Outputs, outcount, Template

\* Serialized, given the scripts and what follows the inputs.
WrittenOut(sc, out, field) ==
    LET upTo[j \in 0 .. Len(sc)] ==
            IF j = 0 THEN version(Len(sc))
                     ELSE upTo[j - 1] \o outpoint(j) \o field[j] \o sequence(j)
    IN  upTo[Len(sc)] \o out

\* The fields of what is hashed for input k.
blankFields(k) == [j \in Inputs |-> IF j = k THEN script(j) ELSE <<Byte(0)>>]

\* What is hashed, as a function of what is given.
LEMMA PreimageIs ==
    /\ \A k : Serialized(blankFields(k)) = WrittenOut(scripts, Outputs, blankFields(k))
    /\ \A k : Serialized(blankFields(k))' = WrittenOut(scripts', Outputs', blankFields(k)')
  BY DEF Serialized, WrittenOut

\* What should be hashed for an input does not change.
LEMMA BlankKept ==
    ASSUME UNCHANGED given
    PROVE  \A k : Serialized(blankFields(k))' = Serialized(blankFields(k))
<1>1. ASSUME NEW k PROVE blankFields(k)' = blankFields(k)
  BY GivenKept DEF blankFields
<1> QED BY <1>1, PreimageIs, GivenKept

\* A step that hashes nothing keeps PreimageCorrect.
LEMMA PreimageKept ==
    ASSUME UNCHANGED <<given, signed>>, PreimageCorrect
    PROVE  PreimageCorrect'
<1>1. \A k \in Inputs : signed[k] # <<>> => signed[k] = Serialized(blankFields(k)) \o hashcodetype
  BY DEF PreimageCorrect, blankFields
<1>2. \A k \in Inputs' : signed'[k] # <<>> =>
                            signed'[k] = Serialized(blankFields(k))' \o hashcodetype
  BY <1>1, BlankKept, GivenKept
<1> QED BY <1>2 DEF PreimageCorrect, blankFields

\* An input is appended where the next one belongs, and its place is remembered.
LEMMA BuildInputKeeps ==
    ASSUME TypeInv, Building, BuildInput
    PROVE  Building'
<1>1. UNCHANGED given /\ i \in Inputs /\ pc = "build" BY DEF BuildInput, given
<1>2. PICK n : n = Len(scripts) /\ n \in Nat /\ i \in 1 .. n BY <1>1, Given
<1>3. PICK p : /\ Writes(p, n, scriptFields) /\ dump = p[i - 1]
               /\ \A j \in 1 .. i - 1 : /\ inscriptoffset[j] = Len(p[j - 1] \o outpoint(j))
                                        /\ inscriptsize[j] = Len(script(j))
  BY <1>1, <1>2 DEF Building
<1>4. scriptFields[i] = script(i) /\ fieldSize(i) = Len(script(i)) BY <1>1, Given
<1>5. p[i] = p[i - 1] \o outpoint(i) \o script(i) \o sequence(i) BY <1>2, <1>3, <1>4 DEF Writes
<1>6. i' = i + 1 /\ i' - 1 = i /\ dump' = p[i' - 1] BY <1>2, <1>3, <1>5 DEF BuildInput
<1>7. ASSUME NEW j \in 1 .. i
      PROVE  /\ inscriptoffset'[j] = Len(p[j - 1] \o outpoint(j))
             /\ inscriptsize'[j] = Len(script(j))
  <2>1. /\ inscriptoffset' = [inscriptoffset EXCEPT ![i] = Len(p[i - 1] \o outpoint(i))]
        /\ inscriptsize' = [inscriptsize EXCEPT ![i] = Len(script(i))]
    BY <1>3, <1>4 DEF BuildInput
  <2>2. DOMAIN inscriptoffset = Inputs /\ DOMAIN inscriptsize = Inputs BY DEF TypeInv
  <2>3. j \in Inputs /\ (j = i \/ j \in 1 .. i - 1) BY <1>2, Given
  <2>4. CASE j = i BY <1>1, <2>1, <2>2, <2>4
  <2>5. CASE j # i BY <1>3, <2>1, <2>2, <2>3, <2>5
  <2> QED BY <2>4, <2>5
<1>8. /\ scriptFields' = scriptFields /\ Len(scripts') = n /\ \A j : script(j)' = script(j)
  BY <1>1, <1>2, GivenKept
<1> QED BY <1>3, <1>6, <1>7, <1>8 DEF Building

\* The outputs end the transaction, which becomes the template too.
LEMMA BuildOutputsKeeps ==
    ASSUME TypeInv, TypeInv', Building, BuildOutputs
    PROVE  Signing'
<1>1. UNCHANGED given /\ i \notin Inputs /\ pc = "build" /\ i' = 1 BY DEF BuildOutputs, given
<1>2. PICK n : n = Len(scripts) /\ n \in Nat /\ Inputs = 1 .. n /\ i - 1 = n
  BY <1>1, Given DEF TypeInv
<1>3. PICK p : /\ Writes(p, n, scriptFields) /\ dump = p[n]
               /\ \A j \in 1 .. n : /\ inscriptoffset[j] = Len(p[j - 1] \o outpoint(j))
                                    /\ inscriptsize[j] = Len(script(j))
  BY <1>1, <1>2 DEF Building
<1>4. /\ scriptFields' = scriptFields /\ Len(scripts') = n /\ Outputs' = Outputs
      /\ Inputs' = Inputs /\ \A j : script(j)' = script(j)
  BY <1>1, <1>2, GivenKept
<1>5. /\ dump' = p[n] \o Outputs \o hashcodetype /\ transaction' = dump'
      /\ copyTransfers' = inscriptoffset /\ inscriptsize' = inscriptsize
      /\ inscriptoffset' = inscriptoffset
  BY <1>3 DEF BuildOutputs
<1>6. /\ \A k \in 1 .. n : scriptFields[k] = script(k) /\ scriptFields[k] \in Seq(Bytes)
      /\ Outputs \in Seq(Bytes) /\ hashcodetype \in Seq(Bytes)
  BY <1>2, Given
<1>7. Laid(dump', n, scriptFields, p, Outputs, hashcodetype)
  BY <1>2, <1>3, <1>5, <1>6 DEF Laid
<1>8. \A k \in 1 .. n : /\ copyTransfers'[k] = Len(p[k - 1] \o outpoint(k))
                        /\ inscriptsize'[k] = Len(scriptFields[k])
  BY <1>3, <1>5, <1>6
<1>9. Template(n, scriptFields, p, Outputs, hashcodetype)' BY <1>4, <1>7, <1>8 DEF Template
<1>10. mixedFields' = scriptFields
  <2>1. \A j \in Inputs : ~(j < 1) BY <1>2
  <2>2. mixedFields' = [j \in Inputs |-> IF j < 1 THEN inputscript(j, sigs'[j]) ELSE script(j)]
    BY <1>1, <1>4 DEF mixedFields
  <2> QED BY <2>1, <2>2 DEF scriptFields
<1> QED BY <1>3, <1>4, <1>5, <1>8, <1>9, <1>10 DEF Signing

\* The scripts lie where removeScripts looks for them.
LEMMA ChecksAlwaysHold ==
    ASSUME TypeInv, Signing, pc = "sign"
    PROVE  ChecksHold
<1>1. PICK n : n = Len(scripts) /\ Inputs = 1 .. n BY Given
<1>2. PICK p : Template(n, scriptFields, p, Outputs, hashcodetype) BY <1>1 DEF Signing
<1>3. ASSUME NEW j \in 1 .. n
      PROVE  Len(dump) >= copyTransfers[j] + (IF j = i THEN inscriptsize[j] ELSE 0)
  <2>1. /\ copyTransfers[j] \in Nat /\ inscriptsize[j] \in Nat /\ Len(dump) \in Nat
        /\ copyTransfers[j] + inscriptsize[j] <= Len(dump)
    BY <1>2, TemplateCuts
  <2> QED BY <2>1
<1> QED BY <1>1, <1>3 DEF ChecksHold, templateOffsets

\* A signature takes the place of a script, and the offsets behind it move with it.
LEMMA SignedKeeps ==
    ASSUME TypeInv, TypeInv', Signing, pc = "sign", i \in Inputs, Signed
    PROVE  Signing'
<1>1. UNCHANGED given /\ UNCHANGED <<dump, copyTransfers, inscriptsize>> /\ i' = i + 1
  BY DEF Signed, given
<1>2. PICK n \in Nat : n = Len(scripts) /\ Inputs = 1 .. n /\ i \in 1 .. n BY Given
<1>3. /\ scriptFields' = scriptFields /\ Len(scripts') = n /\ Outputs' = Outputs
      /\ Inputs' = Inputs /\ \A j : script(j)' = script(j)
  BY <1>1, <1>2, GivenKept
<1>4. PICK p : Template(n, scriptFields, p, Outputs, hashcodetype) BY <1>2 DEF Signing
<1>5. Template(n, scriptFields, p, Outputs, hashcodetype)'
  BY <1>1, <1>3, <1>4 DEF Template
<1>6. PICK f, q, O, H : /\ f = mixedFields /\ O = Outputs /\ H = hashcodetype /\ Writes(q, n, f)
                        /\ transaction = q[n] \o O \o H
                        /\ \A j \in 1 .. n : inscriptoffset[j] = Len(q[j - 1] \o outpoint(j))
  BY <1>2, ZenonT(20) DEF Signing
<1>7. PICK size \in SigSizes :
        /\ sigs' = [sigs EXCEPT ![i] = size]
        /\ transaction' = replace(transaction, inscriptoffset[i], inscriptsize[i],
                                  inputscript(i, size))
        /\ inscriptoffset' = [j \in Inputs |-> moved(j, size)]
  BY DEF Signed
<1>8. PICK g : g = mixedFields' OBVIOUS
<1>9. O \in Seq(Bytes) /\ H \in Seq(Bytes) BY <1>6, Given
<1>10. /\ f = [j \in Inputs |-> IF j < i THEN inputscript(j, sigs[j]) ELSE script(j)]
       /\ g = [j \in Inputs |-> IF j < i + 1 THEN inputscript(j, sigs'[j]) ELSE script(j)]
  BY <1>1, <1>3, <1>6, <1>8 DEF mixedFields
<1>11. \A k \in 1 .. n : f[k] \in Seq(Bytes) /\ g[k] \in Seq(Bytes)
  <2>1. ASSUME NEW k \in 1 .. n PROVE g[k] \in Seq(Bytes)
    <3>1. k \in Nat /\ k \in Inputs /\ sigs'[k] \in Nat
      <4>1. k \in Nat OBVIOUS
      <4>2. k \in Inputs BY <1>2
      <4>3. sigs' \in [Inputs' -> Nat] BY DEF TypeInv
      <4>4. sigs' \in [Inputs -> Nat] BY <1>3, <4>3
      <4> QED BY <4>1, <4>2, <4>4
    <3>2. inputscript(k, sigs'[k]) \in Seq(Bytes) BY <3>1, InputscriptBytes
    <3>3. script(k) \in Seq(Bytes) BY <3>1, Given
    <3> QED BY <1>10, <3>1, <3>2, <3>3
  <2> QED BY <1>2, <1>6, <2>1, Given
<1>12. DOMAIN sigs = Inputs BY DEF TypeInv
<1>13. f[i] = script(i) /\ g[i] = inputscript(i, size)
  <2>1. ~(i < i) /\ i < i + 1 BY <1>2
  <2>2. sigs'[i] = size BY <1>7, <1>12
  <2> QED BY <1>10, <2>1, <2>2
<1>14. ASSUME NEW k \in 1 .. n, k # i PROVE f[k] = g[k]
  <2>1. (k < i) <=> (k < i + 1) BY <1>2, <1>14
  <2>2. sigs'[k] = sigs[k] BY <1>2, <1>7, <1>12, <1>14
  <2> QED BY <1>2, <1>10, <2>1, <2>2
<1>15. PICK r : Writes(r, n, g) BY <1>11, Writer
<1>16. PICK a, b : a = inscriptoffset[i] /\ b = inscriptsize[i] OBVIOUS
<1>17. a = Len(q[i - 1] \o outpoint(i)) /\ b = Len(f[i])
  <2>1. b = Len(scriptFields[i]) BY <1>2, <1>4, <1>16 DEF Template
  <2>2. scriptFields[i] = f[i] BY <1>13, Given
  <2> QED BY <1>2, <1>6, <1>16, <2>1, <2>2
<1>18. /\ replace(transaction, a, b, g[i]) = r[n] \o O \o H
       /\ \A k \in 1 .. n : Len(r[k - 1] \o outpoint(k)) =
             IF k > i THEN Len(q[k - 1] \o outpoint(k)) + Len(g[i]) - b
                      ELSE Len(q[k - 1] \o outpoint(k))
  <2>1. PICK t : t = r[n] \o O \o H OBVIOUS
  <2>2. Laid(transaction, n, f, q, O, H) BY <1>6, <1>9, <1>11 DEF Laid
  <2>3. Laid(t, n, g, r, O, H) BY <1>9, <1>11, <1>15, <2>1 DEF Laid
  <2>4. Differ(f, g, n, i) BY <1>14 DEF Differ
  <2>5. /\ replace(transaction, a, b, g[i]) = t
        /\ \A k \in 1 .. n : Len(r[k - 1] \o outpoint(k)) =
              IF k > i THEN Len(q[k - 1] \o outpoint(k)) + Len(g[i]) - b
                       ELSE Len(q[k - 1] \o outpoint(k))
    <3>1. PlacedAt(f, q, i, a, b) BY <1>17 DEF PlacedAt
    <3>2. Replaces(transaction, t, n, f, q, g, r, i, a, b)
      BY <1>2, <2>2, <2>3, <2>4, <3>1, ReplacedWrites
    <3> QED BY <3>2 DEF Replaces
  <2> QED BY <2>1, <2>5
<1>19. transaction' = r[n] \o O \o H BY <1>7, <1>13, <1>16, <1>18
<1>20. ASSUME NEW j \in 1 .. n PROVE inscriptoffset'[j] = Len(r[j - 1] \o outpoint(j))
  <2>1. inscriptoffset'[j] = moved(j, size) BY <1>2, <1>7
  <2>2. moved(j, size) = IF j > i THEN inscriptoffset[j] + Len(g[i]) - b ELSE inscriptoffset[j]
    BY <1>13, <1>16 DEF moved
  <2>3. inscriptoffset[j] = Len(q[j - 1] \o outpoint(j)) BY <1>6
  <2> QED BY <1>18, <2>1, <2>2, <2>3
<1>21. Writes(r, n, mixedFields') BY <1>8, <1>15
<1>22. transaction' = r[n] \o Outputs' \o hashcodetype BY <1>3, <1>6, <1>19
<1> QED BY <1>3, <1>5, <1>20, <1>21, <1>22 DEF Signing

\* What is hashed is cut out of the template, whatever has been signed before.
LEMMA SignedPreimage ==
    ASSUME TypeInv, Signing, PreimageCorrect, pc = "sign", i \in Inputs, Signed
    PROVE  PreimageCorrect'
<1>1. UNCHANGED given /\ signed' = [signed EXCEPT ![i] = removeScripts(i)] BY DEF Signed, given
<1>2. PICK n \in Nat : n = Len(scripts) /\ Inputs = 1 .. n /\ i \in 1 .. n /\ 1 \in 1 .. n BY Given
<1>3. PICK p : Template(n, scriptFields, p, Outputs, hashcodetype) BY <1>2 DEF Signing
<1>4. PICK e : e = blankFields(i) OBVIOUS
<1>5. Blanks(e, n, scriptFields, i)
  BY <1>2, <1>4 DEF Blanks, blankFields, scriptFields
<1>6. \A k \in 1 .. n : e[k] \in Seq(Bytes) BY <1>3, <1>5, BlanksBytes
<1>7. PICK g : Writes(g, n, e) /\ Serialized(e) = g[n] \o Outputs
  <2>1. scripts \in Seq(Nat) BY DEF TypeInv
  <2> QED BY <1>2, <1>6, <2>1, SerializedWrites
<1>8. removeScripts(i) = g[n] \o Outputs \o hashcodetype
  BY <1>2, <1>3, <1>5, <1>7, Removal
<1>9. removeScripts(i) = Serialized(blankFields(i)) \o hashcodetype BY <1>4, <1>7, <1>8
<1>10. \A k \in Inputs : signed[k] # <<>> => signed[k] = Serialized(blankFields(k)) \o hashcodetype
  BY DEF PreimageCorrect, blankFields
<1>11. DOMAIN signed = Inputs BY DEF TypeInv
<1>12. ASSUME NEW k \in Inputs, signed'[k] # <<>>
       PROVE  signed'[k] = Serialized(blankFields(k)) \o hashcodetype
  <2>1. CASE k = i BY <1>1, <1>9, <1>11, <2>1
  <2>2. CASE k # i BY <1>1, <1>10, <1>11, <1>12, <2>2
  <2> QED BY <2>1, <2>2
<1>13. \A k \in Inputs' : signed'[k] # <<>> =>
                             signed'[k] = Serialized(blankFields(k))' \o hashcodetype
  BY <1>1, <1>12, BlankKept, GivenKept
<1> QED BY <1>13 DEF PreimageCorrect, blankFields

\* The fields of the finished transaction.
signedFields == [j \in Inputs |-> inputscript(j, sigs[j])]

\* The finished transaction is a function of what is given and of the signatures.
LEMMA SignedFieldsKept ==
    ASSUME UNCHANGED <<given, sigs>>
    PROVE  Serialized(signedFields)' = Serialized(signedFields)
<1>1. signedFields' = signedFields BY GivenKept DEF signedFields
<1>2. /\ Serialized(signedFields) = WrittenOut(scripts, Outputs, signedFields)
      /\ Serialized(signedFields)' = WrittenOut(scripts', Outputs', signedFields')
  BY DEF Serialized, WrittenOut
<1> QED BY <1>1, <1>2, GivenKept

\* Without the hash code what is left is the signed transaction.
LEMMA StripKeeps ==
    ASSUME TypeInv, Signing, Strip
    PROVE  SignedCorrectly'
<1>1. /\ UNCHANGED <<given, sigs>> /\ pc = "sign" /\ i \notin Inputs
      /\ transaction' = substr(transaction, 0, Len(transaction) - 4)
  BY DEF Strip, given
<1>2. PICK n \in Nat : n = Len(scripts) /\ Inputs = 1 .. n /\ i = n + 1
  BY <1>1, Given DEF TypeInv
<1>3. PICK f, q, O, H : /\ f = mixedFields /\ O = Outputs /\ H = hashcodetype /\ Writes(q, n, f)
                        /\ transaction = q[n] \o O \o H
  BY <1>1, <1>2 DEF Signing
<1>4. O \in Seq(Bytes) /\ H \in Seq(Bytes) /\ Len(H) = 4 BY <1>3, Given
<1>5. f = signedFields
  <2>1. \A j \in Inputs : j < i BY <1>2
  <2> QED BY <1>3, <2>1 DEF mixedFields, signedFields
<1>6. \A k \in 1 .. n : f[k] \in Seq(Bytes) BY <1>2, <1>3, Given
<1>7. PICK g : Writes(g, n, f) /\ Serialized(f) = g[n] \o O
  <2>1. scripts \in Seq(Nat) BY DEF TypeInv
  <2> QED BY <1>2, <1>3, <1>6, <2>1, SerializedWrites
<1>8. g[n] = q[n]
  <2>1. Agree(f, f, n) /\ n \in 0 .. n BY DEF Agree
  <2> QED BY <1>3, <1>7, <2>1, SameBefore
<1>9. substr(transaction, 0, Len(transaction) - 4) = q[n] \o O
  <2>1. PICK E, T, l : E = <<>> /\ T = q[n] \o O /\ l = Len(T) OBVIOUS
  <2>2. q[n] \in Seq(Bytes) BY <1>3 DEF Writes
  <2>3. T \in Seq(Bytes) /\ l \in Nat /\ E \in Seq(Bytes) /\ Len(E) = 0 BY <1>4, <2>1, <2>2
  <2>4. transaction = T \o H BY <1>3, <2>1
  <2>5. transaction = E \o T \o H BY <2>1, <2>3, <2>4
  <2>6. Parted(transaction, E, T, H, 0, l) BY <1>4, <2>1, <2>3, <2>5 DEF Parted
  <2>7. substr(transaction, 0, l) = T BY <2>6, Cut
  <2>8. Len(transaction) = l + 4
    <3>1. T \in Seq(Bytes) /\ H \in Seq(Bytes) BY <1>4, <2>3
    <3>2. \A C \in Seq(Bytes) : Len(T \o C) = Len(T) + Len(C) BY <3>1
    <3>3. Len(T \o H) = Len(T) + Len(H) BY <3>1, <3>2
    <3> QED BY <1>4, <2>1, <2>4, <3>3
  <2>9. (l + 4) - 4 = l BY <2>3
  <2> QED BY <2>1, <2>7, <2>8, <2>9
<1>10. transaction' = Serialized(signedFields) BY <1>1, <1>5, <1>7, <1>8, <1>9
<1>11. transaction' = Serialized(signedFields)' BY <1>1, <1>10, SignedFieldsKept
<1> QED BY <1>11 DEF SignedCorrectly, signedFields

\* Every step keeps the invariant.
LEMMA NextIInv == IInv /\ [Next]_vars => IInv'
<1> SUFFICES ASSUME IInv, [Next]_vars PROVE IInv' OBVIOUS
<1>1. /\ TypeInv /\ Building /\ Signing /\ PreimageCorrect /\ SignedCorrectly /\ DumpChecksHold
      /\ TypeInv' /\ UNCHANGED given
  BY NextTypeInv DEF IInv
<1>2. CASE NotEnoughMoney
  <2>1. pc' = "error" /\ balance = "short" /\ UNCHANGED <<given, signed>>
    BY <1>2 DEF NotEnoughMoney, Refuse
  <2>2. balance' = "short" BY <2>1 DEF given
  <2> QED BY <1>1, <2>1, <2>2, PreimageKept
          DEF IInv, Building, Signing, SignedCorrectly, DumpChecksHold
<1>3. CASE BuildInput
  <2>1. pc' = "build" /\ UNCHANGED <<given, signed>> BY <1>3 DEF BuildInput
  <2> QED BY <1>1, <1>3, <2>1, PreimageKept, BuildInputKeeps
          DEF IInv, Signing, SignedCorrectly, DumpChecksHold
<1>4. CASE BuildOutputs
  <2>1. pc' = "sign" /\ UNCHANGED <<given, signed>> BY <1>4 DEF BuildOutputs
  <2> QED BY <1>1, <1>4, <2>1, PreimageKept, BuildOutputsKeeps
          DEF IInv, Building, SignedCorrectly, DumpChecksHold
<1>5. CASE SignInput
  <2>1. pc = "sign" /\ i \in Inputs /\ ChecksHold /\ Signed
    BY <1>1, <1>5, ChecksAlwaysHold DEF SignInput
  <2>2. pc' = "sign" BY <2>1 DEF Signed
  <2>3. Signing' /\ PreimageCorrect' BY <1>1, <2>1, SignedKeeps, SignedPreimage
  <2> QED BY <1>1, <2>2, <2>3 DEF IInv, Building, SignedCorrectly, DumpChecksHold
<1>6. CASE Strip
  <2>1. pc' = "done" /\ UNCHANGED <<given, signed>> BY <1>6 DEF Strip
  <2> QED BY <1>1, <1>6, <2>1, PreimageKept, StripKeeps DEF IInv, Building, Signing, DumpChecksHold
<1>7. CASE Terminated
  <2>1. UNCHANGED vars /\ pc \in {"done", "error"} BY <1>7 DEF Terminated
  <2>2. UNCHANGED <<given, sigs, signed, pc, transaction, balance>> BY <2>1 DEF vars, given
  <2>3. SignedCorrectly' BY <1>1, <2>2, SignedFieldsKept DEF SignedCorrectly, signedFields
  <2> QED BY <1>1, <2>1, <2>2, <2>3, PreimageKept DEF IInv, Building, Signing, DumpChecksHold
<1>8. CASE UNCHANGED vars
  <2>1. UNCHANGED <<given, sigs, signed, pc, transaction, balance, dump, i, copyTransfers,
                    inscriptoffset, inscriptsize>>
    BY <1>8 DEF vars, given
  <2>2. SignedCorrectly' BY <1>1, <2>1, SignedFieldsKept DEF SignedCorrectly, signedFields
  <2>3. /\ UNCHANGED <<scriptFields, Inputs, Outputs, scripts>> /\ \A j : script(j)' = script(j)
        /\ mixedFields' = mixedFields
    BY <2>1, GivenKept DEF mixedFields
  <2>4. Building' BY <1>1, <2>1, <2>3 DEF Building
  <2>5. Signing' BY <1>1, <2>1, <2>3, GivenKept DEF Signing, Template
  <2> QED BY <1>1, <2>1, <2>2, <2>4, <2>5, PreimageKept DEF IInv, DumpChecksHold
<1> QED BY <1>2, <1>3, <1>4, <1>5, <1>6, <1>7, <1>8 DEF Next

\* The invariant, always.
LEMMA Invariance == Spec => []IInv
  BY InitIInv, NextIInv, PTL DEF Spec

-----------------------------------------------------------------------------
\* What is hashed for an input is the transaction in which this input alone has a script.
THEOREM HashesTheRightBytes == Spec => []PreimageCorrect
  BY Invariance, PTL DEF IInv

\* The finished transaction has the signature of every input in the place of its script.
THEOREM SignaturesInPlace == Spec => []SignedCorrectly
  BY Invariance, PTL DEF IInv

\* The CHECKs of removeScripts never fail.
THEOREM ChecksNeverFail == Spec => []DumpChecksHold
  BY Invariance, PTL DEF IInv
=============================================================================
