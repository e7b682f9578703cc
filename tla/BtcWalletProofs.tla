--------------------------- MODULE BtcWalletProofs ---------------------------
(***************************************************************************)
(* Proofs about BtcWallet, for every size of inputs, outputs and           *)
(* signatures and every list of UTXOs.                                     *)
(***************************************************************************)
EXTENDS BtcWallet, FiniteSetTheorems, FunctionTheorems, WellFoundedInduction, TLAPS

\* Once the fee of a turn is computed it exceeds the size of the turn before by
\* the margin, and the loop is left only within that margin.
FeeMargin ==
    /\ pc \in {"greedy", "encode", "sign", "compare", "done"} => fees >= oldSize + 30
    /\ pc = "done" => size - oldSize <= 30

\* The loop is entered with turns left.
TurnsLeft == pc \notin {"done", "error", "wild"} => maxIterations >= 1

\* The amount that was read fits an int64_t.
ValueRead == pc \notin {"parse", "error"} /\ ~allMoney => input.value.n <= MaxInt

\* encode calls genTransaction without inputs only if value + fees has wrapped; the
\* fee is no larger than the value then, so that their sum fits a uint64_t.
EmptyOnlyWrapped ==
    pc = "sign" /\ newUtxos = <<>> => ~allMoney /\ fees <= value

\* What every step keeps.
IInv == TypeOK /\ FeeMargin /\ TurnsLeft /\ ValueRead /\ EmptyOnlyWrapped /\ SignsSomething

-----------------------------------------------------------------------------
\* A number in the range of a modulus is kept by it.
LEMMA Modulus ==
    ASSUME NEW m \in Nat, m >= 1, NEW x \in Int
    PROVE  x % m \in Int /\ (0 <= x /\ x < m => x % m = x)
  OBVIOUS

\* The conversions return integers, and keep what fits.
LEMMA Conversions ==
    ASSUME NEW x \in Int
    PROVE  /\ Signed(x) \in Int /\ Unsigned(x) \in Int
           /\ x \in UInt => Unsigned(x) = x
           /\ x = 0 => Signed(x) = 0
<1>1. 2 * MaxInt + 2 \in Nat /\ 2 * MaxInt + 2 >= 1 /\ x + MaxInt + 1 \in Int
  BY MaxIntAssumption
<1>2. x % (2 * MaxInt + 2) \in Int /\ (x + MaxInt + 1) % (2 * MaxInt + 2) \in Int
  BY <1>1, Modulus
<1>3. x \in UInt => x % (2 * MaxInt + 2) = x
  BY <1>1, Modulus, MaxIntAssumption DEF UInt
<1>4. x = 0 => (x + MaxInt + 1) % (2 * MaxInt + 2) = MaxInt + 1
  BY <1>1, Modulus, MaxIntAssumption
<1> QED
  BY <1>2, <1>3, <1>4, MaxIntAssumption DEF Signed, Unsigned

\* greedyAlg indexes sortedVect within its bounds, but for the read before its
\* beginning that GreedyBeforeBegin stands for.
LEMMA PickInRange ==
    ASSUME sortedVect \in Seq(UInt), sortedVect # <<>>
    PROVE  Pick \in 1 .. Len(sortedVect)
<1> DEFINE S == {j \in DOMAIN sortedVect : sortedVect[j] <= Unsigned(rest)}
<1>1. Len(sortedVect) \in Nat /\ Len(sortedVect) >= 1 /\ DOMAIN sortedVect = 1 .. Len(sortedVect)
  OBVIOUS
<1>2. IsFiniteSet(1 .. Len(sortedVect)) /\ Cardinality(1 .. Len(sortedVect)) = Len(sortedVect)
  BY <1>1, FS_Interval
<1>3. Cardinality(S) \in Nat /\ Cardinality(S) <= Len(sortedVect)
  <2>1. S \subseteq 1 .. Len(sortedVect)
    BY <1>1
  <2> HIDE DEF S
  <2> QED
    BY <1>2, <2>1, FS_Subset, FS_CardinalityType
<1>4. UpperBound = Cardinality(S) + 1
  BY DEF UpperBound
<1> HIDE DEF S
<1> QED
  BY <1>1, <1>3, <1>4 DEF Pick

\* Taking an element keeps the lists of greedyAlg sequences of uint64_t.
LEMMA TakeTyped ==
    ASSUME NEW s \in Seq(UInt), NEW k \in 1 .. Len(s)
    PROVE  Erased(s, k) \in Seq(UInt) /\ s[k] \in UInt
  BY DEF Erased

\* The initial state satisfies the inductive invariant.
LEMMA InitIInv == Init => IInv
  BY InputsAssumption DEF Init, IInv, TypeOK, FeeMargin, TurnsLeft, ValueRead,
                          EmptyOnlyWrapped, SignsSomething, Pcs, Reasons

\* Every step of buildTransaction keeps the inductive invariant.
LEMMA NextIInv == IInv /\ [Next]_vars => IInv'
<1> SUFFICES ASSUME IInv, [Next]_vars PROVE IInv'
  OBVIOUS
<1> USE DEF IInv, TypeOK, FeeMargin, TurnsLeft, ValueRead, EmptyOnlyWrapped, SignsSomething,
            Pcs, Reasons, allMoney, value
<1>1. input.estimate \in Nat /\ input.fee.n \in Nat /\ input.value.n \in Nat
      /\ input.utxos \in Seq(UInt)
  BY MaxIntAssumption DEF AllInputs, Amounts, UInt
<1>2. CASE Parse
  <2>1. input' = input /\ fees' \in Nat /\ UNCHANGED <<oldSize, size, maxIterations>>
        /\ UNCHANGED <<sortedVect, newUtxos, currValue>>
    BY <1>1, <1>2 DEF Parse, Refuse
  <2>2. pc' \in {"fees", "error"} /\ why' \in Reasons
    BY <1>2 DEF Parse, Refuse
  <2>3. pc = "parse"
    BY <1>2 DEF Parse
  <2>4. pc' = "fees" /\ ~allMoney => input.value.n <= MaxInt
    BY <1>2 DEF Parse, Refuse, Readable
  <2> QED
    BY <2>1, <2>2, <2>3, <2>4
<1>3. CASE CalcFees
  <2>1. NewFees \in Nat /\ NewFees >= oldSize + 30
    <3>1. Unsigned(input.estimate * oldSize) \in Int
      <4>1. input.estimate * oldSize \in Int
        BY <1>1
      <4> QED
        BY <4>1, Conversions
    <3> QED
      BY <3>1 DEF NewFees, MinFees
  <2> QED
    BY <1>1, <1>3, <2>1 DEF CalcFees
<1>4. CASE GreedyTake
  <2>1. sortedVect[Pick] \in UInt /\ Erased(sortedVect, Pick) \in Seq(UInt)
    BY <1>4, PickInRange, TakeTyped DEF GreedyTake, Greedy
  <2>2. Signed(currValue + sortedVect[Pick]) \in Int
    <3>1. currValue + sortedVect[Pick] \in Int
      BY <2>1, MaxIntAssumption DEF UInt
    <3> QED
      BY <3>1, Conversions
  <2> QED
    BY <1>4, <2>1, <2>2 DEF GreedyTake, Greedy
<1>5. CASE GreedyBeforeBegin \/ GreedyEnd
  BY <1>5 DEF GreedyBeforeBegin, GreedyEnd, Greedy
<1>6. CASE Encode
  <2>1. CASE pc' = "error"
    BY <1>6, <2>1 DEF Encode, Refuse
  <2>2. CASE pc' # "error"
    <3>1. pc' = "sign" /\ valueToSend > 0 /\ valueToSend >= fees
          /\ UNCHANGED <<input, fees, oldSize, size, maxIterations, sortedVect, newUtxos,
                         currValue, why>>
      BY <1>6, <2>2 DEF Encode, Refuse
    <3>2. newUtxos = <<>> => allUtxoValue = 0
      <4>1. newUtxos = <<>> => Sum(newUtxos) = 0
        BY DEF Sum
      <4> QED
        BY <4>1, Conversions DEF allUtxoValue
    <3>3. newUtxos = <<>> => ~allMoney /\ fees <= value
      BY <3>1, <3>2 DEF valueToSend
    <3>4. pc = "encode"
      BY <1>6 DEF Encode
    <3> QED
      BY <3>1, <3>3, <3>4
  <2> QED
    BY <2>1, <2>2
<1>7. CASE Sign
  <2>1. CASE Refuse("sign")
    BY <1>7, <2>1 DEF Refuse
  <2>2. CASE ~Refuse("sign")
    <3>1. PICK j \in Jitter :
             \/ size' = BaseSize + Len(newUtxos) * InputSize + 2 * OutputSize + j
             \/ size' = BaseSize + Len(newUtxos) * InputSize + 1 * OutputSize + j
      BY <1>7, <2>2 DEF Sign
    <3>2. Len(newUtxos) * InputSize \in Nat
      <4>1. Len(newUtxos) \in Nat /\ InputSize \in Nat
        BY SizesAssumption
      <4> QED
        BY <4>1
    <3>3. size' \in Nat
      <4> DEFINE p == Len(newUtxos) * InputSize
      <4>1. p \in Nat /\ j \in Nat /\ BaseSize \in Nat /\ OutputSize \in Nat
        BY <3>2, SizesAssumption
      <4>2. size' = BaseSize + p + 2 * OutputSize + j \/ size' = BaseSize + p + 1 * OutputSize + j
        BY <3>1
      <4> HIDE DEF p
      <4> QED
        BY <4>1, <4>2
    <3>4. pc = "sign" /\ pc' = "compare" /\ BalanceHolds
          /\ UNCHANGED <<input, fees, oldSize, maxIterations, sortedVect, newUtxos, currValue,
                         why>>
      BY <1>7, <2>2 DEF Sign
    <3>5. newUtxos # <<>>
      <4> SUFFICES ASSUME newUtxos = <<>> PROVE FALSE
        OBVIOUS
      <4>1. ~allMoney /\ fees <= value /\ value <= MaxInt /\ fees >= 1
            /\ value \in Nat /\ fees \in Nat
        BY <1>1, <3>4
      <4>2. valueToSend + fees \in UInt /\ 0 \in UInt
        BY <4>1, MaxIntAssumption DEF valueToSend, UInt
      <4>3. valueToSend + fees >= 1
        BY <4>1 DEF valueToSend
      <4>4. Sum(newUtxos) = 0
        BY DEF Sum
      <4>5. Unsigned(0) = 0 /\ Unsigned(valueToSend + fees) = valueToSend + fees
        <5>1. valueToSend + fees \in Int
          BY <4>2, MaxIntAssumption DEF UInt
        <5> HIDE DEF allMoney, value
        <5> QED
          BY <4>2, <5>1, Conversions
      <4> QED
        BY <3>4, <4>1, <4>3, <4>4, <4>5 DEF BalanceHolds, fullBalance, valueToSend
    <3> QED
      BY <3>3, <3>4, <3>5
  <2> QED
    BY <2>1, <2>2
<1>8. CASE Compare
  <2>1. pc = "compare" /\ pc' \in {"done", "error", "fees"}
        /\ UNCHANGED <<input, fees, size, sortedVect, newUtxos, currValue>>
    BY <1>8 DEF Compare
  <2>2. oldSize' \in Nat /\ maxIterations' \in 0 .. 10 /\ why' \in Reasons
    BY <1>8 DEF Compare
  <2>3. FeeMargin'
    <3>1. pc' = "done" => UNCHANGED oldSize /\ Abs(size - oldSize) <= 30
      BY <1>8, <2>1 DEF Compare
    <3>2. Abs(size - oldSize) <= 30 => size - oldSize <= 30
      BY DEF Abs
    <3> QED
      BY <2>1, <2>2, <3>1, <3>2
  <2>4. TurnsLeft'
    BY <1>8, <2>1, <2>2 DEF Compare
  <2> QED
    BY <2>1, <2>2, <2>3, <2>4
<1>9. CASE Terminated \/ UNCHANGED vars
  BY <1>9 DEF Terminated, vars
<1> QED
  BY <1>2, <1>3, <1>4, <1>5, <1>6, <1>7, <1>8, <1>9 DEF Next

\* The inductive invariant holds in every reachable state.
LEMMA Invariance == Spec => []IInv
  BY InitIInv, NextIInv, PTL DEF Spec

-----------------------------------------------------------------------------
\* Every variable of buildTransaction keeps its type.
THEOREM WalletTypeCorrect == Spec => []TypeOK
  BY Invariance, PTL DEF IInv

\* Whatever the UTXOs, the amounts and the sizes, a transaction that is returned
\* pays at least one satoshi per byte.
THEOREM PaysRelayFee == Spec => []RelayFee
<1>1. IInv => RelayFee
  BY DEF IInv, TypeOK, FeeMargin, RelayFee
<1> QED
  BY Invariance, <1>1, PTL

\* No transaction is built without inputs, for amounts up to the largest int64_t.
THEOREM NeverSignsNothing == Spec => []SignsSomething
  BY Invariance, PTL DEF IInv

-----------------------------------------------------------------------------
(* Sums.  The induction is on the members of a set: its smallest number    *)
(* that is missing has a predecessor that is not.                          *)

\* A set of natural numbers has a smallest one.
LEMMA Smallest ==
    ASSUME NEW T, T \subseteq Nat, T # {}
    PROVE  \E x \in T : \A y \in T : x <= y
<1>1. PICK R : R = OpToRel(<, Nat) /\ IsWellFoundedOn(R, Nat) BY NatLessThanWellFounded
<1>2. PICK x \in T : \A y \in T : ~(<<y, x>> \in R) BY <1>1, WFMin
<1>3. \A y \in Nat : y < x => <<y, x>> \in R BY <1>1 DEF OpToRel
<1>4. ASSUME NEW y \in T PROVE x <= y
  <2>1. ~(y < x) BY <1>2, <1>3
  <2> QED BY <2>1
<1> QED BY <1>4

\* What holds for 0 and passes from k to k + 1 holds up to m.
LEMMA UpTo ==
    ASSUME NEW P, NEW m \in Nat, 0 \in P, \A k \in 0 .. m - 1 : k \in P => k + 1 \in P
    PROVE  0 .. m \subseteq P
<1> DEFINE T == (0 .. m) \ P
<1> SUFFICES ASSUME T # {} PROVE FALSE OBVIOUS
<1>1. PICK x \in T : \A y \in T : x <= y
  <2>1. T \subseteq Nat OBVIOUS
  <2> HIDE DEF T
  <2> QED BY <2>1, Smallest
<1>2. x # 0 /\ x - 1 \in 0 .. m - 1 OBVIOUS
<1>3. x - 1 \notin T BY <1>1, <1>2
<1>4. x - 1 \in P BY <1>2, <1>3
<1>5. (x - 1) + 1 \in P BY <1>2, <1>4
<1> QED BY <1>5

\* f sums up s as far as n.
Adds(f, s, n) == f = [k \in 0 .. n |-> IF k = 0 THEN 0 ELSE f[k - 1] + s[k]]

\* The sums of the values of a sequence exist.
LEMMA SumsExist ==
    ASSUME NEW s, NEW n \in Nat
    PROVE  \E f : Adds(f, s, n)
<1> DEFINE P == {k \in 0 .. n : \E f : Adds(f, s, k)}
<1>1. 0 \in P
  <2>1. Adds([k \in 0 .. 0 |-> 0], s, 0) BY DEF Adds
  <2> QED BY <2>1
<1>2. ASSUME NEW k \in 0 .. n - 1, k \in P PROVE k + 1 \in P
  <2>1. PICK f : Adds(f, s, k) BY <1>2
  <2>2. PICK g : g = [j \in 0 .. k + 1 |-> IF j = k + 1 THEN f[k] + s[k + 1] ELSE f[j]] OBVIOUS
  <2>3. \A j \in 0 .. k : g[j] = f[j] BY <2>2
  <2>4. \A j \in 0 .. k : f[j] = IF j = 0 THEN 0 ELSE f[j - 1] + s[j] BY <2>1 DEF Adds
  <2>5. \A j \in 0 .. k + 1 : g[j] = IF j = 0 THEN 0 ELSE g[j - 1] + s[j]
    <3> TAKE j \in 0 .. k + 1
    <3>1. CASE j = k + 1 BY <2>2, <2>3, <3>1
    <3>2. CASE j # k + 1
      <4>1. j \in 0 .. k /\ (j # 0 => j - 1 \in 0 .. k) BY <3>2
      <4> QED BY <2>3, <2>4, <4>1
    <3> QED BY <3>1, <3>2
  <2>6. Adds(g, s, k + 1) BY <2>2, <2>5 DEF Adds
  <2>7. k + 1 \in 0 .. n OBVIOUS
  <2> QED BY <2>6, <2>7
<1>3. 0 .. n \subseteq P
  <2> HIDE DEF P
  <2> QED BY <1>1, <1>2, UpTo
<1> QED BY <1>3

\* Sum is well defined.
LEMMA SumAdds ==
    ASSUME NEW s \in Seq(Int), s # <<>>
    PROVE  \E f : Adds(f, s, Len(s)) /\ Sum(s) = f[Len(s)]
<1> DEFINE F == CHOOSE f : f = [k \in 0 .. Len(s) |-> IF k = 0 THEN 0 ELSE f[k - 1] + s[k]]
<1>1. Sum(s) = F[Len(s)] BY DEF Sum
<1>2. \E f : f = [k \in 0 .. Len(s) |-> IF k = 0 THEN 0 ELSE f[k - 1] + s[k]]
  <2>1. Len(s) \in Nat OBVIOUS
  <2> QED BY <2>1, SumsExist DEF Adds
<1>3. F = [k \in 0 .. Len(s) |-> IF k = 0 THEN 0 ELSE F[k - 1] + s[k]] BY <1>2, Zenon
<1> QED BY <1>1, <1>3 DEF Adds

\* The sum of values is a value, however long the list.
LEMMA SumNat ==
    ASSUME NEW s \in Seq(UInt)
    PROVE  Sum(s) \in Nat
<1>1. CASE s = <<>> BY <1>1 DEF Sum
<1>2. CASE s # <<>>
  <2>1. UInt \subseteq Nat BY MaxIntAssumption DEF UInt
  <2>2. PICK n \in Nat : n = Len(s) OBVIOUS
  <2>3. s \in Seq(Int) /\ \A k \in 1 .. n : s[k] \in Nat
    <3>1. \A k \in 1 .. n : s[k] \in UInt BY <2>2
    <3>2. ASSUME NEW S, NEW T, S \subseteq T, NEW q \in Seq(S) PROVE q \in Seq(T) BY <3>2
    <3>3. UInt \subseteq Int BY <2>1
    <3> QED BY <2>1, <3>1, <3>2, <3>3
  <2>4. PICK f : Adds(f, s, n) /\ Sum(s) = f[n] BY <1>2, <2>2, <2>3, SumAdds
  <2>5. \A k \in 0 .. n : f[k] = IF k = 0 THEN 0 ELSE f[k - 1] + s[k] BY <2>4 DEF Adds
  <2> DEFINE P == {k \in 0 .. n : f[k] \in Nat}
  <2>6. 0 \in P BY <2>5
  <2>7. ASSUME NEW k \in 0 .. n - 1, k \in P PROVE k + 1 \in P
    <3>1. k + 1 \in 0 .. n /\ k + 1 # 0 /\ (k + 1) - 1 = k /\ k + 1 \in 1 .. n OBVIOUS
    <3>2. f[k + 1] = f[k] + s[k + 1] BY <2>5, <3>1
    <3>3. f[k] \in Nat /\ s[k + 1] \in Nat BY <2>3, <2>7, <3>1
    <3> QED BY <3>1, <3>2, <3>3
  <2>8. 0 .. n \subseteq P
    <3> HIDE DEF P
    <3> QED BY <2>6, <2>7, UpTo
  <2> QED BY <2>4, <2>8
<1> QED BY <1>1, <1>2

-----------------------------------------------------------------------------
(* No more is spent than there is.                                         *)

\* encode lets pass a positive amount that the fee does not exceed: their sum fits a
\* uint64_t, and buildSignedDump compares it with what is there.
SendReady ==
    pc = "sign" => valueToSend \in Int /\ 0 < valueToSend /\ fees <= valueToSend
                   /\ valueToSend <= MaxInt

\* What every step keeps.
FInv == SendReady /\ FundsCovered

\* int64_t holds nothing larger than MaxInt.
LEMMA SignedRange ==
    ASSUME NEW x \in Int
    PROVE  Signed(x) \in Int /\ Signed(x) <= MaxInt
<1>1. ASSUME NEW m \in Nat, m >= 1, NEW y \in Int PROVE y % m \in Int /\ y % m <= m - 1
  BY <1>1
<1>2. PICK m \in Nat, y \in Int : m = 2 * MaxInt + 2 /\ y = x + MaxInt + 1 /\ m >= 1
  BY MaxIntAssumption
<1>3. y % m \in Int /\ y % m <= m - 1 BY <1>1, <1>2
<1>4. Signed(x) = (y % m) - (MaxInt + 1) BY <1>2 DEF Signed
<1> QED BY <1>2, <1>3, <1>4, MaxIntAssumption

\* Wrapping to uint64_t makes a natural number no larger.
LEMMA UnsignedBelow ==
    ASSUME NEW x \in Nat
    PROVE  Unsigned(x) \in Int /\ Unsigned(x) <= x
<1>1. ASSUME NEW m \in Nat, m >= 1 PROVE x % m \in Int /\ x % m <= x
  <2>1. CASE x < m BY <1>1, <2>1, Modulus
  <2>2. CASE x >= m BY <1>1, <2>2
  <2> QED BY <1>1, <2>1, <2>2
<1>2. PICK m \in Nat : m = 2 * MaxInt + 2 /\ m >= 1 BY MaxIntAssumption
<1>3. x % m \in Int /\ x % m <= x BY <1>1, <1>2
<1> QED BY <1>2, <1>3 DEF Unsigned

\* encode goes on only with an amount that its fee does not exceed.
LEMMA EncodeFunds ==
    ASSUME IInv, Encode
    PROVE  FInv'
<1>1. CASE Refuse("money") \/ Refuse("value") BY <1>1 DEF Refuse, FInv, SendReady, FundsCovered
<1>2. CASE /\ valueToSend > 0 /\ valueToSend >= fees /\ pc' = "sign"
           /\ UNCHANGED <<input, fees, newUtxos>>
  <2>1. valueToSend' = valueToSend
    BY <1>2 DEF valueToSend, allMoney, value, allUtxoValue
  <2>2. fees \in Nat /\ Sum(newUtxos) \in Int BY SumNat DEF IInv, TypeOK
  <2>3. valueToSend \in Int /\ valueToSend <= MaxInt
    <3>1. CASE allMoney
      <4>1. allUtxoValue \in Int /\ allUtxoValue <= MaxInt
        BY <2>2, SignedRange DEF allUtxoValue
      <4> QED BY <2>2, <3>1, <4>1, MaxIntAssumption DEF valueToSend
    <3>2. CASE ~allMoney
      <4>1. input.value.n \in Nat BY DEF IInv, TypeOK, AllInputs, Amounts
      <4>2. input.value.n <= MaxInt BY <3>2 DEF IInv, ValueRead, Encode
      <4> QED BY <3>2, <4>1, <4>2 DEF valueToSend, value
    <3> QED BY <3>1, <3>2
  <2> QED BY <1>2, <2>1, <2>2, <2>3 DEF FInv, SendReady, FundsCovered
<1> QED BY <1>1, <1>2 DEF Encode

\* buildSignedDump compares sums that have not wrapped.
LEMMA SignFunds ==
    ASSUME IInv, FInv, Sign
    PROVE  FInv'
<1>1. CASE Refuse("sign") BY <1>1 DEF Refuse, FInv, SendReady, FundsCovered
<1>2. CASE BalanceHolds /\ pc' = "compare" /\ UNCHANGED <<input, fees, newUtxos>>
  <2>1. PICK v \in Int : /\ v = valueToSend /\ 0 < v /\ fees <= v /\ v <= MaxInt
    BY DEF FInv, SendReady, Sign
  <2>2. fees \in Nat BY DEF IInv, TypeOK
  <2>3. v + fees \in Int /\ v + fees \in UInt BY <2>1, <2>2, MaxIntAssumption DEF UInt
  <2>4. Unsigned(v + fees) = v + fees BY <2>3, Conversions
  <2>5. Sum(newUtxos) \in Nat BY SumNat DEF IInv, TypeOK
  <2>6. Unsigned(Sum(newUtxos)) \in Int /\ Unsigned(Sum(newUtxos)) <= Sum(newUtxos)
    BY <2>5, UnsignedBelow
  <2>7. Unsigned(Sum(newUtxos)) >= v + fees
    BY <1>2, <2>1, <2>4 DEF BalanceHolds, fullBalance
  <2>8. Sum(newUtxos) >= v + fees BY <2>3, <2>5, <2>6, <2>7
  <2>9. valueToSend' = v /\ fees' = fees /\ newUtxos' = newUtxos
    BY <1>2, <2>1 DEF valueToSend, allMoney, value, allUtxoValue
  <2> QED BY <1>2, <2>8, <2>9 DEF FInv, SendReady, FundsCovered
<1> QED BY <1>1, <1>2 DEF Sign

\* Every step keeps it.
LEMMA NextFunds == IInv /\ FInv /\ [Next]_vars => FInv'
<1> SUFFICES ASSUME IInv, FInv, [Next]_vars PROVE FInv' OBVIOUS
<1>1. CASE Parse \/ CalcFees \/ GreedyTake \/ GreedyBeforeBegin \/ GreedyEnd
  <2>1. pc' \notin {"sign", "compare", "done"}
    BY <1>1 DEF Parse, Refuse, CalcFees, GreedyTake, Greedy, GreedyBeforeBegin, GreedyEnd
  <2> QED BY <2>1 DEF FInv, SendReady, FundsCovered
<1>2. CASE Compare
  <2>1. pc = "compare" /\ pc' \in {"done", "error", "fees"} /\ UNCHANGED <<input, fees, newUtxos>>
    BY <1>2 DEF Compare
  <2>2. valueToSend' = valueToSend
    BY <2>1 DEF valueToSend, allMoney, value, allUtxoValue
  <2> QED BY <2>1, <2>2 DEF FInv, SendReady, FundsCovered
<1>3. CASE Terminated \/ UNCHANGED vars
  <2>1. UNCHANGED <<input, fees, newUtxos, pc>> BY <1>3 DEF Terminated, vars
  <2>2. valueToSend' = valueToSend
    BY <2>1 DEF valueToSend, allMoney, value, allUtxoValue
  <2> QED BY <2>1, <2>2 DEF FInv, SendReady, FundsCovered
<1> QED BY <1>1, <1>2, <1>3, EncodeFunds, SignFunds DEF Next

\* A transaction never spends more than its inputs are worth, whatever sums of int64_t
\* and uint64_t have wrapped on the way: the check of encode may compare numbers that
\* have, that of buildSignedDump compares one that has not with one that wrapping
\* makes smaller.
THEOREM NeverOverspends == Spec => []FundsCovered
<1>1. Init => FInv BY DEF Init, FInv, SendReady, FundsCovered
<1> QED BY <1>1, NextFunds, Invariance, PTL DEF Spec, FInv

-----------------------------------------------------------------------------
(* No coin is spent twice.                                                 *)

\* The positions that Count counts.
Places(s, v) == {j \in DOMAIN s : s[j] = v}

\* Count is the number of these positions.
LEMMA PlacesFinite ==
    ASSUME NEW s \in Seq(UInt), NEW v
    PROVE  IsFiniteSet(Places(s, v)) /\ Count(s, v) = Cardinality(Places(s, v)) /\ Count(s, v) \in Nat
<1>1. Len(s) \in Nat /\ DOMAIN s = 1 .. Len(s) OBVIOUS
<1>2. IsFiniteSet(1 .. Len(s)) BY <1>1, FS_Interval
<1>3. Places(s, v) \subseteq 1 .. Len(s) BY <1>1 DEF Places
<1>4. IsFiniteSet(Places(s, v)) BY <1>2, <1>3, FS_Subset
<1>5. Count(s, v) = Cardinality(Places(s, v)) BY DEF Count, Places
<1> QED BY <1>4, <1>5, FS_CardinalityType

\* How often v is counted for an element x.
One(x, v) == IF x = v THEN 1 ELSE 0

\* Nothing is counted in the empty sequence.
LEMMA CountEmpty ==
    ASSUME NEW v
    PROVE  Count(<<>>, v) = 0
<1>1. {j \in DOMAIN <<>> : <<>>[j] = v} = {} OBVIOUS
<1> QED BY <1>1, FS_EmptySet DEF Count

\* An element more is counted once.
LEMMA CountAppend ==
    ASSUME NEW s \in Seq(UInt), NEW x \in UInt, NEW v, NEW t, t = Append(s, x)
    PROVE  Count(t, v) = Count(s, v) + One(x, v)
<1>1. PICK n \in Nat : n = Len(s) OBVIOUS
<1>2. /\ t \in Seq(UInt) /\ DOMAIN s = 1 .. n /\ DOMAIN t = 1 .. n + 1 /\ t[n + 1] = x
      /\ \A j \in 1 .. n : t[j] = s[j]
  BY <1>1
<1>3. n + 1 \notin Places(s, v) BY <1>2 DEF Places
<1>4. x = v => Places(t, v) = Places(s, v) \cup {n + 1} BY <1>2 DEF Places
<1>5. x # v => Places(t, v) = Places(s, v) BY <1>2 DEF Places
<1>6. Cardinality(Places(s, v) \cup {n + 1}) = Cardinality(Places(s, v)) + 1
  BY <1>3, PlacesFinite, FS_AddElement
<1>7. /\ Count(s, v) = Cardinality(Places(s, v)) /\ Count(t, v) = Cardinality(Places(t, v))
      /\ Count(s, v) \in Nat
  BY <1>2, PlacesFinite
<1>8. CASE x = v
  <2>1. One(x, v) = 1 BY <1>8 DEF One
  <2> QED BY <1>4, <1>6, <1>7, <1>8, <2>1
<1>9. CASE x # v
  <2>1. One(x, v) = 0 BY <1>9 DEF One
  <2> QED BY <1>5, <1>7, <1>9, <2>1
<1> QED BY <1>8, <1>9

\* An element that is erased was counted once.
LEMMA CountErased ==
    ASSUME NEW s \in Seq(UInt), NEW k \in 1 .. Len(s), NEW v, NEW t, t = Erased(s, k)
    PROVE  Count(t, v) + One(s[k], v) = Count(s, v)
<1>1. PICK n \in Nat : n = Len(s) OBVIOUS
<1>2. /\ t \in Seq(UInt) /\ DOMAIN s = 1 .. n /\ DOMAIN t = 1 .. n - 1 /\ k \in 1 .. n
      /\ \A j \in 1 .. n - 1 : t[j] = IF j < k THEN s[j] ELSE s[j + 1]
  <2>1. PICK a, b : a = SubSeq(s, 1, k - 1) /\ b = SubSeq(s, k + 1, Len(s)) /\ t = a \o b
    BY DEF Erased
  <2>2. /\ a \in Seq(UInt) /\ Len(a) = k - 1 /\ \A j \in 1 .. k - 1 : a[j] = s[j]
        /\ b \in Seq(UInt) /\ Len(b) = n - k /\ \A j \in 1 .. n - k : b[j] = s[k + j]
    BY <1>1, <2>1
  <2>3. /\ a \o b \in Seq(UInt) /\ Len(a \o b) = Len(a) + Len(b)
        /\ \A j \in 1 .. Len(a) : (a \o b)[j] = a[j]
        /\ \A j \in 1 .. Len(b) : (a \o b)[Len(a) + j] = b[j]
    <3>1. ASSUME NEW p \in Seq(UInt), NEW q \in Seq(UInt)
          PROVE  /\ p \o q \in Seq(UInt) /\ Len(p \o q) = Len(p) + Len(q)
                 /\ \A j \in 1 .. Len(p) : (p \o q)[j] = p[j]
                 /\ \A j \in 1 .. Len(q) : (p \o q)[Len(p) + j] = q[j]
      OBVIOUS
    <3> QED BY <2>2, <3>1
  <2>4. k \in 1 .. n BY <1>1
  <2>5. (k - 1) + (n - k) = n - 1 BY <2>4
  <2>6. t \in Seq(UInt) /\ Len(t) = n - 1 BY <2>1, <2>2, <2>3, <2>5
  <2>7. ASSUME NEW j \in 1 .. n - 1 PROVE t[j] = IF j < k THEN s[j] ELSE s[j + 1]
    <3>1. CASE j < k
      <4>1. j \in 1 .. k - 1 BY <2>4, <3>1
      <4> QED BY <2>1, <2>2, <2>3, <3>1, <4>1
    <3>2. CASE j >= k
      <4>1. PICK i \in 1 .. n - k : i = j - (k - 1) /\ j = (k - 1) + i /\ k + i = j + 1
        BY <2>4, <3>2
      <4>2. t[(k - 1) + i] = b[i] BY <2>1, <2>2, <2>3
      <4>3. b[i] = s[j + 1] BY <2>2, <4>1
      <4>4. t[j] = b[i] BY <4>1, <4>2
      <4>5. ~(j < k) BY <2>4, <3>2
      <4> QED BY <4>3, <4>4, <4>5
    <3> QED BY <2>4, <3>1, <3>2
  <2> QED BY <1>1, <2>4, <2>6, <2>7
<1> DEFINE A == Places(t, v)
           B == Places(s, v)
<1>3. /\ IsFiniteSet(A) /\ IsFiniteSet(B) /\ Count(t, v) = Cardinality(A)
      /\ Count(s, v) = Cardinality(B) /\ Count(t, v) \in Nat /\ Count(s, v) \in Nat
  BY <1>2, PlacesFinite
<1>4. PICK f : f = [j \in A |-> IF j < k THEN j ELSE j + 1] OBVIOUS
<1>5. f \in Bijection(A, B \ {k})
  <2>1. f \in [A -> B \ {k}]
    <3>1. ASSUME NEW j \in A PROVE f[j] \in B \ {k}
      <4>1. j \in 1 .. n - 1 /\ t[j] = v BY <1>2 DEF Places
      <4>2. CASE j < k BY <1>2, <1>4, <4>1, <4>2 DEF Places
      <4>3. CASE ~(j < k)
        <5>1. j + 1 \in 1 .. n /\ j + 1 # k BY <1>2, <4>1, <4>3
        <5>2. s[j + 1] = v /\ f[j] = j + 1 BY <1>2, <1>4, <4>1, <4>3
        <5> QED BY <1>2, <5>1, <5>2 DEF Places
      <4> QED BY <4>2, <4>3
    <3> QED BY <1>4, <3>1
  <2>2. \A i, j \in A : f[i] = f[j] => i = j
    <3>1. A \subseteq 1 .. n - 1 BY <1>2 DEF Places
    <3> HIDE DEF A
    <3> QED BY <1>2, <1>4, <3>1
  <2>3. ASSUME NEW i \in B \ {k} PROVE \E j \in A : f[j] = i
    <3>1. i \in 1 .. n /\ s[i] = v /\ i # k BY <1>2 DEF Places
    <3>2. CASE i < k
      <4>1. i \in 1 .. n - 1 /\ t[i] = s[i] BY <1>2, <3>1, <3>2
      <4>2. i \in A BY <1>2, <3>1, <4>1 DEF Places
      <4> QED BY <1>4, <3>2, <4>2
    <3>3. CASE i > k
      <4>1. PICK j \in 1 .. n - 1 : i = j + 1 /\ ~(j < k)
        <5>1. i - 1 \in 1 .. n - 1 /\ i = (i - 1) + 1 /\ ~(i - 1 < k) BY <1>2, <3>1, <3>3
        <5> QED BY <5>1
      <4>2. t[j] = v BY <1>2, <3>1, <4>1
      <4>3. j \in A BY <1>2, <4>2 DEF Places
      <4> QED BY <1>4, <4>1, <4>3
    <3> QED BY <1>2, <3>1, <3>2, <3>3
  <2> HIDE DEF A, B
  <2> QED BY <2>1, <2>2, <2>3, Fun_IsBij
<1>6. k \in B <=> s[k] = v BY <1>2 DEF Places
<1> HIDE DEF A, B
<1>7. Cardinality(B \ {k}) = Cardinality(A)
  <2>1. ExistsBijection(A, B \ {k}) BY <1>5, Fun_ExistsBij
  <2> QED BY <1>3, <2>1, FS_Bijection
<1>8. Cardinality(B \ {k}) = IF k \in B THEN Cardinality(B) - 1 ELSE Cardinality(B)
  BY <1>3, FS_RemoveElement
<1> QED BY <1>3, <1>6, <1>7, <1>8 DEF One

\* What greedyAlg has taken and what is left are together the UTXOs.
Conserved ==
    pc \in {"greedy", "encode", "sign", "compare", "done"} =>
        \A v : Count(newUtxos, v) + Count(sortedVect, v) = Count(input.utxos, v)

\* Every step keeps it: a coin is taken out of sortedVect and put into newUtxos.
LEMMA NextConserved == IInv /\ Conserved /\ [Next]_vars => Conserved'
<1> SUFFICES ASSUME IInv, Conserved, [Next]_vars PROVE Conserved' OBVIOUS
<1>1. /\ input.utxos \in Seq(UInt) /\ newUtxos \in Seq(UInt) /\ sortedVect \in Seq(UInt)
  BY DEF IInv, TypeOK, AllInputs
<1>2. CASE Parse BY <1>2 DEF Parse, Refuse, Conserved
<1>3. CASE CalcFees
  <2>1. \A v : Count(input.utxos, v) \in Nat BY <1>1, PlacesFinite
  <2>2. ASSUME NEW v PROVE Count(newUtxos', v) + Count(sortedVect', v) = Count(input.utxos, v)
    <3>1. CASE allMoney
      <4>1. newUtxos' = input.utxos /\ sortedVect' = <<>> BY <1>3, <3>1 DEF CalcFees
      <4> QED BY <2>1, <4>1, CountEmpty
    <3>2. CASE ~allMoney
      <4>1. newUtxos' = <<>> /\ sortedVect' = input.utxos BY <1>3, <3>2 DEF CalcFees
      <4> QED BY <2>1, <4>1, CountEmpty
    <3> QED BY <3>1, <3>2
  <2>3. input' = input BY <1>3 DEF CalcFees
  <2> QED BY <2>2, <2>3 DEF Conserved
<1>4. CASE GreedyTake
  <2>1. PICK k \in 1 .. Len(sortedVect) : k = Pick
    BY <1>1, <1>4, PickInRange DEF GreedyTake, Greedy
  <2>2. PICK s \in Seq(UInt), t \in Seq(UInt) : s = newUtxos /\ t = sortedVect BY <1>1
  <2>3. PICK x, a, b : x = t[k] /\ a = Append(s, x) /\ b = Erased(t, k) OBVIOUS
  <2>4. newUtxos' = a /\ sortedVect' = b /\ input' = input /\ pc' = pc /\ pc = "greedy"
    BY <1>4, <2>1, <2>2, <2>3 DEF GreedyTake, Greedy
  <2>5. x \in UInt /\ b \in Seq(UInt) /\ a \in Seq(UInt) BY <2>1, <2>2, <2>3, TakeTyped
  <2>6. ASSUME NEW v PROVE Count(a, v) + Count(b, v) = Count(s, v) + Count(t, v)
    <3>1. Count(a, v) = Count(s, v) + One(x, v)
      <4>1. ASSUME NEW q \in Seq(UInt), NEW y \in UInt, NEW r, r = Append(q, y)
            PROVE  Count(r, v) = Count(q, v) + One(y, v)
        BY <4>1, CountAppend
      <4> QED BY <2>3, <2>5, <4>1
    <3>2. Count(b, v) + One(x, v) = Count(t, v) BY <2>1, <2>2, <2>3, CountErased
    <3>3. Count(s, v) \in Nat /\ Count(b, v) \in Nat /\ Count(t, v) \in Nat
      BY <2>2, <2>5, PlacesFinite
    <3> QED BY <3>1, <3>2, <3>3 DEF One
  <2> QED BY <2>2, <2>4, <2>6 DEF Conserved
<1>5. CASE \/ GreedyBeforeBegin \/ GreedyEnd \/ Encode \/ Sign \/ Compare
           \/ Terminated \/ UNCHANGED vars
  <2>1. /\ UNCHANGED <<input, newUtxos, sortedVect>>
        /\ pc' \in {"greedy", "encode", "sign", "compare", "done"}
             => pc \in {"greedy", "encode", "sign", "compare", "done"}
    BY <1>5 DEF GreedyBeforeBegin, Greedy, GreedyEnd, Encode, Refuse, Sign, Compare, Terminated,
                vars
  <2> QED BY <2>1 DEF Conserved
<1> QED BY <1>2, <1>3, <1>4, <1>5 DEF Next

\* No coin is spent twice and none disappears, however often the fee loop has chosen
\* again: the inputs of the transaction and what was left over are the UTXOs.
THEOREM NoCoinTwice == Spec => []CoinsSpentOnce
<1>1. Init => Conserved BY DEF Init, Conserved
<1>2. Conserved => CoinsSpentOnce BY DEF Conserved, CoinsSpentOnce
<1> QED BY <1>1, <1>2, NextConserved, Invariance, PTL DEF Spec

-----------------------------------------------------------------------------
(* greedyAlg takes as few coins as possible.                               *)

\* The sums of the first k values of s.
Sums(s) == CHOOSE f : Adds(f, s, Len(s))

\* Sums adds up the values, and ends with Sum.
LEMMA SumsAre ==
    ASSUME NEW s \in Seq(UInt), NEW n, n = Len(s), NEW U, U = Sums(s)
    PROVE  /\ n \in Nat /\ Adds(U, s, n) /\ U[0] = 0 /\ Sum(s) = U[n]
           /\ \A k \in 0 .. n : U[k] \in Nat
           /\ \A k \in 1 .. n : U[k] = U[k - 1] + s[k] /\ s[k] \in Nat
<1>1. n \in Nat OBVIOUS
<1>2. Adds(U, s, n)
  <2>1. \E f : Adds(f, s, n) BY <1>1, SumsExist
  <2>2. Sums(s) = CHOOSE f : Adds(f, s, n) BY DEF Sums
  <2> QED BY <2>1, <2>2, Zenon
<1>3. \A k \in 0 .. n : U[k] = IF k = 0 THEN 0 ELSE U[k - 1] + s[k] BY <1>2 DEF Adds
<1>4. \A k \in 1 .. n : s[k] \in Nat
  <2>1. UInt \subseteq Nat BY MaxIntAssumption DEF UInt
  <2>2. \A k \in 1 .. n : s[k] \in UInt OBVIOUS
  <2> QED BY <2>1, <2>2
<1>5. U[0] = 0 /\ \A k \in 1 .. n : U[k] = U[k - 1] + s[k] BY <1>1, <1>3
<1>6. \A k \in 0 .. n : U[k] \in Nat
  <2> DEFINE P == {k \in 0 .. n : U[k] \in Nat}
  <2>1. 0 \in P BY <1>1, <1>5
  <2>2. ASSUME NEW k \in 0 .. n - 1, k \in P PROVE k + 1 \in P
    <3>1. k + 1 \in 1 .. n /\ (k + 1) - 1 = k BY <1>1
    <3>2. U[k + 1] = U[k] + s[k + 1] /\ s[k + 1] \in Nat BY <1>4, <1>5, <3>1
    <3> QED BY <2>2, <3>1, <3>2
  <2>3. 0 .. n \subseteq P
    <3> HIDE DEF P
    <3> QED BY <1>1, <2>1, <2>2, UpTo
  <2> QED BY <2>3
<1>7. Sum(s) = U[n]
  <2>1. CASE s = <<>> BY <1>5, <2>1 DEF Sum
  <2>2. CASE s # <<>>
    <3>1. Sum(s) = (CHOOSE f : Adds(f, s, Len(s)))[Len(s)] BY <2>2 DEF Sum, Adds
    <3> QED BY <3>1 DEF Sums
  <2> QED BY <2>1, <2>2
<1> QED BY <1>1, <1>2, <1>4, <1>5, <1>6, <1>7

\* They only grow.
LEMMA SumsGrow ==
    ASSUME NEW s \in Seq(UInt), NEW n, n = Len(s), NEW U, U = Sums(s),
           NEW i \in 0 .. n, NEW j \in 0 .. n, i <= j
    PROVE  U[i] <= U[j]
<1>1. /\ n \in Nat /\ \A k \in 0 .. n : U[k] \in Nat
      /\ \A k \in 1 .. n : U[k] = U[k - 1] + s[k] /\ s[k] \in Nat
  BY SumsAre
<1> DEFINE P == {k \in 0 .. n : k < i \/ U[i] <= U[k]}
<1>2. 0 \in P
  <2>1. CASE i = 0 BY <1>1, <2>1
  <2>2. CASE i # 0 BY <1>1, <2>2
  <2> QED BY <2>1, <2>2
<1>3. ASSUME NEW k \in 0 .. n - 1, k \in P PROVE k + 1 \in P
  <2>1. k + 1 \in 1 .. n /\ k + 1 \in 0 .. n /\ (k + 1) - 1 = k BY <1>1
  <2>2. U[k + 1] = U[k] + s[k + 1] /\ s[k + 1] \in Nat /\ U[k] \in Nat /\ U[i] \in Nat
    BY <1>1, <2>1
  <2>3. CASE k + 1 < i BY <2>1, <2>3
  <2>4. CASE k + 1 = i BY <2>1, <2>2, <2>4
  <2>5. CASE k + 1 > i
    <3>1. U[i] <= U[k] BY <1>3, <2>5
    <3>2. U[i] <= U[k + 1] BY <2>2, <3>1
    <3> QED BY <2>1, <3>2
  <2> QED BY <2>3, <2>4, <2>5
<1>4. 0 .. n \subseteq P
  <2> HIDE DEF P
  <2> QED BY <1>1, <1>2, <1>3, UpTo
<1>5. j \in P /\ ~(j < i) BY <1>1, <1>4, SMTT(20)
<1> QED BY <1>5

\* U adds up the n values of s.
AddsUp(U, n, s) ==
    /\ n \in Nat /\ U[0] = 0 /\ Sum(s) = U[n]
    /\ \A k \in 1 .. n : U[k] = U[k - 1] + s[k]

\* So does every sequence of UTXOs.
LEMMA SumsAddUp == ASSUME NEW s \in Seq(UInt) PROVE AddsUp(Sums(s), Len(s), s)
<1>1. PICK n, U : n = Len(s) /\ U = Sums(s) OBVIOUS
<1>2. AddsUp(U, n, s) BY <1>1, SumsAre DEF AddsUp
<1> QED BY <1>1, <1>2

\* A value more.
LEMMA SumExtended ==
    ASSUME NEW s \in Seq(UInt), NEW t \in Seq(UInt), NEW n, n = Len(s),
           NEW l, l = Len(t), l = n + 1, \A k \in 1 .. n : t[k] = s[k]
    PROVE  Sum(t) = Sum(s) + t[n + 1]
<1>1. n \in Nat OBVIOUS
<1>2. l = n + 1 /\ \A k \in 1 .. n : t[k] = s[k] OBVIOUS
<1>3. PICK U, V : U = Sums(s) /\ V = Sums(t) OBVIOUS
<1>a. AddsUp(U, n, s) /\ AddsUp(V, l, t) BY <1>3, SumsAddUp
<1>4. U[0] = 0 /\ Sum(s) = U[n] /\ \A k \in 1 .. n : U[k] = U[k - 1] + s[k]
  BY <1>a DEF AddsUp
<1>5. V[0] = 0 /\ Sum(t) = V[n + 1] /\ \A k \in 1 .. n + 1 : V[k] = V[k - 1] + t[k]
  BY <1>2, <1>a DEF AddsUp
<1> DEFINE P == {k \in 0 .. n : V[k] = U[k]}
<1>6. 0 \in P BY <1>4, <1>5
<1>7. ASSUME NEW k \in 0 .. n - 1, k \in P PROVE k + 1 \in P
  <2>1. k + 1 \in 1 .. n /\ k + 1 \in 1 .. n + 1 /\ (k + 1) - 1 = k OBVIOUS
  <2>2. V[k + 1] = V[k] + t[k + 1] BY <1>5, <2>1
  <2>3. U[k + 1] = U[k] + s[k + 1] BY <1>4, <2>1
  <2> QED BY <1>2, <1>7, <2>1, <2>2, <2>3
<1>8. 0 .. n \subseteq P
  <2> HIDE DEF P
  <2> QED BY <1>1, <1>6, <1>7, UpTo
<1>9. V[n] = U[n] BY <1>8
<1>10. V[n + 1] = V[n] + t[n + 1]
  <2>1. n + 1 \in 1 .. n + 1 /\ (n + 1) - 1 = n OBVIOUS
  <2> QED BY <1>5, <2>1
<1> QED BY <1>1, <1>4, <1>5, <1>9, <1>10

\* No c values of a sorted list are together worth more than the c last ones.
LEMMA LargestAreLast ==
    ASSUME NEW u \in Seq(UInt), Sorted(u), NEW n, n = Len(u), NEW U, U = Sums(u),
           NEW S, S \subseteq 1 .. n, NEW w \in Seq(UInt), Len(w) = n,
           \A k \in 1 .. n : w[k] = IF k \in S THEN u[k] ELSE 0
    PROVE  Cardinality(S) \in 0 .. n /\ Sum(w) <= U[n] - U[n - Cardinality(S)]
<1>1. /\ n \in Nat /\ U[0] = 0 /\ \A k \in 0 .. n : U[k] \in Nat
      /\ \A k \in 1 .. n : U[k] = U[k - 1] + u[k] /\ u[k] \in Nat
  BY SumsAre
<1>2. \A j \in S : j \in Nat /\ 1 <= j /\ j <= n BY <1>1
<1>3. PICK W : W = Sums(w) OBVIOUS
<1>4. /\ W[0] = 0 /\ Sum(w) = W[n] /\ \A k \in 0 .. n : W[k] \in Nat
      /\ \A k \in 1 .. n : W[k] = W[k - 1] + w[k]
  BY <1>3, SumsAre
<1> DEFINE Below(k) == {j \in S : j <= k}
           c(k) == Cardinality(Below(k))
           P == {k \in 0 .. n : c(k) \in 0 .. k /\ W[k] <= U[k] - U[k - c(k)]}
<1>5. ASSUME NEW k \in 0 .. n PROVE IsFiniteSet(Below(k))
  <2>1. IsFiniteSet(1 .. n) BY <1>1, FS_Interval
  <2>2. Below(k) \subseteq 1 .. n OBVIOUS
  <2> QED BY <2>1, <2>2, FS_Subset
<1>6. 0 \in P
  <2>1. Below(0) = {}
    <3>1. \A j \in S : ~(j <= 0) BY <1>2
    <3> QED BY <3>1
  <2>2. c(0) = 0 BY <2>1, FS_EmptySet
  <2> HIDE DEF c
  <2> QED BY <1>1, <1>4, <2>2
<1>7. ASSUME NEW k \in 0 .. n - 1, k \in P PROVE k + 1 \in P
  <2>1. /\ k + 1 \in 1 .. n /\ k + 1 \in 0 .. n /\ k \in 0 .. n /\ (k + 1) - 1 = k
        /\ k \in Nat
    BY <1>1
  <2>2. PICK d \in 0 .. k : d = c(k) /\ W[k] <= U[k] - U[k - d] BY <1>7
  <2>3. W[k + 1] = W[k] + w[k + 1] /\ W[k] \in Nat BY <1>4, <2>1
  <2>4. U[k + 1] = U[k] + u[k + 1] /\ U[k] \in Nat /\ u[k + 1] \in Nat BY <1>1, <2>1
  <2>5. k - d \in 0 .. n /\ U[k - d] \in Nat BY <1>1, <2>1
  <2>6. CASE k + 1 \in S
    <3>1. Below(k + 1) = Below(k) \cup {k + 1} /\ k + 1 \notin Below(k)
      <4>1. \A j \in S : (j <= k + 1) <=> (j <= k \/ j = k + 1) BY <1>2, <2>1
      <4>2. ~(k + 1 <= k) BY <2>1
      <4> QED BY <2>6, <4>1, <4>2
    <3>2. c(k + 1) = d + 1
      <4> HIDE DEF Below
      <4> QED BY <1>5, <2>1, <2>2, <3>1, FS_AddElement
    <3>3. w[k + 1] = u[k + 1] BY <2>1, <2>6
    <3>4. (k + 1) - (d + 1) = k - d /\ d + 1 \in 0 .. k + 1 BY <2>1
    <3>5. W[k + 1] <= U[k + 1] - U[k - d] BY <2>2, <2>3, <2>4, <2>5, <3>3
    <3> HIDE DEF c
    <3> QED BY <2>1, <3>2, <3>4, <3>5
  <2>7. CASE k + 1 \notin S
    <3>1. Below(k + 1) = Below(k)
      <4>1. \A j \in S : (j <= k + 1) <=> (j <= k \/ j = k + 1) BY <1>2, <2>1
      <4> QED BY <2>7, <4>1
    <3>2. c(k + 1) = d BY <2>2, <3>1
    <3>3. w[k + 1] = 0 BY <2>1, <2>7
    <3>4. PICK i \in 1 .. n : i = (k + 1) - d /\ i - 1 = k - d /\ i <= k + 1
      BY <1>1, <2>1
    <3>5. U[i] = U[i - 1] + u[i] /\ u[i] \in Nat BY <1>1, <3>4
    <3>6. u[i] <= u[k + 1]
      <4>1. CASE i = k + 1 BY <2>4, <4>1
      <4>2. CASE i < k + 1
        <5>1. DOMAIN u = 1 .. n OBVIOUS
        <5> QED BY <2>1, <3>4, <4>2, <5>1 DEF Sorted
      <4> QED BY <2>1, <3>4, <4>1, <4>2
    <3>7. U[i] = U[k - d] + u[i] BY <3>4, <3>5
    <3>8. W[k + 1] <= U[k + 1] - U[i]
      <4>1. W[k] <= U[k] - U[k - d] BY <2>2
      <4>2. W[k + 1] = W[k] BY <2>3, <3>3
      <4> HIDE DEF c, Below, P
      <4> QED BY <2>4, <2>5, <2>3, <3>5, <3>6, <3>7, <4>1, <4>2, SMTT(20)
    <3> HIDE DEF c
    <3>9. d \in 0 .. k + 1 BY <2>1
    <3> QED BY <2>1, <3>2, <3>4, <3>8, <3>9
  <2> QED BY <2>6, <2>7
<1>8. 0 .. n \subseteq P
  <2> HIDE DEF P
  <2> QED BY <1>1, <1>6, <1>7, UpTo
<1>9. n \in P BY <1>1, <1>8
<1>10. Below(n) = S BY <1>2
<1> QED BY <1>4, <1>9, <1>10
-----------------------------------------------------------------------------
\* While greedyAlg is m coins away from the beginning and c from none, only the largest
\* are gone: t is what is left of u.
Searching(u, n, U, m, t, c, goal) ==
    /\ Len(t) = n - m /\ \A j \in 1 .. n - m : t[j] = u[j]
    /\ c = U[n] - U[n - m] /\ c < goal

\* When it has m, one less of the largest would not have been enough.
Reached(n, U, m, c, goal) == 1 <= m /\ U[n] - U[n - (m - 1)] < goal /\ goal <= c

\* What greedyAlg has taken, m coins worth c, and what it has left, t.
Choice(u, n, U, m, t, c, goal) ==
    /\ m \in 0 .. n /\ c \in 0 .. U[n]
    /\ Searching(u, n, U, m, t, c, goal) \/ Reached(n, U, m, c, goal)

\* Nothing is taken yet.
LEMMA ChoiceBegins ==
    ASSUME NEW u \in Seq(UInt), NEW n, n = Len(u), NEW U, U = Sums(u), NEW goal \in Nat, goal > 0
    PROVE  Choice(u, n, U, 0, u, 0, goal)
<1>1. n \in Nat /\ n - 0 = n /\ U[n] \in Nat BY SumsAre
<1>2. U[n] - U[n - 0] = 0 /\ 0 \in 0 .. n /\ 0 \in 0 .. U[n] BY <1>1
<1> QED BY <1>1, <1>2 DEF Choice, Searching

\* An element is taken: the last, or one that is worth what is missing.
LEMMA ChoiceTakes ==
    ASSUME NEW u \in Seq(UInt), NEW n, n = Len(u), NEW U, U = Sums(u), NEW t \in Seq(UInt),
           NEW m \in 0 .. n, NEW goal \in Nat, NEW c \in 0 .. U[n],
           Searching(u, n, U, m, t, c, goal),
           NEW l, l = Len(t), NEW k \in 1 .. l, NEW x, x = t[k], x < goal - c => k = l,
           NEW e, e = Erased(t, k)
    PROVE  Choice(u, n, U, m + 1, e, c + x, goal)
<1>1. /\ n \in Nat /\ U[0] = 0 /\ \A j \in 0 .. n : U[j] \in Nat
      /\ \A j \in 1 .. n : U[j] = U[j - 1] + u[j] /\ u[j] \in Nat
  BY SumsAre
<1>2. l \in Nat /\ l = n - m /\ c = U[n] - U[l] /\ c < goal /\ \A j \in 1 .. l : t[j] = u[j]
  BY DEF Searching
<1>3. /\ l \in 0 .. n /\ k \in 0 .. n /\ k \in 1 .. n /\ k <= l /\ m + 1 \in 0 .. n
      /\ k - 1 \in 0 .. n /\ n - (m + 1) = l - 1 /\ n - ((m + 1) - 1) = l /\ 1 <= m + 1
  BY <1>1, <1>2
<1>4. x = u[k] /\ U[k] = U[k - 1] + x /\ x \in Nat /\ U[k - 1] \in Nat /\ U[k] \in Nat
      /\ U[n] \in Nat /\ U[l] \in Nat
  <2>1. x = u[k] BY <1>2
  <2>2. U[k] = U[k - 1] + u[k] /\ u[k] \in Nat BY <1>1, <1>3
  <2>3. U[k - 1] \in Nat /\ U[k] \in Nat /\ U[l] \in Nat BY <1>1, <1>3
  <2>4. U[n] \in Nat BY <1>1
  <2> QED BY <2>1, <2>2, <2>3, <2>4
<1>5. U[k] <= U[l] BY <1>3, SumsGrow
<1>6. c \in Nat /\ c + x \in 0 .. U[n]
  <2>1. PICK a \in Nat, b \in Nat, d \in Nat, f \in Nat :
           a = U[n] /\ b = U[l] /\ d = U[k] /\ f = U[k - 1]
    BY <1>4
  <2>2. c = a - b /\ d = f + x /\ d <= b /\ x \in Nat /\ c \in Nat BY <1>2, <1>4, <1>5, <2>1
  <2>3. c + x \in 0 .. a BY <2>2
  <2> QED BY <2>1, <2>2, <2>3
<1>7. CASE goal <= c + x
  <2>1. U[n] - U[n - ((m + 1) - 1)] < goal BY <1>2, <1>3
  <2> QED BY <1>3, <1>6, <1>7, <2>1 DEF Choice, Reached
<1>8. CASE c + x < goal
  <2>1. k = l BY <1>4, <1>6, <1>8
  <2>2. Len(e) = l - 1 /\ \A j \in 1 .. l - 1 : e[j] = t[j] BY <2>1 DEF Erased
  <2>3. Len(e) = n - (m + 1) /\ \A j \in 1 .. n - (m + 1) : e[j] = u[j]
    BY <1>2, <1>3, <2>2
  <2>4. c + x = U[n] - U[n - (m + 1)]
    <3>1. PICK a \in Nat, b \in Nat, f \in Nat : a = U[n] /\ b = U[l] /\ f = U[l - 1]
      BY <1>4, <2>1
    <3>2. c = a - b /\ b = f + x /\ x \in Nat BY <1>2, <1>4, <2>1, <3>1
    <3>3. ASSUME NEW p \in Nat, NEW q \in Nat, p = a - b, b = f + q PROVE p + q = a - f
      BY <3>3
    <3>4. c + x = a - f BY <1>6, <3>2, <3>3
    <3> QED BY <1>3, <3>1, <3>4
  <2> QED BY <1>3, <1>6, <1>8, <2>3, <2>4 DEF Choice, Searching
<1> QED BY <1>4, <1>6, <1>7, <1>8

\* No fewer coins are worth as much as was asked for.
LEMMA ChoiceIsSmall ==
    ASSUME NEW u \in Seq(UInt), Sorted(u), NEW n, n = Len(u), NEW U, U = Sums(u),
           NEW m, NEW t, NEW c, NEW goal \in Nat, Choice(u, n, U, m, t, c, goal),
           Len(t) = 0 \/ goal <= c,
           NEW S, S \subseteq 1 .. n, NEW w \in Seq(UInt), Len(w) = n,
           \A k \in 1 .. n : w[k] = IF k \in S THEN u[k] ELSE 0,
           goal <= Sum(w)
    PROVE  m <= Cardinality(S)
<1>1. n \in Nat /\ U[0] = 0 /\ \A j \in 0 .. n : U[j] \in Nat BY SumsAre
<1>2. PICK d \in 0 .. n : d = Cardinality(S) /\ Sum(w) <= U[n] - U[n - d]
  <2>1. Cardinality(S) \in 0 .. n /\ Sum(w) <= U[n] - U[n - Cardinality(S)] BY LargestAreLast
  <2> QED BY <2>1
<1>3. Sum(w) \in Nat BY SumNat
<1>4. n \in 0 .. n /\ n - d \in 0 .. n /\ m \in 0 .. n /\ c \in Nat BY <1>1 DEF Choice
<1>5. U[n] \in Nat /\ U[n - d] \in Nat BY <1>1, <1>4
<1>6. CASE Searching(u, n, U, m, t, c, goal)
  <2>1. n - m = 0 /\ c = U[n] - U[n - m] /\ c < goal BY <1>4, <1>6 DEF Searching
  <2>2. U[n] < goal BY <1>1, <1>5, <2>1
  <2> QED BY <1>2, <1>3, <1>5, <2>2
<1>7. CASE Reached(n, U, m, c, goal)
  <2> SUFFICES ASSUME d < m PROVE FALSE BY <1>2, <1>4
  <2>1. PICK i \in 0 .. n : i = n - (m - 1) /\ U[n] - U[i] < goal BY <1>1, <1>4, <1>7 DEF Reached
  <2>2. i <= n - d BY <1>1, <1>4, <2>1
  <2>3. PICK j \in 0 .. n : j = n - d BY <1>4
  <2>4. U[i] <= U[j] BY <2>2, <2>3, SumsGrow
  <2>5. U[i] \in Nat BY <1>1
  <2> QED BY <1>2, <1>3, <1>5, <2>1, <2>3, <2>4, <2>5
<1> QED BY <1>6, <1>7 DEF Choice

-----------------------------------------------------------------------------
\* The conversions keep amounts up to the largest int64_t.
LEMMA ConversionsKeep ==
    ASSUME NEW x \in 0 .. MaxInt
    PROVE  x \in Nat /\ x <= MaxInt /\ Signed(x) = x /\ Unsigned(x) = x
<1>1. PICK M \in Nat : M = MaxInt BY MaxIntAssumption
<1>2. x \in Nat /\ x <= M /\ x \in UInt BY <1>1 DEF UInt
<1>3. PICK y \in Int, k \in Nat : y = x + M + 1 /\ k = 2 * M + 2 /\ k >= 1 /\ 0 <= y /\ y < k
  BY <1>1, <1>2
<1>4. y % k = y BY <1>3, Modulus
<1>5. Signed(x) = (y % k) - (M + 1) BY <1>1, <1>3 DEF Signed
<1>6. Signed(x) = x BY <1>1, <1>2, <1>3, <1>4, <1>5
<1> QED BY <1>1, <1>2, <1>6, Conversions

\* An element that is worth less than what is missing is taken only when it is the
\* last, and so the largest.
LEMMA PickLast ==
    ASSUME sortedVect \in Seq(UInt), sortedVect # <<>>, Sorted(sortedVect),
           \A j \in 1 .. Len(sortedVect) : sortedVect[j] <= MaxInt,
           rest \in 0 .. MaxInt, sortedVect[Pick] < rest
    PROVE  Pick = Len(sortedVect)
<1>1. PICK t \in Seq(UInt), l \in Nat, r \in 0 .. MaxInt :
         t = sortedVect /\ l = Len(sortedVect) /\ r = rest
  OBVIOUS
<1>2. /\ DOMAIN t = 1 .. l /\ \A j \in 1 .. l : t[j] \in 0 .. MaxInt
      /\ \A i, j \in 1 .. l : i < j => t[i] <= t[j]
      /\ r \in Nat /\ Unsigned(r) = r
  <2>1. UInt \subseteq Nat BY MaxIntAssumption DEF UInt
  <2>2. DOMAIN t = 1 .. l /\ \A j \in 1 .. l : t[j] \in UInt BY <1>1
  <2>3. \A j \in 1 .. l : t[j] \in Nat /\ t[j] <= MaxInt BY <1>1, <2>1, <2>2
  <2>4. \A i, j \in 1 .. l : i < j => t[i] <= t[j] BY <1>1, <2>2 DEF Sorted
  <2>5. r \in Nat /\ Unsigned(r) = r BY ConversionsKeep
  <2> QED BY <2>2, <2>3, <2>4, <2>5, MaxIntAssumption
<1> DEFINE S == {j \in 1 .. l : t[j] <= r}
<1>3. IsFiniteSet(S) /\ Cardinality(S) \in Nat
  <2>1. IsFiniteSet(1 .. l) BY FS_Interval
  <2>2. S \subseteq 1 .. l OBVIOUS
  <2> HIDE DEF S
  <2> QED BY <2>1, <2>2, FS_Subset, FS_CardinalityType
<1>4. PICK b \in Nat : b = Cardinality(S) + 1 /\ b >= 1 /\ b = UpperBound
  <2>1. UpperBound = Cardinality(S) + 1 BY <1>1, <1>2 DEF UpperBound
  <2> HIDE DEF S
  <2> QED BY <1>3, <2>1
<1>5. PICK p : p = Pick /\ p \in 1 .. l /\ t[p] < r BY <1>1, PickInRange
<1>6. p = CASE b > 1 /\ Signed(t[b - 1]) = r -> b - 1
            [] b > l -> l
            [] OTHER -> b
  BY <1>1, <1>4, <1>5 DEF Pick
<1>7. CASE b > 1 /\ Signed(t[b - 1]) = r /\ p = b - 1
  <2>1. t[p] \in 0 .. MaxInt /\ Signed(t[p]) = r BY <1>2, <1>5, <1>7
  <2>2. t[p] = r BY <2>1, ConversionsKeep
  <2> QED BY <1>2, <1>5, <2>2
<1>8. CASE b <= l /\ p = b
  <2>1. ASSUME NEW j \in 1 .. b PROVE j \in S
    <3>1. j \in 1 .. l /\ b \in 1 .. l /\ (j < b \/ j = b) BY <1>4, <1>8
    <3>2. t[j] <= t[b] BY <1>2, <3>1
    <3>3. t[j] \in Nat /\ t[b] \in Nat BY <1>2, <3>1
    <3>4. t[j] <= r BY <1>2, <1>5, <1>8, <3>2, <3>3
    <3> QED BY <3>1, <3>4
  <2>2. 1 .. b \subseteq S BY <2>1
  <2>3. Cardinality(1 .. b) = b BY <1>4, FS_Interval
  <2>4. Cardinality(1 .. b) <= Cardinality(S)
    <3> HIDE DEF S
    <3> QED BY <1>3, <2>2, FS_Subset
  <2> HIDE DEF S
  <2> QED BY <1>3, <1>4, <2>3, <2>4
<1>9. CASE p = l BY <1>1, <1>5, <1>9
<1> HIDE DEF S
<1> QED BY <1>4, <1>6, <1>7, <1>8, <1>9

-----------------------------------------------------------------------------
\* Neither the amount that is asked for nor all the UTXOs together wrap.
Bounded == ~allMoney /\ value + fees <= MaxInt /\ Sum(input.utxos) <= MaxInt

\* What greedyAlg has taken and what it has left, and how it ends.
Chosen ==
    pc \in {"greedy", "encode"} /\ Bounded =>
        /\ currValue = Sum(newUtxos)
        /\ Choice(input.utxos, Len(input.utxos), Sums(input.utxos), Len(newUtxos), sortedVect,
                  currValue, value + fees)
        /\ pc = "encode" => sortedVect = <<>> \/ value + fees <= currValue

\* What every step keeps.
SInv == Sorted(input.utxos) /\ Chosen

\* greedyAlg begins with nothing.
LEMMA CalcFeesChosen ==
    ASSUME IInv, IInv', CalcFees
    PROVE  Chosen'
<1> SUFFICES ASSUME pc' = "greedy", Bounded' PROVE
       /\ (currValue = Sum(newUtxos))'
       /\ Choice(input.utxos, Len(input.utxos), Sums(input.utxos), Len(newUtxos), sortedVect,
                 currValue, value + fees)'
  <2>1. pc' # "encode" \/ ~Bounded' BY DEF CalcFees, Bounded, allMoney
  <2> QED BY <2>1 DEF Chosen
<1>1. /\ input' = input /\ currValue' = 0 /\ newUtxos' = <<>> /\ sortedVect' = input.utxos
  BY DEF CalcFees, Bounded, allMoney
<1>2. PICK g \in Nat : g = value' + fees' /\ g > 0
  <2>1. fees' \in Nat /\ oldSize' \in Nat /\ fees' >= oldSize' + 30
    BY DEF IInv, TypeOK, FeeMargin
  <2>2. value' \in Nat BY DEF IInv, TypeOK, AllInputs, Amounts, value
  <2>3. ASSUME NEW a \in Nat, NEW b \in Nat, NEW d \in Nat, b >= d + 30
        PROVE  a + b \in Nat /\ a + b > 0
    BY <2>3
  <2> QED BY <2>1, <2>2, <2>3
<1>3. PICK u \in Seq(UInt) : u = input.utxos BY DEF IInv, TypeOK, AllInputs
<1>4. PICK n, U : n = Len(u) /\ U = Sums(u) OBVIOUS
<1>5. Choice(u, n, U, 0, u, 0, g) BY <1>2, <1>4, ChoiceBegins
<1>6. Len(<<>>) = 0 /\ Sum(<<>>) = 0 BY DEF Sum
<1> QED BY <1>1, <1>2, <1>3, <1>4, <1>5, <1>6

\* It takes an element.
LEMMA GreedyTakeChosen ==
    ASSUME IInv, SInv, GreedyTake
    PROVE  Chosen'
<1> SUFFICES ASSUME Bounded PROVE
       /\ (currValue = Sum(newUtxos))'
       /\ Choice(input.utxos, Len(input.utxos), Sums(input.utxos), Len(newUtxos), sortedVect,
                 currValue, value + fees)'
  <2>1. pc' = "greedy" /\ (Bounded' => Bounded)
    BY DEF GreedyTake, Greedy, Bounded, allMoney, value
  <2> QED BY <2>1 DEF Chosen
<1>1. PICK u \in Seq(UInt), t \in Seq(UInt), s \in Seq(UInt) :
         u = input.utxos /\ t = sortedVect /\ s = newUtxos /\ Sorted(u)
  BY DEF IInv, TypeOK, AllInputs, SInv
<1>2. PICK n, U, m, l : n = Len(u) /\ U = Sums(u) /\ m = Len(s) /\ l = Len(t) OBVIOUS
<1>3. PICK g \in 0 .. MaxInt : g = value + fees /\ g \in Nat /\ allValue = g
  <2>1. value + fees \in Nat /\ value + fees <= MaxInt
    BY DEF IInv, TypeOK, AllInputs, Amounts, value, Bounded
  <2>2. value + fees \in 0 .. MaxInt BY <2>1, MaxIntAssumption
  <2> QED BY <2>1, <2>2, ConversionsKeep DEF allValue
<1>4. PICK c \in 0 .. U[n] : /\ c = currValue /\ c = Sum(s) /\ m \in 0 .. n /\ c < g
                             /\ Choice(u, n, U, m, t, c, g)
  <2>1. currValue = Sum(s) /\ Choice(u, n, U, m, t, currValue, g)
    BY <1>1, <1>2, <1>3 DEF SInv, Chosen, GreedyTake, Greedy
  <2>2. m \in 0 .. n /\ currValue \in 0 .. U[n] BY <2>1 DEF Choice
  <2>3. currValue < g BY <1>3 DEF GreedyTake, Greedy
  <2> QED BY <2>1, <2>2, <2>3
<1>5. /\ n \in Nat /\ U[n] \in Nat /\ U[n] <= MaxInt /\ Sum(u) = U[n] /\ U[0] = 0
      /\ \A j \in 0 .. n : U[j] \in Nat
      /\ \A j \in 1 .. n : U[j] = U[j - 1] + u[j] /\ u[j] \in Nat
  <2>1. /\ n \in Nat /\ U[n] \in Nat /\ Sum(u) = U[n] /\ U[0] = 0
        /\ \A j \in 0 .. n : U[j] \in Nat
        /\ \A j \in 1 .. n : U[j] = U[j - 1] + u[j] /\ u[j] \in Nat
    BY <1>2, SumsAre
  <2> QED BY <1>1, <2>1 DEF Bounded
<1>6. c \in Nat /\ c <= U[n] BY <1>5
<1>7. Searching(u, n, U, m, t, c, g) BY <1>3, <1>4, <1>6 DEF Choice, Reached
<1>8. l \in Nat /\ l = n - m /\ l <= n /\ \A j \in 1 .. l : t[j] = u[j]
  BY <1>2, <1>4, <1>5, <1>7 DEF Searching
<1>9. \A j \in 1 .. l : t[j] <= MaxInt
  <2>1. SUFFICES ASSUME NEW j \in 1 .. l PROVE u[j] <= MaxInt BY <1>8
  <2>2. j \in 1 .. n /\ j \in 0 .. n /\ j - 1 \in 0 .. n /\ j <= n /\ n \in 0 .. n BY <1>5, <1>8
  <2>3. U[j] <= U[n] BY <1>2, <2>2, SumsGrow
  <2>4. U[j] = U[j - 1] + u[j] /\ u[j] \in Nat /\ U[j - 1] \in Nat /\ U[j] \in Nat BY <1>5, <2>2
  <2>5. u[j] <= U[j] BY <2>4
  <2> QED BY <1>5, <2>3, <2>4, <2>5, MaxIntAssumption
<1>10. Sorted(t)
  <2>1. DOMAIN t = 1 .. l /\ DOMAIN u = 1 .. n BY <1>2
  <2>2. 1 .. l \subseteq 1 .. n BY <1>5, <1>8
  <2> QED BY <1>1, <1>8, <2>1, <2>2 DEF Sorted
<1>11. rest = g - c /\ rest \in 0 .. MaxInt
  <2>1. g - c \in 0 .. MaxInt BY <1>3, <1>4, <1>6, MaxIntAssumption
  <2>2. Signed(g - c) = g - c BY <2>1, ConversionsKeep
  <2> QED BY <1>3, <1>4, <2>1, <2>2 DEF rest
<1>12. t # <<>> BY <1>1 DEF GreedyTake, Greedy
<1>13. PICK k \in 1 .. l : k = Pick BY <1>1, <1>2, <1>12, PickInRange
<1>14. PICK x \in UInt : x = t[k] BY <1>2, <1>13, TakeTyped
<1>15. x < g - c => k = l
  <2>1. ASSUME sortedVect[Pick] < rest PROVE Pick = Len(sortedVect)
    BY <1>1, <1>2, <1>9, <1>10, <1>11, <1>12, <2>1, PickLast
  <2> QED BY <1>1, <1>2, <1>11, <1>13, <1>14, <2>1
<1>16. PICK e, a : e = Erased(t, k) /\ a = Append(s, x) OBVIOUS
<1>17. Choice(u, n, U, m + 1, e, c + x, g)
  BY <1>2, <1>3, <1>4, <1>7, <1>14, <1>15, <1>16, ChoiceTakes
<1>18. Sum(a) = c + x
  <2>1. /\ a \in Seq(UInt) /\ Len(a) = m + 1 /\ a[m + 1] = x
        /\ \A j \in 1 .. m : a[j] = s[j]
    BY <1>2, <1>16
  <2>2. PICK b : b = Len(a) OBVIOUS
  <2>3. Sum(a) = Sum(s) + a[m + 1] BY <1>2, <2>1, <2>2, SumExtended
  <2> QED BY <1>4, <2>1, <2>3
<1>19. Signed(c + x) = c + x
  <2>1. c + x \in 0 .. U[n] BY <1>17 DEF Choice
  <2>2. c + x \in 0 .. MaxInt BY <1>5, <2>1, MaxIntAssumption
  <2> QED BY <2>2, ConversionsKeep
<1>20. Len(a) = m + 1 BY <1>2, <1>16
<1>21. /\ input' = input /\ fees' = fees /\ currValue' = c + x /\ newUtxos' = a
       /\ sortedVect' = e
  BY <1>1, <1>4, <1>13, <1>14, <1>16, <1>19 DEF GreedyTake
<1>22. value' = value BY <1>21 DEF value, allMoney
<1> QED BY <1>1, <1>2, <1>3, <1>17, <1>18, <1>20, <1>21, <1>22

\* Every step keeps what greedyAlg has chosen.
LEMMA NextChosen == IInv /\ IInv' /\ SInv /\ [Next]_vars => SInv'
<1> SUFFICES ASSUME IInv, IInv', SInv, [Next]_vars PROVE SInv' OBVIOUS
<1>1. input' = input
  BY DEF Next, vars, Parse, Refuse, CalcFees, GreedyTake, GreedyBeforeBegin, GreedyEnd, Encode,
         Sign, Compare, Terminated
<1>2. Sorted(input'.utxos) BY <1>1 DEF SInv
<1>3. CASE CalcFees BY <1>2, <1>3, CalcFeesChosen DEF SInv
<1>4. CASE GreedyTake BY <1>2, <1>4, GreedyTakeChosen DEF SInv
<1>5. CASE GreedyEnd
  <2>1. /\ UNCHANGED <<input, fees, sortedVect, newUtxos, currValue>>
        /\ pc = "greedy" /\ pc' = "encode" /\ ~Greedy
    BY <1>5 DEF GreedyEnd
  <2>2. UNCHANGED <<value, Bounded>> BY <2>1 DEF value, allMoney, Bounded
  <2>3. Bounded => sortedVect = <<>> \/ value + fees <= currValue
    <3> SUFFICES ASSUME Bounded PROVE sortedVect = <<>> \/ value + fees <= currValue OBVIOUS
    <3>1. value + fees \in Nat /\ value + fees <= MaxInt /\ currValue \in Int
      BY DEF IInv, TypeOK, AllInputs, Amounts, value, Bounded
    <3>2. value + fees \in 0 .. MaxInt BY <3>1, MaxIntAssumption
    <3>3. allValue = value + fees BY <3>2, ConversionsKeep DEF allValue
    <3> QED BY <2>1, <3>1, <3>3 DEF Greedy
  <2> QED BY <1>2, <2>1, <2>2, <2>3 DEF SInv, Chosen
<1>6. CASE UNCHANGED vars
  BY <1>2, <1>6 DEF SInv, Chosen, Bounded, vars, value, allMoney
<1>7. CASE Parse \/ GreedyBeforeBegin \/ Encode \/ Sign \/ Compare \/ Terminated
  <2>1. CASE Terminated BY <1>6, <2>1 DEF Terminated
  <2>2. CASE Parse \/ GreedyBeforeBegin \/ Encode \/ Sign \/ Compare
    <3>1. pc' \notin {"greedy", "encode"}
      BY <2>2 DEF Parse, Refuse, GreedyBeforeBegin, Encode, Sign, Compare
    <3> QED BY <1>2, <3>1 DEF SInv, Chosen
  <2> QED BY <1>7, <2>1, <2>2
<1> QED BY <1>3, <1>4, <1>5, <1>6, <1>7 DEF Next

\* What it has chosen is enough, and no fewer coins are.
LEMMA ChosenFewest == IInv /\ SInv => FewestInputs
<1> SUFFICES ASSUME IInv, SInv, pc = "encode", Bounded
             PROVE  /\ Sum(input.utxos) >= allValue => allUtxoValue >= allValue
                    /\ \A S \in SUBSET DOMAIN input.utxos :
                          Sum([j \in DOMAIN input.utxos |->
                                  IF j \in S THEN input.utxos[j] ELSE 0]) >= allValue
                          => Cardinality(S) >= Len(newUtxos)
  BY DEF FewestInputs, Bounded
<1>1. PICK u \in Seq(UInt), s \in Seq(UInt), t \in Seq(UInt) :
         u = input.utxos /\ s = newUtxos /\ t = sortedVect /\ Sorted(u)
  BY DEF IInv, TypeOK, AllInputs, SInv
<1>2. PICK n, U, m : n = Len(u) /\ U = Sums(u) /\ m = Len(s) OBVIOUS
<1>3. PICK g \in Nat : g = value + fees /\ allValue = g
  <2>1. value + fees \in Nat /\ value + fees <= MaxInt
    BY DEF IInv, TypeOK, AllInputs, Amounts, value, Bounded
  <2>2. value + fees \in 0 .. MaxInt BY <2>1, MaxIntAssumption
  <2> QED BY <2>1, <2>2, ConversionsKeep DEF allValue
<1>4. PICK c : /\ c = currValue /\ c = Sum(s) /\ Choice(u, n, U, m, t, c, g)
               /\ t = <<>> \/ g <= c
  BY <1>1, <1>2, <1>3 DEF SInv, Chosen
<1>5. /\ n \in Nat /\ U[n] \in Nat /\ U[n] <= MaxInt /\ Sum(u) = U[n] /\ U[0] = 0
  <2>1. n \in Nat /\ U[n] \in Nat /\ Sum(u) = U[n] /\ U[0] = 0 BY <1>2, SumsAre
  <2> QED BY <1>1, <2>1 DEF Bounded
<1>6. c \in 0 .. MaxInt /\ c \in Nat /\ m \in 0 .. n BY <1>4, <1>5, MaxIntAssumption DEF Choice
<1>7. allUtxoValue = c BY <1>1, <1>4, <1>6, ConversionsKeep DEF allUtxoValue
<1>8. Len(t) = 0 \/ g <= c BY <1>4
<1>9. ASSUME U[n] >= g PROVE c >= g
  <2> SUFFICES ASSUME c < g PROVE FALSE BY <1>6
  <2>1. Searching(u, n, U, m, t, c, g) BY <1>4, <1>6 DEF Choice, Reached
  <2>2. n - m = 0 /\ c = U[n] - U[n - m] BY <1>6, <1>8, <2>1 DEF Searching
  <2> QED BY <1>5, <1>6, <1>9, <2>2
<1>10. ASSUME NEW S, S \subseteq 1 .. n, NEW w \in Seq(UInt), Len(w) = n,
              \A j \in 1 .. n : w[j] = IF j \in S THEN u[j] ELSE 0, g <= Sum(w)
       PROVE  m <= Cardinality(S)
  BY <1>1, <1>2, <1>4, <1>8, <1>10, ChoiceIsSmall, ZenonT(20)
<1>11. ASSUME NEW S \in SUBSET DOMAIN u, NEW w,
              w = [j \in DOMAIN u |-> IF j \in S THEN u[j] ELSE 0], g <= Sum(w)
       PROVE  m <= Cardinality(S)
  <2>1. DOMAIN u = 1 .. n BY <1>2
  <2>2. \A j \in 1 .. n : u[j] \in UInt BY <1>2
  <2>3. 0 \in UInt BY MaxIntAssumption DEF UInt
  <2>4. w = [j \in 1 .. n |-> IF j \in S THEN u[j] ELSE 0] BY <1>11, <2>1
  <2>5. w \in [1 .. n -> UInt] /\ \A j \in 1 .. n : w[j] = IF j \in S THEN u[j] ELSE 0
    BY <2>2, <2>3, <2>4
  <2>6. w \in Seq(UInt) /\ Len(w) = n BY <1>5, <2>5
  <2> QED BY <1>10, <1>11, <2>1, <2>5, <2>6
<1> QED BY <1>1, <1>2, <1>3, <1>5, <1>7, <1>9, <1>11

\* greedyAlg takes as few coins as possible, for every list of UTXOs and every amount that
\* does not wrap.
THEOREM TakesFewest == Spec => []FewestInputs
<1>1. Init => SInv
  BY SortedAssumption DEF Init, SInv, Chosen
<1>2. IInv /\ SInv => FewestInputs BY ChosenFewest
<1> QED BY <1>1, <1>2, NextChosen, Invariance, PTL DEF Spec
=============================================================================
