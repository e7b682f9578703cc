------------------------------ MODULE BtcWallet ------------------------------
(***************************************************************************)
(* BtcWallet::buildTransaction with encode and greedyAlg                   *)
(* (btc_wallet/BtcWallet.cpp): the loop that chooses inputs and a fee      *)
(* until the size of the signed transaction no longer changes.             *)
(*                                                                         *)
(* A UTXO is its value.  A signed transaction is its size, which the       *)
(* signatures make vary.  The order in which the UTXOs are listed matters  *)
(* to std::sort only, so they are given sorted.                            *)
(*                                                                         *)
(* Amounts are int64_t in BtcWallet and uint64_t in a UTXO and in btctx,   *)
(* and may wrap.                                                           *)
(***************************************************************************)
EXTENDS Integers, Sequences, FiniteSets

CONSTANTS
    \* What buildTransaction may be called with.
    Inputs,
    \* Bytes of a transaction without inputs and outputs, of an input, of an
    \* output, and what the signatures may add to all of them.
    BaseSize, InputSize, OutputSize, Jitter,
    \* The largest int64_t.
    MaxInt

\* An amount given as text: "all" or "auto" (word), a decimal or a hex number.
Amounts == [form : {"word", "dec", "hex"}, n : Nat]
UInt      == 0 .. 2 * MaxInt + 1
AllInputs == [utxos : Seq(UInt), value : Amounts, fee : Amounts, estimate : UInt]

\* What std::sort leaves.
Sorted(s) == \A j, k \in DOMAIN s : j < k => s[j] <= s[k]

ASSUME InputsAssumption == \A in \in Inputs : in \in AllInputs
ASSUME SortedAssumption == \A in \in Inputs : Sorted(in.utxos)
ASSUME SizesAssumption ==
    /\ BaseSize \in Nat /\ InputSize \in Nat /\ OutputSize \in Nat
    /\ Jitter \subseteq Nat
ASSUME MaxIntAssumption == MaxInt \in Nat

VARIABLES
    input,        \* the arguments of buildTransaction
    pc,
    fees,
    oldSize,      \* calcSizeTransaction(oldTransaction), 0 at first
    size,         \* calcSizeTransaction(tmpTransaction)
    maxIterations,
    sortedVect,   \* greedyAlg: what is left
    newUtxos,     \* greedyAlg: result; the inputs of the transaction
    currValue,    \* greedyAlg: the value of the result
    why           \* which check refused the call

vars == <<input, pc, fees, oldSize, size, maxIterations, sortedVect, newUtxos,
          currValue, why>>

Pcs     == {"parse", "fees", "greedy", "encode", "sign", "compare", "done", "error", "wild"}
Reasons == {"none", "amount", "money", "value", "sign", "fees"}

\* Every variable keeps its type.
TypeOK ==
    /\ input \in AllInputs /\ pc \in Pcs /\ why \in Reasons
    /\ fees \in Nat /\ oldSize \in Nat /\ size \in Nat
    /\ maxIterations \in 0 .. 10
    /\ sortedVect \in Seq(UInt) /\ newUtxos \in Seq(UInt) /\ currValue \in Int

Init ==
    /\ input \in Inputs /\ pc = "parse" /\ why = "none"
    /\ fees = 0 /\ oldSize = 0 /\ size = 0 /\ maxIterations = 10
    /\ sortedVect = <<>> /\ newUtxos = <<>> /\ currValue = 0

-----------------------------------------------------------------------------
\* The conversions to int64_t and uint64_t.
Signed(x)   == ((x + MaxInt + 1) % (2 * MaxInt + 2)) - (MaxInt + 1)
Unsigned(x) == x % (2 * MaxInt + 2)

allMoney == input.value.form = "word"
auto     == input.fee.form = "word"
value    == IF allMoney THEN 0 ELSE input.value.n
allValue == Signed(value + fees)

\* The sum of the values of s.
Sum(s) ==
    LET upTo[k \in 0 .. Len(s)] == IF k = 0 THEN 0 ELSE upTo[k - 1] + s[k]
    IN  IF s = <<>> THEN 0 ELSE upTo[Len(s)]

isDecimal(a) == a.form = "dec"

\* isDecimal and std::stoll, which throws for a number that is too large.
Readable(a) == isDecimal(a) /\ a.n <= MaxInt

Refuse(reason) ==
    /\ pc' = "error" /\ why' = reason
    /\ UNCHANGED <<input, fees, oldSize, size, maxIterations, sortedVect, newUtxos, currValue>>

\* The beginning of buildTransaction.
Parse ==
    /\ pc = "parse"
    /\ LET ok == /\ allMoney \/ Readable(input.value)
                 /\ IF auto THEN input.estimate > 0 ELSE Readable(input.fee)
       IN  \/ ~ok /\ Refuse("amount")
           \/ /\ ok
              /\ pc' = "fees" /\ fees' = IF auto THEN 0 ELSE input.fee.n
              /\ UNCHANGED <<input, oldSize, size, maxIterations, sortedVect, newUtxos,
                             currValue, why>>

-----------------------------------------------------------------------------
(* One turn of the fee loop.                                               *)

MinFees == oldSize + 30

\* Mutant of NewFees: the margin of 30 bytes is missing.
NewFeesNoMargin ==
    LET f == IF auto THEN Unsigned(input.estimate * oldSize) \div 1024 ELSE fees
    IN  IF f < oldSize THEN oldSize ELSE f

\* The fee of this turn; a fee that is given is only ever raised.
NewFees ==
    LET f == IF auto THEN Unsigned(input.estimate * oldSize) \div 1024 ELSE fees
    IN  IF f < MinFees THEN MinFees ELSE f

\* Mutant of CalcFees: the result of the turn before is kept.
CalcFeesNoClear ==
    /\ pc = "fees"
    /\ fees' = NewFees
    /\ pc' = IF allMoney THEN "encode" ELSE "greedy"
    /\ newUtxos' = IF allMoney THEN input.utxos ELSE newUtxos
    /\ sortedVect' = IF allMoney THEN <<>> ELSE input.utxos
    /\ currValue' = 0
    /\ UNCHANGED <<input, oldSize, size, maxIterations, why>>

CalcFees ==
    /\ pc = "fees"
    /\ fees' = NewFees
    /\ pc' = IF allMoney THEN "encode" ELSE "greedy"
    /\ newUtxos' = IF allMoney THEN input.utxos ELSE <<>>
    /\ sortedVect' = IF allMoney THEN <<>> ELSE input.utxos
    /\ currValue' = 0
    /\ UNCHANGED <<input, oldSize, size, maxIterations, why>>

-----------------------------------------------------------------------------
(* greedyAlg: one turn of its loop per step.                               *)

rest == Signed(allValue - currValue)

\* std::upper_bound, as an index.
UpperBound == Cardinality({j \in DOMAIN sortedVect : sortedVect[j] <= Unsigned(rest)}) + 1

\* Mutant of Pick: the first element is taken when none is large enough.
PickNext == IF UpperBound > Len(sortedVect) THEN 1 ELSE UpperBound

\* The element of exactly the missing value, or else the smallest larger one, or
\* else the last.
Pick ==
    CASE UpperBound > 1 /\ Signed(sortedVect[UpperBound - 1]) = rest -> UpperBound - 1
      [] UpperBound > Len(sortedVect) -> Len(sortedVect)
      [] OTHER                        -> UpperBound

Erased(s, k) == SubSeq(s, 1, k - 1) \o SubSeq(s, k + 1, Len(s))

Greedy == pc = "greedy" /\ currValue < allValue /\ sortedVect # <<>>

GreedyTake ==
    /\ Greedy
    /\ currValue' = Signed(currValue + sortedVect[Pick])
    /\ newUtxos' = Append(newUtxos, sortedVect[Pick])
    /\ sortedVect' = Erased(sortedVect, Pick)
    /\ UNCHANGED <<input, pc, fees, oldSize, size, maxIterations, why>>

\* When every element is larger, *(foundIter - 1) lies before the vector.  Should
\* it happen to equal the missing value, it is taken for an element.
GreedyBeforeBegin ==
    /\ Greedy /\ UpperBound = 1
    /\ pc' = "wild"
    /\ UNCHANGED <<input, fees, oldSize, size, maxIterations, sortedVect, newUtxos,
                   currValue, why>>

GreedyEnd ==
    /\ pc = "greedy" /\ ~Greedy
    /\ pc' = "encode"
    /\ UNCHANGED <<input, fees, oldSize, size, maxIterations, sortedVect, newUtxos,
                   currValue, why>>

-----------------------------------------------------------------------------
(* The rest of encode, and genTransaction.                                 *)

allUtxoValue == Signed(Sum(newUtxos))
valueToSend  == IF allMoney THEN allUtxoValue - fees ELSE value

\* When value + fees wraps it is negative, and so no check.
Money == allUtxoValue >= Signed(value + fees)

Encode ==
    /\ pc = "encode"
    /\ \/ ~Money /\ Refuse("money")
       \/ Money /\ ~(valueToSend > 0 /\ valueToSend >= fees) /\ Refuse("value")
       \/ /\ Money /\ valueToSend > 0 /\ valueToSend >= fees
          /\ pc' = "sign"
          /\ UNCHANGED <<input, fees, oldSize, size, maxIterations, sortedVect, newUtxos,
                         currValue, why>>

\* Mutants of BalanceHolds: no second check; one in the type of the first.
BalanceUnchecked == TRUE
BalanceSigned    == Signed(Sum(newUtxos)) >= Signed(valueToSend + fees)

\* The check of buildSignedDump, on uint64_t, before it uses an input.
fullBalance  == Unsigned(Sum(newUtxos))
BalanceHolds == fullBalance >= Unsigned(valueToSend + fees)

\* buildSignedDump adds a second output when something is left.  An address, a
\* script or a key that is not well formed throws.
Sign ==
    /\ pc = "sign"
    /\ \/ Refuse("sign")
       \/ LET fullChange == Unsigned(fullBalance - valueToSend - fees)
              outcount   == IF fullChange > 0 THEN 2 ELSE 1
          IN  /\ BalanceHolds
              /\ \E j \in Jitter :
                    size' = BaseSize + Len(newUtxos) * InputSize + outcount * OutputSize + j
              /\ pc' = "compare"
              /\ UNCHANGED <<input, fees, oldSize, maxIterations, sortedVect, newUtxos,
                             currValue, why>>

Abs(x) == IF x < 0 THEN -x ELSE x

\* Mutant of Compare: the turns are not counted.
CompareUncounted ==
    /\ pc = "compare"
    /\ IF Abs(size - oldSize) <= 30
         THEN pc' = "done" /\ UNCHANGED oldSize
         ELSE pc' = "fees" /\ oldSize' = size
    /\ UNCHANGED <<input, fees, size, maxIterations, sortedVect, newUtxos, currValue, why>>

Compare ==
    /\ pc = "compare"
    /\ IF Abs(size - oldSize) <= 30
         THEN pc' = "done" /\ UNCHANGED <<oldSize, maxIterations, why>>
         ELSE /\ oldSize' = size
              /\ maxIterations' = maxIterations - 1
              /\ IF maxIterations' <= 0 THEN pc' = "error" /\ why' = "fees"
                                        ELSE pc' = "fees" /\ UNCHANGED why
    /\ UNCHANGED <<input, fees, size, sortedVect, newUtxos, currValue>>

Terminated == pc \in {"done", "error", "wild"} /\ UNCHANGED vars

Next ==
    \/ Parse \/ CalcFees
    \/ GreedyTake \/ GreedyBeforeBegin \/ GreedyEnd
    \/ Encode \/ Sign \/ Compare
    \/ Terminated

Spec == Init /\ [][Next]_vars

FairSpec == Spec /\ WF_vars(Next)

-----------------------------------------------------------------------------
(* Properties.                                                             *)

\* A transaction that is returned pays at least one satoshi per byte of its final
\* size, although its fee was computed from the size of the turn before.
RelayFee == pc = "done" => fees >= size

\* No transaction is built without inputs, although value + fees may wrap and pass
\* the check of encode: removeScripts indexes the last input and buildSignedDump the
\* first.
SignsSomething == pc \in {"compare", "done"} => newUtxos # <<>>

\* A transaction never spends more than its inputs are worth, whatever sums have
\* wrapped on the way.
FundsCovered == pc \in {"compare", "done"} => Sum(newUtxos) >= valueToSend + fees

\* greedyAlg takes as few elements as possible for the given amount, and reaches
\* the amount whenever all the elements together do, as long as neither amount is
\* too large for an int64_t.
FewestInputs ==
    pc = "encode" /\ ~allMoney /\ value + fees <= MaxInt /\ Sum(input.utxos) <= MaxInt =>
        /\ Sum(input.utxos) >= allValue => allUtxoValue >= allValue
        /\ \A S \in SUBSET DOMAIN input.utxos :
              Sum([j \in DOMAIN input.utxos |-> IF j \in S THEN input.utxos[j] ELSE 0])
                  >= allValue
              => Cardinality(S) >= Len(newUtxos)

\* No coin is spent twice: each value occurs among the inputs and what is left
\* as often as among the UTXOs.
Count(s, v) == Cardinality({j \in DOMAIN s : s[j] = v})

CoinsSpentOnce ==
    pc \in {"greedy", "encode", "sign", "done"} =>
        \A j \in DOMAIN input.utxos :
            LET v == input.utxos[j] IN
            Count(newUtxos, v) + Count(sortedVect, v) = Count(input.utxos, v)

\* buildTransaction ends: when the size of the transaction swings with its fee,
\* after ten turns.
Terminates == <>(pc \in {"done", "error", "wild"})
=============================================================================
