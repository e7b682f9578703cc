----------------------------- MODULE MCBtcWallet -----------------------------
(***************************************************************************)
(* Calls of buildTransaction with decimal amounts.  The sizes are those of *)
(* pay-to-pubkey-hash transactions with a compressed key.  1256 - 1000 is  *)
(* the fee of a transaction with one input and two outputs: with it there  *)
(* is no change, without it there is.                                      *)
(***************************************************************************)
EXTENDS BtcWallet

Word   == [form |-> "word", n |-> 0]
Dec(k) == [form |-> "dec", n |-> k]
Hex(k) == [form |-> "hex", n |-> k]

Coins == {400, 1000, 1256, 3000}
CoinLists == {<<>>} \cup UNION {{s \in [1 .. n -> Coins] : Sorted(s)} : n \in 1 .. 3}

\* Amounts at the limits of their types: sums of two wrap.
LargeInputs ==
    [utxos : {<<>>, <<400>>, <<400, MaxInt>>, <<MaxInt, MaxInt>>, <<3000, 2 * MaxInt + 1>>},
     value : {Word, Dec(1000), Dec(MaxInt - 100), Dec(MaxInt), Dec(MaxInt + 1)},
     fee : {Word, Dec(0), Dec(MaxInt), Dec(MaxInt + 1)},
     estimate : {1024, MaxInt \div 2}]

MCInputs == LargeInputs \cup
    [utxos : CoinLists,
     value : {Word, Dec(0), Dec(700), Dec(1000), Dec(2400)},
     fee : {Word, Dec(0), Dec(300), Dec(1400)},
     estimate : {0, 1024, 2000}]

MCJitter == {0, 1}
=============================================================================
