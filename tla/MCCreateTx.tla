------------------------------ MODULE MCCreateTx ------------------------------
(***************************************************************************)
(* Requests as the README documents them, with money enough to be sent.    *)
(***************************************************************************)
EXTENDS CreateTx

Word   == [form |-> "word", n |-> 0]
Dec(k) == [form |-> "dec", n |-> k]

Documented ==
    [utxos : {<<3000>>}, value : {Word, Dec(1000)}, fee : {Word, Dec(300)},
     estimate : {Dec(1024)}]

MCInputs == {build_request(r) : r \in Documented}
MCJitter == {0}
=============================================================================
