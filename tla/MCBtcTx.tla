------------------------------- MODULE MCBtcTx -------------------------------
(***************************************************************************)
(* Transactions with up to three inputs, whose scripts are empty, of the   *)
(* usual 25 bytes, and on both sides of the size that takes a prefix of    *)
(* three bytes.                                                            *)
(***************************************************************************)
EXTENDS BtcTx

ScriptSizes == {0, 25, 252, 253}
MCInputLists == UNION {[1 .. n -> ScriptSizes] : n \in 1 .. 3}
=============================================================================
