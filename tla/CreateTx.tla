------------------------------- MODULE CreateTx -------------------------------
(***************************************************************************)
(* The way of the amounts of a create-tx or send-tx request into           *)
(* BtcWallet::buildTransaction (task_handlers/create_tx_base_handler.cpp). *)
(***************************************************************************)
EXTENDS BtcWallet

\* json_utils::val2hex: a number, or a string of decimal digits, becomes a hex
\* string; a string that begins with 0x stays what it is.
val2hex(a) == [form |-> "hex", n |-> a.n]

\* prepare_params: the words "all" and "auto" are kept.
Param(a) == IF a.form = "word" THEN a ELSE val2hex(a)

\* std::stoul(m_estimate_fee): base 10, and so the 0 of 0x.
stoul(a) == IF a.form = "hex" THEN 0 ELSE a.n

\* build_request, called with what the request and the answer of the upstream
\* service ("estimate_price_fee") say.
build_request(r) ==
    [utxos |-> r.utxos, value |-> Param(r.value), fee |-> Param(r.fee),
     estimate |-> stoul(val2hex(r.estimate))]

\* "value":decimal/all, "fee":decimal/auto (README.md, main.cpp): none of these
\* amounts is refused as malformed.
DocumentedAmounts == why # "amount"
=============================================================================
