------------------------------- MODULE MCPayment -------------------------------
(***************************************************************************)
(* One key in both forms, two hashes that addresses may name, all network  *)
(* bytes that mean something and one that does not, and texts that are one *)
(* byte too short or too long.                                             *)
(***************************************************************************)
EXTENDS Payment

CONSTANTS k1, h1, h2
MCWallets == {privateKeyToWif(k1, c) : c \in BOOLEAN}
MCHashes == {h1, h2}
=============================================================================
