------------------------------- MODULE MCBase58 -------------------------------
(***************************************************************************)
(* All short texts over the bytes and characters at the edges, and the     *)
(* largest numbers of every length up to that of an encrypted key (43      *)
(* bytes, 58 characters).  Three primes tell any two numbers of five bytes *)
(* apart.                                                                  *)
(***************************************************************************)
EXTENDS Base58

Texts(S, n) == UNION {[1 .. k -> S] : k \in 0 .. n}
Repeat(x, N) == {[k \in 1 .. n |-> x] : n \in 0 .. N}

EncodeTexts == Texts({0, 1, 58, 255}, 3) \cup Repeat(255, 43)
DecodeTexts == Texts({0, 1, 57, Space, Bad}, 4) \cup Repeat(57, 58)

MCCalls == [op : {"encode"}, text : EncodeTexts] \cup [op : {"decode"}, text : DecodeTexts]
MCPrimes == {32717, 32719, 32749}
=============================================================================
