---------------------------- MODULE MCWalletStore ----------------------------
(***************************************************************************)
(* Two keys, two passwords, two threads.  The requests write the address   *)
(* of a key as it was returned, and with a wrong end in lower case, and    *)
(* ask for the uncompressed form of the same key.                          *)
(***************************************************************************)
EXTENDS WalletStore, TLC

CONSTANTS k1, k2, p1, p2

Own(isCompressed) == getAddress(CreateWIF(k1, isCompressed))
MCRequests ==
    {Own(TRUE), toLower([Own(TRUE) EXCEPT !.tail = "other"]), Own(FALSE)}

MCKeys == {k1, k2}
MCPasswords == {p1, p2}
Symmetry == Permutations(Workers) \cup Permutations(MCPasswords)
=============================================================================
