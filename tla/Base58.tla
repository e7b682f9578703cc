-------------------------------- MODULE Base58 --------------------------------
(***************************************************************************)
(* EncodeBase58BTC and DecodeBase58 (btctx/Base58.cpp): a number, given by *)
(* its bytes or by its characters, is multiplied up digit by digit in a    *)
(* buffer of a size that is estimated beforehand.                          *)
(*                                                                         *)
(* A byte is a number below 256, a character its place in pszBase58; Space *)
(* and Bad stand for white space and for characters outside the alphabet.  *)
(***************************************************************************)
EXTENDS Integers, Sequences

CONSTANTS
    Calls,        \* what the functions are called with
    Primes        \* moduli under which numbers of any length are compared

Space == 58
Bad   == 59

ASSUME CallsAssumption ==
    \A c \in Calls : \/ c.op = "encode" /\ c.text \in Seq(0 .. 255)
                     \/ c.op = "decode" /\ c.text \in Seq(0 .. Bad)
ASSUME PrimesAssumption == Primes \subseteq Nat \ {0}

VARIABLES
    call,
    pc,
    pos,      \* pbegin or psz: how much of the text has been read
    zeroes,   \* leading zero bytes, or characters '1'
    buf,      \* b58 or b256, from its end: lowest digit first
    length,   \* digits of buf in use
    carry,    \* what was left after the last turn
    res

vars == <<call, pc, pos, zeroes, buf, length, carry, res>>

encoding == call.op = "encode"
text     == call.text
From     == IF encoding THEN 256 ELSE 58
To       == IF encoding THEN 58 ELSE 256

Init ==
    /\ call \in Calls
    /\ pc = IF encoding THEN "zeroes" ELSE "spaces"
    /\ pos = 0 /\ zeroes = 0 /\ buf = <<>> /\ length = 0 /\ carry = 0 /\ res = <<>>

AtEnd == pos = Len(text)
Next1 == text[pos + 1]
At(ch) == ~AtEnd /\ Next1 = ch

-----------------------------------------------------------------------------
SkipSpaces ==
    /\ pc = "spaces"
    /\ \/ /\ At(Space)
          /\ pos' = pos + 1 /\ UNCHANGED pc
       \/ /\ ~At(Space)
          /\ pc' = "zeroes" /\ UNCHANGED pos
    /\ UNCHANGED <<call, zeroes, buf, length, carry, res>>

\* The estimated number of digits of n bytes or characters.
SizeFor(n) == IF encoding THEN (n * 138) \div 100 + 1 ELSE (n * 733) \div 1000 + 1

SkipZeroes ==
    /\ pc = "zeroes"
    /\ \/ /\ At(0)
          /\ pos' = pos + 1 /\ zeroes' = zeroes + 1 /\ UNCHANGED <<pc, buf>>
       \/ /\ ~At(0)
          /\ pc' = "digits" /\ buf' = [k \in 1 .. SizeFor(Len(text) - pos) |-> 0]
          /\ UNCHANGED <<pos, zeroes>>
    /\ UNCHANGED <<call, length, carry, res>>

-----------------------------------------------------------------------------
\* The carry after each digit of "buf = buf * From + ch".
Carries(ch) ==
    LET c[k \in 0 .. Len(buf)] ==
            IF k = 0 THEN ch ELSE (c[k - 1] + From * buf[k]) \div To
    IN  [k \in 0 .. Len(buf) |-> c[k]]

\* Mutant of Turns: the loop ends with the carry, whatever lies above.
TurnsUntilNoCarry(c) ==
    LET stops == {k \in 0 .. Len(buf) : c[k] = 0}
    IN  IF stops = {} THEN Len(buf) ELSE CHOOSE k \in stops : \A j \in stops : k <= j

\* How many digits the inner loop visits.
Turns(c) ==
    LET stops == {k \in length .. Len(buf) : c[k] = 0}
    IN  IF stops = {} THEN Len(buf) ELSE CHOOSE k \in stops : \A j \in stops : k <= j

DigitAt(c, k) == (c[k - 1] + From * buf[k]) % To

\* One byte or character.
Digit ==
    /\ pc = "digits" /\ ~AtEnd /\ (encoding \/ Next1 < Space)
    /\ LET c == Carries(Next1)
           i == Turns(c)
       IN  /\ buf' = [k \in 1 .. Len(buf) |-> IF k <= i THEN DigitAt(c, k) ELSE buf[k]]
           /\ carry' = c[i]
           /\ length' = i
    /\ pos' = pos + 1
    /\ UNCHANGED <<call, pc, zeroes, res>>

Refuse == pc' = "refused" /\ UNCHANGED <<call, pos, zeroes, buf, length, carry, res>>

BadCharacter == pc = "digits" /\ ~encoding /\ At(Bad) /\ Refuse

-----------------------------------------------------------------------------
\* Mutant of Trailing: what follows a space is not looked at.
TrailingIgnored == TRUE

\* The rest of the text is white space.
Trailing == \A k \in pos + 1 .. Len(text) : text[k] = Space

\* Digits in use without the leading zeros, highest first.
Digits ==
    LET used == {k \in 1 .. length : \E j \in k .. length : buf[j] # 0}
        n    == IF used = {} THEN 0 ELSE CHOOSE k \in used : \A j \in used : j <= k
    IN  [k \in 1 .. n |-> buf[n - k + 1]]

Finish ==
    /\ pc = "digits" /\ (IF encoding THEN AtEnd ELSE AtEnd \/ At(Space))
    /\ \/ ~encoding /\ ~Trailing /\ Refuse
       \/ /\ encoding \/ Trailing
          /\ pc' = "done"
          /\ res' = [k \in 1 .. zeroes |-> 0] \o Digits
          /\ UNCHANGED <<call, pos, zeroes, buf, length, carry>>

Terminated == pc \in {"done", "refused"} /\ UNCHANGED vars

Next == SkipSpaces \/ SkipZeroes \/ Digit \/ BadCharacter \/ Finish \/ Terminated

Spec == Init /\ [][Next]_vars

-----------------------------------------------------------------------------
(* Properties.                                                             *)

\* The number that s writes to the given base, modulo p.
ValueMod(s, base, p) ==
    LET v[k \in 0 .. Len(s)] == IF k = 0 THEN 0 ELSE (v[k - 1] * base + s[k]) % p
    IN  v[Len(s)]

\* The text without the white space around it.
Trimmed ==
    LET chars == {k \in DOMAIN text : encoding \/ text[k] # Space}
        first == CHOOSE k \in chars : \A j \in chars : k <= j
        last  == CHOOSE k \in chars : \A j \in chars : j <= k
    IN  IF chars = {} THEN <<>> ELSE SubSeq(text, first, last)

LeadingZeros(s) == {k \in DOMAIN s : \A j \in 1 .. k : s[j] = 0}

\* The result is the same number with as many leading zeros, a zero byte for
\* every character '1' and the other way round, so that nothing two keys or
\* addresses differ in is lost.  The estimated buffer is large enough for it:
\* "assert(carry == 0)", which DecodeBase58 states, a release build drops, and
\* EncodeBase58BTC has commented out.
ResultExact ==
    /\ carry = 0
    /\ pc = "done" =>
        /\ LeadingZeros(res) = LeadingZeros(Trimmed)
        /\ \A p \in Primes : ValueMod(res, To, p) = ValueMod(Trimmed, From, p)

\* DecodeBase58 refuses a text exactly if, but for white space around it, it has a
\* character that is not of the alphabet.
WellFormed ==
    /\ \A k \in DOMAIN text : text[k] # Bad
    /\ \A j, k \in DOMAIN text :
          j < k /\ text[j] < Space /\ text[k] < Space => \A i \in j .. k : text[i] < Space

RefusesExactly ==
    pc \in {"done", "refused"} /\ ~encoding => (pc = "done" <=> WellFormed)
=============================================================================
