-------------------------------- MODULE BtcTx --------------------------------
(***************************************************************************)
(* BTCTransaction (btctx/btctx.cpp): the bytes of a transaction.           *)
(* buildSignedDump writes the unsigned transaction and remembers where the *)
(* script of each input lies; signAllInputs signs one input after the      *)
(* other and puts a script of another length in place of each, moving the  *)
(* scripts that follow.                                                    *)
(*                                                                         *)
(* A byte is <<field, input, k>>: the k-th byte of a field (of an input),  *)
(* or <<"byte", 0, v>> where its value v matters.  Positions count from 0, *)
(* as in the code.                                                         *)
(***************************************************************************)
EXTENDS Integers, Sequences

CONSTANTS
    \* The inputs transactions are built from: sequences of the sizes of their
    \* scriptPubkey.  There is at least one input (BtcWallet, SignsSomething).
    InputLists,
    \* The sizes of a signature with its public key.
    SigSizes,
    \* The sizes of the script of the receiver (25 or 23 bytes).
    ReceiverSizes

ASSUME InputListsAssumption == \A s \in InputLists : s \in Seq(Nat) /\ s # <<>>
ASSUME SizesAssumption == SigSizes \subseteq 0 .. 252 /\ ReceiverSizes \subseteq 0 .. 252

VARIABLES
    scripts,      \* the sizes of m_Transfers[..].scriptpubkey
    receiver,     \* the size of outpubkeyscript
    balance,      \* fullBalance against fullAmount + fee: short, exact or over
    pc,
    i,            \* the loops' variable
    dump,         \* the dump; then copyTransaction
    transaction,
    inscriptoffset, inscriptsize,
    copyTransfers,\* the offsets that signAllInputs starts with
    signed,       \* the bytes that were hashed for each input
    sigs          \* the size of each input's signature

vars == <<scripts, receiver, balance, pc, i, dump, transaction, inscriptoffset, inscriptsize,
          copyTransfers, signed, sigs>>
given == <<scripts, receiver, balance>>

Inputs == DOMAIN scripts

-----------------------------------------------------------------------------
(* Bytes.                                                                  *)

Byte(v) == <<"byte", 0, v>>
Field(name, n, size) == [k \in 1 .. size |-> <<name, n, k>>]

IntegerToBuffer(v, width) == [k \in 1 .. width |-> Byte((v \div 256 ^ (k - 1)) % 256)]

PackInteger(v) ==
    CASE v <= 252                    -> <<Byte(v)>>
      [] v > 252 /\ v < 256 ^ 2      -> <<Byte(253)>> \o IntegerToBuffer(v, 2)
      [] v >= 256 ^ 2 /\ v < 256 ^ 4 -> <<Byte(254)>> \o IntegerToBuffer(v, 4)
      [] OTHER                       -> <<Byte(255)>> \o IntegerToBuffer(v, 8)

version(n)   == Field("version", 0, 4) \o PackInteger(n)
outpoint(j)  == Field("outpoint", j, 36)
sequence(j)  == Field("sequence", j, 4)
script(j)    == PackInteger(scripts[j]) \o Field("script", j, scripts[j])
hashcodetype == Field("hashcode", 0, 4)

outcount == IF balance = "over" THEN 2 ELSE 1

\* The amount and the receiver's script; the change and the sender's; locktime.
Outputs ==
    PackInteger(outcount)
    \o Field("amount", 0, 8) \o PackInteger(receiver) \o Field("receiver", 0, receiver)
    \o (IF outcount = 2
          THEN Field("change", 0, 8) \o PackInteger(25) \o Field("sender", 0, 25)
          ELSE <<>>)
    \o Field("locktime", 0, 4)

\* The script of a signed input, with its size.
inputscript(j, size) == <<Byte(size)>> \o Field("signature", j, size)

\* std::string::substr, which stops at the end of the string.
substr(s, pos, size) ==
    SubSeq(s, pos + 1, IF pos + size > Len(s) THEN Len(s) ELSE pos + size)

-----------------------------------------------------------------------------
Init ==
    /\ scripts \in InputLists /\ receiver \in ReceiverSizes
    /\ balance \in {"short", "exact", "over"}
    /\ pc = "build" /\ i = 1
    /\ dump = version(Len(scripts)) /\ transaction = <<>>
    /\ inscriptoffset = [j \in Inputs |-> 0] /\ inscriptsize = [j \in Inputs |-> 0]
    /\ copyTransfers = inscriptoffset
    /\ signed = [j \in Inputs |-> <<>>] /\ sigs = [j \in Inputs |-> 0]

-----------------------------------------------------------------------------
(* buildSignedDump.                                                        *)

Refuse == pc' = "error" /\ UNCHANGED <<given, i, dump, transaction, inscriptoffset, inscriptsize,
                                       copyTransfers, signed, sigs>>

NotEnoughMoney == pc = "build" /\ i = 1 /\ balance = "short" /\ Refuse

\* Mutant of fieldSize: the size of a script takes one byte.
fieldSizeShort(j) == scripts[j] + 1

\* The size of the script field of an input, with the size in front of it.
fieldSize(j) == scripts[j] + Len(PackInteger(scripts[j]))

BuildInput ==
    /\ pc = "build" /\ i \in Inputs /\ balance # "short"
    /\ inscriptoffset' = [inscriptoffset EXCEPT ![i] = Len(dump \o outpoint(i))]
    /\ inscriptsize' = [inscriptsize EXCEPT ![i] = fieldSize(i)]
    /\ dump' = dump \o outpoint(i) \o script(i) \o sequence(i)
    /\ i' = i + 1
    /\ UNCHANGED <<given, pc, transaction, copyTransfers, signed, sigs>>

\* The end of buildSignedDump and the beginning of signAllInputs.
BuildOutputs ==
    /\ pc = "build" /\ i \notin Inputs
    /\ dump' = dump \o Outputs \o hashcodetype
    /\ transaction' = dump' /\ copyTransfers' = inscriptoffset
    /\ pc' = "sign" /\ i' = 1
    /\ UNCHANGED <<given, inscriptoffset, inscriptsize, signed, sigs>>

-----------------------------------------------------------------------------
(* signAllInputs.                                                          *)

\* Mutant of templateOffsets: the offsets that move with the signatures.
templateOffsetsMoved == inscriptoffset

\* The offsets of the transaction that is cut into templates.
templateOffsets == copyTransfers

\* The CHECKs of removeScripts.
ChecksHold ==
    \A j \in Inputs : Len(dump) >= templateOffsets[j] + (IF j = i THEN inscriptsize[j] ELSE 0)

\* removeScripts(copyTransaction, scriptIdx, copyTransfers), copying from input to
\* input: the scripts of all inputs but one become a zero byte.
removeScripts(scriptIdx) ==
    LET off == templateOffsets
        upTo[j \in 0 .. Len(scripts)] ==
            IF j = 0 THEN [text |-> <<>>, pos |-> 0]
            ELSE LET before == upTo[j - 1] IN
                 [text |-> before.text
                           \o substr(dump, before.pos, off[j] - before.pos)
                           \o (IF j # scriptIdx THEN <<Byte(0)>>
                                                ELSE substr(dump, off[j], inscriptsize[j])),
                  pos  |-> off[j] + inscriptsize[j]]
        all == upTo[Len(scripts)]
    IN  all.text \o substr(dump, all.pos, Len(dump) - all.pos)

\* std::string::replace.
replace(s, pos, size, by) == substr(s, 0, pos) \o by \o substr(s, pos + size, Len(s) - pos - size)

\* Mutant of moved: the offsets of the later inputs are not recomputed.
movedNot(j, size) == inscriptoffset[j]

\* The offset of input j once the input i has a script of this size.
moved(j, size) ==
    IF j > i THEN inscriptoffset[j] + Len(inputscript(i, size)) - inscriptsize[i]
             ELSE inscriptoffset[j]

\* One turn of the loop.
Signed ==
    /\ \E size \in SigSizes :
        /\ sigs' = [sigs EXCEPT ![i] = size]
        /\ transaction' = replace(transaction, inscriptoffset[i], inscriptsize[i],
                                  inputscript(i, size))
        /\ inscriptoffset' = [j \in Inputs |-> moved(j, size)]
    /\ signed' = [signed EXCEPT ![i] = removeScripts(i)]
    /\ i' = i + 1
    /\ UNCHANGED <<given, pc, dump, inscriptsize, copyTransfers>>

SignInput ==
    /\ pc = "sign" /\ i \in Inputs
    /\ IF ChecksHold THEN Signed ELSE Refuse

\* The four bytes of hashcodetype are cut off.
Strip ==
    /\ pc = "sign" /\ i \notin Inputs
    /\ transaction' = substr(transaction, 0, Len(transaction) - 4)
    /\ pc' = "done"
    /\ UNCHANGED <<given, i, dump, inscriptoffset, inscriptsize, copyTransfers, signed, sigs>>

Terminated == pc \in {"done", "error"} /\ UNCHANGED vars

Next ==
    \/ NotEnoughMoney \/ BuildInput \/ BuildOutputs
    \/ SignInput \/ Strip
    \/ Terminated

Spec == Init /\ [][Next]_vars

-----------------------------------------------------------------------------
(* Properties.                                                             *)

\* A transaction written in one go, given the script field of each input.
Serialized(field) ==
    LET upTo[j \in 0 .. Len(scripts)] ==
            IF j = 0 THEN version(Len(scripts))
                     ELSE upTo[j - 1] \o outpoint(j) \o field[j] \o sequence(j)
    IN  upTo[Len(scripts)] \o Outputs

\* What is hashed and signed for an input is the transaction in which this input
\* alone has a script, the one it spends, and the type of hash: a signature over
\* anything else is worthless to the network.
PreimageCorrect ==
    \A n \in Inputs :
        signed[n] # <<>> =>
            signed[n] = Serialized([j \in Inputs |-> IF j = n THEN script(j) ELSE <<Byte(0)>>])
                        \o hashcodetype

\* The finished transaction has the signature of every input in the place of its
\* script and is otherwise the one that was signed, without the type of hash,
\* whatever the sizes of the scripts and of the signatures.
SignedCorrectly ==
    pc = "done" =>
        transaction = Serialized([j \in Inputs |-> inputscript(j, sigs[j])])

\* The CHECKs of removeScripts never fail on a dump of buildSignedDump: a transfer
\* that can be paid is signed.
DumpChecksHold == pc = "error" => balance = "short"
=============================================================================
