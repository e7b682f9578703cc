-------------------------------- MODULE Payment --------------------------------
(***************************************************************************)
(* Whom a transaction pays: BtcWallet::genTransaction with the address it  *)
(* is given (btc_wallet/BtcWallet.cpp), the scripts that buildSignedDump   *)
(* writes for the receiver and for the change (btctx/btctx.cpp), and the   *)
(* addresses they are made from (btctx/wif.cpp).  Base58 itself is module  *)
(* Base58; here a text decodes to bytes or does not decode.                *)
(***************************************************************************)
EXTENDS Wif, Naturals, Sequences

CONSTANTS
    \* The wallets that own coins, the hashes an address may name, network bytes
    \* and numbers of bytes that a decoded text may have.
    Wallets, Hashes, Versions, Sizes,
    \* Bound: inputs of the transaction.
    MaxInputs

ASSUME MaxInputsAssumption == MaxInputs \in Nat

\* What a hash names in a script: a public key's is not a script's.
Script(kind, hash) == [kind |-> kind, hash |-> hash]

\* The bytes of an address.  The checksum is that of the network byte and the hash.
AddressBytes(version, hash) ==
    [size |-> 25, version |-> version, hash |-> hash, sum |-> doubleHash(<<version, hash>>)]

\* Lengths of keys, and the bytes that a public key has in either form.
EC_KEY_LENGTH == 32
EC_PUB_KEY_LENGTH == 65
SizeOf(pubKey) == IF pubKey.isCompressed THEN EC_KEY_LENGTH + 1 ELSE EC_PUB_KEY_LENGTH

\* Stands for the exception of a public key of the wrong length.
NoAddress == [size |-> 0]

\* isTestnet is false in all calls.
PubkeyToAddress(pubKey) ==
    IF SizeOf(pubKey) = EC_PUB_KEY_LENGTH THEN AddressBytes(0, pubKey) ELSE NoAddress
CompressedPubkeyToAddress(pubKey) ==
    IF SizeOf(pubKey) = EC_KEY_LENGTH + 1 THEN AddressBytes(0, pubKey) ELSE NoAddress

\* The texts a client may send as "to": no Base58; or bytes, with the checksum of
\* what they hold or, mistyped, of something else.
NoBase58 == [decodes |-> FALSE]
Text(bytes) == [decodes |-> TRUE, bytes |-> bytes]
Texts ==
    {NoBase58} \cup
    {Text(bytes) : bytes \in [size : Sizes, version : Versions, hash : Hashes,
                              sum : {doubleHash(data) : data \in Versions \X Hashes}]}

VARIABLES
    wallet,     \* the decrypted key of the sender
    to,         \* receiveAddress
    change,     \* fullChange > 0
    inputs,     \* the number of inputs
    hexes,      \* the script and the hash of every input are hexadecimal
    step,
    transfers,  \* the public keys of m_Transfers
    outputs     \* the scripts of the outputs

paymentVars == <<wallet, to, change, inputs, hexes, step, transfers, outputs>>
given == <<wallet, to, change, inputs, hexes>>

PaymentInit ==
    /\ wallet \in Wallets /\ to \in Texts /\ change \in BOOLEAN /\ inputs \in 1 .. MaxInputs
    /\ hexes \in BOOLEAN
    /\ step = "check" /\ transfers = <<>> /\ outputs = <<>>

RefusePayment == step' = "refused" /\ UNCHANGED <<given, transfers, outputs>>

\* Mutant of checkAddressBase56: the four bytes of the checksum are not compared.
checkAddressBase56Unsummed(address) == address.decodes /\ address.bytes.size = 25

checkAddressBase56(address) ==
    /\ address.decodes /\ address.bytes.size = 25
    /\ address.bytes.sum = doubleHash(<<address.bytes.version, address.bytes.hash>>)

\* HexStringToDump throws on a script or a hash that is not hexadecimal.
genTransaction ==
    /\ step = "check"
    /\ \/ ~(checkAddressBase56(to) /\ hexes) /\ RefusePayment
       \/ /\ checkAddressBase56(to) /\ hexes
          /\ step' = "transfers" /\ UNCHANGED <<given, transfers, outputs>>

\* Mutant of AddTransfer: isCompressed is not looked at.
AddTransferUncompressed ==
    /\ step = "transfers" /\ Len(transfers) < inputs
    /\ transfers' = Append(transfers, PubKey([wallet EXCEPT !.isCompressed = FALSE]))
    /\ UNCHANGED <<given, step, outputs>>

\* The key has been decoded when the wallet was opened, so that the CHECKs hold.
AddTransfer ==
    /\ step = "transfers" /\ Len(transfers) < inputs
    /\ transfers' = Append(transfers, PubKey(wallet))
    /\ UNCHANGED <<given, step, outputs>>

Unscripted == Script("none", <<>>)

\* The four bytes of the checksum are not looked at; Unscripted stands for a throw.
AddressToPubkeyScript(bytes) ==
    CASE bytes.size = 25 /\ bytes.version \in {0, 111} -> Script("pubkey", bytes.hash)
      [] bytes.size = 25 /\ bytes.version = 5          -> Script("script", bytes.hash)
      [] OTHER                                         -> Unscripted

\* Mutant of SenderAddress: the length of the public key is not looked at.
SenderAddressLong(pubKey) == PubkeyToAddress(pubKey)

SenderAddress(pubKey) ==
    IF SizeOf(pubKey) = EC_PUB_KEY_LENGTH THEN PubkeyToAddress(pubKey)
                                          ELSE CompressedPubkeyToAddress(pubKey)

\* The outputs of buildSignedDump: the change goes to the key of the first input.
BuildOutputs ==
    /\ step = "transfers" /\ Len(transfers) = inputs
    /\ LET receiver == AddressToPubkeyScript(to.bytes)
           sender   == AddressToPubkeyScript(SenderAddress(transfers[1]))
           throws   == receiver = Unscripted \/ (change /\ sender = Unscripted)
       IN  \/ throws /\ RefusePayment
           \/ /\ ~throws
              /\ outputs' = <<receiver>> \o (IF change THEN <<sender>> ELSE <<>>)
              /\ step' = "done" /\ UNCHANGED <<given, transfers>>

PaymentOver == step \in {"done", "refused"} /\ UNCHANGED paymentVars

PaymentNext == genTransaction \/ AddTransfer \/ BuildOutputs \/ PaymentOver

PaymentSpec == PaymentInit /\ [][PaymentNext]_paymentVars

-----------------------------------------------------------------------------
(* Properties.  An address of the main network names a public key (network *)
(* byte 0) or a script (5) by its hash; of the test network likewise (111, *)
(* 196).                                                                   *)

Names(bytes, script) ==
    /\ bytes = AddressBytes(bytes.version, bytes.hash)
    /\ script.hash = bytes.hash
    /\ script.kind = "pubkey" => bytes.version \in {0, 111}
    /\ script.kind = "script" => bytes.version \in {5, 196}

\* Nobody is paid but who the address names: a mistyped address, although its bytes
\* make a script as good as any, is refused before one is made.
PaysReceiver == step = "done" => to.decodes /\ Names(to.bytes, outputs[1])

\* A key has two addresses, with the long and with the short form of its public key.
\* The change comes back to the one that was handed out for the wallet, which is
\* also the one its coins are at and that the signatures of all inputs are for.
ChangeComesBack ==
    step = "done" =>
        /\ \A i \in 1 .. inputs : Address(transfers[i]) = getAddress(wallet)
        /\ change => Names(AddressBytes(0, PubKey(wallet)), outputs[2])

\* No good address of the main network is refused, whichever form the key of the
\* sender has, with change or without, if the inputs are hexadecimal.
EveryAddressPaid ==
    step = "refused" /\ hexes => ~(to.decodes /\ \E version \in {0, 5}, hash \in Hashes :
                                      to.bytes = AddressBytes(version, hash))
=============================================================================
