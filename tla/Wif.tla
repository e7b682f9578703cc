---------------------------------- MODULE Wif ----------------------------------
(***************************************************************************)
(* Private keys, their addresses and their encrypted form (btctx/wif.cpp). *)
(* Hashes, scrypt and AES are perfect: a hash is the record it was computed*)
(* from, and what is decrypted with another key than the one it was        *)
(* encrypted with is Garbage, a private key like any other that nobody     *)
(* made.                                                                   *)
(***************************************************************************)
CONSTANTS Keys, Garbage, Passwords

ASSUME GarbageAssumption == Garbage \notin Keys

\* The address of a public key: all but its last three characters, which no two
\* keys share, those (the end of the checksum), and its upper-case letters.
Address(pubKey) == [stem |-> pubKey, tail |-> "own", mixed |-> TRUE]

\* A text that is no key.  Other texts are plain keys (WIF) and encrypted ones.
Cut     == [kind |-> "cut"]
Refused == [kind |-> "refused"]

privateKeyToWif(key, isCompressed) ==
    [kind |-> "wif", key |-> key, isCompressed |-> isCompressed]

\* A key has two public keys, and so two addresses.
PubKey(wif) == [key |-> wif.key, isCompressed |-> wif.isCompressed]

getAddress(wif) == Address(PubKey(wif))

CreateWIF(key, isCompressed) == privateKeyToWif(key, isCompressed)

doubleHash(data) == [hashOf |-> data]

\* AES under a key that scrypt derives from the password and the salt.
Encrypted(key, password, salt) == [key |-> key, password |-> password, salt |-> salt]
Decrypted(box, password, salt) ==
    IF box.password = password /\ box.salt = salt THEN box.key ELSE Garbage

\* The bytes before the checksum.
Body(isCompressed, salt, box) == [isCompressed |-> isCompressed, salt |-> salt, box |-> box]

encryptWif(wif, password) ==
    LET salt == doubleHash(getAddress(wif))
        body == Body(wif.isCompressed, salt, Encrypted(wif.key, password, salt))
    IN  [kind |-> "6P", body |-> body, checksum |-> doubleHash(body)]

\* Mutant of decryptWif: whether the password was right is not checked.
decryptWifUnchecked(e, password) ==
    IF e.checksum # doubleHash(e.body)
      THEN Refused
      ELSE privateKeyToWif(Decrypted(e.body.box, password, e.body.salt), e.body.isCompressed)

\* A password is wrong if the address of what it decrypts has another hash than
\* the salt, which is the hash of the right address.
decryptWif(e, password) ==
    LET wif == privateKeyToWif(Decrypted(e.body.box, password, e.body.salt), e.body.isCompressed)
    IN  IF e.checksum = doubleHash(e.body) /\ doubleHash(getAddress(wif)) = e.body.salt
          THEN wif ELSE Refused
=============================================================================
