------------------------------ MODULE WalletStore ------------------------------
(***************************************************************************)
(* The key files: BtcWallet::genPrivateKey, which writes one, and the      *)
(* constructors of BtcWallet, which read one (btc_wallet/BtcWallet.cpp,    *)
(* FileSystem.cpp), called by io threads for generate and create-tx or     *)
(* send-tx requests.  The process may end between any two steps; streams   *)
(* fail without being noticed.                                             *)
(*                                                                         *)
(* Passwords are not empty: both handlers refuse an empty one.             *)
(***************************************************************************)
EXTENDS Wif, Naturals, FiniteSets

CONSTANTS
    Workers,      \* io threads
    Requests,     \* addresses as clients write them
    \* Bounds: keys that are imported; harmed files beyond which none is damaged.
    MaxImports, MaxHarmed

\* An address is written in three parts, see Address.
ASSUME RequestsAssumption ==
    \A asked \in Requests :
        asked = [stem |-> asked.stem, tail |-> asked.tail, mixed |-> asked.mixed]

VARIABLES
    files,        \* the wallet folder: contents by file name
    job,          \* what each io thread does
    made,         \* history: keys and the password they were encrypted with
    known,        \* history: what users may rely on, see Reply and Import
    harmed        \* history: files that were not written, or damaged later

vars == <<files, job, made, known, harmed>>

-----------------------------------------------------------------------------
(* Names.                                                                  *)

toLower(address) == [address EXCEPT !.mixed = FALSE]

\* Mutant of convertAddressToFileName: upper-case letters stay.
convertAddressToFileNameMixed(address) == [address EXCEPT !.tail = "---"]

convertAddressToFileName(address) == toLower([address EXCEPT !.tail = "---"])

\* A file named after the whole address goes before the usual one.
getFullPath(address) ==
    IF toLower(address) \in DOMAIN files THEN toLower(address)
                                         ELSE convertAddressToFileName(address)

-----------------------------------------------------------------------------
(* Contents.                                                               *)

NoAddress == [kind |-> "none"]
FileData(wif, address) == [wif |-> wif, address |-> address]
EmptyFile == FileData(Cut, NoAddress)

\* loadFile: a file that cannot be read is an empty one.
loadFile(name) == IF name \in DOMAIN files THEN files[name] ELSE EmptyFile

\* decryptWif2: with a password, only an encrypted key will do.
decryptWif2(wif, password) == IF wif.kind = "6P" THEN decryptWif(wif, password) ELSE Refused

\* The constructor: the key, if it decrypts and has the address written next to
\* it, should there be one.
Wallet(data, password) ==
    LET wif == decryptWif2(data.wif, password)
    IN  IF wif # Refused /\ data.address \in {NoAddress, getAddress(wif)}
          THEN wif ELSE Refused

\* What a write that stops half-way leaves: part of the key, the key (with or
\* without the space after it), or part of the address.
Prefixes(data) ==
    {EmptyFile, FileData(data.wif, NoAddress),
     FileData(data.wif, [data.address EXCEPT !.tail = "cut"]), data}

\* What a damaged file may hold: another mark, salt, box, checksum or address.
Damages(data) ==
    LET e == data.wif
    IN  {EmptyFile, [data EXCEPT !.address = [e.body.salt.hashOf EXCEPT !.tail = "bad"]],
         [data EXCEPT !.wif.body.isCompressed = ~@],
         [data EXCEPT !.wif.body.salt = doubleHash(Cut)],
         [data EXCEPT !.wif.body.box.key = Garbage],
         [data EXCEPT !.wif.checksum = doubleHash(Cut)]}

-----------------------------------------------------------------------------
Idle == [pc |-> "idle"]
Init ==
    /\ files = <<>> /\ job = [w \in Workers |-> Idle]
    /\ made = {} /\ known = {} /\ harmed = {}

WriteFile(name, data) ==
    files' = [n \in DOMAIN files \cup {name} |-> IF n = name THEN data ELSE files[n]]

\* Keys are random: no two are the same.
Fresh(key) == \A m \in made : m.wif.key # key

\* genPrivateKey up to saveToFile, with its check that the file will open.
Generate(w) ==
    /\ job[w].pc = "idle"
    /\ \E key \in Keys, password \in Passwords :
          LET wif  == CreateWIF(key, TRUE)
              data == FileData(encryptWif(wif, password), getAddress(wif))
          IN  /\ Fresh(key)
              /\ made' = made \cup {[wif |-> wif, password |-> password]}
              /\ job' = [job EXCEPT ![w] =
                    IF Wallet(data, password) # Refused
                      THEN [pc |-> "save", data |-> data, password |-> password]
                      ELSE Idle]
    /\ UNCHANGED <<files, known, harmed>>

SaveName(w) == convertAddressToFileName(job[w].data.address)

Goto(w, pc) == job' = [job EXCEPT ![w].pc = pc]

\* saveToFile: create_directories throws, the stream does not open (which nobody
\* asks it), or it does and the file is created or emptied.
Save(w) ==
    /\ job[w].pc = "save"
    /\ \/ job' = [job EXCEPT ![w] = Idle] /\ UNCHANGED <<files, harmed>>
       \/ /\ Goto(w, "reply") /\ harmed' = harmed \cup {SaveName(w)}
          /\ UNCHANGED files
       \/ Goto(w, "write") /\ WriteFile(SaveName(w), EmptyFile) /\ UNCHANGED harmed
    /\ UNCHANGED <<made, known>>

\* file.close() writes the data, or as much as the disk takes.
Write(w) ==
    /\ job[w].pc = "write"
    /\ \E data \in Prefixes(job[w].data) :
          /\ WriteFile(SaveName(w), data)
          /\ harmed' = IF data = job[w].data THEN harmed ELSE harmed \cup {SaveName(w)}
    /\ Goto(w, "reply")
    /\ UNCHANGED <<made, known>>

Relied(address, wif, password, name) ==
    [address |-> address, wif |-> wif, password |-> password, name |-> name]

\* generate_handler::execute returns the address.
Reply(w) ==
    /\ job[w].pc = "reply"
    /\ LET address == job[w].data.address IN
       \E m \in made :
          /\ getAddress(m.wif) = address
          /\ known' = known \cup
                {Relied(address, m.wif, job[w].password, convertAddressToFileName(address))}
    /\ job' = [job EXCEPT ![w] = Idle]
    /\ UNCHANGED <<files, made, harmed>>

\* create-tx, send-tx: isExist, and then loadFile.
FindPath(w) ==
    /\ job[w].pc = "idle"
    /\ \E asked \in Requests, password \in Passwords :
          job' = [job EXCEPT ![w] = [pc |-> "load", asked |-> asked, password |-> password,
                                     name |-> getFullPath(asked)]]
    /\ UNCHANGED <<files, made, known, harmed>>

Load(w) ==
    /\ job[w].pc = "load"
    /\ job' = [job EXCEPT ![w] =
          [pc |-> "loaded", asked |-> job[w].asked, password |-> job[w].password,
           wif |-> Wallet(loadFile(job[w].name), job[w].password)]]
    /\ UNCHANGED <<files, made, known, harmed>>

\* The request goes on with the wallet, or is refused.
Loaded(w) ==
    /\ job[w].pc = "loaded"
    /\ job' = [job EXCEPT ![w] = Idle]
    /\ UNCHANGED <<files, made, known, harmed>>

\* The process ends, and is started again.
Crash ==
    /\ job' = [w \in Workers |-> Idle]
    /\ UNCHANGED <<files, made, known, harmed>>

-----------------------------------------------------------------------------
(* The user, and the disk.                                                 *)

\* A key of another program, put under the name of its address.
Import ==
    \E key \in Keys, isCompressed \in BOOLEAN, password \in Passwords :
        LET wif  == CreateWIF(key, isCompressed)
            name == toLower(getAddress(wif))
        IN  /\ Cardinality({r \in known : r.name = toLower(r.address)}) < MaxImports
            /\ name \notin DOMAIN files
            /\ WriteFile(name, FileData(encryptWif(wif, password), NoAddress))
            /\ made' = made \cup {[wif |-> wif, password |-> password]}
            /\ known' = known \cup {Relied(getAddress(wif), wif, password, name)}
            /\ UNCHANGED <<job, harmed>>

Damage ==
    /\ Cardinality(harmed) < MaxHarmed
    /\ \E name \in DOMAIN files \ harmed :
        /\ files[name].wif.kind = "6P"
        /\ \E data \in Damages(files[name]) : WriteFile(name, data)
        /\ harmed' = harmed \cup {name}
        /\ UNCHANGED <<job, made, known>>

Next ==
    \/ \E w \in Workers : \/ Generate(w) \/ Save(w) \/ Write(w) \/ Reply(w)
                          \/ FindPath(w) \/ Load(w) \/ Loaded(w)
    \/ Crash \/ Import \/ Damage

Spec == Init /\ [][Next]_vars

-----------------------------------------------------------------------------
(* Properties.                                                             *)

\* An address that generate returned, and an address whose key was imported,
\* opens with its password and gives its own key, however the letters of the
\* address are written and whatever else was generated, opened or interrupted by a
\* crash since - unless its file could not be written, was damaged, or is
\* superseded by an imported one.  saveToFile does not report the first.
KnownOpens ==
    \A r \in known, mixed \in BOOLEAN :
        \/ r.name \in harmed
        \/ r.name # toLower(r.address) /\ toLower(r.address) \in DOMAIN files
        \/ LET asked == [r.address EXCEPT !.mixed = mixed]
           IN  Wallet(loadFile(getFullPath(asked)), r.password) = r.wif

\* A wallet that opens holds a key that was made with the very password it was
\* opened with, and whose address begins like the one that was asked for: a wrong
\* password, a half-written or damaged file never yields another key to sign with.
NeverAnotherKey ==
    \A w \in Workers :
        job[w].pc = "loaded" /\ job[w].wif # Refused =>
            /\ [wif |-> job[w].wif, password |-> job[w].password] \in made
            /\ getAddress(job[w].wif).stem = job[w].asked.stem
=============================================================================
