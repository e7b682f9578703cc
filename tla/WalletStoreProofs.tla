--------------------------- MODULE WalletStoreProofs ---------------------------
(***************************************************************************)
(* What opens is what was made, and what was handed out opens: for any     *)
(* number of keys, passwords, threads and imported files.                  *)
(***************************************************************************)
EXTENDS WalletStore, TLAPS

\* An encrypted key opens only with the password it was made with, as one of keys,
\* and is then the key of an address that begins with stem.
Safe(e, stem, keys) ==
    \A password \in Passwords :
        decryptWif2(e, password) # Refused =>
            /\ [wif |-> decryptWif2(e, password), password |-> password] \in keys
            /\ getAddress(decryptWif2(e, password)).stem = stem

\* An encrypted key as encryptWif writes it.
Sound(e) ==
    \E key \in Keys, isCompressed \in BOOLEAN, password \in Passwords :
        e = encryptWif(CreateWIF(key, isCompressed), password)

FilesSafe ==
    \A n \in DOMAIN files :
        /\ files[n] = FileData(files[n].wif, files[n].address)
        /\ Safe(files[n].wif, n.stem, made)
        /\ n \notin harmed /\ files[n].wif.kind = "6P" => Sound(files[n].wif)

\* The data that genPrivateKey is about to write.
Saving(w) ==
    \E key \in Keys, password \in Passwords, pc \in {"save", "write", "reply"} :
        LET wif == CreateWIF(key, TRUE)
        IN  /\ job[w] = [pc |-> pc,
                         data |-> FileData(encryptWif(wif, password), getAddress(wif)),
                         password |-> password]
            /\ [wif |-> wif, password |-> password] \in made

Loading(w) ==
    /\ job[w].password \in Passwords
    /\ job[w].name.stem = job[w].asked.stem

LoadedSafe(w) ==
    job[w].wif # Refused =>
        /\ [wif |-> job[w].wif, password |-> job[w].password] \in made
        /\ getAddress(job[w].wif).stem = job[w].asked.stem

JobsSafe ==
    /\ job = [w \in Workers |-> job[w]]
    /\ \A w \in Workers :
        /\ job[w].pc \in {"save", "write", "reply"} => Saving(w)
        /\ job[w].pc = "load" => Loading(w)
        /\ job[w].pc = "loaded" => LoadedSafe(w)

IInv == FilesSafe /\ JobsSafe

-----------------------------------------------------------------------------
(* Keys and their encrypted forms.                                         *)

\* A wrong password decrypts to a key of nobody, whose address has another hash
\* than the salt: decryptWif gives the key that encryptWif was given, or nothing.
LEMMA DecryptsOwn ==
    ASSUME NEW key \in Keys, NEW isCompressed \in BOOLEAN, NEW password, NEW other,
           decryptWif2(encryptWif(CreateWIF(key, isCompressed), password), other) # Refused
    PROVE  /\ other = password
           /\ decryptWif2(encryptWif(CreateWIF(key, isCompressed), password), other)
                = CreateWIF(key, isCompressed)
BY GarbageAssumption DEF decryptWif2, encryptWif, decryptWif, CreateWIF, privateKeyToWif, Body,
   Encrypted, Decrypted, doubleHash, getAddress, Address, PubKey, Refused

\* The two forms of a key have addresses that begin with themselves.
LEMMA SoundIsSafe ==
    ASSUME NEW key \in Keys, NEW isCompressed \in BOOLEAN, NEW password \in Passwords, NEW keys,
           [wif |-> CreateWIF(key, isCompressed), password |-> password] \in keys
    PROVE  Safe(encryptWif(CreateWIF(key, isCompressed), password),
                getAddress(CreateWIF(key, isCompressed)).stem, keys)
BY DecryptsOwn DEF Safe

\* A job that has no key yet is safe.
LEMMA NoKeyIsSafe ==
    ASSUME NEW stem, NEW keys
    PROVE  Safe(Cut, stem, keys)
BY DEF Safe, Cut, decryptWif2

\* A file that a write left incomplete holds no key, or the whole of it.
LEMMA PrefixIsSafe ==
    ASSUME NEW e, NEW address, NEW stem, NEW keys, Safe(e, stem, keys),
           NEW data \in Prefixes(FileData(e, address))
    PROVE  /\ data = FileData(data.wif, data.address)
           /\ data.wif = e \/ data.wif = Cut
           /\ Safe(data.wif, stem, keys)
<1>1. data = EmptyFile \/ \E a : data = FileData(e, a)
  BY DEF Prefixes, FileData
<1>2. data = FileData(data.wif, data.address) /\ (data.wif = e \/ data.wif = Cut)
  BY <1>1 DEF FileData, EmptyFile
<1> QED BY <1>2, NoKeyIsSafe

\* A damaged file does not open: its checksum is that of something else.
LEMMA DamageIsSafe ==
    ASSUME NEW e, NEW address, NEW stem, NEW keys, Safe(e, stem, keys), Sound(e),
           NEW data \in Damages(FileData(e, address))
    PROVE  /\ data = FileData(data.wif, data.address)
           /\ Safe(data.wif, stem, keys)
<1>1. PICK key \in Keys, isCompressed \in BOOLEAN, password \in Passwords :
        e = encryptWif(CreateWIF(key, isCompressed), password)
  BY DEF Sound
<1>2. CASE data = EmptyFile
  BY <1>2, NoKeyIsSafe DEF EmptyFile, FileData
<1>3. CASE data = [FileData(e, address) EXCEPT !.address = [e.body.salt.hashOf EXCEPT !.tail = "bad"]]
  BY <1>3 DEF FileData
<1>4. ASSUME NEW wif, data = FileData(wif, address), wif.checksum # doubleHash(wif.body)
      PROVE  data = FileData(data.wif, data.address) /\ Safe(data.wif, stem, keys)
  <2>1. \A p \in Passwords : decryptWif2(wif, p) = Refused
    BY <1>4 DEF decryptWif2, decryptWif
  <2> QED BY <1>4, <2>1 DEF Safe, FileData
<1>5. e = [kind |-> "6P", body |-> e.body, checksum |-> doubleHash(e.body)]
  BY <1>1 DEF encryptWif
<1>6. e.body = [isCompressed |-> isCompressed, salt |-> doubleHash(getAddress(CreateWIF(key, isCompressed))),
                box |-> [key |-> key, password |-> password,
                         salt |-> doubleHash(getAddress(CreateWIF(key, isCompressed)))]]
  BY <1>1 DEF encryptWif, Body, Encrypted, CreateWIF, privateKeyToWif
<1>7. CASE data = [FileData(e, address) EXCEPT !.wif.body.isCompressed = ~@]
  <2> DEFINE wif == [e EXCEPT !.body.isCompressed = ~@]
  <2>1. data = FileData(wif, address)
    BY <1>5, <1>6, <1>7 DEF FileData
  <2>2. wif.body # e.body /\ wif.checksum = doubleHash(e.body)
    BY <1>5, <1>6
  <2>3. wif.checksum # doubleHash(wif.body)
    BY <2>2 DEF doubleHash
  <2> QED BY <1>4, <2>1, <2>3
<1>8. CASE data = [FileData(e, address) EXCEPT !.wif.body.salt = doubleHash(Cut)]
  <2> DEFINE wif == [e EXCEPT !.body.salt = doubleHash(Cut)]
  <2>1. data = FileData(wif, address)
    BY <1>5, <1>6, <1>8 DEF FileData
  <2>2. wif.body # e.body /\ wif.checksum = doubleHash(e.body)
    BY <1>5, <1>6 DEF doubleHash, Cut, getAddress, Address
  <2>3. wif.checksum # doubleHash(wif.body)
    BY <2>2 DEF doubleHash
  <2> QED BY <1>4, <2>1, <2>3
<1>9. CASE data = [FileData(e, address) EXCEPT !.wif.body.box.key = Garbage]
  <2> DEFINE wif == [e EXCEPT !.body.box.key = Garbage]
  <2>1. data = FileData(wif, address)
    BY <1>5, <1>6, <1>9 DEF FileData
  <2>2. wif.body # e.body /\ wif.checksum = doubleHash(e.body)
    BY <1>5, <1>6, GarbageAssumption
  <2>3. wif.checksum # doubleHash(wif.body)
    BY <2>2 DEF doubleHash
  <2> QED BY <1>4, <2>1, <2>3
<1>10. CASE data = [FileData(e, address) EXCEPT !.wif.checksum = doubleHash(Cut)]
  <2> DEFINE wif == [e EXCEPT !.checksum = doubleHash(Cut)]
  <2>1. data = FileData(wif, address)
    BY <1>5, <1>10 DEF FileData
  <2>2. wif.body = e.body /\ wif.checksum = doubleHash(Cut)
    BY <1>5
  <2>3. wif.checksum # doubleHash(wif.body)
    BY <1>6, <2>2 DEF doubleHash, Cut
  <2> QED BY <1>4, <2>1, <2>3
<1>11. FileData(e, address).wif = e
  BY DEF FileData
<1> QED BY <1>2, <1>3, <1>7, <1>8, <1>9, <1>10, <1>11 DEF Damages

-----------------------------------------------------------------------------
(* Steps.                                                                  *)

\* What is owned stays so when there are more keys.
LEMMA MoreKeys ==
    ASSUME NEW e, NEW stem, NEW keys, NEW more, keys \subseteq more, Safe(e, stem, keys)
    PROVE  Safe(e, stem, more)
BY DEF Safe

\* Files stay safe when one is written with data that is, and no file that was
\* harmed is taken for a whole one.
LEMMA FilesStep ==
    ASSUME FilesSafe, made \subseteq made', harmed \subseteq harmed',
           NEW name, NEW data, WriteFile(name, data),
           data = FileData(data.wif, data.address), Safe(data.wif, name.stem, made'),
           name \notin harmed' /\ data.wif.kind = "6P" => Sound(data.wif)
    PROVE  FilesSafe'
<1> SUFFICES ASSUME NEW n \in DOMAIN files'
             PROVE  /\ files'[n] = FileData(files'[n].wif, files'[n].address)
                    /\ Safe(files'[n].wif, n.stem, made')
                    /\ n \notin harmed' /\ files'[n].wif.kind = "6P" => Sound(files'[n].wif)
  BY DEF FilesSafe
<1>1. CASE n = name
  BY <1>1 DEF WriteFile
<1>2. CASE n # name
  <2>1. n \in DOMAIN files /\ files'[n] = files[n]
    BY <1>2 DEF WriteFile
  <2> QED BY <2>1, MoreKeys DEF FilesSafe
<1> QED BY <1>1, <1>2

\* A step that leaves the files alone.
LEMMA FilesStay ==
    ASSUME FilesSafe, made \subseteq made', harmed \subseteq harmed', UNCHANGED files
    PROVE  FilesSafe'
BY MoreKeys DEF FilesSafe

\* A thread's step leaves what the others hold.
LEMMA JobsStep ==
    ASSUME JobsSafe, made \subseteq made', NEW w \in Workers, NEW new,
           job' = [job EXCEPT ![w] = new],
           /\ new.pc \in {"save", "write", "reply"} => Saving(w)'
           /\ new.pc = "load" => Loading(w)'
           /\ new.pc = "loaded" => LoadedSafe(w)'
    PROVE  JobsSafe'
<1>1. job'[w] = new
  BY DEF JobsSafe
<1>2. ASSUME NEW v \in Workers, v # w PROVE job'[v] = job[v]
  BY <1>2 DEF JobsSafe
<1>3. job' = [v \in Workers |-> job'[v]]
  BY DEF JobsSafe
<1>4. ASSUME NEW v \in Workers
      PROVE  /\ job'[v].pc \in {"save", "write", "reply"} => Saving(v)'
             /\ job'[v].pc = "load" => Loading(v)'
             /\ job'[v].pc = "loaded" => LoadedSafe(v)'
  <2>1. CASE v = w BY <1>1, <2>1
  <2>2. CASE v # w
    <3>1. job'[v] = job[v] BY <1>2, <2>2
    <3>2. Saving(v) => Saving(v)' BY <3>1 DEF Saving
    <3>3. Loading(v) => Loading(v)' BY <3>1 DEF Loading
    <3>4. LoadedSafe(v) => LoadedSafe(v)' BY <3>1 DEF LoadedSafe
    <3> QED BY <3>1, <3>2, <3>3, <3>4 DEF JobsSafe
  <2> QED BY <2>1, <2>2
<1> QED BY <1>3, <1>4 DEF JobsSafe

\* A step that leaves all jobs alone.
LEMMA JobsStay ==
    ASSUME JobsSafe, made \subseteq made', UNCHANGED job
    PROVE  JobsSafe'
<1>1. ASSUME NEW v \in Workers
      PROVE  /\ Saving(v) => Saving(v)'
             /\ Loading(v) => Loading(v)'
             /\ LoadedSafe(v) => LoadedSafe(v)'
  BY DEF Saving, Loading, LoadedSafe
<1> QED BY <1>1 DEF JobsSafe

\* One lemma for each action.  A key is generated,
LEMMA GenerateStep ==
    ASSUME IInv, NEW w \in Workers, Generate(w)
    PROVE  IInv'
<1>1. PICK key \in Keys, password \in Passwords :
        LET wif  == CreateWIF(key, TRUE)
            data == FileData(encryptWif(wif, password), getAddress(wif))
        IN  /\ made' = made \cup {[wif |-> wif, password |-> password]}
            /\ job' = [job EXCEPT ![w] =
                  IF Wallet(data, password) # Refused
                    THEN [pc |-> "save", data |-> data, password |-> password]
                    ELSE Idle]
  BY DEF Generate
<1> DEFINE wif  == CreateWIF(key, TRUE)
           data == FileData(encryptWif(wif, password), getAddress(wif))
           new  == IF Wallet(data, password) # Refused
                     THEN [pc |-> "save", data |-> data, password |-> password]
                     ELSE Idle
<1>2. FilesSafe'
  BY <1>1, FilesStay DEF IInv, Generate
<1>3. job'[w] = new
  BY <1>1 DEF IInv, JobsSafe
<1>4. new.pc \in {"save", "write", "reply"} => Saving(w)'
  <2> HAVE new.pc \in {"save", "write", "reply"}
  <2>1. job'[w] = [pc |-> "save", data |-> data, password |-> password]
    BY <1>3 DEF Idle
  <2>2. [wif |-> wif, password |-> password] \in made'
    BY <1>1
  <2> QED BY <2>1, <2>2 DEF Saving
<1>5. new.pc # "load" /\ new.pc # "loaded"
  BY DEF Idle
<1>6. job' = [job EXCEPT ![w] = new]
  BY <1>1
<1>7. made \subseteq made'
  BY <1>1
<1> HIDE DEF new
<1>8. JobsSafe'
  BY <1>4, <1>5, <1>6, <1>7, JobsStep DEF IInv
<1> QED BY <1>2, <1>8 DEF IInv

\* What a thread that saves a key holds, and the file it writes it to.
LEMMA SavedData ==
    ASSUME NEW w \in Workers, Saving(w)
    PROVE  /\ job[w].data = FileData(job[w].data.wif, job[w].data.address)
           /\ Sound(job[w].data.wif)
           /\ Safe(job[w].data.wif, SaveName(w).stem, made)
<1>1. PICK key \in Keys, password \in Passwords, pc \in {"save", "write", "reply"} :
        /\ job[w] = [pc |-> pc,
                     data |-> FileData(encryptWif(CreateWIF(key, TRUE), password),
                                       getAddress(CreateWIF(key, TRUE))),
                     password |-> password]
        /\ [wif |-> CreateWIF(key, TRUE), password |-> password] \in made
  BY DEF Saving
<1>2. job[w].data = FileData(encryptWif(CreateWIF(key, TRUE), password),
                             getAddress(CreateWIF(key, TRUE)))
  BY <1>1
<1>3. /\ job[w].data.wif = encryptWif(CreateWIF(key, TRUE), password)
      /\ job[w].data.address = getAddress(CreateWIF(key, TRUE))
  BY <1>2 DEF FileData
<1>4. SaveName(w).stem = getAddress(CreateWIF(key, TRUE)).stem
  BY <1>3 DEF SaveName, convertAddressToFileName, toLower, getAddress, Address
<1>5. Sound(job[w].data.wif)
  BY <1>3 DEF Sound
<1>6. Safe(job[w].data.wif, SaveName(w).stem, made)
  BY <1>1, <1>3, <1>4, SoundIsSafe
<1> QED BY <1>2, <1>3, <1>5, <1>6

\* A thread that goes on to another step of genPrivateKey keeps its data.
LEMMA GotoStep ==
    ASSUME JobsSafe, made' = made, NEW w \in Workers, Saving(w),
           NEW next \in {"save", "write", "reply"}, Goto(w, next)
    PROVE  JobsSafe'
<1>1. PICK key \in Keys, password \in Passwords, pc \in {"save", "write", "reply"} :
        /\ job[w] = [pc |-> pc,
                     data |-> FileData(encryptWif(CreateWIF(key, TRUE), password),
                                       getAddress(CreateWIF(key, TRUE))),
                     password |-> password]
        /\ [wif |-> CreateWIF(key, TRUE), password |-> password] \in made
  BY DEF Saving
<1> DEFINE new == [pc |-> next,
                   data |-> FileData(encryptWif(CreateWIF(key, TRUE), password),
                                     getAddress(CreateWIF(key, TRUE))),
                   password |-> password]
<1>2. job' = [job EXCEPT ![w] = new]
  <2>1. job' = [job EXCEPT ![w] = [job[w] EXCEPT !.pc = next]]
    BY DEF Goto
  <2>2. ASSUME NEW data, NEW old PROVE
          [[pc |-> old, data |-> data, password |-> password] EXCEPT !.pc = next]
            = [pc |-> next, data |-> data, password |-> password]
    OBVIOUS
  <2> QED BY <1>1, <2>1, <2>2
<1>3. job'[w] = new
  BY <1>2 DEF JobsSafe
<1>4. Saving(w)'
  BY <1>1, <1>3 DEF Saving
<1>5. new.pc = next
  OBVIOUS
<1> HIDE DEF new
<1> QED BY <1>2, <1>4, <1>5, JobsStep

\* A thread that is done holds nothing.
LEMMA IdleStep ==
    ASSUME JobsSafe, made \subseteq made', NEW w \in Workers, job' = [job EXCEPT ![w] = Idle]
    PROVE  JobsSafe'
<1>1. Idle.pc = "idle"
  BY DEF Idle
<1> QED BY <1>1, JobsStep

\* the file is opened,
LEMMA SaveStep ==
    ASSUME IInv, NEW w \in Workers, Save(w)
    PROVE  IInv'
<1>1. Saving(w) /\ made' = made
  BY DEF Save, IInv, JobsSafe
<1>2. CASE job' = [job EXCEPT ![w] = Idle] /\ UNCHANGED <<files, harmed>>
  BY <1>1, <1>2, IdleStep, FilesStay DEF IInv
<1>3. CASE Goto(w, "reply") /\ harmed' = harmed \cup {SaveName(w)} /\ UNCHANGED files
  BY <1>1, <1>3, GotoStep, FilesStay DEF IInv
<1>4. CASE Goto(w, "write") /\ WriteFile(SaveName(w), EmptyFile) /\ UNCHANGED harmed
  <2>1. /\ EmptyFile = FileData(EmptyFile.wif, EmptyFile.address)
        /\ EmptyFile.wif = Cut /\ Cut.kind # "6P"
    BY DEF EmptyFile, FileData, Cut
  <2>2. FilesSafe'
    BY <1>1, <1>4, <2>1, NoKeyIsSafe, FilesStep DEF IInv
  <2> QED BY <1>1, <1>4, <2>2, GotoStep DEF IInv
<1> QED BY <1>2, <1>3, <1>4 DEF Save

\* and written.
LEMMA WriteStep ==
    ASSUME IInv, NEW w \in Workers, Write(w)
    PROVE  IInv'
<1>1. Saving(w) /\ made' = made
  BY DEF Write, IInv, JobsSafe
<1>2. JobsSafe'
  BY <1>1, GotoStep DEF Write, IInv
<1>3. PICK data \in Prefixes(job[w].data) :
        /\ WriteFile(SaveName(w), data)
        /\ harmed' = IF data = job[w].data THEN harmed ELSE harmed \cup {SaveName(w)}
  BY DEF Write
<1> DEFINE whole == job[w].data
<1>4. /\ data = FileData(data.wif, data.address)
      /\ data.wif = whole.wif \/ data.wif = Cut
      /\ Safe(data.wif, SaveName(w).stem, made)
  <2>1. /\ whole = FileData(whole.wif, whole.address)
        /\ Safe(whole.wif, SaveName(w).stem, made)
    BY <1>1, SavedData
  <2>2. data \in Prefixes(FileData(whole.wif, whole.address))
    BY <1>3, <2>1
  <2> HIDE DEF whole
  <2> QED BY <2>1, <2>2, PrefixIsSafe
<1>5. data.wif.kind = "6P" => Sound(data.wif)
  BY <1>1, <1>4, SavedData DEF Cut
<1>6. FilesSafe'
  BY <1>1, <1>3, <1>4, <1>5, FilesStep DEF IInv
<1> QED BY <1>2, <1>6 DEF IInv

\* A file is looked for,
LEMMA FindPathStep ==
    ASSUME IInv, NEW w \in Workers, FindPath(w)
    PROVE  IInv'
<1>1. PICK asked \in Requests, password \in Passwords :
        job' = [job EXCEPT ![w] = [pc |-> "load", asked |-> asked, password |-> password,
                                   name |-> getFullPath(asked)]]
  BY DEF FindPath
<1>2. UNCHANGED <<files, made, harmed>>
  BY DEF FindPath
<1>3. getFullPath(asked).stem = asked.stem
  <2>1. asked = [stem |-> asked.stem, tail |-> asked.tail, mixed |-> asked.mixed]
    BY RequestsAssumption
  <2>2. ASSUME NEW stem, NEW tail, NEW mixed
        PROVE  LET a == [stem |-> stem, tail |-> tail, mixed |-> mixed]
               IN  toLower(a).stem = stem /\ convertAddressToFileName(a).stem = stem
    BY DEF toLower, convertAddressToFileName
  <2>3. toLower(asked).stem = asked.stem /\ convertAddressToFileName(asked).stem = asked.stem
    BY <2>1, <2>2
  <2> QED BY <2>3 DEF getFullPath
<1> DEFINE new == [pc |-> "load", asked |-> asked, password |-> password,
                   name |-> getFullPath(asked)]
<1>4. job'[w] = new
  BY <1>1 DEF IInv, JobsSafe
<1>5. Loading(w)'
  BY <1>3, <1>4 DEF Loading
<1>6. new.pc = "load" /\ job' = [job EXCEPT ![w] = new]
  BY <1>1
<1> HIDE DEF new
<1>7. JobsSafe'
  BY <1>2, <1>5, <1>6, JobsStep DEF IInv
<1> QED BY <1>2, <1>7, FilesStay DEF IInv

\* The file opens as the constructor of BtcWallet finds it, or not at all.
LEMMA WalletOpens ==
    ASSUME FilesSafe, NEW name, NEW password \in Passwords,
           Wallet(loadFile(name), password) # Refused
    PROVE  /\ [wif |-> Wallet(loadFile(name), password), password |-> password] \in made
           /\ getAddress(Wallet(loadFile(name), password)).stem = name.stem
<1>1. Wallet(loadFile(name), password) = decryptWif2(loadFile(name).wif, password)
  BY DEF Wallet
<1>2. CASE name \in DOMAIN files
  <2>1. loadFile(name) = files[name]
    BY <1>2 DEF loadFile
  <2>2. Safe(files[name].wif, name.stem, made)
    BY <1>2 DEF FilesSafe
  <2> QED BY <1>1, <2>1, <2>2 DEF Safe
<1>3. CASE name \notin DOMAIN files
  BY <1>1, <1>3 DEF loadFile, EmptyFile, FileData, Cut, decryptWif2
<1> QED BY <1>2, <1>3

\* and read.
LEMMA LoadStep ==
    ASSUME IInv, NEW w \in Workers, Load(w)
    PROVE  IInv'
<1> DEFINE wif == Wallet(loadFile(job[w].name), job[w].password)
           new == [pc |-> "loaded", asked |-> job[w].asked, password |-> job[w].password,
                   wif |-> wif]
<1>1. job' = [job EXCEPT ![w] = new] /\ UNCHANGED <<files, made, harmed>>
  BY DEF Load
<1>2. Loading(w)
  BY DEF Load, IInv, JobsSafe
<1>3. wif # Refused => /\ [wif |-> wif, password |-> job[w].password] \in made
                       /\ getAddress(wif).stem = job[w].asked.stem
  BY <1>2, WalletOpens DEF IInv, Loading
<1>4. job'[w] = new
  BY <1>1 DEF IInv, JobsSafe
<1> HIDE DEF wif
<1>5. LoadedSafe(w)'
  BY <1>1, <1>3, <1>4 DEF LoadedSafe
<1>6. new.pc = "loaded"
  OBVIOUS
<1> HIDE DEF new
<1>7. JobsSafe'
  BY <1>1, <1>5, <1>6, JobsStep DEF IInv
<1> QED BY <1>1, <1>7, FilesStay DEF IInv

\* A key is imported.
LEMMA ImportStep ==
    ASSUME IInv, Import
    PROVE  IInv'
<1>1. PICK key \in Keys, isCompressed \in BOOLEAN, password \in Passwords :
        LET wif  == CreateWIF(key, isCompressed)
            name == toLower(getAddress(wif))
        IN  /\ WriteFile(name, FileData(encryptWif(wif, password), NoAddress))
            /\ made' = made \cup {[wif |-> wif, password |-> password]}
            /\ UNCHANGED <<job, harmed>>
  BY DEF Import
<1> DEFINE wif  == CreateWIF(key, isCompressed)
           name == toLower(getAddress(wif))
           e    == encryptWif(wif, password)
           data == FileData(e, NoAddress)
<1>2. data.wif = e /\ data = FileData(data.wif, data.address)
  BY DEF FileData
<1>3. Sound(e)
  BY DEF Sound
<1>4. name.stem = getAddress(wif).stem
  BY DEF toLower, getAddress, Address
<1>5. Safe(e, name.stem, made')
  BY <1>1, <1>4, SoundIsSafe
<1>6. WriteFile(name, data) /\ made \subseteq made' /\ UNCHANGED <<job, harmed>>
  BY <1>1
<1> HIDE DEF name, data, e
<1>7. FilesSafe'
  BY <1>2, <1>3, <1>5, <1>6, FilesStep DEF IInv
<1> QED BY <1>6, <1>7, JobsStay DEF IInv

\* A file is damaged.
LEMMA DamageStep ==
    ASSUME IInv, Damage
    PROVE  IInv'
<1>1. PICK name \in DOMAIN files \ harmed :
        /\ files[name].wif.kind = "6P"
        /\ \E data \in Damages(files[name]) : WriteFile(name, data)
        /\ harmed' = harmed \cup {name}
        /\ UNCHANGED <<job, made, known>>
  BY DEF Damage
<1>2. PICK data \in Damages(files[name]) : WriteFile(name, data)
  BY <1>1
<1>3. /\ files[name] = FileData(files[name].wif, files[name].address)
      /\ Safe(files[name].wif, name.stem, made) /\ Sound(files[name].wif)
  BY <1>1 DEF IInv, FilesSafe
<1>4. data = FileData(data.wif, data.address) /\ Safe(data.wif, name.stem, made)
  <2>1. ASSUME NEW e, NEW address, data \in Damages(FileData(e, address)),
               Safe(e, name.stem, made), Sound(e)
        PROVE  data = FileData(data.wif, data.address) /\ Safe(data.wif, name.stem, made)
    BY <2>1, DamageIsSafe
  <2>2. data \in Damages(FileData(files[name].wif, files[name].address))
    BY <1>2, <1>3
  <2> QED BY <1>3, <2>1, <2>2
<1>5. FilesSafe'
  BY <1>1, <1>2, <1>4, FilesStep DEF IInv
<1> QED BY <1>1, <1>5, JobsStay DEF IInv

\* The invariant, always.
LEMMA Invariance == Spec => []IInv
<1>1. Init => IInv
  BY DEF Init, IInv, FilesSafe, JobsSafe, Idle
<1>2. IInv /\ [Next]_vars => IInv'
  <2> SUFFICES ASSUME IInv, [Next]_vars PROVE IInv'
    OBVIOUS
  <2>1. ASSUME NEW w \in Workers, Reply(w) \/ Loaded(w) PROVE IInv'
    BY <2>1, IdleStep, FilesStay DEF Reply, Loaded, IInv
  <2>2. CASE Crash
    <3>1. JobsSafe'
      BY <2>2 DEF Crash, JobsSafe, Idle
    <3> QED BY <2>2, <3>1, FilesStay DEF Crash, IInv
  <2>3. CASE UNCHANGED vars
    BY <2>3, FilesStay, JobsStay DEF vars, IInv
  <2> QED BY <2>1, <2>2, <2>3, GenerateStep, SaveStep, WriteStep, FindPathStep, LoadStep,
             ImportStep, DamageStep DEF Next
<1> QED BY <1>1, <1>2, PTL DEF Spec

\* Whatever is generated, imported, damaged or interrupted, a wallet that opens holds
\* a key made with the password it was opened with, of the address asked for.
THEOREM OpensOnlyItsOwn == Spec => []NeverAnotherKey
<1>1. IInv => NeverAnotherKey
  BY DEF IInv, JobsSafe, LoadedSafe, NeverAnotherKey
<1> QED BY <1>1, Invariance, PTL

-----------------------------------------------------------------------------
(* What was handed out is kept: a name belongs to one key.                 *)

\* The file of a generated key, and of an imported one.
NameOf(key) == convertAddressToFileName(getAddress(CreateWIF(key, TRUE)))
ImportName(key, isCompressed) == toLower(getAddress(CreateWIF(key, isCompressed)))

\* The file holds the data, or has come to harm.
Stored(name, data) == name \in harmed \/ (name \in DOMAIN files /\ files[name] = data)

Generated(r) ==
    \E key \in Keys, password \in Passwords :
        LET wif == CreateWIF(key, TRUE)
        IN  /\ r = Relied(getAddress(wif), wif, password, NameOf(key))
            /\ [wif |-> wif, password |-> password] \in made
            /\ Stored(NameOf(key), FileData(encryptWif(wif, password), getAddress(wif)))

Imported(r) ==
    \E key \in Keys, isCompressed \in BOOLEAN, password \in Passwords :
        LET wif == CreateWIF(key, isCompressed)
        IN  /\ r = Relied(getAddress(wif), wif, password, ImportName(key, isCompressed))
            /\ Stored(ImportName(key, isCompressed),
                      FileData(encryptWif(wif, password), NoAddress))

KnownKept == \A r \in known : Generated(r) \/ Imported(r)

MadeWifs == \A m \in made : \E key \in Keys, isCompressed \in BOOLEAN :
                                m.wif = CreateWIF(key, isCompressed)

Holds(w) == job[w].pc \in {"save", "write", "reply"}

\* A thread in saveToFile has its file to itself, and nobody relies on it yet.
Owned ==
    \A w \in Workers : Holds(w) =>
        /\ \A r \in known : r.name # SaveName(w)
        /\ \A v \in Workers \ {w} : Holds(v) => SaveName(v) # SaveName(w)

\* What is about to be returned has been written.
Written == \A w \in Workers : job[w].pc = "reply" => Stored(SaveName(w), job[w].data)

KInv == KnownKept /\ MadeWifs /\ Owned /\ Written

\* Names tell keys apart, and generated keys from imported ones.
LEMMA NamesDiffer ==
    ASSUME NEW key, NEW other, NEW isCompressed
    PROVE  /\ NameOf(key) = NameOf(other) => key = other
           /\ NameOf(key) # ImportName(other, isCompressed)
BY DEF NameOf, ImportName, convertAddressToFileName, toLower, getAddress, Address, PubKey,
   CreateWIF, privateKeyToWif

\* An address is that of one key in one form.
LEMMA AddressIsOwn ==
    ASSUME NEW key, NEW isCompressed, NEW other, NEW form,
           getAddress(CreateWIF(key, isCompressed)) = getAddress(CreateWIF(other, form))
    PROVE  CreateWIF(key, isCompressed) = CreateWIF(other, form)
BY DEF getAddress, Address, PubKey, CreateWIF, privateKeyToWif

\* The right password opens what encryptWif wrote.
LEMMA OpensOwn ==
    ASSUME NEW key, NEW isCompressed, NEW password, NEW wif, wif = CreateWIF(key, isCompressed),
           NEW address \in {NoAddress, getAddress(wif)}
    PROVE  Wallet(FileData(encryptWif(wif, password), address), password) = wif
<1>1. PICK e : e = encryptWif(wif, password) OBVIOUS
<1>2. decryptWif2(e, password) = wif
  BY <1>1 DEF decryptWif2, encryptWif, decryptWif, CreateWIF, privateKeyToWif, Body,
     Encrypted, Decrypted, doubleHash, getAddress, Address, PubKey
<1>3. wif # Refused BY DEF CreateWIF, privateKeyToWif, Refused
<1>4. FileData(e, address).wif = e /\ FileData(e, address).address = address BY DEF FileData
<1> QED BY <1>1, <1>2, <1>3, <1>4 DEF Wallet

\* A thread in saveToFile, and what it saves.
LEMMA HeldData ==
    ASSUME NEW w \in Workers, Saving(w)
    PROVE  \E key \in Keys, password \in Passwords :
             LET wif == CreateWIF(key, TRUE)
             IN  /\ SaveName(w) = NameOf(key) /\ job[w].password = password
                 /\ job[w].data = FileData(encryptWif(wif, password), getAddress(wif))
                 /\ job[w].data.address = getAddress(wif)
                 /\ [wif |-> wif, password |-> password] \in made
<1>1. PICK key \in Keys, password \in Passwords, pc \in {"save", "write", "reply"} :
        /\ job[w] = [pc |-> pc,
                     data |-> FileData(encryptWif(CreateWIF(key, TRUE), password),
                                       getAddress(CreateWIF(key, TRUE))),
                     password |-> password]
        /\ [wif |-> CreateWIF(key, TRUE), password |-> password] \in made
  BY DEF Saving
<1>2. /\ job[w].data = FileData(encryptWif(CreateWIF(key, TRUE), password),
                                getAddress(CreateWIF(key, TRUE)))
      /\ job[w].password = password
  BY <1>1
<1>3. job[w].data.address = getAddress(CreateWIF(key, TRUE)) BY <1>2 DEF FileData
<1>4. SaveName(w) = NameOf(key) BY <1>3 DEF SaveName, NameOf
<1> QED BY <1>1, <1>2, <1>3, <1>4

\* What is stored stays so unless its file is written to.
LEMMA StoredStays ==
    ASSUME NEW n, NEW d, Stored(n, d), harmed \subseteq harmed',
           \/ UNCHANGED files
           \/ \E name, data : WriteFile(name, data) /\ (n # name \/ n \in harmed')
    PROVE  Stored(n, d)'
<1>1. CASE n \in harmed BY <1>1 DEF Stored
<1>2. CASE n \notin harmed /\ UNCHANGED files BY <1>2 DEF Stored
<1>3. CASE n \notin harmed /\ ~UNCHANGED files
  <2>1. PICK name, data : WriteFile(name, data) /\ (n # name \/ n \in harmed') BY <1>3
  <2>2. n \in DOMAIN files /\ files[n] = d BY <1>3 DEF Stored
  <2>3. CASE n \in harmed' BY <2>3 DEF Stored
  <2>4. CASE n # name
    <3>1. n \in DOMAIN files' /\ files'[n] = files[n] BY <2>1, <2>2, <2>4 DEF WriteFile
    <3> QED BY <2>2, <3>1 DEF Stored
  <2> QED BY <2>1, <2>3, <2>4
<1> QED BY <1>1, <1>2, <1>3

\* A step that writes to no file but name.
Apart(name) ==
    /\ harmed \subseteq harmed'
    /\ \/ UNCHANGED files
       \/ \E data : WriteFile(name, data)

\* What nobody writes to is still there for those who rely on it.
LEMMA KnownStays ==
    ASSUME KnownKept, made \subseteq made', NEW name, Apart(name),
           UNCHANGED files \/ \A r \in known : r.name # name \/ name \in harmed',
           NEW r \in known
    PROVE  (Generated(r) \/ Imported(r))'
<1>1. ASSUME NEW n, NEW d, Stored(n, d), UNCHANGED files \/ n # name \/ n \in harmed'
      PROVE  Stored(n, d)'
  BY <1>1, StoredStays DEF Apart
<1>2. CASE Generated(r)
  <2>1. PICK key \in Keys, password \in Passwords :
          LET wif == CreateWIF(key, TRUE)
          IN  /\ r = Relied(getAddress(wif), wif, password, NameOf(key))
              /\ [wif |-> wif, password |-> password] \in made
              /\ Stored(NameOf(key), FileData(encryptWif(wif, password), getAddress(wif)))
    BY <1>2 DEF Generated
  <2>2. r.name = NameOf(key) BY <2>1 DEF Relied
  <2>3. PICK n, d : /\ n = NameOf(key)
                    /\ d = FileData(encryptWif(CreateWIF(key, TRUE), password),
                                    getAddress(CreateWIF(key, TRUE)))
    OBVIOUS
  <2>4. UNCHANGED files \/ n # name \/ n \in harmed' BY <2>2, <2>3
  <2>5. Stored(n, d)' BY <1>1, <2>1, <2>3, <2>4
  <2> QED BY <2>1, <2>3, <2>5 DEF Generated, Stored
<1>3. CASE Imported(r)
  <2>1. PICK key \in Keys, isCompressed \in BOOLEAN, password \in Passwords :
          LET wif == CreateWIF(key, isCompressed)
          IN  /\ r = Relied(getAddress(wif), wif, password, ImportName(key, isCompressed))
              /\ Stored(ImportName(key, isCompressed),
                        FileData(encryptWif(wif, password), NoAddress))
    BY <1>3 DEF Imported
  <2>2. r.name = ImportName(key, isCompressed) BY <2>1 DEF Relied
  <2>3. PICK n, d : /\ n = ImportName(key, isCompressed)
                    /\ d = FileData(encryptWif(CreateWIF(key, isCompressed), password), NoAddress)
    OBVIOUS
  <2>4. UNCHANGED files \/ n # name \/ n \in harmed' BY <2>2, <2>3
  <2>5. Stored(n, d)' BY <1>1, <2>1, <2>3, <2>4
  <2> QED BY <2>1, <2>3, <2>5 DEF Imported, Stored
<1> QED BY <1>2, <1>3 DEF KnownKept

\* Threads that go on, or are done, with the files they had.
LEMMA OwnedStays ==
    ASSUME Owned, UNCHANGED known,
           \A v \in Workers : job'[v].pc \in {"save", "write", "reply"} =>
               Holds(v) /\ job'[v].data = job[v].data
    PROVE  Owned'
<1>1. ASSUME NEW v \in Workers, Holds(v)' PROVE Holds(v) /\ SaveName(v)' = SaveName(v)
  BY <1>1 DEF Holds, SaveName
<1> SUFFICES ASSUME NEW w \in Workers, Holds(w)'
             PROVE  /\ \A r \in known : r.name # SaveName(w)'
                    /\ \A v \in Workers \ {w} : Holds(v)' => SaveName(v)' # SaveName(w)'
  BY DEF Owned
<1> QED BY <1>1 DEF Owned

\* A reply about a file that no other thread writes is still right.
LEMMA WrittenStays ==
    ASSUME Written, NEW name, Apart(name),
           \A v \in Workers : job'[v].pc = "reply" =>
               \/ job'[v] = job[v] /\ (SaveName(v) # name \/ name \in harmed')
               \/ Stored(SaveName(v), job[v].data)'
    PROVE  Written'
<1> SUFFICES ASSUME NEW v \in Workers, job'[v].pc = "reply",
                    job'[v] = job[v], SaveName(v) # name \/ name \in harmed'
             PROVE  Stored(SaveName(v), job[v].data)'
  BY DEF Written
<1>1. PICK n, d : n = SaveName(v) /\ d = job[v].data OBVIOUS
<1>2. SaveName(v)' = n /\ job'[v].data = d BY <1>1 DEF SaveName
<1>3. Stored(n, d) BY <1>1 DEF Written
<1>4. Stored(n, d)' BY <1>1, <1>3, StoredStays DEF Apart
<1> QED BY <1>2, <1>4 DEF Stored

\* A thread's step leaves what the others hold.
LEMMA OtherJobs ==
    ASSUME JobsSafe, NEW w \in Workers, NEW new, job' = [job EXCEPT ![w] = new]
    PROVE  job'[w] = new /\ \A v \in Workers \ {w} : job'[v] = job[v]
BY DEF JobsSafe

\* Steps that write no file and tell nobody anything.
LEMMA QuietKnown ==
    ASSUME KInv, UNCHANGED <<files, made, known, harmed>>,
           \A v \in Workers : job'[v] = job[v] \/ job'[v].pc \notin {"save", "write", "reply"}
    PROVE  KInv'
<1>1. MadeWifs' BY DEF KInv, MadeWifs
<1>2. KnownKept' BY DEF KInv, KnownKept, Generated, Imported, Stored
<1>3. Owned' BY OwnedStays DEF KInv, Holds
<1>4. Written' BY DEF KInv, Written, Stored, SaveName
<1> QED BY <1>1, <1>2, <1>3, <1>4 DEF KInv

\* The key is random: nobody relies on its file, and no thread writes it.
LEMMA GenerateKnown ==
    ASSUME IInv, KInv, NEW w \in Workers, Generate(w)
    PROVE  KInv'
<1>1. PICK key \in Keys, password \in Passwords :
        LET wif  == CreateWIF(key, TRUE)
            data == FileData(encryptWif(wif, password), getAddress(wif))
        IN  /\ Fresh(key)
            /\ made' = made \cup {[wif |-> wif, password |-> password]}
            /\ job' = [job EXCEPT ![w] =
                  IF Wallet(data, password) # Refused
                    THEN [pc |-> "save", data |-> data, password |-> password]
                    ELSE Idle]
  BY DEF Generate
<1>2. PICK new : /\ job' = [job EXCEPT ![w] = new]
                 /\ \/ new.pc = "idle"
                    \/ /\ new.pc = "save"
                       /\ new.data = FileData(encryptWif(CreateWIF(key, TRUE), password),
                                              getAddress(CreateWIF(key, TRUE)))
  <2>1. PICK d : d = FileData(encryptWif(CreateWIF(key, TRUE), password),
                              getAddress(CreateWIF(key, TRUE)))
    OBVIOUS
  <2>2. PICK x : /\ x = IF Wallet(d, password) # Refused
                          THEN [pc |-> "save", data |-> d, password |-> password]
                          ELSE Idle
                 /\ job' = [job EXCEPT ![w] = x]
    BY <1>1, <2>1
  <2>3. x.pc = "idle" \/ (x.pc = "save" /\ x.data = d) BY <2>2 DEF Idle
  <2> QED BY <2>1, <2>2, <2>3
<1>3. job'[w] = new /\ \A v \in Workers \ {w} : job'[v] = job[v]
  BY <1>2, OtherJobs DEF IInv
<1>4. UNCHANGED <<files, known, harmed>> /\ made \subseteq made' BY <1>1 DEF Generate
<1>6. MadeWifs'
  <2>1. [wif |-> CreateWIF(key, TRUE), password |-> password].wif = CreateWIF(key, TRUE) OBVIOUS
  <2> QED BY <1>1, <2>1 DEF KInv, MadeWifs
<1>7. KnownKept' BY <1>4, KnownStays DEF KInv, KnownKept, Apart
<1>8. Written'
  <2>1. ASSUME NEW v \in Workers, job'[v].pc = "reply" PROVE job'[v] = job[v]
    BY <1>2, <1>3, <2>1
  <2> QED BY <1>4, <2>1 DEF KInv, Written, Stored, SaveName
<1>9. Owned'
  <2>1. CASE new.pc = "idle" BY <1>3, <1>4, <2>1, OwnedStays DEF KInv, Holds
  <2>2. CASE new.pc = "save" /\ SaveName(w)' = NameOf(key)
    <3>1. ASSUME NEW other, NEW p, [wif |-> CreateWIF(other, TRUE), password |-> p] \in made
          PROVE  NameOf(other) # NameOf(key)
      <4>1. CreateWIF(other, TRUE).key # key BY <1>1, <3>1 DEF Fresh
      <4> QED BY <4>1, NamesDiffer DEF CreateWIF, privateKeyToWif
    <3>2. ASSUME NEW r \in known PROVE r.name # NameOf(key)
      <4>1. CASE Generated(r)
        <5>1. PICK other \in Keys, p \in Passwords :
                LET wif == CreateWIF(other, TRUE)
                IN  /\ r = Relied(getAddress(wif), wif, p, NameOf(other))
                    /\ [wif |-> wif, password |-> p] \in made
          BY <4>1 DEF Generated
        <5>2. r.name = NameOf(other) BY <5>1 DEF Relied
        <5> QED BY <3>1, <5>1, <5>2
      <4>2. CASE Imported(r) BY <4>2, NamesDiffer DEF Imported, Relied
      <4> QED BY <4>1, <4>2 DEF KInv, KnownKept
    <3>3. ASSUME NEW v \in Workers \ {w}, Holds(v)' PROVE Holds(v) /\ SaveName(v)' = SaveName(v)
      BY <1>3, <3>3 DEF Holds, SaveName
    <3>4. ASSUME NEW v \in Workers, Holds(v) PROVE SaveName(v) # NameOf(key)
      <4>1. Saving(v) BY <3>4 DEF IInv, JobsSafe, Holds
      <4> QED BY <3>1, <4>1, HeldData
    <3> SUFFICES ASSUME NEW u \in Workers, Holds(u)'
                 PROVE  /\ \A r \in known : r.name # SaveName(u)'
                        /\ \A v \in Workers \ {u} : Holds(v)' => SaveName(v)' # SaveName(u)'
      BY <1>4 DEF Owned
    <3>5. CASE u = w BY <2>2, <3>2, <3>3, <3>4, <3>5
    <3>6. CASE u # w
      <4>1. Holds(u) /\ SaveName(u)' = SaveName(u) BY <3>3, <3>6
      <4>2. SaveName(w)' # SaveName(u)' BY <2>2, <3>4, <4>1
      <4>3. ASSUME NEW v \in Workers \ {u}, Holds(v)' PROVE SaveName(v)' # SaveName(u)'
        <5>1. CASE v = w BY <4>2, <5>1
        <5>2. CASE v # w BY <3>3, <4>1, <4>3, <5>2 DEF KInv, Owned
        <5> QED BY <5>1, <5>2
      <4> QED BY <4>1, <4>3 DEF KInv, Owned
    <3> QED BY <3>5, <3>6
  <2>3. new.pc = "save" => SaveName(w)' = NameOf(key)
    <3> SUFFICES ASSUME new.pc = "save" PROVE SaveName(w)' = NameOf(key) OBVIOUS
    <3>1. PICK e, a : e = encryptWif(CreateWIF(key, TRUE), password)
                      /\ a = getAddress(CreateWIF(key, TRUE)) /\ job'[w].data = FileData(e, a)
      BY <1>2, <1>3
    <3>2. job'[w].data.address = getAddress(CreateWIF(key, TRUE)) BY <3>1 DEF FileData
    <3> QED BY <3>2 DEF SaveName, NameOf
  <2> QED BY <1>2, <2>1, <2>2, <2>3
<1> QED BY <1>6, <1>7, <1>8, <1>9 DEF KInv

\* A step of saveToFile touches the thread's own file only.
LEMMA SavingKnown ==
    ASSUME IInv, KInv, NEW w \in Workers, Holds(w), NEW new, job' = [job EXCEPT ![w] = new],
           UNCHANGED <<made, known>>, Apart(SaveName(w)),
           \/ new.pc = "idle"
           \/ new.data = job[w].data /\ (new.pc = "write" \/ Stored(SaveName(w), job[w].data)')
    PROVE  KInv'
<1>1. job'[w] = new /\ \A v \in Workers \ {w} : job'[v] = job[v] BY OtherJobs DEF IInv
<1>2. MadeWifs' BY DEF KInv, MadeWifs
<1>3. PICK name : name = SaveName(w) OBVIOUS
<1>4. \A r \in known : r.name # name BY <1>3 DEF KInv, Owned
<1>5. KnownKept' BY <1>3, <1>4, KnownStays DEF KInv, KnownKept
<1>6. Owned'
  <2>1. \A v \in Workers : job'[v].pc \in {"save", "write", "reply"} =>
               Holds(v) /\ job'[v].data = job[v].data
    BY <1>1 DEF Holds
  <2> QED BY <2>1, OwnedStays DEF KInv
<1>7. Written'
  <2>1. ASSUME NEW v \in Workers, v # w, job'[v].pc = "reply"
        PROVE  job'[v] = job[v] /\ SaveName(v) # name
    <3>1. job'[v] = job[v] /\ Holds(v) BY <1>1, <2>1 DEF Holds
    <3> QED BY <1>3, <2>1, <3>1 DEF KInv, Owned
  <2>2. job'[w].pc = "reply" => Stored(SaveName(w), job[w].data)' BY <1>1
  <2> QED BY <1>3, <2>1, <2>2, WrittenStays DEF KInv
<1> QED BY <1>2, <1>5, <1>6, <1>7 DEF KInv

\* A thread that goes on in genPrivateKey keeps the data it writes.
LEMMA GotoData ==
    ASSUME JobsSafe, NEW w \in Workers, Holds(w), NEW next, Goto(w, next)
    PROVE  \E new : job' = [job EXCEPT ![w] = new] /\ new.pc = next /\ new.data = job[w].data
<1>1. PICK old, d, p : job[w] = [pc |-> old, data |-> d, password |-> p]
  <2>1. Saving(w) BY DEF JobsSafe, Holds
  <2> QED BY <2>1 DEF Saving
<1>2. PICK new : new = [job[w] EXCEPT !.pc = next] OBVIOUS
<1>3. job' = [job EXCEPT ![w] = new] BY <1>2 DEF Goto
<1>4. new.pc = next /\ new.data = d BY <1>1, <1>2
<1>5. job[w].data = d BY <1>1
<1> QED BY <1>3, <1>4, <1>5

\* Each key that was handed out has its file.
LEMMA KnownStored ==
    ASSUME KnownKept, NEW r \in known
    PROVE  \E d : Stored(r.name, d)
<1>1. ASSUME NEW key, NEW a, NEW wif, NEW p, r = Relied(a, wif, p, key) PROVE r.name = key
  BY <1>1 DEF Relied
<1>2. CASE Generated(r)
  <2>1. PICK key \in Keys, password \in Passwords :
          LET wif == CreateWIF(key, TRUE)
          IN  /\ r = Relied(getAddress(wif), wif, password, NameOf(key))
              /\ Stored(NameOf(key), FileData(encryptWif(wif, password), getAddress(wif)))
    BY <1>2 DEF Generated
  <2> QED BY <1>1, <2>1
<1>3. CASE Imported(r)
  <2>1. PICK key \in Keys, isCompressed \in BOOLEAN, password \in Passwords :
          LET wif == CreateWIF(key, isCompressed)
          IN  /\ r = Relied(getAddress(wif), wif, password, ImportName(key, isCompressed))
              /\ Stored(ImportName(key, isCompressed),
                        FileData(encryptWif(wif, password), NoAddress))
    BY <1>3 DEF Imported
  <2> QED BY <1>1, <2>1
<1> QED BY <1>2, <1>3 DEF KnownKept

\* Nobody learns that the stream did not open; the file counts as harmed.
LEMMA SaveKnown ==
    ASSUME IInv, KInv, NEW w \in Workers, Save(w)
    PROVE  KInv'
<1>1. Holds(w) /\ UNCHANGED <<made, known>> BY DEF Save, Holds
<1>2. CASE job' = [job EXCEPT ![w] = Idle] /\ UNCHANGED <<files, harmed>>
  <2>1. Idle.pc = "idle" /\ Apart(SaveName(w)) BY <1>2 DEF Idle, Apart
  <2> QED BY <1>1, <1>2, <2>1, SavingKnown
<1>3. ASSUME NEW next \in {"write", "reply"}, Goto(w, next) PROVE
        \E new : job' = [job EXCEPT ![w] = new] /\ new.pc = next /\ new.data = job[w].data
  BY <1>1, <1>3, GotoData DEF IInv
<1>4. CASE Goto(w, "reply") /\ harmed' = harmed \cup {SaveName(w)} /\ UNCHANGED files
  <2>1. PICK new : job' = [job EXCEPT ![w] = new] /\ new.pc = "reply" /\ new.data = job[w].data
    BY <1>3, <1>4
  <2>2. SaveName(w)' = SaveName(w) BY <2>1, OtherJobs DEF SaveName, IInv
  <2>3. Apart(SaveName(w)) /\ Stored(SaveName(w), job[w].data)'
    BY <1>4, <2>2 DEF Apart, Stored
  <2> QED BY <1>1, <2>1, <2>3, SavingKnown
<1>5. CASE Goto(w, "write") /\ WriteFile(SaveName(w), EmptyFile) /\ UNCHANGED harmed
  <2>1. PICK new : job' = [job EXCEPT ![w] = new] /\ new.pc = "write" /\ new.data = job[w].data
    BY <1>3, <1>5
  <2>2. Apart(SaveName(w)) BY <1>5 DEF Apart
  <2> QED BY <1>1, <2>1, <2>2, SavingKnown
<1> QED BY <1>2, <1>4, <1>5 DEF Save

\* The file holds all the data, or counts as harmed.
LEMMA WriteKnown ==
    ASSUME IInv, KInv, NEW w \in Workers, Write(w)
    PROVE  KInv'
<1>1. Holds(w) /\ UNCHANGED <<made, known>> BY DEF Write, Holds
<1>2. PICK new : job' = [job EXCEPT ![w] = new] /\ new.pc = "reply" /\ new.data = job[w].data
  BY <1>1, GotoData DEF IInv, Write
<1>3. PICK data \in Prefixes(job[w].data) :
        /\ WriteFile(SaveName(w), data)
        /\ harmed' = IF data = job[w].data THEN harmed ELSE harmed \cup {SaveName(w)}
  BY DEF Write
<1>4. SaveName(w)' = SaveName(w) /\ job'[w].data = job[w].data
  BY <1>2, OtherJobs DEF SaveName, IInv
<1>5. Stored(SaveName(w), job[w].data)'
  <2>1. CASE data = job[w].data
    <3>1. SaveName(w) \in DOMAIN files' /\ files'[SaveName(w)] = data BY <1>3 DEF WriteFile
    <3> QED BY <1>4, <2>1, <3>1 DEF Stored
  <2>2. CASE data # job[w].data BY <1>3, <1>4, <2>2 DEF Stored
  <2> QED BY <2>1, <2>2
<1>6. Apart(SaveName(w)) BY <1>3 DEF Apart
<1> QED BY <1>1, <1>2, <1>5, <1>6, SavingKnown

\* generate answers with an address whose file has been written.
LEMMA ReplyKnown ==
    ASSUME IInv, KInv, NEW w \in Workers, Reply(w)
    PROVE  KInv'
<1>1. /\ job[w].pc = "reply" /\ Holds(w) /\ UNCHANGED <<files, made, harmed>>
      /\ job' = [job EXCEPT ![w] = Idle]
  BY DEF Reply, Holds
<1>2. Saving(w) BY <1>1 DEF IInv, JobsSafe
<1>3. PICK key \in Keys, password \in Passwords :
        LET wif == CreateWIF(key, TRUE)
        IN  /\ SaveName(w) = NameOf(key) /\ job[w].password = password
            /\ job[w].data = FileData(encryptWif(wif, password), getAddress(wif))
            /\ job[w].data.address = getAddress(wif)
            /\ [wif |-> wif, password |-> password] \in made
  BY <1>2, HeldData
<1>4. PICK wif : wif = CreateWIF(key, TRUE) OBVIOUS
<1>5. PICK m \in made :
        /\ getAddress(m.wif) = getAddress(wif)
        /\ known' = known \cup {Relied(getAddress(wif), m.wif, password,
                                       convertAddressToFileName(getAddress(wif)))}
  BY <1>3, <1>4 DEF Reply
<1>6. m.wif = wif
  <2>1. PICK other \in Keys, form \in BOOLEAN : m.wif = CreateWIF(other, form)
    BY DEF KInv, MadeWifs
  <2>2. getAddress(CreateWIF(other, form)) = getAddress(CreateWIF(key, TRUE))
    BY <1>4, <1>5, <2>1
  <2>3. CreateWIF(other, form) = CreateWIF(key, TRUE)
    <3>1. ASSUME NEW yes \in BOOLEAN,
                 getAddress(CreateWIF(other, form)) = getAddress(CreateWIF(key, yes))
          PROVE  CreateWIF(other, form) = CreateWIF(key, yes)
      BY <3>1, AddressIsOwn
    <3> QED BY <2>2, <3>1
  <2> QED BY <1>4, <2>1, <2>3
<1>7. PICK new : new = Relied(getAddress(wif), wif, password, NameOf(key)) OBVIOUS
<1>8. known' = known \cup {new} BY <1>4, <1>5, <1>6, <1>7 DEF NameOf
<1>9. new.name = SaveName(w) BY <1>3, <1>7 DEF Relied
<1>10. MadeWifs' BY <1>1 DEF KInv, MadeWifs
<1>11. KnownKept'
  <2>1. ASSUME NEW r \in known PROVE (Generated(r) \/ Imported(r))'
    BY <1>1, <2>1 DEF KInv, KnownKept, Generated, Imported, Stored
  <2>2. Generated(new)'
    <3>1. Stored(NameOf(key), FileData(encryptWif(wif, password), getAddress(wif)))
      BY <1>1, <1>3, <1>4 DEF KInv, Written
    <3>2. Stored(NameOf(key), FileData(encryptWif(wif, password), getAddress(wif)))'
      BY <1>1, <3>1 DEF Stored
    <3> QED BY <1>1, <1>3, <1>4, <1>7, <3>2 DEF Generated
  <2> QED BY <1>8, <2>1, <2>2 DEF KnownKept
<1>12. job'[w] = Idle /\ \A v \in Workers \ {w} : job'[v] = job[v]
  BY <1>1, OtherJobs DEF IInv
<1>13. ASSUME NEW v \in Workers, Holds(v)' \/ job'[v].pc = "reply"
       PROVE  v # w /\ Holds(v) /\ job'[v] = job[v] /\ SaveName(v)' = SaveName(v)
  <2>1. v # w BY <1>12, <1>13 DEF Holds, Idle
  <2>2. job'[v] = job[v] BY <1>12, <2>1
  <2> QED BY <1>13, <2>1, <2>2 DEF Holds, SaveName
<1>14. Owned'
  <2> SUFFICES ASSUME NEW u \in Workers, Holds(u)'
               PROVE  /\ \A r \in known' : r.name # SaveName(u)'
                      /\ \A v \in Workers \ {u} : Holds(v)' => SaveName(v)' # SaveName(u)'
    BY DEF Owned
  <2>1. u # w /\ Holds(u) /\ SaveName(u)' = SaveName(u) BY <1>13
  <2>2. new.name # SaveName(u) BY <1>1, <1>9, <2>1 DEF KInv, Owned
  <2> QED BY <1>8, <1>13, <2>1, <2>2 DEF KInv, Owned
<1>15. Written' BY <1>1, <1>13 DEF KInv, Written, Stored
<1> QED BY <1>10, <1>11, <1>14, <1>15 DEF KInv

\* An imported key gets a file of its own, which no thread of genPrivateKey writes.
LEMMA ImportKnown ==
    ASSUME IInv, KInv, Import
    PROVE  KInv'
<1>1. PICK key \in Keys, isCompressed \in BOOLEAN, password \in Passwords :
        LET wif  == CreateWIF(key, isCompressed)
            name == toLower(getAddress(wif))
        IN  /\ name \notin DOMAIN files
            /\ WriteFile(name, FileData(encryptWif(wif, password), NoAddress))
            /\ made' = made \cup {[wif |-> wif, password |-> password]}
            /\ known' = known \cup {Relied(getAddress(wif), wif, password, name)}
            /\ UNCHANGED <<job, harmed>>
  BY DEF Import
<1>2. PICK wif, name : wif = CreateWIF(key, isCompressed) /\ name = ImportName(key, isCompressed)
  OBVIOUS
<1>3. PICK data : data = FileData(encryptWif(wif, password), NoAddress) OBVIOUS
<1>4. PICK new : new = Relied(getAddress(wif), wif, password, name) OBVIOUS
<1>5. /\ name \notin DOMAIN files /\ WriteFile(name, data)
      /\ made' = made \cup {[wif |-> wif, password |-> password]}
      /\ known' = known \cup {new} /\ UNCHANGED <<job, harmed>>
  BY <1>1, <1>2, <1>3, <1>4 DEF ImportName
<1>6. ASSUME NEW n, NEW d, Stored(n, d) PROVE Stored(n, d)'
  <2>1. n # name \/ n \in harmed' BY <1>5, <1>6 DEF Stored
  <2> QED BY <1>5, <1>6, <2>1, StoredStays
<1>7. MadeWifs'
  <2>1. [wif |-> wif, password |-> password].wif = wif OBVIOUS
  <2> QED BY <1>2, <1>5, <2>1 DEF KInv, MadeWifs
<1>8. KnownKept'
  <2>1. ASSUME NEW r \in known PROVE (Generated(r) \/ Imported(r))'
    <3>1. Apart(name) /\ made \subseteq made' BY <1>5 DEF Apart
    <3>2. ASSUME NEW s \in known PROVE s.name # name \/ name \in harmed'
      <4>1. ASSUME NEW d, Stored(s.name, d) PROVE s.name # name \/ name \in harmed'
        BY <1>5, <4>1 DEF Stored
      <4>2. \E d : Stored(s.name, d) BY KnownStored DEF KInv
      <4> QED BY <4>1, <4>2
    <3> QED BY <2>1, <3>1, <3>2, KnownStays DEF KInv
  <2>2. Imported(new)'
    <3>1. Stored(name, data)' BY <1>5 DEF Stored, WriteFile
    <3> QED BY <1>2, <1>3, <1>4, <3>1 DEF Imported, Stored
  <2> QED BY <1>5, <2>1, <2>2 DEF KnownKept
<1>9. Owned'
  <2>1. \A v \in Workers : Holds(v)' = Holds(v) /\ SaveName(v)' = SaveName(v)
    BY <1>5 DEF Holds, SaveName
  <2>2. new.name = name BY <1>4 DEF Relied
  <2>3. ASSUME NEW v \in Workers, Holds(v) PROVE SaveName(v) # name
    <3>1. Saving(v) BY <2>3 DEF IInv, JobsSafe, Holds
    <3> QED BY <1>2, <3>1, HeldData, NamesDiffer
  <2> QED BY <1>5, <2>1, <2>2, <2>3 DEF KInv, Owned
<1>10. Written'
  <2> SUFFICES ASSUME NEW v \in Workers, job[v].pc = "reply"
               PROVE  Stored(SaveName(v), job[v].data)'
    BY <1>5 DEF Written
  <2>1. PICK n, d : n = SaveName(v) /\ d = job[v].data OBVIOUS
  <2>2. Stored(n, d)' BY <1>6, <2>1 DEF KInv, Written
  <2>3. SaveName(v)' = n /\ job'[v].data = d BY <1>5, <2>1 DEF SaveName
  <2> QED BY <2>2, <2>3 DEF Stored
<1> QED BY <1>7, <1>8, <1>9, <1>10 DEF KInv

\* A file that is damaged is harmed.
LEMMA DamageKnown ==
    ASSUME IInv, KInv, Damage
    PROVE  KInv'
<1>1. PICK name, data : /\ WriteFile(name, data) /\ harmed' = harmed \cup {name}
                        /\ UNCHANGED <<job, made, known>>
  BY DEF Damage
<1>2. Apart(name) /\ name \in harmed' BY <1>1 DEF Apart
<1>3. MadeWifs' BY <1>1 DEF KInv, MadeWifs
<1>4. KnownKept' BY <1>1, <1>2, KnownStays DEF KInv, KnownKept
<1>5. Owned' BY <1>1 DEF KInv, Owned, Holds, SaveName
<1>6. Written' BY <1>1, <1>2, WrittenStays DEF KInv
<1> QED BY <1>3, <1>4, <1>5, <1>6 DEF KInv

\* Every step keeps what was handed out.
LEMMA NextKnown == IInv /\ KInv /\ [Next]_vars => KInv'
<1> SUFFICES ASSUME IInv, KInv, [Next]_vars PROVE KInv' OBVIOUS
<1>1. ASSUME NEW w \in Workers, FindPath(w) \/ Load(w) \/ Loaded(w) PROVE KInv'
  <2>1. PICK new : job' = [job EXCEPT ![w] = new] /\ new.pc \notin {"save", "write", "reply"}
    BY <1>1 DEF FindPath, Load, Loaded, Idle
  <2>2. job'[w] = new /\ \A v \in Workers \ {w} : job'[v] = job[v] BY <2>1, OtherJobs DEF IInv
  <2>3. UNCHANGED <<files, made, known, harmed>> BY <1>1 DEF FindPath, Load, Loaded
  <2> QED BY <2>1, <2>2, <2>3, QuietKnown
<1>2. CASE Crash
  <2>1. \A v \in Workers : job'[v].pc \notin {"save", "write", "reply"} BY <1>2 DEF Crash, Idle
  <2> QED BY <1>2, <2>1, QuietKnown DEF Crash
<1>3. CASE UNCHANGED vars BY <1>3, QuietKnown DEF vars
<1> QED BY <1>1, <1>2, <1>3, GenerateKnown, SaveKnown, WriteKnown, ReplyKnown, ImportKnown,
           DamageKnown DEF Next

\* What is known opens where it is looked for.
LEMMA KeptOpens == KInv => KnownOpens
<1> SUFFICES ASSUME KInv, NEW r \in known, NEW mixed \in BOOLEAN, r.name \notin harmed,
                    ~(r.name # toLower(r.address) /\ toLower(r.address) \in DOMAIN files)
             PROVE  Wallet(loadFile(getFullPath([r.address EXCEPT !.mixed = mixed])), r.password)
                      = r.wif
  BY DEF KnownOpens
<1>1. ASSUME NEW key, NEW form
      PROVE  LET address == getAddress(CreateWIF(key, form))
                 asked   == [address EXCEPT !.mixed = mixed]
             IN  /\ toLower(asked) = toLower(address)
                 /\ convertAddressToFileName(asked) = convertAddressToFileName(address)
  BY DEF toLower, convertAddressToFileName, getAddress, Address
<1>2. CASE Generated(r)
  <2>1. PICK key \in Keys, password \in Passwords :
          LET wif == CreateWIF(key, TRUE)
          IN  /\ r = Relied(getAddress(wif), wif, password, NameOf(key))
              /\ Stored(NameOf(key), FileData(encryptWif(wif, password), getAddress(wif)))
    BY <1>2 DEF Generated
  <2>2. PICK wif : wif = CreateWIF(key, TRUE) OBVIOUS
  <2>3. /\ r.address = getAddress(wif) /\ r.wif = wif /\ r.password = password
        /\ r.name = NameOf(key)
    BY <2>1, <2>2 DEF Relied
  <2>4. toLower(r.address) \notin DOMAIN files
    BY <2>2, <2>3, NamesDiffer DEF ImportName
  <2>5. getFullPath([r.address EXCEPT !.mixed = mixed]) = NameOf(key)
    BY <1>1, <2>2, <2>3, <2>4 DEF getFullPath, NameOf
  <2>6. loadFile(NameOf(key)) = FileData(encryptWif(wif, password), getAddress(wif))
    BY <2>1, <2>2, <2>3 DEF Stored, loadFile
  <2>7. Wallet(FileData(encryptWif(wif, password), getAddress(wif)), password) = wif
    <3>1. ASSUME NEW yes \in BOOLEAN, wif = CreateWIF(key, yes),
                 NEW a \in {NoAddress, getAddress(wif)}
          PROVE  Wallet(FileData(encryptWif(wif, password), a), password) = wif
      BY <3>1, OpensOwn
    <3> QED BY <2>2, <3>1
  <2> QED BY <2>3, <2>5, <2>6, <2>7
<1>3. CASE Imported(r)
  <2>1. PICK key \in Keys, isCompressed \in BOOLEAN, password \in Passwords :
          LET wif == CreateWIF(key, isCompressed)
          IN  /\ r = Relied(getAddress(wif), wif, password, ImportName(key, isCompressed))
              /\ Stored(ImportName(key, isCompressed),
                        FileData(encryptWif(wif, password), NoAddress))
    BY <1>3 DEF Imported
  <2>2. PICK wif : wif = CreateWIF(key, isCompressed) OBVIOUS
  <2>3. /\ r.address = getAddress(wif) /\ r.wif = wif /\ r.password = password
        /\ r.name = ImportName(key, isCompressed)
    BY <2>1, <2>2 DEF Relied
  <2>4. r.name \in DOMAIN files /\ files[r.name] = FileData(encryptWif(wif, password), NoAddress)
    BY <2>1, <2>2, <2>3 DEF Stored
  <2>5. getFullPath([r.address EXCEPT !.mixed = mixed]) = r.name
    BY <1>1, <2>2, <2>3, <2>4 DEF getFullPath, ImportName
  <2>6. Wallet(FileData(encryptWif(wif, password), NoAddress), password) = wif
    BY <2>2, OpensOwn
  <2> QED BY <2>3, <2>4, <2>5, <2>6 DEF loadFile
<1> QED BY <1>2, <1>3 DEF KInv, KnownKept

\* A key that was handed out can always be opened again, with its password and however
\* the letters of its address are written, whatever the other threads do and wherever
\* the process ended - unless its file was not written whole, was damaged later, or an
\* imported file goes before it.
THEOREM HandedOutOpens == Spec => []KnownOpens
<1>1. Init => KInv
  BY DEF Init, KInv, KnownKept, MadeWifs, Owned, Written, Holds, Idle
<1> QED BY <1>1, NextKnown, KeptOpens, Invariance, PTL DEF Spec
=============================================================================
