# A verification project for btc-lightnode-client

The program is a local JSON-RPC service: clients connect over HTTP, ask for a
wallet to be generated, for balances, histories and transactions, and the
service answers them with the help of an upstream JSON-RPC service and of key
files on disk. This directory models it in TLA+, checks small instances with
TLC and proves the central safety properties with TLAPS.

    tlc -workers 2 -config <file>.cfg <module>     # a run of PROJECT.json
    tlapm <module>Proofs.tla                       # the proofs

`PROJECT.json` lists the components, the runs, a mutant for every property of a
passing run, the source lines every definition models, the findings, the hazards
and the theorems.

## The system

| Part | State it keeps | Operations | Talks to |
|---|---|---|---|
| `main`, `input_handler` | the `server` pointer, the input thread | start, read "stop" | `http_server`, settings |
| `http_server` | `io_context`, acceptor, io threads, signal set | run, accept, check_access, stop, signal_handler | sessions |
| settings | global variables | read(), read(vm) | everyone |
| `http_session` | socket, buffer, request | run, process_request, send_json | handlers |
| task handlers | `m_reader`, `m_writer`, `m_result.pending`, `m_id` | prepare, execute, on_complete, on_get_transaction_params, build_request | sessions, upstream calls, wallet |
| `http_json_rpc_request` | sockets, `m_result`, `m_callback`, two timers | execute_async, on_resolve ... on_read, error_handler, two time-outs | handlers (callback), Timer |
| `utils::Timer` | `m_handler`, `m_promise`, `m_locker`, detached threads | start, stop, run_once | its owner (callback) |
| `BtcWallet` | a decrypted key | genPrivateKey, constructors, buildTransaction | key files, btctx |
| `btctx` | `m_Transfers` with offsets | AddTransfer, BuildTransaction | secp256k1, WIF, Base58 |
| json_rpc | a rapidjson document | get_id, set_*, reset, val2hex | |

Who runs what: io threads (as many as the setting `threads`) run accept handlers,
sessions and the completion handlers of upstream calls; every arming of a Timer
starts a detached thread; `boost::asio::post` without an executor runs a job on
the system executor, a thread pool of its own. There are no strands and, outside
of Timer, no locks.

What is hard here, and where the properties aim:

* three kinds of threads meet in one upstream call without a lock (time-out
  against answer, cancellation against connection, destruction against timer);
* objects are kept alive by `shared_ptr`s bound into handlers, in a cycle
  request -> callback -> handler -> request that only the callback's clearing
  breaks;
* a request is answered synchronously or later, by one of five paths, and the
  flag `pending` decides which;
* exceptions end in a reply, in silence, or in the end of the process, depending
  on which try block encloses them;
* a fee depends on a size that depends on the fee;
* the offsets of scripts inside a transaction move while it is being signed;
* amounts are signed in one class and unsigned in the next, and wrap;
* an address is checked in one place and turned into a script in another;
* a connection is read into a buffer that may hold the beginning of the next
  request, and is written to by two kinds of threads without a queue;
* start and stop race with each other in `main`.

## Modules

| Module | Models | Correspondence |
|---|---|---|
| `Timer` | `utils::Timer` | `m_handler` is a Boolean (set or not), `thr` the detached threads. `m_locker` is held across steps only by a thread that runs the handler, so it is not a variable. |
| `HttpJsonRpcRequest` | one `http_json_rpc_request` | Two instances of `Timer`. `op`/`ec` are the outstanding operation and how it ended, `io`, `tpc`, `cpc` the program counters of the handler chain and of the two time-out handlers. A handler is cut where another thread can come in between: before a lock, between two accesses to `m_result` or `m_callback`, around a blocking shutdown. |
| `AsyncCall` | the abstract specification of an upstream call | one outcome per call. |
| `HttpJsonRpcRequestProofs` | | the theorems about it |
| `HttpSession` | the bytes of one `http_session` | `net`, `m_buf`, `parsed` are the cells of requests on the wire, in the buffer and in the parser; `answer` and `writing[k]` the next piece of the reply that process_request and that a posted job writes. Its client may pipeline. What a handler answers is not modelled, only when: at once, later, twice (`twice`, first finding) or never (`mute`, a handler that throws when it has said that its result is pending). |
| `HttpSessionProofs` | | the theorems about it |
| `RpcSession` | one client connection and the handlers of its requests | `writer[i]` is `m_writer` of the handler of request i, `posts` the jobs of the system executor, `call[i]` the upstream call the handler waits for. `onstack` is the request whose handler has started a call and has not yet returned to `process_request`: what it still reads of `m_writer` another thread may be writing (`raced`). Of a document the model knows the outcome, the id, whether it holds members of the request that was built for the upstream service, and whether on_complete has copied others from the answer (`copied`). Upstream calls are `AsyncCall`s. |
| `RpcSessionProofs` | | the theorems about it |
| `BtcWallet` | `buildTransaction`, `encode`, `greedyAlg` | local variables under their names; one turn of each loop per step. A UTXO is its value, a signed transaction its size. `Signed` and `Unsigned` are the conversions to `int64_t` and `uint64_t`, whose width is the constant `MaxInt`. |
| `BtcWalletProofs` | | the theorems about it |
| `CreateTx` | what happens to the amounts of a create-tx request before `buildTransaction` | `val2hex`, `stoul` as changes of form. Extends `BtcWallet`. |
| `BtcTx` | `buildSignedDump`, `removeScripts`, `signAllInputs` | strings of bytes; a byte is named after its field, and has a value where it is a length. |
| `BtcTxProofs` | | the theorems about it |
| `Payment` | `genTransaction`, `AddTransfer` and the outputs of `buildSignedDump`, with `checkAddressBase56` and `AddressToPubkeyScript` | an address is a text that decodes to size, network byte, hash and checksum, or does not decode; a script is what it pays. The length of a public key chooses between the two functions that make its address, each of which refuses the other's. `hexes` says whether the hashes and scripts of the inputs are hexadecimal. Extends `Wif`. |
| `Wif` | keys, addresses and encrypted keys of wif.cpp | constant operators; a hash is the record it was computed from, decryption with a wrong key gives `Garbage`. |
| `WalletStore` | key files: `genPrivateKey`, the constructors of `BtcWallet`, FileSystem.cpp | `files` is the wallet folder, `job[w]` what an io thread does; an address is its stem, its last three characters and its letters' case, which is what file names are made of. `made`, `known`, `harmed` are history. Extends `Wif`. |
| `WalletStoreProofs` | | the theorems about it |
| `Base58` | `EncodeBase58BTC`, `DecodeBase58` | one step per byte or character; `buf` is the buffer from its end. |
| `AddressProofs` | | the theorems about `Base58` and about `Payment`, whose names are distinct so that both can be extended |
| `Service` | `main`, `input_handler`, `http_server`, signals | one program counter per thread; a connection is open or not. |
| `ServiceProofs` | | the theorems about it |
| `Settings` | `settings::read` | where the value of each setting comes from. |
| `MC*` | | constants for TLC |

How they compose: `HttpJsonRpcRequest` instantiates `Timer` twice and implements
`AsyncCall` (checked and proved); `RpcSession` relies on `AsyncCall` (one return
per call) and, for its liveness, on `Answered`; `Service` relies on `RpcSession`
for what a session can do to a thread; `BtcTx` assumes at least one input, which
`BtcWallet` proves; `CreateTx` feeds `BtcWallet`; `HttpSession` shows for which
clients `RpcSession` may treat requests and replies as units; `Payment` takes the
wallet that `WalletStore` opened and says what the outputs of `BtcTx` hold;
`WalletStore` is what a valid `params` of `RpcSession` means for a password, and its
`generate`.

## Runs

| Run | Bounds | What it shows |
|---|---|---|
| `request` | plain and https; 1 request timer thread, 2 connect timer threads | An upstream call. The code arms the request timer once and the connect timer once, plus once more from its own handler, so these are all the threads there are. No race on the result (`NoResultRace`), no timer thread is the last owner (`TimerNotLastOwner`), a late connect time-out hits nothing else (`CancelOnlyWhileConnecting`), re-arming is inert (`RearmIsInert`), the call is an `AsyncCall`. A plain call is always answered and destroyed (`Released`). The time-outs do not reach the socket of an https call: only `m_socket` is closed or cancelled, and the SSL stream has a socket of its own. What holds for both is `Answered` (as long as blocking shutdowns return) and `TimeoutAnswers` (a time-out reports in any case, because it reports before it shuts down). |
| `session` | 2 requests | One connection, requests of every kind that do not trigger the finding below. Two requests are enough for a reply to be taken for another's. A handler may be overtaken by the completion of the call it has started: whatever it reads, a reply has one outcome (`OneOutcome`). |
| `session_double_reply` | 2 requests | Violation, first finding. |
| `session_bytes` | 3 requests of a head and 2 cells, replies of 2 pieces | Every way the bytes can arrive and be written. `process_request` never sees anything but one whole body. That holds as long as no body itself reads like a request (`headlike`): if run() has thrown away the beginning of such a one, the rest is taken for a request. run() throws away what it has read of the next request: that loses requests a client sent early, and nothing else (`NothingLost`). A client that waits gets its replies whole and in order (`RepliesWhole`). Both leave out connections on which a request was answered twice (first finding): the two replies are written by two threads at once, and the client takes the second for the answer to its next request. A connection given up because of bytes thrown away still delivers the replies under way (`AnsweredIfWaited`). Three requests are one that is lost between two that are not; two cells are a body of which half has come. |
| `wallet` | up to 3 UTXOs of 4 values, 5 values, 4 fees, 3 estimates; the largest `int64_t` is 2^22 - 1, with amounts at and above it | `buildTransaction` with decimal amounts. 1256 - 1000 is the fee of a transaction with one input and two outputs: the instance contains sizes and fees that swing until the ten turns are used up. Amounts that wrap are refused by the unsigned comparison of buildSignedDump where encode's signed one lets them through: what is signed is covered by its inputs (`FundsCovered`). The width is chosen so that an estimate times a size stays in TLC's integers. |
| `createtx_amounts` | documented requests | Violation, second finding. |
| `signing` | up to 3 inputs, scripts of 0, 25, 252, 253 bytes, 2 sizes of signatures | Offsets against a transaction written in one go. 253 is where a length takes three bytes; three inputs are one that moves twice. |
| `wallet_files` | 2 keys, 2 passwords, 2 io threads, 3 requests, `MaxImports` and `MaxHarmed` 1 | A key that is generated while another thread generates or opens one, with a crash, a short write or a damaged file in between. Two keys are one and another; a second import or damage repeats the first. |
| `base58` | all texts of up to 3 bytes or 4 characters at the edges; the largest number of every length up to 43 bytes, 58 characters | 43 bytes and 58 characters are an encrypted key, the longest the program handles by itself. Numbers are compared modulo three primes, which is exact up to 5 bytes. |
| `payment` | 1 key in both forms, 2 hashes, 5 network bytes, texts of 24 to 26 bytes, up to 2 inputs | A mistyped address is never paid, a correct one of the main network always is, change returns to the address that was handed out, for both lengths of public keys. |
| `service` | 2 io threads, 2 clients | Start, accept loop, signals and stop. One client has access, one has not. Once the threads have been started, only a client brings the process down (`OnlyClientsCrash`): stop cannot, as `server` was assigned before. |
| `settings_server` | all options | Violation, third finding. |

The `wallet` run looks at `buildTransaction` by itself. Reached through create-tx
or send-tx it is, today, never given a decimal amount (second finding); the
properties are those of the component, and of the service once the amounts get
through.

### Fairness

* `HttpJsonRpcRequest`: threads run and time passes; a resolver and a TCP connect
  end by themselves, because the operating system gives up. Nothing makes an
  upstream peer answer a handshake, a write or a read, or let an SSL shutdown
  return.
* `RpcSession`: io threads and the system executor run, and an upstream call
  returns, which is `Answered` above. Nothing makes a client send or hang up.
* `HttpSession`: the network delivers what a client has sent, process_request
  returns, calls that are pending end (`EventuallyAnswered` of `RpcSession`),
  threads run and writes return. Nothing makes a client send, and a handler that
  throws after its result was said to be pending leaves its request without a
  reply (`NoReply`; `threw` in `RpcSession`).
* `BtcWallet`: the function runs.
* `Service`: main, the input thread and the io threads run. A waiting connection is
  accepted if it could be again and again (strong fairness: accept takes them in
  order, and does not fail for ever). Nothing makes a user type or a signal come.

### Findings

1. A create-tx or send-tx request that fails in `prepare_params` before `pending`
   is set is answered twice: the catch block posts the error and
   `process_request` sends it as well (`RpcSession`, `OneReply`; in `HttpSession`
   the action `ReplyTwice`).
2. The amounts the README documents for create-tx and send-tx never reach the
   wallet as such: `val2hex` makes them 0x strings, `buildTransaction` takes
   decimal ones, and the estimated fee is read as 0 (`CreateTx`,
   `DocumentedAmounts`).
3. The option `--server` is declared and never looked up (`Settings`,
   `ServerOption`).

## Proofs

All theorems hold for every value of the constants: plain and https calls, any
number of timer threads, io threads and clients, any amounts, sizes and UTXOs, any
number of requests, inputs and bytes. All 31 invariants that runs check are
proved, and the refinement of `AsyncCall`.

**HttpJsonRpcRequestProofs.** `NoResultRace` is not inductive. What makes it one is
a description of the whole protocol: which of the two timers can be armed at
which point of the chain (`m_timer` between on_connect and the first stop(),
`m_connect_timer` between on_resolve and on_connect), that a thread is running a
handler exactly when the handler's program counter says so, that at most one
does, and that m_callback is cleared after its one call. The io chain passes
stop() before it touches the result, and stop() waits for a running handler;
after it, no thread can fire, because m_handler is empty. From this invariant:
`TypeCorrect` (with it, at most one call of the callback), `ResultRaceFree`,
`TimerNeverLastOwner`, `CancelSafe`, `RearmInert`, and `Refinement`: every step is
a step of `AsyncCall` or a stutter.

**BtcWalletProofs.** `PaysRelayFee`: a transaction is only returned when its size is
within 30 bytes of the size the fee was computed from, and the fee is at least
that size plus 30. The invariant carries fees >= oldSize + 30 through the turn.
`NeverSignsNothing`: the fee of a transaction is positive and what it sends is not
negative, and neither can be as large as the unsigned width, so that their sum
does not wrap to 0 in the comparison of buildSignedDump: no inputs never are
enough money, for amounts up to the largest int64_t.
`WalletTypeCorrect` needs that the index greedyAlg picks lies in its vector.
`NeverOverspends`: encode compares numbers that may have wrapped; what it lets pass is
positive, not less than its fee and at most the largest int64_t (`SendReady`), so that
amount and fee together fit a uint64_t. buildSignedDump compares that sum with what the
inputs hold modulo 2^64, which is never more than what they hold.
`NoCoinTwice`: greedyAlg moves one element at a time from sortedVect to newUtxos, and each
turn of the fee loop starts from the UTXOs (`Conserved`, for every value).
`TakesFewest`: until the amount is reached, greedyAlg holds the m largest coins (`Searching`);
when it takes the one that completes the amount, the m - 1 largest were not enough
(`Reached`). No choice of fewer coins is worth more than that many of the largest (lemma
`LargestAreLast`, by induction along the sorted list). That the list is sorted is what
std::sort leaves (BtcWallet.cpp:147), and is the assumption `SortedAssumption`.

**RpcSessionProofs.** The invariant says of each request where its handler is and what
`m_writer` holds there (`Handler`), and of every document that was sent or that a job will
send that it is right (`DocOK`). A "result" is right only if nothing more will be asked of
the upstream service for its request (`Finished`): without this part the property does
not survive the next call of send-tx. From it `SessionTyped`, `SessionNoFalseSuccess`,
`SessionNoRequestEcho`, `SessionOneOutcome`, and `SessionDownOnlyAfter`.
`SessionRepliesInOrder` and `SessionOneReply` need a second invariant (`OneInFlight`): all
calls and jobs belong to the request that is answered next, and a posted reply is the last
of its steps. They are stated for sets of requests in which no create-tx or send-tx fails
in `prepare_params` (`NoEarlyFailure`; the request set of the run `session` is one), since
these are answered twice (first finding). The theorem thereby says that the finding is the
only way to get two replies.

**HttpSessionProofs.** `SessionReadsOneRequest`, for clients that pipeline as they like: run()
throws away what it has read beyond a request, so that the bytes to come may begin in the
middle of one. What is invariant is that each cell is followed by the rest of its request
(`Stream`) and that every head to come is later than all that was handled (`Unread`); a
parser that starts inside a request finds no head and gives up, unless the rest of a body reads
like a request: the theorem is about connections without such a body (`headlike = {}`).
`SessionNothingLost` and `SessionRepliesWhole` are about clients that wait and requests that
are not answered twice (first finding): `WaitInv` says in which of its phases
the last request is (coming, dropped for its size, processed, answered at once, pending,
answered by a job, left without a reply, done), that bodies and pieces of replies have come in order, and how
many pieces have been written in that phase.

**BtcTxProofs.** `HashesTheRightBytes`, `SignaturesInPlace`, `ChecksNeverFail`, for any number
of inputs and any sizes of scripts and signatures. `Writes(p, n, f)` is the transaction
that is written input by input with the script fields f, as a function p of how far it
has come; the reference `Serialized` is such a function (`SerializedWrites`). While it is
built, the dump is a prefix of it (`Building`). While it is signed, the template is all of
it, and the transaction is the one whose fields before i are signed, with each offset where
the field of its input begins (`Signing`). Two lemmas carry the argument: replacing a field
gives the transaction with the new field and moves the offsets behind it by the difference
of sizes (`ReplacedWrites`), and removeScripts, copying from input to input, gives the
transaction in which one input alone has its field (`Removal`).

**ServiceProofs.** `OneAccept` and `AcceptorOutlivesHandlers`: the invariant adds, for
each place where main can be, where the io threads can be; a thread enters the
accept handler only by taking the outstanding accept and leaves it by starting
the next. `OnlyStopEnds`: signal_handler does not wait for another signal, so that
after one only the accept loop keeps the io threads from running out of work;
by `OneAccept` an accept is outstanding or a thread is in its handler, hence
none returns from io_context::run before stop(). Input thread and main follow. The
theorem covers the setting `threads` = 0, which settings.json lets through: run()
then returns at once and nobody is served, but main still waits for stop.
`OnlyClientsBringDown`: `server` is assigned before main goes on to run(), so that stop never calls
through a null pointer from then on; a thread in the accept handler holds a peer that was
accepted, and only there, or in a session, an exception leaves a thread (`Owned`).

**AddressProofs.** First `Base58`, for texts of any length. `Pow(b)[n]`, `Num(d, b)[n]` and
`Low(d, b)[n]` are b^n, the number that the first n digits of d write with the highest
digit first, and the one with the lowest first.
* The buffers are large enough (`EncodeSize`, `DecodeSize`): 256^n <= 58^m for m = n * 138 / 100
  + 1, and 58^n <= 256^m for m = n * 733 / 1000 + 1. Both follow by induction from a few
  comparisons of powers that fit the estimates exactly or nearly so (8 bytes into 11
  characters, 71 characters into 52 bytes, and shorter blocks for the rest).
* One turn of the outer loop (`OneDigit`): what the inner loop writes, plus the carry times
  the power of the buffer's size, is the old number times the base plus the character
  (`MulAdd`, by induction along the buffer). Since the new number is below that power,
  the carry is 0 (`NoCarry`); since the digits above are 0, ending the loop at the first
  carry of 0 behind `length` leaves the number unchanged (`NothingAbove`).
* The invariant has two parts. `ReadInv` says where the text has been skipped as white
  space and as leading zeros and where it has been read; `HoldsInv` says that the buffer
  holds the number of what has been read, has zeros from `length` on, and that the carry
  is 0.
* `Refuses` follows from the first part, `ResultIsNumber` from both, and `Exact` from
  `ResultIsNumber`: the run compares remainders modulo some primes, the proof the numbers
  (`ValueModIs`). `DecodeUndoesEncode` is about what the two functions return: the
  text that EncodeBase58BTC returns is the text of no other bytes, and the bytes that
  DecodeBase58 returns are the only ones with the text it was given. It adds to
  `ResultIsNumber` that digits without leading zeros are determined by their number
  (`DigitsUnique`, `SameLength`).

The sizes are `int` in the code and have no width in the model. They would not fit for a
text of more than 1.5 GB; the limit of a request's body is far below.

Then `Payment`: `OnlyTheReceiverIsPaid`, `ChangeIsTheWallets`, `NoAddressIsRefused`. The
invariant carries the result of checkAddressBase56 from genTransaction to the step that
makes the scripts, which does not look at the checksum, and says that all transfers hold
the public key of the wallet in the form its address was made from, and that there is at
least one. The lemma `SenderScript` follows the branch on the length of that key: the CHECK of
the function it chooses holds.

**WalletStoreProofs.** `OpensOnlyItsOwn`, for any keys, passwords and io threads, with
crashes, short writes, imports and damage. The invariant says of every file that
what it decrypts to, with any password, is refused or was made with that password
and belongs to the file's name (`FilesSafe`), and of every io thread that the data
it is about to write or has read has the same property (`JobsSafe`). Damage keeps
it, because a damaged key fails the comparison with the salt. That comparison is
what the proof rests on (lemma `DecryptsOwn`).
`HandedOutOpens` is the converse: what was handed out can be opened. The invariant
(`KInv`) says that the file of a known address holds its key, unless harmed; that a thread in
saveToFile has its file to itself and nobody relies on it yet (`Owned`: names of generated
keys differ from each other and from names of imported ones); and that what is about to be
returned has been written or is harmed (`Written`).

Assumptions: `AnyConns` is a Boolean; sizes are natural numbers; the
access lists are sets of clients; `MaxInt` and `MaxInputs` are natural numbers; the
requests of `WalletStore` name addresses of its keys; `BtcTx` has at least one input, and
scripts and signatures of `SizesAssumption`; the requests of `HttpSession` have a body and its
replies are not empty; the UTXOs of `BtcWallet` are sorted; `Base58` is called with bytes or with
characters, and compares numbers modulo positive ones. TLC evaluates them in the runs.

Induction over data. The induction theorems of the library take an operator, which the
provers cannot instantiate; the proofs use instead that a set of natural numbers has a
smallest element (`Smallest`), in the form that a set with 0 and with k + 1 for each of its k
has all numbers up to n (`UpTo`). That is enough for sums, counts, serializations, powers and numbers in digits, which
are recursive functions: they are shown to exist (`Recursion` in `AddressProofs`), and then to
satisfy their equations.

The type invariants of `HttpJsonRpcRequest`, `RpcSession`, `BtcWallet` and `Service` are among what is
proved, and so are not checked by the runs.

Only model-checked: everything with `~>` or `<>` (`Released`, `Answered`,
`TimeoutAnswers`, `EventuallyAnswered`, `Terminates`, `StopEnds`,
`EveryoneHandled`, `AnsweredIfWaited`), which needs fairness.

## What is left out

* Memory that is touched after its end. The thread of a Timer captures it by
  reference; `Timer` sends a thread that is late to the state `wild`, and
  `BtcWallet` stops at `wild` when greedyAlg takes what lies before its vector for
  an element. Nothing is claimed beyond these states.
* What a data race does to a document: `base_handler::result` and the log line of
  `prepare` read `m_writer` while a completion handler may write it. In
  `RpcSession` the reader may crash (`down`); the text it reads is not used, since
  the request is pending, and the writer is assumed to finish undisturbed.
* How upstream writes a UTXO: the loop of `on_get_transaction_params` that reads them
  skips what lacks a field and takes text that is no number for 0. `BtcWallet`
  starts from values that have been read.
* `parse_address` but for its flag `m_use_ssl`, and what hex texts hold: strings that are cut
  or change their form, with no state. An address with both a port and a path leaves
  the path in the port, and for fetch and send calls execute() replaces the path by the
  method's name in any case; no document names such an address.
* What a client gets that sends the next request early: it may get no answer at
  all. `HttpSession` says which requests this can happen to.
* Cryptography: `Wif` takes hashes for injective and wrong passwords for noticed,
  where the code compares four bytes. That two addresses share a file name, or two
  generated keys are equal, is left out as well.
* A loss of power: data that saveToFile has written but nobody has synced. `Crash`
  ends the process, not the machine.
* Logging and vendored code;
  `ethtx` except the integers of a transaction; `-json_rpc.*`, which is not built;
  the synchronous `http_json_rpc_request::execute`, which nobody calls.

## Plan

Done, in this order: upstream call and timer with their proofs; session and
handlers; choice of coins and fee with its proofs; amounts; signing; service with
its proofs; settings; key files; Base58; the bytes of a session; races on a
handler's document; the widths of amounts; signals and a service without threads;
payment with its proofs; key files with their proofs; the proofs about sessions, their
bytes, signing, and the choice of coins; the proofs about Base58.

Next:

1. The loop that reads UTXOs, once the form upstream writes them in is documented.
