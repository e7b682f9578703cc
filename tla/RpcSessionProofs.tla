-------------------------- MODULE RpcSessionProofs --------------------------
(***************************************************************************)
(* What a client may rely on in the replies of its connection, for any     *)
(* number of requests and any set of requests it chooses from.             *)
(***************************************************************************)
EXTENDS RpcSession, TLAPS

ExecJob(i) == [job |-> "execute", req |-> i]

\* The upstream side of request i has come to its end: no call is out and no job
\* will make one.
Finished(i) == call[i] = "none" /\ ExecJob(i) \notin posts

\* Where the handler of request i is.  Each of its phases is entered from the one
\* before it only, and m_writer holds what that phase left in it.
Handler(i) ==
    /\ writer[i].req = i
    /\ i > read => Finished(i)
    /\ call[i] = "params" =>
        /\ sent[i].kind \in TxKinds /\ writer[i].body = {} /\ ~writer[i].outgoing
        /\ ExecJob(i) \notin posts
    /\ ExecJob(i) \in posts =>
        /\ sent[i].kind \in TxKinds /\ writer[i].body = {} /\ writer[i].outgoing
        /\ upstream[i] = "result" /\ call[i] = "none"
    /\ call[i] = "final" =>
        /\ sent[i].kind \in {"fetch", "send-tx"}
        /\ ExecJob(i) \notin posts

\* A document that was sent, or that a job will send.  A result is final: nothing
\* more is asked of the upstream service for that request.
DocOK(d) ==
    /\ d.req \in 1 .. read
    /\ "result" \in d.body /\ sent[d.req].kind # "generate" =>
        upstream[d.req] = "result" /\ Finished(d.req)
    /\ d.outgoing => sent[d.req].kind = "create-tx"
    /\ d.req \notin threw => \E b \in {"result", "error", "bad_request"} : d.body = {b}

Handlers == \A i \in Index : Handler(i)
Replies  == \A k \in DOMAIN received : DocOK(received[k])
Posted   == \A p \in posts : p.job = "send_json" => DocOK(p.doc)

IInv == TypeOK /\ Handlers /\ Replies /\ Posted

\* Requests for a transaction that fail in prepare_params are answered twice
\* (OneReply does not hold of them); the order of replies is claimed for the others.
NoEarlyFailure ==
    \A r \in Requests :
        r.kind \in TxKinds /\ r.id # "text" => r.params = "valid" /\ r.id # "zero"

\* Jobs and calls all belong to the request that is answered next, and a posted
\* reply is the last of them.
Turn == Len(received) + 1

OneInFlight ==
    /\ \A k \in DOMAIN sent : sent[k] \in Requests
    /\ Len(received) <= read /\ Len(sent) <= Turn
    /\ \A i \in Index : ~Finished(i) => i = Turn
    /\ \A p \in posts : p.job = "send_json" => p.doc.req = Turn /\ Finished(Turn)
    /\ \A p, q \in posts : p.job = "send_json" /\ q.job = "send_json" => p = q

OInv == RepliesInOrder /\ OneInFlight

-----------------------------------------------------------------------------
(* Types.                                                                  *)

\* Before the first request there is nothing to say.
LEMMA InitIInv == Init => IInv
<1> SUFFICES ASSUME Init PROVE IInv OBVIOUS
<1>1. \A i \in Index : EmptyDoc(i) \in Docs BY DEF EmptyDoc, Docs
<1>2. writer \in [Index -> Docs] BY <1>1 DEF Init
<1>3. call \in [Index -> Calls] /\ upstream \in [Index -> Returns] BY DEF Init, Calls, Returns
<1>4. TypeOK
  <2>1. sent \in Seq(AllRequests) /\ Len(sent) <= N /\ read \in 0 .. Len(sent)
    BY NAssumption DEF Init
  <2>2. received \in Seq(Docs) BY DEF Init
  <2>3. configured \in BOOLEAN /\ closed \in BOOLEAN /\ down \in BOOLEAN BY DEF Init
  <2>4. /\ posts \subseteq Jobs /\ threw \subseteq Index
        /\ onstack \in {0} \cup Index /\ raced \subseteq Index
    BY DEF Init
  <2> QED BY <1>2, <1>3, <2>1, <2>2, <2>3, <2>4 DEF TypeOK
<1>5. Handlers BY NAssumption DEF Init, Handlers, Handler, Finished, EmptyDoc, Index
<1> QED BY <1>4, <1>5 DEF Init, IInv, Replies, Posted

\* What the handlers put into m_writer is a document of their request.
LEMMA DocTypes ==
    ASSUME NEW i \in Index
    PROVE  /\ EmptyDoc(i) \in Docs /\ Prepared(i) \in Docs
           /\ \A d \in Docs : /\ reset(d) \in Docs /\ Error(d) \in Docs
                             /\ \A b \in {"result", "error", "bad_request"} :
                                   /\ [d EXCEPT !.body = {b}] \in Docs
                                   /\ [d EXCEPT !.body = @ \cup {b}] \in Docs
                             /\ [d EXCEPT !.outgoing = TRUE] \in Docs
BY DEF EmptyDoc, Prepared, Docs, reset, Error

\* send_response keeps the types.
LEMMA SendType ==
    ASSUME TypeOK, NEW d \in Docs, send_response(d)
    PROVE  received' \in Seq(Docs) /\ down' \in BOOLEAN
BY SMTT(20) DEF TypeOK, send_response

\* So does the next read,
LEMMA ReadingType ==
    ASSUME TypeOK, NEW i \in Index, Reading(i), UNCHANGED sent
    PROVE  read' \in 0 .. Len(sent')
BY DEF TypeOK, Reading, Index

\* and what is posted to the io_context.
LEMMA PostType ==
    ASSUME TypeOK, NEW d \in Docs, PostSend(d)
    PROVE  posts' \subseteq Jobs
BY DEF TypeOK, PostSend, Jobs

-----------------------------------------------------------------------------
(* What every step keeps: requests stay what they are, and a request that  *)
(* is finished stays so.                                                   *)

Keeps ==
    /\ read <= read' /\ threw \subseteq threw'
    /\ \A k \in 1 .. read :
        /\ sent'[k] = sent[k]
        /\ Finished(k) => Finished(k)' /\ upstream'[k] = upstream[k]

\* A document stays right in such a step.
LEMMA KeepDocs ==
    ASSUME IInv, TypeOK', Keeps, NEW d \in Docs, DocOK(d)
    PROVE  DocOK(d)'
BY DEF IInv, TypeOK, Keeps, DocOK

\* send_response appends to the replies or loses the document.
LEMMA RepliesSent ==
    ASSUME IInv, TypeOK', Keeps, NEW d \in Docs, send_response(d), DocOK(d)'
    PROVE  Replies'
<1>1. CASE UNCHANGED received
  BY <1>1, KeepDocs DEF IInv, Replies, TypeOK
<1>2. CASE received' = Append(received, d)
  BY <1>2, KeepDocs DEF IInv, Replies, TypeOK
<1> QED BY <1>1, <1>2 DEF send_response

\* A step that sends nothing.
LEMMA RepliesKept ==
    ASSUME IInv, TypeOK', Keeps, UNCHANGED received
    PROVE  Replies'
BY KeepDocs DEF IInv, Replies, TypeOK

\* Jobs are added one at a time.
LEMMA PostedKept ==
    ASSUME IInv, TypeOK', Keeps,
           \A p \in posts' : p \in posts \/ p.job = "execute" \/ DocOK(p.doc)'
    PROVE  Posted'
BY KeepDocs DEF IInv, Posted, TypeOK, Jobs

-----------------------------------------------------------------------------
(* One lemma per action.                                                   *)

\* One lemma for each action.  The client sends a request,
LEMMA ClientSendsStep ==
    ASSUME IInv, ClientSends
    PROVE  IInv'
<1> USE DEF IInv, ClientSends, stack
<1>1. PICK r \in Requests : sent' = Append(sent, r) OBVIOUS
<1>2. \A k \in 1 .. Len(sent) : sent'[k] = sent[k] BY <1>1 DEF TypeOK
<1>3. TypeOK'
  <2>1. sent' \in Seq(AllRequests) /\ Len(sent') = Len(sent) + 1
    BY <1>1, RequestsAssumption DEF TypeOK
  <2>2. Len(sent') <= N /\ read' \in 0 .. Len(sent') BY <2>1, NAssumption DEF TypeOK
  <2> QED BY <2>1, <2>2 DEF TypeOK
<1>4. \A i \in Index : Finished(i)' <=> Finished(i) BY DEF Finished
<1>5. Keeps BY <1>2, <1>4, NAssumption DEF Keeps, TypeOK, Index
<1>6. Handlers'
  <2> SUFFICES ASSUME NEW i \in Index PROVE Handler(i)' BY DEF Handlers
  <2>1. Handler(i) BY DEF Handlers
  <2>2. CASE i <= read
    BY <1>2, <1>4, <2>1, <2>2 DEF Handler, TypeOK, Index
  <2>3. CASE i > read
    BY <1>4, <2>1, <2>3 DEF Handler, Finished, TypeOK, Index
  <2> QED BY <2>2, <2>3 DEF TypeOK, Index
<1> QED BY <1>3, <1>5, <1>6, RepliesKept, PostedKept

\* or closes the connection.
LEMMA ClientClosesStep ==
    ASSUME IInv, ClientCloses
    PROVE  IInv'
<1> USE DEF IInv, ClientCloses, stack
<1>1. TypeOK' BY DEF TypeOK
<1>2. Keeps BY DEF Keeps, Finished, TypeOK
<1>3. Handlers' BY DEF Handlers, Handler, Finished
<1> QED BY <1>1, <1>2, <1>3, RepliesKept, PostedKept

\* The io thread reads a request: its handler has not begun, and every other one
\* stays as it is.
LEMMA ReadingKeeps ==
    ASSUME IInv, NEW i \in Index, Reading(i), UNCHANGED <<sent, upstream>>,
           threw \subseteq threw',
           \A k \in Index \ {i} : Finished(k) => Finished(k)'
    PROVE  Keeps /\ Finished(i) /\ i = read + 1 /\ read' = i
BY NAssumption DEF IInv, TypeOK, Reading, Keeps, Handlers, Handler, Index

\* A request that is answered at once.
LEMMA AtOnce ==
    ASSUME IInv, TypeOK', NEW i \in Index, Reading(i),
           sent' = sent, upstream' = upstream, call' = call,
           \A k \in Index : ExecJob(k) \in posts' <=> ExecJob(k) \in posts,
           \A k \in Index \ {i} : writer'[k] = writer[k],
           writer'[i].req = i
    PROVE  Handlers'
<1>1. \A k \in Index : Finished(k)' <=> Finished(k)
  BY DEF Finished, ExecJob
<1>2. Finished(i) /\ i = read + 1 /\ read' = i
  BY NAssumption DEF IInv, TypeOK, Reading, Handlers, Handler, Index
<1> SUFFICES ASSUME NEW k \in Index PROVE Handler(k)' BY DEF Handlers
<1>3. Handler(k) BY DEF IInv, Handlers
<1>4. ExecJob(k)' = ExecJob(k) BY DEF ExecJob
<1>5. CASE k = i
  BY <1>1, <1>2, <1>4, <1>5 DEF Handler, Finished, Index
<1>6. CASE k # i
  BY <1>1, <1>2, <1>3, <1>4, <1>6, NAssumption DEF Handler, Finished, IInv, TypeOK, Index
<1> QED BY <1>5, <1>6

\* The log throws.
LEMMA LogThrowsStep ==
    ASSUME IInv, NEW i \in Index, LogThrows(i)
    PROVE  IInv'
<1> USE DEF LogThrows, stack
<1>1. TypeOK' BY ReadingType DEF IInv, TypeOK
<1>2. Keeps BY ReadingKeeps DEF Finished
<1>3. Replies' BY <1>1, <1>2, RepliesKept
<1>4. writer'[i].req = i BY DEF IInv, Handlers, Handler
<1>5. Handlers' BY <1>1, <1>4, AtOnce
<1>6. Posted' BY <1>1, <1>2, PostedKept
<1> QED BY <1>1, <1>3, <1>5, <1>6 DEF IInv

\* A document of request i that says only that it failed.
LEMMA ErrorDoc ==
    ASSUME NEW i \in Index, NEW d \in Docs, d.req = i, ~d.outgoing,
           i \in 1 .. read', d.body \in {{"error"}, {"bad_request"}} \/ (d.body = {} /\ i \in threw')
    PROVE  DocOK(d)'
BY DEF DocOK

\* The request is refused before there is a handler.
LEMMA RefuseStep ==
    ASSUME IInv, NEW i \in Index, Refuse(i)
    PROVE  IInv'
<1> USE DEF Refuse, stack
<1>1. Keeps /\ i \in 1 .. read' BY ReadingKeeps, NAssumption DEF Finished, Index
<1>2. writer'[i].req = i BY DEF IInv, Handlers, Handler
<1>3. CASE \E d \in Docs : /\ send_response(d) /\ d.req = i /\ ~d.outgoing
                          /\ d.body \in {{"error"}, {"bad_request"}}
  <2>1. PICK d \in Docs : /\ send_response(d) /\ d.req = i /\ ~d.outgoing
                         /\ d.body \in {{"error"}, {"bad_request"}}
    BY <1>3
  <2>2. TypeOK' BY <2>1, SendType, ReadingType DEF IInv, TypeOK
  <2>3. DocOK(d)' BY <1>1, <2>1, ErrorDoc
  <2>4. Replies' BY <1>1, <2>1, <2>2, <2>3, RepliesSent
  <2>5. Handlers' BY <1>2, <2>2, AtOnce
  <2>6. Posted' BY <1>1, <2>2, PostedKept
  <2> QED BY <2>2, <2>4, <2>5, <2>6 DEF IInv
<1>4. CASE down' = TRUE /\ UNCHANGED received
  <2>1. TypeOK' BY <1>4, ReadingType DEF IInv, TypeOK
  <2>2. Replies' BY <1>1, <1>4, <2>1, RepliesKept
  <2>3. Handlers' BY <1>2, <2>1, AtOnce
  <2>4. Posted' BY <1>1, <2>1, PostedKept
  <2> QED BY <2>1, <2>2, <2>3, <2>4 DEF IInv
<1>5. \/ \E d \in Docs : /\ send_response(d) /\ d.req = i /\ ~d.outgoing
                       /\ d.body \in {{"error"}, {"bad_request"}}
      \/ down' = TRUE /\ UNCHANGED received
  <2> DEFINE bad  == [EmptyDoc(i) EXCEPT !.body = {"bad_request"}]
             err  == Error(EmptyDoc(i))
             err2 == Error([EmptyDoc(i) EXCEPT
                              !.id = IF sent[i].id = "number" THEN "own" ELSE "null"])
  <2>1. /\ bad \in Docs /\ bad.req = i /\ ~bad.outgoing /\ bad.body = {"bad_request"}
        /\ err \in Docs /\ err.req = i /\ ~err.outgoing /\ err.body = {"error"}
        /\ err2 \in Docs /\ err2.req = i /\ ~err2.outgoing /\ err2.body = {"error"}
    BY DEF EmptyDoc, Error, reset, Docs
  <2> HIDE DEF bad, err, err2
  <2>2. \/ send_response(bad) \/ send_response(err) \/ send_response(err2)
        \/ down' = TRUE /\ UNCHANGED received
    BY DEF bad, err, err2
  <2> QED BY <2>1, <2>2
<1> QED BY <1>3, <1>4, <1>5

\* prepare fails.
LEMMA PrepareFailsStep ==
    ASSUME IInv, NEW i \in Index, PrepareFails(i)
    PROVE  IInv'
<1> USE DEF PrepareFails, stack
<1>1. PICK d \in Docs : d = Error(Prepared(i)) BY DocTypes
<1>2. d.req = i /\ ~d.outgoing /\ d.body = {"error"}
  BY <1>1 DEF Error, Prepared, EmptyDoc, reset, Docs
<1>3. writer' = [writer EXCEPT ![i] = d] /\ writer'[i] = d BY <1>1 DEF IInv, TypeOK
<1>4. send_response(d) BY <1>3
<1>5. \/ posts' = posts
      \/ posts' = posts \cup {[job |-> "send_json", doc |-> d]}
  BY <1>3 DEF PostSend
<1>6. /\ \A p \in posts' : p \in posts \/ p = [job |-> "send_json", doc |-> d]
      /\ \A k \in Index : ExecJob(k) \in posts' <=> ExecJob(k) \in posts
  BY <1>5 DEF ExecJob
<1>7. TypeOK'
  <2>1. received' \in Seq(Docs) /\ down' \in BOOLEAN /\ read' \in 0 .. Len(sent')
    BY <1>4, SendType, ReadingType DEF IInv
  <2>2. posts' \subseteq Jobs BY <1>6 DEF Jobs, IInv, TypeOK
  <2> QED BY <1>3, <2>1, <2>2 DEF IInv, TypeOK
<1>8. \A k \in Index : Finished(k) => Finished(k)' BY <1>6 DEF Finished, ExecJob
<1>9. Keeps /\ i \in 1 .. read' BY <1>8, ReadingKeeps, NAssumption DEF Index
<1>10. DocOK(d)' BY <1>2, <1>9, ErrorDoc
<1>11. Replies' BY <1>4, <1>7, <1>9, <1>10, RepliesSent
<1>12. \A k \in Index \ {i} : writer'[k] = writer[k] BY <1>3 DEF IInv, TypeOK
<1>13. Handlers' BY <1>2, <1>3, <1>6, <1>7, <1>12, AtOnce
<1>14. Posted' BY <1>6, <1>7, <1>9, <1>10, PostedKept
<1> QED BY <1>7, <1>11, <1>13, <1>14 DEF IInv

\* perform throws.
LEMMA PerformThrowsStep ==
    ASSUME IInv, NEW i \in Index, PerformThrows(i)
    PROVE  IInv'
<1> USE DEF PerformThrows, stack
<1> DEFINE d == EmptyDoc(i)
<1>1. d \in Docs /\ d.req = i /\ ~d.outgoing /\ d.body = {} BY DEF EmptyDoc, Docs
<1> HIDE DEF d
<1>2. send_response(d) BY DEF d
<1>3. TypeOK' BY <1>1, <1>2, SendType, ReadingType DEF IInv, TypeOK
<1>4. Keeps /\ i \in 1 .. read' BY ReadingKeeps, NAssumption DEF Finished, Index
<1>5. DocOK(d)' BY <1>1, <1>4, ErrorDoc
<1>6. Replies' BY <1>1, <1>2, <1>3, <1>4, <1>5, RepliesSent
<1>7. writer'[i].req = i BY DEF IInv, Handlers, Handler
<1>8. Handlers' BY <1>3, <1>7, AtOnce
<1>9. Posted' BY <1>3, <1>4, PostedKept
<1> QED BY <1>3, <1>6, <1>8, <1>9 DEF IInv

\* The handler that generates a wallet, or one that fails before its call.
LEMMA GenerateStep ==
    ASSUME IInv, NEW i \in Index, Generate(i) \/ FetchFails(i)
    PROVE  IInv'
<1> USE DEF Generate, FetchFails, Accepted, stack
<1>1. PICK d \in Docs : /\ d.req = i /\ ~d.outgoing /\ d.body \in {{"result"}, {"error"}}
                       /\ (d.body = {"error"} \/ sent[i].kind = "generate")
                       /\ writer' = [writer EXCEPT ![i] = d]
  <2> DEFINE e == Error(Prepared(i))
             r == [Prepared(i) EXCEPT !.body = {"result"}]
  <2>1. e \in Docs /\ e.req = i /\ ~e.outgoing /\ e.body = {"error"}
    BY DEF Error, Prepared, EmptyDoc, reset, Docs
  <2>2. r \in Docs /\ r.req = i /\ ~r.outgoing /\ r.body = {"result"}
    BY DEF Prepared, EmptyDoc, Docs
  <2>3. \/ writer' = [writer EXCEPT ![i] = e]
        \/ writer' = [writer EXCEPT ![i] = r] /\ sent[i].kind = "generate"
    OBVIOUS
  <2> HIDE DEF e, r
  <2> QED BY <2>1, <2>2, <2>3
<1>2. writer'[i] = d /\ send_response(d) /\ \A k \in Index \ {i} : writer'[k] = writer[k]
  BY <1>1 DEF IInv, TypeOK
<1>3. TypeOK'
  <2>1. writer' \in [Index -> Docs] BY <1>1 DEF IInv, TypeOK
  <2> QED BY <1>2, <2>1, SendType, ReadingType DEF IInv, TypeOK
<1>4. Keeps /\ i \in 1 .. read' BY ReadingKeeps, NAssumption DEF Finished, Index
<1>5. DocOK(d)' BY <1>1, <1>4 DEF DocOK
<1>6. Replies' BY <1>2, <1>3, <1>4, <1>5, RepliesSent
<1>7. Handlers' BY <1>1, <1>2, <1>3, AtOnce
<1>8. Posted' BY <1>3, <1>4, PostedKept
<1> QED BY <1>3, <1>6, <1>7, <1>8 DEF IInv

\* A step of the handler of request i leaves the other handlers where they are.
LEMMA OthersKept ==
    ASSUME IInv, TypeOK', NEW i \in Index, sent' = sent, read <= read', Handler(i)',
           \A k \in Index \ {i} :
               /\ writer'[k] = writer[k] /\ call'[k] = call[k] /\ upstream'[k] = upstream[k]
               /\ ExecJob(k) \in posts' <=> ExecJob(k) \in posts
    PROVE  Handlers'
<1> SUFFICES ASSUME NEW k \in Index \ {i} PROVE Handler(k)' BY DEF Handlers
<1>1. Handler(k) BY DEF IInv, Handlers
<1>2. ExecJob(k)' = ExecJob(k) BY DEF ExecJob
<1> QED BY <1>1, <1>2, NAssumption DEF Handler, Finished, IInv, TypeOK, Index

\* The document on the stack of process_request.
LEMMA StackType ==
    ASSUME NEW i \in Index, TypeOK, StaysOnStack(i)
    PROVE  onstack' \in {0} \cup Index /\ raced' \subseteq Index
BY DEF TypeOK, StaysOnStack

\* The handlers that ask another server.
LEMMA FetchStep ==
    ASSUME IInv, NEW i \in Index, Fetch(i)
    PROVE  IInv'
<1> USE DEF Fetch, Accepted
<1>1. PICK d \in Docs : d = Prepared(i) BY DocTypes
<1>2. d.req = i BY <1>1 DEF Prepared, EmptyDoc
<1>3. PICK e \in Docs : e.req = i /\ writer' = [writer EXCEPT ![i] = e]
  <2>1. [d EXCEPT !.outgoing = TRUE] \in Docs /\ Error(d) \in Docs BY DocTypes
  <2>2. [d EXCEPT !.outgoing = TRUE].req = i /\ Error(d).req = i
    BY <1>2 DEF Docs, Error, reset
  <2>3. \/ writer' = [writer EXCEPT ![i] = [d EXCEPT !.outgoing = TRUE]]
        \/ writer' = [writer EXCEPT ![i] = Error(d)]
    BY <1>1 DEF Execute
  <2> QED BY <2>1, <2>2, <2>3
<1>4. /\ \/ call' = [call EXCEPT ![i] = "final"]
         \/ call' = call
      /\ threw \subseteq threw' /\ threw' \subseteq Index
  BY DEF Execute, IInv, TypeOK
<1>5. TypeOK'
  <2>1. writer' \in [Index -> Docs] BY <1>3 DEF IInv, TypeOK
  <2>2. call' \in [Index -> Calls] BY <1>4 DEF IInv, TypeOK, Calls
  <2> QED BY <1>4, <2>1, <2>2, ReadingType, StackType DEF IInv, TypeOK
<1>6. \A k \in Index \ {i} : Finished(k) => Finished(k)'
  BY <1>4 DEF Finished, ExecJob, IInv, TypeOK
<1>7. Keeps /\ Finished(i) /\ i = read + 1 /\ read' = i BY <1>4, <1>6, ReadingKeeps
<1>8. Handler(i)'
  BY <1>3, <1>4, <1>7, NAssumption DEF Handler, Finished, ExecJob, IInv, TypeOK, Index
<1>9. Handlers'
  <2>1. \A k \in Index \ {i} : writer'[k] = writer[k] /\ call'[k] = call[k]
    BY <1>3, <1>4 DEF IInv, TypeOK
  <2>2. read <= read' BY <1>7 DEF IInv, TypeOK
  <2> QED BY <1>5, <1>8, <2>1, <2>2, OthersKept
<1> QED BY <1>5, <1>7, <1>9, RepliesKept, PostedKept DEF IInv

\* The handler that asks for the parameters of a transaction first.
LEMMA GetTransactionParamsStep ==
    ASSUME IInv, NEW i \in Index, GetTransactionParams(i)
    PROVE  IInv'
<1> USE DEF GetTransactionParams, Accepted
<1>1. PICK d \in Docs : d = Prepared(i) BY DocTypes
<1>2. d.req = i /\ d.body = {} /\ ~d.outgoing BY <1>1 DEF Prepared, EmptyDoc
<1>3. PICK e \in Docs : e = Error(d) BY DocTypes
<1>4. e.req = i /\ e.body = {"error"} /\ ~e.outgoing BY <1>2, <1>3 DEF Docs, Error, reset
<1>5. Finished(i) /\ i = read + 1 /\ read' = i
  BY NAssumption DEF IInv, TypeOK, Reading, Handlers, Handler, Index
<1>6. CASE /\ writer' = [writer EXCEPT ![i] = d]
           /\ call' = [call EXCEPT ![i] = "params"] /\ posts' = posts
  <2>1. TypeOK'
    <3>1. writer' \in [Index -> Docs] BY <1>6 DEF IInv, TypeOK
    <3>2. call' \in [Index -> Calls] BY <1>6 DEF IInv, TypeOK, Calls
    <3> QED BY <1>6, <3>1, <3>2, ReadingType, StackType DEF IInv, TypeOK
  <2>2. \A k \in Index \ {i} : Finished(k) => Finished(k)'
    BY <1>6 DEF Finished, ExecJob, IInv, TypeOK
  <2>3. Keeps BY <2>2, ReadingKeeps
  <2>4. Handler(i)'
    BY <1>2, <1>5, <1>6, NAssumption DEF Handler, Finished, ExecJob, IInv, TypeOK, Index
  <2>5. Handlers'
    BY <1>5, <1>6, <2>1, <2>4, OthersKept, NAssumption DEF IInv, TypeOK, Index
  <2> QED BY <1>6, <2>1, <2>3, <2>5, RepliesKept, PostedKept DEF IInv
<1>7. CASE /\ writer' = [writer EXCEPT ![i] = e] /\ call' = call
           /\ posts' = posts \cup {[job |-> "send_json", doc |-> e]}
  <2>1. \A k \in Index : ExecJob(k) \in posts' <=> ExecJob(k) \in posts
    BY <1>7 DEF ExecJob
  <2>2. TypeOK'
    <3>1. writer' \in [Index -> Docs] BY <1>7 DEF IInv, TypeOK
    <3>2. posts' \subseteq Jobs BY <1>7 DEF Jobs, IInv, TypeOK
    <3> QED BY <1>7, <3>1, <3>2, ReadingType, StackType DEF IInv, TypeOK
  <2>3. \A k \in Index : Finished(k) => Finished(k)' BY <1>7, <2>1 DEF Finished, ExecJob
  <2>4. Keeps BY <2>3, ReadingKeeps
  <2>5. DocOK(e)' BY <1>4, <1>5, ErrorDoc, NAssumption DEF Index
  <2>6. Handlers'
    <3>1. writer'[i].req = i BY <1>4, <1>7 DEF IInv, TypeOK
    <3>2. \A k \in Index \ {i} : writer'[k] = writer[k] BY <1>7 DEF IInv, TypeOK
    <3> QED BY <1>7, <2>1, <2>2, <3>1, <3>2, AtOnce
  <2>7. Posted' BY <1>7, <2>2, <2>4, <2>5, PostedKept
  <2> QED BY <2>2, <2>4, <2>6, <2>7, RepliesKept DEF IInv
<1>8. \/ /\ writer' = [writer EXCEPT ![i] = d]
         /\ call' = [call EXCEPT ![i] = "params"] /\ posts' = posts
      \/ /\ writer' = [writer EXCEPT ![i] = e] /\ call' = call /\ PostSend(writer'[i])
  BY <1>1, <1>3
<1>9. writer' = [writer EXCEPT ![i] = e] => writer'[i] = e BY DEF IInv, TypeOK
<1> QED BY <1>6, <1>7, <1>8, <1>9 DEF PostSend

\* The handler returns to process_request.
LEMMA HandlerReturnsStep ==
    ASSUME IInv, NEW i \in Index, HandlerReturns(i)
    PROVE  IInv'
<1> USE DEF IInv, HandlerReturns
<1>1. TypeOK' BY DEF TypeOK
<1>2. Keeps BY DEF Keeps, Finished, TypeOK
<1>3. Handlers' BY DEF Handlers, Handler, Finished
<1> QED BY <1>1, <1>2, <1>3, RepliesKept, PostedKept

\* An upstream call returns: its request was not finished, and no other request
\* is concerned.
LEMMA ReturnKeeps ==
    ASSUME IInv, NEW i \in Index, NEW c \in {"params", "final"}, NEW r \in Returns, Return(i, c, r),
           sent' = sent, read' = read, threw' = threw,
           \A k \in Index \ {i} : ExecJob(k) \in posts' <=> ExecJob(k) \in posts
    PROVE  /\ Keeps /\ i \in 1 .. read'
           /\ call' \in [Index -> Calls] /\ upstream' \in [Index -> Returns]
           /\ onstack' \in {0} \cup Index /\ raced' \subseteq Index
           /\ call'[i] = "none" /\ upstream'[i] = r
           /\ \A k \in Index \ {i} : call'[k] = call[k] /\ upstream'[k] = upstream[k]
<1>1. /\ call'[i] = "none" /\ upstream'[i] = r
      /\ \A k \in Index \ {i} : call'[k] = call[k] /\ upstream'[k] = upstream[k]
  BY DEF Return, IInv, TypeOK
<1>2. i \in 1 .. read'
  BY NAssumption DEF Return, IInv, TypeOK, Handlers, Handler, Finished, Index
<1>3. ~Finished(i) BY DEF Return, Finished
<1>4. \A k \in Index \ {i} : Finished(k) => Finished(k)' BY <1>1 DEF Finished, ExecJob
<1>5. Keeps BY <1>1, <1>3, <1>4, NAssumption DEF Keeps, IInv, TypeOK, Index
<1>6. /\ call' \in [Index -> Calls] /\ upstream' \in [Index -> Returns]
      /\ onstack' \in {0} \cup Index /\ raced' \subseteq Index
  BY DEF Return, Writes, IInv, TypeOK, Calls
<1> QED BY <1>1, <1>2, <1>5, <1>6

\* The answer is not an object and ends the process.
LEMMA NotObjectStep ==
    ASSUME IInv, NEW i \in Index, NEW c \in {"params", "final"}, NEW r \in Returns, Return(i, c, r),
           NotObject(r),
           UNCHANGED <<configured, sent, read, received, closed, threw>>
    PROVE  IInv'
<1> USE DEF NotObject
<1>1. Keeps /\ i \in 1 .. read' BY ReturnKeeps DEF ExecJob
<1>2. TypeOK' BY ReturnKeeps DEF IInv, TypeOK
<1>3. call[i] = c /\ call'[i] = "none"
      /\ \A k \in Index \ {i} : call'[k] = call[k] /\ upstream'[k] = upstream[k]
  BY ReturnKeeps DEF Return
<1>4. Handler(i)'
  BY <1>1, <1>3 DEF Handler, Finished, ExecJob, IInv, TypeOK, Handlers
<1>5. Handlers' BY <1>2, <1>3, <1>4, OthersKept DEF IInv, TypeOK
<1> QED BY <1>1, <1>2, <1>5, RepliesKept, PostedKept DEF IInv

\* The answer ends the request: the document is posted.
LEMMA LastAnswer ==
    ASSUME IInv, NEW i \in Index, NEW c \in {"params", "final"}, NEW r \in Returns, Return(i, c, r),
           NEW d \in Docs, d.req = i, ~d.outgoing,
           d.body = {"error"} \/ (d.body = {"result"} /\ r = "result"),
           writer' = [writer EXCEPT ![i] = d],
           PostSend(writer'[i]),
           UNCHANGED <<configured, sent, read, received, closed, down, threw>>
    PROVE  IInv'
<1>1. posts' = posts \cup {[job |-> "send_json", doc |-> d]}
  BY DEF PostSend, IInv, TypeOK
<1>2. \A k \in Index : ExecJob(k) \in posts' <=> ExecJob(k) \in posts
  BY <1>1 DEF ExecJob
<1>3. Keeps /\ i \in 1 .. read' BY <1>2, ReturnKeeps
<1>4. call[i] = c /\ call'[i] = "none" /\ upstream'[i] = r
      /\ \A k \in Index \ {i} : call'[k] = call[k] /\ upstream'[k] = upstream[k]
  BY <1>2, ReturnKeeps DEF Return
<1>5. TypeOK'
  <2>1. posts' \subseteq Jobs BY <1>1 DEF Jobs, IInv, TypeOK
  <2>2. writer' \in [Index -> Docs] BY DEF IInv, TypeOK
  <2> QED BY <1>2, <2>1, <2>2, ReturnKeeps DEF IInv, TypeOK
<1>6. ExecJob(i) \notin posts'
  BY <1>2, <1>4 DEF IInv, Handlers, Handler
<1>7. Finished(i)' BY <1>4, <1>6 DEF Finished, ExecJob
<1>8. DocOK(d)' BY <1>3, <1>4, <1>7 DEF DocOK
<1>9. writer'[i] = d /\ \A k \in Index \ {i} : writer'[k] = writer[k] BY DEF IInv, TypeOK
<1>10. Handler(i)' BY <1>4, <1>6, <1>7, <1>9 DEF Handler, ExecJob
<1>11. Handlers' BY <1>2, <1>4, <1>5, <1>9, <1>10, OthersKept DEF IInv, TypeOK
<1>12. Posted' BY <1>1, <1>3, <1>5, <1>8, PostedKept
<1> QED BY <1>3, <1>5, <1>11, <1>12, RepliesKept DEF IInv

\* The other server answers, or does not.
LEMMA OnCompleteStep ==
    ASSUME IInv, NEW i \in Index, NEW r \in Returns, on_complete(i, r)
    PROVE  IInv'
<1> USE DEF on_complete
<1>1. CASE NotObject(r) BY <1>1, NotObjectStep
<1>2. CASE ~NotObject(r)
  <2>1. PICK w \in Docs : w = writer[i] /\ w.req = i BY DEF IInv, TypeOK, Handlers, Handler
  <2>2. PICK d \in Docs :
          /\ \/ r \notin {"result", "error"} /\ d = Error(w)
             \/ /\ r \in {"result", "error"}
                /\ \E others \in BOOLEAN :
                     d = [reset(w) EXCEPT !.body = {r}, !.copied = others]
          /\ writer' = [writer EXCEPT ![i] = d]
    <3>1. CASE r \notin {"result", "error"}
      BY <1>2, <2>1, <3>1, DocTypes DEF IInv, TypeOK
    <3>2. CASE r \in {"result", "error"}
      <4>1. PICK others \in BOOLEAN :
              writer' = [writer EXCEPT ![i] = [reset(w) EXCEPT !.body = {r}, !.copied = others]]
        BY <1>2, <2>1, <3>2 DEF IInv, TypeOK
      <4>2. [reset(w) EXCEPT !.body = {r}, !.copied = others] \in Docs
        BY <3>2 DEF Docs, reset
      <4> QED BY <3>2, <4>1, <4>2
    <3> QED BY <3>1, <3>2
  <2>3. d.req = i /\ ~d.outgoing /\ (d.body = {"error"} \/ (d.body = {"result"} /\ r = "result"))
    BY <2>1, <2>2 DEF Docs, reset, Error
  <2>4. PostSend(writer'[i]) /\ down' = down BY <1>2
  <2> QED BY <2>2, <2>3, <2>4, LastAnswer
<1> QED BY <1>1, <1>2

\* The parameters arrive.
LEMMA OnGetTransactionParamsStep ==
    ASSUME IInv, NEW i \in Index, NEW r \in Returns, on_get_transaction_params(i, r)
    PROVE  IInv'
<1> USE DEF on_get_transaction_params
<1>1. PICK w \in Docs : w = writer[i] /\ w.req = i /\ w.body = {} /\ ~w.outgoing
  BY DEF IInv, TypeOK, Handlers, Handler, Return
<1>2. CASE NotObject(r) BY <1>2, NotObjectStep
<1>3. CASE /\ writer' = [writer EXCEPT ![i] = IF r = "error" THEN set_error(@) ELSE Error(@)]
           /\ PostSend(writer'[i]) /\ UNCHANGED down
  <2>1. PICK d \in Docs :
          d = IF r = "error" THEN set_error(w) ELSE Error(w)
    BY DocTypes DEF set_error
  <2>2. d.req = i /\ ~d.outgoing /\ d.body = {"error"}
    BY <1>1, <2>1 DEF Docs, reset, Error, set_error
  <2>3. writer' = [writer EXCEPT ![i] = d] BY <1>1, <1>3, <2>1 DEF IInv, TypeOK
  <2> QED BY <1>3, <2>2, <2>3, LastAnswer
<1>4. CASE /\ r = "result" /\ writer' = [writer EXCEPT ![i].outgoing = TRUE]
           /\ posts' = posts \cup {ExecJob(i)} /\ UNCHANGED down
  <2>1. PICK d \in Docs : d = [w EXCEPT !.outgoing = TRUE] BY DocTypes
  <2>2. d.req = i /\ d.outgoing /\ d.body = {} BY <1>1, <2>1 DEF Docs
  <2>3. writer' = [writer EXCEPT ![i] = d] BY <1>1, <1>4, <2>1 DEF IInv, TypeOK
  <2>4. writer'[i] = d /\ \A k \in Index \ {i} : writer'[k] = writer[k]
    BY <2>3 DEF IInv, TypeOK
  <2>5. \A k \in Index \ {i} : ExecJob(k) \in posts' <=> ExecJob(k) \in posts
    BY <1>4 DEF ExecJob
  <2>6. Keeps /\ i \in 1 .. read' BY <2>5, ReturnKeeps
  <2>7. call[i] = "params" /\ call'[i] = "none" /\ upstream'[i] = "result"
        /\ \A k \in Index \ {i} : call'[k] = call[k] /\ upstream'[k] = upstream[k]
    BY <1>4, <2>5, ReturnKeeps DEF Return
  <2>8. TypeOK'
    <3>1. posts' \subseteq Jobs BY <1>4 DEF Jobs, ExecJob, IInv, TypeOK
    <3>2. writer' \in [Index -> Docs] BY <2>3 DEF IInv, TypeOK
    <3> QED BY <1>4, <2>5, <3>1, <3>2, ReturnKeeps DEF IInv, TypeOK
  <2>9. Handler(i)'
    <3>1. sent'[i].kind \in TxKinds BY <2>7 DEF IInv, Handlers, Handler
    <3> QED BY <2>2, <2>4, <2>6, <2>7, <3>1, NAssumption
        DEF Handler, Finished, ExecJob, IInv, TypeOK, Index
  <2>10. Handlers' BY <2>4, <2>5, <2>7, <2>8, <2>9, OthersKept DEF IInv, TypeOK
  <2>11. Posted' BY <1>4, <2>6, <2>8, PostedKept DEF ExecJob
  <2> QED BY <2>6, <2>8, <2>10, <2>11, RepliesKept DEF IInv
<1> QED BY <1>2, <1>3, <1>4 DEF ExecJob

\* A reply that was posted is sent.
LEMMA PostedSendStep ==
    ASSUME IInv, PostedSend
    PROVE  IInv'
<1> USE DEF PostedSend, stack
<1>1. PICK p \in posts : p.job = "send_json" /\ posts' = posts \ {p} /\ send_response(p.doc)
  OBVIOUS
<1>2. PICK d \in Docs : d = p.doc BY <1>1 DEF IInv, TypeOK, Jobs
<1>3. \A k \in Index : ExecJob(k) \in posts' <=> ExecJob(k) \in posts BY <1>1 DEF ExecJob
<1>4. TypeOK' BY <1>1, <1>2, SendType DEF IInv, TypeOK
<1>5. Keeps BY <1>3, NAssumption DEF Keeps, Finished, ExecJob, IInv, TypeOK, Index
<1>6. DocOK(d)' BY <1>1, <1>2, <1>4, <1>5, KeepDocs DEF IInv, Posted
<1>7. Replies' BY <1>1, <1>2, <1>4, <1>5, <1>6, RepliesSent
<1>8. Handlers'
  BY <1>3 DEF IInv, Handlers, Handler, Finished, ExecJob
<1>9. Posted' BY <1>1, <1>4, <1>5, PostedKept
<1> QED BY <1>4, <1>7, <1>8, <1>9 DEF IInv

\* The posted execute of a handler answers, or calls upstream.
LEMMA PostedExecuteStep ==
    ASSUME IInv, NEW i \in Index, PostedExecute(i)
    PROVE  IInv'
<1> USE DEF PostedExecute
<1> DEFINE rest == posts \ {ExecJob(i)}
<1>1. ExecJob(i) \in posts BY DEF ExecJob
<1>2. i \in 1 .. read /\ call[i] = "none" /\ upstream[i] = "result" /\ ~Finished(i)
  BY <1>1, NAssumption DEF IInv, TypeOK, Handlers, Handler, Finished, Index
<1>3. PICK w \in Docs : w = writer[i] /\ w.req = i /\ w.body = {} /\ w.outgoing
  BY <1>1 DEF IInv, TypeOK, Handlers, Handler
<1>4. onstack' \in {0} \cup Index /\ raced' \subseteq Index BY DEF Writes, IInv, TypeOK
<1>5. CASE /\ sent[i].kind = "create-tx"
           /\ writer' = [writer EXCEPT ![i].body = @ \cup {"result"}]
           /\ posts' = rest \cup {[job |-> "send_json", doc |-> writer'[i]]}
           /\ UNCHANGED <<call, threw>>
  <2>1. PICK d \in Docs : d = [w EXCEPT !.body = @ \cup {"result"}] BY DocTypes
  <2>2. d.req = i /\ d.outgoing /\ d.body = {"result"} BY <1>3, <2>1 DEF Docs
  <2>3. writer' = [writer EXCEPT ![i] = d] BY <1>3, <1>5, <2>1 DEF IInv, TypeOK
  <2>4. writer'[i] = d /\ \A k \in Index \ {i} : writer'[k] = writer[k]
    BY <2>3 DEF IInv, TypeOK
  <2>5. posts' = rest \cup {[job |-> "send_json", doc |-> d]} BY <1>5, <2>4
  <2>6. /\ ExecJob(i) \notin posts'
        /\ \A k \in Index \ {i} : ExecJob(k) \in posts' <=> ExecJob(k) \in posts
    BY <2>5 DEF ExecJob
  <2>7. TypeOK'
    <3>1. posts' \subseteq Jobs BY <2>5 DEF Jobs, IInv, TypeOK
    <3>2. writer' \in [Index -> Docs] BY <2>3 DEF IInv, TypeOK
    <3> QED BY <1>4, <1>5, <3>1, <3>2 DEF IInv, TypeOK
  <2>8. Finished(i)' BY <1>2, <1>5, <2>6 DEF Finished, ExecJob
  <2>9. Keeps
    BY <1>2, <1>5, <2>6, NAssumption DEF Keeps, Finished, ExecJob, IInv, TypeOK, Index
  <2>10. DocOK(d)' BY <1>2, <1>5, <2>2, <2>8 DEF DocOK
  <2>11. Handler(i)' BY <1>2, <1>5, <2>2, <2>4, <2>6, <2>8 DEF Handler, ExecJob
  <2>12. Handlers' BY <1>5, <2>4, <2>6, <2>7, <2>11, OthersKept DEF IInv, TypeOK
  <2>13. Posted' BY <2>5, <2>7, <2>9, <2>10, PostedKept
  <2> QED BY <2>7, <2>9, <2>12, <2>13, RepliesKept DEF IInv
<1>6. CASE /\ sent[i].kind = "send-tx" /\ Execute(i, writer[i]) /\ posts' = rest
  <2>1. PICK d \in Docs : d.req = i /\ writer' = [writer EXCEPT ![i] = d]
    <3>1. [w EXCEPT !.outgoing = TRUE] \in Docs /\ Error(w) \in Docs BY DocTypes
    <3>2. [w EXCEPT !.outgoing = TRUE].req = i /\ Error(w).req = i
      BY <1>3 DEF Docs, Error, reset
    <3>3. \/ writer' = [writer EXCEPT ![i] = [w EXCEPT !.outgoing = TRUE]]
          \/ writer' = [writer EXCEPT ![i] = Error(w)]
      BY <1>3, <1>6 DEF Execute
    <3> QED BY <3>1, <3>2, <3>3
  <2>2. /\ call' = [call EXCEPT ![i] = "final"] \/ call' = call
        /\ threw \subseteq threw' /\ threw' \subseteq Index
    BY <1>6 DEF Execute, IInv, TypeOK
  <2>3. /\ ExecJob(i) \notin posts'
        /\ \A k \in Index \ {i} : ExecJob(k) \in posts' <=> ExecJob(k) \in posts
    BY <1>6 DEF ExecJob
  <2>4. /\ writer'[i] = d
        /\ \A k \in Index \ {i} : writer'[k] = writer[k] /\ call'[k] = call[k]
    BY <2>1, <2>2 DEF IInv, TypeOK
  <2>5. TypeOK'
    <3>1. posts' \subseteq Jobs BY <1>6 DEF IInv, TypeOK
    <3>2. writer' \in [Index -> Docs] BY <2>1 DEF IInv, TypeOK
    <3>3. call' \in [Index -> Calls] BY <2>2 DEF IInv, TypeOK, Calls
    <3> QED BY <1>4, <2>2, <3>1, <3>2, <3>3 DEF IInv, TypeOK
  <2>6. Keeps
    BY <1>2, <2>2, <2>3, <2>4, NAssumption DEF Keeps, Finished, ExecJob, IInv, TypeOK, Index
  <2>7. Handler(i)'
    BY <1>2, <1>6, <2>1, <2>2, <2>3, <2>4, NAssumption
    DEF Handler, Finished, ExecJob, IInv, TypeOK, Index
  <2>8. Handlers' BY <2>3, <2>4, <2>5, <2>7, OthersKept DEF IInv, TypeOK
  <2>9. Posted' BY <1>6, <2>5, <2>6, PostedKept
  <2> QED BY <2>5, <2>6, <2>8, <2>9, RepliesKept DEF IInv
<1> QED BY <1>5, <1>6 DEF ExecJob

\* Every step keeps the invariant.
LEMMA NextIInv == IInv /\ [Next]_vars => IInv'
<1> SUFFICES ASSUME IInv, [Next]_vars PROVE IInv' OBVIOUS
<1>1. CASE UNCHANGED vars
  <2> USE <1>1 DEF vars, IInv
  <2>1. TypeOK' BY DEF TypeOK
  <2>2. Keeps BY DEF Keeps, Finished, TypeOK
  <2>3. Handlers' BY DEF Handlers, Handler, Finished
  <2> QED BY <2>1, <2>2, <2>3, RepliesKept, PostedKept
<1>2. ASSUME NEW i \in Index, Step(i) PROVE IInv'
  BY <1>2, LogThrowsStep, RefuseStep, PrepareFailsStep, PerformThrowsStep, GenerateStep,
     FetchStep, GetTransactionParamsStep, HandlerReturnsStep, OnCompleteStep,
     OnGetTransactionParamsStep, PostedExecuteStep DEF Step
<1> QED BY <1>1, <1>2, ClientSendsStep, ClientClosesStep, PostedSendStep DEF Next, Terminated

\* The invariant, always.
LEMMA SpecIInv == Spec => []IInv
BY InitIInv, NextIInv, PTL DEF Spec

-----------------------------------------------------------------------------
(* Theorems.                                                               *)

\* Every variable keeps its type, for any number of requests of any kind.
THEOREM SessionTyped == Spec => []TypeOK
BY SpecIInv, PTL DEF IInv

\* A reply that says "result" is due to a result of the upstream service to the
\* last call made for its request, whatever else is in flight: on_complete and
\* create_tx_handler::execute set a result only then, and nothing is asked of the
\* service for that request afterwards.
THEOREM SessionNoFalseSuccess == Spec => []NoFalseSuccess
<1>1. IInv => NoFalseSuccess BY DEF IInv, Replies, DocOK, NoFalseSuccess
<1> QED BY <1>1, SpecIInv, PTL

\* Members of the request to the upstream service (its token among them) are in a
\* reply to create-tx only: every other path to send_json resets m_writer.
THEOREM SessionNoRequestEcho == Spec => []NoRequestEcho
<1>1. IInv => NoRequestEcho BY DEF IInv, Replies, DocOK, NoRequestEcho
<1> QED BY <1>1, SpecIInv, PTL

\* A reply has one outcome: check_json and create_tx_handler::execute, which add to
\* m_writer without a reset, do so only while it has no outcome yet.
THEOREM SessionOneOutcome == Spec => []OneOutcome
<1>1. IInv => OneOutcome BY DEF IInv, Replies, DocOK, OneOutcome
<1> QED BY <1>1, SpecIInv, PTL

-----------------------------------------------------------------------------
(* The end of the process.                                                 *)

\* A process that has ended stays as it is, but for the client that hangs up.
LEMMA DownStays ==
    ASSUME Next, down
    PROVE  UNCHANGED vars \/ ClientCloses
<1>1. ASSUME NEW i \in Index, Step(i) PROVE FALSE
  BY <1>1 DEF Step, LogThrows, Refuse, PrepareFails, PerformThrows, Generate, FetchFails, Fetch,
     GetTransactionParams, HandlerReturns, on_complete, on_get_transaction_params, PostedExecute,
     Accepted, Reading, Return
<1> QED BY <1>1 DEF Next, ClientSends, PostedSend, Terminated

\* One step ends the process for one of the reasons that DownOnlyAfter lists.
LEMMA DownBecause ==
    ASSUME IInv, Next, ~down, down'
    PROVE  DownOnlyAfter'
<1>1. ASSUME NEW d, send_response(d), UNCHANGED closed PROVE DownOnlyAfter'
  BY <1>1 DEF send_response, DownOnlyAfter
<1>2. ASSUME NEW i \in Index, Step(i) PROVE DownOnlyAfter'
  <2>1. CASE LogThrows(i) BY <2>1 DEF LogThrows, DownOnlyAfter
  <2>2. CASE Refuse(i)
    <3>1. i \in 1 .. read' /\ sent' = sent
      BY <2>2, NAssumption DEF Refuse, Reading, Index
    <3>2. CASE /\ sent[i].kind = "not_object" \/ (sent[i].kind = "unknown" /\ sent[i].id = "text")
      BY <3>1, <3>2 DEF DownOnlyAfter
    <3>3. CASE \E d : send_response(d)
      BY <1>1, <2>2, <3>3 DEF Refuse
    <3> QED BY <2>2, <3>2, <3>3 DEF Refuse
  <2>3. CASE PrepareFails(i) BY <1>1, <2>3 DEF PrepareFails
  <2>4. CASE PerformThrows(i) BY <1>1, <2>4 DEF PerformThrows
  <2>5. CASE Generate(i) \/ FetchFails(i) BY <1>1, <2>5 DEF Generate, FetchFails
  <2>6. CASE Fetch(i) \/ GetTransactionParams(i) \/ PostedExecute(i)
    BY <2>6 DEF Fetch, GetTransactionParams, PostedExecute
  <2>7. CASE HandlerReturns(i)
    BY <2>7 DEF HandlerReturns, DownOnlyAfter
  <2>8. ASSUME NEW r \in Returns, on_complete(i, r) \/ on_get_transaction_params(i, r)
        PROVE  DownOnlyAfter'
    <3>1. NotObject(r) BY <2>8 DEF on_complete, on_get_transaction_params
    <3>2. upstream'[i] = r
      BY <2>8 DEF on_complete, on_get_transaction_params, Return, IInv, TypeOK
    <3> QED BY <3>1, <3>2 DEF NotObject, DownOnlyAfter
  <2> QED BY <1>2, <2>1, <2>2, <2>3, <2>4, <2>5, <2>6, <2>7, <2>8 DEF Step
<1>3. CASE PostedSend BY <1>1, <1>3 DEF PostedSend
<1> QED BY <1>2, <1>3 DEF Next, ClientSends, ClientCloses, Terminated, vars

\* The process ends for no other reason: every exception of a handler is caught,
\* and reading a request of any other kind has none to throw.
THEOREM SessionDownOnlyAfter == Spec => []DownOnlyAfter
<1>1. Init => DownOnlyAfter BY DEF Init, DownOnlyAfter
<1>2. IInv /\ DownOnlyAfter /\ [Next]_vars => DownOnlyAfter'
  <2> SUFFICES ASSUME IInv, DownOnlyAfter, [Next]_vars PROVE DownOnlyAfter' OBVIOUS
  <2>1. CASE UNCHANGED vars BY <2>1 DEF vars, DownOnlyAfter
  <2>2. CASE Next /\ down
    <3>1. CASE ClientCloses BY <3>1 DEF ClientCloses, DownOnlyAfter
    <3> QED BY <2>1, <2>2, <3>1, DownStays
  <2>3. CASE Next /\ ~down /\ down' BY <2>3, DownBecause
  <2>4. CASE ~down' BY <2>4 DEF DownOnlyAfter
  <2> QED BY <2>1, <2>2, <2>3, <2>4
<1> QED BY <1>1, <1>2, SpecIInv, PTL DEF Spec

-----------------------------------------------------------------------------
(* The order of replies.                                                   *)

\* A request is read only when all before it are answered and nothing is in flight.
LEMMA ReadTurn ==
    ASSUME IInv, OInv, NEW i \in Index, Reading(i)
    PROVE  /\ i = Turn /\ read = Len(received) /\ read' = i /\ posts = {}
           /\ \A k \in Index : Finished(k)
<1> USE DEF IInv, OInv, OneInFlight, Turn
<1>1. /\ i = Turn /\ read = Len(received) /\ read' = i
  BY DEF Reading, TypeOK
<1>2. \A k \in Index : Finished(k)
  BY <1>1, NAssumption DEF Handlers, Handler, TypeOK, Index
<1>3. posts = {}
  <2> SUFFICES ASSUME NEW p \in posts PROVE FALSE OBVIOUS
  <2>1. CASE p.job = "send_json"
    <3>1. p.doc.req \in 1 .. read BY <2>1 DEF Posted, DocOK
    <3>2. p.doc.req = read + 1 BY <1>1, <2>1
    <3> QED BY <3>1, <3>2 DEF TypeOK
  <2>2. CASE p.job # "send_json"
    <3>1. p \in [job : {"execute"}, req : Index] BY <2>2 DEF TypeOK, Jobs
    <3>2. p = ExecJob(p.req) /\ p.req \in Index BY <3>1 DEF ExecJob
    <3> QED BY <1>2, <3>2 DEF Finished
  <2> QED BY <2>1, <2>2
<1> QED BY <1>1, <1>2, <1>3

\* The only reply to the request that was read: sent at once, or lost.
LEMMA AnsweredAtOnce ==
    ASSUME IInv, OInv, IInv', NEW i \in Index, Reading(i), sent' = sent, call' = call,
           posts' = posts, NEW d \in Docs, d.req = i,
           received' = received \/ received' = Append(received, d)
    PROVE  OInv'
<1>1. /\ i = Len(received) + 1 /\ read' = i /\ posts' = {}
      /\ \A k \in Index : Finished(k)
  BY ReadTurn DEF Turn
<1>2. \A k \in Index : Finished(k)' BY <1>1 DEF Finished, ExecJob
<1>3. CASE received' = received
  BY <1>1, <1>2, <1>3 DEF OInv, RepliesInOrder, OneInFlight, Turn, IInv, TypeOK
<1>4. CASE received' = Append(received, d)
  <2>1. /\ Len(received') = Len(received) + 1 /\ received'[Len(received')] = d
        /\ \A k \in 1 .. Len(received) : received'[k] = received[k]
    BY <1>4 DEF IInv, TypeOK
  <2>2. RepliesInOrder'
    <3> SUFFICES ASSUME NEW k \in 1 .. Len(received') PROVE received'[k].req = k
      BY DEF RepliesInOrder, IInv, TypeOK
    <3>1. CASE k = Len(received') BY <1>1, <2>1, <3>1
    <3>2. CASE k # Len(received')
      <4>1. k \in 1 .. Len(received) BY <2>1, <3>2 DEF IInv, TypeOK
      <4>2. received[k].req = k BY <4>1 DEF OInv, RepliesInOrder, IInv, TypeOK
      <4> QED BY <2>1, <4>1, <4>2
    <3> QED BY <3>1, <3>2
  <2>3. OneInFlight' BY <1>1, <1>2, <2>1 DEF OInv, OneInFlight, Turn, IInv, TypeOK
  <2> QED BY <2>2, <2>3 DEF OInv
<1> QED BY <1>3, <1>4

\* A step of the request in flight that sends nothing: it ends with at most one
\* posted reply.
LEMMA InFlightStep ==
    ASSUME IInv, OInv, IInv', NEW i \in Index, i = Turn, sent' = sent, received' = received,
           read <= read',
           \A k \in Index \ {i} : Finished(k) => Finished(k)',
           \A p \in posts : p.job # "send_json",
           \/ \A p \in posts' : p \in posts \/ p.job = "execute"
           \/ \E d \in Docs : /\ d.req = i /\ Finished(i)'
                             /\ \A p \in posts' : p \in posts \/ p = [job |-> "send_json", doc |-> d]
    PROVE  OInv'
<1> USE DEF OInv, OneInFlight, Turn, IInv, TypeOK
<1>1. RepliesInOrder' BY DEF RepliesInOrder
<1>2. /\ \A k \in DOMAIN sent' : sent'[k] \in Requests
      /\ Len(received') <= read' /\ Len(sent') <= Turn'
  OBVIOUS
<1>3. \A k \in Index : ~Finished(k)' => k = Turn' OBVIOUS
<1>4. CASE \A p \in posts' : p \in posts \/ p.job = "execute"
  <2>1. \A p \in posts' : p.job # "send_json" BY <1>4
  <2> QED BY <1>1, <1>2, <1>3, <2>1
<1>5. CASE \E d \in Docs : /\ d.req = i /\ Finished(i)'
                          /\ \A p \in posts' : p \in posts \/ p = [job |-> "send_json", doc |-> d]
  <2>1. PICK d \in Docs : /\ d.req = i /\ Finished(i)'
                         /\ \A p \in posts' : p \in posts \/ p = [job |-> "send_json", doc |-> d]
    BY <1>5
  <2>2. \A p \in posts' : p.job = "send_json" => p = [job |-> "send_json", doc |-> d] BY <2>1
  <2>3. Finished(Turn)' BY <2>1
  <2>4. \A p \in posts' : p.job = "send_json" => p.doc.req = Turn' /\ Finished(Turn)'
    BY <2>1, <2>2, <2>3
  <2>5. \A p, q \in posts' : p.job = "send_json" /\ q.job = "send_json" => p = q BY <2>2
  <2> QED BY <1>1, <1>2, <1>3, <2>4, <2>5
<1> QED BY <1>4, <1>5

\* A reply that is sent while its request is processed.
LEMMA OrderAtOnce ==
    ASSUME NoEarlyFailure, IInv, OInv, IInv', NEW i \in Index,
           LogThrows(i) \/ Refuse(i) \/ PrepareFails(i) \/ PerformThrows(i)
           \/ Generate(i) \/ FetchFails(i)
    PROVE  OInv'
<1>1. ASSUME NEW d \in Docs, d.req = i, send_response(d) PROVE received' \in {received, Append(received, d)}
  BY <1>1 DEF send_response
<1>2. EmptyDoc(i) \in Docs /\ EmptyDoc(i).req = i BY DocTypes DEF EmptyDoc
<1>3. ASSUME NEW d \in Docs, d.req = i
      PROVE  /\ Error(d) \in Docs /\ Error(d).req = i
             /\ \A b \in {"result", "bad_request"} :
                   [d EXCEPT !.body = {b}] \in Docs /\ [d EXCEPT !.body = {b}].req = i
  BY <1>3 DEF Docs, Error, reset
<1>4. CASE LogThrows(i)
  BY <1>2, <1>4, AnsweredAtOnce DEF LogThrows
<1>5. CASE Refuse(i)
  <2> DEFINE bad  == [EmptyDoc(i) EXCEPT !.body = {"bad_request"}]
             err  == Error(EmptyDoc(i))
             err2 == Error([EmptyDoc(i) EXCEPT
                              !.id = IF sent[i].id = "number" THEN "own" ELSE "null"])
  <2>1. /\ bad \in Docs /\ bad.req = i /\ err \in Docs /\ err.req = i
        /\ err2 \in Docs /\ err2.req = i
    BY DEF EmptyDoc, Error, reset, Docs
  <2> HIDE DEF bad, err, err2
  <2>2. \/ send_response(bad) \/ send_response(err) \/ send_response(err2)
        \/ UNCHANGED received
    BY <1>5 DEF bad, err, err2, Refuse
  <2>3. PICK d \in Docs : d.req = i /\ received' \in {received, Append(received, d)}
    BY <1>1, <2>1, <2>2
  <2> QED BY <1>5, <2>3, AnsweredAtOnce DEF Refuse
<1>6. CASE PrepareFails(i)
  <2>1. PICK d \in Docs : d = Error(Prepared(i)) /\ d.req = i
    <3>1. Prepared(i) \in Docs /\ Prepared(i).req = i BY DocTypes DEF Prepared, EmptyDoc
    <3> QED BY <1>3, <3>1
  <2>2. send_response(d) BY <1>6, <2>1 DEF PrepareFails, IInv, TypeOK
  <2>3. posts' = posts
    <3>1. sent[i] \in Requests BY <1>6 DEF PrepareFails, Reading, OInv, OneInFlight, IInv, TypeOK, Index
    <3> QED BY <1>6, <3>1
        DEF NoEarlyFailure, PrepareFails, ChecksFail, ParamsFail, FieldsFail, NotImplemented, TxKinds
  <2> QED BY <1>1, <1>6, <2>1, <2>2, <2>3, AnsweredAtOnce DEF PrepareFails
<1>7. CASE PerformThrows(i)
  BY <1>1, <1>2, <1>7, AnsweredAtOnce DEF PerformThrows
<1>8. CASE Generate(i) \/ FetchFails(i)
  <2>1. PICK d \in Docs : d.req = i /\ writer' = [writer EXCEPT ![i] = d]
    <3>1. PICK e \in Docs : e = Prepared(i) /\ e.req = i BY DocTypes DEF Prepared, EmptyDoc
    <3> QED BY <1>3, <1>8, <3>1 DEF Generate, FetchFails
  <2>2. writer'[i] = d BY <2>1 DEF IInv, TypeOK
  <2> QED BY <1>1, <1>8, <2>1, <2>2, AnsweredAtOnce DEF Generate, FetchFails, Accepted
<1> QED BY <1>4, <1>5, <1>6, <1>7, <1>8

\* A request that has to wait for the upstream service becomes the one in flight.
LEMMA OrderPending ==
    ASSUME IInv, OInv, IInv', NEW i \in Index, Fetch(i) \/ GetTransactionParams(i)
    PROVE  OInv'
<1>1. Reading(i) /\ sent' = sent /\ received' = received
  BY DEF Fetch, GetTransactionParams, Accepted
<1>2. /\ i = Turn /\ read' = i /\ posts = {}
      /\ \A k \in Index : Finished(k)
  BY <1>1, ReadTurn
<1>3. read <= read' BY <1>1 DEF Reading, IInv, TypeOK
<1>4. \A k \in Index \ {i} : call'[k] = call[k]
  BY DEF Fetch, Execute, GetTransactionParams, IInv, TypeOK
<1>5. CASE posts' = posts
  <2>1. \A k \in Index \ {i} : Finished(k)' BY <1>2, <1>4, <1>5 DEF Finished, ExecJob
  <2> QED BY <1>1, <1>2, <1>3, <1>5, <2>1, InFlightStep
<1>6. CASE posts' # posts
  <2>1. /\ writer' = [writer EXCEPT ![i] = Error(Prepared(i))] /\ call' = call
        /\ posts' = posts \cup {[job |-> "send_json", doc |-> writer'[i]]}
    BY <1>6 DEF Fetch, GetTransactionParams, PostSend
  <2>2. PICK d \in Docs : d = writer'[i] /\ d.req = i
    BY DEF IInv, TypeOK, Handlers, Handler
  <2>3. \A k \in Index : Finished(k)' BY <1>2, <2>1 DEF Finished, ExecJob
  <2>4. \A p \in posts' : p \in posts \/ p = [job |-> "send_json", doc |-> d] BY <2>1, <2>2
  <2> QED BY <1>1, <1>2, <1>3, <2>2, <2>3, <2>4, InFlightStep
<1> QED BY <1>5, <1>6

\* So does every step of a handler that is not finished.
LEMMA OrderInFlight ==
    ASSUME IInv, OInv, IInv', NEW i \in Index,
           \/ \E r \in Returns : on_complete(i, r) \/ on_get_transaction_params(i, r)
           \/ PostedExecute(i)
    PROVE  OInv'
<1>1. ~Finished(i)
  BY DEF on_complete, on_get_transaction_params, Return, PostedExecute, Finished, ExecJob
<1>2. i = Turn /\ \A p \in posts : p.job # "send_json"
  BY <1>1 DEF OInv, OneInFlight
<1>3. sent' = sent /\ received' = received /\ read' = read
  BY DEF on_complete, on_get_transaction_params, PostedExecute
<1>4. \A k \in Index \ {i} : call'[k] = call[k]
  BY DEF on_complete, on_get_transaction_params, PostedExecute, Return, Execute, IInv, TypeOK
<1>5. PICK d \in Docs : d = writer'[i] /\ d.req = i
  BY DEF IInv, TypeOK, Handlers, Handler
<1> DEFINE Goes == posts' \subseteq posts \cup {ExecJob(i)}
           Ends == /\ posts' \subseteq posts \cup {[job |-> "send_json", doc |-> d]}
                   /\ call'[i] = "none" /\ ExecJob(i) \notin posts'
<1>6. Goes \/ Ends
  <2>1. CASE PostedExecute(i)
    <3>1. call[i] = "none" BY <2>1 DEF PostedExecute, IInv, Handlers, Handler, ExecJob
    <3> QED BY <1>5, <2>1, <3>1 DEF PostedExecute, ExecJob
  <2>2. ASSUME NEW r \in Returns, on_complete(i, r) \/ on_get_transaction_params(i, r)
        PROVE  Goes \/ Ends
    <3>1. call[i] # "none" /\ call'[i] = "none"
      BY <2>2 DEF on_complete, on_get_transaction_params, Return, IInv, TypeOK
    <3>2. ExecJob(i) \notin posts BY <3>1 DEF IInv, Handlers, Handler
    <3> QED BY <1>5, <2>2, <3>1, <3>2
        DEF on_complete, on_get_transaction_params, PostSend, NotObject, ExecJob
  <2> QED BY <2>1, <2>2
<1>7. \A k \in Index \ {i} : Finished(k) => Finished(k)'
  BY <1>4, <1>6 DEF Finished, ExecJob
<1>8. CASE Goes
  <2>1. \A p \in posts' : p \in posts \/ p.job = "execute" BY <1>8 DEF ExecJob
  <2> QED BY <1>2, <1>3, <1>7, <2>1, InFlightStep DEF IInv, TypeOK
<1>9. CASE Ends
  <2>1. Finished(i)' BY <1>9 DEF Finished, ExecJob
  <2>2. \A p \in posts' : p \in posts \/ p = [job |-> "send_json", doc |-> d] BY <1>9
  <2>3. read <= read' BY <1>3 DEF IInv, TypeOK
  <2> QED BY <1>2, <1>3, <1>5, <1>7, <2>1, <2>2, <2>3, InFlightStep
<1> QED BY <1>6, <1>8, <1>9

\* A reply that was posted.
LEMMA OrderPostedSend ==
    ASSUME IInv, OInv, IInv', PostedSend
    PROVE  OInv'
<1> USE DEF PostedSend
<1>1. PICK p \in posts : p.job = "send_json" /\ posts' = posts \ {p} /\ send_response(p.doc)
  OBVIOUS
<1>2. PICK d \in Docs : d = p.doc BY <1>1 DEF IInv, TypeOK, Jobs
<1>3. d.req = Turn /\ Finished(Turn) /\ d.req \in 1 .. read
  BY <1>1, <1>2 DEF OInv, OneInFlight, IInv, Posted, DocOK
<1>4. /\ \A k \in Index : Finished(k)'
      /\ \A q \in posts' : q.job # "send_json"
  BY <1>1, <1>3 DEF OInv, OneInFlight, Finished, ExecJob
<1>5. CASE received' = received
  <2>1. RepliesInOrder' BY <1>5 DEF OInv, RepliesInOrder
  <2> QED BY <1>4, <1>5, <2>1 DEF OInv, OneInFlight, Turn
<1>6. CASE received' = Append(received, d)
  <2>1. /\ Len(received') = Len(received) + 1 /\ received'[Len(received')] = d
        /\ \A k \in 1 .. Len(received) : received'[k] = received[k]
    BY <1>6 DEF IInv, TypeOK
  <2>2. RepliesInOrder'
    <3> SUFFICES ASSUME NEW k \in 1 .. Len(received') PROVE received'[k].req = k
      BY DEF RepliesInOrder, IInv, TypeOK
    <3>1. CASE k = Len(received') BY <1>3, <2>1, <3>1 DEF Turn
    <3>2. CASE k # Len(received')
      <4>1. k \in 1 .. Len(received) BY <2>1, <3>2 DEF IInv, TypeOK
      <4>2. received[k].req = k BY <4>1 DEF OInv, RepliesInOrder, IInv, TypeOK
      <4> QED BY <2>1, <4>1, <4>2
    <3> QED BY <3>1, <3>2
  <2>3. /\ \A k \in DOMAIN sent' : sent'[k] \in Requests
        /\ Len(received') <= read' /\ Len(sent') <= Turn'
    BY <1>3, <2>1 DEF OInv, OneInFlight, Turn, IInv, TypeOK
  <2> QED BY <1>4, <2>2, <2>3 DEF OInv, OneInFlight
<1> QED BY <1>1, <1>2, <1>5, <1>6 DEF send_response

\* The client asks again only when it has every answer.
LEMMA OrderClientSends ==
    ASSUME IInv, OInv, IInv', ClientSends
    PROVE  OInv'
<1> USE DEF ClientSends, stack
<1>1. PICK r \in Requests : sent' = Append(sent, r) OBVIOUS
<1>2. Len(sent') = Len(sent) + 1 /\ DOMAIN sent' = 1 .. Len(sent')
  BY <1>1, RequestsAssumption DEF IInv, TypeOK
<1>3. \A k \in DOMAIN sent' : sent'[k] \in Requests
  <2> TAKE k \in DOMAIN sent'
  <2>1. CASE k = Len(sent') BY <1>1, <1>2, <2>1 DEF IInv, TypeOK
  <2>2. CASE k # Len(sent')
    <3>1. k \in 1 .. Len(sent) BY <1>2, <2>2 DEF IInv, TypeOK
    <3>2. sent'[k] = sent[k] BY <1>1, <3>1 DEF IInv, TypeOK
    <3> QED BY <3>1, <3>2 DEF OInv, OneInFlight, IInv, TypeOK
  <2> QED BY <2>1, <2>2
<1>4. Len(sent') <= Turn' BY <1>2 DEF Turn, IInv, TypeOK
<1> QED BY <1>3, <1>4 DEF OInv, RepliesInOrder, OneInFlight, Turn, Finished

\* A client that waits for each reply can tell them apart by their order, however
\* the io threads, the upstream service and the system executor are scheduled: at
\* most one request is in flight, and its posted reply is the last of its steps.
\* Excepted are the requests that prepare_params answers twice.
THEOREM SessionRepliesInOrder ==
    ASSUME NoEarlyFailure
    PROVE  Spec => []RepliesInOrder
<1>1. Init => OInv
  BY NAssumption DEF Init, OInv, RepliesInOrder, OneInFlight, Turn, Finished
<1>2. IInv /\ IInv' /\ OInv /\ [Next]_vars => OInv'
  <2> SUFFICES ASSUME IInv, IInv', OInv, [Next]_vars PROVE OInv' OBVIOUS
  <2>1. CASE \/ UNCHANGED vars \/ ClientCloses
            \/ \E i \in Index : HandlerReturns(i)
    BY <2>1 DEF vars, ClientCloses, HandlerReturns, stack, OInv, RepliesInOrder, OneInFlight,
       Turn, Finished
  <2>2. ASSUME NEW i \in Index, Step(i) PROVE OInv'
    BY <2>1, <2>2, OrderAtOnce, OrderPending, OrderInFlight DEF Step
  <2> QED BY <2>1, <2>2, OrderPostedSend, OrderClientSends DEF Next, Terminated
<1>3. OInv => RepliesInOrder BY DEF OInv
<1> QED BY <1>1, <1>2, <1>3, SpecIInv, PTL DEF Spec

\* The requests that prepare_params answers twice are the only ones that are.
COROLLARY SessionOneReply ==
    ASSUME NoEarlyFailure
    PROVE  Spec => []OneReply
<1>1. RepliesInOrder => OneReply BY DEF RepliesInOrder, OneReply
<1> QED BY <1>1, SessionRepliesInOrder, PTL
=============================================================================
