----------------------------- MODULE HttpSession -----------------------------
(***************************************************************************)
(* The bytes of one client connection (http_session.cpp).  run() empties   *)
(* m_req and m_buf and reads one request; a read may take bytes of the     *)
(* request after it into m_buf.  A reply is written by the io thread, or   *)
(* later by a thread of the system executor, in as many pieces as the      *)
(* socket takes.  Two replies may be written at a time: what a handler     *)
(* posts is not ordered with what process_request sends.                   *)
(*                                                                         *)
(* The client may send a request before it has the reply to the last one.  *)
(* RpcSession, which treats requests as units, has a client that does not. *)
(***************************************************************************)
EXTENDS Naturals, Sequences, SequencesExt

CONSTANTS
    \* How many requests the client sends.
    N,
    \* Cells of a body, and pieces of a reply.
    BodyLen, ReplyLen

ASSUME BoundsAssumption == N \in Nat /\ BodyLen \in Nat \ {0} /\ ReplyLen \in Nat \ {0}

VARIABLES
    sent,       \* how many requests the client has sent
    early,      \* those sent before every earlier one was answered
    big,        \* those over a limit: 8192 bytes of header, 1 MB of body
    headlike,   \* those whose body, from any cell on, reads like a request
    net,        \* cells on their way to the service
    m_buf,      \* read and not parsed
    parsed,     \* what the parser of this async_read has taken
    m_req,      \* the body of the request
    state,      \* of the chain of reads: "reading", "processing", "writing", "ended"
    handled,    \* the bodies process_request was called with
    pending,    \* requests that will be answered by a posted send_json
    twice,      \* those that process_request has answered as well
    mute,       \* those that nobody answers
    answer,     \* the next piece of the reply that process_request writes, or 0
    writing,    \* the next piece of each posted reply that is being written, or 0
    replies,    \* the pieces the client has received
    open        \* the socket

vars == <<sent, early, big, headlike, net, m_buf, parsed, m_req, state, handled, pending,
          twice, mute, answer, writing, replies, open>>

client  == <<sent, early, big, headlike>>
input   == <<m_buf, parsed, m_req, state>>

Index == 1 .. N

\* A request is a head and its body.
Cell(k, p)  == [req |-> k, part |-> p]
Body(k)     == [p \in 1 .. BodyLen |-> Cell(k, p)]
Request(k)  == <<Cell(k, 0)>> \o Body(k)
Reply(k)    == [p \in 1 .. ReplyLen |-> Cell(k, p)]

Init ==
    /\ sent = 0 /\ early = {} /\ big = {} /\ headlike = {} /\ net = <<>>
    /\ m_buf = <<>> /\ parsed = <<>> /\ m_req = <<>>
    /\ state = "reading" /\ handled = <<>> /\ pending = {} /\ twice = {} /\ mute = {}
    /\ answer = 0 /\ writing = [k \in Index |-> 0] /\ replies = <<>> /\ open = TRUE

-----------------------------------------------------------------------------
(* The client.                                                             *)

ClientSends ==
    /\ open /\ sent < N
    /\ sent' = sent + 1
    /\ net' = net \o Request(sent')
    /\ early' = IF Len(replies) < sent * ReplyLen THEN early \cup {sent'} ELSE early
    /\ \E b \in SUBSET {sent'} : big' = big \cup b
    /\ \E h \in SUBSET {sent'} : headlike' = headlike \cup h
    /\ UNCHANGED <<input, handled, pending, twice, mute, answer, writing, replies, open>>

-----------------------------------------------------------------------------
(* The io thread: run and the completion of its read.                      *)

\* Mutant of run: m_req keeps its body, to which the next read appends.
runKeepsBody ==
    /\ m_buf' = <<>> /\ parsed' = <<>> /\ UNCHANGED m_req
    /\ state' = "reading"

run ==
    /\ m_buf' = <<>> /\ parsed' = <<>> /\ m_req' = <<>>
    /\ state' = "reading"

\* Mutant of Wanted: the header alone is read.
WantedHead == 1

\* async_read ends with the last cell of the body that the header announces.
Wanted == BodyLen + 1

\* Text that does not begin like a header, or a request over a limit, is an error.
Malformed(cells) ==
    IF Head(cells).part = 0 THEN Head(cells).req \in big ELSE Head(cells).req \notin headlike

\* One read of the socket.  On an error nobody is told: no read follows.
Read ==
    /\ state = "reading"
    /\ \E n \in 1 .. Len(net) :
        LET cells == parsed \o m_buf \o SubSeq(net, 1, n)
            complete == Len(cells) >= Wanted
            taken == IF complete THEN Wanted ELSE Len(cells)
        IN  /\ net' = SubSeq(net, n + 1, Len(net))
            /\ m_buf' = SubSeq(cells, taken + 1, Len(cells))
            /\ parsed' = SubSeq(cells, 1, taken)
            /\ \/ /\ Malformed(cells)
                  /\ state' = "ended" /\ UNCHANGED <<m_req, handled>>
               \/ /\ ~Malformed(cells) /\ ~complete
                  /\ UNCHANGED <<state, m_req, handled>>
               \/ /\ ~Malformed(cells) /\ complete
                  /\ state' = "processing"
                  /\ m_req' = m_req \o Tail(parsed')
                  /\ handled' = Append(handled, m_req')
    /\ UNCHANGED <<client, pending, twice, mute, answer, writing, replies, open>>

\* The request that is being processed.
current == Head(parsed).req

\* process_request answers before it returns,
ReplyNow ==
    /\ state = "processing"
    /\ state' = "writing" /\ answer' = 1
    /\ UNCHANGED <<client, net, m_buf, parsed, m_req, handled, pending, twice, mute, writing,
                   replies, open>>

\* Mutant of ReplyLater: the result is sent although it is pending.
ReplyLaterAndNow ==
    /\ state = "processing"
    /\ pending' = pending \cup {current}
    /\ state' = "writing" /\ answer' = 1
    /\ UNCHANGED <<client, net, m_buf, parsed, m_req, handled, twice, mute, writing, replies, open>>

\* or leaves the answer to a handler,
ReplyLater ==
    /\ state = "processing"
    /\ pending' = pending \cup {current}
    /\ run
    /\ UNCHANGED <<client, net, handled, twice, mute, answer, writing, replies, open>>

\* or does both, when prepare_params of a create-tx or send-tx fails: it has posted the
\* error and returns it, not pending.
ReplyTwice ==
    /\ state = "processing"
    /\ pending' = pending \cup {current} /\ twice' = twice \cup {current}
    /\ state' = "writing" /\ answer' = 1
    /\ UNCHANGED <<client, net, m_buf, parsed, m_req, handled, mute, writing, replies, open>>

\* or neither, when a handler throws after it has said that the result is pending.
NoReply ==
    /\ state = "processing"
    /\ mute' = mute \cup {current}
    /\ run
    /\ UNCHANGED <<client, net, handled, pending, twice, answer, writing, replies, open>>

-----------------------------------------------------------------------------
(* Replies.                                                                *)

\* http::write of the io thread sends the next piece; after the last one
\* process_request returns to run().
WriteNow ==
    /\ state = "writing" /\ open
    /\ replies' = Append(replies, Cell(current, answer))
    /\ \/ answer = ReplyLen /\ answer' = 0 /\ run
       \/ answer < ReplyLen /\ answer' = answer + 1 /\ UNCHANGED input
    /\ UNCHANGED <<client, net, handled, pending, twice, mute, writing, open>>

\* A posted send_json begins.
PostedSend(k) ==
    /\ k \in pending /\ writing[k] = 0
    /\ pending' = pending \ {k}
    /\ writing' = [writing EXCEPT ![k] = 1]
    /\ UNCHANGED <<client, net, input, handled, twice, mute, answer, replies, open>>

\* Its http::write sends the next piece.
Write(k) ==
    /\ writing[k] > 0 /\ open
    /\ replies' = Append(replies, Cell(k, writing[k]))
    /\ writing' = [writing EXCEPT ![k] = IF @ = ReplyLen THEN 0 ELSE @ + 1]
    /\ UNCHANGED <<client, net, input, handled, pending, twice, mute, answer, open>>

\* Mutant of Destroy: handlers do not keep the session alive.
DestroyEarly ==
    /\ state = "ended" /\ open
    /\ open' = FALSE
    /\ UNCHANGED <<client, net, input, handled, pending, twice, mute, answer, writing, replies>>

\* ~http_session: when no read, handler or posted job holds the session.
Destroy ==
    /\ state = "ended" /\ open
    /\ pending = {} /\ \A k \in Index : writing[k] = 0
    /\ open' = FALSE
    /\ UNCHANGED <<client, net, input, handled, pending, twice, mute, answer, writing, replies>>

\* The session waits for a client that waits for a reply it will not get, or that
\* has nothing to send.
Idle ==
    /\ \/ /\ net = <<>> /\ state = "reading" /\ sent = N
          /\ pending = {} /\ \A k \in Index : writing[k] = 0
       \/ ~open
    /\ UNCHANGED vars

Process == ReplyNow \/ ReplyLater \/ ReplyTwice \/ NoReply

Serve == Read \/ Process \/ WriteNow \/ \E k \in Index : PostedSend(k) \/ Write(k)

Next == ClientSends \/ Serve \/ Destroy \/ Idle

Spec == Init /\ [][Next]_vars

\* The network delivers, process_request returns, pending calls end (RpcSession) and
\* threads run.
FairSpec ==
    /\ Spec
    /\ WF_vars(Read) /\ WF_vars(Process) /\ WF_vars(WriteNow) /\ WF_vars(Destroy)
    /\ \A k \in Index : WF_vars(PostedSend(k)) /\ WF_vars(Write(k))

-----------------------------------------------------------------------------
(* Properties.                                                             *)

\* Whatever the client does and however its bytes arrive, process_request is called
\* with the body of one request, entire and alone, and with each at most once and in
\* order.  Only a body that itself reads like a request can be taken for one, once
\* run() has thrown its beginning away.
ReadsOneRequest ==
    headlike = {} =>
        /\ \A j \in DOMAIN handled : \E k \in Index : handled[j] = Body(k)
        /\ \A j \in 1 .. Len(handled) - 1 : handled[j][1].req < handled[j + 1][1].req

\* run() drops what it has read of the next request, which is then lost or, if only
\* its beginning was read, ends the connection without a word.  That happens only to
\* requests sent before the reply to the last one: a client that waits, and that is
\* not answered twice and so made to send too soon, loses nothing.
NothingLost ==
    early \cup big \cup twice = {} =>
        /\ handled = [j \in DOMAIN handled |-> Body(j)]
        /\ state # "ended"
        /\ state = "reading" /\ Len(handled) < sent => parsed \o m_buf \o net = Request(sent)

\* The io thread and the system executor write to one socket without a queue.  A
\* client that waits for its replies gets them in order and in one piece each, unless
\* a request was answered twice: those two replies are written at the same time.
RepliesWhole ==
    early \cup twice = {} =>
        \A j \in DOMAIN replies :
            replies[j] = Cell(((j - 1) \div ReplyLen) + 1, ((j - 1) % ReplyLen) + 1)

\* A request that was sent in time is answered, also when the client has sent more
\* since and the connection has been given up because of it; but not if its handler
\* throws, and not always after an earlier one was answered twice, when the client
\* takes the second reply for that to the next request and is one request ahead.
AnsweredIfWaited ==
    \A k \in Index :
        (sent >= k /\ k \notin early \cup big) ~>
            \/ Cell(k, ReplyLen) \in ToSet(replies)
            \/ k \in mute \/ \E j \in twice : j + 1 < k
=============================================================================
