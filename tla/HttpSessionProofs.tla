-------------------------- MODULE HttpSessionProofs --------------------------
(***************************************************************************)
(* The bytes of a connection, for any number of requests, any length of    *)
(* bodies and replies, and any way in which reads cut the stream.          *)
(*                                                                         *)
(* ReadInv says that what comes is a Stream: it may begin in the middle of *)
(* a request, but each cell in it is followed by the rest of its request.  *)
(* WaitInv says in which phase the last request is when the client waits   *)
(* and no request is answered twice.                                       *)
(***************************************************************************)
EXTENDS HttpSession, TLAPS

-----------------------------------------------------------------------------
(* The stream of cells.                                                    *)

Cells(m) == [req : 1 .. m, part : 0 .. BodyLen]

\* What is left of requests 1 to m, from any cell on: from each cell the rest of its
\* request follows, entire, and a head has a later number than all before it.
Stream(s, m) ==
    /\ s \in Seq(Cells(m))
    /\ \A j \in 1 .. Len(s) : j + BodyLen - s[j].part <= Len(s)
    /\ \A j, k \in 1 .. Len(s) :
        /\ j <= k /\ k - j <= BodyLen - s[j].part => s[k] = Cell(s[j].req, s[j].part + (k - j))
        /\ j < k /\ s[k].part = 0 => s[j].req < s[k].req

\* A head in s belongs to a request that process_request has not been called with.
Unread(s) ==
    \A j \in 1 .. Len(s) : s[j].part = 0 => \A h \in DOMAIN handled : handled[h][1].req < s[j].req

States == {"reading", "processing", "writing", "ended"}

ReadType ==
    /\ sent \in 0 .. N /\ state \in States
    /\ m_buf \in Seq(Cells(sent)) /\ parsed \in Seq(Cells(sent)) /\ net \in Seq(Cells(sent))
    /\ state = "reading" => m_buf = <<>> /\ m_req = <<>>
    /\ handled \in Seq(Seq(Cells(sent)))

ReadInv ==
    /\ Stream(net, sent) /\ Unread(net)
    /\ state = "reading" => Stream(parsed \o net, sent) /\ Unread(parsed \o net)
    /\ \A h \in DOMAIN handled : \E k \in 1 .. sent : handled[h] = Body(k)

IInv == ReadType /\ (headlike = {} => ReadInv) /\ ReadsOneRequest

-----------------------------------------------------------------------------
(* Sequences.                                                              *)

\* The bounds as numbers.
LEMMA Bounds == N \in Nat /\ BodyLen \in Nat /\ BodyLen >= 1 /\ ReplyLen \in Nat /\ ReplyLen >= 1
BY BoundsAssumption

\* A cell of requests 1 to m.
LEMMA CellType ==
    ASSUME NEW m \in Nat, NEW c \in Cells(m)
    PROVE  /\ c.req \in Nat /\ 1 <= c.req /\ c.req <= m
           /\ c.part \in Nat /\ 0 <= c.part /\ c.part <= BodyLen
BY Bounds DEF Cells

\* A sequence as a function on its positions.
LEMMA ElementOf ==
    ASSUME NEW S, NEW s \in Seq(S)
    PROVE  Len(s) \in Nat /\ DOMAIN s = 1 .. Len(s) /\ \A i \in 1 .. Len(s) : s[i] \in S
OBVIOUS

\* Seq is monotonic.
LEMMA SeqMono ==
    ASSUME NEW S, NEW T, S \subseteq T, NEW s \in Seq(S)
    PROVE  s \in Seq(T)
OBVIOUS

\* The rest of a sequence after its first n elements.
LEMMA SuffixAt ==
    ASSUME NEW S, NEW s \in Seq(S), NEW n \in 0 .. Len(s)
    PROVE  /\ SubSeq(s, n + 1, Len(s)) \in Seq(S)
           /\ Len(SubSeq(s, n + 1, Len(s))) = Len(s) - n
           /\ \A i \in 1 .. Len(s) - n : SubSeq(s, n + 1, Len(s))[i] = s[n + i]
OBVIOUS

\* The first n elements of a sequence.
LEMMA PrefixAt ==
    ASSUME NEW S, NEW s \in Seq(S), NEW n \in 0 .. Len(s)
    PROVE  /\ SubSeq(s, 1, n) \in Seq(S) /\ Len(SubSeq(s, 1, n)) = n
           /\ \A i \in 1 .. n : SubSeq(s, 1, n)[i] = s[i]
OBVIOUS

\* A sequence that is taken whole.
LEMMA SubSeqAll ==
    ASSUME NEW S, NEW s \in Seq(S)
    PROVE  SubSeq(s, 1, Len(s)) = s /\ SubSeq(s, Len(s) + 1, Len(s)) = <<>>
OBVIOUS

\* A sequence is the function of its elements.
LEMMA AsFunction ==
    ASSUME NEW S, NEW s \in Seq(S)
    PROVE  s = [i \in 1 .. Len(s) |-> s[i]]
OBVIOUS

\* Sequences with the same elements are equal.
LEMMA SeqEq ==
    ASSUME NEW S, NEW s \in Seq(S), NEW t \in Seq(S), Len(s) = Len(t),
           \A i \in 1 .. Len(s) : s[i] = t[i]
    PROVE  s = t
OBVIOUS

\* A request and its body, cell by cell.
LEMMA RequestAt ==
    ASSUME NEW k \in Nat
    PROVE  /\ Request(k) \in Seq([req : {k}, part : 0 .. BodyLen])
           /\ Body(k) \in Seq([req : {k}, part : 0 .. BodyLen])
           /\ Len(Request(k)) = BodyLen + 1 /\ Len(Body(k)) = BodyLen
           /\ \A i \in 1 .. BodyLen + 1 : Request(k)[i] = Cell(k, i - 1)
           /\ \A i \in 1 .. BodyLen : Body(k)[i] = Cell(k, i)
BY BoundsAssumption DEF Request, Body, Cell

\* Quotient and remainder of a number that is given by them.
LEMMA DivMod ==
    ASSUME NEW q \in Nat, NEW R \in Nat \ {0}, NEW r \in 0 .. R - 1
    PROVE  (q * R + r) \div R = q /\ (q * R + r) % R = r
OBVIOUS

-----------------------------------------------------------------------------
(* Streams.                                                                *)

\* What is left after some cells is a stream.
LEMMA StreamSuffix ==
    ASSUME NEW m \in Nat, NEW s, Stream(s, m), NEW n \in 0 .. Len(s),
           NEW t, t = SubSeq(s, n + 1, Len(s))
    PROVE  Stream(t, m)
<1>1. /\ t \in Seq(Cells(m)) /\ Len(t) = Len(s) - n
      /\ \A i \in 1 .. Len(t) : t[i] = s[n + i]
  BY SuffixAt DEF Stream
<1>2. /\ Len(s) \in Nat /\ s \in Seq(Cells(m))
      /\ \A i \in 1 .. Len(t) : n + i \in 1 .. Len(s) /\ s[n + i] \in Cells(m)
  BY <1>1 DEF Stream
<1>3. \A j \in 1 .. Len(t) : j + BodyLen - t[j].part <= Len(t)
  <2> TAKE j \in 1 .. Len(t)
  <2>1. n + j \in 1 .. Len(s) /\ t[j] = s[n + j] BY <1>1, <1>2
  <2>2. (n + j) + BodyLen - s[n + j].part <= Len(s) BY <2>1 DEF Stream
  <2>3. s[n + j].part \in Nat BY <1>2, CellType
  <2> QED BY <1>1, <1>2, <2>1, <2>2, <2>3, Bounds, SMTT(20)
<1>4. ASSUME NEW j \in 1 .. Len(t), NEW k \in 1 .. Len(t)
      PROVE  /\ j <= k /\ k - j <= BodyLen - t[j].part => t[k] = Cell(t[j].req, t[j].part + (k - j))
             /\ j < k /\ t[k].part = 0 => t[j].req < t[k].req
  <2>1. PICK a \in 1 .. Len(s) : a = n + j BY <1>2
  <2>2. PICK b \in 1 .. Len(s) : b = n + k BY <1>2
  <2>3. t[j] = s[a] /\ t[k] = s[b] BY <1>1, <2>1, <2>2
  <2>4. b - a = k - j /\ (j <= k => a <= b) /\ (j < k => a < b) BY <1>2, <2>1, <2>2
  <2>5. /\ a <= b /\ b - a <= BodyLen - s[a].part => s[b] = Cell(s[a].req, s[a].part + (b - a))
        /\ a < b /\ s[b].part = 0 => s[a].req < s[b].req
    BY DEF Stream
  <2> QED BY <2>3, <2>4, <2>5
<1> QED BY <1>1, <1>3, <1>4 DEF Stream

\* The client appends a request.
LEMMA StreamExtended ==
    ASSUME NEW m \in Nat, NEW r, r = m + 1, NEW s, Stream(s, m), NEW t, t = s \o Request(r)
    PROVE  Stream(t, r)
<1>1. PICK L \in Nat : L = Len(s) BY DEF Stream
<1>2. PICK q : q = Request(r) OBVIOUS
<1>3. s \in Seq(Cells(r))
  <2>1. Cells(m) \subseteq Cells(r) BY DEF Cells
  <2> QED BY <2>1, SeqMono DEF Stream
<1>4. /\ q \in Seq(Cells(r)) /\ Len(q) = BodyLen + 1
      /\ \A i \in 1 .. BodyLen + 1 : q[i] = Cell(r, i - 1)
  <2>1. [req : {r}, part : 0 .. BodyLen] \subseteq Cells(r) BY DEF Cells
  <2>2. /\ q \in Seq([req : {r}, part : 0 .. BodyLen]) /\ Len(q) = BodyLen + 1
        /\ \A i \in 1 .. BodyLen + 1 : q[i] = Cell(r, i - 1)
    <3>1. r \in Nat OBVIOUS
    <3> QED BY <1>2, <3>1, RequestAt
  <2>3. q \in Seq(Cells(r)) BY <2>1, <2>2, SeqMono
  <2> QED BY <2>2, <2>3
<1>5. /\ t \in Seq(Cells(r)) /\ Len(t) = L + (BodyLen + 1)
      /\ \A i \in 1 .. L : t[i] = s[i]
      /\ \A i \in 1 .. BodyLen + 1 : t[L + i] = q[i]
  <2>1. t = s \o q BY <1>2
  <2>2. /\ s \o q \in Seq(Cells(r)) /\ Len(s \o q) = Len(s) + Len(q)
        /\ \A i \in 1 .. Len(s) : (s \o q)[i] = s[i]
        /\ \A i \in 1 .. Len(q) : (s \o q)[Len(s) + i] = q[i]
    BY <1>3, <1>4
  <2> QED BY <1>1, <1>4, <2>1, <2>2
<1>6. ASSUME NEW i \in 1 .. L
      PROVE  /\ t[i] = s[i] /\ s[i].req \in 1 .. m /\ s[i].part \in 0 .. BodyLen
             /\ i + BodyLen - s[i].part <= L
  <2>1. s[i] \in Cells(m) BY <1>1, ElementOf DEF Stream
  <2> QED BY <1>1, <1>5, <2>1, CellType DEF Stream
<1>7. ASSUME NEW i \in 1 .. Len(t), i > L
      PROVE  t[i] = Cell(r, i - L - 1) /\ t[i].req = r /\ t[i].part = i - L - 1
  <2>1. i - L \in 1 .. BodyLen + 1 /\ L + (i - L) = i BY <1>1, <1>5, <1>7, Bounds
  <2>2. t[i] = Cell(r, i - L - 1) BY <1>4, <1>5, <2>1
  <2> QED BY <2>2 DEF Cell
<1>8. \A j \in 1 .. Len(t) : j + BodyLen - t[j].part <= Len(t)
  <2> TAKE j \in 1 .. Len(t)
  <2>1. CASE j <= L BY <1>5, <1>6, <2>1, Bounds, SMTT(20)
  <2>2. CASE j > L BY <1>5, <1>7, <2>2, Bounds
  <2> QED BY <1>1, <1>5, <2>1, <2>2, Bounds
<1>9. ASSUME NEW j \in 1 .. Len(t), NEW k \in 1 .. Len(t)
      PROVE  /\ j <= k /\ k - j <= BodyLen - t[j].part => t[k] = Cell(t[j].req, t[j].part + (k - j))
             /\ j < k /\ t[k].part = 0 => t[j].req < t[k].req
  <2>1. CASE j <= L /\ k <= L
    <3>1. j \in 1 .. Len(s) /\ k \in 1 .. Len(s) /\ t[j] = s[j] /\ t[k] = s[k]
      BY <1>1, <1>5, <2>1, Bounds
    <3> QED BY <3>1 DEF Stream
  <2>2. CASE j <= L /\ k > L
    <3>1. /\ s[j].req \in 1 .. m /\ s[j].part \in 0 .. BodyLen /\ t[j] = s[j]
          /\ j + BodyLen - s[j].part <= L
      BY <1>1, <1>6, <2>2
    <3>2. ~(k - j <= BodyLen - s[j].part) BY <1>1, <1>5, <2>2, <3>1, Bounds
    <3>3. t[k].req = r BY <1>7, <2>2
    <3> QED BY <3>1, <3>2, <3>3
  <2>3. CASE j > L /\ k <= L
    BY <1>1, <1>5, <2>3, Bounds
  <2>4. CASE j > L /\ k > L
    <3>1. /\ t[j].req = r /\ t[j].part = j - L - 1
          /\ t[k] = Cell(r, k - L - 1) /\ t[k].part = k - L - 1
      BY <1>7, <2>4
    <3> QED BY <1>1, <1>5, <2>4, <3>1, Bounds, SMTT(20)
  <2> QED BY <1>1, <1>5, <2>1, <2>2, <2>3, <2>4, Bounds
<1> QED BY <1>5, <1>8, <1>9 DEF Stream

\* A stream that begins with a head begins with a request.
LEMMA StreamHead ==
    ASSUME NEW m \in Nat, NEW s, Stream(s, m), s # <<>>, s[1].part = 0
    PROVE  /\ Len(s) >= BodyLen + 1 /\ s[1].req \in 1 .. m
           /\ \A i \in 1 .. BodyLen + 1 : s[i] = Cell(s[1].req, i - 1)
<1>1. s \in Seq(Cells(m)) /\ 1 \in 1 .. Len(s) BY DEF Stream
<1>2. s[1] \in Cells(m) /\ Len(s) >= BodyLen + 1 BY <1>1, Bounds DEF Stream
<1>3. ASSUME NEW i \in 1 .. BodyLen + 1 PROVE s[i] = Cell(s[1].req, i - 1)
  <2>1. i \in 1 .. Len(s) /\ 1 <= i /\ i - 1 <= BodyLen - s[1].part
    BY <1>1, <1>2, Bounds
  <2> QED BY <1>1, <2>1 DEF Stream
<1> QED BY <1>2, <1>3 DEF Cells

\* A read of n cells moves them from t behind p: c is what has been read, u what is
\* left, s both.
Taking(p, t, n, c, u, s) ==
    /\ n \in 1 .. Len(t)
    /\ c = p \o <<>> \o SubSeq(t, 1, n) /\ u = SubSeq(t, n + 1, Len(t)) /\ s = p \o t

\* What has been read and what is left are together what there was.
LEMMA ReadCells ==
    ASSUME NEW S, NEW p \in Seq(S), NEW t \in Seq(S), NEW n, NEW c, NEW u, NEW s,
           Taking(p, t, n, c, u, s)
    PROVE  /\ c \in Seq(S) /\ u \in Seq(S) /\ s \in Seq(S)
           /\ Len(c) = Len(p) + n /\ Len(c) <= Len(s) /\ Len(u) = Len(s) - Len(c)
           /\ \A i \in 1 .. Len(c) : c[i] = s[i]
           /\ \A i \in 1 .. Len(u) : u[i] = s[Len(c) + i]
           /\ c \o u = s /\ u = SubSeq(s, Len(c) + 1, Len(s))
<1> USE DEF Taking
<1>1. PICK a : a = SubSeq(t, 1, n) OBVIOUS
<1>2. a \in Seq(S) /\ Len(a) = n /\ \A i \in 1 .. n : a[i] = t[i] BY <1>1, PrefixAt
<1>3. u \in Seq(S) /\ Len(u) = Len(t) - n /\ \A i \in 1 .. Len(t) - n : u[i] = t[n + i]
  BY SuffixAt
<1>4. c = p \o a BY <1>1
<1>5. c \in Seq(S) /\ Len(c) = Len(p) + n BY <1>2, <1>4
<1>6. s \in Seq(S) /\ Len(s) = Len(p) + Len(t) OBVIOUS
<1>7. \A i \in 1 .. Len(c) : c[i] = s[i] BY <1>2, <1>4, <1>5
<1>8. \A i \in 1 .. Len(u) : u[i] = s[Len(c) + i] BY <1>3, <1>5, <1>6
<1>9. c \o u = s
  <2>1. PICK w : w = c \o u OBVIOUS
  <2>2. w \in Seq(S) /\ Len(w) = Len(s) BY <1>3, <1>5, <1>6, <2>1
  <2>3. \A i \in 1 .. Len(s) : w[i] = s[i]
    <3> TAKE i \in 1 .. Len(s)
    <3>1. CASE i <= Len(c) BY <1>3, <1>5, <1>7, <2>1, <3>1
    <3>2. CASE i > Len(c)
      <4>1. i - Len(c) \in 1 .. Len(u) /\ Len(c) + (i - Len(c)) = i
        BY <1>3, <1>5, <1>6, <3>2
      <4>2. PICK j \in 1 .. Len(u) : j = i - Len(c) /\ i = Len(c) + j BY <4>1
      <4>3. w[Len(c) + j] = u[j] BY <1>3, <1>5, <2>1
      <4> QED BY <1>8, <4>2, <4>3
    <3> QED BY <1>5, <1>6, <3>1, <3>2
  <2> QED BY <1>6, <2>1, <2>2, <2>3, SeqEq
<1>10. u = SubSeq(s, Len(c) + 1, Len(s)) BY <1>3, <1>5, <1>6, <1>8
<1>11. Len(c) <= Len(s) /\ Len(u) = Len(s) - Len(c)
  <2>1. Len(p) \in Nat /\ Len(t) \in Nat /\ n \in Nat /\ n <= Len(t) BY ElementOf
  <2>2. PICK x \in Nat, y \in Nat : x = Len(p) /\ y = Len(t) BY <2>1
  <2>3. Len(s) = x + y /\ Len(c) = x + n /\ Len(u) = y - n BY <1>3, <1>5, <1>6, <2>2
  <2>4. n <= y BY <2>1, <2>2
  <2>5. x + n <= x + y /\ y - n = (x + y) - (x + n) BY <2>1, <2>4
  <2> QED BY <2>3, <2>5
<1> QED BY <1>3, <1>5, <1>6, <1>7, <1>8, <1>9, <1>10, <1>11

-----------------------------------------------------------------------------
(* One lemma per action.                                                   *)

\* No byte has come.
LEMMA InitRead == Init => IInv
BY Bounds DEF Init, IInv, ReadType, ReadInv, ReadsOneRequest, Stream, Unread, States

\* Nothing that leaves the input of the connection alone disturbs it.
LEMMA ReadFrame ==
    ASSUME IInv, UNCHANGED <<sent, headlike, net, m_buf, parsed, m_req, handled>>,
           state' \in States, state' = "reading" => state = "reading"
    PROVE  IInv'
<1>1. ReadType' BY DEF IInv, ReadType
<1>2. (headlike = {} => ReadInv)' BY DEF IInv, ReadInv, Unread
<1>3. ReadsOneRequest' BY DEF IInv, ReadsOneRequest
<1> QED BY <1>1, <1>2, <1>3 DEF IInv

\* run() throws parsed and m_buf away: what is on its way is still a stream.
LEMMA RunStep ==
    ASSUME IInv, run, UNCHANGED <<sent, headlike, net, handled>>
    PROVE  IInv'
<1>1. parsed' \o net' = net BY DEF run, IInv, ReadType
<1>2. <<>> \in Seq(Cells(sent)) OBVIOUS
<1>3. ReadType' BY <1>2 DEF run, IInv, ReadType, States
<1>4. (headlike = {} => ReadInv)' BY <1>1 DEF run, IInv, ReadInv, Unread
<1>5. ReadsOneRequest' BY DEF IInv, ReadsOneRequest
<1> QED BY <1>3, <1>4, <1>5 DEF IInv

\* The client has sent one more request: s was in order and unread, and is still.
LEMMA SendsUnread ==
    ASSUME ReadType, ReadInv, NEW s, Stream(s, sent), Unread(s), sent' = sent + 1,
           UNCHANGED handled,
           NEW r, r = sent + 1, NEW t, t = s \o Request(r)
    PROVE  Stream(t, r) /\ Unread(t)'
<1>1. sent \in Nat BY Bounds DEF ReadType
<1>2. Stream(t, r) BY <1>1, StreamExtended
<1>3. s \in Seq(Cells(sent)) /\ Len(s) \in Nat BY DEF Stream
<1>4. ASSUME NEW h \in DOMAIN handled PROVE handled[h][1].req \in Nat /\ handled[h][1].req < r
  <2>1. PICK k \in 1 .. sent : handled[h] = Body(k) BY DEF ReadInv
  <2>2. handled[h][1] = Cell(k, 1) BY <2>1, Bounds DEF Body
  <2> QED BY <1>1, <2>2 DEF Cell
<1>5. \A j \in 1 .. Len(t) : t[j].part = 0 => \A h \in DOMAIN handled : handled[h][1].req < t[j].req
  <2> SUFFICES ASSUME NEW j \in 1 .. Len(t), t[j].part = 0, NEW h \in DOMAIN handled
               PROVE  handled[h][1].req < t[j].req
    OBVIOUS
  <2>1. PICK q : q = Request(r) OBVIOUS
  <2>2. /\ q \in Seq([req : {r}, part : 0 .. BodyLen]) /\ Len(q) = BodyLen + 1
        /\ \A i \in 1 .. BodyLen + 1 : q[i].req = r
    <3>1. r \in Nat BY <1>1
    <3>2. \A i \in 1 .. BodyLen + 1 : q[i] = Cell(r, i - 1) BY <2>1, <3>1, RequestAt
    <3>3. \A i \in 1 .. BodyLen + 1 : q[i].req = r
      <4> TAKE i \in 1 .. BodyLen + 1
      <4>1. q[i] = Cell(r, i - 1) BY <3>2
      <4> QED BY <4>1 DEF Cell
    <3> QED BY <2>1, <3>1, <3>3, RequestAt
  <2>3. CASE j <= Len(s)
    <3>1. j \in 1 .. Len(s) BY <1>3, <2>3
    <3>2. t[j] = s[j] BY <1>3, <2>1, <2>2, <3>1
    <3> QED BY <3>1, <3>2 DEF Unread
  <2>4. CASE j > Len(s)
    <3>1. Len(t) = Len(s) + (BodyLen + 1) BY <1>3, <2>1, <2>2
    <3>2. PICK i \in 1 .. BodyLen + 1 : j = Len(s) + i
      <4>1. j - Len(s) \in 1 .. BodyLen + 1 /\ j = Len(s) + (j - Len(s))
        BY <1>3, <2>4, <3>1, Bounds
      <4> QED BY <4>1
    <3>3. t[Len(s) + i] = q[i] BY <1>3, <2>1, <2>2
    <3> QED BY <1>4, <2>2, <3>2, <3>3
  <2> QED BY <1>3, <2>3, <2>4
<1> QED BY <1>2, <1>5 DEF Unread

\* The client may send at any time.
LEMMA ClientSendsRead ==
    ASSUME IInv, ClientSends
    PROVE  IInv'
<1> USE DEF ClientSends, input
<1>1. sent \in Nat /\ sent' \in 0 .. N BY Bounds DEF IInv, ReadType
<1>2. PICK r \in Nat : r = sent + 1 /\ r = sent' BY <1>1
<1>3. PICK q : q = Request(r) OBVIOUS
<1>4. Cells(sent) \subseteq Cells(r) BY <1>1, <1>2 DEF Cells
<1>5. q \in Seq(Cells(r))
  <2>1. [req : {r}, part : 0 .. BodyLen] \subseteq Cells(r) BY <1>1, <1>2 DEF Cells
  <2>2. q \in Seq([req : {r}, part : 0 .. BodyLen]) BY <1>3, RequestAt
  <2> QED BY <2>1, <2>2, SeqMono
<1>6. /\ m_buf' \in Seq(Cells(r)) /\ parsed' \in Seq(Cells(r)) /\ net \in Seq(Cells(r))
  BY <1>4, SeqMono DEF IInv, ReadType
<1>7. net' \in Seq(Cells(r)) BY <1>2, <1>3, <1>5, <1>6
<1>8. handled' \in Seq(Seq(Cells(r)))
  <2>1. Seq(Cells(sent)) \subseteq Seq(Cells(r)) BY <1>4, SeqMono
  <2> QED BY <2>1, SeqMono DEF IInv, ReadType
<1>9. ReadType' BY <1>1, <1>2, <1>6, <1>7, <1>8 DEF IInv, ReadType
<1>10. ASSUME headlike' = {} PROVE ReadInv'
  <2>1. ReadType /\ ReadInv /\ headlike = {} BY <1>10 DEF IInv
  <2>2. Stream(net', r) /\ Unread(net)'
    <3>1. PICK s, t : s = net /\ t = net' OBVIOUS
    <3>2. Stream(t, r) /\ Unread(t)' BY <1>2, <1>3, <2>1, <3>1, SendsUnread DEF ReadInv
    <3> QED BY <3>1, <3>2 DEF Unread
  <2>3. state = "reading" => Stream(parsed' \o net', r) /\ Unread(parsed \o net)'
    <3> SUFFICES ASSUME state = "reading" PROVE Stream(parsed' \o net', r) /\ Unread(parsed \o net)'
      OBVIOUS
    <3>1. PICK s, t : s = parsed \o net /\ t = parsed' \o net' OBVIOUS
    <3>2. t = s \o q
      <4>1. parsed \in Seq(Cells(r)) /\ t = parsed \o (net \o q) BY <1>2, <1>3, <1>6, <3>1
      <4>2. parsed \o (net \o q) = (parsed \o net) \o q BY <1>5, <1>6, <4>1
      <4> QED BY <3>1, <4>1, <4>2
    <3>3. Stream(s, sent) /\ Unread(s) BY <2>1, <3>1 DEF ReadInv
    <3>4. Stream(t, r) /\ Unread(t)' BY <1>2, <1>3, <2>1, <3>2, <3>3, SendsUnread
    <3> QED BY <3>1, <3>4 DEF Unread
  <2>4. \A h \in DOMAIN handled' : \E k \in 1 .. sent' : handled'[h] = Body(k)
    <3>1. 1 .. sent \subseteq 1 .. sent' BY <1>1
    <3> QED BY <2>1, <3>1 DEF ReadInv
  <2> QED BY <1>2, <2>2, <2>3, <2>4 DEF ReadInv
<1>11. ReadsOneRequest'
  <2>1. headlike' = {} => headlike = {} OBVIOUS
  <2> QED BY <2>1 DEF IInv, ReadsOneRequest
<1> QED BY <1>9, <1>10, <1>11 DEF IInv

\* Cells that follow others of an unread stream are unread.
LEMMA RestUnread ==
    ASSUME NEW s, Unread(s), NEW n \in Nat, NEW u, Len(u) = Len(s) - n, Len(s) \in Nat, n <= Len(s),
           \A i \in 1 .. Len(u) : u[i] = s[n + i]
    PROVE  Unread(u)
<1> SUFFICES ASSUME NEW j \in 1 .. Len(u), u[j].part = 0, NEW h \in DOMAIN handled
             PROVE  handled[h][1].req < u[j].req
  BY DEF Unread
<1>1. PICK i \in 1 .. Len(s) : i = n + j /\ u[j] = s[i] OBVIOUS
<1> QED BY <1>1 DEF Unread

\* What one read does to the stream s: it has got c and leaves u, and the read is an
\* error, goes on, or hands a body over.
ReadOutcome(c, u, s) ==
    /\ c \in Seq(Cells(sent)) /\ u \in Seq(Cells(sent)) /\ s \in Seq(Cells(sent))
    /\ Len(c) >= 1 /\ Len(c) <= Len(s) /\ Len(u) = Len(s) - Len(c)
    /\ \A i \in 1 .. Len(c) : c[i] = s[i]
    /\ \A i \in 1 .. Len(u) : u[i] = s[Len(c) + i]
    /\ c \o u = s /\ u = SubSeq(s, Len(c) + 1, Len(s)) /\ net' = u
    /\ m_buf' \in Seq(Cells(sent)) /\ parsed' \in Seq(Cells(sent))
    /\ \/ Malformed(c) /\ state' = "ended" /\ UNCHANGED <<m_req, handled>>
       \/ /\ ~(Len(c) >= Wanted) /\ UNCHANGED <<state, m_req, handled>>
          /\ parsed' = c /\ m_buf' = <<>>
       \/ /\ ~Malformed(c) /\ Len(c) >= Wanted /\ state' = "processing"
          /\ parsed' = SubSeq(c, 1, Wanted) /\ m_buf' = SubSeq(c, Wanted + 1, Len(c))
          /\ m_req' = m_req \o Tail(parsed') /\ handled' = Append(handled, m_req')

\* A read of the socket, where nothing was left in m_buf.
LEMMA ReadReads ==
    ASSUME IInv, Read
    PROVE  /\ state = "reading" /\ m_buf = <<>> /\ m_req = <<>> /\ sent' = sent /\ sent \in Nat
           /\ headlike' = headlike
           /\ \E c, u, s : s = parsed \o net /\ ReadOutcome(c, u, s)
<1> DEFINE S == Cells(sent)
<1>1. /\ state = "reading" /\ m_buf = <<>> /\ m_req = <<>> /\ sent' = sent /\ sent \in Nat
      /\ headlike' = headlike /\ parsed \in Seq(S) /\ net \in Seq(S)
  BY Bounds DEF Read, client, IInv, ReadType
<1>2. PICK s : s = parsed \o net OBVIOUS
<1>4. PICK n \in 1 .. Len(net) :
        LET cells == parsed \o m_buf \o SubSeq(net, 1, n)
            complete == Len(cells) >= Wanted
            taken == IF complete THEN Wanted ELSE Len(cells)
        IN  /\ net' = SubSeq(net, n + 1, Len(net))
            /\ m_buf' = SubSeq(cells, taken + 1, Len(cells))
            /\ parsed' = SubSeq(cells, 1, taken)
            /\ \/ /\ Malformed(cells)
                  /\ state' = "ended" /\ UNCHANGED <<m_req, handled>>
               \/ /\ ~Malformed(cells) /\ ~complete
                  /\ UNCHANGED <<state, m_req, handled>>
               \/ /\ ~Malformed(cells) /\ complete
                  /\ state' = "processing"
                  /\ m_req' = m_req \o Tail(parsed')
                  /\ handled' = Append(handled, m_req')
  BY DEF Read
<1>5. PICK c : c = parsed \o m_buf \o SubSeq(net, 1, n) OBVIOUS
<1>6. PICK taken : taken = IF Len(c) >= Wanted THEN Wanted ELSE Len(c) OBVIOUS
<1>7. /\ net' = SubSeq(net, n + 1, Len(net))
      /\ m_buf' = SubSeq(c, taken + 1, Len(c)) /\ parsed' = SubSeq(c, 1, taken)
      /\ \/ Malformed(c) /\ state' = "ended" /\ UNCHANGED <<m_req, handled>>
         \/ ~(Len(c) >= Wanted) /\ UNCHANGED <<state, m_req, handled>>
         \/ /\ ~Malformed(c) /\ Len(c) >= Wanted
            /\ state' = "processing" /\ m_req' = m_req \o Tail(parsed')
            /\ handled' = Append(handled, m_req')
  BY <1>4, <1>5, <1>6
<1>8. PICK u : u = net' OBVIOUS
<1>9. /\ c \in Seq(S) /\ u \in Seq(S) /\ s \in Seq(S)
      /\ Len(c) = Len(parsed) + n /\ Len(c) <= Len(s) /\ Len(u) = Len(s) - Len(c)
      /\ \A i \in 1 .. Len(c) : c[i] = s[i]
      /\ \A i \in 1 .. Len(u) : u[i] = s[Len(c) + i]
      /\ c \o u = s /\ u = SubSeq(s, Len(c) + 1, Len(s))
  <2>1. PICK p \in Seq(S), t \in Seq(S) : p = parsed /\ t = net BY <1>1
  <2>2. Taking(p, t, n, c, u, s) BY <1>1, <1>2, <1>5, <1>7, <1>8, <2>1 DEF Taking
  <2>3. /\ c \in Seq(S) /\ u \in Seq(S) /\ s \in Seq(S)
        /\ Len(c) = Len(p) + n /\ Len(c) <= Len(s) /\ Len(u) = Len(s) - Len(c)
        /\ \A i \in 1 .. Len(c) : c[i] = s[i]
        /\ \A i \in 1 .. Len(u) : u[i] = s[Len(c) + i]
        /\ c \o u = s /\ u = SubSeq(s, Len(c) + 1, Len(s))
    <3> HIDE DEF S
    <3> QED BY <2>2, ReadCells
  <2> QED BY <2>1, <2>3
<1>10. /\ Len(c) \in Nat /\ Len(c) >= 1 /\ Len(s) \in Nat /\ Len(c) \in 0 .. Len(s)
       /\ taken \in 0 .. Len(c)
  <2>1. Len(parsed) \in Nat /\ Len(s) \in Nat /\ Len(c) \in Nat BY <1>1, <1>9
  <2> QED BY <1>6, <1>9, <2>1, Bounds DEF Wanted
<1>11. m_buf' \in Seq(S) /\ parsed' \in Seq(S)
  BY <1>7, <1>9, <1>10, SuffixAt, PrefixAt
<1>12. ReadOutcome(c, u, s)
  <2>1. CASE Len(c) >= Wanted
    <3>1. taken = Wanted BY <1>6, <2>1
    <3> QED BY <1>7, <1>8, <1>9, <1>10, <1>11, <2>1, <3>1 DEF ReadOutcome
  <2>2. CASE ~(Len(c) >= Wanted)
    <3>1. taken = Len(c) BY <1>6, <2>2
    <3>2. parsed' = c /\ m_buf' = <<>> BY <1>7, <1>9, <3>1, SubSeqAll
    <3> QED BY <1>7, <1>8, <1>9, <1>10, <1>11, <2>2, <3>2 DEF ReadOutcome
  <2> QED BY <2>1, <2>2
<1> QED BY <1>1, <1>2, <1>12

\* A request without its head is its body.
LEMMA BodyOf ==
    ASSUME NEW S, NEW p \in Seq(S), NEW k, Len(p) = BodyLen + 1,
           \A i \in 1 .. BodyLen + 1 : p[i] = Cell(k, i - 1)
    PROVE  Tail(p) = Body(k) /\ Body(k) \in Seq(S) /\ Body(k)[1].req = k
<1>1. PICK y : y = Tail(p) OBVIOUS
<1>2. y \in Seq(S) /\ Len(y) = BodyLen /\ \A i \in 1 .. BodyLen : y[i] = p[i + 1]
  BY <1>1, Bounds
<1>3. \A i \in 1 .. BodyLen : y[i] = Cell(k, i)
  <2> TAKE i \in 1 .. BodyLen
  <2>1. i + 1 \in 1 .. BodyLen + 1 /\ (i + 1) - 1 = i BY Bounds
  <2> QED BY <1>2, <2>1
<1>4. y = [i \in 1 .. BodyLen |-> y[i]] BY <1>2, AsFunction
<1>5. y = Body(k) BY <1>3, <1>4 DEF Body
<1>6. Body(k)[1] = Cell(k, 1) BY Bounds DEF Body
<1>7. Body(k)[1].req = k BY <1>6 DEF Cell
<1> QED BY <1>1, <1>2, <1>5, <1>7

\* What a read leaves has the right types.
LEMMA ReadTyped ==
    ASSUME IInv, Read
    PROVE  ReadType'
<1> DEFINE S == Cells(sent)
<1>1. state = "reading" /\ m_buf = <<>> /\ m_req = <<>> /\ sent' = sent BY ReadReads
<1>2. PICK c, u, s : s = parsed \o net /\ ReadOutcome(c, u, s) BY ReadReads
<1>3. /\ c \in Seq(S) /\ net' \in Seq(S) /\ m_buf' \in Seq(S) /\ parsed' \in Seq(S)
      /\ handled \in Seq(Seq(S)) /\ sent \in 0 .. N
  BY <1>2 DEF ReadOutcome, IInv, ReadType
<1>4. CASE state' = "ended" /\ UNCHANGED <<m_req, handled>>
  BY <1>1, <1>3, <1>4 DEF ReadType, States
<1>5. CASE UNCHANGED <<state, m_req, handled>> /\ m_buf' = <<>>
  BY <1>1, <1>3, <1>5 DEF ReadType, States
<1>6. CASE /\ Len(c) >= Wanted /\ state' = "processing" /\ parsed' = SubSeq(c, 1, Wanted)
           /\ m_req' = m_req \o Tail(parsed') /\ handled' = Append(handled, m_req')
  <2>1. Wanted \in 0 .. Len(c) /\ Wanted >= 1 BY <1>3, <1>6, Bounds DEF Wanted
  <2>2. Len(parsed') = Wanted BY <1>3, <1>6, <2>1, PrefixAt
  <2>3. Tail(parsed') \in Seq(S) BY <1>3, <2>1, <2>2
  <2>4. m_req' \in Seq(S) BY <1>1, <1>6, <2>3
  <2>5. handled' \in Seq(Seq(S)) BY <1>3, <1>6, <2>4
  <2> QED BY <1>1, <1>3, <1>6, <2>5 DEF ReadType, States
<1> QED BY <1>2, <1>4, <1>5, <1>6 DEF ReadOutcome

\* One read of the socket, however many cells it takes.
LEMMA ReadRead ==
    ASSUME IInv, Read, headlike = {}
    PROVE  ReadInv' /\ ReadsOneRequest'
<1> DEFINE S == Cells(sent)
<1>1. ReadType /\ ReadInv BY DEF IInv
<1>2. state = "reading" /\ m_buf = <<>> /\ m_req = <<>> /\ sent' = sent /\ sent \in Nat
  BY ReadReads
<1>3. PICK c, u, s : s = parsed \o net /\ ReadOutcome(c, u, s) BY ReadReads
<1>4. Stream(s, sent) /\ Unread(s) BY <1>1, <1>2, <1>3 DEF ReadInv
<1>5. /\ c \in Seq(S) /\ u \in Seq(S) /\ s \in Seq(S)
      /\ Len(c) \in Nat /\ Len(c) >= 1 /\ Len(s) \in Nat /\ Len(c) \in 0 .. Len(s)
      /\ Len(u) = Len(s) - Len(c)
      /\ \A i \in 1 .. Len(c) : c[i] = s[i]
      /\ \A i \in 1 .. Len(u) : u[i] = s[Len(c) + i]
      /\ u = SubSeq(s, Len(c) + 1, Len(s)) /\ net' = u
      /\ m_buf' \in Seq(S) /\ parsed' \in Seq(S)
  <2>1. c \in Seq(S) /\ s \in Seq(S) /\ Len(c) >= 1 /\ Len(c) <= Len(s) BY <1>3 DEF ReadOutcome
  <2>2. Len(c) \in Nat /\ Len(s) \in Nat BY <2>1, ElementOf
  <2>3. Len(c) \in 0 .. Len(s) BY <2>1, <2>2
  <2> QED BY <1>3, <2>1, <2>2, <2>3 DEF ReadOutcome
<1>6. Stream(u, sent) BY <1>2, <1>4, <1>5, StreamSuffix
<1>7. Unread(u)
  <2>1. /\ Len(c) \in Nat /\ Len(s) \in Nat /\ Len(c) <= Len(s) /\ Len(u) = Len(s) - Len(c)
        /\ \A i \in 1 .. Len(u) : u[i] = s[Len(c) + i]
    BY <1>5
  <2> QED BY <1>4, <2>1, RestUnread
<1>8. CASE state' = "ended" /\ UNCHANGED <<m_req, handled>>
  <2>1. ReadInv' BY <1>1, <1>2, <1>5, <1>6, <1>7, <1>8 DEF ReadInv, Unread
  <2> QED BY <1>8, <2>1 DEF IInv, ReadsOneRequest
<1>9. CASE UNCHANGED <<state, m_req, handled>> /\ parsed' = c /\ m_buf' = <<>>
  <2>1. parsed' \o net' = s BY <1>3, <1>9 DEF ReadOutcome
  <2>2. Stream(parsed' \o net', sent') /\ Unread(parsed \o net)'
    BY <1>2, <1>4, <1>9, <2>1 DEF Unread
  <2>3. ReadInv' BY <1>1, <1>2, <1>5, <1>6, <1>7, <1>9, <2>2 DEF ReadInv, Unread
  <2> QED BY <1>9, <2>3 DEF IInv, ReadsOneRequest
<1>10. CASE /\ ~Malformed(c) /\ Len(c) >= Wanted /\ state' = "processing"
            /\ parsed' = SubSeq(c, 1, Wanted)
            /\ m_req' = m_req \o Tail(parsed') /\ handled' = Append(handled, m_req')
  <2>1. s[1].part = 0 /\ s # <<>> /\ c[1] = s[1]
    BY <1>5, <1>10, SMTT(20) DEF Malformed
  <2>2. PICK k \in 1 .. sent : k = s[1].req /\ \A i \in 1 .. BodyLen + 1 : s[i] = Cell(k, i - 1)
    BY <1>2, <1>4, <2>1, StreamHead
  <2>3. PICK p \in Seq(S) : p = parsed' BY <1>5
  <2>4. Len(p) = BodyLen + 1 /\ \A i \in 1 .. BodyLen + 1 : p[i] = Cell(k, i - 1)
    <3>1. BodyLen + 1 \in 0 .. Len(c) BY <1>5, <1>10, Bounds DEF Wanted
    <3>2. Len(p) = BodyLen + 1 /\ \A i \in 1 .. BodyLen + 1 : p[i] = c[i]
      BY <1>5, <1>10, <2>3, <3>1, PrefixAt DEF Wanted
    <3>3. \A i \in 1 .. BodyLen + 1 : c[i] = s[i] BY <1>5, <3>1
    <3> QED BY <2>2, <3>2, <3>3
  <2>5. m_req' = Body(k) /\ Body(k) \in Seq(S) /\ Body(k)[1].req = k
    <3>1. Tail(p) = Body(k) /\ Body(k) \in Seq(S) /\ Body(k)[1].req = k
      BY <2>4, BodyOf
    <3>2. m_req' = Tail(p) BY <1>2, <1>10, <2>3, <2>4, Bounds
    <3> QED BY <3>1, <3>2
  <2>6. /\ handled \in Seq(Seq(S)) /\ handled' = Append(handled, Body(k))
        /\ \A h \in DOMAIN handled : handled[h][1].req < k
    <3>1. 1 \in 1 .. Len(s) BY <1>5
    <3>2. \A h \in DOMAIN handled : handled[h][1].req < s[1].req BY <1>4, <2>1, <3>1 DEF Unread
    <3> QED BY <1>1, <1>10, <2>2, <2>5, <3>2 DEF ReadType
  <2>7. /\ handled' \in Seq(Seq(S)) /\ Len(handled') = Len(handled) + 1 /\ Len(handled) \in Nat
        /\ handled'[Len(handled) + 1] = Body(k)
        /\ \A h \in 1 .. Len(handled) : handled'[h] = handled[h]
    BY <2>5, <2>6
  <2>8. \A h \in 1 .. Len(handled') : h \in 1 .. Len(handled) \/ h = Len(handled) + 1 BY <2>7
  <2>9. Unread(net)'
    <3> SUFFICES ASSUME NEW j \in 1 .. Len(u), u[j].part = 0, NEW h \in 1 .. Len(handled')
                 PROVE  handled'[h][1].req < u[j].req
      <4>1. net' = u /\ DOMAIN handled' = 1 .. Len(handled') BY <1>5, <2>7
      <4> QED BY <4>1 DEF Unread
    <3>1. CASE h \in 1 .. Len(handled)
      <4>1. h \in DOMAIN handled /\ handled'[h] = handled[h] BY <2>6, <2>7, <3>1
      <4> QED BY <1>7, <4>1 DEF Unread
    <3>2. CASE h = Len(handled) + 1
      <4>1. PICK i \in 1 .. Len(s) : i = Len(c) + j /\ u[j] = s[i] /\ 1 < i
        BY <1>5
      <4>2. s[1].req < s[i].req BY <1>4, <1>5, <4>1, SMTT(20) DEF Stream
      <4> QED BY <2>2, <2>5, <2>7, <3>2, <4>1, <4>2
    <3> QED BY <2>8, <3>1, <3>2
  <2>10. \A h \in DOMAIN handled' : \E b \in 1 .. sent' : handled'[h] = Body(b)
    <3> SUFFICES ASSUME NEW h \in 1 .. Len(handled')
                 PROVE  \E b \in 1 .. sent' : handled'[h] = Body(b)
      BY <2>7
    <3>1. CASE h \in 1 .. Len(handled)
      <4>1. h \in DOMAIN handled BY <2>6, <3>1
      <4>2. PICK b \in 1 .. sent : handled[h] = Body(b) BY <1>1, <4>1 DEF ReadInv
      <4> QED BY <1>2, <2>7, <3>1, <4>2
    <3>2. CASE h = Len(handled) + 1 BY <1>2, <2>7, <3>2
    <3> QED BY <2>8, <3>1, <3>2
  <2>11. ReadInv' BY <1>2, <1>5, <1>6, <1>10, <2>9, <2>10 DEF ReadInv
  <2>12. ReadsOneRequest'
    <3>1. \A j \in DOMAIN handled' : \E b \in Index : handled'[j] = Body(b)
      <4>1. 1 .. sent' \subseteq Index BY <1>1, <1>2, Bounds DEF Index, ReadType
      <4> QED BY <2>10, <4>1
    <3>2. ASSUME NEW j \in 1 .. Len(handled') - 1
          PROVE  handled'[j][1].req < handled'[j + 1][1].req
      <4>1. j \in 1 .. Len(handled) /\ j \in DOMAIN handled BY <2>6, <2>7
      <4>2. CASE j = Len(handled) BY <2>5, <2>6, <2>7, <4>1, <4>2
      <4>3. CASE j # Len(handled)
        <5>1. j \in 1 .. Len(handled) - 1 /\ j + 1 \in 1 .. Len(handled) BY <2>7, <4>1, <4>3
        <5> QED BY <2>7, <4>1, <5>1 DEF IInv, ReadsOneRequest
      <4> QED BY <4>2, <4>3
    <3> QED BY <3>1, <3>2 DEF ReadsOneRequest
  <2> QED BY <2>11, <2>12
<1> QED BY <1>3, <1>8, <1>9, <1>10 DEF ReadOutcome

\* Every step keeps the input a stream.
LEMMA NextRead == IInv /\ [Next]_vars => IInv'
<1> SUFFICES ASSUME IInv, [Next]_vars PROVE IInv' OBVIOUS
<1> USE DEF client, input
<1>1. state \in States BY DEF IInv, ReadType
<1>2. CASE Read
  <2>1. ReadType' /\ headlike' = headlike BY <1>2, ReadTyped, ReadReads
  <2>2. CASE headlike = {} BY <1>2, <2>1, <2>2, ReadRead DEF IInv
  <2>3. CASE headlike # {} BY <2>1, <2>3 DEF IInv, ReadsOneRequest
  <2> QED BY <2>2, <2>3
<1>3. CASE ReplyNow BY <1>3, ReadFrame DEF ReplyNow, States
<1>4. CASE ReplyLater BY <1>4, RunStep DEF ReplyLater
<1>5. CASE ReplyTwice BY <1>5, ReadFrame DEF ReplyTwice, States
<1>6. CASE NoReply BY <1>6, RunStep DEF NoReply
<1>7. CASE WriteNow
  <2>1. CASE run BY <1>7, <2>1, RunStep DEF WriteNow
  <2>2. CASE UNCHANGED input BY <1>1, <1>7, <2>2, ReadFrame DEF WriteNow
  <2> QED BY <1>7, <2>1, <2>2 DEF WriteNow
<1>8. ASSUME NEW k \in Index, PostedSend(k) PROVE IInv'
  BY <1>1, <1>8, ReadFrame DEF PostedSend
<1>9. ASSUME NEW k \in Index, Write(k) PROVE IInv'
  BY <1>1, <1>9, ReadFrame DEF Write
<1>10. CASE Destroy \/ Idle \/ UNCHANGED vars
  BY <1>1, <1>10, ReadFrame DEF Destroy, Idle, vars
<1> QED BY <1>2, <1>3, <1>4, <1>5, <1>6, <1>7, <1>8, <1>9, <1>10, ClientSendsRead
        DEF Next, Serve, Process

\* The input of the connection is a stream at all times.
LEMMA SpecRead == Spec => []IInv
BY InitRead, NextRead, PTL DEF Spec

\* However reads cut the bytes of the connection, and whether or not the client
\* pipelines: process_request is called with one whole body and nothing else, with
\* no body twice and never with an older one after a newer one, although run() throws
\* away what was read beyond the request; unless a body itself reads like a request.
THEOREM SessionReadsOneRequest == Spec => []ReadsOneRequest
BY SpecRead, PTL DEF IInv

-----------------------------------------------------------------------------
(* A client that waits for each reply before it sends the next request.    *)

Done(k) == k * ReplyLen

Idling == \A k \in Index : writing[k] = 0

Quiet == pending = {} /\ answer = 0 /\ Idling

\* w is the next piece of the reply to the last request, and nobody will begin another.
NextPiece(w) == pending = {} /\ w \in 1 .. ReplyLen /\ Len(replies) = Done(sent - 1) + (w - 1)

\* The last request is on its way; it was over a limit;
Coming ==
    /\ sent > 0 /\ Len(handled) = sent - 1 /\ Quiet /\ Len(replies) = Done(sent - 1)
    /\ state = "reading" /\ parsed \o net = Request(sent)
Dropped ==
    /\ sent > 0 /\ Len(handled) = sent - 1 /\ Quiet /\ Len(replies) = Done(sent - 1)
    /\ state = "ended" /\ big # {}

\* it is processed, answered at once, answered later, never answered;
InHand == sent > 0 /\ Len(handled) = sent /\ net = <<>> /\ m_buf = <<>>

Processed == InHand /\ state = "processing" /\ parsed = Request(sent)
                    /\ Quiet /\ Len(replies) = Done(sent - 1)
Writing   == InHand /\ state = "writing" /\ parsed = Request(sent) /\ Idling /\ NextPiece(answer)
Pending   == /\ InHand /\ state = "reading" /\ parsed = <<>>
             /\ pending = {sent} /\ answer = 0 /\ Idling /\ Len(replies) = Done(sent - 1)
Posted    == /\ InHand /\ state = "reading" /\ parsed = <<>> /\ answer = 0
             /\ NextPiece(writing[sent]) /\ \A k \in Index \ {sent} : writing[k] = 0
Silent    == /\ InHand /\ state = "reading" /\ parsed = <<>>
             /\ Quiet /\ Len(replies) = Done(sent - 1)

\* or it has been answered.
Answered ==
    /\ Len(handled) = sent /\ net = <<>> /\ m_buf = <<>> /\ state = "reading" /\ parsed = <<>>
    /\ Quiet /\ Len(replies) = Done(sent)

Turn == Coming \/ Dropped \/ Processed \/ Writing \/ Pending \/ Posted \/ Silent \/ Answered

Bodies == \A h \in 1 .. Len(handled) : handled[h] = Body(h)

Pieces ==
    /\ replies \in Seq([req : Nat, part : Nat])
    /\ \A j \in 1 .. Len(replies) :
        replies[j] = Cell(((j - 1) \div ReplyLen) + 1, ((j - 1) % ReplyLen) + 1)

WaitInv ==
    early = {} /\ twice = {} => writing \in [Index -> Nat] /\ Turn /\ Bodies /\ Pieces

\* One more reply is ReplyLen more pieces.
LEMMA DoneNext ==
    ASSUME NEW k \in Nat
    PROVE  /\ Done(k) \in Nat
           /\ k > 0 => Done(k - 1) \in Nat /\ Done(k) = Done(k - 1) + ReplyLen
BY Bounds DEF Done

\* A new connection: all of no requests have been answered.
LEMMA InitWait == Init => WaitInv
<1> SUFFICES ASSUME Init PROVE WaitInv OBVIOUS
<1>1. Done(0) = 0 BY Bounds DEF Done
<1>2. Answered BY <1>1 DEF Init, Answered, Quiet, Idling
<1>3. writing \in [Index -> Nat] BY DEF Init
<1> QED BY <1>2, <1>3 DEF Init, WaitInv, Turn, Bodies, Pieces

\* A client that waits sends only when it has been answered.
LEMMA ClientSendsWait ==
    ASSUME IInv, WaitInv, ClientSends, early' = {}, twice' = {}
    PROVE  WaitInv'
<1> USE DEF ClientSends, input
<1>1. early = {} /\ twice = {} /\ ~(Len(replies) < Done(sent)) BY DEF Done
<1>2. sent \in Nat BY Bounds DEF IInv, ReadType
<1>3. Answered
  <2>1. sent > 0 => Done(sent - 1) \in Nat /\ Done(sent) = Done(sent - 1) + ReplyLen
    BY <1>2, DoneNext
  <2>2. CASE sent > 0 /\ Len(replies) = Done(sent - 1) BY <1>1, <2>1, <2>2, Bounds
  <2>3. ASSUME sent > 0, NEW w, NextPiece(w) PROVE FALSE
    BY <1>1, <2>1, <2>3, Bounds DEF NextPiece
  <2> QED BY <1>1, <2>2, <2>3 DEF WaitInv, Turn, Coming, Dropped, InHand, Processed, Writing,
                               Pending, Posted, Silent
<1>4. Coming'
  <2>1. /\ sent' > 0 /\ sent' - 1 = sent
        /\ Len(handled') = sent' - 1 /\ Len(replies') = Done(sent' - 1)
    BY <1>2, <1>3 DEF Answered
  <2>2. Quiet' BY <1>3 DEF Answered, Quiet, Idling
  <2>3. parsed' \o net' = Request(sent')
    <3>1. PICK q : q = Request(sent') OBVIOUS
    <3>2. q \in Seq([req : {sent'}, part : 0 .. BodyLen]) BY <1>2, <3>1, RequestAt
    <3>3. parsed' = <<>> /\ net' = <<>> \o q BY <1>3, <3>1 DEF Answered
    <3> QED BY <3>1, <3>2, <3>3
  <2> QED BY <1>3, <2>1, <2>2, <2>3 DEF Coming, Answered
<1> QED BY <1>1, <1>4 DEF WaitInv, Turn, Bodies, Pieces

\* The phases that belong to each state of the chain of reads.
LEMMA Phase ==
    ASSUME WaitInv, early = {}, twice = {}
    PROVE  /\ net # <<>> => Coming \/ Dropped
           /\ state = "processing" => Processed
           /\ state = "writing" => Writing
           /\ pending # {} => Pending
           /\ (\E k \in Index : writing[k] # 0) => Posted
BY DEF WaitInv, Turn, Coming, Dropped, InHand, Processed, Writing, Pending, Posted, Silent,
   Answered, NextPiece, Quiet, Idling

\* The last request is one of the N.
LEMMA LastIndex ==
    ASSUME IInv, sent > 0
    PROVE  sent \in Nat /\ sent \in Index
BY Bounds DEF IInv, ReadType, Index

\* What is processed is the last request.
LEMMA CurrentLast ==
    ASSUME IInv, sent > 0, parsed = Request(sent)
    PROVE  current = sent
<1>1. sent \in Nat BY LastIndex
<1>2. PICK q : q = Request(sent) OBVIOUS
<1>3. q \in Seq([req : {sent}, part : 0 .. BodyLen]) /\ Len(q) = BodyLen + 1 /\ q[1] = Cell(sent, 0)
  <2>1. 1 \in 1 .. BodyLen + 1 /\ 1 - 1 = 0 BY Bounds
  <2> QED BY <1>1, <1>2, <2>1, RequestAt
<1>4. Head(q) = q[1] BY <1>3
<1> QED BY <1>2, <1>3, <1>4 DEF current, Cell

\* A read takes cells of the last request only, and ends with its last one.
LEMMA ReadWait ==
    ASSUME IInv, WaitInv, Read, early = {}, twice = {}
    PROVE  WaitInv'
<1>1. state = "reading" /\ m_buf = <<>> /\ m_req = <<>> /\ sent' = sent /\ sent \in Nat
  BY ReadReads
<1>2. PICK c, u, s : s = parsed \o net /\ ReadOutcome(c, u, s) BY ReadReads
<1>3. net # <<>> BY DEF Read
<1>4. Coming BY <1>1, <1>3, Phase DEF Dropped
<1>5. s = Request(sent) BY <1>2, <1>4 DEF Coming
<1>6. /\ s \in Seq(Cells(sent)) /\ Len(s) = BodyLen + 1
      /\ \A i \in 1 .. BodyLen + 1 : s[i] = Cell(sent, i - 1)
  BY <1>1, <1>2, <1>5, RequestAt DEF ReadOutcome
<1>7. UNCHANGED <<early, big, pending, twice, answer, writing, replies>> BY DEF Read, client
<1>8. c \in Seq(Cells(sent)) /\ Len(c) \in Nat /\ Len(c) >= 1 /\ c[1] = Cell(sent, 0)
  <2>1. c \in Seq(Cells(sent)) /\ Len(c) >= 1 /\ \A i \in 1 .. Len(c) : c[i] = s[i]
    BY <1>2 DEF ReadOutcome
  <2>2. Len(c) \in Nat /\ 1 \in 1 .. Len(c) BY <2>1, ElementOf
  <2>3. s[1] = Cell(sent, 0)
    <3>1. 1 \in 1 .. BodyLen + 1 /\ 1 - 1 = 0 BY Bounds
    <3> QED BY <1>6, <3>1
  <2> QED BY <2>1, <2>2, <2>3
<1>9. CASE Malformed(c) /\ state' = "ended" /\ UNCHANGED <<m_req, handled>>
  <2>1. big # {} BY <1>8, <1>9 DEF Malformed, Cell
  <2>2. Dropped' BY <1>1, <1>4, <1>7, <1>9, <2>1 DEF Coming, Dropped, Quiet, Idling
  <2> QED BY <1>7, <1>9, <2>2 DEF WaitInv, Turn, Bodies, Pieces
<1>10. CASE UNCHANGED <<state, m_req, handled>> /\ parsed' = c
  <2>1. parsed' \o net' = s BY <1>2, <1>10 DEF ReadOutcome
  <2>2. Coming' BY <1>1, <1>4, <1>5, <1>7, <1>10, <2>1 DEF Coming, Quiet, Idling
  <2> QED BY <1>7, <1>10, <2>2 DEF WaitInv, Turn, Bodies, Pieces
<1>11. CASE /\ Len(c) >= Wanted /\ state' = "processing"
            /\ parsed' = SubSeq(c, 1, Wanted) /\ m_buf' = SubSeq(c, Wanted + 1, Len(c))
            /\ m_req' = m_req \o Tail(parsed') /\ handled' = Append(handled, m_req')
  <2>1. Len(c) = BodyLen + 1 /\ Len(c) = Wanted
    BY <1>2, <1>6, <1>8, <1>11, Bounds DEF ReadOutcome, Wanted
  <2>2. c = s
    <3>1. \A i \in 1 .. Len(c) : c[i] = s[i] BY <1>2 DEF ReadOutcome
    <3> QED BY <1>6, <1>8, <2>1, <3>1, SeqEq
  <2>3. parsed' = s /\ m_buf' = <<>> BY <1>8, <1>11, <2>1, <2>2, SubSeqAll
  <2>4. net' = <<>>
    <3>1. u \in Seq(Cells(sent)) /\ Len(u) = 0 /\ net' = u
      BY <1>2, <1>6, <2>1, Bounds DEF ReadOutcome
    <3> QED BY <3>1
  <2>5. m_req' = Body(sent) /\ Body(sent) \in Seq(Cells(sent))
    <3>1. Tail(s) = Body(sent) /\ Body(sent) \in Seq(Cells(sent)) BY <1>6, BodyOf
    <3>2. m_req' = <<>> \o Body(sent) BY <1>1, <1>11, <2>3, <3>1
    <3>3. <<>> \o Body(sent) = Body(sent) BY <3>1
    <3> QED BY <3>1, <3>2, <3>3
  <2>6. /\ handled \in Seq(Seq(Cells(sent))) /\ handled' = Append(handled, Body(sent))
        /\ Len(handled) = sent - 1
    BY <1>4, <1>11, <2>5 DEF Coming, IInv, ReadType
  <2>7. /\ Len(handled') = sent /\ handled'[sent] = Body(sent)
        /\ \A h \in 1 .. Len(handled) : handled'[h] = handled[h]
    <3>1. /\ Len(handled') = Len(handled) + 1 /\ handled'[Len(handled) + 1] = Body(sent)
          /\ \A h \in 1 .. Len(handled) : handled'[h] = handled[h]
      BY <2>5, <2>6
    <3>2. (sent - 1) + 1 = sent BY <1>1
    <3> QED BY <2>6, <3>1, <3>2
  <2>8. Bodies'
    <3> SUFFICES ASSUME NEW h \in 1 .. Len(handled') PROVE handled'[h] = Body(h) BY DEF Bodies
    <3>1. CASE h = sent BY <2>7, <3>1
    <3>2. CASE h # sent
      <4>1. h \in 1 .. Len(handled) BY <1>1, <2>6, <2>7, <3>2
      <4>2. handled[h] = Body(h) BY <4>1 DEF WaitInv, Bodies
      <4> QED BY <2>7, <4>1, <4>2
    <3> QED BY <3>1, <3>2
  <2>9. Processed'
    BY <1>1, <1>4, <1>5, <1>7, <1>11, <2>3, <2>4, <2>7
       DEF Coming, Processed, InHand, Quiet, Idling
  <2> QED BY <1>7, <2>8, <2>9 DEF WaitInv, Turn, Pieces
<1> QED BY <1>2, <1>9, <1>10, <1>11 DEF ReadOutcome

\* process_request begins to write the reply.
LEMMA ReplyNowWait ==
    ASSUME IInv, WaitInv, ReplyNow, early = {}, twice = {}
    PROVE  WaitInv'
<1> USE DEF ReplyNow, client
<1>1. Processed BY Phase
<1>2. sent \in Nat BY <1>1, LastIndex DEF Processed, InHand
<1>3. Len(replies) = Done(sent - 1) + (1 - 1)
  BY <1>1, <1>2, DoneNext DEF Processed, InHand
<1>4. NextPiece(answer)' BY <1>1, <1>3, Bounds DEF NextPiece, Processed, Quiet
<1>5. Writing' BY <1>1, <1>4 DEF Processed, Writing, InHand, Quiet, Idling
<1> QED BY <1>5 DEF WaitInv, Turn, Bodies, Pieces

\* process_request leaves the reply to a handler, which may fail to give one.
LEMMA ReplyLaterWait ==
    ASSUME IInv, WaitInv, ReplyLater \/ NoReply, early = {}, twice = {}
    PROVE  WaitInv'
<1> USE DEF ReplyLater, NoReply, run, client
<1>1. Processed BY Phase
<1>2. current = sent BY <1>1, CurrentLast DEF Processed, InHand
<1>3. CASE ReplyLater
  <2>1. Pending' BY <1>1, <1>2, <1>3 DEF Processed, Pending, InHand, Quiet, Idling
  <2> QED BY <1>3, <2>1 DEF WaitInv, Turn, Bodies, Pieces
<1>4. CASE NoReply
  <2>1. Silent' BY <1>1, <1>4 DEF Processed, Silent, InHand, Quiet, Idling
  <2> QED BY <1>4, <2>1 DEF WaitInv, Turn, Bodies, Pieces
<1> QED BY <1>3, <1>4

\* The system executor begins to write it.
LEMMA PostedSendWait ==
    ASSUME IInv, WaitInv, NEW k \in Index, PostedSend(k), early = {}, twice = {}
    PROVE  WaitInv'
<1> USE DEF PostedSend, client, input
<1>1. Pending BY Phase
<1>2. sent \in Nat /\ sent \in Index /\ k = sent
  BY <1>1, LastIndex DEF Pending, InHand
<1>3. writing' = [writing EXCEPT ![sent] = 1] /\ writing \in [Index -> Nat] BY <1>2 DEF WaitInv
<1>4. writing' \in [Index -> Nat] BY <1>3
<1>5. writing'[sent] = 1 /\ \A i \in Index \ {sent} : writing'[i] = 0
  BY <1>1, <1>2, <1>3 DEF Pending, Idling
<1>6. Len(replies) = Done(sent - 1) + (1 - 1)
  BY <1>1, <1>2, DoneNext DEF Pending, InHand
<1>7. NextPiece(writing[sent])' BY <1>1, <1>2, <1>5, <1>6, Bounds DEF NextPiece, Pending
<1>8. Posted' BY <1>1, <1>5, <1>7 DEF Pending, Posted, InHand
<1> QED BY <1>4, <1>8 DEF WaitInv, Turn, Bodies, Pieces

\* The next piece of the reply to request k comes after those of the replies before it.
LEMMA PieceAt ==
    ASSUME Pieces, NEW k \in Nat, k > 0, NEW w \in 1 .. ReplyLen,
           Len(replies) = Done(k - 1) + (w - 1), replies' = Append(replies, Cell(k, w))
    PROVE  Pieces' /\ Len(replies') = Done(k - 1) + w
<1>1. PICK q \in Nat, r \in 0 .. ReplyLen - 1 : q = k - 1 /\ r = w - 1 BY Bounds
<1>2. k = q + 1 /\ w = r + 1 BY <1>1
<1>3. Len(replies) = q * ReplyLen + r BY <1>1 DEF Done
<1>4. (q * ReplyLen + r) \div ReplyLen = q /\ (q * ReplyLen + r) % ReplyLen = r
  BY BoundsAssumption, DivMod
<1>5. replies \in Seq([req : Nat, part : Nat]) /\ Cell(k, w) \in [req : Nat, part : Nat]
  BY Bounds DEF Pieces, Cell
<1>6. /\ replies' \in Seq([req : Nat, part : Nat]) /\ Len(replies') = Len(replies) + 1
      /\ replies'[Len(replies) + 1] = Cell(k, w)
      /\ \A j \in 1 .. Len(replies) : replies'[j] = replies[j]
  BY <1>5
<1>7. Len(replies) \in Nat BY <1>5
<1>8. ASSUME NEW j \in 1 .. Len(replies')
      PROVE  replies'[j] = Cell(((j - 1) \div ReplyLen) + 1, ((j - 1) % ReplyLen) + 1)
  <2>1. CASE j = Len(replies) + 1
    <3>1. j - 1 = q * ReplyLen + r BY <1>3, <1>7, <2>1
    <3>2. Cell(((j - 1) \div ReplyLen) + 1, ((j - 1) % ReplyLen) + 1) = Cell(k, w)
      BY <1>2, <1>4, <3>1
    <3> QED BY <1>6, <2>1, <3>2
  <2>2. CASE j # Len(replies) + 1
    <3>1. j \in 1 .. Len(replies)
      <4>1. PICK L \in Nat : L = Len(replies) BY <1>7
      <4>2. j \in 1 .. L + 1 /\ j # L + 1 BY <1>6, <2>2, <4>1
      <4>3. j \in 1 .. L BY <4>2
      <4> QED BY <4>1, <4>3
    <3> QED BY <1>6, <3>1 DEF Pieces
  <2> QED BY <2>1, <2>2
<1>9. Len(replies') = Done(k - 1) + w
  <2>1. Done(k - 1) \in Nat BY Bounds DEF Done
  <2> QED BY <1>6, <2>1
<1> QED BY <1>6, <1>8, <1>9 DEF Pieces

\* One more piece of the reply to the last request has been written: it was the last,
\* or there is a next one.
LEMMA PieceWritten ==
    ASSUME IInv, WaitInv, early = {}, twice = {}, sent > 0, NEW w, NextPiece(w),
           replies' = Append(replies, Cell(sent, w)), UNCHANGED <<sent, pending>>
    PROVE  /\ Pieces' /\ w \in 1 .. ReplyLen
           /\ w = ReplyLen => Len(replies') = Done(sent')
           /\ w # ReplyLen => NextPiece(w + 1)'
<1>1. sent \in Nat BY LastIndex
<1>2. w \in 1 .. ReplyLen /\ Len(replies) = Done(sent - 1) + (w - 1) BY DEF NextPiece
<1>3. Pieces' /\ Len(replies') = Done(sent - 1) + w BY <1>1, <1>2, PieceAt DEF WaitInv
<1>4. w = ReplyLen => Len(replies') = Done(sent') BY <1>1, <1>3, DoneNext
<1>5. ASSUME w # ReplyLen PROVE NextPiece(w + 1)'
  <2>1. w + 1 \in 1 .. ReplyLen /\ (w + 1) - 1 = w BY <1>2, <1>5, Bounds
  <2> QED BY <1>3, <2>1 DEF NextPiece
<1> QED BY <1>2, <1>3, <1>4, <1>5

\* process_request writes the reply to the last request, and nobody else writes.
LEMMA WriteNowWait ==
    ASSUME IInv, WaitInv, WriteNow, early = {}, twice = {}
    PROVE  WaitInv'
<1> USE DEF WriteNow, client
<1>1. Writing BY Phase
<1>2. InHand /\ sent > 0 /\ Idling BY <1>1 DEF Writing, InHand
<1>3. current = sent BY <1>1, <1>2, CurrentLast DEF Writing
<1>4. PICK w : w = answer /\ NextPiece(w) BY <1>1 DEF Writing
<1>5. /\ Pieces' /\ w \in 1 .. ReplyLen
      /\ w = ReplyLen => Len(replies') = Done(sent')
      /\ w # ReplyLen => NextPiece(w + 1)'
  <2>1. replies' = Append(replies, Cell(sent, w)) /\ UNCHANGED <<sent, pending>> BY <1>3, <1>4
  <2> QED BY <1>2, <1>4, <2>1, PieceWritten
<1>6. CASE w = ReplyLen
  <2>1. run /\ answer' = 0 BY <1>4, <1>5, <1>6, Bounds
  <2>2. Quiet' BY <1>2, <1>4, <2>1 DEF Quiet, Idling, NextPiece
  <2>3. Answered' BY <1>2, <1>5, <1>6, <2>1, <2>2 DEF Answered, InHand, run
  <2> QED BY <1>5, <2>3 DEF WaitInv, Turn, Bodies
<1>7. CASE w # ReplyLen
  <2>1. answer' = w + 1 /\ UNCHANGED <<m_buf, parsed, m_req, state>> BY <1>4, <1>7 DEF input
  <2>2. NextPiece(answer)' BY <1>5, <1>7, <2>1 DEF NextPiece
  <2>3. Writing' BY <1>1, <2>1, <2>2 DEF Writing, InHand, Idling
  <2> QED BY <1>5, <2>3 DEF WaitInv, Turn, Bodies
<1> QED BY <1>6, <1>7

\* The system executor writes it, and nobody else does.
LEMMA WriteWait ==
    ASSUME IInv, WaitInv, NEW k \in Index, Write(k), early = {}, twice = {}
    PROVE  WaitInv'
<1>1. /\ writing[k] > 0 /\ replies' = Append(replies, Cell(k, writing[k]))
      /\ writing' = [writing EXCEPT ![k] = IF writing[k] = ReplyLen THEN 0 ELSE writing[k] + 1]
      /\ UNCHANGED <<sent, early, big, net, m_buf, parsed, m_req, state, handled, pending, answer>>
  BY DEF Write, client, input
<1>2. Posted
  <2>1. writing[k] # 0 BY <1>1
  <2> QED BY <2>1, Phase
<1>3. InHand /\ sent > 0 /\ sent \in Index BY <1>2, LastIndex DEF Posted, InHand
<1>4. k = sent BY <1>1, <1>2 DEF Posted
<1>5. PICK w : w = writing[sent] /\ NextPiece(w) BY <1>2 DEF Posted
<1>6. /\ Pieces' /\ w \in 1 .. ReplyLen
      /\ w = ReplyLen => Len(replies') = Done(sent')
      /\ w # ReplyLen => NextPiece(w + 1)'
  BY <1>1, <1>3, <1>4, <1>5, PieceWritten
<1>7. writing \in [Index -> Nat] BY DEF WaitInv
<1>8. /\ writing' = [writing EXCEPT ![sent] = IF w = ReplyLen THEN 0 ELSE w + 1]
      /\ writing' \in [Index -> Nat]
  BY <1>1, <1>3, <1>4, <1>5, <1>6, <1>7, Bounds
<1>9. /\ writing'[sent] = IF w = ReplyLen THEN 0 ELSE w + 1
      /\ \A i \in Index \ {sent} : writing'[i] = 0
  BY <1>2, <1>3, <1>7, <1>8 DEF Posted
<1>10. Bodies' BY <1>1 DEF WaitInv, Bodies
<1>11. CASE w = ReplyLen
  <2>1. Quiet' BY <1>1, <1>2, <1>5, <1>9, <1>11 DEF Quiet, Idling, Posted, NextPiece
  <2>2. Answered' BY <1>1, <1>2, <1>3, <1>6, <1>11, <2>1 DEF Answered, Posted, InHand
  <2> QED BY <1>6, <1>8, <1>10, <2>2 DEF WaitInv, Turn
<1>12. CASE w # ReplyLen
  <2>1. NextPiece(writing[sent])' BY <1>1, <1>6, <1>9, <1>12 DEF NextPiece
  <2>2. Posted' BY <1>1, <1>2, <1>9, <2>1 DEF Posted, InHand
  <2> QED BY <1>6, <1>8, <1>10, <2>2 DEF WaitInv, Turn
<1> QED BY <1>11, <1>12

\* Every step leads from a phase to a phase.
LEMMA NextWait == IInv /\ WaitInv /\ [Next]_vars => WaitInv'
<1> SUFFICES ASSUME IInv, WaitInv, [Next]_vars, early' = {}, twice' = {} PROVE WaitInv'
  BY DEF WaitInv
<1> USE DEF client
<1>1. CASE ClientSends BY <1>1, ClientSendsWait
<1>2. CASE Read BY <1>2, ReadWait DEF Read
<1>3. CASE ReplyNow BY <1>3, ReplyNowWait DEF ReplyNow
<1>4. CASE ReplyLater \/ NoReply BY <1>4, ReplyLaterWait DEF ReplyLater, NoReply
<1>5. CASE ReplyTwice BY <1>5 DEF ReplyTwice
<1>6. CASE WriteNow BY <1>6, WriteNowWait DEF WriteNow
<1>7. ASSUME NEW k \in Index, PostedSend(k) PROVE WaitInv'
  BY <1>7, PostedSendWait DEF PostedSend
<1>8. ASSUME NEW k \in Index, Write(k) PROVE WaitInv'
  BY <1>8, WriteWait DEF Write
<1>9. CASE Destroy \/ Idle \/ UNCHANGED vars
  <2>1. UNCHANGED <<sent, early, big, net, m_buf, parsed, m_req, state, handled, pending, twice,
                    answer, writing, replies>>
    BY <1>9 DEF Destroy, Idle, vars, input
  <2>2. Turn <=> Turn'
    BY <2>1 DEF Turn, Coming, Dropped, InHand, Processed, Writing, Pending, Posted, Silent,
       Answered, NextPiece, Quiet, Idling
  <2> QED BY <2>1, <2>2 DEF WaitInv, Bodies, Pieces
<1> QED BY <1>1, <1>2, <1>3, <1>4, <1>5, <1>6, <1>7, <1>8, <1>9 DEF Next, Serve, Process

\* The connection of a client that waits is in one of the phases.
LEMMA SpecWait == Spec => [](IInv /\ WaitInv)
BY InitRead, NextRead, InitWait, NextWait, PTL DEF Spec

\* In each phase nothing is lost.
LEMMA WaitNothingLost == IInv /\ WaitInv => NothingLost
<1> SUFFICES ASSUME IInv, WaitInv, early \cup big \cup twice = {}
             PROVE  /\ handled = [j \in DOMAIN handled |-> Body(j)]
                    /\ state # "ended"
                    /\ state = "reading" /\ Len(handled) < sent
                         => parsed \o m_buf \o net = Request(sent)
  BY DEF NothingLost
<1>1. early = {} /\ big = {} /\ twice = {} OBVIOUS
<1>2. Turn /\ Bodies BY <1>1 DEF WaitInv
<1>3. handled = [j \in DOMAIN handled |-> Body(j)]
  <2>1. handled \in Seq(Seq(Cells(sent))) BY DEF IInv, ReadType
  <2>2. DOMAIN handled = 1 .. Len(handled) /\ handled = [j \in 1 .. Len(handled) |-> handled[j]]
    BY <2>1
  <2> QED BY <1>2, <2>2 DEF Bodies
<1>4. state # "ended"
  BY <1>1, <1>2 DEF Turn, Coming, Dropped, Processed, Writing, Pending, Posted, Silent, Answered
<1>5. ASSUME state = "reading", Len(handled) < sent PROVE parsed \o m_buf \o net = Request(sent)
  <2>1. sent \in Nat BY Bounds DEF IInv, ReadType
  <2>2. Coming
    BY <1>2, <1>5, <2>1 DEF Turn, Dropped, InHand, Processed, Writing, Pending, Posted, Silent,
       Answered
  <2>3. m_buf = <<>> /\ parsed \in Seq(Cells(sent)) BY <1>5 DEF IInv, ReadType
  <2>4. parsed \o m_buf = parsed BY <2>3
  <2> QED BY <2>2, <2>4 DEF Coming
<1> QED BY <1>3, <1>4, <1>5

\* A client that waits for each reply, stays within the limits and is answered once
\* each time loses nothing, although run() throws away what was read beyond a request:
\* request j is the j-th that process_request is called with, the connection does not
\* end, and what has been read of the next request and what is still to come are
\* together that request.
THEOREM SessionNothingLost == Spec => []NothingLost
BY SpecWait, WaitNothingLost, PTL

\* The replies of such a client come whole and in order, although the io thread and the
\* system executor write to one socket without a queue: as long as no handler both posts
\* and returns its reply, as a create-tx or send-tx that fails does, there is never more
\* than one reply to write.
THEOREM SessionRepliesWhole == Spec => []RepliesWhole
<1>1. WaitInv => RepliesWhole
  <2> SUFFICES ASSUME WaitInv, early \cup twice = {}
               PROVE  \A j \in DOMAIN replies :
                        replies[j] = Cell(((j - 1) \div ReplyLen) + 1, ((j - 1) % ReplyLen) + 1)
    BY DEF RepliesWhole
  <2>1. early = {} /\ twice = {} OBVIOUS
  <2>2. Pieces BY <2>1 DEF WaitInv
  <2>3. DOMAIN replies = 1 .. Len(replies) BY <2>2 DEF Pieces
  <2> QED BY <2>2, <2>3 DEF Pieces
<1> QED BY <1>1, SpecWait, PTL
=============================================================================
