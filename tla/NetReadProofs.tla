---------------------------- MODULE NetReadProofs ----------------------------
(***************************************************************************)
(* Proofs, for every stream length, buffer size, max_size and timeout,    *)
(* that PKI_NET_get_data (net/sock.c) returns the socket's bytes in order  *)
(* and never grows its buffer past max_size (the properties InOrder,       *)
(* BoundedBuffer and NullOnlyIfNothingRead of NetRead).                    *)
(***************************************************************************)
EXTENDS NetRead, SequenceTheorems, TLAPS

USE NetReadAssumption

(* A piece of a piece of s is a piece of s. *)
LEMMA SubSeqShift ==
  ASSUME NEW S, NEW s \in Seq(S), NEW a \in Nat, NEW n \in Nat,
         a + n <= Len(s), NEW i \in 1 .. n + 1, NEW j \in i - 1 .. n
  PROVE  SubSeq(SubSeq(s, a + 1, a + n), i, j) = SubSeq(s, a + i, a + j)
<1>1. SubSeq(s, a + 1, a + n) \in Seq(S) /\ Len(SubSeq(s, a + 1, a + n)) = n
  BY SubSeqProperties
<1>2. \A k \in 1 .. n : SubSeq(s, a + 1, a + n)[k] = s[a + k]
  BY SubSeqProperties
<1>. QED
  BY <1>1, <1>2, SubSeqProperties, SeqEqual

(* The unread suffix of s from c, split after its first k elements.      *)
LEMMA QueueSplit ==
  ASSUME NEW S, NEW s \in Seq(S), NEW c \in 0 .. Len(s), NEW q,
         q = SubSeq(s, c + 1, Len(s)), NEW k \in 1 .. Len(s) - c
  PROVE  /\ SubSeq(q, k + 1, Len(q)) = SubSeq(s, c + k + 1, Len(s))
         /\ SubSeq(q, 1, k) = SubSeq(s, c + 1, c + k)
<1>1. q \in Seq(S) /\ Len(q) = Len(s) - c /\ \A i \in 1 .. Len(q) : q[i] = s[c + i]
  BY SubSeqProperties
<1>2. SubSeq(q, k + 1, Len(q)) = SubSeq(s, c + k + 1, Len(s))
  BY <1>1, SubSeqProperties, SeqEqual
<1>3. SubSeq(q, 1, k) = SubSeq(s, c + 1, c + k)
  BY <1>1, SubSeqProperties, SeqEqual
<1>. QED
  BY <1>2, <1>3

(* The first r elements of the piece of s after c of length k.           *)
LEMMA PrefixOfPiece ==
  ASSUME NEW S, NEW s \in Seq(S), NEW c \in Nat, NEW k \in Nat, c + k <= Len(s),
         NEW r \in 0 .. k
  PROVE  SubSeq(SubSeq(s, c + 1, c + k), 1, r) = SubSeq(s, c + 1, c + r)
BY SubSeqProperties, SeqEqual

(* Adjacent pieces of s concatenate to one piece.                         *)
LEMMA AdjacentPieces ==
  ASSUME NEW S, NEW s \in Seq(S), NEW a \in Nat, NEW b \in a .. Len(s),
         NEW e \in b .. Len(s)
  PROVE  SubSeq(s, a + 1, b) \o SubSeq(s, b + 1, e) = SubSeq(s, a + 1, e)
BY ConcatAdjacentSubSeq

(* The length and type of a piece of s.                                  *)
LEMMA PieceProperties ==
  ASSUME NEW S, NEW s \in Seq(S), NEW m \in 1 .. Len(s) + 1, NEW n \in m - 1 .. Len(s)
  PROVE  SubSeq(s, m, n) \in Seq(S) /\ Len(SubSeq(s, m, n)) = n - m + 1
BY SubSeqProperties

(* Appending to s leaves its pieces up to Len(s) unchanged. *)
LEMMA AppendKeepsSubSeq ==
  ASSUME NEW S, NEW s \in Seq(S), NEW x \in S, NEW m \in Nat, NEW n \in 0 .. Len(s)
  PROVE  SubSeq(Append(s, x), m + 1, n) = SubSeq(s, m + 1, n)
BY AppendProperties, SubSeqProperties, SeqEqual

(* The unread suffix grows with the stream. *)
LEMMA AppendSuffix ==
  ASSUME NEW S, NEW s \in Seq(S), NEW x \in S, NEW c \in 0 .. Len(s)
  PROVE  Append(SubSeq(s, c + 1, Len(s)), x) = SubSeq(Append(s, x), c + 1, Len(s) + 1)
BY AppendProperties, SubSeqProperties, SeqEqual

-----------------------------------------------------------------------------
(* The inductive invariant.  The socket's queue is the part of the stream  *)
(* not yet consumed; a running call's buffer is the part consumed since it *)
(* began; a returned buffer is a consumed piece starting there, no longer  *)
(* than max_size; NULL is returned only with nothing consumed.            *)
Stream == inq = SubSeq(sent, consumed + 1, Len(sent))

IInv ==
    /\ TypeOK
    /\ Len(inq) <= Len(sent)
    /\ Stream
    /\ start <= consumed
    /\ pc = "idle" => buf = <<>>
    /\ pc # "idle" => /\ buf = SubSeq(sent, start + 1, consumed)
                      /\ result = Null
                      /\ maxSize > 0 => Len(buf) <= maxSize
    /\ result # Null => /\ start + Len(result) <= consumed
                        /\ result = SubSeq(sent, start + 1, start + Len(result))
                        /\ maxSize > 0 => Len(result) <= maxSize
    /\ pc = "idle" /\ result = Null => consumed = start

LEMMA InitIInv == Init => IInv
BY SubSeqEmpty DEF Init, IInv, TypeOK, Stream, consumed

LEMMA IInvImpliesProperties ==
  IInv => InOrder /\ BoundedBuffer /\ NullOnlyIfNothingRead
BY DEF IInv, InOrder, BoundedBuffer, NullOnlyIfNothingRead, TypeOK

(* The peer's send extends the stream and the queue by the same byte.     *)
LEMMA PeerSendIInv ==
  ASSUME IInv, NEW d \in Data, PeerSend(d)
  PROVE  IInv'
<1>1. /\ Len(sent') = Len(sent) + 1 /\ Len(inq') = Len(inq) + 1
      /\ sent' \in Seq(Data) /\ inq' \in Seq(Data)
  BY AppendProperties DEF PeerSend, IInv, TypeOK
<1>2. consumed' = consumed
  BY <1>1 DEF consumed
<1>3. consumed \in 0 .. Len(sent) /\ sent \in Seq(Data) /\ start \in Nat
  BY DEF IInv, TypeOK, consumed
<1>4. Stream'
  <2>1. Append(SubSeq(sent, consumed + 1, Len(sent)), d)
          = SubSeq(Append(sent, d), consumed + 1, Len(sent) + 1)
    BY <1>3, AppendSuffix
  <2>. QED
    BY <1>1, <1>2, <2>1 DEF PeerSend, IInv, Stream
<1>5. pc' # "idle" => buf' = SubSeq(sent', start' + 1, consumed')
  <2>1. SubSeq(Append(sent, d), start + 1, consumed) = SubSeq(sent, start + 1, consumed)
    BY <1>3, AppendKeepsSubSeq
  <2>. QED
    BY <1>2, <2>1 DEF PeerSend, IInv
<1>6. result' # Null =>
        result' = SubSeq(sent', start' + 1, start' + Len(result'))
  <2>. SUFFICES ASSUME result # Null
                PROVE  result' = SubSeq(sent', start' + 1, start' + Len(result'))
    BY DEF PeerSend
  <2>1. start + Len(result) \in 0 .. Len(sent)
    BY <1>3 DEF IInv, TypeOK, consumed
  <2>2. SubSeq(Append(sent, d), start + 1, start + Len(result))
          = SubSeq(sent, start + 1, start + Len(result))
    BY <1>3, <2>1, AppendKeepsSubSeq
  <2>. QED
    BY <2>2 DEF PeerSend, IInv
<1>7. TypeOK'
  BY <1>1 DEF PeerSend, IInv, TypeOK
<1>8. /\ Len(inq') <= Len(sent')
      /\ start' <= consumed'
      /\ pc' = "idle" => buf' = <<>>
      /\ pc' # "idle" => /\ result' = Null
                         /\ maxSize' > 0 => Len(buf') <= maxSize'
      /\ result' # Null => /\ start' + Len(result') <= consumed'
                           /\ maxSize' > 0 => Len(result') <= maxSize'
      /\ pc' = "idle" /\ result' = Null => consumed' = start'
  BY <1>1, <1>2 DEF PeerSend, IInv
<1>. QED
  BY <1>4, <1>5, <1>6, <1>7, <1>8 DEF IInv

(* Steps that only move the reader inside PKI_NET_read, or change the     *)
(* peer's state, leave every conjunct as it was.                           *)
LEMMA ControlStepIInv ==
  ASSUME IInv,
         \/ PeerClose \/ PeerReset
         \/ SelectInterrupted \/ SelectReady \/ SelectSpurious
         \/ RecvWouldBlock
  PROVE  IInv'
<1>1. CASE PeerClose \/ PeerReset
  BY <1>1 DEF IInv, TypeOK, Stream, consumed, PeerClose, PeerReset
<1>2. CASE SelectInterrupted
  BY <1>2 DEF IInv, TypeOK, Stream, consumed, SelectInterrupted
<1>3. CASE SelectReady \/ RecvWouldBlock
  BY <1>3 DEF IInv, TypeOK, Stream, consumed, SelectReady, RecvWouldBlock
<1>4. CASE SelectSpurious
  BY <1>4 DEF IInv, TypeOK, Stream, consumed, SelectSpurious
<1>. QED
  BY <1>1, <1>2, <1>3, <1>4

(* A new call starts with an empty buffer at the current stream position. *)
LEMMA GetDataIInv ==
  ASSUME IInv, NEW t \in Timeouts, NEW m \in MaxSizes, PKI_NET_get_data(t, m)
  PROVE  IInv'
<1>1. SubSeq(sent, consumed + 1, consumed) = <<>>
  BY SubSeqEmpty DEF IInv, TypeOK, consumed
<1>. QED
  BY <1>1 DEF PKI_NET_get_data, IInv, TypeOK, Stream, consumed

(* The loop ends (select fails or times out, recv sees EOF or a reset):    *)
(* the buffer, whole, is returned, or NULL if it is empty.                 *)
LEMMA ReadEndsIInv ==
  ASSUME IInv, pc # "idle", ReadEnds,
         UNCHANGED <<inq, sent, peer, timeout, maxSize, start, intr>>
  PROVE  IInv'
<1>1. /\ buf = SubSeq(sent, start + 1, consumed)
      /\ buf \in Seq(Data) /\ Len(buf) = consumed - start
  BY SubSeqProperties DEF IInv, TypeOK, consumed
<1>2. CASE Len(buf) <= 0
  BY <1>1, <1>2 DEF ReadEnds, Return, IInv, TypeOK, Stream, consumed
<1>3. CASE Len(buf) > 0
  <2>1. result' = buf /\ pc' = "idle" /\ buf' = <<>>
    BY <1>3 DEF ReadEnds, Return
  <2>2. start' + Len(result') <= consumed' /\ start' = start /\ consumed' = consumed
    BY <1>1, <2>1 DEF IInv, TypeOK, consumed
  <2>3. result' = SubSeq(sent', start' + 1, start' + Len(result'))
    <3>1. start + Len(buf) = consumed /\ sent' = sent
      BY <1>1 DEF IInv, TypeOK
    <3>. QED
      BY <1>1, <2>1, <2>2, <3>1
  <2>4. maxSize' > 0 => Len(result') <= maxSize'
    BY <2>1 DEF IInv
  <2>5. TypeOK' /\ Stream' /\ Len(inq') <= Len(sent') /\ start' <= consumed'
    BY <1>1, <2>1 DEF IInv, TypeOK, Stream, consumed
  <2>6. result' # Null
    BY <1>1, <2>1
  <2>. QED
    BY <1>3, <2>1, <2>2, <2>3, <2>4, <2>5, <2>6 DEF IInv
<1>. QED
  BY <1>2, <1>3

(* recv() takes the next k bytes of the stream off the queue; get_data     *)
(* appends them to its buffer, or, past max_size, appends the first        *)
(* max_size - buf->size of them and returns.  Either way the buffer stays  *)
(* the stream piece consumed since the call began.                         *)
LEMMA RecvDataIInv ==
  ASSUME IInv, RecvData
  PROVE  IInv'
<1>. PICK k \in 1 .. BuffMax :
        /\ k <= Len(inq)
        /\ inq' = SubSeq(inq, k + 1, Len(inq))
        /\ GotData(SubSeq(inq, 1, k))
  BY DEF RecvData
<1>1. /\ pc # "idle" /\ sent' = sent /\ start' = start /\ maxSize' = maxSize
      /\ UNCHANGED <<peer, timeout, intr>>
  BY DEF RecvData
<1>2. /\ sent \in Seq(Data) /\ inq \in Seq(Data) /\ start \in Nat
      /\ maxSize \in Nat /\ k \in Nat
      /\ consumed \in 0 .. Len(sent) /\ k \in 1 .. Len(sent) - consumed
      /\ inq = SubSeq(sent, consumed + 1, Len(sent))
      /\ start \in 0 .. consumed
      /\ buf = SubSeq(sent, start + 1, consumed) /\ result = Null
      /\ maxSize > 0 => Len(buf) <= maxSize
  BY <1>1 DEF IInv, TypeOK, Stream, consumed
<1>3. /\ buf \in Seq(Data) /\ Len(buf) = consumed - start
  BY <1>2, SubSeqProperties
<1>4. /\ inq' = SubSeq(sent, consumed + k + 1, Len(sent))
      /\ SubSeq(inq, 1, k) = SubSeq(sent, consumed + 1, consumed + k)
  BY <1>2, QueueSplit
<1>5. /\ inq' \in Seq(Data) /\ Len(inq') = Len(inq) - k
      /\ consumed' = consumed + k
  <2>1. inq' \in Seq(Data) /\ Len(inq') = Len(inq) - k
    <3>1. k + 1 \in 1 .. Len(inq) + 1 /\ Len(inq) \in (k + 1) - 1 .. Len(inq)
      BY <1>2
    <3>. QED
      BY <1>2, <3>1, PieceProperties
  <2>2. consumed' = consumed + k
    <3>1. Len(sent') = Len(sent) /\ Len(sent) \in Nat /\ Len(inq) \in Nat
      BY <1>1, <1>2
    <3>2. consumed' = Len(sent') - Len(inq') /\ consumed = Len(sent) - Len(inq)
      BY DEF consumed
    <3>. QED
      BY <2>1, <3>1, <3>2
  <2>. QED
    BY <2>1, <2>2
<1>6. /\ SubSeq(inq, 1, k) \in Seq(Data) /\ Len(SubSeq(inq, 1, k)) = k
  BY PieceProperties DEF IInv, TypeOK
<1>8. /\ Stream' /\ Len(inq') <= Len(sent') /\ start' <= consumed'
  <2>1. Stream'
    BY <1>1, <1>4, <1>5 DEF Stream
  <2>2. Len(inq') <= Len(sent')
    BY <1>1, <1>5 DEF IInv
  <2>3. start' <= consumed'
    BY <1>1, <1>2, <1>5
  <2>. QED
    BY <2>1, <2>2, <2>3
<1>9. CASE ~(maxSize > 0 /\ Len(buf) + k > maxSize)
  <2>1. /\ buf' = buf \o SubSeq(inq, 1, k) /\ pc' = "select" /\ result' = Null
    BY <1>2, <1>6, <1>9 DEF GotData
  <2>2. buf' = SubSeq(sent', start' + 1, consumed')
    <3>1. SubSeq(sent, start + 1, consumed) \o SubSeq(sent, consumed + 1, consumed + k)
            = SubSeq(sent, start + 1, consumed + k)
      BY <1>2, AdjacentPieces
    <3>. QED
      BY <1>1, <1>2, <1>4, <1>5, <2>1, <3>1
  <2>3. buf' \in Seq(Data) /\ Len(buf') = Len(buf) + k
    BY <1>3, <1>6, <2>1, ConcatProperties
  <2>4. TypeOK'
    BY <1>1, <1>5, <2>1, <2>3 DEF IInv, TypeOK
  <2>5. maxSize' > 0 => Len(buf') <= maxSize'
    BY <1>1, <1>2, <1>3, <1>9, <2>3
  <2>. QED
    BY <1>1, <1>8, <2>1, <2>2, <2>4, <2>5 DEF IInv
<1>10. CASE maxSize > 0 /\ Len(buf) + k > maxSize
  <2>. DEFINE r == maxSize - Len(buf)
  <2>1. r \in 0 .. k - 1
    BY <1>2, <1>3, <1>10
  <2>2. SubSeq(SubSeq(inq, 1, k), 1, r) = SubSeq(sent, consumed + 1, consumed + r)
    <3>1. SubSeq(SubSeq(sent, consumed + 1, consumed + k), 1, r)
            = SubSeq(sent, consumed + 1, consumed + r)
      BY <1>2, <2>1, PrefixOfPiece
    <3>. QED
      BY <1>4, <3>1
  <2>3. buf \o SubSeq(SubSeq(inq, 1, k), 1, r) = SubSeq(sent, start + 1, consumed + r)
    <3>1. SubSeq(sent, start + 1, consumed) \o SubSeq(sent, consumed + 1, consumed + r)
            = SubSeq(sent, start + 1, consumed + r)
      BY <1>2, <2>1, AdjacentPieces
    <3>. QED
      BY <1>2, <2>2, <3>1
  <2>4. /\ SubSeq(sent, start + 1, consumed + r) \in Seq(Data)
        /\ Len(SubSeq(sent, start + 1, consumed + r)) = maxSize
    BY <1>2, <1>3, <1>10, <2>1, SubSeqProperties
  <2>5. /\ result' = SubSeq(sent, start + 1, consumed + r)
        /\ pc' = "idle" /\ buf' = <<>>
    <3>1. Truncate(SubSeq(inq, 1, k))
      BY <1>6, <1>10 DEF GotData
    <3>2. Len(buf \o SubSeq(SubSeq(inq, 1, k), 1, r)) = maxSize /\ maxSize \in Nat
      BY <1>2, <2>3, <2>4
    <3>3. ~(Len(buf \o SubSeq(SubSeq(inq, 1, k), 1, maxSize - Len(buf))) <= 0)
      BY <1>10, <3>2 DEF r
    <3>4. result' = buf \o SubSeq(SubSeq(inq, 1, k), 1, r)
      BY <3>1, <3>3, Zenon DEF Truncate, Return, r
    <3>. QED
      BY <2>3, <3>1, <3>4 DEF Truncate, Return
  <2>6. result' # Null
    BY <2>4, <2>5
  <2>7. /\ start' + Len(result') <= consumed'
        /\ result' = SubSeq(sent', start' + 1, start' + Len(result'))
        /\ Len(result') <= maxSize'
    BY <1>1, <1>2, <1>3, <1>5, <2>1, <2>4, <2>5
  <2>8. TypeOK'
    <3>1. result' \in Seq(Data) /\ buf' \in Seq(Data) /\ inq' \in Seq(Data)
      BY <1>5, <2>4, <2>5
    <3>. QED
      BY <1>1, <2>5, <3>1 DEF IInv, TypeOK
  <2>. QED
    BY <1>1, <1>8, <2>5, <2>6, <2>7, <2>8 DEF IInv
<1>. QED
  BY <1>9, <1>10

-----------------------------------------------------------------------------
LEMMA NextIInv == IInv /\ [Next]_vars => IInv'
<1>. SUFFICES ASSUME IInv, [Next]_vars PROVE IInv'
  OBVIOUS
<1>1. CASE \E d \in Data : PeerSend(d)
  BY <1>1, PeerSendIInv
<1>2. CASE \E t \in Timeouts, m \in MaxSizes : PKI_NET_get_data(t, m)
  BY <1>2, GetDataIInv
<1>3. CASE SelectFails \/ SelectTimesOut \/ RecvEof \/ RecvFails
  <2>1. pc # "idle" /\ ReadEnds
        /\ UNCHANGED <<inq, sent, peer, timeout, maxSize, start, intr>>
    BY <1>3 DEF SelectFails, SelectTimesOut, RecvEof, RecvFails
  <2>. QED
    BY <2>1, ReadEndsIInv
<1>4. CASE RecvData
  BY <1>4, RecvDataIInv
<1>5. CASE PeerClose \/ PeerReset \/ SelectInterrupted \/ SelectReady
           \/ SelectSpurious \/ RecvWouldBlock
  BY <1>5, ControlStepIInv
<1>6. CASE UNCHANGED vars
  BY <1>6 DEF vars, IInv, TypeOK, Stream, consumed
<1>. QED
  BY <1>1, <1>2, <1>3, <1>4, <1>5, <1>6 DEF Next, PeerNext, ReaderNext

LEMMA IInvInvariant == Spec => []IInv
BY InitIInv, NextIInv, PTL DEF Spec

(* Within a call of PKI_NET_get_data, however recv() splits the stream     *)
(* and wherever max_size cuts it, the buffer is the bytes consumed since   *)
(* the call began, in order, and the buffer returned a prefix of what the  *)
(* socket delivered from there: no byte lost, duplicated or reordered.     *)
THEOREM InOrderInvariant == Spec => []InOrder
BY IInvInvariant, IInvImpliesProperties, PTL

(* get_data never accumulates, nor returns, more than max_size bytes when  *)
(* max_size > 0, for every BUFF_MAX_SIZE and every split of the stream.    *)
THEOREM BoundedBufferInvariant == Spec => []BoundedBuffer
BY IInvInvariant, IInvImpliesProperties, PTL

(* get_data returns NULL only after a call that consumed nothing: bytes    *)
(* it took from the socket are never thrown away with a NULL result.       *)
THEOREM NullOnlyIfNothingReadInvariant == Spec => []NullOnlyIfNothingRead
BY IInvInvariant, IInvImpliesProperties, PTL

====
