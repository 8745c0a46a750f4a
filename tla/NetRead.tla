------------------------------- MODULE NetRead -------------------------------
(***************************************************************************)
(* PKI_NET_get_data (net/sock.c) reading one connected socket: the loop of *)
(* PKI_NET_read calls, each a select() loop followed by one recv(), and    *)
(* the max_size truncation, against a peer that sends bytes, closes the    *)
(* connection or resets it.                                                *)
(*                                                                         *)
(* The socket is a byte queue: the peer appends to inq, recv() removes a   *)
(* prefix of at most BUFF_MAX_SIZE bytes (the kernel may return fewer).    *)
(* sent is every byte the peer has sent, so the bytes the reader has       *)
(* consumed are the first Len(sent) - Len(inq) of it.  Signals and         *)
(* spurious readiness are environment events, bounded by MaxIntr.          *)
(***************************************************************************)
EXTENDS Integers, Sequences

CONSTANTS
    Data,       \* byte values
    MaxStream,  \* bytes the peer sends over the connection
    BuffMax,    \* BUFF_MAX_SIZE: the size of tmp_buff, recv()'s nbytes
    MaxSizes,   \* max_size arguments the caller passes (0: no limit)
    Timeouts,   \* timeout arguments the caller passes (<= 0: none)
    MaxIntr,    \* EINTRs and spurious wake-ups the environment delivers
    Null

ASSUME NetReadAssumption ==
    /\ MaxStream \in Nat /\ BuffMax \in Nat \ {0} /\ MaxIntr \in Nat
    /\ MaxSizes \subseteq Nat /\ Timeouts \subseteq Int
    /\ Null \notin Seq(Data)

VARIABLES
    inq,        \* bytes in the socket's receive queue
    sent,       \* every byte the peer has sent
    peer,       \* "open", "closed" (FIN sent) or "reset" (RST sent)
    pc,         \* "idle", "select" (in PKI_NET_read's loop), "recv"
    timeout,    \* the current call's timeout
    maxSize,    \* the current call's max_size
    buf,        \* the PKI_MEM buffer get_data is filling
    start,      \* bytes consumed when the current call began
    result,     \* what the last call returned: a buffer or Null
    intr        \* environment events delivered so far

vars == <<inq, sent, peer, pc, timeout, maxSize, buf, start, result, intr>>

(* Bytes the reader has taken out of the socket. *)
consumed == Len(sent) - Len(inq)

(* select() reports the socket readable: data, EOF or a pending reset. *)
Readable == inq # <<>> \/ peer # "open"

TypeOK ==
    /\ inq \in Seq(Data) /\ sent \in Seq(Data)
    /\ peer \in {"open", "closed", "reset"}
    /\ pc \in {"idle", "select", "recv"}
    /\ timeout \in Timeouts \cup {0} /\ maxSize \in MaxSizes \cup {0}
    /\ buf \in Seq(Data) /\ start \in Nat
    /\ result \in Seq(Data) \cup {Null}
    /\ intr \in 0..MaxIntr

Init ==
    /\ inq = <<>> /\ sent = <<>> /\ peer = "open"
    /\ pc = "idle" /\ timeout = 0 /\ maxSize = 0
    /\ buf = <<>> /\ start = 0 /\ result = Null /\ intr = 0

-----------------------------------------------------------------------------
(* The peer. *)

PeerSend(d) ==
    /\ peer = "open" /\ Len(sent) < MaxStream
    /\ inq' = Append(inq, d) /\ sent' = Append(sent, d)
    /\ UNCHANGED <<peer, pc, timeout, maxSize, buf, start, result, intr>>

PeerClose ==
    /\ peer = "open" /\ peer' = "closed"
    /\ UNCHANGED <<inq, sent, pc, timeout, maxSize, buf, start, result, intr>>

PeerReset ==
    /\ peer = "open" /\ peer' = "reset"
    /\ UNCHANGED <<inq, sent, pc, timeout, maxSize, buf, start, result, intr>>

-----------------------------------------------------------------------------
(* PKI_NET_get_data.  The fd < 1 check and PKI_MEM_new_null are left out: *)
(* the caller passes the connected socket.                                 *)
PKI_NET_get_data(t, m) ==
    /\ pc = "idle"
    /\ pc' = "select" /\ timeout' = t /\ maxSize' = m
    /\ buf' = <<>> /\ start' = consumed /\ result' = Null
    /\ UNCHANGED <<inq, sent, peer, intr>>

(* Faulty variant: a one-byte buffer is taken for an empty one. *)
Return_OffByOne(b) ==
    /\ pc' = "idle" /\ buf' = <<>>
    /\ result' = IF Len(b) <= 1 THEN Null ELSE b

(* The end of get_data: an empty buffer is freed and NULL returned,        *)
(* anything else is returned, whatever ended the loop.                     *)
Return(b) ==
    /\ pc' = "idle" /\ buf' = <<>>
    /\ result' = IF Len(b) <= 0 THEN Null ELSE b

(* PKI_NET_read returned 0 (EOF) or less (timeout, error): the while loop  *)
(* ends on 0 and breaks on newsize < 0.                                    *)
ReadEnds == Return(buf)

(* PKI_NET_read returned the newsize > 0 bytes d: past max_size only the   *)
(* bytes up to max_size are added and the loop ends; otherwise all are     *)
(* added and get_data calls PKI_NET_read again.                            *)
(* Faulty variant: the truncation keeps the end of tmp_buff. *)
Truncate_KeepsTail(d) ==
    Return(buf \o SubSeq(d, Len(d) - (maxSize - Len(buf)) + 1, Len(d)))

Truncate(d) == Return(buf \o SubSeq(d, 1, maxSize - Len(buf)))

(* Faulty variant: past max_size the whole of tmp_buff is added. *)
GotData_NoTruncate(d) ==
    \/ /\ maxSize > 0 /\ Len(buf) + Len(d) > maxSize
       /\ Return(buf \o d)
    \/ /\ ~(maxSize > 0 /\ Len(buf) + Len(d) > maxSize)
       /\ buf' = buf \o d /\ pc' = "select" /\ UNCHANGED result

GotData(d) ==
    \/ /\ maxSize > 0 /\ Len(buf) + Len(d) > maxSize
       /\ Truncate(d)
    \/ /\ ~(maxSize > 0 /\ Len(buf) + Len(d) > maxSize)
       /\ buf' = buf \o d /\ pc' = "select" /\ UNCHANGED result

-----------------------------------------------------------------------------
(* PKI_NET_read: fcntl(O_NONBLOCK) on the connected socket succeeds; then  *)
(* the select loop, with the timeval set afresh on every pass.             *)

(* select() fails with EINTR: "continue". *)
SelectInterrupted ==
    /\ pc = "select" /\ intr < MaxIntr
    /\ intr' = intr + 1
    /\ UNCHANGED <<inq, sent, peer, pc, timeout, maxSize, buf, start, result>>

(* select() fails otherwise: return -1. *)
SelectFails ==
    /\ pc = "select"
    /\ ReadEnds
    /\ UNCHANGED <<inq, sent, peer, timeout, maxSize, start, intr>>

(* Faulty variant: an expired timeout restarts the select loop. *)
SelectTimesOut_Retries ==
    /\ pc = "select" /\ timeout > 0 /\ ~Readable
    /\ UNCHANGED vars

(* timeout > 0 and nothing became readable in time: return -1. *)
SelectTimesOut ==
    /\ pc = "select" /\ timeout > 0 /\ ~Readable
    /\ ReadEnds
    /\ UNCHANGED <<inq, sent, peer, timeout, maxSize, start, intr>>

(* The socket is in the read set. *)
SelectReady ==
    /\ pc = "select" /\ Readable
    /\ pc' = "recv"
    /\ UNCHANGED <<inq, sent, peer, timeout, maxSize, buf, start, result, intr>>

(* A spurious wake-up: select() reports the socket but recv() finds none. *)
SelectSpurious ==
    /\ pc = "select" /\ ~Readable /\ intr < MaxIntr
    /\ pc' = "recv" /\ intr' = intr + 1
    /\ UNCHANGED <<inq, sent, peer, timeout, maxSize, buf, start, result>>

(* recv() of up to BUFF_MAX_SIZE bytes returns k of them. *)
RecvData ==
    /\ pc = "recv" /\ peer # "reset" /\ inq # <<>>
    /\ \E k \in 1..BuffMax :
         /\ k <= Len(inq)
         /\ inq' = SubSeq(inq, k + 1, Len(inq))
         /\ GotData(SubSeq(inq, 1, k))
    /\ UNCHANGED <<sent, peer, timeout, maxSize, start, intr>>

(* recv() returns 0 at EOF: "break", n = 0. *)
RecvEof ==
    /\ pc = "recv" /\ peer = "closed" /\ inq = <<>>
    /\ ReadEnds
    /\ UNCHANGED <<inq, sent, peer, timeout, maxSize, start, intr>>

(* recv() fails with EWOULDBLOCK: "continue" to select again. *)
RecvWouldBlock ==
    /\ pc = "recv" /\ peer = "open" /\ inq = <<>>
    /\ pc' = "select"
    /\ UNCHANGED <<inq, sent, peer, timeout, maxSize, buf, start, result, intr>>

(* recv() fails otherwise (ECONNRESET): "break" with n < 0. *)
RecvFails ==
    /\ pc = "recv" /\ peer = "reset"
    /\ ReadEnds
    /\ UNCHANGED <<inq, sent, peer, timeout, maxSize, start, intr>>

-----------------------------------------------------------------------------
PeerNext == \/ \E d \in Data : PeerSend(d)
            \/ PeerClose
            \/ PeerReset

ReaderNext ==
    \/ \E t \in Timeouts, m \in MaxSizes : PKI_NET_get_data(t, m)
    \/ SelectInterrupted \/ SelectFails \/ SelectTimesOut
    \/ SelectReady \/ SelectSpurious
    \/ RecvData \/ RecvEof \/ RecvWouldBlock \/ RecvFails

Next == PeerNext \/ ReaderNext

(* The reading thread runs whenever it can: a select() with a timeout      *)
(* returns once the socket is readable or the timeout expires, and a       *)
(* readable socket's recv() returns.  Errors, signals and the peer get no  *)
(* fairness: they may or may not happen.                                   *)
Fairness ==
    /\ WF_vars(SelectTimesOut) /\ WF_vars(SelectReady)
    /\ WF_vars(RecvData) /\ WF_vars(RecvEof)
    /\ WF_vars(RecvWouldBlock) /\ WF_vars(RecvFails)

Spec == Init /\ [][Next]_vars /\ Fairness

-----------------------------------------------------------------------------
(* Properties. *)

(* No byte is lost, duplicated or reordered inside a call: while           *)
(* get_data runs, its buffer holds exactly the bytes its PKI_NET_read      *)
(* calls consumed, in stream order, and what it returns is a contiguous    *)
(* piece of the stream starting where the call began.  A truncation that   *)
(* kept the wrong end of tmp_buff, or a loop that re-added a stale         *)
(* tmp_buff after EWOULDBLOCK, breaks it.                                  *)
InOrder ==
    /\ pc # "idle" => buf = SubSeq(sent, start + 1, consumed)
    /\ pc = "idle" /\ result # Null =>
         result = SubSeq(sent, start + 1, start + Len(result))

(* With max_size > 0 the buffer never grows past max_size bytes, however   *)
(* the stream is split across recv() calls (the comparison of              *)
(* buf->size + newsize with max_size and the truncated PKI_MEM_add).       *)
BoundedBuffer ==
    maxSize > 0 =>
        /\ Len(buf) <= maxSize
        /\ result # Null => Len(result) <= maxSize

(* get_data returns NULL only when the call consumed nothing from the      *)
(* socket: bytes it read are never dropped with a NULL result.             *)
NullOnlyIfNothingRead ==
    pc = "idle" /\ result = Null => consumed = start

(* With a timeout, get_data always returns, whatever the peer does: every *)
(* select() pass is bounded by the timeout and the peer sends finitely     *)
(* many bytes.  Without one (timeout <= 0) a silent peer blocks it         *)
(* forever, which is what the NULL timeval asks for.                       *)
GetDataReturns ==
    (pc # "idle" /\ timeout > 0) ~> (pc = "idle")

====
