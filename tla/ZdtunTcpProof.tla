--------------------------- MODULE ZdtunTcpProof ---------------------------
(***************************************************************************)
(* Proofs about ZdtunTcp, for every window, segment size, stream and       *)
(* environment.                                                            *)
(***************************************************************************)
EXTENDS ZdtunTcp, SequenceTheorems, TLAPS

USE ConstantsAssumption
-----------------------------------------------------------------------------
(***************************************************************************)
(* The helpers.                                                            *)
(***************************************************************************)
Replies == [flags : SUBSET {"SYN", "ACK", "FIN", "RST", "URG"},
            seq : Nat, ack : Nat, len : Nat, first : Nat]

\* Bytes(a, b) is a sequence of byte numbers (it stands for a payload).
LEMMA BytesType ==
    ASSUME NEW a \in Nat, NEW b \in Int
    PROVE  Bytes(a, b) \in Seq(Nat)
  BY DEF Bytes

\* ... of the bytes from a to b
LEMMA BytesLen ==
    ASSUME NEW a \in Nat, NEW b \in Int, b >= a - 1
    PROVE  Len(Bytes(a, b)) = b - a + 1
  BY DEF Bytes

\* The window a client advertises is a number as long as its buffer is not overrun.
LEMMA WindowType ==
    ASSUME NEW used \in Nat, used <= RcvBuf
    PROVE  Window(used) \in Nat
  BY DEF Window
-----------------------------------------------------------------------------
(***************************************************************************)
(* Type correctness.  The inductive invariant adds what keeps the unsigned *)
(* fields of the code and of the segments from going below zero.           *)
(***************************************************************************)
QueueSized == Len(tx_queue) <= tx_queue_size

ConnInv == ConnTypeOK /\ QueueSized

ClientInv ==
    /\ ClientTypeOK
    /\ rcv_used <= RcvBuf
    /\ cl_state # "CLOSED" => snd_nxt >= 1
    /\ cl_state = "CLOSED" => snd_nxt = 0
    /\ cl_state = "ESTABLISHED" => snd_una >= 1

TunInv ==
    /\ ready \in {"idle", "tun", "rd", "wr", "stopped"}
    /\ tun \in Seq(Segments)
    /\ ready = "tun" => tun # <<>>

TypeInv == ConnInv /\ ClientInv /\ ServerTypeOK /\ TunInv

\* A segment of the client is well formed.
LEMMA SegmentType ==
    ASSUME ClientInv,
           NEW flags \in SUBSET {"SYN", "ACK", "FIN", "RST", "URG"},
           NEW seq \in Nat, NEW len \in Nat
    PROVE  Segment(flags, seq, len) \in Segments
  <1>1. Window(rcv_used) \in Nat
    BY WindowType DEF ClientInv, ClientTypeOK
  <1> QED
    BY <1>1 DEF Segment, Segments, ClientInv, ClientTypeOK

\* build_reply_tcpip: a segment of zdtun is well formed.
LEMMA ReplyType ==
    ASSUME TypeInv,
           NEW flags \in SUBSET {"SYN", "ACK", "FIN", "RST", "URG"},
           NEW ack \in Nat, NEW len \in Nat
    PROVE  Reply(flags, ack, len) \in Replies
  BY DEF Reply, Replies, TypeInv, ConnInv, ConnTypeOK, ServerTypeOK

\* Whatever segment it gets, the client stays well typed: it takes no more than
\* it has room for.
LEMMA ClientGetsType ==
    ASSUME ClientInv, NEW seg \in Replies, ClientGets(seg)
    PROVE  ClientInv'
  <1>1. CASE ClientOpens(seg)
    BY <1>1 DEF ClientGets, ClientOpens, AnswersSyn, ClientInv, ClientTypeOK, Replies
  <1>2. CASE ClientAborts(seg)
    BY <1>2 DEF ClientGets, ClientAborts, AnswersSyn, Acceptable, ClientInv, ClientTypeOK
  <1>3. CASE ClientTakes(seg)
    <2>1. Accepted(seg) \in Nat /\ rcv_used + Accepted(seg) <= RcvBuf
      BY DEF Accepted, MinOf, ClientInv, ClientTypeOK, Replies
    <2>2. Bytes(seg.first, seg.first + Accepted(seg) - 1) \in Seq(Nat)
      BY <2>1, BytesType DEF Replies
    <2>3. toClient' \in Seq(Nat)
      BY <1>3, <2>2 DEF ClientTakes, ClientInv, ClientTypeOK
    <2>4. snd_una' \in Nat /\ snd_una' >= snd_una
      BY <1>3 DEF ClientTakes, MaxOf, ClientInv, ClientTypeOK, Replies
    <2>5. rcv_nxt' \in Nat /\ rcv_used' \in Nat /\ rcv_used' <= RcvBuf
      BY <1>3, <2>1 DEF ClientTakes, ClientInv, ClientTypeOK
    <2>6. ack_due' \in BOOLEAN /\ cl_eof' \in BOOLEAN
      BY <1>3 DEF ClientTakes
    <2> QED
      BY <1>3, <2>3, <2>4, <2>5, <2>6 DEF ClientGets, ClientTakes, ClientInv, ClientTypeOK
  <1>4. CASE ClientDrops(seg)
    BY <1>4 DEF ClientGets, ClientDrops, Acceptable, ClientInv, ClientTypeOK, Replies
  <1> QED
    BY <1>1, <1>2, <1>3, <1>4 DEF ClientGets

\* A segment put on the TUN queue keeps the queue well formed.
LEMMA SendType ==
    ASSUME TunInv, NEW seg \in Segments, Send(seg), UNCHANGED ready
    PROVE  TunInv' /\ ack_due' = FALSE
  BY DEF TunInv, Send

\* Closing keeps the connection well typed.
LEMMA ClosedType ==
    ASSUME ConnInv, NEW st \in Statuses, NEW n \in Nat, Closed(st, n),
           fin_ack_sent' \in BOOLEAN, client_closed' \in BOOLEAN,
           tx_queue_size' \in Nat, client_seq' \in Nat, zdtun_seq' \in Nat,
           window_size' \in Nat
    PROVE  ConnInv'
  <1>0. closes \in Nat
    BY DEF ConnInv, ConnTypeOK
  <1>1. closes' \in Nat
    BY <1>0 DEF Closed
  <1>2. ConnTypeOK'
    <2>1. /\ status' \in Statuses
          /\ sock' \in BOOLEAN /\ all_fds' \in BOOLEAN /\ write_fds' \in BOOLEAN
      BY DEF Closed, CloseSocket
    <2>2. tx_queue' \in Seq(Nat)
      BY DEF Closed
    <2> QED
      BY <1>1, <2>1, <2>2 DEF ConnTypeOK
  <1>3. QueueSized'
    BY DEF Closed, QueueSized
  <1> QED
    BY <1>2, <1>3 DEF ConnInv

\* What the client knows is kept when it gets nothing.
LEMMA ClientUnchangedType ==
    ASSUME ClientInv, UNCHANGED clVars
    PROVE  ClientInv'
  BY DEF ClientInv, ClientTypeOK, clVars

\* zdtun_conn_close keeps the connection and the client well typed.
LEMMA ConnCloseType ==
    ASSUME TypeInv, NEW st \in Statuses, ConnClose(st), window_size' \in Nat,
           UNCHANGED <<tx_queue_size, client_seq, zdtun_seq, client_closed>>
    PROVE  ConnInv' /\ ClientInv'
  <1>1. /\ ConnInv /\ ClientInv
        /\ client_seq \in Nat /\ fin_ack_sent \in BOOLEAN
        /\ tx_queue_size' \in Nat /\ client_seq' \in Nat /\ zdtun_seq' \in Nat
        /\ client_closed' \in BOOLEAN
    BY DEF TypeInv, ConnInv, ConnTypeOK
  <1>2. CASE fin_ack_sent /\ Closed(st, 1) /\ UNCHANGED <<fin_ack_sent, clVars>>
    BY <1>1, <1>2, ClosedType, ClientUnchangedType
  <1>3. CASE /\ ClientGets(Reply({"RST", "ACK"}, client_seq, 0))
             /\ Closed(st, 1) /\ UNCHANGED fin_ack_sent
    <2>1. Reply({"RST", "ACK"}, client_seq, 0) \in Replies
      BY <1>1, ReplyType
    <2> QED
      BY <1>1, <1>3, <2>1, ClientGetsType, ClosedType
  <1>4. CASE Closed(st, 2) /\ fin_ack_sent' = TRUE /\ UNCHANGED clVars
    BY <1>1, <1>4, ClosedType, ClientUnchangedType
  <1> QED
    BY <1>2, <1>3, <1>4 DEF ConnClose

\* The same of the failures of send_to_client
LEMMA SendErrorType ==
    ASSUME TypeInv, ClosedOnSendError,
           tx_queue_size' \in Nat, client_seq' \in Nat, zdtun_seq' \in Nat,
           window_size' \in Nat, client_closed' \in BOOLEAN
    PROVE  ConnInv' /\ ClientInv'
  <1>1. "CLIENT_ERROR" \in Statuses
    BY DEF Statuses, ClosedStatuses
  <1> QED
    BY <1>1, ClosedType, ClientUnchangedType DEF ClosedOnSendError, TypeInv

\* The steps of the client
LEMMA ClientTypeStep ==
    ASSUME TypeInv, Client
    PROVE  TypeInv'
  <1> USE DEF TypeInv
  <1>0. ConnInv' /\ ServerTypeOK'
    <2>1. UNCHANGED connVars /\ UNCHANGED srvVars
      BY DEF Client, ClientConnect, ClientSend, ClientFin, ClientAck, ClientRead,
             ClientReset, ClientRefuses, ClientKeepAlive, ClientRetransmit
    <2>2. ConnInv'
      BY <2>1 DEF ConnInv, ConnTypeOK, QueueSized, connVars
    <2>3. ServerTypeOK'
      BY <2>1 DEF ServerTypeOK, srvVars
    <2> QED
      BY <2>2, <2>3
  <1>1. CASE ClientConnect
    <2>1. [flags |-> {"SYN"}, seq |-> 0, len |-> 0, ack |-> 0, win |-> RcvBuf] \in Segments
      BY DEF Segments
    <2>2. TunInv' /\ ack_due' = FALSE
      BY <1>1, <2>1, SendType DEF ClientConnect
    <2>3. ClientTypeOK'
      BY <1>1, <2>2 DEF ClientConnect, ClientInv, ClientTypeOK
    <2> QED
      BY <1>0, <1>1, <2>2, <2>3 DEF ClientConnect, ClientInv
  <1>2. CASE ClientSend
    <2>1. PICK n \in 1..SegMax, urg \in {{}, {"URG"}} :
            /\ Send(Segment({"ACK"} \cup urg, snd_nxt, n))
            /\ snd_nxt' = snd_nxt + n
      BY <1>2 DEF ClientSend
    <2>2. Segment({"ACK"} \cup urg, snd_nxt, n) \in Segments
      BY SegmentType DEF ClientInv, ClientTypeOK
    <2>3. TunInv' /\ ack_due' = FALSE
      BY <1>2, <2>1, <2>2, SendType DEF ClientSend
    <2>4. snd_nxt' \in Nat /\ snd_nxt' >= 1
      BY <1>2, <2>1 DEF ClientSend, ClientInv, ClientTypeOK
    <2> QED
      BY <1>0, <1>2, <2>3, <2>4 DEF ClientSend, ClientInv, ClientTypeOK
  <1>3. CASE ClientFin
    <2>1. PICK n \in 0..SegMax :
            /\ Send(Segment({"FIN", "ACK"}, snd_nxt, n))
            /\ snd_nxt' = snd_nxt + n + 1
      BY <1>3 DEF ClientFin
    <2>2. Segment({"FIN", "ACK"}, snd_nxt, n) \in Segments
      BY SegmentType DEF ClientInv, ClientTypeOK
    <2>3. TunInv' /\ ack_due' = FALSE
      BY <1>3, <2>1, <2>2, SendType DEF ClientFin
    <2>4. snd_nxt' \in Nat /\ snd_nxt' >= 1
      BY <1>3, <2>1 DEF ClientFin, ClientInv, ClientTypeOK
    <2> QED
      BY <1>0, <1>3, <2>3, <2>4 DEF ClientFin, ClientInv, ClientTypeOK
  <1>4. CASE ClientAck
    <2>1. Segment({"ACK"}, snd_nxt, 0) \in Segments
      BY SegmentType DEF ClientInv, ClientTypeOK
    <2>2. TunInv' /\ ack_due' = FALSE
      BY <1>4, <2>1, SendType DEF ClientAck
    <2> QED
      BY <1>0, <1>4, <2>2 DEF ClientAck, ClientInv, ClientTypeOK
  <1>5. CASE ClientRead
    BY <1>0, <1>5 DEF ClientRead, ClientInv, ClientTypeOK, TunInv
  <1>6. CASE ClientReset
    <2>1. Segment({"RST", "ACK"}, snd_nxt, 0) \in Segments
      BY SegmentType DEF ClientInv, ClientTypeOK
    <2>2. TunInv' /\ ack_due' = FALSE
      BY <1>6, <2>1, SendType DEF ClientReset
    <2> QED
      BY <1>0, <1>6, <2>2 DEF ClientReset, ClientInv, ClientTypeOK
  <1>7. CASE ClientRefuses
    <2>1. Segment({"RST"}, snd_una, 0) \in Segments
      BY SegmentType DEF ClientInv, ClientTypeOK
    <2>2. TunInv' /\ ack_due' = FALSE
      BY <1>7, <2>1, SendType DEF ClientRefuses
    <2> QED
      BY <1>0, <1>7, <2>2 DEF ClientRefuses, ClientInv, ClientTypeOK
  <1>8. CASE ClientKeepAlive
    <2>1. snd_una - 1 \in Nat
      BY <1>8 DEF ClientKeepAlive, ClientInv, ClientTypeOK
    <2>2. Segment({"ACK"}, snd_una - 1, 0) \in Segments
      BY <2>1, SegmentType
    <2>3. TunInv' /\ ack_due' = FALSE
      BY <1>8, <2>2, SendType DEF ClientKeepAlive
    <2>4. probes' \in Nat
      BY <1>8 DEF ClientKeepAlive, ClientInv, ClientTypeOK
    <2> QED
      BY <1>0, <1>8, <2>3, <2>4 DEF ClientKeepAlive, ClientInv, ClientTypeOK
  <1>9. CASE ClientRetransmit
    <2>1. [flags |-> {"SYN"}, seq |-> 0, len |-> 0, ack |-> 0, win |-> RcvBuf] \in Segments
      BY DEF Segments
    <2>2. snd_una <= SentData =>
            Segment({"ACK"}, snd_una, MinOf(SegMax, SentData - snd_una + 1)) \in Segments
      <3>1. ASSUME snd_una <= SentData
            PROVE  MinOf(SegMax, SentData - snd_una + 1) \in Nat
        BY <3>1 DEF MinOf, SentData, ClientInv, ClientTypeOK
      <3> QED
        BY <3>1, SegmentType DEF ClientInv, ClientTypeOK
    <2>3. Segment({"FIN", "ACK"}, snd_una, 0) \in Segments
      BY SegmentType DEF ClientInv, ClientTypeOK
    <2>4. PICK seg \in Segments : Send(seg)
      BY <1>9, <2>1, <2>2, <2>3 DEF ClientRetransmit
    <2>5. TunInv' /\ ack_due' = FALSE
      BY <1>9, <2>4, SendType DEF ClientRetransmit
    <2>6. probes' \in Nat
      BY <1>9 DEF ClientRetransmit, ClientInv, ClientTypeOK
    <2> QED
      BY <1>0, <1>9, <2>5, <2>6 DEF ClientRetransmit, ClientInv, ClientTypeOK
  <1> QED
    BY <1>1, <1>2, <1>3, <1>4, <1>5, <1>6, <1>7, <1>8, <1>9 DEF Client

\* The steps of the server
LEMMA ServerTypeStep ==
    ASSUME TypeInv, Server
    PROVE  TypeInv'
  <1>1. UNCHANGED connVars /\ UNCHANGED clVars /\ UNCHANGED <<ready, tun>>
    BY DEF Server, ServerAccept, ServerRefuse, ServerSend, ServerEof, ServerReset
  <1>2. srv_sent' \in Nat
    BY DEF Server, ServerAccept, ServerRefuse, ServerSend, ServerEof, ServerReset,
           TypeInv, ServerTypeOK
  <1>3. ServerTypeOK'
    BY <1>2 DEF Server, ServerAccept, ServerRefuse, ServerSend, ServerEof, ServerReset,
                TypeInv, ServerTypeOK
  <1>4. ConnInv'
    BY <1>1 DEF TypeInv, ConnInv, ConnTypeOK, QueueSized, connVars
  <1>5. TunInv'
    BY <1>1 DEF TypeInv, TunInv
  <1> QED
    BY <1>1, <1>3, <1>4, <1>5, ClientUnchangedType DEF TypeInv

LEMMA SelectTypeStep ==
    ASSUME TypeInv, Select
    PROVE  TypeInv'
  <1>1. UNCHANGED connVars /\ UNCHANGED clVars /\ UNCHANGED srvVars
    BY DEF Select
  <1>2. ConnInv'
    BY <1>1 DEF TypeInv, ConnInv, ConnTypeOK, QueueSized, connVars
  <1>3. ServerTypeOK'
    BY <1>1 DEF TypeInv, ServerTypeOK, srvVars
  <1>4. TunInv'
    BY DEF Select, TypeInv, TunInv
  <1> QED
    BY <1>1, <1>2, <1>3, <1>4, ClientUnchangedType DEF TypeInv

\* A packet that is handled is a segment, and leaves the TUN queue.
LEMMA ForwardType ==
    ASSUME TypeInv, NEW guard, Forward(guard)
    PROVE  TunInv' /\ pkt \in Segments
  BY DEF Forward, TypeInv, TunInv, pkt

\* enqueue_tcp_data keeps the queue well formed.
LEMMA EnqueueType ==
    ASSUME ConnInv, pkt \in Segments, Enqueue
    PROVE  /\ tx_queue' \in Seq(Nat) /\ tx_queue_size' \in Nat /\ write_fds' \in BOOLEAN
           /\ QueueSized'
  <1>1. /\ tx_queue \in Seq(Nat) /\ tx_queue_size \in Nat /\ write_fds \in BOOLEAN
        /\ Len(tx_queue) <= tx_queue_size
    BY DEF ConnInv, ConnTypeOK, QueueSized
  <1>2. pkt.seq \in Nat /\ pkt.len \in Nat
    BY DEF Segments
  <1>3. CASE pkt.len = 0
    BY <1>1, <1>3 DEF Enqueue, QueueSized
  <1>4. CASE pkt.len # 0
    <2> DEFINE data == Bytes(pkt.seq, pkt.seq + pkt.len - 1)
    <2>1. data \in Seq(Nat) /\ Len(data) = pkt.len
      <3>1. pkt.seq + pkt.len - 1 \in Int /\ pkt.seq + pkt.len - 1 >= pkt.seq - 1
        BY <1>2
      <3>2. Len(data) = (pkt.seq + pkt.len - 1) - pkt.seq + 1
        BY <1>2, <3>1, BytesLen
      <3>3. Len(data) = pkt.len
        BY <1>2, <3>2
      <3> QED
        BY <1>2, <3>1, <3>3, BytesType
    <2>2. /\ tx_queue' = tx_queue \o data
          /\ tx_queue_size' = tx_queue_size + pkt.len
          /\ write_fds' = TRUE
      BY <1>4 DEF Enqueue
    <2> HIDE DEF data
    <2>3. /\ tx_queue \o data \in Seq(Nat)
          /\ Len(tx_queue \o data) = Len(tx_queue) + Len(data)
      BY <1>1, <2>1, ConcatProperties
    <2> QED
      BY <1>1, <1>2, <2>1, <2>2, <2>3 DEF QueueSized
  <1> QED
    BY <1>3, <1>4

\* The fields of a well typed connection, for arithmetic
LEMMA ConnFields ==
    ASSUME ConnInv
    PROVE  /\ client_seq \in Nat /\ zdtun_seq \in Nat /\ window_size \in Nat
           /\ tx_queue_size \in Nat /\ tx_queue \in Seq(Nat) /\ closes \in Nat
           /\ Len(tx_queue) <= tx_queue_size
           /\ fin_ack_sent \in BOOLEAN /\ client_closed \in BOOLEAN
  BY DEF ConnInv, ConnTypeOK, QueueSized

LEMMA SegmentFields ==
    ASSUME NEW seg \in Segments
    PROVE  seg.seq \in Nat /\ seg.len \in Nat /\ seg.ack \in Nat /\ seg.win \in Nat
  BY DEF Segments

\* The SYN: a connection is created.
LEMMA SynTypeStep ==
    ASSUME TypeInv, FwdOpenError \/ FwdConnectError \/ FwdConnect \/ FwdConnected
    PROVE  TypeInv'
  <1>1. TunInv' /\ pkt \in Segments
    BY ForwardType DEF FwdOpenError, FwdConnectError, FwdConnect, FwdConnected
  <1>2. pkt.seq + 1 \in Nat /\ pkt.win * WinUnit \in Nat
    BY <1>1, SegmentFields
  <1>3. ServerTypeOK'
    BY DEF FwdOpenError, FwdConnectError, FwdConnect, FwdConnected, TypeInv,
           ServerTypeOK, srvVars
  <1>4. CASE FwdOpenError
    <2>1. "SOCKET_ERROR" \in Statuses
      BY DEF Statuses, ClosedStatuses
    <2>2. ConnInv'
      BY <1>4, <2>1 DEF FwdOpenError, TypeInv, ConnInv, ConnTypeOK, QueueSized
    <2> QED
      BY <1>1, <1>3, <1>4, <2>2, ClientUnchangedType DEF FwdOpenError, TypeInv
  <1>5. CASE FwdConnectError
    <2>1. PICK st \in {"UNREACHABLE", "SOCKET_ERROR"} : ConnClose(st)
      BY <1>5 DEF FwdConnectError
    <2>2. st \in Statuses
      BY DEF Statuses, ClosedStatuses
    <2>3. ConnInv' /\ ClientInv'
      BY <1>2, <1>5, <2>1, <2>2, ConnCloseType DEF FwdConnectError
    <2> QED
      BY <1>1, <1>3, <2>3 DEF TypeInv
  <1>6. CASE FwdConnect
    <2>1. client_seq' \in Nat /\ zdtun_seq' \in Nat /\ window_size' \in Nat
      BY <1>2, <1>6 DEF FwdConnect
    <2>2. status' \in Statuses /\ UNCHANGED clVars
      BY <1>6 DEF FwdConnect, Statuses, OpenStatuses
    <2>3. ConnTypeOK'
      BY <1>6, <2>1, <2>2 DEF FwdConnect, TypeInv, ConnInv, ConnTypeOK
    <2>4. QueueSized'
      BY <1>6 DEF FwdConnect, TypeInv, ConnInv, QueueSized
    <2> QED
      BY <1>1, <1>3, <2>2, <2>3, <2>4, ClientUnchangedType DEF TypeInv, ConnInv
  <1>7. CASE FwdConnected
    <2>1. client_seq' \in Nat /\ zdtun_seq' \in Nat /\ window_size' \in Nat
      BY <1>2, <1>7 DEF FwdConnected
    <2>2. CASE ClosedOnSendError
      <3>1. tx_queue_size' \in Nat /\ client_closed' \in BOOLEAN
        BY <1>7, ConnFields DEF FwdConnected, TypeInv
      <3> QED
        BY <1>1, <1>3, <2>1, <2>2, <3>1, SendErrorType DEF TypeInv
    <2>3. CASE /\ ClientGets([Reply({"SYN", "ACK"}, client_seq', 0) EXCEPT !.seq = ISS])
               /\ status' = "CONNECTED" /\ sock' = TRUE /\ all_fds' = TRUE
               /\ UNCHANGED <<tx_queue, fin_ack_sent, write_fds, closes>>
      <3>1. Reply({"SYN", "ACK"}, client_seq', 0) \in Replies
        BY <2>1, ReplyType
      <3>2. [Reply({"SYN", "ACK"}, client_seq', 0) EXCEPT !.seq = ISS] \in Replies
        BY <3>1 DEF Replies
      <3>3. ClientInv'
        BY <2>3, <3>2, ClientGetsType DEF TypeInv
      <3>4. status' \in Statuses
        BY <2>3 DEF Statuses, OpenStatuses
      <3>5. ConnTypeOK'
        BY <1>7, <2>1, <2>3, <3>4 DEF FwdConnected, TypeInv, ConnInv, ConnTypeOK
      <3>6. QueueSized'
        BY <1>7, <2>3 DEF FwdConnected, TypeInv, ConnInv, QueueSized
      <3> QED
        BY <1>1, <1>3, <3>3, <3>5, <3>6 DEF TypeInv, ConnInv
    <2> QED
      BY <1>7, <2>2, <2>3 DEF FwdConnected
  <1> QED
    BY <1>4, <1>5, <1>6, <1>7

\* The packets that change nothing, or only close the connection
LEMMA CloseFwdTypeStep ==
    ASSUME TypeInv,
           FwdToClosed \/ FwdUrgent \/ FwdConnecting \/ FwdOutOfSequence \/ FwdRst
    PROVE  TypeInv'
  <1>1. TunInv' /\ pkt \in Segments
    BY ForwardType DEF FwdToClosed, FwdUrgent, FwdConnecting, FwdOutOfSequence, FwdRst
  <1>2. ServerTypeOK'
    BY DEF FwdToClosed, FwdUrgent, FwdConnecting, FwdOutOfSequence, FwdRst, TypeInv,
           ServerTypeOK, srvVars
  <1>3. CASE FwdToClosed
    <2>1. "GONE" \in Statuses
      BY DEF Statuses
    <2>2. ConnInv'
      BY <1>3, <2>1 DEF FwdToClosed, TypeInv, ConnInv, ConnTypeOK, QueueSized
    <2> QED
      BY <1>1, <1>2, <1>3, <2>2, ClientUnchangedType DEF FwdToClosed, TypeInv
  <1>4. CASE FwdConnecting \/ FwdOutOfSequence
    <2>1. UNCHANGED connVars /\ UNCHANGED clVars
      BY <1>4 DEF FwdConnecting, FwdOutOfSequence
    <2>2. ConnInv'
      BY <2>1 DEF TypeInv, ConnInv, ConnTypeOK, QueueSized, connVars
    <2> QED
      BY <1>1, <1>2, <2>1, <2>2, ClientUnchangedType DEF TypeInv
  <1>5. CASE FwdUrgent \/ FwdRst
    <2>1. PICK st \in {"ERROR", "CLOSED"} : ConnClose(st)
      BY <1>5 DEF FwdUrgent, FwdRst
    <2>2. st \in Statuses
      BY DEF Statuses, ClosedStatuses
    <2>3. window_size' \in Nat
      BY <1>5, ConnFields DEF FwdUrgent, FwdRst, TypeInv
    <2>4. ConnInv' /\ ClientInv'
      BY <1>5, <2>1, <2>2, <2>3, ConnCloseType DEF FwdUrgent, FwdRst
    <2> QED
      BY <1>1, <1>2, <2>4 DEF TypeInv
  <1> QED
    BY <1>3, <1>4, <1>5

\* The FIN of the client
LEMMA FinTypeStep ==
    ASSUME TypeInv, FwdFin
    PROVE  TypeInv'
  <1>1. TunInv' /\ pkt \in Segments
    BY ForwardType DEF FwdFin
  <1>2. client_seq' \in Nat
    BY <1>1, SegmentFields, ConnFields DEF FwdFin, TypeInv
  <1>3. ServerTypeOK'
    BY DEF FwdFin, TypeInv, ServerTypeOK, ConnInv, ConnTypeOK
  <1>4. /\ tx_queue_size' \in Nat /\ zdtun_seq' \in Nat /\ window_size' \in Nat
        /\ client_closed' \in BOOLEAN
    BY ConnFields DEF FwdFin, TypeInv
  <1>5. CASE ClosedOnSendError
    BY <1>1, <1>2, <1>3, <1>4, <1>5, SendErrorType DEF TypeInv
  <1>6. CASE /\ ClientGets(Reply({"ACK"}, client_seq', 0))
             /\ UNCHANGED fin_ack_sent
             /\ \/ UNCHANGED <<status, sock, tx_queue, all_fds, write_fds, closes>>
                \/ Closed("CLOSED", 1)
    <2>1. Reply({"ACK"}, client_seq', 0) \in Replies
      BY <1>2, ReplyType
    <2>2. ClientInv'
      BY <1>6, <2>1, ClientGetsType DEF TypeInv
    <2>3. CASE Closed("CLOSED", 1)
      <3>1. "CLOSED" \in Statuses /\ fin_ack_sent' \in BOOLEAN
        BY <1>6, ConnFields DEF Statuses, ClosedStatuses, TypeInv
      <3> QED
        BY <1>1, <1>2, <1>3, <1>4, <2>2, <2>3, <3>1, ClosedType DEF TypeInv
    <2>4. CASE UNCHANGED <<status, sock, tx_queue, all_fds, write_fds, closes>>
      <3>1. ConnTypeOK'
        BY <1>2, <1>4, <1>6, <2>4 DEF TypeInv, ConnInv, ConnTypeOK
      <3>2. QueueSized'
        BY <2>4 DEF FwdFin, TypeInv, ConnInv, QueueSized
      <3> QED
        BY <1>1, <1>3, <2>2, <3>1, <3>2 DEF TypeInv, ConnInv
    <2> QED
      BY <1>6, <2>3, <2>4
  <1> QED
    BY <1>5, <1>6 DEF FwdFin

\* The keep-alive, and the data that comes with its sequence number
LEMMA KeepAliveTypeStep ==
    ASSUME TypeInv, FwdKeepAlive
    PROVE  TypeInv'
  <1>1. TunInv' /\ pkt \in Segments
    BY ForwardType DEF FwdKeepAlive
  <1>2. ServerTypeOK'
    BY DEF FwdKeepAlive, TypeInv, ServerTypeOK, srvVars
  <1>3. /\ client_seq' \in Nat /\ zdtun_seq' \in Nat /\ window_size' \in Nat
        /\ client_closed' \in BOOLEAN /\ client_seq \in Nat
    BY ConnFields DEF FwdKeepAlive, TypeInv
  <1>4. CASE ClosedOnSendError /\ UNCHANGED tx_queue_size
    <2>1. tx_queue_size' \in Nat
      BY <1>4, ConnFields DEF TypeInv
    <2> QED
      BY <1>1, <1>2, <1>3, <1>4, <2>1, SendErrorType DEF TypeInv
  <1>5. CASE /\ ClientGets(Reply({"ACK"}, client_seq, 0))
             /\ Enqueue
             /\ UNCHANGED <<status, sock, all_fds, fin_ack_sent, closes>>
    <2>1. Reply({"ACK"}, client_seq, 0) \in Replies
      BY <1>3, ReplyType
    <2>2. ClientInv'
      BY <1>5, <2>1, ClientGetsType DEF TypeInv
    <2>3. /\ tx_queue' \in Seq(Nat) /\ tx_queue_size' \in Nat /\ write_fds' \in BOOLEAN
          /\ QueueSized'
      BY <1>1, <1>5, EnqueueType DEF TypeInv
    <2>4. ConnTypeOK'
      BY <1>3, <1>5, <2>3 DEF TypeInv, ConnInv, ConnTypeOK
    <2> QED
      BY <1>1, <1>2, <2>2, <2>3, <2>4 DEF TypeInv, ConnInv
  <1> QED
    BY <1>4, <1>5 DEF FwdKeepAlive

\* An ACK: the window is a value of the code's unsigned type.
LEMMA AckTypeStep ==
    ASSUME TypeInv, FwdAck
    PROVE  TypeInv'
  <1>1. TunInv' /\ pkt \in Segments
    BY ForwardType DEF FwdAck
  <1>2. ServerTypeOK' /\ ClientInv'
    BY ClientUnchangedType DEF FwdAck, TypeInv, ServerTypeOK, srvVars
  <1>3. /\ client_seq' \in Nat /\ zdtun_seq' \in Nat
        /\ client_closed' \in BOOLEAN /\ zdtun_seq \in Nat
    BY ConnFields DEF FwdAck, TypeInv
  <1>4. window_size' \in Nat
    <2>1. InFlight(zdtun_seq, pkt.ack) \in Int
      BY <1>1, <1>3, SegmentFields DEF InFlight
    <2>2. pkt.win * WinUnit \in Int
      BY <1>1, SegmentFields
    <2> QED
      BY <2>1, <2>2 DEF FwdAck
  <1>5. /\ tx_queue' \in Seq(Nat) /\ tx_queue_size' \in Nat /\ write_fds' \in BOOLEAN
        /\ QueueSized'
    BY <1>1, EnqueueType DEF FwdAck, TypeInv
  <1>6. all_fds' \in BOOLEAN
    BY DEF FwdAck
  <1>7. ConnTypeOK'
    BY <1>3, <1>4, <1>5, <1>6 DEF FwdAck, TypeInv, ConnInv, ConnTypeOK
  <1> QED
    BY <1>1, <1>2, <1>5, <1>7 DEF TypeInv, ConnInv

\* Data after the server has closed
LEMMA LateDataTypeStep ==
    ASSUME TypeInv, FwdAfterServerClosed
    PROVE  TypeInv'
  <1>1. TunInv' /\ pkt \in Segments
    BY ForwardType DEF FwdAfterServerClosed
  <1>2. ServerTypeOK'
    BY DEF FwdAfterServerClosed, TypeInv, ServerTypeOK, srvVars
  <1>3. client_seq' \in Nat
    BY <1>1, SegmentFields, ConnFields DEF FwdAfterServerClosed, TypeInv
  <1>4. /\ tx_queue_size' \in Nat /\ zdtun_seq' \in Nat /\ window_size' \in Nat
        /\ client_closed' \in BOOLEAN
    BY ConnFields DEF FwdAfterServerClosed, TypeInv
  <1>5. CASE ClosedOnSendError
    BY <1>1, <1>2, <1>3, <1>4, <1>5, SendErrorType DEF TypeInv
  <1>6. CASE UNCHANGED <<status, sock, tx_queue, fin_ack_sent, all_fds, write_fds, closes>>
    <2>1. ConnTypeOK'
      BY <1>3, <1>4, <1>6 DEF TypeInv, ConnInv, ConnTypeOK
    <2>2. QueueSized'
      BY <1>6 DEF FwdAfterServerClosed, TypeInv, ConnInv, QueueSized
    <2>3. CASE UNCHANGED clVars
      BY <1>1, <1>2, <2>1, <2>2, <2>3, ClientUnchangedType DEF TypeInv, ConnInv
    <2>4. CASE ClientGets(Reply({"ACK"}, client_seq', 0))
      <3>1. Reply({"ACK"}, client_seq', 0) \in Replies
        BY <1>3, ReplyType
      <3>2. ClientInv'
        BY <2>4, <3>1, ClientGetsType DEF TypeInv
      <3> QED
        BY <1>1, <1>2, <2>1, <2>2, <3>2 DEF TypeInv, ConnInv
    <2> QED
      BY <1>5, <2>3, <2>4, <1>1, <1>2, <1>3, <1>4, SendErrorType
         DEF FwdAfterServerClosed, TypeInv
  <1> QED
    BY <1>5, <1>6 DEF FwdAfterServerClosed

\* What zdtun_handle_fd reads is within the window.
LEMMA RecvLenType ==
    ASSUME TypeInv, RecvLen > 0
    PROVE  RecvLen \in Nat /\ window_size - RecvLen \in Nat /\ RecvLen <= Avail
  <1>1. window_size \in Nat /\ srv_sent \in Nat /\ srv_read \in Nat
    BY ConnFields DEF TypeInv, ServerTypeOK
  <1> QED
    BY <1>1 DEF RecvLen, MinOf, Avail

\* An error of the socket
LEMMA ErrorTypeStep ==
    ASSUME TypeInv, ReplyError \/ ConnectAsyncError \/ SendQueuedError
    PROVE  TypeInv'
  <1>1. TunInv'
    BY DEF ReplyError, ConnectAsyncError, SendQueuedError, Handle, TypeInv, TunInv
  <1>2. ServerTypeOK'
    <2>1. CASE ReplyError \/ ConnectAsyncError
      BY <2>1 DEF ReplyError, ConnectAsyncError, TypeInv, ServerTypeOK, srvVars
    <2>2. CASE SendQueuedError
      <3>1. PICK n \in 0..(Len(tx_queue) - 1) :
               toServer' = toServer \o SubSeq(tx_queue, 1, n)
        BY <2>2 DEF SendQueuedError
      <3>2. tx_queue \in Seq(Nat) /\ toServer \in Seq(Nat)
        BY ConnFields DEF TypeInv, ServerTypeOK
      <3>3. SubSeq(tx_queue, 1, n) \in Seq(Nat)
        BY <3>2
      <3>4. toServer' \in Seq(Nat)
        BY <3>1, <3>2, <3>3, ConcatProperties
      <3> QED
        BY <2>2, <3>4 DEF SendQueuedError, TypeInv, ServerTypeOK
    <2> QED
      BY <2>1, <2>2
  <1>3. ConnClose(SocketErrorStatus)
    BY DEF ReplyError, ConnectAsyncError, SendQueuedError
  <1>4. SocketErrorStatus \in Statuses
    BY DEF SocketErrorStatus, Statuses, ClosedStatuses
  <1>5. window_size' \in Nat
    BY ConnFields DEF ReplyError, ConnectAsyncError, SendQueuedError, TypeInv
  <1>6. UNCHANGED <<tx_queue_size, client_seq, zdtun_seq, client_closed>>
    BY DEF ReplyError, ConnectAsyncError, SendQueuedError
  <1>7. ConnInv' /\ ClientInv'
    BY <1>3, <1>4, <1>5, <1>6, ConnCloseType
  <1> QED
    BY <1>1, <1>2, <1>7 DEF TypeInv

\* The end of the server's stream
LEMMA EofTypeStep ==
    ASSUME TypeInv, ReplyEof
    PROVE  TypeInv'
  <1>1. TunInv'
    BY DEF ReplyEof, Handle, TypeInv, TunInv
  <1>2. ServerTypeOK'
    BY DEF ReplyEof, TypeInv, ServerTypeOK, srvVars
  <1>3. /\ tx_queue_size' \in Nat /\ client_seq' \in Nat /\ window_size' \in Nat
        /\ client_closed' \in BOOLEAN /\ client_seq \in Nat
    BY ConnFields DEF ReplyEof, TypeInv
  <1>4. zdtun_seq' \in Nat
    BY ConnFields DEF ReplyEof, TypeInv
  <1>5. CASE ClosedOnSendError
    BY <1>1, <1>2, <1>3, <1>4, <1>5, SendErrorType DEF TypeInv
  <1>6. CASE /\ ClientGets(Reply({"FIN", "ACK"}, client_seq, 0))
             /\ fin_ack_sent' = TRUE
             /\ \/ Closed("CLOSED", 1)
                \/ CloseSocket /\ UNCHANGED <<status, tx_queue, closes>>
    <2>1. Reply({"FIN", "ACK"}, client_seq, 0) \in Replies
      BY <1>3, ReplyType
    <2>2. ClientInv'
      BY <1>6, <2>1, ClientGetsType DEF TypeInv
    <2>3. CASE Closed("CLOSED", 1)
      <3>1. "CLOSED" \in Statuses
        BY DEF Statuses, ClosedStatuses
      <3> QED
        BY <1>1, <1>2, <1>3, <1>4, <1>6, <2>2, <2>3, <3>1, ClosedType DEF TypeInv
    <2>4. CASE CloseSocket /\ UNCHANGED <<status, tx_queue, closes>>
      <3>1. ConnTypeOK'
        BY <1>3, <1>4, <1>6, <2>4 DEF CloseSocket, TypeInv, ConnInv, ConnTypeOK
      <3>2. QueueSized'
        BY <2>4 DEF ReplyEof, TypeInv, ConnInv, QueueSized
      <3> QED
        BY <1>1, <1>2, <2>2, <3>1, <3>2 DEF TypeInv, ConnInv
    <2> QED
      BY <1>6, <2>3, <2>4
  <1> QED
    BY <1>5, <1>6 DEF ReplyEof

\* Data of the server
LEMMA DataTypeStep ==
    ASSUME TypeInv, ReplyData
    PROVE  TypeInv'
  <1>1. TunInv'
    BY DEF ReplyData, Handle, TypeInv, TunInv
  <1>2. RecvLen \in Nat /\ window_size - RecvLen \in Nat
    BY RecvLenType DEF ReplyData
  <1>3. srv_read' \in Nat
    BY <1>2 DEF ReplyData, TypeInv, ServerTypeOK
  <1>4. ServerTypeOK'
    BY <1>3 DEF ReplyData, TypeInv, ServerTypeOK
  <1>5. /\ tx_queue_size' \in Nat /\ client_seq' \in Nat
        /\ client_closed' \in BOOLEAN /\ client_seq \in Nat
    BY ConnFields DEF ReplyData, TypeInv
  <1>6. zdtun_seq' \in Nat /\ window_size' \in Nat
    BY <1>2, ConnFields DEF ReplyData, TypeInv
  <1>7. CASE ClosedOnSendError
    BY <1>1, <1>4, <1>5, <1>6, <1>7, SendErrorType DEF TypeInv
  <1>8. CASE /\ ClientGets(Reply({"ACK"}, client_seq, RecvLen))
             /\ all_fds' = HasRoom(window_size')
             /\ UNCHANGED <<status, sock, tx_queue, fin_ack_sent, write_fds, closes>>
    <2>1. Reply({"ACK"}, client_seq, RecvLen) \in Replies
      BY <1>2, <1>5, ReplyType
    <2>2. ClientInv'
      BY <1>8, <2>1, ClientGetsType DEF TypeInv
    <2>3. all_fds' \in BOOLEAN
      BY <1>8 DEF HasRoom
    <2>4. ConnTypeOK'
      BY <1>5, <1>6, <1>8, <2>3 DEF TypeInv, ConnInv, ConnTypeOK
    <2>5. QueueSized'
      BY <1>8 DEF ReplyData, TypeInv, ConnInv, QueueSized
    <2> QED
      BY <1>1, <1>4, <2>2, <2>4, <2>5 DEF TypeInv, ConnInv
  <1> QED
    BY <1>7, <1>8 DEF ReplyData

\* The connection to the server is established.
LEMMA ConnectedTypeStep ==
    ASSUME TypeInv, ConnectAsync
    PROVE  TypeInv'
  <1>1. TunInv'
    BY DEF ConnectAsync, Handle, TypeInv, TunInv
  <1>2. ServerTypeOK'
    BY DEF ConnectAsync, TypeInv, ServerTypeOK, srvVars
  <1>3. /\ tx_queue_size' \in Nat /\ client_seq' \in Nat /\ window_size' \in Nat
        /\ client_closed' \in BOOLEAN /\ client_seq \in Nat
    BY ConnFields DEF ConnectAsync, TypeInv
  <1>4. zdtun_seq' \in Nat
    BY ConnFields DEF ConnectAsync, TypeInv
  <1>5. CASE ClosedOnSendError
    BY <1>1, <1>2, <1>3, <1>4, <1>5, SendErrorType DEF TypeInv
  <1>6. CASE /\ ClientGets(Reply({"SYN", "ACK"}, client_seq, 0))
             /\ status' = "CONNECTED" /\ write_fds' = FALSE
             /\ UNCHANGED <<sock, tx_queue, fin_ack_sent, all_fds, closes>>
    <2>1. Reply({"SYN", "ACK"}, client_seq, 0) \in Replies
      BY <1>3, ReplyType
    <2>2. ClientInv'
      BY <1>6, <2>1, ClientGetsType DEF TypeInv
    <2>3. status' \in Statuses
      BY <1>6 DEF Statuses, OpenStatuses
    <2>4. ConnTypeOK'
      BY <1>3, <1>4, <1>6, <2>3 DEF TypeInv, ConnInv, ConnTypeOK
    <2>5. QueueSized'
      BY <1>6 DEF ConnectAsync, TypeInv, ConnInv, QueueSized
    <2> QED
      BY <1>1, <1>2, <2>2, <2>4, <2>5 DEF TypeInv, ConnInv
  <1> QED
    BY <1>5, <1>6 DEF ConnectAsync

\* The queue is written, in whole or in part.
LEMMA SendQueuedTypeStep ==
    ASSUME TypeInv, SendQueued
    PROVE  TypeInv'
  <1>1. TunInv'
    BY DEF SendQueued, Handle, TypeInv, TunInv
  <1>2. PICK n \in 0..Len(tx_queue) :
          /\ Taken(n)
          /\ \/ /\ tx_queue' = SubSeq(tx_queue, n + 1, Len(tx_queue))
                /\ write_fds' = (tx_queue' # <<>>)
                /\ \/ n = 0 /\ UNCHANGED clVars
                   \/ n > 0 /\ ClientGets(Reply({"ACK"}, client_seq', 0))
                /\ UNCHANGED <<status, sock, fin_ack_sent, all_fds, closes>>
             \/ n > 0 /\ ClosedOnSendError
    BY DEF SendQueued
  <1>3. /\ tx_queue \in Seq(Nat) /\ tx_queue_size \in Nat /\ client_seq \in Nat
        /\ Len(tx_queue) <= tx_queue_size /\ Len(tx_queue) \in Nat
    BY ConnFields DEF TypeInv
  <1>4. /\ client_seq' \in Nat
        /\ tx_queue_size' \in Nat /\ tx_queue_size' = tx_queue_size - n
    BY <1>2, <1>3 DEF Taken
  <1>5. /\ zdtun_seq' \in Nat /\ window_size' \in Nat /\ client_closed' \in BOOLEAN
    BY ConnFields DEF SendQueued, TypeInv
  <1>6. ServerTypeOK'
    <2>1. SubSeq(tx_queue, 1, n) \in Seq(Nat) /\ toServer \in Seq(Nat)
      BY <1>3 DEF TypeInv, ServerTypeOK
    <2>2. toServer' \in Seq(Nat)
      BY <1>2, <2>1, ConcatProperties DEF Taken
    <2> QED
      BY <2>2 DEF SendQueued, TypeInv, ServerTypeOK
  <1>7. CASE ClosedOnSendError
    BY <1>1, <1>4, <1>5, <1>6, <1>7, SendErrorType DEF TypeInv
  <1>8. CASE /\ tx_queue' = SubSeq(tx_queue, n + 1, Len(tx_queue))
             /\ write_fds' = (tx_queue' # <<>>)
             /\ \/ UNCHANGED clVars
                \/ ClientGets(Reply({"ACK"}, client_seq', 0))
             /\ UNCHANGED <<status, sock, fin_ack_sent, all_fds, closes>>
    <2>1. Reply({"ACK"}, client_seq', 0) \in Replies
      BY <1>4, ReplyType
    <2>2. ClientInv'
      BY <1>8, <2>1, ClientGetsType, ClientUnchangedType DEF TypeInv
    <2>3. tx_queue' \in Seq(Nat)
      BY <1>3, <1>8
    <2>4. Len(tx_queue') = Len(tx_queue) - n
      BY <1>3, <1>8
    <2>5. QueueSized'
      BY <1>3, <1>4, <2>4 DEF QueueSized
    <2>6. ConnTypeOK'
      <3>1. write_fds' \in BOOLEAN
        BY <1>8
      <3>2. /\ status' \in Statuses /\ sock' \in BOOLEAN /\ all_fds' \in BOOLEAN
            /\ fin_ack_sent' \in BOOLEAN /\ closes' \in Nat
        BY <1>8 DEF TypeInv, ConnInv, ConnTypeOK
      <3> QED
        BY <1>4, <1>5, <2>3, <3>1, <3>2 DEF ConnTypeOK
    <2> QED
      BY <1>1, <1>6, <2>2, <2>5, <2>6 DEF TypeInv, ConnInv
  <1> QED
    BY <1>2, <1>7, <1>8

\* zdtun_purge_expired and zdtun_finalize
LEMMA PurgeTypeStep ==
    ASSUME TypeInv, ZdtunPurge
    PROVE  TypeInv'
  <1>1. TunInv' /\ ServerTypeOK'
    <2>1. UNCHANGED srvVars /\ UNCHANGED tun /\ ready' \in {ready, "stopped"}
      BY DEF ZdtunPurge, PurgeClosed, PurgeIdle, Finalize
    <2>2. TunInv'
      BY <2>1 DEF TypeInv, TunInv
    <2> QED
      BY <2>1, <2>2 DEF TypeInv, ServerTypeOK, srvVars
  <1>2. "GONE" \in Statuses /\ "NEW" \in Statuses
    BY DEF Statuses, OpenStatuses
  <1>3. UNCHANGED <<tx_queue_size, client_seq, zdtun_seq, window_size, client_closed>>
    BY DEF ZdtunPurge, PurgeClosed, PurgeIdle, Finalize
  <1>4. /\ tx_queue_size' \in Nat /\ client_seq' \in Nat /\ zdtun_seq' \in Nat
        /\ window_size' \in Nat /\ client_closed' \in BOOLEAN
    BY <1>3, ConnFields DEF TypeInv
  <1>5. CASE PurgeIdle
    BY <1>1, <1>2, <1>3, <1>4, <1>5, ConnCloseType DEF PurgeIdle, TypeInv
  <1>6. CASE Finalize /\ Closed("GONE", 1)
    <2>1. fin_ack_sent' \in BOOLEAN
      BY <1>6, ConnFields DEF Finalize, TypeInv
    <2>2. ConnInv'
      BY <1>2, <1>4, <1>6, <2>1, ClosedType DEF TypeInv
    <2> QED
      BY <1>1, <1>6, <2>2, ClientUnchangedType DEF Finalize, TypeInv
  <1>7. CASE /\ PurgeClosed \/ Finalize
             /\ status' \in {"NEW", "GONE"}
             /\ UNCHANGED <<sock, tx_queue, all_fds, write_fds, closes>>
    <2>1. UNCHANGED fin_ack_sent /\ UNCHANGED clVars
      BY <1>7 DEF PurgeClosed, Finalize
    <2>2. ConnTypeOK'
      BY <1>2, <1>4, <1>7, <2>1 DEF TypeInv, ConnInv, ConnTypeOK
    <2>3. QueueSized'
      BY <1>3, <1>7 DEF TypeInv, ConnInv, QueueSized
    <2> QED
      BY <1>1, <2>1, <2>2, <2>3, ClientUnchangedType DEF TypeInv, ConnInv
  <1> QED
    BY <1>5, <1>6, <1>7 DEF ZdtunPurge, PurgeClosed, Finalize

\* Every step
LEMMA TypeStep ==
    ASSUME TypeInv, [Next]_vars
    PROVE  TypeInv'
  <1>1. CASE UNCHANGED vars
    <2>1. UNCHANGED connVars /\ UNCHANGED clVars /\ UNCHANGED srvVars
          /\ UNCHANGED <<ready, tun>>
      BY <1>1 DEF vars
    <2>2. ConnInv'
      BY <2>1 DEF TypeInv, ConnInv, ConnTypeOK, QueueSized, connVars
    <2>3. ServerTypeOK'
      BY <2>1 DEF TypeInv, ServerTypeOK, srvVars
    <2>4. TunInv'
      BY <2>1 DEF TypeInv, TunInv
    <2> QED
      BY <2>1, <2>2, <2>3, <2>4, ClientUnchangedType DEF TypeInv
  <1>2. CASE ZdtunForward
    BY <1>2, SynTypeStep, CloseFwdTypeStep, FinTypeStep, KeepAliveTypeStep, AckTypeStep,
       LateDataTypeStep DEF ZdtunForward
  <1>3. CASE ZdtunHandleFd
    BY <1>3, ErrorTypeStep, EofTypeStep, DataTypeStep, ConnectedTypeStep,
       SendQueuedTypeStep DEF ZdtunHandleFd
  <1> QED
    BY <1>1, <1>2, <1>3, ClientTypeStep, ServerTypeStep, SelectTypeStep, PurgeTypeStep
       DEF Next

\* Type correctness, with the bounds that it needs: the client's buffer is never
\* overrun, and tx_queue_size never falls below what is queued.
THEOREM TypeInvariant == Spec => []TypeInv
  <1>1. Init => TypeInv
    <2> SUFFICES ASSUME Init PROVE TypeInv
      OBVIOUS
    <2>1. <<>> \in Seq(Nat) /\ <<>> \in Seq(Segments) /\ Len(<<>>) = 0
      BY EmptySeq
    <2>2. ConnTypeOK /\ QueueSized
      <3>1. status \in Statuses
        BY DEF Init, Statuses, OpenStatuses
      <3>2. ConnTypeOK
        BY <2>1, <3>1 DEF Init, ConnTypeOK
      <3>3. QueueSized
        BY <2>1 DEF Init, QueueSized
      <3> QED
        BY <3>2, <3>3
    <2>3. ClientTypeOK /\ ServerTypeOK
      BY <2>1 DEF Init, ClientTypeOK, ServerTypeOK
    <2>4. ClientInv /\ TunInv
      BY <2>1, <2>3 DEF Init, ClientInv, TunInv
    <2> QED
      BY <2>2, <2>3, <2>4 DEF TypeInv, ConnInv
  <1>2. TypeInv /\ [Next]_vars => TypeInv'
    BY TypeStep
  <1> QED
    BY <1>1, <1>2, PTL DEF Spec

\* No unsigned field of zdtun_conn_t falls below zero, for every size of the
\* window, of the segments and of the streams.
THEOREM TypeCorrect == Spec => []TypeOK
  <1>1. TypeInv => TypeOK
    BY DEF TypeInv, ConnInv, ClientInv, TunInv, TypeOK
  <1> QED
    BY <1>1, TypeInvariant, PTL
-----------------------------------------------------------------------------
(***************************************************************************)
(* The life of a connection, for every environment: the descriptor sets    *)
(* given to select, the end of a connection, and the close callback.       *)
(***************************************************************************)
\* The inductive invariant adds what the snapshot of select stands for: until
\* the socket it reported is handled, nothing closes that socket or takes it out
\* of the write set.
LifeInv ==
    /\ SelectedSocketsAreOpen
    /\ WriteSetMatchesWork
    /\ ready \in {"rd", "wr"} => sock
    /\ ready = "wr" => write_fds
    /\ status = "NEW" => tx_queue = <<>>

\* zdtun_conn_close ends with the socket closed, and one or two callbacks.
LEMMA ConnCloseCloses ==
    ASSUME NEW st, ConnClose(st)
    PROVE  Closed(st, 1) \/ (SendError /\ Closed(st, 2))
  BY DEF ConnClose

\* A connection that is closed has a life no more.
LEMMA ClosedLife ==
    ASSUME NEW st, NEW n, Closed(st, n), ready' \notin {"rd", "wr"}
    PROVE  LifeInv'
  BY DEF Closed, CloseSocket, LifeInv, SelectedSocketsAreOpen, WriteSetMatchesWork

LEMMA ConnCloseLife ==
    ASSUME NEW st, ConnClose(st), ready' \notin {"rd", "wr"}
    PROVE  LifeInv'
  BY ConnCloseCloses, ClosedLife

LEMMA SendErrorLife ==
    ASSUME ClosedOnSendError, ready' \notin {"rd", "wr"}
    PROVE  LifeInv'
  BY ClosedLife DEF ClosedOnSendError

\* What leaves the connection and the snapshot alone
LEMMA UnchangedLife ==
    ASSUME LifeInv, UNCHANGED <<status, sock, tx_queue, all_fds, write_fds>>,
           ready' = ready \/ ready' \notin {"rd", "wr"}
    PROVE  LifeInv'
  BY DEF LifeInv, SelectedSocketsAreOpen, WriteSetMatchesWork

\* A segment with data makes the queue non-empty and puts the socket in the
\* write set; one without leaves both.
LEMMA EnqueueWork ==
    ASSUME ConnInv, pkt \in Segments, Enqueue, write_fds <=> tx_queue # <<>>
    PROVE  write_fds' <=> tx_queue' # <<>>
  <1>1. CASE pkt.len = 0
    BY <1>1 DEF Enqueue
  <1>2. CASE pkt.len # 0
    <2>1. /\ tx_queue \in Seq(Nat)
          /\ pkt.seq \in Nat /\ pkt.len \in Nat /\ pkt.len >= 1
      BY <1>2, ConnFields, SegmentFields
    <2>2. /\ pkt.seq + pkt.len - 1 \in Int
          /\ pkt.seq + pkt.len - 1 >= pkt.seq - 1
      BY <2>1
    <2> DEFINE data == Bytes(pkt.seq, pkt.seq + pkt.len - 1)
    <2>3. data \in Seq(Nat)
      BY <2>1, <2>2, BytesType
    <2>4. Len(data) = (pkt.seq + pkt.len - 1) - pkt.seq + 1
      BY <2>1, <2>2, BytesLen
    <2>5. Len(data) >= 1
      BY <2>1, <2>4
    <2>6. tx_queue' = tx_queue \o data /\ write_fds' = TRUE
      BY <1>2 DEF Enqueue
    <2> HIDE DEF data
    <2>7. data # <<>>
      BY <2>5, EmptySeq
    <2> QED
      BY <2>1, <2>3, <2>6, <2>7, ConcatEqualIffEmpty
  <1> QED
    BY <1>1, <1>2

LEMMA ForwardLife ==
    ASSUME TypeInv, LifeInv, ZdtunForward
    PROVE  LifeInv'
  <1>1. ready' = "idle"
    BY DEF ZdtunForward, FwdToClosed, FwdOpenError, FwdConnectError, FwdConnect,
           FwdConnected, FwdUrgent, FwdConnecting, FwdOutOfSequence, FwdRst, FwdFin,
           FwdKeepAlive, FwdAck, FwdAfterServerClosed, Forward
  <1>2. CASE FwdToClosed \/ FwdOpenError
    BY <1>1, <1>2 DEF FwdToClosed, FwdOpenError, Forward, ClosedStatuses, LifeInv,
                      SelectedSocketsAreOpen, WriteSetMatchesWork
  <1>3. CASE FwdConnectError \/ FwdUrgent \/ FwdRst
    BY <1>1, <1>3, ConnCloseLife DEF FwdConnectError, FwdUrgent, FwdRst
  <1>4. CASE FwdConnect
    BY <1>1, <1>4 DEF FwdConnect, Forward, LifeInv, SelectedSocketsAreOpen,
                      WriteSetMatchesWork
  <1>5. CASE FwdConnected
    <2>1. CASE ClosedOnSendError
      BY <1>1, <2>1, SendErrorLife
    <2>2. CASE /\ status' = "CONNECTED" /\ sock' = TRUE /\ all_fds' = TRUE
               /\ UNCHANGED <<tx_queue, write_fds>>
      BY <1>1, <1>5, <2>2 DEF FwdConnected, Forward, LifeInv, SelectedSocketsAreOpen,
                              WriteSetMatchesWork
    <2> QED
      BY <1>5, <2>1, <2>2 DEF FwdConnected
  <1>6. CASE FwdConnecting \/ FwdOutOfSequence
    BY <1>1, <1>6, UnchangedLife DEF FwdConnecting, FwdOutOfSequence, connVars
  <1>7. CASE FwdFin
    BY <1>1, <1>7, UnchangedLife, ClosedLife, SendErrorLife DEF FwdFin
  <1>8. CASE FwdKeepAlive \/ FwdAck
    <2>1. CASE ClosedOnSendError
      BY <1>1, <2>1, SendErrorLife
    <2>2. CASE Enqueue /\ UNCHANGED <<status, sock>>
      <3>1. pkt \in Segments /\ ConnInv
        BY <1>8, ForwardType DEF FwdKeepAlive, FwdAck, TypeInv
      <3>2. status = "CONNECTED" /\ sock
        BY <1>8 DEF FwdKeepAlive, FwdAck, Forward, Established
      <3>3. write_fds <=> tx_queue # <<>>
        BY <3>2 DEF LifeInv, WriteSetMatchesWork
      <3>4. write_fds' <=> tx_queue' # <<>>
        BY <2>2, <3>1, <3>3, EnqueueWork
      <3> QED
        BY <1>1, <2>2, <3>2, <3>4 DEF LifeInv, SelectedSocketsAreOpen, WriteSetMatchesWork
    <2> QED
      BY <1>8, <2>1, <2>2 DEF FwdKeepAlive, FwdAck
  <1>9. CASE FwdAfterServerClosed
    BY <1>1, <1>9, UnchangedLife, SendErrorLife DEF FwdAfterServerClosed
  <1> QED
    BY <1>2, <1>3, <1>4, <1>5, <1>6, <1>7, <1>8, <1>9 DEF ZdtunForward

LEMMA HandleLife ==
    ASSUME TypeInv, LifeInv, ZdtunHandleFd
    PROVE  LifeInv'
  <1>1. ready' = "idle" /\ ready \in {"rd", "wr"}
    BY DEF ZdtunHandleFd, ReplyError, ReplyEof, ReplyData, ConnectAsync,
           ConnectAsyncError, SendQueued, SendQueuedError, Handle
  <1>2. sock
    BY <1>1 DEF LifeInv
  <1>3. CASE ReplyError \/ ConnectAsyncError \/ SendQueuedError
    BY <1>1, <1>3, ConnCloseLife DEF ReplyError, ConnectAsyncError, SendQueuedError
  <1>4. CASE ClosedOnSendError
    BY <1>1, <1>4, SendErrorLife
  <1>5. CASE ReplyEof
    <2>1. CASE CloseSocket /\ UNCHANGED <<status, tx_queue>>
      BY <1>1, <2>1 DEF CloseSocket, LifeInv, SelectedSocketsAreOpen, WriteSetMatchesWork
    <2> QED
      BY <1>1, <1>4, <1>5, <2>1, ClosedLife DEF ReplyEof
  <1>6. CASE ReplyData
    <2>1. CASE UNCHANGED <<status, sock, tx_queue, write_fds>>
      BY <1>1, <1>2, <2>1 DEF LifeInv, SelectedSocketsAreOpen, WriteSetMatchesWork
    <2> QED
      BY <1>4, <1>6, <2>1 DEF ReplyData
  <1>7. CASE ConnectAsync
    <2>1. CASE status' = "CONNECTED" /\ write_fds' = FALSE /\ UNCHANGED <<sock, tx_queue, all_fds>>
      BY <1>1, <1>2, <1>7, <2>1 DEF ConnectAsync, LifeInv, SelectedSocketsAreOpen,
                                    WriteSetMatchesWork
    <2> QED
      BY <1>4, <1>7, <2>1 DEF ConnectAsync
  <1>8. CASE SendQueued
    <2>1. CASE write_fds' = (tx_queue' # <<>>) /\ UNCHANGED <<status, sock, all_fds>>
      <3>1. status = "CONNECTED"
        BY <1>2, <1>8 DEF SendQueued, LifeInv, SelectedSocketsAreOpen, WriteSetMatchesWork
      <3> QED
        BY <1>1, <1>2, <2>1, <3>1 DEF LifeInv, SelectedSocketsAreOpen, WriteSetMatchesWork
    <2> QED
      BY <1>4, <1>8, <2>1 DEF SendQueued
  <1> QED
    BY <1>3, <1>5, <1>6, <1>7, <1>8 DEF ZdtunHandleFd

LEMMA PurgeLife ==
    ASSUME TypeInv, LifeInv, ZdtunPurge
    PROVE  LifeInv'
  <1>1. ready' \notin {"rd", "wr"}
    BY DEF ZdtunPurge, PurgeClosed, PurgeIdle, Finalize
  <1>2. CASE PurgeClosed
    BY <1>1, <1>2 DEF PurgeClosed, ClosedStatuses, LifeInv, SelectedSocketsAreOpen,
                      WriteSetMatchesWork
  <1>3. CASE PurgeIdle
    BY <1>1, <1>3, ConnCloseLife DEF PurgeIdle
  <1>4. CASE Finalize
    <2>1. CASE Closed("GONE", 1)
      BY <1>1, <2>1, ClosedLife
    <2>2. CASE /\ status \in {"NEW", "GONE"} \cup ClosedStatuses
               /\ status' = IF status = "NEW" THEN "NEW" ELSE "GONE"
               /\ UNCHANGED <<sock, tx_queue, all_fds, write_fds, closes>>
      BY <1>1, <2>2 DEF ClosedStatuses, LifeInv, SelectedSocketsAreOpen, WriteSetMatchesWork
    <2> QED
      BY <1>4, <2>1, <2>2 DEF Finalize
  <1> QED
    BY <1>2, <1>3, <1>4 DEF ZdtunPurge

LEMMA LifeStep ==
    ASSUME TypeInv, LifeInv, [Next]_vars
    PROVE  LifeInv'
  <1>1. CASE Client \/ Server \/ UNCHANGED vars
    <2>1. UNCHANGED connVars /\ UNCHANGED ready
      BY <1>1 DEF Client, ClientConnect, ClientSend, ClientFin, ClientAck, ClientRead,
             ClientReset, ClientRefuses, ClientKeepAlive, ClientRetransmit,
             Server, ServerAccept, ServerRefuse, ServerSend, ServerEof, ServerReset, vars
    <2> QED
      BY <2>1, UnchangedLife DEF connVars
  <1>2. CASE Select
    BY <1>2 DEF Select, Readable, Writable, connVars, LifeInv, SelectedSocketsAreOpen,
                WriteSetMatchesWork
  <1> QED
    BY <1>1, <1>2, ForwardLife, HandleLife, PurgeLife DEF Next

THEOREM LifeInvariant == Spec => [](TypeInv /\ LifeInv)
  <1>1. Init => LifeInv
    BY DEF Init, LifeInv, SelectedSocketsAreOpen, WriteSetMatchesWork
  <1>2. TypeInv /\ LifeInv /\ [Next]_vars => LifeInv'
    BY LifeStep
  <1> QED
    BY <1>1, <1>2, TypeInvariant, PTL DEF Spec

\* close_socket is called for every socket that is given up: no descriptor that
\* select may report is one that was closed, and none is left open by a
\* connection that has ended.
THEOREM SocketsAreOpen == Spec => []SelectedSocketsAreOpen
  BY LifeInvariant, PTL DEF LifeInv

\* The write bit of a socket agrees with its queue in every interleaving of
\* packets, socket events and errors.
THEOREM WriteSetCorrect == Spec => []WriteSetMatchesWork
  BY LifeInvariant, PTL DEF LifeInv
-----------------------------------------------------------------------------
(***************************************************************************)
(* A closed connection.                                                    *)
(***************************************************************************)
\* A step of a closed connection only destroys it.
LEMMA ClosedStep ==
    ASSUME TypeInv, LifeInv, [Next]_vars, status \in ClosedStatuses \cup {"GONE"}
    PROVE  LeftAlone
  <1>1. status \notin OpenStatuses
    BY DEF ClosedStatuses, OpenStatuses
  <1>2. ~sock
    BY <1>1 DEF LifeInv, SelectedSocketsAreOpen, OpenStatuses
  <1>3. CASE Client \/ Server \/ Select \/ UNCHANGED vars
    <2>1. UNCHANGED connVars /\ UNCHANGED <<toServer, toClient, srv_read>>
      BY <1>3 DEF Client, ClientConnect, ClientSend, ClientFin, ClientAck, ClientRead,
             ClientReset, ClientRefuses, ClientKeepAlive, ClientRetransmit,
             Server, ServerAccept, ServerRefuse, ServerSend, ServerEof, ServerReset,
             Select, vars, clVars, srvVars
    <2> QED
      BY <2>1 DEF LeftAlone, connVars
  <1>4. CASE ZdtunForward
    <2>1. FwdToClosed
      BY <1>1, <1>4 DEF ZdtunForward, FwdToClosed, FwdOpenError, FwdConnectError, FwdConnect,
           FwdConnected, FwdUrgent, FwdConnecting, FwdOutOfSequence, FwdRst, FwdFin,
           FwdKeepAlive, FwdAck, FwdAfterServerClosed, Forward, Established, OpenStatuses
    <2> QED
      BY <2>1 DEF FwdToClosed, LeftAlone, clVars, srvVars
  <1>5. CASE ZdtunHandleFd
    <2>1. ready \in {"rd", "wr"}
      BY <1>5 DEF ZdtunHandleFd, ReplyError, ReplyEof, ReplyData, ConnectAsync,
           ConnectAsyncError, SendQueued, SendQueuedError, Handle
    <2> QED
      BY <1>2, <2>1 DEF LifeInv
  <1>6. CASE ZdtunPurge
    <2>1. ~PurgeIdle /\ (Finalize => status' = "GONE" /\ UNCHANGED closes)
      BY <1>1 DEF PurgeIdle, Finalize, OpenStatuses
    <2> QED
      BY <1>6, <2>1 DEF ZdtunPurge, PurgeClosed, Finalize, LeftAlone, clVars, srvVars
  <1> QED
    BY <1>3, <1>4, <1>5, <1>6 DEF Next

\* Whatever packet, socket event or timer comes after a close, the connection
\* is only destroyed: no second callback, no byte in either direction.
THEOREM ClosedStaysClosed == Spec => ClosedIsFinal
  <1>1. TypeInv /\ LifeInv /\ [Next]_vars
          => [(status \in ClosedStatuses \cup {"GONE"}) => LeftAlone]_vars
    BY ClosedStep
  <1> QED
    BY <1>1, LifeInvariant, PTL DEF Spec, ClosedIsFinal

\* A step that closes an open connection calls the callback once, when neither
\* open_socket nor the send_client callback fails.
LEMMA CallbackStep ==
    ASSUME TypeInv, LifeInv, ClosedCallbackOnce, [Next]_vars,
           "open_error" \notin Allow, "send_error" \notin Allow
    PROVE  ClosedCallbackOnce'
  <1>1. CASE status \in ClosedStatuses \cup {"GONE"}
    <2>1. status' \in ClosedStatuses \cup {"GONE"} /\ UNCHANGED closes
      BY <1>1, ClosedStep DEF LeftAlone
    <2> QED
      BY <1>1, <2>1 DEF ClosedCallbackOnce, OpenStatuses, ClosedStatuses
  <1>2. CASE status \in OpenStatuses
    <2>1. closes = 0
      BY <1>2 DEF ClosedCallbackOnce
    <2>2. ASSUME NEW st \in ClosedStatuses \cup {"GONE"}, Closed(st, 1)
          PROVE  ClosedCallbackOnce'
      BY <2>1, <2>2 DEF Closed, ClosedCallbackOnce, OpenStatuses, ClosedStatuses
    <2>3. ASSUME NEW st \in ClosedStatuses \cup {"GONE"}, ConnClose(st)
          PROVE  ClosedCallbackOnce'
      BY <2>2, <2>3, ConnCloseCloses DEF SendError
    <2>4. ASSUME status' \in OpenStatuses, UNCHANGED closes
          PROVE  ClosedCallbackOnce'
      BY <2>1, <2>4 DEF ClosedCallbackOnce
    <2>5. ~ClosedOnSendError
      BY DEF ClosedOnSendError, SendError
    <2>6. CASE Client \/ Server \/ Select \/ UNCHANGED vars
      <3>1. UNCHANGED connVars
        BY <2>6 DEF Client, ClientConnect, ClientSend, ClientFin, ClientAck, ClientRead,
             ClientReset, ClientRefuses, ClientKeepAlive, ClientRetransmit,
             Server, ServerAccept, ServerRefuse, ServerSend, ServerEof, ServerReset,
             Select, vars
      <3> QED
        BY <1>2, <2>4, <3>1 DEF connVars
    <2>7. CASE ZdtunForward
      <3>1. CASE FwdToClosed \/ FwdOpenError
        BY <1>2, <3>1 DEF FwdToClosed, FwdOpenError, Forward, OpenStatuses, ClosedStatuses
      <3>2. CASE FwdConnectError \/ FwdUrgent \/ FwdRst
        BY <2>3, <3>2 DEF FwdConnectError, FwdUrgent, FwdRst, ClosedStatuses
      <3>3. CASE FwdConnect \/ FwdConnected
        BY <2>4, <2>5, <3>3 DEF FwdConnect, FwdConnected, OpenStatuses
      <3>4. CASE FwdFin
        BY <1>2, <2>2, <2>4, <2>5, <3>4 DEF FwdFin, ClosedStatuses
      <3>5. CASE FwdConnecting \/ FwdOutOfSequence \/ FwdKeepAlive \/ FwdAck
                   \/ FwdAfterServerClosed
        BY <1>2, <2>4, <2>5, <3>5 DEF FwdConnecting, FwdOutOfSequence, FwdKeepAlive, FwdAck,
             FwdAfterServerClosed, connVars
      <3> QED
        BY <2>7, <3>1, <3>2, <3>3, <3>4, <3>5 DEF ZdtunForward
    <2>8. CASE ZdtunHandleFd
      <3>1. CASE ReplyError \/ ConnectAsyncError \/ SendQueuedError
        BY <2>3, <3>1 DEF ReplyError, ConnectAsyncError, SendQueuedError,
             SocketErrorStatus, ClosedStatuses
      <3>2. CASE ReplyEof
        BY <1>2, <2>2, <2>4, <2>5, <3>2 DEF ReplyEof, ClosedStatuses
      <3>3. CASE ReplyData \/ ConnectAsync \/ SendQueued
        BY <1>2, <2>4, <2>5, <3>3 DEF ReplyData, ConnectAsync, SendQueued, OpenStatuses
      <3> QED
        BY <2>8, <3>1, <3>2, <3>3 DEF ZdtunHandleFd
    <2>9. CASE ZdtunPurge
      <3>1. ~PurgeClosed
        BY <1>2 DEF PurgeClosed, OpenStatuses, ClosedStatuses
      <3>2. CASE PurgeIdle
        BY <2>3, <3>2 DEF PurgeIdle
      <3>3. CASE Finalize
        <4>1. CASE Closed("GONE", 1)
          BY <2>2, <4>1
        <4>2. CASE UNCHANGED closes /\ status' = "NEW"
          BY <2>4, <4>2 DEF OpenStatuses
        <4> QED
          BY <1>2, <3>3, <4>1, <4>2 DEF Finalize, OpenStatuses, ClosedStatuses
      <3> QED
        BY <2>9, <3>1, <3>2, <3>3 DEF ZdtunPurge
    <2> QED
      BY <2>6, <2>7, <2>8, <2>9 DEF Next
  <1> QED
    BY <1>1, <1>2 DEF TypeInv, ConnInv, ConnTypeOK, Statuses

\* on_connection_close is called once for every connection that ends and never
\* for one that lives, as long as sockets can be opened and packets be written
\* to the TUN device.
THEOREM CallbackOnce ==
    ASSUME "open_error" \notin Allow, "send_error" \notin Allow
    PROVE  Spec => []ClosedCallbackOnce
  <1>1. Init => ClosedCallbackOnce
    BY DEF Init, ClosedCallbackOnce, OpenStatuses
  <1>2. TypeInv /\ LifeInv /\ ClosedCallbackOnce /\ [Next]_vars => ClosedCallbackOnce'
    BY CallbackStep
  <1> QED
    BY <1>1, <1>2, LifeInvariant, PTL DEF Spec
=============================================================================
