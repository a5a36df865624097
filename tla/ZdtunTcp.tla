------------------------------ MODULE ZdtunTcp ------------------------------
(***************************************************************************)
(* One TCP connection of the user-space NAT of the VPN engine              *)
(* (app/src/main/jni/zdtun.c), driven by the select loop of run_vpn        *)
(* (app/src/main/jni/vpnrelay.c).                                          *)
(*                                                                         *)
(* Three parties.  The CLIENT is the TCP stack of the device: it puts its  *)
(* segments on the TUN queue and takes zdtun's segments as soon as they    *)
(* are written.  ZDTUN terminates the client's connection and opens an     *)
(* ordinary socket.  The SERVER is whatever that socket is connected to.   *)
(* The client and the server are environment: they are not in src/ and     *)
(* are as well behaved as a standard stack.                                *)
(*                                                                         *)
(* Bytes are numbered.  The client's stream is 1, 2, 3, ... and byte i     *)
(* has sequence number i (the SYN has 0); the server's stream is           *)
(* 1, 2, 3, ... too.  Sequence numbers are kept unwrapped; where the code  *)
(* depends on their width, they are reduced modulo SeqMod.                 *)
(*                                                                         *)
(* The connection is a direct one (PROXY_NONE or PROXY_DNAT): the          *)
(* branches on socks5_in_progress are dead for it.                         *)
(***************************************************************************)
EXTENDS Integers, Sequences

CONSTANTS
    ClientData,  \* bytes the client application sends
    ServerData,  \* bytes the server sends
    SegMax,      \* maximum segment size, in both directions
    RcvBuf,      \* receive buffer of the client, in bytes
    WinUnit,     \* 2^scale for the window scale option of the client: the unit of its windows
    ISS,         \* first sequence number of zdtun, 0x77EB77EB in the code
    SeqMod,      \* 2^32 in the code
    MaxProbes,   \* bound on the keep-alives and retransmissions of the client
    Allow        \* what the environment may do beyond a plain exchange

Behaviours == {
    "early_server",     \* the server talks before zdtun has noticed the connect
    "server_reset",     \* the server resets the connection
    "refused",          \* the server refuses the connection
    "open_error",       \* open_socket fails (socket limit, no descriptor)
    "connect_error",    \* connect fails at once (no route)
    "send_error",       \* the send_client callback fails
    "fin_with_data",    \* the client sends FIN before its data is acknowledged
    "fin_with_ack",     \* the FIN carries an ACK or a window update that is due
    "client_reset",     \* the client resets the connection
    "urgent",           \* the client sends urgent data
    "keepalive",        \* the client sends keep-alive probes
    "retransmit",       \* the client retransmits what is not acknowledged
    "idle",             \* no packet is seen for TCP_TIMEOUT_SEC
    "stop" }            \* the capture is stopped

ASSUME ConstantsAssumption ==
    /\ ClientData \in Nat /\ ServerData \in Nat /\ MaxProbes \in Nat
    /\ SegMax \in Nat \ {0} /\ RcvBuf \in Nat \ {0}
    /\ WinUnit \in Nat \ {0} /\ ISS \in Nat /\ SeqMod \in Nat \ {0}
    /\ Allow \subseteq Behaviours

VARIABLES
    \* zdtun_conn_t
    status, sock, tx_queue, tx_queue_size, client_seq, zdtun_seq, window_size,
    fin_ack_sent, client_closed,
    \* the bits of this socket in zdtun_t.all_fds and zdtun_t.write_fds
    all_fds, write_fds,
    \* calls of on_connection_close made for this connection
    closes,
    \* what the last select of run_vpn reported
    ready,
    \* packets the client has written and run_vpn has not read
    tun,
    \* the client
    cl_state, snd_nxt, snd_una, rcv_nxt, rcv_used, ack_due, cl_fin, cl_eof,
    toClient, probes,
    \* the server and the kernel's end of the socket
    srv, srv_sent, srv_read, srv_eof, wr_shut, toServer

connVars == <<status, sock, tx_queue, tx_queue_size, client_seq, zdtun_seq,
              window_size, fin_ack_sent, client_closed, all_fds, write_fds, closes>>
clVars   == <<cl_state, snd_nxt, snd_una, rcv_nxt, rcv_used, ack_due, cl_fin,
              cl_eof, toClient, probes>>
srvVars  == <<srv, srv_sent, srv_read, srv_eof, wr_shut, toServer>>
vars     == <<connVars, ready, tun, clVars, srvVars>>

OpenStatuses   == {"NEW", "CONNECTING", "CONNECTED"}
ClosedStatuses == {"CLOSED", "ERROR", "SOCKET_ERROR", "CLIENT_ERROR", "RESET",
                   "UNREACHABLE"}
\* GONE: destroyed, no longer in the connection table
Statuses == OpenStatuses \cup ClosedStatuses \cup {"GONE"}

MinOf(a, b) == IF a < b THEN a ELSE b
MaxOf(a, b) == IF a < b THEN b ELSE a

\* The bytes a .. b of a stream
Bytes(a, b) == [i \in 1..(b - a + 1) |-> a + i - 1]
-----------------------------------------------------------------------------
(***************************************************************************)
(* The client.                                                             *)
(***************************************************************************)
\* th_win: not scaled in a SYN, scaled in every other segment
Window(used) == (RcvBuf - used) \div WinUnit

Segment(flags, seq, len) ==
    [flags |-> flags, seq |-> seq, len |-> len, ack |-> rcv_nxt,
     win |-> Window(rcv_used)]

\* The client puts a segment on the TUN queue; every segment carries its ACK.
Send(seg) == tun' = Append(tun, seg) /\ ack_due' = FALSE

\* Bytes of data the client has sent so far
SentData == snd_nxt - 1 - (IF cl_fin THEN 1 ELSE 0)

ClientConnect ==
    /\ cl_state = "CLOSED"
    /\ cl_state' = "SYN_SENT" /\ snd_nxt' = 1
    /\ Send([flags |-> {"SYN"}, seq |-> 0, len |-> 0, ack |-> 0, win |-> RcvBuf])
    /\ UNCHANGED <<connVars, ready, srvVars, snd_una, rcv_nxt, rcv_used, cl_fin,
                   cl_eof, toClient, probes>>

ClientSend == \E n \in 1..SegMax, urg \in {{}, {"URG"}} :
    /\ cl_state = "ESTABLISHED" /\ ~cl_fin
    /\ urg # {} => "urgent" \in Allow
    /\ SentData + n <= ClientData
    /\ snd_nxt' = snd_nxt + n
    /\ Send(Segment({"ACK"} \cup urg, snd_nxt, n))
    /\ UNCHANGED <<connVars, ready, srvVars, cl_state, snd_una, rcv_nxt, rcv_used,
                   cl_fin, cl_eof, toClient, probes>>

\* The FIN may be sent while data is not acknowledged, and carry data itself.
ClientFin == \E n \in 0..SegMax :
    /\ cl_state = "ESTABLISHED" /\ ~cl_fin
    /\ n > 0 \/ snd_una # snd_nxt => "fin_with_data" \in Allow
    /\ ack_due => "fin_with_ack" \in Allow
    /\ SentData + n <= ClientData
    /\ cl_fin' = TRUE
    /\ snd_nxt' = snd_nxt + n + 1
    /\ Send(Segment({"FIN", "ACK"}, snd_nxt, n))
    /\ UNCHANGED <<connVars, ready, srvVars, cl_state, snd_una, rcv_nxt, rcv_used,
                   cl_eof, toClient, probes>>

\* The acknowledgement of what was received may be delayed.
ClientAck ==
    /\ cl_state = "ESTABLISHED" /\ ack_due
    /\ Send(Segment({"ACK"}, snd_nxt, 0))
    /\ UNCHANGED <<connVars, ready, srvVars, cl_state, snd_nxt, snd_una, rcv_nxt,
                   rcv_used, cl_fin, cl_eof, toClient, probes>>

\* The application reads the receive buffer; a window update becomes due.
ClientRead ==
    /\ cl_state = "ESTABLISHED" /\ rcv_used > 0
    /\ rcv_used' = 0 /\ ack_due' = TRUE
    /\ UNCHANGED <<connVars, ready, tun, srvVars, cl_state, snd_nxt, snd_una,
                   rcv_nxt, cl_fin, cl_eof, toClient, probes>>

ClientReset ==
    /\ "client_reset" \in Allow
    /\ cl_state \in {"SYN_SENT", "ESTABLISHED"}
    /\ cl_state' = "RESET"
    /\ Send(Segment({"RST", "ACK"}, snd_nxt, 0))
    /\ UNCHANGED <<connVars, ready, srvVars, snd_nxt, snd_una, rcv_nxt, rcv_used,
                   cl_fin, cl_eof, toClient, probes>>

\* A stack without the connection answers a segment with a RST at its ACK number.
ClientRefuses ==
    /\ cl_state = "RESET" /\ ack_due
    /\ Send(Segment({"RST"}, snd_una, 0))
    /\ UNCHANGED <<connVars, ready, srvVars, cl_state, snd_nxt, snd_una, rcv_nxt,
                   rcv_used, cl_fin, cl_eof, toClient, probes>>

\* A keep-alive or a zero window probe: an empty segment one before snd_una
ClientKeepAlive ==
    /\ "keepalive" \in Allow /\ probes < MaxProbes
    /\ cl_state = "ESTABLISHED" /\ ~ack_due
    /\ probes' = probes + 1
    /\ Send(Segment({"ACK"}, snd_una - 1, 0))
    /\ UNCHANGED <<connVars, ready, srvVars, cl_state, snd_nxt, snd_una, rcv_nxt,
                   rcv_used, cl_fin, cl_eof, toClient>>

\* The first segment that is not acknowledged: the SYN, data, or the FIN.
ClientRetransmit ==
    /\ "retransmit" \in Allow /\ probes < MaxProbes
    /\ probes' = probes + 1
    /\ \/ /\ cl_state = "SYN_SENT"
          /\ Send([flags |-> {"SYN"}, seq |-> 0, len |-> 0, ack |-> 0, win |-> RcvBuf])
       \/ /\ cl_state = "ESTABLISHED" /\ snd_una <= SentData
          /\ Send(Segment({"ACK"}, snd_una, MinOf(SegMax, SentData - snd_una + 1)))
       \/ /\ cl_state = "ESTABLISHED" /\ cl_fin /\ snd_una = snd_nxt - 1
          /\ Send(Segment({"FIN", "ACK"}, snd_una, 0))
    /\ UNCHANGED <<connVars, ready, srvVars, cl_state, snd_nxt, snd_una, rcv_nxt,
                   rcv_used, cl_fin, cl_eof, toClient>>
-----------------------------------------------------------------------------
(***************************************************************************)
(* The server.                                                             *)
(***************************************************************************)
\* Unless it may be early, the server talks once zdtun has seen the connect.
MayTalk == srv = "up" /\ (status = "CONNECTING" => "early_server" \in Allow)

ServerAccept ==
    /\ srv = "connecting" /\ srv' = "up"
    /\ UNCHANGED <<connVars, ready, tun, clVars, srv_sent, srv_read, srv_eof,
                   wr_shut, toServer>>

ServerRefuse ==
    /\ "refused" \in Allow
    /\ srv = "connecting" /\ srv' = "refused"
    /\ UNCHANGED <<connVars, ready, tun, clVars, srv_sent, srv_read, srv_eof,
                   wr_shut, toServer>>

ServerSend ==
    /\ MayTalk /\ ~srv_eof /\ srv_sent < ServerData
    /\ srv_sent' = srv_sent + 1
    /\ UNCHANGED <<connVars, ready, tun, clVars, srv, srv_read, srv_eof, wr_shut,
                   toServer>>

ServerEof ==
    /\ MayTalk /\ ~srv_eof
    /\ srv_eof' = TRUE
    /\ UNCHANGED <<connVars, ready, tun, clVars, srv, srv_sent, srv_read, wr_shut,
                   toServer>>

ServerReset ==
    /\ "server_reset" \in Allow
    /\ srv = "up" /\ srv' = "reset"
    /\ UNCHANGED <<connVars, ready, tun, clVars, srv_sent, srv_read, srv_eof,
                   wr_shut, toServer>>
-----------------------------------------------------------------------------
(***************************************************************************)
(* From zdtun to the client.                                               *)
(***************************************************************************)
\* build_reply_tcpip: first is the server byte the payload starts with
Reply(flags, ack, len) ==
    [flags |-> flags, seq |-> zdtun_seq, ack |-> ack, len |-> len,
     first |-> srv_read + 1]

\* What the client accepts of a segment with data: zdtun never sends it again.
Accepted(seg) ==
    IF seg.seq = rcv_nxt THEN MinOf(seg.len, RcvBuf - rcv_used) ELSE 0

\* A handshake segment that answers the client's SYN
AnswersSyn(seg) ==
    cl_state = "SYN_SENT" /\ seg.ack = snd_nxt /\ seg.flags \cap {"SYN", "RST"} # {}

\* A segment the client has a connection for, with an acceptable ACK
Acceptable(seg) == cl_state = "ESTABLISHED" /\ seg.ack <= snd_nxt

\* The SYN+ACK
ClientOpens(seg) ==
    /\ AnswersSyn(seg) /\ "RST" \notin seg.flags
    /\ cl_state' = "ESTABLISHED"
    /\ rcv_nxt' = seg.seq + 1
    /\ snd_una' = seg.ack /\ ack_due' = TRUE
    /\ UNCHANGED <<rcv_used, toClient, cl_eof>>

ClientAborts(seg) ==
    /\ AnswersSyn(seg) \/ Acceptable(seg)
    /\ "RST" \in seg.flags
    /\ cl_state' = "RESET"
    /\ UNCHANGED <<rcv_nxt, snd_una, ack_due, rcv_used, toClient, cl_eof>>

FinInOrder(seg) == "FIN" \in seg.flags /\ seg.seq = rcv_nxt

\* Data, a FIN, or an ACK
ClientTakes(seg) ==
    /\ Acceptable(seg) /\ "RST" \notin seg.flags
    /\ rcv_nxt' = rcv_nxt + Accepted(seg) + (IF FinInOrder(seg) THEN 1 ELSE 0)
    /\ rcv_used' = rcv_used + Accepted(seg)
    /\ toClient' = toClient \o Bytes(seg.first, seg.first + Accepted(seg) - 1)
    /\ ack_due' = (ack_due \/ seg.len > 0 \/ FinInOrder(seg))
    /\ cl_eof' = (cl_eof \/ FinInOrder(seg))
    /\ snd_una' = MaxOf(snd_una, seg.ack)
    /\ UNCHANGED cl_state

\* A stack without the connection owes a RST.
ClientDrops(seg) ==
    /\ ~AnswersSyn(seg) /\ ~Acceptable(seg)
    /\ IF cl_state = "RESET" /\ "RST" \notin seg.flags
       THEN snd_una' = seg.ack /\ ack_due' = TRUE
       ELSE UNCHANGED <<snd_una, ack_due>>
    /\ UNCHANGED <<cl_state, rcv_nxt, rcv_used, toClient, cl_eof>>

\* The client receives a segment.
ClientGets(seg) ==
    /\ \/ ClientOpens(seg) \/ ClientAborts(seg)
       \/ ClientTakes(seg) \/ ClientDrops(seg)
    /\ UNCHANGED <<snd_nxt, cl_fin, probes>>

SendError == "send_error" \in Allow

\* Mutant: the socket stays in the write set.
CloseSocketKeepsWrite == sock' = FALSE /\ all_fds' = FALSE /\ UNCHANGED write_fds

CloseSocket == sock' = FALSE /\ all_fds' = FALSE /\ write_fds' = FALSE

\* What every path through zdtun_conn_close does: n counts the calls of
\* on_connection_close, st is the status the connection is left with.
Closed(st, n) ==
    /\ CloseSocket
    /\ tx_queue' = <<>>
    /\ status' = st
    /\ closes' = closes + n

\* Mutant: the segment is lost and the connection goes on.
LostOnSendError ==
    /\ SendError
    /\ UNCHANGED <<status, sock, tx_queue, fin_ack_sent, all_fds, write_fds, closes,
                   clVars>>

\* send_to_client fails outside of zdtun_conn_close: the connection is closed
\* and no RST is sent.
ClosedOnSendError ==
    /\ SendError
    /\ Closed("CLIENT_ERROR", 1)
    /\ fin_ack_sent' = TRUE
    /\ UNCHANGED clVars

\* Mutant: no RST.
ConnCloseSilent(st) == Closed(st, 1) /\ UNCHANGED <<fin_ack_sent, clVars>>

\* zdtun_conn_close: a RST is sent unless a FIN was.  When the RST fails,
\* send_to_client closes the connection first, with a callback of its own.
ConnClose(st) ==
    \/ /\ fin_ack_sent
       /\ Closed(st, 1)
       /\ UNCHANGED <<fin_ack_sent, clVars>>
    \/ /\ ~fin_ack_sent
       /\ ClientGets(Reply({"RST", "ACK"}, client_seq, 0))
       /\ Closed(st, 1)
       /\ UNCHANGED fin_ack_sent
    \/ /\ ~fin_ack_sent /\ SendError
       /\ Closed(st, 2)
       /\ fin_ack_sent' = TRUE
       /\ UNCHANGED clVars
-----------------------------------------------------------------------------
(***************************************************************************)
(* run_vpn: select, then one packet of the TUN device, or else the ready   *)
(* sockets.                                                                *)
(***************************************************************************)
Avail == srv_sent - srv_read

Readable == sock /\ all_fds /\ (Avail > 0 \/ srv_eof \/ srv \in {"refused", "reset"})
Writable == sock /\ write_fds /\ srv \in {"up", "refused", "reset"}

\* The TUN device goes first; zdtun_handle_fd reads a socket rather than write it.
Select ==
    /\ ready = "idle"
    /\ \/ tun # <<>> /\ ready' = "tun"
       \/ tun = <<>> /\ Readable /\ ready' = "rd"
       \/ tun = <<>> /\ ~Readable /\ Writable /\ ready' = "wr"
    /\ UNCHANGED <<connVars, tun, clVars, srvVars>>

pkt == Head(tun)

\* The packet at the head of the queue is handled, under the given condition.
Forward(guard) ==
    /\ ready = "tun" /\ guard
    /\ ready' = "idle" /\ tun' = Tail(tun)

\* zdtun_lookup destroys a closed connection, then there is none for the packet.
\* (A SYN would start another connection, which this module does not follow.)
FwdToClosed ==
    /\ Forward(status \in ClosedStatuses \cup {"GONE"})
    /\ status' = "GONE"
    /\ UNCHANGED <<sock, tx_queue, tx_queue_size, client_seq, zdtun_seq, window_size,
                   fin_ack_sent, client_closed, all_fds, write_fds, closes,
                   clVars, srvVars>>

\* handle_tcp_fwd, CONN_STATUS_NEW: open_socket fails
FwdOpenError ==
    /\ "open_error" \in Allow
    /\ Forward(status = "NEW")
    /\ status' = "SOCKET_ERROR"
    /\ UNCHANGED <<sock, tx_queue, tx_queue_size, client_seq, zdtun_seq, window_size,
                   fin_ack_sent, client_closed, all_fds, write_fds, closes,
                   clVars, srvVars>>

\* ... connect fails at once: neither sequence number is set yet
FwdConnectError ==
    /\ "connect_error" \in Allow
    /\ Forward(status = "NEW")
    /\ window_size' = pkt.win * WinUnit
    /\ \E st \in {"UNREACHABLE", "SOCKET_ERROR"} : ConnClose(st)
    /\ UNCHANGED <<tx_queue_size, client_seq, zdtun_seq, client_closed, srvVars>>

\* ... connect is in progress
FwdConnect ==
    /\ Forward(status = "NEW")
    /\ status' = "CONNECTING" /\ srv' = "connecting"
    /\ sock' = TRUE /\ all_fds' = TRUE /\ write_fds' = TRUE
    /\ client_seq' = pkt.seq + 1 /\ zdtun_seq' = ISS
    /\ window_size' = pkt.win * WinUnit
    /\ UNCHANGED <<tx_queue, tx_queue_size, fin_ack_sent, client_closed, closes,
                   clVars, srv_sent, srv_read, srv_eof, wr_shut, toServer>>

\* ... connect is done at once, as it is on the loopback: tcp_socket_syn
FwdConnected ==
    /\ Forward(status = "NEW")
    /\ srv' = "up"
    /\ client_seq' = pkt.seq + 1
    /\ window_size' = pkt.win * WinUnit
    /\ \/ /\ ClientGets([Reply({"SYN", "ACK"}, client_seq', 0) EXCEPT !.seq = ISS])
          /\ status' = "CONNECTED" /\ zdtun_seq' = ISS + 1
          /\ sock' = TRUE /\ all_fds' = TRUE
          /\ UNCHANGED <<tx_queue, fin_ack_sent, write_fds, closes>>
       \/ ClosedOnSendError /\ zdtun_seq' = ISS
    /\ UNCHANGED <<tx_queue_size, client_closed, srv_sent, srv_read, srv_eof, wr_shut,
                   toServer>>

FwdUrgent ==
    /\ Forward(status \in {"CONNECTING", "CONNECTED"} /\ "URG" \in pkt.flags)
    /\ ConnClose("ERROR")
    /\ UNCHANGED <<tx_queue_size, client_seq, zdtun_seq, window_size, client_closed,
                   srvVars>>

FwdConnecting ==
    /\ Forward(status = "CONNECTING" /\ "URG" \notin pkt.flags)
    /\ UNCHANGED <<connVars, clVars, srvVars>>

\* Mutant: every ACK is taken for a keep-alive.
KeepAliveAnyAck == "ACK" \in pkt.flags

\* Mutant: packets reach a connection that is closed.
EstablishedOrClosed == status \in {"CONNECTED"} \cup ClosedStatuses

KeepAlive  == "ACK" \in pkt.flags /\ pkt.seq + 1 = client_seq
InSequence == KeepAlive \/ pkt.seq = client_seq + tx_queue_size
Established == status = "CONNECTED" /\ "URG" \notin pkt.flags

FwdOutOfSequence ==
    /\ Forward(Established /\ ~InSequence)
    /\ UNCHANGED <<connVars, clVars, srvVars>>

FwdRst ==
    /\ Forward(Established /\ InSequence /\ "RST" \in pkt.flags)
    /\ ConnClose("CLOSED")
    /\ UNCHANGED <<tx_queue_size, client_seq, zdtun_seq, window_size, client_closed,
                   srvVars>>

\* The socket is shut down for writing at once; data that is still queued, and
\* data of the FIN segment itself, is acknowledged and not written.
FwdFin ==
    /\ Forward(Established /\ InSequence /\ "FIN" \in pkt.flags)
    /\ wr_shut' = (wr_shut \/ sock)
    /\ client_seq' = client_seq + pkt.len + 1
    /\ client_closed' = TRUE
    /\ \/ /\ ClientGets(Reply({"ACK"}, client_seq', 0))
          /\ UNCHANGED fin_ack_sent
          /\ \/ sock /\ UNCHANGED <<status, sock, tx_queue, all_fds, write_fds, closes>>
             \/ ~sock /\ fin_ack_sent /\ Closed("CLOSED", 1)
       \/ ClosedOnSendError
    /\ UNCHANGED <<tx_queue_size, zdtun_seq, window_size, srv, srv_sent, srv_read,
                   srv_eof, toServer>>

Plain == "RST" \notin pkt.flags /\ "FIN" \notin pkt.flags

\* Mutant: the data is put before what is queued.
EnqueueFirst ==
    IF pkt.len = 0 THEN UNCHANGED <<tx_queue, tx_queue_size, write_fds>>
    ELSE /\ tx_queue' = Bytes(pkt.seq, pkt.seq + pkt.len - 1) \o tx_queue
         /\ tx_queue_size' = tx_queue_size + pkt.len
         /\ write_fds' = TRUE

\* Mutant: the socket is not put in the write set.
EnqueueUnselected ==
    /\ tx_queue' = tx_queue \o Bytes(pkt.seq, pkt.seq + pkt.len - 1)
    /\ tx_queue_size' = tx_queue_size + pkt.len
    /\ UNCHANGED write_fds

\* enqueue_tcp_data, when the segment has data
Enqueue ==
    IF pkt.len = 0 THEN UNCHANGED <<tx_queue, tx_queue_size, write_fds>>
    ELSE /\ tx_queue' = tx_queue \o Bytes(pkt.seq, pkt.seq + pkt.len - 1)
         /\ tx_queue_size' = tx_queue_size + pkt.len
         /\ write_fds' = TRUE

\* A keep-alive is answered; a failure of that ends the handler.
FwdKeepAlive ==
    /\ Forward(Established /\ KeepAlive /\ Plain /\ sock)
    /\ \/ /\ ClientGets(Reply({"ACK"}, client_seq, 0))
          /\ Enqueue
          /\ UNCHANGED <<status, sock, all_fds, fin_ack_sent, closes>>
       \/ ClosedOnSendError /\ UNCHANGED tx_queue_size
    /\ UNCHANGED <<client_seq, zdtun_seq, window_size, client_closed, srvVars>>

\* Mutant: the bytes in flight are forgotten.
InFlightNone(seq, ack) == 0

\* The bytes in flight to the client: zdtun_seq - ack_num on SeqMod values
InFlight(seq, ack) ==
    LET s == seq % SeqMod
        a == ack % SeqMod
    IN  IF s >= a THEN s - a ELSE SeqMod - 1 - a + s + 1

\* A socket is selected for reading while the client has room.
HasRoom(w) == w > 0

\* An ACK updates the window and may make the socket selectable again.
FwdAck ==
    /\ Forward(Established /\ InSequence /\ ~KeepAlive /\ Plain /\ sock)
    /\ window_size' = (pkt.win * WinUnit - InFlight(zdtun_seq, pkt.ack)) % SeqMod
    /\ all_fds' = (all_fds \/ HasRoom(window_size'))
    /\ Enqueue
    /\ UNCHANGED <<status, sock, client_seq, zdtun_seq, fin_ack_sent, client_closed,
                   closes, clVars, srvVars>>

\* The server has closed: the data is acknowledged and dropped.
FwdAfterServerClosed ==
    /\ Forward(Established /\ InSequence /\ Plain /\ ~sock)
    /\ client_seq' = client_seq + pkt.len
    /\ \/ /\ pkt.len > 0
          /\ ClientGets(Reply({"ACK"}, client_seq', 0))
          /\ UNCHANGED <<status, sock, tx_queue, fin_ack_sent, all_fds, write_fds, closes>>
       \/ pkt.len > 0 /\ ClosedOnSendError
       \/ /\ pkt.len = 0
          /\ UNCHANGED <<status, sock, tx_queue, fin_ack_sent, all_fds, write_fds,
                         closes, clVars>>
    /\ UNCHANGED <<tx_queue_size, zdtun_seq, window_size, client_closed, srvVars>>
-----------------------------------------------------------------------------
(***************************************************************************)
(* zdtun_handle_fd.                                                        *)
(***************************************************************************)
Handle(r) == ready = r /\ ready' = "idle" /\ UNCHANGED tun

\* Mutant: the window of the client is forgotten.
RecvLenNoWindow == MinOf(SegMax, Avail)

\* Mutant: one byte of the window is kept back.
RecvLenOneLess == MinOf(MinOf(window_size - 1, SegMax), Avail)

RecvLen == MinOf(MinOf(window_size, SegMax), Avail)

\* close_with_socket_error
SocketErrorStatus == IF srv = "reset" THEN "RESET" ELSE "SOCKET_ERROR"

\* handle_tcp_reply: recv fails
ReplyError ==
    /\ Handle("rd") /\ Avail = 0 /\ ~srv_eof
    /\ ConnClose(SocketErrorStatus)
    /\ UNCHANGED <<tx_queue_size, client_seq, zdtun_seq, window_size, client_closed,
                   srvVars>>

\* ... recv returns 0: the server has closed, or the buffer given had no room
ReplyEof ==
    /\ Handle("rd") /\ RecvLen = 0 /\ (Avail > 0 \/ srv_eof)
    /\ \/ /\ ClientGets(Reply({"FIN", "ACK"}, client_seq, 0))
          /\ fin_ack_sent' = TRUE
          /\ zdtun_seq' = zdtun_seq + 1
          /\ \/ client_closed /\ Closed("CLOSED", 1)
             \/ /\ ~client_closed
                /\ CloseSocket
                /\ UNCHANGED <<status, tx_queue, closes>>
       \/ ClosedOnSendError /\ UNCHANGED zdtun_seq
    /\ UNCHANGED <<tx_queue_size, client_seq, window_size, client_closed, srvVars>>

\* ... recv returns data, of the length it was given: what fits in the window, so that
\* the check of the window that follows does not fail.
ReplyData ==
    /\ Handle("rd") /\ RecvLen > 0
    /\ srv_read' = srv_read + RecvLen
    /\ \/ /\ ClientGets(Reply({"ACK"}, client_seq, RecvLen))
          /\ zdtun_seq' = zdtun_seq + RecvLen
          /\ window_size' = window_size - RecvLen
          /\ all_fds' = HasRoom(window_size')
          /\ UNCHANGED <<status, sock, tx_queue, fin_ack_sent, write_fds, closes>>
       \/ ClosedOnSendError /\ UNCHANGED <<zdtun_seq, window_size>>
    /\ UNCHANGED <<tx_queue_size, client_seq, client_closed, srv, srv_sent, srv_eof,
                   wr_shut, toServer>>

\* handle_tcp_connect_async, and tcp_socket_syn when the socket has no error
ConnectAsync ==
    /\ Handle("wr") /\ tx_queue = <<>> /\ srv = "up"
    /\ \/ /\ ClientGets(Reply({"SYN", "ACK"}, client_seq, 0))
          /\ status' = "CONNECTED" /\ write_fds' = FALSE
          /\ zdtun_seq' = zdtun_seq + 1
          /\ UNCHANGED <<sock, tx_queue, fin_ack_sent, all_fds, closes>>
       \/ ClosedOnSendError /\ UNCHANGED zdtun_seq
    /\ UNCHANGED <<tx_queue_size, client_seq, window_size, client_closed, srvVars>>

ConnectAsyncError ==
    /\ Handle("wr") /\ tx_queue = <<>> /\ srv # "up"
    /\ ConnClose(SocketErrorStatus)
    /\ UNCHANGED <<tx_queue_size, client_seq, zdtun_seq, window_size, client_closed,
                   srvVars>>

\* Mutant: the whole queue is acknowledged after a partial send.
TakenAckAll(n) ==
    /\ toServer' = toServer \o SubSeq(tx_queue, 1, n)
    /\ client_seq' = client_seq + (IF n = 0 THEN 0 ELSE Len(tx_queue))
    /\ tx_queue_size' = tx_queue_size - n

\* The kernel has taken n bytes of the queue.
Taken(n) ==
    /\ toServer' = toServer \o SubSeq(tx_queue, 1, n)
    /\ client_seq' = client_seq + n
    /\ tx_queue_size' = tx_queue_size - n

\* handle_queued_tcp_data: the kernel takes n bytes of the queue, then has no room
SendQueued == \E n \in 0..Len(tx_queue) :
    /\ Handle("wr") /\ tx_queue # <<>> /\ srv = "up" /\ ~wr_shut
    /\ Taken(n)
    /\ \/ /\ tx_queue' = SubSeq(tx_queue, n + 1, Len(tx_queue))
          /\ write_fds' = (tx_queue' # <<>>)
          /\ \/ n = 0 /\ UNCHANGED clVars
             \/ n > 0 /\ ClientGets(Reply({"ACK"}, client_seq', 0))
          /\ UNCHANGED <<status, sock, fin_ack_sent, all_fds, closes>>
       \/ n > 0 /\ ClosedOnSendError
    /\ UNCHANGED <<zdtun_seq, window_size, client_closed, srv, srv_sent, srv_read,
                   srv_eof, wr_shut>>

\* ... or fails, after n bytes when the reset came in between
SendQueuedError == \E n \in 0..(Len(tx_queue) - 1) :
    /\ Handle("wr") /\ tx_queue # <<>>
    /\ srv = "reset" \/ (wr_shut /\ n = 0)
    /\ toServer' = toServer \o SubSeq(tx_queue, 1, n)
    /\ ConnClose(SocketErrorStatus)
    /\ UNCHANGED <<tx_queue_size, client_seq, zdtun_seq, window_size, client_closed,
                   srv, srv_sent, srv_read, srv_eof, wr_shut>>
-----------------------------------------------------------------------------
(***************************************************************************)
(* zdtun_purge_expired and zdtun_finalize.                                 *)
(***************************************************************************)
PurgeClosed ==
    /\ ready = "idle" /\ status \in ClosedStatuses
    /\ status' = "GONE"
    /\ UNCHANGED <<sock, tx_queue, tx_queue_size, client_seq, zdtun_seq, window_size,
                   fin_ack_sent, client_closed, all_fds, write_fds, closes,
                   ready, tun, clVars, srvVars>>

PurgeIdle ==
    /\ "idle" \in Allow
    /\ ready = "idle" /\ status \in {"CONNECTING", "CONNECTED"}
    /\ ConnClose("GONE")
    /\ UNCHANGED <<tx_queue_size, client_seq, zdtun_seq, window_size, client_closed,
                   ready, tun, srvVars>>

\* The loop has ended: remote2vpn writes nothing and reports success.
Finalize ==
    /\ "stop" \in Allow
    /\ ready = "idle" /\ ready' = "stopped"
    /\ \/ /\ status \in {"CONNECTING", "CONNECTED"}
          /\ Closed("GONE", 1)
       \/ /\ status \in {"NEW", "GONE"} \cup ClosedStatuses
          /\ status' = IF status = "NEW" THEN "NEW" ELSE "GONE"
          /\ UNCHANGED <<sock, tx_queue, all_fds, write_fds, closes>>
    /\ UNCHANGED <<tx_queue_size, client_seq, zdtun_seq, window_size, fin_ack_sent,
                   client_closed, tun, clVars, srvVars>>
-----------------------------------------------------------------------------
Init ==
    /\ status = "NEW" /\ sock = FALSE
    /\ tx_queue = <<>> /\ tx_queue_size = 0
    /\ client_seq = 0 /\ zdtun_seq = 0 /\ window_size = 0
    /\ fin_ack_sent = FALSE /\ client_closed = FALSE
    /\ all_fds = FALSE /\ write_fds = FALSE /\ closes = 0
    /\ ready = "idle" /\ tun = <<>>
    /\ cl_state = "CLOSED" /\ snd_nxt = 0 /\ snd_una = 0
    /\ rcv_nxt = 0 /\ rcv_used = 0 /\ ack_due = FALSE
    /\ cl_fin = FALSE /\ cl_eof = FALSE /\ toClient = <<>> /\ probes = 0
    /\ srv = "none" /\ srv_sent = 0 /\ srv_read = 0 /\ srv_eof = FALSE
    /\ wr_shut = FALSE /\ toServer = <<>>

Client == \/ ClientConnect \/ ClientSend \/ ClientFin \/ ClientAck \/ ClientRead
          \/ ClientReset \/ ClientRefuses \/ ClientKeepAlive \/ ClientRetransmit

Server == ServerAccept \/ ServerRefuse \/ ServerSend \/ ServerEof \/ ServerReset

\* zdtun_lookup and zdtun_forward
ZdtunForward ==
    \/ FwdToClosed \/ FwdOpenError \/ FwdConnectError \/ FwdConnect \/ FwdConnected
    \/ FwdUrgent \/ FwdConnecting \/ FwdOutOfSequence \/ FwdRst \/ FwdFin \/ FwdKeepAlive
    \/ FwdAck \/ FwdAfterServerClosed

ZdtunHandleFd ==
    \/ ReplyError \/ ReplyEof \/ ReplyData \/ ConnectAsync \/ ConnectAsyncError
    \/ SendQueued \/ SendQueuedError

ZdtunPurge == PurgeClosed \/ PurgeIdle \/ Finalize

Next == Client \/ Server \/ Select \/ ZdtunForward \/ ZdtunHandleFd \/ ZdtunPurge

Spec == Init /\ [][Next]_vars

\* run_vpn runs a thread of its own; the stacks of the two ends deliver what
\* they owe; a writable socket does not refuse data for ever.
Fairness ==
    /\ WF_vars(Select) /\ WF_vars(ZdtunForward) /\ WF_vars(ZdtunHandleFd)
    /\ WF_vars(PurgeClosed)
    /\ SF_vars(SendQueued /\ toServer' # toServer)
    /\ WF_vars(ClientAck) /\ WF_vars(ClientRefuses) /\ WF_vars(ClientRead)
    /\ WF_vars(ServerAccept \/ ServerRefuse)

FairSpec == Spec /\ Fairness
-----------------------------------------------------------------------------
\* The types of the variables.
ConnTypeOK ==
    /\ status \in Statuses /\ sock \in BOOLEAN
    /\ tx_queue \in Seq(Nat) /\ tx_queue_size \in Nat
    /\ client_seq \in Nat /\ zdtun_seq \in Nat /\ window_size \in Nat
    /\ fin_ack_sent \in BOOLEAN /\ client_closed \in BOOLEAN
    /\ all_fds \in BOOLEAN /\ write_fds \in BOOLEAN /\ closes \in Nat

Segments == [flags : SUBSET {"SYN", "ACK", "FIN", "RST", "URG"},
             seq : Nat, len : Nat, ack : Nat, win : Nat]

ClientTypeOK ==
    /\ cl_state \in {"CLOSED", "SYN_SENT", "ESTABLISHED", "RESET"}
    /\ snd_nxt \in Nat /\ snd_una \in Nat /\ rcv_nxt \in Nat /\ rcv_used \in Nat
    /\ ack_due \in BOOLEAN /\ cl_fin \in BOOLEAN /\ cl_eof \in BOOLEAN
    /\ toClient \in Seq(Nat) /\ probes \in Nat

ServerTypeOK ==
    /\ srv \in {"none", "connecting", "up", "refused", "reset"}
    /\ srv_sent \in Nat /\ srv_read \in Nat /\ srv_eof \in BOOLEAN
    /\ wr_shut \in BOOLEAN /\ toServer \in Seq(Nat)

TypeOK ==
    /\ ConnTypeOK /\ ClientTypeOK /\ ServerTypeOK
    /\ ready \in {"idle", "tun", "rd", "wr", "stopped"}
    /\ tun \in Seq(Segments)

\* The server receives the client's bytes in order, each once, and none is
\* made up: handle_tcp_fwd queues what follows the queue and nothing else.
UpstreamIsPrefix == toServer = Bytes(1, Len(toServer))

\* While the socket is open, the client is told of a byte only when the byte
\* has been written to the socket: the ACK is deferred to handle_queued_tcp_data
\* (comments of enqueue_tcp_data and of handle_tcp_fwd).
AckedIsWritten ==
    sock => MinOf(snd_una - 1, SentData) <= Len(toServer)

\* The client receives the server's bytes in order and without a hole.
DownstreamIsPrefix == toClient = Bytes(1, Len(toClient))

\* zdtun never sends more than the room the client has advertised.
WindowRespected ==
    cl_state = "ESTABLISHED" /\ status = "CONNECTED" /\ sock =>
        zdtun_seq + window_size <= rcv_nxt + (RcvBuf - rcv_used)

\* The client sees the end of the stream only when the server has ended it, and
\* after every byte of the server.  In particular a socket is read only into a
\* buffer with room: recv with a length of zero returns 0, which handle_tcp_reply
\* takes for the end.
FinIsServerEof == cl_eof => srv_eof /\ Len(toClient) = srv_sent

\* The write set says exactly what the write handler has to do: with an empty
\* queue it would run handle_tcp_connect_async again and send another SYN+ACK;
\* with a queue and no bit the data would stay there.
WriteSetMatchesWork ==
    /\ status = "CONNECTED" /\ sock => (write_fds <=> tx_queue # <<>>)
    /\ status = "CONNECTING" /\ sock => write_fds /\ tx_queue = <<>>

\* No descriptor outlives its socket in the sets given to select, and a socket
\* left open belongs to a connection that is not closed.
SelectedSocketsAreOpen ==
    /\ ~sock => ~all_fds /\ ~write_fds
    /\ sock => status \in {"CONNECTING", "CONNECTED"}

\* on_connection_close is called once for a connection that is closed, so that
\* its user data can be freed there (zdtun.h, zdtun_callbacks).
ClosedCallbackOnce == closes = IF status \in OpenStatuses THEN 0 ELSE 1

\* The callback is never called before the connection closes, and a closed
\* connection is left alone: nothing of it changes but its destruction.
LeftAlone ==
    /\ status' \in {status, "GONE"}
    /\ UNCHANGED <<closes, zdtun_seq, client_seq, toServer, toClient, srv_read>>

ClosedIsFinal == [][(status \in ClosedStatuses \cup {"GONE"}) => LeftAlone]_vars

\* When a connection was closed, the client knows: it was reset, or it got the
\* end of the server's stream.  Nothing is written once the capture has stopped,
\* and a RST for a client that has sent something twice may lie past what it sent.
ClientKnowsClosed ==
    status \in ClosedStatuses \cup {"GONE"} /\ ready # "stopped" /\ probes = 0 =>
        cl_state = "RESET" \/ cl_eof

\* What is queued for an open socket is written, unless the socket closes.
QueueDrains == sock /\ tx_queue # <<>> ~> ~sock \/ tx_queue = <<>>

\* Every byte of the server is forwarded to a client that reads, unless the
\* socket closes: a window of zero does not disable the socket for ever.
ServerDataArrives == sock /\ srv_read < srv_sent ~> ~sock \/ srv_read = srv_sent

\* A SYN is answered, or its connection is closed.
SynIsAnswered == cl_state = "SYN_SENT" ~> cl_state # "SYN_SENT"
=============================================================================
