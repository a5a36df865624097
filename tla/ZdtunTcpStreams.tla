-------------------------- MODULE ZdtunTcpStreams --------------------------
(***************************************************************************)
(* Proofs about the two streams of a connection: the bytes of the client   *)
(* reach the server in order, each once, and are acknowledged only when    *)
(* they were written; the bytes of the server reach the client in order    *)
(* and without a hole, never beyond its window; their end is shown only    *)
(* when the server has ended its stream, and the client is told of the     *)
(* end of the connection.  Each theorem holds for every stream, segment    *)
(* size and window, in the environments it names.  (A retransmission that  *)
(* zdtun takes for a keep-alive is queued a second time; the model checker *)
(* exhibits that.)                                                         *)
(***************************************************************************)
EXTENDS ZdtunTcpProof
-----------------------------------------------------------------------------
(***************************************************************************)
(* The stream of the client.                                               *)
(***************************************************************************)
\* The connection takes data of the client.
Open == sock /\ ~client_closed

\* The first packet is the SYN.
NewInv ==
    status = "NEW" =>
        /\ toServer = <<>> /\ tx_queue = <<>> /\ tx_queue_size = 0
        /\ cl_state = "CLOSED" => tun = <<>>
        /\ cl_state # "CLOSED" => tun # <<>> /\ tun[1].seq = 0

\* client_seq counts what was written to the socket, tx_queue_size what is queued.
SeqInv ==
    Open => /\ client_seq = Len(toServer) + 1
            /\ tx_queue_size = Len(tx_queue)
            /\ client_seq + tx_queue_size <= snd_nxt

\* The queue continues what was written.
StreamInv ==
    /\ \A k \in 1..Len(toServer) : toServer[k] = k
    /\ \A k \in 1..Len(tx_queue) : tx_queue[k] = Len(toServer) + k

\* The segments with data that are on their way follow one another, and nothing
\* with data follows a FIN.
TunOrdered ==
    \A i \in 1..Len(tun) :
        /\ tun[i].len > 0 => tun[i].seq >= 1 /\ tun[i].seq + tun[i].len <= snd_nxt
        /\ "FIN" \in tun[i].flags => cl_fin
        /\ \A j \in (i + 1)..Len(tun) :
               tun[j].len > 0 =>
                   /\ "FIN" \notin tun[i].flags
                   /\ tun[i].len > 0 => tun[i].seq + tun[i].len <= tun[j].seq

\* No data on its way was already taken: none can pass for a keep-alive.
TunAbove ==
    Open => \A i \in 1..Len(tun) :
                tun[i].len > 0 => client_seq + tx_queue_size <= tun[i].seq

FinInv == client_closed => cl_fin /\ \A i \in 1..Len(tun) : tun[i].len = 0

UpInv == NewInv /\ SeqInv /\ StreamInv /\ TunOrdered /\ TunAbove /\ FinInv
-----------------------------------------------------------------------------
LEMMA StreamIsPrefix ==
    ASSUME TypeInv, StreamInv
    PROVE  UpstreamIsPrefix
  <1>1. toServer \in Seq(Nat) /\ Len(toServer) \in Nat
    BY DEF TypeInv, ServerTypeOK
  <1> DEFINE b == Bytes(1, Len(toServer))
  <1>2. b \in Seq(Nat)
    BY <1>1, BytesType
  <1>0. 1 \in Nat /\ Len(toServer) \in Int /\ Len(toServer) >= 1 - 1
    BY <1>1
  <1>3. Len(b) = Len(toServer) - 1 + 1
    BY <1>0, BytesLen
  <1>4. \A k \in 1..Len(toServer) : b[k] = k
    BY <1>1 DEF Bytes
  <1> HIDE DEF b
  <1>5. Len(b) = Len(toServer)
    BY <1>1, <1>3
  <1>6. \A k \in 1..Len(toServer) : toServer[k] = b[k]
    BY <1>4 DEF StreamInv
  <1>7. toServer = b
    BY <1>1, <1>2, <1>5, <1>6, SeqEqual
  <1> QED
    BY <1>7 DEF UpstreamIsPrefix, b

LEMMA TunFields ==
    ASSUME TypeInv
    PROVE  /\ tun \in Seq(Segments) /\ Len(tun) \in Nat
           /\ \A i \in 1..Len(tun) :
                 /\ tun[i].seq \in Nat /\ tun[i].len \in Nat
           /\ ready = "tun" => tun # <<>>
  <1>1. tun \in Seq(Segments) /\ (ready = "tun" => tun # <<>>)
    BY DEF TypeInv, TunInv
  <1>2. \A i \in 1..Len(tun) : tun[i] \in Segments
    BY <1>1, ElementOfSeq
  <1> QED
    BY <1>1, <1>2, SegmentFields

\* What none of the parts speaks of
LEMMA QuietUp ==
    ASSUME UpInv,
           UNCHANGED <<status, sock, tx_queue, tx_queue_size, client_seq, client_closed,
                       toServer, snd_nxt, cl_fin, cl_state, tun>>
    PROVE  UpInv'
  BY DEF UpInv, NewInv, SeqInv, StreamInv, TunOrdered, TunAbove, FinInv, Open

\* The client puts one more segment on the TUN queue.
LEMMA SendUp ==
    ASSUME TypeInv, UpInv, UNCHANGED connVars, UNCHANGED srvVars,
           NEW seg \in Segments, Send(seg),
           snd_nxt' \in Nat, snd_nxt' >= snd_nxt, cl_fin => cl_fin',
           seg.len > 0 => /\ seg.seq = snd_nxt /\ snd_nxt >= 1
                          /\ seg.seq + seg.len <= snd_nxt' /\ ~cl_fin,
           "FIN" \in seg.flags => cl_fin',
           cl_state = "CLOSED" => seg.seq = 0,
           cl_state' # "CLOSED"
    PROVE  UpInv'
  <1>1. tun \in Seq(Segments) /\ Len(tun) \in Nat /\ snd_nxt \in Nat
        /\ \A i \in 1..Len(tun) : tun[i].seq \in Nat /\ tun[i].len \in Nat
    BY TunFields DEF TypeInv, ClientInv, ClientTypeOK
  <1>2. /\ tun' \in Seq(Segments) /\ Len(tun') = Len(tun) + 1
        /\ \A i \in 1..Len(tun) : tun'[i] = tun[i]
        /\ tun'[Len(tun) + 1] = seg
    BY <1>1 DEF Send
  <1>3. seg.seq \in Nat /\ seg.len \in Nat
    BY SegmentFields
  <1>4. UNCHANGED <<status, sock, tx_queue, tx_queue_size, client_seq, client_closed, toServer>>
    BY DEF connVars, srvVars
  <1>5. NewInv'
    <2> SUFFICES ASSUME status = "NEW"
                 PROVE  tun' # <<>> /\ tun'[1].seq = 0
      BY <1>4 DEF UpInv, NewInv
    <2>1. tun' # <<>>
      BY <1>1, <1>2, EmptySeq
    <2>2. CASE cl_state = "CLOSED"
      BY <1>1, <1>2, <2>1, <2>2, EmptySeq DEF UpInv, NewInv
    <2>3. CASE cl_state # "CLOSED"
      <3>1. tun # <<>> /\ tun[1].seq = 0
        BY <2>3 DEF UpInv, NewInv
      <3>2. 1 \in 1..Len(tun)
        BY <1>1, <3>1, EmptySeq
      <3> QED
        BY <1>2, <2>1, <3>1, <3>2
    <2> QED
      BY <2>2, <2>3
  <1>6. SeqInv'
    <2>1. Open => client_seq + tx_queue_size \in Nat /\ client_seq + tx_queue_size <= snd_nxt
      BY ConnFields DEF UpInv, SeqInv, TypeInv
    <2>2. Open => client_seq + tx_queue_size <= snd_nxt'
      BY <1>1, <2>1
    <2> QED
      BY <1>4, <2>2 DEF UpInv, SeqInv, Open
  <1>7. StreamInv'
    BY <1>4 DEF UpInv, StreamInv
  <1>8. FinInv'
    <2> SUFFICES ASSUME client_closed
                 PROVE  cl_fin' /\ \A i \in 1..Len(tun') : tun'[i].len = 0
      BY <1>4 DEF FinInv
    <2>1. cl_fin /\ \A i \in 1..Len(tun) : tun[i].len = 0
      BY DEF UpInv, FinInv
    <2>2. seg.len = 0
      BY <1>3, <2>1
    <2> QED
      BY <1>1, <1>2, <2>1, <2>2
  <1>9. TunAbove'
    <2> SUFFICES ASSUME Open, NEW i \in 1..Len(tun'), tun'[i].len > 0
                 PROVE  client_seq + tx_queue_size <= tun'[i].seq
      BY <1>4 DEF TunAbove, Open
    <2>1. CASE i \in 1..Len(tun)
      BY <1>2, <2>1 DEF UpInv, TunAbove
    <2>2. CASE i = Len(tun) + 1
      BY <1>2, <2>2 DEF UpInv, SeqInv
    <2> QED
      BY <1>1, <1>2, <2>1, <2>2
  <1>10. TunOrdered'
    <2> SUFFICES ASSUME NEW i \in 1..Len(tun')
                 PROVE  /\ tun'[i].len > 0 => tun'[i].seq >= 1 /\ tun'[i].seq + tun'[i].len <= snd_nxt'
                        /\ "FIN" \in tun'[i].flags => cl_fin'
                        /\ \A j \in (i + 1)..Len(tun') :
                               tun'[j].len > 0 =>
                                   /\ "FIN" \notin tun'[i].flags
                                   /\ tun'[i].len > 0 => tun'[i].seq + tun'[i].len <= tun'[j].seq
      BY DEF TunOrdered
    <2>1. CASE i = Len(tun) + 1
      BY <1>1, <1>2, <1>3, <2>1
    <2>2. CASE i \in 1..Len(tun)
      <3>1. /\ tun[i].len > 0 => tun[i].seq >= 1 /\ tun[i].seq + tun[i].len <= snd_nxt
            /\ "FIN" \in tun[i].flags => cl_fin
            /\ \A j \in (i + 1)..Len(tun) :
                   tun[j].len > 0 =>
                       /\ "FIN" \notin tun[i].flags
                       /\ tun[i].len > 0 => tun[i].seq + tun[i].len <= tun[j].seq
        BY <2>2 DEF UpInv, TunOrdered
      <3>2. tun'[i] = tun[i] /\ tun[i].seq \in Nat /\ tun[i].len \in Nat
        BY <1>1, <1>2, <2>2
      <3>3. tun[i].len > 0 => tun[i].seq >= 1 /\ tun[i].seq + tun[i].len <= snd_nxt'
        BY <1>1, <3>1, <3>2, SMTT(40)
      <3>4. ASSUME NEW j \in (i + 1)..Len(tun'), tun'[j].len > 0
            PROVE  /\ "FIN" \notin tun[i].flags
                   /\ tun[i].len > 0 => tun[i].seq + tun[i].len <= tun'[j].seq
        <4>1. CASE j \in (i + 1)..Len(tun)
          BY <1>2, <2>2, <3>1, <3>4, <4>1
        <4>2. CASE j = Len(tun) + 1
          BY <1>2, <3>1, <3>4, <4>2
        <4> QED
          BY <1>1, <1>2, <2>2, <4>1, <4>2
      <3> QED
        BY <3>1, <3>2, <3>3, <3>4
    <2> QED
      BY <1>1, <1>2, <2>1, <2>2
  <1> QED
    BY <1>5, <1>6, <1>7, <1>8, <1>9, <1>10 DEF UpInv

LEMMA SegmentShape ==
    ASSUME ClientInv,
           NEW flags \in SUBSET {"SYN", "ACK", "FIN", "RST", "URG"},
           NEW seq \in Nat, NEW len \in Nat
    PROVE  /\ Segment(flags, seq, len) \in Segments
           /\ Segment(flags, seq, len).flags = flags
           /\ Segment(flags, seq, len).seq = seq
           /\ Segment(flags, seq, len).len = len
  BY SegmentType DEF Segment

\* A segment without data and without FIN changes nothing of the stream.
LEMMA SendEmptyUp ==
    ASSUME TypeInv, UpInv, UNCHANGED connVars, UNCHANGED srvVars,
           NEW flags \in {{"ACK"}, {"RST"}, {"RST", "ACK"}}, NEW seq \in Nat,
           Send(Segment(flags, seq, 0)), UNCHANGED <<snd_nxt, cl_fin>>,
           cl_state # "CLOSED", cl_state' # "CLOSED"
    PROVE  UpInv'
  <1>1. ClientInv /\ snd_nxt \in Nat
    BY DEF TypeInv, ClientInv, ClientTypeOK
  <1>2. /\ Segment(flags, seq, 0) \in Segments /\ Segment(flags, seq, 0).len = 0
        /\ "FIN" \notin Segment(flags, seq, 0).flags
    BY <1>1, SegmentShape
  <1>3. snd_nxt' \in Nat /\ snd_nxt' >= snd_nxt
    BY <1>1
  <1> QED
    BY <1>2, <1>3, SendUp

LEMMA ClientUp ==
    ASSUME TypeInv, UpInv, Client, "retransmit" \notin Allow
    PROVE  UpInv'
  <1>0. /\ ClientInv /\ snd_nxt \in Nat /\ snd_una \in Nat
        /\ UNCHANGED connVars /\ UNCHANGED srvVars
    BY DEF Client, ClientConnect, ClientSend, ClientFin, ClientAck, ClientRead,
           ClientReset, ClientRefuses, ClientKeepAlive, ClientRetransmit,
           TypeInv, ClientInv, ClientTypeOK
  <1>1. CASE ClientConnect
    <2> DEFINE syn == [flags |-> {"SYN"}, seq |-> 0, len |-> 0, ack |-> 0, win |-> RcvBuf]
    <2>1. syn \in Segments /\ syn.seq = 0 /\ syn.len = 0 /\ "FIN" \notin syn.flags
      <3>1. syn \in Segments
        BY ConstantsAssumption DEF Segments
      <3>2. syn.seq = 0 /\ syn.len = 0 /\ syn.flags = {"SYN"}
        OBVIOUS
      <3> QED
        BY <3>1, <3>2
    <2>2. Send(syn) /\ cl_state' # "CLOSED" /\ cl_fin' = cl_fin
      BY <1>1 DEF ClientConnect
    <2>3. snd_nxt' \in Nat /\ snd_nxt' >= snd_nxt
      BY <1>0, <1>1 DEF ClientConnect, ClientInv
    <2> HIDE DEF syn
    <2> QED
      BY <1>0, <2>1, <2>2, <2>3, SendUp
  <1>2. CASE ClientSend
    <2>1. PICK n \in 1..SegMax, urg \in {{}, {"URG"}} :
            /\ Send(Segment({"ACK"} \cup urg, snd_nxt, n))
            /\ snd_nxt' = snd_nxt + n /\ ~cl_fin /\ cl_fin' = cl_fin
            /\ cl_state = "ESTABLISHED" /\ cl_state' = cl_state
      BY <1>2 DEF ClientSend
    <2> DEFINE seg == Segment({"ACK"} \cup urg, snd_nxt, n)
    <2>2. /\ seg \in Segments /\ seg.seq = snd_nxt /\ seg.len = n /\ "FIN" \notin seg.flags
      BY <1>0, SegmentShape
    <2>3. snd_nxt' \in Nat /\ snd_nxt' >= snd_nxt /\ snd_nxt >= 1 /\ snd_nxt + n <= snd_nxt'
      BY <1>0, <2>1 DEF ClientInv
    <2>4. Send(seg)
      BY <2>1
    <2> HIDE DEF seg
    <2> QED
      BY <1>0, <2>1, <2>2, <2>3, <2>4, SendUp
  <1>3. CASE ClientFin
    <2>1. PICK n \in 0..SegMax :
            /\ Send(Segment({"FIN", "ACK"}, snd_nxt, n))
            /\ snd_nxt' = snd_nxt + n + 1 /\ ~cl_fin /\ cl_fin' = TRUE
            /\ cl_state = "ESTABLISHED" /\ cl_state' = cl_state
      BY <1>3 DEF ClientFin
    <2> DEFINE seg == Segment({"FIN", "ACK"}, snd_nxt, n)
    <2>2. seg \in Segments /\ seg.seq = snd_nxt /\ seg.len = n
      BY <1>0, SegmentShape
    <2>3. snd_nxt' \in Nat /\ snd_nxt' >= snd_nxt /\ snd_nxt >= 1 /\ snd_nxt + n <= snd_nxt'
      BY <1>0, <2>1 DEF ClientInv
    <2>4. Send(seg)
      BY <2>1
    <2> HIDE DEF seg
    <2> QED
      BY <1>0, <2>1, <2>2, <2>3, <2>4, SendUp
  <1>4. CASE ClientAck \/ ClientRefuses \/ ClientKeepAlive
    <2>1. ClientKeepAlive => snd_una - 1 \in Nat
      BY <1>0 DEF ClientKeepAlive, ClientInv
    <2>2. PICK flags \in {{"ACK"}, {"RST"}, {"RST", "ACK"}}, seq \in Nat :
            Send(Segment(flags, seq, 0))
      BY <1>0, <1>4, <2>1 DEF ClientAck, ClientRefuses, ClientKeepAlive
    <2>3. UNCHANGED <<snd_nxt, cl_fin>> /\ cl_state # "CLOSED" /\ cl_state' # "CLOSED"
      BY <1>4 DEF ClientAck, ClientRefuses, ClientKeepAlive
    <2> QED
      BY <1>0, <2>2, <2>3, SendEmptyUp
  <1>5. CASE ClientReset
    BY <1>0, <1>5, SendEmptyUp DEF ClientReset
  <1>6. CASE ClientRead
    BY <1>0, <1>6, QuietUp DEF ClientRead, connVars, srvVars
  <1>7. ~ClientRetransmit
    BY DEF ClientRetransmit
  <1> QED
    BY <1>1, <1>2, <1>3, <1>4, <1>5, <1>6, <1>7 DEF Client
-----------------------------------------------------------------------------
\* The TUN queue loses its head, or nothing.
TunShrinks == tun' = tun \/ (tun # <<>> /\ tun' = Tail(tun))

LEMMA Shrunk ==
    ASSUME TypeInv, TunShrinks
    PROVE  \E d \in {0, 1} : /\ Len(tun') = Len(tun) - d
                             /\ \A i \in 1..Len(tun') : i + d \in 1..Len(tun) /\ tun'[i] = tun[i + d]
  <1>1. tun \in Seq(Segments) /\ Len(tun) \in Nat
    BY TunFields
  <1>2. CASE tun' = tun
    <2>1. Len(tun') = Len(tun) - 0
      BY <1>1, <1>2
    <2>2. \A i \in 1..Len(tun') : i + 0 \in 1..Len(tun) /\ tun'[i] = tun[i + 0]
      BY <1>1, <1>2
    <2> QED
      BY <2>1, <2>2
  <1>3. CASE tun # <<>> /\ tun' = Tail(tun)
    <2>1. Len(tun') = Len(tun) - 1 /\ \A i \in 1..Len(tun') : tun'[i] = tun[i + 1]
      BY <1>1, <1>3, HeadTailProperties
    <2>2. \A i \in 1..Len(tun') : i + 1 \in 1..Len(tun)
      BY <1>1, <2>1
    <2> QED
      BY <2>1, <2>2
  <1> QED
    BY <1>2, <1>3 DEF TunShrinks

LEMMA ShrunkOrdered ==
    ASSUME TypeInv, TunOrdered, TunShrinks, UNCHANGED <<snd_nxt, cl_fin>>
    PROVE  TunOrdered'
  <1>1. PICK d \in {0, 1} : /\ Len(tun') = Len(tun) - d
                            /\ \A i \in 1..Len(tun') : i + d \in 1..Len(tun) /\ tun'[i] = tun[i + d]
    BY Shrunk
  <1>2. Len(tun) \in Nat
    BY TunFields
  <1> SUFFICES ASSUME NEW i \in 1..Len(tun')
               PROVE  /\ tun'[i].len > 0 => tun'[i].seq >= 1 /\ tun'[i].seq + tun'[i].len <= snd_nxt
                      /\ "FIN" \in tun'[i].flags => cl_fin
                      /\ \A j \in (i + 1)..Len(tun') :
                             tun'[j].len > 0 =>
                                 /\ "FIN" \notin tun'[i].flags
                                 /\ tun'[i].len > 0 => tun'[i].seq + tun'[i].len <= tun'[j].seq
    BY DEF TunOrdered
  <1>3. i + d \in 1..Len(tun) /\ tun'[i] = tun[i + d]
    BY <1>1
  <1>4. \A j \in (i + 1)..Len(tun') : j + d \in (i + d + 1)..Len(tun) /\ tun'[j] = tun[j + d]
    BY <1>1, <1>2
  <1> QED
    BY <1>3, <1>4 DEF TunOrdered

\* A step that takes no data: the socket is closed, or the stream is left alone.
LEMMA HandledUp ==
    ASSUME TypeInv, UpInv, TunShrinks, UNCHANGED <<snd_nxt, cl_fin, client_closed>>,
           status' # "NEW", StreamInv',
           sock' => UNCHANGED <<sock, client_seq, tx_queue_size, tx_queue, toServer>>
    PROVE  UpInv'
  <1>1. PICK d \in {0, 1} : /\ Len(tun') = Len(tun) - d
                            /\ \A i \in 1..Len(tun') : i + d \in 1..Len(tun) /\ tun'[i] = tun[i + d]
    BY Shrunk
  <1>2. NewInv'
    BY DEF NewInv
  <1>3. SeqInv'
    BY DEF UpInv, SeqInv, Open
  <1>4. TunOrdered'
    BY ShrunkOrdered DEF UpInv
  <1>5. TunAbove'
    BY <1>1 DEF UpInv, TunAbove, Open
  <1>6. FinInv'
    BY <1>1 DEF UpInv, FinInv
  <1> QED
    BY <1>2, <1>3, <1>4, <1>5, <1>6 DEF UpInv

\* ... when the queue is left alone or freed
LEMMA SameStream ==
    ASSUME StreamInv, toServer' = toServer, tx_queue' = tx_queue \/ tx_queue' = <<>>
    PROVE  StreamInv'
  <1>1. Len(<<>>) = 0
    BY EmptySeq
  <1> QED
    BY <1>1 DEF StreamInv

\* zdtun_conn_close
LEMMA ClosedUp ==
    ASSUME TypeInv, UpInv, TunShrinks, UNCHANGED <<snd_nxt, cl_fin, client_closed, toServer>>,
           NEW st, NEW n, Closed(st, n), st # "NEW"
    PROVE  UpInv'
  <1>1. StreamInv'
    BY SameStream DEF UpInv, Closed
  <1> QED
    BY <1>1, HandledUp DEF Closed, CloseSocket

LEMMA ClientGetsKeeps ==
    ASSUME NEW seg, ClientGets(seg)
    PROVE  UNCHANGED <<snd_nxt, cl_fin>>
  BY DEF ClientGets

LEMMA ConnCloseUp ==
    ASSUME TypeInv, UpInv, TunShrinks, UNCHANGED <<client_closed, toServer>>,
           NEW st, ConnClose(st), st # "NEW"
    PROVE  UpInv'
  <1>1. UNCHANGED <<snd_nxt, cl_fin>>
    BY ClientGetsKeeps DEF ConnClose, clVars
  <1> QED
    BY <1>1, ConnCloseCloses, ClosedUp

LEMMA SendErrorUp ==
    ASSUME TypeInv, UpInv, TunShrinks, UNCHANGED <<client_closed, toServer>>,
           ClosedOnSendError
    PROVE  UpInv'
  BY ClosedUp DEF ClosedOnSendError, clVars
-----------------------------------------------------------------------------
(***************************************************************************)
(* The packets of the client.                                              *)
(***************************************************************************)
\* A packet that is handled is the first of the queue.
LEMMA ForwardHead ==
    ASSUME TypeInv, NEW guard, Forward(guard)
    PROVE  /\ guard /\ TunShrinks /\ pkt = tun[1]
           /\ tun # <<>> /\ 1 \in 1..Len(tun) /\ pkt \in Segments
           /\ Len(tun') = Len(tun) - 1
           /\ \A i \in 1..Len(tun') : i + 1 \in 2..Len(tun) /\ tun'[i] = tun[i + 1]
  <1>1. tun \in Seq(Segments) /\ Len(tun) \in Nat /\ tun # <<>>
    BY TunFields DEF Forward
  <1>2. tun' = Tail(tun) /\ guard
    BY DEF Forward
  <1>3. Len(tun) >= 1
    BY <1>1, EmptySeq
  <1>4. Len(tun') = Len(tun) - 1 /\ \A i \in 1..Len(tun') : tun'[i] = tun[i + 1]
    BY <1>1, <1>2, HeadTailProperties
  <1>5. \A i \in 1..Len(tun') : i + 1 \in 2..Len(tun)
    BY <1>1, <1>4
  <1>6. pkt = tun[1]
    BY <1>1 DEF pkt
  <1>7. pkt \in Segments
    BY ForwardType
  <1>8. TunShrinks /\ 1 \in 1..Len(tun)
    BY <1>1, <1>2, <1>3 DEF TunShrinks
  <1> QED
    BY <1>1, <1>2, <1>4, <1>5, <1>6, <1>7, <1>8

\* The SYN: the stream starts at 1.
LEMMA SynUp ==
    ASSUME TypeInv, UpInv, FwdConnect \/ FwdConnected
    PROVE  UpInv'
  <1>1. Forward(status = "NEW")
    BY DEF FwdConnect, FwdConnected
  <1>2. /\ status = "NEW" /\ TunShrinks /\ pkt = tun[1] /\ tun # <<>>
    BY <1>1, ForwardHead
  <1>3. CASE FwdConnected /\ ClosedOnSendError
    BY <1>2, <1>3, SendErrorUp DEF FwdConnected
  <1>4. CASE /\ status' # "NEW" /\ sock' = TRUE /\ client_seq' = pkt.seq + 1
             /\ UNCHANGED <<tx_queue, tx_queue_size, client_closed, toServer, snd_nxt, cl_fin>>
    <2>1. /\ toServer = <<>> /\ tx_queue = <<>> /\ tx_queue_size = 0
          /\ cl_state # "CLOSED" /\ pkt.seq = 0
      BY <1>2 DEF UpInv, NewInv
    <2>2. client_seq' = 1 /\ Len(<<>>) = 0
      BY <1>4, <2>1, EmptySeq
    <2>3. snd_nxt \in Nat /\ snd_nxt >= 1
      BY <2>1 DEF TypeInv, ClientInv, ClientTypeOK
    <2>4. NewInv'
      BY <1>4 DEF NewInv
    <2>5. SeqInv'
      <3>1. client_seq' = Len(toServer') + 1 /\ tx_queue_size' = Len(tx_queue')
        BY <1>4, <2>1, <2>2
      <3>2. client_seq' + tx_queue_size' <= snd_nxt'
        BY <1>4, <2>1, <2>2, <2>3
      <3> QED
        BY <3>1, <3>2 DEF SeqInv
    <2>6. StreamInv'
      BY <1>4, SameStream DEF UpInv
    <2>7. TunOrdered'
      BY <1>2, <1>4, ShrunkOrdered DEF UpInv
    <2>8. TunAbove'
      BY <1>4, <2>1, <2>2, <2>7 DEF TunAbove, TunOrdered
    <2>9. FinInv'
      <3>1. PICK d \in {0, 1} : /\ Len(tun') = Len(tun) - d
                                /\ \A i \in 1..Len(tun') : i + d \in 1..Len(tun) /\ tun'[i] = tun[i + d]
        BY <1>2, Shrunk
      <3> QED
        BY <1>4, <3>1 DEF UpInv, FinInv
    <2> QED
      BY <2>4, <2>5, <2>6, <2>7, <2>8, <2>9 DEF UpInv
  <1> QED
    BY <1>3, <1>4, ClientGetsKeeps DEF FwdConnect, FwdConnected, clVars

\* The FIN: no data follows it.
LEMMA FinUp ==
    ASSUME TypeInv, UpInv, FwdFin
    PROVE  UpInv'
  <1>1. Forward(Established /\ InSequence /\ "FIN" \in pkt.flags)
    BY DEF FwdFin
  <1>2. /\ status = "CONNECTED" /\ "FIN" \in pkt.flags /\ TunShrinks /\ pkt = tun[1]
        /\ 1 \in 1..Len(tun) /\ Len(tun') = Len(tun) - 1
        /\ \A i \in 1..Len(tun') : i + 1 \in 2..Len(tun) /\ tun'[i] = tun[i + 1]
    BY <1>1, ForwardHead DEF Established
  <1>3. /\ client_closed' = TRUE /\ status' # "NEW" /\ toServer' = toServer
        /\ tx_queue' = tx_queue \/ tx_queue' = <<>>
        /\ UNCHANGED <<snd_nxt, cl_fin>>
    BY <1>2, ClientGetsKeeps DEF FwdFin, Closed, ClosedOnSendError, clVars
  <1>4. TunOrdered'
    BY <1>2, <1>3, ShrunkOrdered DEF UpInv
  <1>5. StreamInv'
    BY <1>3, SameStream DEF UpInv
  <1>6. FinInv'
    <2>1. cl_fin /\ \A j \in (1 + 1)..Len(tun) : ~(tun[j].len > 0)
      BY <1>2 DEF UpInv, TunOrdered
    <2>2. \A j \in 2..Len(tun) : tun[j].len \in Nat
      BY TunFields
    <2>3. \A j \in 2..Len(tun) : tun[j].len = 0
      BY <2>1, <2>2
    <2> QED
      BY <1>2, <1>3, <2>1, <2>3 DEF FinInv
  <1> QED
    BY <1>3, <1>4, <1>5, <1>6 DEF UpInv, NewInv, SeqInv, TunAbove, Open

\* What takes for a keep-alive has no data.
LEMMA KeepAliveEmpty ==
    ASSUME TypeInv, UpInv, tun # <<>>, pkt = tun[1], 1 \in 1..Len(tun), sock, KeepAlive
    PROVE  pkt.len = 0
  <1>1. pkt.len \in Nat /\ pkt.seq \in Nat
    BY TunFields
  <1>2. CASE client_closed
    BY <1>2 DEF UpInv, FinInv
  <1>3. CASE ~client_closed
    <2>1. pkt.len > 0 => client_seq + tx_queue_size <= pkt.seq
      BY <1>3 DEF UpInv, TunAbove, Open
    <2>2. client_seq \in Nat /\ tx_queue_size \in Nat /\ pkt.seq + 1 = client_seq
      BY ConnFields DEF TypeInv, KeepAlive
    <2> QED
      BY <1>1, <2>1, <2>2
  <1> QED
    BY <1>2, <1>3

LEMMA KeepAliveUp ==
    ASSUME TypeInv, UpInv, FwdKeepAlive
    PROVE  UpInv'
  <1>1. Forward(Established /\ KeepAlive /\ Plain /\ sock)
    BY DEF FwdKeepAlive
  <1>2. /\ status = "CONNECTED" /\ KeepAlive /\ sock /\ TunShrinks /\ pkt = tun[1]
        /\ tun # <<>> /\ 1 \in 1..Len(tun)
    BY <1>1, ForwardHead DEF Established
  <1>3. pkt.len = 0
    BY <1>2, KeepAliveEmpty
  <1>4. CASE ClosedOnSendError
    BY <1>2, <1>4, SendErrorUp DEF FwdKeepAlive, srvVars
  <1>5. CASE UNCHANGED <<status, sock, tx_queue, tx_queue_size, snd_nxt, cl_fin>>
    <2>1. UNCHANGED <<client_seq, client_closed, toServer>>
      BY DEF FwdKeepAlive, srvVars
    <2>2. StreamInv'
      BY <1>5, <2>1, SameStream DEF UpInv
    <2> QED
      BY <1>2, <1>5, <2>1, <2>2, HandledUp
  <1> QED
    BY <1>3, <1>4, <1>5, ClientGetsKeeps DEF FwdKeepAlive, Enqueue

\* enqueue_tcp_data: the bytes that follow the queue are put behind it.
LEMMA EnqueueUp ==
    ASSUME TypeInv, UpInv, tun # <<>>, pkt = tun[1], 1 \in 1..Len(tun), sock,
           Enqueue, pkt.len # 0, pkt.seq = client_seq + tx_queue_size,
           UNCHANGED <<sock, client_seq, client_closed, toServer, snd_nxt>>
    PROVE  SeqInv' /\ StreamInv' /\ ~client_closed
  <1>1. /\ pkt.len \in Nat /\ pkt.seq \in Nat /\ pkt.len >= 1
        /\ client_seq \in Nat /\ tx_queue_size \in Nat /\ tx_queue \in Seq(Nat)
        /\ Len(tx_queue) \in Nat
        /\ Len(toServer) \in Nat /\ snd_nxt \in Nat
    BY TunFields, ConnFields, SMTT(40) DEF TypeInv, ServerTypeOK, ClientInv, ClientTypeOK
  <1>2. ~client_closed
    BY <1>1 DEF UpInv, FinInv
  <1>3. /\ client_seq = Len(toServer) + 1 /\ tx_queue_size = Len(tx_queue)
    BY <1>2 DEF UpInv, SeqInv, Open
  <1>4. pkt.seq + pkt.len <= snd_nxt
    BY <1>1 DEF UpInv, TunOrdered
  <1> DEFINE data == Bytes(pkt.seq, pkt.seq + pkt.len - 1)
  <1>5. pkt.seq + pkt.len - 1 \in Int /\ pkt.seq + pkt.len - 1 >= pkt.seq - 1
    BY <1>1
  <1>6. data \in Seq(Nat) /\ Len(data) = (pkt.seq + pkt.len - 1) - pkt.seq + 1
    BY <1>1, <1>5, BytesType, BytesLen
  <1>7. Len(data) = pkt.len
    BY <1>1, <1>6
  <1>8. \A k \in 1..pkt.len : data[k] = pkt.seq + k - 1
    BY <1>1 DEF Bytes
  <1>9. tx_queue' = tx_queue \o data /\ tx_queue_size' = tx_queue_size + pkt.len
    BY DEF Enqueue
  <1> HIDE DEF data
  <1>10. /\ Len(tx_queue') = Len(tx_queue) + pkt.len
         /\ \A k \in 1..(Len(tx_queue) + pkt.len) :
               tx_queue'[k] = IF k <= Len(tx_queue) THEN tx_queue[k] ELSE data[k - Len(tx_queue)]
    <2>1. /\ Len(tx_queue \o data) = Len(tx_queue) + Len(data)
          /\ \A k \in 1..(Len(tx_queue) + Len(data)) :
                (tx_queue \o data)[k] = IF k <= Len(tx_queue) THEN tx_queue[k]
                                                              ELSE data[k - Len(tx_queue)]
      BY <1>1, <1>6, ConcatProperties
    <2> QED
      BY <1>7, <1>9, <2>1
  <1>11. SeqInv'
    <2>1. tx_queue_size' = Len(tx_queue')
      BY <1>3, <1>9, <1>10
    <2>2. client_seq + tx_queue_size' <= snd_nxt
      BY <1>1, <1>4, <1>9
    <2> QED
      BY <1>3, <2>1, <2>2 DEF SeqInv
  <1>12. ASSUME NEW k \in 1..Len(tx_queue') PROVE tx_queue'[k] = Len(toServer) + k
    <2>1. CASE k <= Len(tx_queue)
      <3>1. k \in 1..Len(tx_queue)
        BY <1>1, <1>10, <2>1
      <3>2. tx_queue'[k] = tx_queue[k]
        BY <1>1, <1>10, <2>1
      <3> QED
        BY <3>1, <3>2 DEF UpInv, StreamInv
    <2>2. CASE k > Len(tx_queue)
      <3>1. k - Len(tx_queue) \in 1..pkt.len
        BY <1>1, <1>10, <2>2
      <3>2. tx_queue'[k] = pkt.seq + (k - Len(tx_queue)) - 1
        BY <1>1, <1>8, <1>10, <2>2, <3>1, SMTT(40)
      <3> QED
        BY <1>1, <1>3, <3>2, SMTT(40)
    <2> QED
      BY <1>1, <1>10, <2>1, <2>2
  <1>13. StreamInv'
    BY <1>12 DEF UpInv, StreamInv
  <1> QED
    BY <1>2, <1>11, <1>13

LEMMA AckUp ==
    ASSUME TypeInv, UpInv, FwdAck
    PROVE  UpInv'
  <1>1. Forward(Established /\ InSequence /\ ~KeepAlive /\ Plain /\ sock)
    BY DEF FwdAck
  <1>2. /\ status = "CONNECTED" /\ InSequence /\ ~KeepAlive /\ sock /\ TunShrinks
        /\ pkt = tun[1] /\ tun # <<>> /\ 1 \in 1..Len(tun) /\ pkt \in Segments
        /\ Len(tun') = Len(tun) - 1
        /\ \A i \in 1..Len(tun') : i + 1 \in 2..Len(tun) /\ tun'[i] = tun[i + 1]
    BY <1>1, ForwardHead DEF Established
  <1>3. UNCHANGED <<status, sock, client_seq, client_closed, toServer, snd_nxt, cl_fin>>
        /\ Enqueue
    BY DEF FwdAck, clVars, srvVars
  <1>4. CASE pkt.len = 0
    <2>1. UNCHANGED <<tx_queue, tx_queue_size>>
      BY <1>3, <1>4 DEF Enqueue
    <2>2. StreamInv'
      BY <1>3, <2>1, SameStream DEF UpInv
    <2> QED
      BY <1>2, <1>3, <2>1, <2>2, HandledUp
  <1>5. CASE pkt.len # 0
    <2>1. pkt.seq = client_seq + tx_queue_size
      BY <1>2 DEF InSequence
    <2>2. SeqInv' /\ StreamInv' /\ ~client_closed
      BY <1>2, <1>3, <1>5, <2>1, EnqueueUp
    <2>3. TunOrdered'
      BY <1>2, <1>3, ShrunkOrdered DEF UpInv
    <2>4. TunAbove'
      <3>1. pkt.len \in Nat /\ pkt.len > 0 /\ client_seq \in Nat /\ tx_queue_size \in Nat
        BY <1>2, <1>5, SegmentFields, ConnFields DEF TypeInv
      <3>2. client_seq' + tx_queue_size' = pkt.seq + pkt.len
        <4>1. tx_queue_size' = tx_queue_size + pkt.len
          BY <1>3, <1>5 DEF Enqueue
        <4> QED
          BY <1>3, <2>1, <3>1, <4>1
      <3>3. \A j \in (1 + 1)..Len(tun) : tun[j].len > 0 => pkt.seq + pkt.len <= tun[j].seq
        BY <1>2, <3>1 DEF UpInv, TunOrdered
      <3> QED
        BY <1>2, <3>2, <3>3 DEF TunAbove
    <2>5. FinInv' /\ NewInv'
      BY <1>2, <1>3, <2>2 DEF FinInv, NewInv
    <2> QED
      BY <2>2, <2>3, <2>4, <2>5 DEF UpInv
  <1> QED
    BY <1>4, <1>5

LEMMA ForwardUp ==
    ASSUME TypeInv, UpInv, ZdtunForward
    PROVE  UpInv'
  <1>1. CASE FwdToClosed \/ FwdOpenError
    <2>1. PICK guard : Forward(guard)
      BY <1>1 DEF FwdToClosed, FwdOpenError
    <2>2. /\ status' # "NEW"
          /\ UNCHANGED <<sock, tx_queue, tx_queue_size, client_seq, client_closed,
                         toServer, snd_nxt, cl_fin>>
      BY <1>1 DEF FwdToClosed, FwdOpenError, clVars, srvVars
    <2>3. StreamInv'
      BY <2>2, SameStream DEF UpInv
    <2> QED
      BY <2>1, <2>2, <2>3, ForwardHead, HandledUp
  <1>2. CASE FwdConnectError \/ FwdUrgent \/ FwdRst
    <2>1. PICK guard : Forward(guard)
      BY <1>2 DEF FwdConnectError, FwdUrgent, FwdRst
    <2>2. TunShrinks
      BY <2>1, ForwardHead
    <2>3. PICK st \in {"UNREACHABLE", "SOCKET_ERROR", "ERROR", "CLOSED"} : ConnClose(st)
      BY <1>2 DEF FwdConnectError, FwdUrgent, FwdRst
    <2>4. UNCHANGED <<client_closed, toServer>>
      BY <1>2 DEF FwdConnectError, FwdUrgent, FwdRst, srvVars
    <2> QED
      BY <2>2, <2>3, <2>4, ConnCloseUp
  <1>3. CASE FwdConnecting \/ FwdOutOfSequence
    <2>1. PICK guard : Forward(guard)
      BY <1>3 DEF FwdConnecting, FwdOutOfSequence
    <2>2. TunShrinks
      BY <2>1, ForwardHead
    <2>3. /\ status' # "NEW"
          /\ UNCHANGED <<sock, tx_queue, tx_queue_size, client_seq, client_closed,
                         toServer, snd_nxt, cl_fin>>
      BY <1>3 DEF FwdConnecting, FwdOutOfSequence, Forward, Established, connVars, clVars, srvVars
    <2>4. StreamInv'
      BY <2>3, SameStream DEF UpInv
    <2> QED
      BY <2>2, <2>3, <2>4, HandledUp
  <1>4. CASE FwdAfterServerClosed
    <2>1. Forward(Established /\ InSequence /\ Plain /\ ~sock)
      BY <1>4 DEF FwdAfterServerClosed
    <2>2. TunShrinks /\ status = "CONNECTED" /\ ~sock
      BY <2>1, ForwardHead DEF Established
    <2>3. CASE ClosedOnSendError
      BY <1>4, <2>2, <2>3, SendErrorUp DEF FwdAfterServerClosed, srvVars
    <2>4. CASE UNCHANGED <<status, sock, tx_queue, snd_nxt, cl_fin>>
      <3>1. UNCHANGED <<client_closed, toServer>>
        BY <1>4 DEF FwdAfterServerClosed, srvVars
      <3>2. StreamInv'
        BY <2>4, <3>1, SameStream DEF UpInv
      <3> QED
        BY <2>2, <2>4, <3>1, <3>2, HandledUp
    <2> QED
      BY <1>4, <2>3, <2>4, ClientGetsKeeps DEF FwdAfterServerClosed, clVars
  <1> QED
    BY <1>1, <1>2, <1>3, <1>4, SynUp, FinUp, KeepAliveUp, AckUp DEF ZdtunForward
-----------------------------------------------------------------------------
(***************************************************************************)
(* The events of the socket.                                               *)
(***************************************************************************)
\* The kernel takes n bytes of the queue: the stream goes on.
LEMMA WrittenStream ==
    ASSUME StreamInv, toServer \in Seq(Nat), tx_queue \in Seq(Nat),
           NEW n \in 0..Len(tx_queue),
           toServer' = toServer \o SubSeq(tx_queue, 1, n),
           \/ tx_queue' = <<>>
           \/ tx_queue' = SubSeq(tx_queue, n + 1, Len(tx_queue))
    PROVE  /\ StreamInv' /\ Len(toServer') = Len(toServer) + n
           /\ tx_queue' # <<>> => Len(tx_queue') = Len(tx_queue) - n
  <1> DEFINE w == SubSeq(tx_queue, 1, n)
             r == SubSeq(tx_queue, n + 1, Len(tx_queue))
  <1>1. Len(toServer) \in Nat /\ Len(tx_queue) \in Nat /\ n \in Nat /\ n <= Len(tx_queue)
    OBVIOUS
  <1>2. \A k \in 1..Len(tx_queue) : tx_queue[k] \in Nat
    BY ElementOfSeq
  <1>3. w \in Seq(Nat) /\ Len(w) = n /\ \A k \in 1..n : w[k] = tx_queue[k]
    <2>1. 1 \in Int /\ n \in Int /\ \A k \in 1..n : tx_queue[k] \in Nat
      BY <1>1, <1>2
    <2>2. /\ w \in Seq(Nat) /\ Len(w) = IF 1 <= n THEN n - 1 + 1 ELSE 0
          /\ \A k \in 1..(n - 1 + 1) : w[k] = tx_queue[1 + k - 1]
      BY <2>1, SubSeqProperties
    <2> HIDE DEF w
    <2> QED
      BY <1>1, <2>2, SMTT(40)
  <1>4. Len(r) = Len(tx_queue) - n /\ \A k \in 1..(Len(tx_queue) - n) : r[k] = tx_queue[n + k]
    <2>1. /\ n + 1 \in Int /\ Len(tx_queue) \in Int
          /\ \A k \in (n + 1)..Len(tx_queue) : tx_queue[k] \in Nat
      BY <1>1, <1>2
    <2>2. /\ Len(r) = IF n + 1 <= Len(tx_queue) THEN Len(tx_queue) - (n + 1) + 1 ELSE 0
          /\ \A k \in 1..(Len(tx_queue) - (n + 1) + 1) : r[k] = tx_queue[(n + 1) + k - 1]
      BY <2>1, SubSeqProperties, SMTT(40)
    <2> HIDE DEF r
    <2>3. Len(r) = Len(tx_queue) - n
      <3>1. CASE n + 1 <= Len(tx_queue)
        BY <1>1, <2>2, <3>1
      <3>2. CASE n = Len(tx_queue)
        BY <1>1, <2>2, <3>2
      <3> QED
        BY <1>1, <3>1, <3>2
    <2>4. ASSUME NEW k \in 1..(Len(tx_queue) - n) PROVE r[k] = tx_queue[n + k]
      <3>1. k \in 1..(Len(tx_queue) - (n + 1) + 1) /\ (n + 1) + k - 1 = n + k
        BY <1>1
      <3>2. r[k] = tx_queue[(n + 1) + k - 1]
        BY <2>2, <3>1
      <3> QED
        BY <3>1, <3>2
    <2> QED
      BY <2>3, <2>4
  <1> HIDE DEF w, r
  <1>5. /\ Len(toServer \o w) = Len(toServer) + Len(w)
        /\ \A k \in 1..(Len(toServer) + Len(w)) :
              (toServer \o w)[k] = IF k <= Len(toServer) THEN toServer[k] ELSE w[k - Len(toServer)]
    BY <1>3, ConcatProperties
  <1>6. toServer' = toServer \o w /\ (tx_queue' = <<>> \/ tx_queue' = r)
    BY DEF w, r
  <1>7. Len(toServer') = Len(toServer) + n
    BY <1>3, <1>5, <1>6
  <1>8. ASSUME NEW k \in 1..Len(toServer') PROVE toServer'[k] = k
    <2>1. CASE k <= Len(toServer)
      <3>1. k \in 1..Len(toServer) /\ toServer'[k] = toServer[k]
        BY <1>1, <1>3, <1>5, <1>6, <1>7, <2>1
      <3> QED
        BY <3>1 DEF StreamInv
    <2>2. CASE k > Len(toServer)
      <3>1. k - Len(toServer) \in 1..n /\ k \in Nat
        BY <1>1, <1>7, <2>2
      <3>2. toServer'[k] = tx_queue[k - Len(toServer)]
        BY <1>1, <1>3, <1>5, <1>6, <1>7, <2>2, <3>1
      <3>3. k - Len(toServer) \in 1..Len(tx_queue)
        BY <1>1, <3>1
      <3>4. toServer'[k] = Len(toServer) + (k - Len(toServer))
        BY <3>2, <3>3 DEF StreamInv
      <3> QED
        BY <1>1, <3>1, <3>4
    <2> QED
      BY <1>1, <1>7, <2>1, <2>2
  <1>9. ASSUME NEW k \in 1..Len(tx_queue') PROVE tx_queue'[k] = Len(toServer') + k
    <2>1. CASE tx_queue' = <<>>
      BY <2>1, EmptySeq
    <2>2. CASE tx_queue' = r
      <3>1. k \in 1..(Len(tx_queue) - n) /\ tx_queue'[k] = tx_queue[n + k]
        BY <1>4, <2>2
      <3>2. n + k \in 1..Len(tx_queue) /\ k \in Nat
        BY <1>1, <3>1
      <3>3. tx_queue'[k] = Len(toServer) + (n + k)
        BY <3>1, <3>2 DEF StreamInv
      <3>4. Len(toServer) + (n + k) = (Len(toServer) + n) + k
        BY <1>1, <3>2
      <3> QED
        BY <1>7, <3>3, <3>4
    <2> QED
      BY <1>6, <2>1, <2>2
  <1>10. StreamInv'
    BY <1>8, <1>9 DEF StreamInv
  <1> QED
    BY <1>4, <1>6, <1>7, <1>10

LEMMA SendQueuedUp ==
    ASSUME TypeInv, UpInv, SendQueued
    PROVE  UpInv'
  <1>1. PICK n \in 0..Len(tx_queue) :
          /\ Taken(n)
          /\ \/ /\ tx_queue' = SubSeq(tx_queue, n + 1, Len(tx_queue))
                /\ write_fds' = (tx_queue' # <<>>)
                /\ \/ n = 0 /\ UNCHANGED clVars
                   \/ n > 0 /\ ClientGets(Reply({"ACK"}, client_seq', 0))
                /\ UNCHANGED <<status, sock, fin_ack_sent, all_fds, closes>>
             \/ n > 0 /\ ClosedOnSendError
    BY DEF SendQueued
  <1>0. tx_queue # <<>>
    BY DEF SendQueued
  <1>2. /\ toServer' = toServer \o SubSeq(tx_queue, 1, n)
        /\ client_seq' = client_seq + n /\ tx_queue_size' = tx_queue_size - n
    BY <1>1 DEF Taken
  <1>3. tun' = tun /\ client_closed' = client_closed
    BY DEF SendQueued, Handle
  <1>4. UNCHANGED <<snd_nxt, cl_fin>>
    BY <1>1, ClientGetsKeeps DEF ClosedOnSendError, clVars
  <1>5. TunShrinks
    BY <1>3 DEF TunShrinks
  <1>6. /\ toServer \in Seq(Nat) /\ tx_queue \in Seq(Nat) /\ client_seq \in Nat
        /\ tx_queue_size \in Nat /\ Len(toServer) \in Nat /\ Len(tx_queue) \in Nat
        /\ snd_nxt \in Nat
    BY ConnFields DEF TypeInv, ServerTypeOK, ClientInv, ClientTypeOK
  <1>7. CASE ClosedOnSendError
    <2>1. tx_queue' = <<>> /\ status' = "CLIENT_ERROR" /\ sock' = FALSE
      BY <1>7 DEF ClosedOnSendError, Closed, CloseSocket
    <2>2. StreamInv'
      BY <1>2, <1>6, <2>1, WrittenStream DEF UpInv
    <2> QED
      BY <1>3, <1>4, <1>5, <2>1, <2>2, HandledUp
  <1>8. CASE tx_queue' = SubSeq(tx_queue, n + 1, Len(tx_queue)) /\ UNCHANGED <<status, sock>>
    <2>1. /\ StreamInv' /\ Len(toServer') = Len(toServer) + n
          /\ tx_queue' # <<>> => Len(tx_queue') = Len(tx_queue) - n
      BY <1>2, <1>6, <1>8, WrittenStream DEF UpInv
    <2>2. Len(tx_queue') = Len(tx_queue) - n
      <3>1. /\ n + 1 \in Int /\ Len(tx_queue) \in Int
            /\ \A k \in (n + 1)..Len(tx_queue) : tx_queue[k] \in Nat
        BY <1>6, ElementOfSeq
      <3>2. Len(tx_queue') = IF n + 1 <= Len(tx_queue) THEN Len(tx_queue) - (n + 1) + 1 ELSE 0
        BY <1>8, <3>1, SubSeqProperties
      <3> QED
        BY <1>6, <3>2
    <2>3. NewInv'
      <3>1. status # "NEW"
        BY <1>0 DEF UpInv, NewInv
      <3> QED
        BY <1>8, <3>1 DEF NewInv
    <2>4. client_seq' + tx_queue_size' = client_seq + tx_queue_size
      BY <1>2, <1>6
    <2>5. SeqInv'
      <3> SUFFICES ASSUME Open
                   PROVE  /\ client_seq' = Len(toServer') + 1
                          /\ tx_queue_size' = Len(tx_queue')
                          /\ client_seq' + tx_queue_size' <= snd_nxt'
        BY <1>3, <1>8 DEF SeqInv, Open
      <3>1. /\ client_seq = Len(toServer) + 1 /\ tx_queue_size = Len(tx_queue)
            /\ client_seq + tx_queue_size <= snd_nxt
        BY DEF UpInv, SeqInv
      <3>2. client_seq' = Len(toServer') + 1 /\ tx_queue_size' = Len(tx_queue')
        BY <1>2, <1>6, <2>1, <2>2, <3>1
      <3> QED
        BY <1>4, <2>4, <3>1, <3>2
    <2>6. TunAbove' /\ FinInv' /\ TunOrdered'
      BY <1>3, <1>4, <1>8, <2>4 DEF UpInv, TunAbove, FinInv, TunOrdered, Open
    <2> QED
      BY <2>1, <2>3, <2>5, <2>6 DEF UpInv
  <1> QED
    BY <1>1, <1>7, <1>8

LEMMA HandleUp ==
    ASSUME TypeInv, LifeInv, UpInv, ZdtunHandleFd
    PROVE  UpInv'
  <1>1. tun' = tun /\ client_closed' = client_closed /\ status # "NEW"
    BY DEF ZdtunHandleFd, ReplyError, ReplyEof, ReplyData, ConnectAsync, LifeInv,
           ConnectAsyncError, SendQueued, SendQueuedError, Handle, SelectedSocketsAreOpen
  <1>2. TunShrinks
    BY <1>1 DEF TunShrinks
  <1>3. CASE ReplyError \/ ConnectAsyncError
    <2>1. ConnClose(SocketErrorStatus) /\ SocketErrorStatus # "NEW" /\ toServer' = toServer
      BY <1>3 DEF ReplyError, ConnectAsyncError, SocketErrorStatus, srvVars
    <2> QED
      BY <1>1, <1>2, <2>1, ConnCloseUp
  <1>4. CASE ReplyEof
    <2>1. toServer' = toServer
      BY <1>4 DEF ReplyEof, srvVars
    <2>2. CASE ClosedOnSendError
      BY <1>1, <1>2, <2>1, <2>2, SendErrorUp
    <2>3. CASE ClientGets(Reply({"FIN", "ACK"}, client_seq, 0)) /\ Closed("CLOSED", 1)
      BY <1>1, <1>2, <2>1, <2>3, ClientGetsKeeps, ClosedUp
    <2>4. CASE ClientGets(Reply({"FIN", "ACK"}, client_seq, 0)) /\ CloseSocket
               /\ UNCHANGED <<status, tx_queue, closes>>
      <3>1. StreamInv'
        BY <2>1, <2>4, SameStream DEF UpInv
      <3> QED
        BY <1>1, <1>2, <2>4, <3>1, ClientGetsKeeps, HandledUp DEF CloseSocket
    <2> QED
      BY <1>4, <2>2, <2>3, <2>4 DEF ReplyEof
  <1>5. CASE ReplyData \/ ConnectAsync
    <2>1. UNCHANGED <<tx_queue_size, client_seq, toServer>>
      BY <1>5 DEF ReplyData, ConnectAsync, srvVars
    <2>2. CASE ClosedOnSendError
      BY <1>1, <1>2, <2>1, <2>2, SendErrorUp
    <2>3. CASE /\ UNCHANGED <<sock, tx_queue, snd_nxt, cl_fin>> /\ status' \in {status, "CONNECTED"}
      <3>1. StreamInv'
        BY <2>1, <2>3, SameStream DEF UpInv
      <3> QED
        BY <1>1, <1>2, <2>1, <2>3, <3>1, HandledUp
    <2> QED
      BY <1>5, <2>2, <2>3, ClientGetsKeeps DEF ReplyData, ConnectAsync
  <1>6. CASE SendQueuedError
    <2>1. PICK n \in 0..(Len(tx_queue) - 1) :
            /\ toServer' = toServer \o SubSeq(tx_queue, 1, n)
            /\ ConnClose(SocketErrorStatus)
      BY <1>6 DEF SendQueuedError
    <2>2. toServer \in Seq(Nat) /\ tx_queue \in Seq(Nat) /\ Len(tx_queue) \in Nat
      BY ConnFields DEF TypeInv, ServerTypeOK
    <2>3. tx_queue' = <<>> /\ ~sock' /\ status' # "NEW" /\ UNCHANGED <<snd_nxt, cl_fin>>
      BY <2>1, ClientGetsKeeps DEF ConnClose, Closed, CloseSocket, SocketErrorStatus, clVars
    <2>4. n \in 0..Len(tx_queue)
      BY <2>2
    <2>5. StreamInv'
      BY <2>1, <2>2, <2>3, <2>4, WrittenStream DEF UpInv
    <2> QED
      BY <1>1, <1>2, <2>3, <2>5, HandledUp
  <1> QED
    BY <1>3, <1>4, <1>5, <1>6, SendQueuedUp DEF ZdtunHandleFd

LEMMA PurgeUp ==
    ASSUME TypeInv, UpInv, ZdtunPurge
    PROVE  UpInv'
  <1>1. /\ tun' = tun /\ UNCHANGED <<client_closed, toServer, tx_queue_size, client_seq>>
    BY DEF ZdtunPurge, PurgeClosed, PurgeIdle, Finalize, srvVars
  <1>2. TunShrinks
    BY <1>1 DEF TunShrinks
  <1>3. CASE PurgeIdle
    BY <1>1, <1>2, <1>3, ConnCloseUp DEF PurgeIdle
  <1>4. CASE Finalize /\ Closed("GONE", 1)
    BY <1>1, <1>2, <1>4, ClosedUp DEF Finalize, clVars
  <1>5. CASE /\ UNCHANGED <<sock, tx_queue, snd_nxt, cl_fin, cl_state>>
             /\ status' \in {status, "GONE"}
    <2>1. CASE status' = "GONE"
      <3>1. StreamInv'
        BY <1>1, <1>5, SameStream DEF UpInv
      <3> QED
        BY <1>1, <1>2, <1>5, <2>1, <3>1, HandledUp
    <2>2. CASE status' = status
      BY <1>1, <1>5, <2>2, QuietUp
    <2> QED
      BY <1>5, <2>1, <2>2
  <1> QED
    BY <1>3, <1>4, <1>5 DEF ZdtunPurge, PurgeClosed, Finalize, clVars

LEMMA UpStep ==
    ASSUME TypeInv, LifeInv, UpInv, [Next]_vars, "retransmit" \notin Allow
    PROVE  UpInv'
  <1>1. CASE Server \/ Select \/ UNCHANGED vars
    <2>1. UNCHANGED <<status, sock, tx_queue, tx_queue_size, client_seq, client_closed,
                      toServer, snd_nxt, cl_fin, cl_state, tun>>
      BY <1>1 DEF Server, ServerAccept, ServerRefuse, ServerSend, ServerEof, ServerReset,
                  Select, vars, connVars, clVars, srvVars
    <2> QED
      BY <2>1, QuietUp
  <1> QED
    BY <1>1, ClientUp, ForwardUp, HandleUp, PurgeUp DEF Next

LEMMA UpInvariant ==
    ASSUME "retransmit" \notin Allow
    PROVE  Spec => []UpInv
  <1>1. Init => UpInv
    <2> SUFFICES ASSUME Init PROVE UpInv
      OBVIOUS
    <2>1. Len(<<>>) = 0 /\ Len(tun) = 0 /\ Len(toServer) = 0 /\ Len(tx_queue) = 0
      BY EmptySeq DEF Init
    <2>2. NewInv /\ SeqInv
      BY DEF Init, NewInv, SeqInv, Open
    <2>3. StreamInv /\ TunOrdered /\ TunAbove /\ FinInv
      BY <2>1 DEF Init, StreamInv, TunOrdered, TunAbove, FinInv
    <2> QED
      BY <2>2, <2>3 DEF UpInv
  <1>2. TypeInv /\ LifeInv /\ UpInv /\ [Next]_vars => UpInv'
    BY UpStep
  <1> QED
    BY <1>1, <1>2, LifeInvariant, PTL DEF Spec

\* The server receives the client's bytes in order and each once, whatever the
\* order of packets, socket events, errors and time-outs, as long as the client
\* does not retransmit.
THEOREM UpstreamCorrect ==
    ASSUME "retransmit" \notin Allow
    PROVE  Spec => []UpstreamIsPrefix
  <1>1. TypeInv /\ UpInv => UpstreamIsPrefix
    BY StreamIsPrefix DEF UpInv
  <1> QED
    BY <1>1, UpInvariant, LifeInvariant, PTL
-----------------------------------------------------------------------------
(***************************************************************************)
(* The client is told of a byte only when the byte was written.            *)
(***************************************************************************)
\* Before the connection exists there is nothing to acknowledge.
NothingToAck ==
    /\ cl_state \in {"CLOSED", "SYN_SENT"} => ~cl_fin
    /\ status = "NEW" => cl_state # "ESTABLISHED" /\ ~cl_fin /\ snd_una = 0

\* Every ACK number given to the client is one that client_seq has reached.
AckedTaken == sock => snd_una <= client_seq

\* The client ends its stream when all of it is acknowledged; client_seq no longer
\* counts what was written once the FIN has been taken.
FinWritten == sock /\ cl_fin => SentData <= Len(toServer)

AckInv == NothingToAck /\ AckedTaken /\ FinWritten

LEMMA AckFields ==
    ASSUME TypeInv
    PROVE  /\ snd_nxt \in Nat /\ snd_una \in Nat /\ client_seq \in Nat
           /\ Len(toServer) \in Nat /\ cl_fin \in BOOLEAN /\ SentData \in Int
  <1>1. /\ snd_nxt \in Nat /\ snd_una \in Nat /\ client_seq \in Nat
        /\ Len(toServer) \in Nat /\ cl_fin \in BOOLEAN
    BY ConnFields DEF TypeInv, ClientInv, ClientTypeOK, ServerTypeOK
  <1> QED
    BY <1>1 DEF SentData

\* A segment acknowledges no more than it says, and opens only a client that has
\* sent a SYN.
LEMMA GetsAcked ==
    ASSUME NEW seg, ClientGets(seg), seg.ack \in Nat, snd_una \in Nat,
           NEW bound \in Nat, snd_una <= bound, seg.ack <= bound
    PROVE  snd_una' <= bound
  BY DEF ClientGets, ClientOpens, ClientAborts, ClientTakes, ClientDrops, MaxOf

LEMMA GetsState ==
    ASSUME NEW seg, ClientGets(seg)
    PROVE  /\ cl_state' \in {"CLOSED", "SYN_SENT"} => cl_state \in {"CLOSED", "SYN_SENT"}
           /\ UNCHANGED <<snd_nxt, cl_fin>>
  BY DEF ClientGets, ClientOpens, ClientAborts, ClientTakes, ClientDrops

\* A step of zdtun: the socket closes, or what it acknowledges was taken.
LEMMA HandledAck ==
    ASSUME TypeInv, AckInv, UNCHANGED <<snd_nxt, cl_fin>>,
           cl_state' \in {"CLOSED", "SYN_SENT"} => cl_state \in {"CLOSED", "SYN_SENT"},
           status' # "NEW",
           sock' => /\ snd_una' <= client_seq'
                    /\ sock \/ ~cl_fin
                    /\ Len(toServer') \in Nat /\ Len(toServer) <= Len(toServer')
    PROVE  AckInv'
  <1>1. NothingToAck' /\ AckedTaken'
    BY DEF AckInv, NothingToAck, AckedTaken
  <1>2. SentData' = SentData
    BY DEF SentData
  <1>3. FinWritten'
    <2>1. SentData \in Int /\ Len(toServer) \in Nat
      BY AckFields
    <2> QED
      BY <1>2, <2>1 DEF AckInv, FinWritten
  <1> QED
    BY <1>1, <1>3 DEF AckInv

LEMMA ClosedAck ==
    ASSUME TypeInv, AckInv, NEW st, ConnClose(st) \/ (ClosedOnSendError /\ st = "CLIENT_ERROR"),
           st # "NEW"
    PROVE  AckInv'
  <1>1. ~sock' /\ status' = st
    BY DEF ConnClose, ClosedOnSendError, Closed, CloseSocket
  <1>2. UNCHANGED clVars \/ \E seg : ClientGets(seg)
    BY DEF ConnClose, ClosedOnSendError
  <1>3. /\ UNCHANGED <<snd_nxt, cl_fin>>
        /\ cl_state' \in {"CLOSED", "SYN_SENT"} => cl_state \in {"CLOSED", "SYN_SENT"}
    BY <1>2, GetsState DEF clVars
  <1> QED
    BY <1>1, <1>3, HandledAck

\* The steps of the client: the FIN is sent when everything is acknowledged, and
\* what is acknowledged was written.
LEMMA ClientAcked ==
    ASSUME TypeInv, UpInv, AckInv, Client,
           "retransmit" \notin Allow, "fin_with_data" \notin Allow
    PROVE  AckInv'
  <1>1. UNCHANGED connVars /\ UNCHANGED srvVars /\ snd_una' = snd_una
    BY DEF Client, ClientConnect, ClientSend, ClientFin, ClientAck, ClientRead,
           ClientReset, ClientRefuses, ClientKeepAlive, ClientRetransmit
  <1>2. AckedTaken'
    BY <1>1 DEF AckInv, AckedTaken, connVars
  <1>3. CASE ClientFin
    <2>1. /\ cl_state = "ESTABLISHED" /\ cl_state' = cl_state /\ ~cl_fin /\ cl_fin' = TRUE
          /\ snd_una = snd_nxt /\ snd_nxt' = snd_nxt + 1
      <3>1. PICK n \in 0..SegMax :
              /\ cl_state = "ESTABLISHED" /\ cl_state' = cl_state /\ ~cl_fin /\ cl_fin' = TRUE
              /\ n > 0 \/ snd_una # snd_nxt => "fin_with_data" \in Allow
              /\ snd_nxt' = snd_nxt + n + 1
        BY <1>3 DEF ClientFin
      <3>2. n = 0 /\ snd_una = snd_nxt
        BY <3>1
      <3> QED
        BY <3>1, <3>2, AckFields
    <2>2. NothingToAck'
      BY <1>1, <2>1 DEF AckInv, NothingToAck, connVars
    <2>3. ASSUME sock PROVE SentData' <= Len(toServer)
      <3>1. ~client_closed
        BY <2>1 DEF UpInv, FinInv
      <3>2. client_seq = Len(toServer) + 1 /\ snd_una <= client_seq
        BY <2>3, <3>1 DEF UpInv, SeqInv, Open, AckInv, AckedTaken
      <3>3. SentData' = snd_nxt + 1 - 1 - 1
        <4>1. snd_nxt' - 1 - (IF cl_fin' THEN 1 ELSE 0) = snd_nxt + 1 - 1 - 1
          BY <2>1, AckFields
        <4> QED
          BY <4>1 DEF SentData
      <3> QED
        BY <2>1, <3>2, <3>3, AckFields
    <2>4. FinWritten'
      BY <1>1, <2>3 DEF FinWritten, connVars, srvVars
    <2> QED
      BY <1>2, <2>2, <2>4 DEF AckInv
  <1>4. CASE ~ClientFin
    <2>1. /\ cl_fin' = cl_fin
          /\ cl_fin => UNCHANGED <<snd_nxt, cl_state>> \/ (snd_nxt' = snd_nxt /\ cl_state' = "RESET")
          /\ cl_state' \in {cl_state, "SYN_SENT", "RESET"}
          /\ cl_state' = "SYN_SENT" => cl_state \in {"CLOSED", "SYN_SENT"}
      BY <1>4 DEF Client, ClientConnect, ClientSend, ClientAck, ClientRead, AckInv, NothingToAck,
                  ClientReset, ClientRefuses, ClientKeepAlive, ClientRetransmit
    <2>2. NothingToAck'
      BY <1>1, <2>1 DEF AckInv, NothingToAck, connVars
    <2>3. FinWritten'
      BY <1>1, <2>1 DEF AckInv, FinWritten, SentData, connVars, srvVars
    <2> QED
      BY <1>2, <2>2, <2>3 DEF AckInv
  <1> QED
    BY <1>3, <1>4

\* The handshake acknowledges the SYN.
LEMMA OpensAck ==
    ASSUME TypeInv, AckInv, FwdConnect \/ FwdConnected
    PROVE  AckInv'
  <1>1. Forward(status = "NEW") /\ pkt.seq \in Nat
    BY ForwardType, SegmentFields DEF FwdConnect, FwdConnected
  <1>2. ~cl_fin /\ snd_una = 0 /\ status = "NEW"
    BY <1>1 DEF Forward, AckInv, NothingToAck
  <1>3. CASE ClosedOnSendError
    BY <1>3, ClosedAck
  <1>4. CASE ~ClosedOnSendError
    <2>1. /\ status' # "NEW" /\ client_seq' = pkt.seq + 1 /\ toServer' = toServer
          /\ \/ UNCHANGED clVars
             \/ ClientGets([Reply({"SYN", "ACK"}, client_seq', 0) EXCEPT !.seq = ISS])
      BY <1>4 DEF FwdConnect, FwdConnected
    <2>2. client_seq' \in Nat
      BY <1>1, <2>1
    <2> DEFINE seg == [Reply({"SYN", "ACK"}, client_seq', 0) EXCEPT !.seq = ISS]
    <2>3. seg.ack = client_seq'
      BY DEF Reply
    <2> HIDE DEF seg
    <2>4. snd_una' <= client_seq'
      <3>1. CASE UNCHANGED clVars
        BY <1>2, <2>2, <3>1 DEF clVars
      <3>2. CASE ClientGets(seg)
        BY <1>2, <2>2, <2>3, <3>2, GetsAcked
      <3> QED
        BY <2>1, <3>1, <3>2 DEF seg
    <2>5. /\ UNCHANGED <<snd_nxt, cl_fin>>
          /\ cl_state' \in {"CLOSED", "SYN_SENT"} => cl_state \in {"CLOSED", "SYN_SENT"}
      BY <2>1, GetsState DEF clVars
    <2> QED
      BY <1>2, <2>1, <2>4, <2>5, AckFields, HandledAck
  <1> QED
    BY <1>3, <1>4

\* Any other step of the connection: a reply carries client_seq as it is left.
LEMMA RepliesAck ==
    ASSUME TypeInv, AckInv, status # "NEW", sock' => sock,
           client_seq' \in Nat, client_seq <= client_seq',
           Len(toServer') \in Nat, Len(toServer) <= Len(toServer'),
           status' # "NEW",
           \/ UNCHANGED clVars
           \/ \E seg : ClientGets(seg) /\ (sock' => seg.ack = client_seq')
    PROVE  AckInv'
  <1>1. /\ UNCHANGED <<snd_nxt, cl_fin>>
        /\ cl_state' \in {"CLOSED", "SYN_SENT"} => cl_state \in {"CLOSED", "SYN_SENT"}
    BY GetsState DEF clVars
  <1>2. ASSUME sock' PROVE snd_una' <= client_seq'
    <2>1. snd_una <= client_seq'
      BY <1>2, AckFields DEF AckInv, AckedTaken
    <2>2. CASE UNCHANGED clVars
      BY <2>1, <2>2 DEF clVars
    <2>3. ASSUME NEW seg, ClientGets(seg), seg.ack = client_seq' PROVE snd_una' <= client_seq'
      BY <2>1, <2>3, AckFields, GetsAcked
    <2> QED
      BY <1>2, <2>2, <2>3
  <1> QED
    BY <1>1, <1>2, HandledAck

LEMMA ReplyAck ==
    ASSUME NEW flags, NEW ack, NEW len
    PROVE  Reply(flags, ack, len).ack = ack
  BY DEF Reply

LEMMA ForwardAck ==
    ASSUME TypeInv, AckInv, ZdtunForward
    PROVE  AckInv'
  <1>1. pkt.seq \in Nat /\ pkt.len \in Nat
    BY ForwardType, SegmentFields DEF ZdtunForward, FwdToClosed, FwdOpenError,
         FwdConnectError, FwdConnect, FwdConnected, FwdUrgent, FwdConnecting,
         FwdOutOfSequence, FwdRst, FwdFin, FwdKeepAlive, FwdAck, FwdAfterServerClosed
  <1>2. CASE FwdToClosed \/ FwdOpenError \/ FwdConnecting \/ FwdOutOfSequence \/ FwdAck
    <2>1. /\ status' # "NEW" /\ UNCHANGED <<sock, client_seq, toServer>> /\ UNCHANGED clVars
      BY <1>2 DEF FwdToClosed, FwdOpenError, FwdConnecting, FwdOutOfSequence, FwdAck,
                  Forward, Established, connVars, srvVars
    <2>2. AckedTaken' /\ FinWritten' /\ NothingToAck'
      BY <2>1 DEF AckInv, AckedTaken, FinWritten, NothingToAck, SentData, clVars
    <2> QED
      BY <2>2 DEF AckInv
  <1>3. CASE FwdConnectError \/ FwdUrgent \/ FwdRst
    BY <1>3, ClosedAck DEF FwdConnectError, FwdUrgent, FwdRst
  <1>4. CASE FwdFin \/ FwdKeepAlive \/ FwdAfterServerClosed
    <2>1. CASE ClosedOnSendError
      BY <2>1, ClosedAck
    <2>2. CASE ~ClosedOnSendError
      <3>1. /\ status = "CONNECTED" /\ toServer' = toServer /\ status' # "NEW"
            /\ sock' => sock
        BY <1>4, <2>2 DEF FwdFin, FwdKeepAlive, FwdAfterServerClosed, Forward, Established,
                          Closed, CloseSocket, srvVars
      <3>2. client_seq' \in {client_seq, client_seq + pkt.len, client_seq + pkt.len + 1}
        BY <1>4 DEF FwdFin, FwdKeepAlive, FwdAfterServerClosed
      <3>3. client_seq' \in Nat /\ client_seq <= client_seq'
        BY <1>1, <3>2, AckFields
      <3>4. UNCHANGED clVars \/ ClientGets(Reply({"ACK"}, client_seq', 0))
        BY <1>4, <2>2 DEF FwdFin, FwdKeepAlive, FwdAfterServerClosed
      <3> QED
        BY <3>1, <3>3, <3>4, AckFields, ReplyAck, RepliesAck
    <2> QED
      BY <2>1, <2>2
  <1> QED
    BY <1>2, <1>3, <1>4, OpensAck DEF ZdtunForward

LEMMA HandleAck ==
    ASSUME TypeInv, LifeInv, UpInv, AckInv, ZdtunHandleFd
    PROVE  AckInv'
  <1>1. status # "NEW"
    BY DEF ZdtunHandleFd, ReplyError, ReplyEof, ReplyData, ConnectAsync, LifeInv,
           ConnectAsyncError, SendQueued, SendQueuedError, Handle, SelectedSocketsAreOpen
  <1>2. CASE ReplyError \/ ConnectAsyncError \/ SendQueuedError
    BY <1>2, ClosedAck DEF ReplyError, ConnectAsyncError, SendQueuedError, SocketErrorStatus
  <1>3. CASE ClosedOnSendError
    BY <1>3, ClosedAck
  <1>4. CASE (ReplyEof \/ ReplyData \/ ConnectAsync) /\ ~ClosedOnSendError
    <2>1. UNCHANGED <<client_seq, toServer>>
      BY <1>4 DEF ReplyEof, ReplyData, ConnectAsync, srvVars
    <2>2. status' # "NEW" /\ (sock' => sock)
      BY <1>1, <1>4 DEF ReplyEof, ReplyData, ConnectAsync, Closed, CloseSocket
    <2>3. \/ ClientGets(Reply({"FIN", "ACK"}, client_seq, 0))
          \/ ClientGets(Reply({"ACK"}, client_seq, RecvLen))
          \/ ClientGets(Reply({"SYN", "ACK"}, client_seq, 0))
      BY <1>4 DEF ReplyEof, ReplyData, ConnectAsync
    <2>4. \E seg : ClientGets(seg) /\ seg.ack = client_seq'
      BY <2>1, <2>3, ReplyAck
    <2> QED
      BY <1>1, <2>1, <2>2, <2>4, AckFields, RepliesAck
  <1>5. CASE SendQueued /\ ~ClosedOnSendError
    <2>1. PICK n \in 0..Len(tx_queue) :
            /\ Taken(n)
            /\ UNCHANGED <<status, sock>>
            /\ UNCHANGED clVars \/ ClientGets(Reply({"ACK"}, client_seq', 0))
      BY <1>5 DEF SendQueued
    <2>2. /\ toServer \in Seq(Nat) /\ tx_queue \in Seq(Nat) /\ Len(tx_queue) \in Nat
          /\ n \in Nat /\ n <= Len(tx_queue)
      BY ConnFields DEF TypeInv, ServerTypeOK
    <2>3. client_seq' \in Nat /\ client_seq <= client_seq'
      BY <2>1, <2>2, AckFields DEF Taken
    <2>4. Len(toServer') \in Nat /\ Len(toServer) <= Len(toServer')
      <3> DEFINE w == SubSeq(tx_queue, 1, n)
      <3>1. w \in Seq(Nat) /\ toServer' = toServer \o w
        <4>1. \A k \in 1..n : tx_queue[k] \in Nat
          BY <2>2, ElementOfSeq
        <4> QED
          BY <2>1, <2>2, <4>1, SubSeqProperties DEF Taken
      <3> HIDE DEF w
      <3>2. Len(toServer \o w) = Len(toServer) + Len(w) /\ Len(w) \in Nat
        BY <2>2, <3>1, ConcatProperties
      <3> QED
        BY <3>1, <3>2, AckFields
    <2> QED
      BY <1>1, <2>1, <2>3, <2>4, ReplyAck, RepliesAck
  <1> QED
    BY <1>2, <1>3, <1>4, <1>5 DEF ZdtunHandleFd

LEMMA AckStep ==
    ASSUME TypeInv, LifeInv, UpInv, AckInv, [Next]_vars,
           "retransmit" \notin Allow, "fin_with_data" \notin Allow
    PROVE  AckInv'
  <1>1. CASE Server \/ Select \/ UNCHANGED vars
    <2>1. UNCHANGED <<status, sock, client_seq, toServer, snd_nxt, snd_una, cl_fin, cl_state>>
      BY <1>1 DEF Server, ServerAccept, ServerRefuse, ServerSend, ServerEof, ServerReset,
                  Select, vars, connVars, clVars, srvVars
    <2> QED
      BY <2>1 DEF AckInv, NothingToAck, AckedTaken, FinWritten, SentData
  <1>2. CASE ZdtunPurge
    <2>1. CASE PurgeIdle
      BY <2>1, ClosedAck DEF PurgeIdle
    <2>2. CASE PurgeClosed \/ Finalize
      <3>1. /\ UNCHANGED clVars /\ UNCHANGED <<client_seq, toServer>>
            /\ sock' \in {sock, FALSE} /\ (status' = "NEW" => status = "NEW")
        BY <2>2 DEF PurgeClosed, Finalize, Closed, CloseSocket, srvVars
      <3>2. sock' => sock
        BY <3>1
      <3>3. NothingToAck'
        BY <3>1 DEF AckInv, NothingToAck, clVars
      <3>4. AckedTaken' /\ FinWritten'
        BY <3>1, <3>2 DEF AckInv, AckedTaken, FinWritten, SentData, clVars
      <3> QED
        BY <3>3, <3>4 DEF AckInv
    <2> QED
      BY <1>2, <2>1, <2>2 DEF ZdtunPurge
  <1> QED
    BY <1>1, <1>2, ClientAcked, ForwardAck, HandleAck DEF Next

\* What the invariants say of the ACK numbers the client has seen
LEMMA AckedWasWritten ==
    ASSUME TypeInv, UpInv, AckInv
    PROVE  AckedIsWritten
  <1> SUFFICES ASSUME sock
               PROVE  MinOf(snd_una - 1, SentData) <= Len(toServer)
    BY DEF AckedIsWritten
  <1>1. CASE client_closed
    <2>1. SentData <= Len(toServer)
      BY <1>1 DEF UpInv, FinInv, AckInv, FinWritten
    <2> QED
      BY <2>1, AckFields DEF MinOf
  <1>2. CASE ~client_closed
    <2>1. client_seq = Len(toServer) + 1 /\ snd_una <= client_seq
      BY <1>2 DEF UpInv, SeqInv, Open, AckInv, AckedTaken
    <2>2. snd_una - 1 <= Len(toServer)
      BY <2>1, AckFields
    <2> QED
      BY <2>2, AckFields DEF MinOf
  <1> QED
    BY <1>1, <1>2

\* While the socket is open, the client is told of a byte only when the byte has
\* been written to the socket, in every order of packets, partial writes and
\* errors: a client that neither retransmits nor ends its stream before it is
\* acknowledged may forget what was acknowledged.
THEOREM AckCorrect ==
    ASSUME "retransmit" \notin Allow, "fin_with_data" \notin Allow
    PROVE  Spec => []AckedIsWritten
  <1>1. Init => AckInv
    BY DEF Init, AckInv, NothingToAck, AckedTaken, FinWritten
  <1>2. TypeInv /\ LifeInv /\ UpInv /\ AckInv /\ [Next]_vars => AckInv'
    BY AckStep
  <1>3. TypeInv /\ UpInv /\ AckInv => AckedIsWritten
    BY AckedWasWritten
  <1>4. Spec => []UpInv
    BY UpInvariant
  <1> QED
    BY <1>1, <1>2, <1>3, <1>4, LifeInvariant, PTL DEF Spec
-----------------------------------------------------------------------------
(***************************************************************************)
(* What a segment of zdtun does to the client.                             *)
(***************************************************************************)
\* What the client has received is kept; it may have been reset.
ClientKeeps ==
    /\ UNCHANGED <<toClient, cl_eof, rcv_nxt, rcv_used>>
    /\ cl_state' \in {cl_state, "RESET"}

LEMMA NothingKeeps ==
    ASSUME UNCHANGED clVars
    PROVE  ClientKeeps
  BY DEF ClientKeeps, clVars

\* No byte of the server is in an empty segment.
LEMMA EmptyAccepted ==
    ASSUME ClientInv, NEW seg \in Replies, seg.len = 0
    PROVE  Accepted(seg) = 0 /\ toClient \o Bytes(seg.first, seg.first + Accepted(seg) - 1) = toClient
  <1>1. Accepted(seg) = 0
    BY ConstantsAssumption DEF Accepted, MinOf, ClientInv, ClientTypeOK
  <1>2. seg.first \in Nat /\ toClient \in Seq(Nat)
    BY DEF Replies, ClientInv, ClientTypeOK
  <1> DEFINE b == Bytes(seg.first, seg.first + Accepted(seg) - 1)
  <1>3. /\ seg.first + Accepted(seg) - 1 \in Int
        /\ seg.first + Accepted(seg) - 1 >= seg.first - 1
    BY <1>1, <1>2
  <1>4. b \in Seq(Nat)
    BY <1>2, <1>3, BytesType
  <1>5. Len(b) = (seg.first + Accepted(seg) - 1) - seg.first + 1
    BY <1>2, <1>3, BytesLen
  <1>6. Len(b) = 0
    BY <1>1, <1>2, <1>5
  <1> HIDE DEF b
  <1>7. b = <<>>
    BY <1>4, <1>6, EmptySeq
  <1>8. toClient \o b = toClient
    BY <1>2, <1>7, ConcatEmptySeq
  <1> QED
    BY <1>1, <1>8 DEF b

\* An ACK or a RST without data
LEMMA EmptyKeeps ==
    ASSUME ClientInv, NEW seg \in Replies, seg.len = 0, "FIN" \notin seg.flags,
           "SYN" \notin seg.flags, ClientGets(seg)
    PROVE  ClientKeeps
  <1>1. CASE ClientOpens(seg)
    BY <1>1 DEF ClientOpens, AnswersSyn
  <1>2. CASE ClientAborts(seg)
    BY <1>2 DEF ClientAborts, ClientKeeps
  <1>3. CASE ClientTakes(seg)
    <2>1. ~FinInOrder(seg) /\ rcv_nxt \in Nat /\ rcv_used \in Nat
      BY DEF FinInOrder, ClientInv, ClientTypeOK
    <2>2. toClient' = toClient /\ Accepted(seg) = 0
      BY <1>3, EmptyAccepted DEF ClientTakes
    <2> QED
      BY <1>3, <2>1, <2>2 DEF ClientTakes, ClientKeeps, ClientInv, ClientTypeOK
  <1>4. CASE ClientDrops(seg)
    BY <1>4 DEF ClientDrops, ClientKeeps
  <1> QED
    BY <1>1, <1>2, <1>3, <1>4 DEF ClientGets

\* build_reply_tcpip without data
LEMMA EmptyReply ==
    ASSUME TypeInv, NEW ack \in Nat, NEW flags \in {{"ACK"}, {"RST", "ACK"}},
           ClientGets(Reply(flags, ack, 0))
    PROVE  ClientKeeps
  <1> DEFINE seg == Reply(flags, ack, 0)
  <1>1. seg \in Replies
    BY ReplyType
  <1>2. seg.len = 0 /\ "FIN" \notin seg.flags /\ "SYN" \notin seg.flags
    BY DEF Reply
  <1> HIDE DEF seg
  <1> QED
    BY <1>1, <1>2, EmptyKeeps DEF TypeInv, seg

\* The SYN+ACK opens a client that waits for it, and no other.
LEMMA SynAckKeeps ==
    ASSUME NEW seg, seg.flags = {"SYN", "ACK"}, cl_state # "ESTABLISHED", ClientGets(seg)
    PROVE  ClientKeeps \/ (ClientOpens(seg) /\ cl_state = "SYN_SENT")
  BY DEF ClientGets, ClientOpens, ClientAborts, ClientTakes, ClientDrops, ClientKeeps,
         Acceptable, AnswersSyn

\* What every close does to the client
LEMMA CloseKeeps ==
    ASSUME TypeInv, NEW st, ConnClose(st)
    PROVE  ClientKeeps
  <1>1. client_seq \in Nat
    BY ConnFields DEF TypeInv
  <1> QED
    BY <1>1, EmptyReply, NothingKeeps DEF ConnClose
-----------------------------------------------------------------------------
(***************************************************************************)
(* The stream of the server, when the server does not talk before zdtun    *)
(* has noticed the connect.                                                *)
(***************************************************************************)
\* Before the connection is established nothing was received from the server.
BeforeConnected ==
    /\ status = "NEW" => srv = "none" /\ ~sock
    /\ status \in {"NEW", "CONNECTING"} =>
          srv_sent = 0 /\ ~srv_eof /\ ~cl_eof /\ cl_state # "ESTABLISHED"
    /\ status = "CONNECTING" => zdtun_seq = ISS

\* zdtun_seq counts the SYN, what was read from the socket, and the FIN.
ServerSeq ==
    status = "CONNECTED" => /\ zdtun_seq = ISS + 1 + srv_read + (IF sock THEN 0 ELSE 1)
                            /\ sock => ~cl_eof

\* ... and rcv_nxt the SYN, what the client has received, and the FIN.
ClientNext ==
    /\ cl_state \in {"CLOSED", "SYN_SENT"} => toClient = <<>> /\ ~cl_eof /\ rcv_used = 0
    /\ cl_state = "ESTABLISHED" =>
          rcv_nxt = ISS + 1 + Len(toClient) + (IF cl_eof THEN 1 ELSE 0)

Received ==
    /\ \A k \in 1..Len(toClient) : toClient[k] = k
    /\ Len(toClient) <= srv_read /\ srv_read <= srv_sent

DownInv == BeforeConnected /\ ServerSeq /\ ClientNext /\ Received

LEMMA ReceivedIsPrefix ==
    ASSUME TypeInv, Received
    PROVE  DownstreamIsPrefix
  <1>1. toClient \in Seq(Nat) /\ Len(toClient) \in Nat
    BY DEF TypeInv, ClientInv, ClientTypeOK
  <1> DEFINE b == Bytes(1, Len(toClient))
  <1>2. 1 \in Nat /\ Len(toClient) \in Int /\ Len(toClient) >= 1 - 1
    BY <1>1
  <1>3. b \in Seq(Nat)
    BY <1>2, BytesType
  <1>4. Len(b) = Len(toClient) - 1 + 1
    BY <1>2, BytesLen
  <1>5. \A k \in 1..Len(toClient) : b[k] = k
    BY <1>1 DEF Bytes
  <1> HIDE DEF b
  <1>6. Len(b) = Len(toClient)
    BY <1>1, <1>4
  <1>7. \A k \in 1..Len(toClient) : toClient[k] = b[k]
    BY <1>5 DEF Received
  <1>8. toClient = b
    BY <1>1, <1>3, <1>6, <1>7, SeqEqual
  <1> QED
    BY <1>8 DEF DownstreamIsPrefix, b

\* The client receives what follows in the stream.
LEMMA MoreReceived ==
    ASSUME TypeInv, Received, NEW n \in Nat,
           toClient' = toClient \o Bytes(Len(toClient) + 1, Len(toClient) + n)
    PROVE  Len(toClient') = Len(toClient) + n /\ \A k \in 1..Len(toClient') : toClient'[k] = k
  <1>1. toClient \in Seq(Nat) /\ Len(toClient) \in Nat
    BY DEF TypeInv, ClientInv, ClientTypeOK
  <1> DEFINE b == Bytes(Len(toClient) + 1, Len(toClient) + n)
  <1>2. Len(toClient) + 1 \in Nat /\ Len(toClient) + n \in Int
        /\ Len(toClient) + n >= (Len(toClient) + 1) - 1
    BY <1>1
  <1>3. b \in Seq(Nat)
    BY <1>2, BytesType
  <1>4. Len(b) = (Len(toClient) + n) - (Len(toClient) + 1) + 1
    BY <1>2, BytesLen
  <1>5. \A k \in 1..n : b[k] = Len(toClient) + k
    BY <1>1 DEF Bytes
  <1> HIDE DEF b
  <1>6. Len(b) = n
    BY <1>1, <1>4
  <1>7. /\ Len(toClient \o b) = Len(toClient) + Len(b)
        /\ \A k \in 1..(Len(toClient) + Len(b)) :
              (toClient \o b)[k] = IF k <= Len(toClient) THEN toClient[k] ELSE b[k - Len(toClient)]
    BY <1>1, <1>3, ConcatProperties
  <1>8. toClient' = toClient \o b
    BY DEF b
  <1>9. ASSUME NEW k \in 1..(Len(toClient) + n) PROVE toClient'[k] = k
    <2>1. CASE k <= Len(toClient)
      <3>1. k \in 1..Len(toClient) /\ toClient'[k] = toClient[k]
        BY <1>1, <1>6, <1>7, <1>8, <2>1
      <3> QED
        BY <3>1 DEF Received
    <2>2. CASE k > Len(toClient)
      <3>1. k - Len(toClient) \in 1..n /\ Len(toClient) + (k - Len(toClient)) = k
        BY <1>1, <2>2
      <3>2. toClient'[k] = b[k - Len(toClient)]
        BY <1>1, <1>6, <1>7, <1>8, <2>2
      <3>3. toClient'[k] = Len(toClient) + (k - Len(toClient))
        BY <1>5, <3>1, <3>2
      <3> QED
        BY <3>1, <3>3
    <2>3. k <= Len(toClient) \/ k > Len(toClient)
      BY <1>1
    <2> QED
      BY <2>1, <2>2, <2>3
  <1> QED
    BY <1>6, <1>7, <1>8, <1>9

\* The numbers the invariant speaks of
LEMMA DownFields ==
    ASSUME TypeInv
    PROVE  /\ srv_sent \in Nat /\ srv_read \in Nat /\ ISS \in Nat /\ zdtun_seq \in Nat
           /\ rcv_nxt \in Nat /\ rcv_used \in Nat /\ toClient \in Seq(Nat)
           /\ Len(toClient) \in Nat /\ window_size \in Nat /\ client_seq \in Nat
           /\ RcvBuf \in Nat /\ SegMax \in Nat /\ rcv_used <= RcvBuf
           /\ cl_eof \in BOOLEAN /\ srv_eof \in BOOLEAN /\ sock \in BOOLEAN
  BY ConstantsAssumption
     DEF TypeInv, ConnInv, ConnTypeOK, ClientInv, ClientTypeOK, ServerTypeOK

\* The client is told of nothing new, and the connection closes or goes on.
LEMMA KeptDown ==
    ASSUME DownInv, ClientKeeps, UNCHANGED <<srv_sent, srv_read, srv_eof>>,
           status' \notin OpenStatuses \/ UNCHANGED <<status, sock, zdtun_seq, srv>>
    PROVE  DownInv'
  <1>1. ClientNext' /\ Received'
    BY DEF DownInv, ClientKeeps, ClientNext, Received
  <1>2. BeforeConnected' /\ ServerSeq'
    BY DEF DownInv, ClientKeeps, BeforeConnected, ServerSeq, OpenStatuses
  <1> QED
    BY <1>1, <1>2 DEF DownInv

\* zdtun_conn_close
LEMMA CloseDown ==
    ASSUME TypeInv, DownInv, UNCHANGED <<srv_sent, srv_read, srv_eof>>,
           NEW st, ConnClose(st), st \notin OpenStatuses
    PROVE  DownInv'
  <1>1. ClientKeeps
    BY CloseKeeps
  <1>2. status' = st
    BY DEF ConnClose, Closed
  <1> QED
    BY <1>1, <1>2, KeptDown

\* ... and the failures of send_to_client; what was read is lost
LEMMA SendErrorDown ==
    ASSUME TypeInv, DownInv, UNCHANGED <<srv_sent, srv_eof>>,
           srv_read' \in Nat, srv_read <= srv_read', srv_read' <= srv_sent, ClosedOnSendError
    PROVE  DownInv'
  <1>1. UNCHANGED clVars /\ status' \notin OpenStatuses
    BY DEF ClosedOnSendError, Closed, OpenStatuses
  <1>2. ClientKeeps
    BY <1>1, NothingKeeps
  <1>3. Received'
    BY <1>2, DownFields DEF DownInv, Received, ClientKeeps
  <1>4. ClientNext'
    BY <1>2 DEF DownInv, ClientKeeps, ClientNext
  <1>5. BeforeConnected' /\ ServerSeq'
    BY <1>1 DEF BeforeConnected, ServerSeq, OpenStatuses
  <1> QED
    BY <1>3, <1>4, <1>5 DEF DownInv

\* The steps of the client, of the server and of select
LEMMA EndsDown ==
    ASSUME TypeInv, DownInv, Client \/ Server \/ Select \/ UNCHANGED vars,
           "early_server" \notin Allow
    PROVE  DownInv'
  <1>1. CASE Client
    <2>1. UNCHANGED connVars /\ UNCHANGED srvVars /\ UNCHANGED <<ready, toClient, cl_eof, rcv_nxt>>
      BY <1>1 DEF Client, ClientConnect, ClientSend, ClientFin, ClientAck, ClientRead,
             ClientReset, ClientRefuses, ClientKeepAlive, ClientRetransmit
    <2>2. \/ cl_state' \in {cl_state, "RESET"} /\ rcv_used' = rcv_used
          \/ cl_state = "CLOSED" /\ cl_state' = "SYN_SENT" /\ rcv_used' = rcv_used
          \/ cl_state = "ESTABLISHED" /\ cl_state' = cl_state
      BY <1>1 DEF Client, ClientConnect, ClientSend, ClientFin, ClientAck, ClientRead,
             ClientReset, ClientRefuses, ClientKeepAlive, ClientRetransmit
    <2>3. ClientNext' /\ Received'
      BY <2>1, <2>2 DEF DownInv, ClientNext, Received, connVars, srvVars
    <2>4. BeforeConnected' /\ ServerSeq'
      BY <2>1, <2>2 DEF DownInv, BeforeConnected, ServerSeq, connVars, srvVars
    <2> QED
      BY <2>3, <2>4 DEF DownInv
  <1>2. CASE Server
    <2>1. /\ UNCHANGED connVars /\ UNCHANGED clVars /\ UNCHANGED <<ready, srv_read>>
          /\ srv_sent' \in {srv_sent, srv_sent + 1}
          /\ srv = "none" => srv' = "none"
          /\ status \in {"NEW", "CONNECTING"} /\ srv_sent = 0 /\ ~srv_eof /\ (status = "NEW" => srv = "none")
                => srv_sent' = 0 /\ ~srv_eof'
      BY <1>2 DEF Server, ServerAccept, ServerRefuse, ServerSend, ServerEof, ServerReset, MayTalk
    <2>2. ClientNext'
      BY <2>1 DEF DownInv, ClientNext, connVars, clVars
    <2>3. Received'
      BY <2>1, DownFields DEF DownInv, Received, clVars
    <2>4. BeforeConnected' /\ ServerSeq'
      BY <2>1 DEF DownInv, BeforeConnected, ServerSeq, connVars, clVars
    <2> QED
      BY <2>2, <2>3, <2>4 DEF DownInv
  <1>3. CASE Select \/ UNCHANGED vars
    <2>1. UNCHANGED connVars /\ UNCHANGED clVars /\ UNCHANGED srvVars
      BY <1>3 DEF Select, vars
    <2>2. ClientNext' /\ Received'
      BY <2>1 DEF DownInv, ClientNext, Received, connVars, clVars, srvVars
    <2>3. BeforeConnected' /\ ServerSeq'
      BY <2>1 DEF DownInv, BeforeConnected, ServerSeq, connVars, clVars, srvVars
    <2> QED
      BY <2>2, <2>3 DEF DownInv
  <1> QED
    BY <1>1, <1>2, <1>3

\* The SYN+ACK: the client expects the first byte of the server.
LEMMA OpensDown ==
    ASSUME TypeInv, DownInv, status \in {"NEW", "CONNECTING"},
           NEW ack \in Nat, NEW seg, seg.flags = {"SYN", "ACK"}, seg.seq = ISS,
           ClientGets(seg), status' = "CONNECTED", sock' = TRUE, zdtun_seq' = ISS + 1,
           UNCHANGED <<srv_sent, srv_read, srv_eof>>
    PROVE  DownInv'
  <1>1. cl_state # "ESTABLISHED" /\ srv_sent = 0 /\ ~srv_eof /\ ~cl_eof
    BY DEF DownInv, BeforeConnected
  <1>2. srv_read = 0 /\ Len(toClient) = 0
    BY <1>1, DownFields DEF DownInv, Received
  <1>3. CASE ClientKeeps
    <2>1. ClientNext' /\ Received'
      BY <1>3 DEF DownInv, ClientKeeps, ClientNext, Received
    <2> QED
      BY <1>1, <1>2, <1>3, <2>1, DownFields DEF DownInv, ClientKeeps, BeforeConnected, ServerSeq
  <1>4. CASE ClientOpens(seg) /\ cl_state = "SYN_SENT"
    <2>1. toClient' = toClient /\ ~cl_eof' /\ rcv_nxt' = ISS + 1 /\ cl_state' = "ESTABLISHED"
      BY <1>4 DEF ClientOpens, DownInv, ClientNext
    <2>2. ClientNext' /\ Received'
      BY <1>2, <2>1, DownFields DEF DownInv, ClientNext, Received
    <2>3. BeforeConnected' /\ ServerSeq'
      BY <1>2, <2>1, DownFields DEF BeforeConnected, ServerSeq
    <2> QED
      BY <2>2, <2>3 DEF DownInv
  <1> QED
    BY <1>1, <1>3, <1>4, SynAckKeeps

\* The packets of the client
LEMMA ForwardDown ==
    ASSUME TypeInv, DownInv, ZdtunForward
    PROVE  DownInv'
  <1>1. pkt \in Segments
    BY ForwardType DEF ZdtunForward, FwdToClosed, FwdOpenError, FwdConnectError, FwdConnect,
           FwdConnected, FwdUrgent, FwdConnecting, FwdOutOfSequence, FwdRst, FwdFin,
           FwdKeepAlive, FwdAck, FwdAfterServerClosed
  <1>2. /\ pkt.seq \in Nat /\ pkt.len \in Nat /\ client_seq \in Nat
        /\ srv_read \in Nat /\ srv_read <= srv_sent
    BY <1>1, SegmentFields, DownFields DEF DownInv, Received
  <1>3. CASE FwdToClosed \/ FwdOpenError
    <2>1. status' \notin OpenStatuses /\ UNCHANGED clVars /\ UNCHANGED srvVars
      BY <1>3 DEF FwdToClosed, FwdOpenError, OpenStatuses
    <2> QED
      BY <2>1, NothingKeeps, KeptDown DEF srvVars
  <1>4. CASE FwdConnectError \/ FwdUrgent \/ FwdRst
    <2>1. PICK st \in ClosedStatuses : ConnClose(st)
      BY <1>4 DEF FwdConnectError, FwdUrgent, FwdRst, ClosedStatuses
    <2>2. st \notin OpenStatuses /\ UNCHANGED <<srv_sent, srv_read, srv_eof>>
      BY <1>4 DEF FwdConnectError, FwdUrgent, FwdRst, ClosedStatuses, OpenStatuses, srvVars
    <2> QED
      BY <2>1, <2>2, CloseDown
  <1>5. CASE FwdConnect
    <2>1. /\ status = "NEW" /\ status' = "CONNECTING" /\ zdtun_seq' = ISS
          /\ UNCHANGED clVars /\ UNCHANGED <<srv_sent, srv_read, srv_eof>>
      BY <1>5 DEF FwdConnect, Forward
    <2>2. ClientNext' /\ Received'
      BY <2>1 DEF DownInv, ClientNext, Received, clVars
    <2>3. BeforeConnected' /\ ServerSeq'
      BY <2>1 DEF DownInv, BeforeConnected, ServerSeq, clVars
    <2> QED
      BY <2>2, <2>3 DEF DownInv
  <1>6. CASE FwdConnected
    <2>1. status = "NEW" /\ UNCHANGED <<srv_sent, srv_read, srv_eof>>
      BY <1>6 DEF FwdConnected, Forward
    <2>2. CASE ClosedOnSendError
      BY <1>2, <2>1, <2>2, SendErrorDown
    <2>3. CASE /\ ClientGets([Reply({"SYN", "ACK"}, client_seq', 0) EXCEPT !.seq = ISS])
               /\ status' = "CONNECTED" /\ zdtun_seq' = ISS + 1 /\ sock' = TRUE
      <3> DEFINE seg == [Reply({"SYN", "ACK"}, client_seq', 0) EXCEPT !.seq = ISS]
      <3>1. seg.flags = {"SYN", "ACK"} /\ seg.seq = ISS
        BY DEF Reply
      <3> HIDE DEF seg
      <3> QED
        BY <2>1, <2>3, <3>1, OpensDown DEF seg
    <2> QED
      BY <1>6, <2>2, <2>3 DEF FwdConnected
  <1>7. CASE FwdConnecting \/ FwdOutOfSequence
    BY <1>7, NothingKeeps, KeptDown DEF FwdConnecting, FwdOutOfSequence, connVars, srvVars
  <1>8. CASE FwdFin
    <2>1. UNCHANGED <<srv, srv_sent, srv_read, srv_eof, zdtun_seq>>
      BY <1>8 DEF FwdFin
    <2>2. CASE ClosedOnSendError
      BY <1>2, <2>1, <2>2, SendErrorDown
    <2>3. CASE ClientGets(Reply({"ACK"}, client_seq', 0))
               /\ (UNCHANGED <<status, sock>> \/ Closed("CLOSED", 1))
      <3>1. client_seq' \in Nat
        BY <1>2, <1>8 DEF FwdFin
      <3>2. ClientKeeps
        BY <2>3, <3>1, EmptyReply
      <3> QED
        BY <2>1, <2>3, <3>2, KeptDown DEF Closed, OpenStatuses
    <2> QED
      BY <1>8, <2>2, <2>3 DEF FwdFin
  <1>9. CASE FwdKeepAlive \/ FwdAck
    <2>1. UNCHANGED <<zdtun_seq, srvVars>>
      BY <1>9 DEF FwdKeepAlive, FwdAck
    <2>2. CASE ClosedOnSendError
      BY <1>2, <2>1, <2>2, SendErrorDown DEF srvVars
    <2>3. CASE /\ UNCHANGED <<status, sock>>
               /\ UNCHANGED clVars \/ ClientGets(Reply({"ACK"}, client_seq, 0))
      <3>1. ClientKeeps
        BY <1>2, <2>3, EmptyReply, NothingKeeps
      <3> QED
        BY <2>1, <2>3, <3>1, KeptDown DEF srvVars
    <2> QED
      BY <1>9, <2>2, <2>3 DEF FwdKeepAlive, FwdAck
  <1>10. CASE FwdAfterServerClosed
    <2>1. UNCHANGED <<zdtun_seq, srvVars>>
      BY <1>10 DEF FwdAfterServerClosed
    <2>2. CASE ClosedOnSendError
      BY <1>2, <2>1, <2>2, SendErrorDown DEF srvVars
    <2>3. CASE /\ UNCHANGED <<status, sock>>
               /\ UNCHANGED clVars \/ ClientGets(Reply({"ACK"}, client_seq', 0))
      <3>1. client_seq' \in Nat
        BY <1>2, <1>10 DEF FwdAfterServerClosed
      <3>2. ClientKeeps
        BY <2>3, <3>1, EmptyReply, NothingKeeps
      <3> QED
        BY <2>1, <2>3, <3>2, KeptDown DEF srvVars
    <2> QED
      BY <1>10, <2>2, <2>3 DEF FwdAfterServerClosed
  <1> QED
    BY <1>3, <1>4, <1>5, <1>6, <1>7, <1>8, <1>9, <1>10 DEF ZdtunForward

\* A socket that is read belongs to an established connection, or its server has
\* not answered the connect.
LEMMA ReadConnected ==
    ASSUME TypeInv, LifeInv, DownInv, Handle("rd"), Avail > 0 \/ srv_eof
    PROVE  status = "CONNECTED" /\ sock /\ zdtun_seq = ISS + 1 + srv_read /\ ~cl_eof
  <1>1. sock /\ status \in {"CONNECTING", "CONNECTED"}
    BY DEF Handle, LifeInv, SelectedSocketsAreOpen
  <1>2. status # "CONNECTING"
    <2> SUFFICES ASSUME status = "CONNECTING" PROVE FALSE
      OBVIOUS
    <2>1. srv_sent = 0 /\ ~srv_eof
      BY DEF DownInv, BeforeConnected
    <2>2. srv_read = 0
      BY <2>1, DownFields DEF DownInv, Received
    <2> QED
      BY <2>1, <2>2 DEF Avail
  <1> QED
    BY <1>1, <1>2, DownFields DEF DownInv, ServerSeq

\* The end of the server's stream is forwarded.
LEMMA EofDown ==
    ASSUME TypeInv, LifeInv, DownInv, ReplyEof
    PROVE  DownInv'
  <1>1. /\ status = "CONNECTED" /\ sock /\ zdtun_seq = ISS + 1 + srv_read /\ ~cl_eof
        /\ client_seq \in Nat
    BY ReadConnected, DownFields DEF ReplyEof
  <1>2. UNCHANGED <<srv, srv_sent, srv_read, srv_eof>> /\ srv_read \in Nat /\ srv_read <= srv_sent
    BY DownFields DEF ReplyEof, srvVars, DownInv, Received
  <1>3. CASE ClosedOnSendError
    BY <1>1, <1>2, <1>3, SendErrorDown
  <1>4. CASE /\ ClientGets(Reply({"FIN", "ACK"}, client_seq, 0))
             /\ zdtun_seq' = zdtun_seq + 1
             /\ status' = "CLOSED" \/ status' = status
             /\ ~sock'
    <2> DEFINE seg == Reply({"FIN", "ACK"}, client_seq, 0)
    <2>1. seg \in Replies
      BY <1>1, ReplyType
    <2>2. seg.len = 0 /\ seg.flags = {"FIN", "ACK"} /\ seg.seq = zdtun_seq
      BY DEF Reply
    <2> HIDE DEF seg
    <2>3. BeforeConnected'
      BY <1>1, <1>4 DEF BeforeConnected
    <2>4. ServerSeq'
      BY <1>1, <1>2, <1>4, DownFields DEF ServerSeq
    <2>5. ClientNext' /\ Received'
      <3>1. CASE ClientTakes(seg)
        <4>1. toClient' = toClient /\ Accepted(seg) = 0
          BY <2>1, <2>2, <3>1, EmptyAccepted DEF ClientTakes, TypeInv
        <4>2. /\ cl_state' = "ESTABLISHED" /\ cl_state = "ESTABLISHED"
              /\ rcv_nxt' = rcv_nxt + (IF FinInOrder(seg) THEN 1 ELSE 0)
              /\ cl_eof' <=> FinInOrder(seg)
          <5>1. rcv_nxt + 0 = rcv_nxt
            BY DownFields
          <5>2. /\ rcv_nxt' = rcv_nxt + Accepted(seg) + (IF FinInOrder(seg) THEN 1 ELSE 0)
                /\ cl_eof' = (cl_eof \/ FinInOrder(seg))
                /\ cl_state' = cl_state /\ cl_state = "ESTABLISHED"
            BY <3>1 DEF ClientTakes, Acceptable
          <5> QED
            BY <1>1, <4>1, <5>1, <5>2
        <4>3. rcv_nxt = ISS + 1 + Len(toClient)
          BY <1>1, <4>2, DownFields DEF DownInv, ClientNext
        <4>4. rcv_nxt' = ISS + 1 + Len(toClient') + (IF cl_eof' THEN 1 ELSE 0)
          BY <4>1, <4>2, <4>3, DownFields
        <4>5. ClientNext'
          BY <4>2, <4>4 DEF ClientNext
        <4>6. Received'
          BY <1>2, <4>1 DEF DownInv, Received
        <4> QED
          BY <4>5, <4>6
      <3>2. CASE ClientDrops(seg)
        BY <1>2, <3>2 DEF ClientDrops, DownInv, ClientNext, Received
      <3>3. ~ClientOpens(seg) /\ ~ClientAborts(seg)
        BY <2>2 DEF ClientOpens, ClientAborts, AnswersSyn
      <3> QED
        BY <1>4, <3>1, <3>2, <3>3 DEF ClientGets, seg
    <2> QED
      BY <2>3, <2>4, <2>5 DEF DownInv
  <1> QED
    BY <1>1, <1>3, <1>4 DEF ReplyEof, Closed, CloseSocket

\* Bytes of the server are forwarded: what the client accepts of them follows
\* what it has.
LEMMA DataDown ==
    ASSUME TypeInv, LifeInv, DownInv, ReplyData
    PROVE  DownInv'
  <1>1. RecvLen \in Nat /\ RecvLen > 0 /\ RecvLen <= Avail /\ Avail > 0
    <2>1. RecvLen > 0
      BY DEF ReplyData
    <2>2. RecvLen \in Nat /\ RecvLen <= Avail
      BY <2>1, RecvLenType
    <2> QED
      BY <2>1, <2>2, DownFields DEF Avail
  <1>2. /\ status = "CONNECTED" /\ sock /\ zdtun_seq = ISS + 1 + srv_read /\ ~cl_eof
        /\ client_seq \in Nat
    BY <1>1, ReadConnected, DownFields DEF ReplyData
  <1>3. /\ UNCHANGED <<srv, srv_sent, srv_eof>> /\ srv_read' = srv_read + RecvLen
        /\ srv_read' \in Nat /\ srv_read <= srv_read' /\ srv_read' <= srv_sent
    <2>1. UNCHANGED <<srv, srv_sent, srv_eof>> /\ srv_read' = srv_read + RecvLen
      BY DEF ReplyData
    <2>2. RecvLen <= srv_sent - srv_read
      BY <1>1 DEF Avail
    <2> QED
      BY <1>1, <2>1, <2>2, DownFields
  <1>4. CASE ClosedOnSendError
    BY <1>2, <1>3, <1>4, SendErrorDown
  <1>5. CASE /\ ClientGets(Reply({"ACK"}, client_seq, RecvLen))
             /\ zdtun_seq' = zdtun_seq + RecvLen
             /\ UNCHANGED <<status, sock>>
    <2> DEFINE seg == Reply({"ACK"}, client_seq, RecvLen)
               n == Accepted(seg)
    <2>1. /\ seg.len = RecvLen /\ seg.flags = {"ACK"} /\ seg.seq = zdtun_seq
          /\ seg.first = srv_read + 1
      BY DEF Reply
    <2> HIDE DEF seg
    <2>2. BeforeConnected'
      BY <1>2, <1>5 DEF BeforeConnected
    <2>3. /\ n \in Nat /\ n <= RecvLen /\ (n > 0 => zdtun_seq = rcv_nxt)
      BY <1>1, <2>1, DownFields DEF Accepted, MinOf
    <2>7. zdtun_seq' = ISS + 1 + srv_read' + 0
      <3>1. /\ zdtun_seq' = zdtun_seq + RecvLen /\ srv_read' = srv_read + RecvLen
            /\ zdtun_seq = ISS + 1 + srv_read /\ RecvLen \in Nat
        BY <1>1, <1>2, <1>3, <1>5
      <3>2. ISS \in Nat /\ srv_read \in Nat
        BY DownFields
      <3> HIDE DEF seg, n
      <3> QED
        BY <3>1, <3>2
    <2>4. CASE ClientTakes(seg)
      <3>0. ~FinInOrder(seg)
        BY <2>1 DEF FinInOrder
      <3>1. /\ cl_state' = "ESTABLISHED" /\ cl_state = "ESTABLISHED"
            /\ rcv_nxt' = rcv_nxt + n
            /\ ~cl_eof'
            /\ toClient' = toClient \o Bytes(seg.first, seg.first + n - 1)
        BY <1>2, <2>3, <2>4, <3>0, DownFields, SMTT(40) DEF ClientTakes, Acceptable
      <3>2. rcv_nxt = ISS + 1 + Len(toClient)
        BY <1>2, <3>1, DownFields DEF DownInv, ClientNext
      <3> HIDE DEF n
      <3>3. /\ Len(toClient') = Len(toClient) + n
            /\ \A k \in 1..Len(toClient') : toClient'[k] = k
            /\ Len(toClient') <= srv_read'
        <4>1. CASE n = 0
          <5>1. Bytes(seg.first, seg.first + n - 1) = <<>>
            <6>1. seg.first \in Nat /\ seg.first + n - 1 \in Int /\ seg.first + n - 1 >= seg.first - 1
                  /\ (seg.first + n - 1) - seg.first + 1 = 0
              BY <2>1, <4>1, DownFields, SMTT(40)
            <6>2. Bytes(seg.first, seg.first + n - 1) \in Seq(Nat)
              BY <6>1, BytesType
            <6>3. Len(Bytes(seg.first, seg.first + n - 1)) = 0
              BY <6>1, BytesLen
            <6> QED
              BY <6>2, <6>3, EmptySeq
          <5>2. toClient' = toClient
            BY <3>1, <5>1, DownFields, ConcatEmptySeq
          <5> QED
            BY <1>1, <1>3, <4>1, <5>2, DownFields DEF DownInv, Received
        <4>2. CASE n > 0
          <5>1. Len(toClient) = srv_read
            BY <1>2, <2>3, <3>2, <4>2, DownFields
          <5>2. seg.first = Len(toClient) + 1 /\ seg.first + n - 1 = Len(toClient) + n
            BY <2>1, <2>3, <5>1, DownFields
          <5>3. toClient' = toClient \o Bytes(Len(toClient) + 1, Len(toClient) + n)
            BY <3>1, <5>2
          <5>4. Len(toClient') = Len(toClient) + n /\ \A k \in 1..Len(toClient') : toClient'[k] = k
            BY <2>3, <5>3, MoreReceived DEF DownInv
          <5> QED
            BY <1>1, <1>3, <2>3, <5>1, <5>4, DownFields, SMTT(40)
        <4> QED
          BY <2>3, <4>1, <4>2
      <3>4. ClientNext'
        <4>1. rcv_nxt' = ISS + 1 + Len(toClient') + 0
          <5>1. /\ rcv_nxt' = rcv_nxt + n /\ rcv_nxt = ISS + 1 + Len(toClient)
                /\ Len(toClient') = Len(toClient) + n /\ n \in Nat
            BY <2>3, <3>1, <3>2, <3>3
          <5>2. ISS \in Nat /\ Len(toClient) \in Nat
            BY DownFields
          <5> QED
            BY <5>1, <5>2
        <4> QED
          BY <3>1, <4>1 DEF ClientNext
      <3>5. Received'
        BY <1>3, <3>3 DEF Received
      <3>6. ServerSeq'
        BY <1>2, <1>5, <2>7, <3>1 DEF ServerSeq
      <3> QED
        BY <2>2, <3>4, <3>5, <3>6 DEF DownInv
    <2>5. CASE ClientDrops(seg)
      <3>1. ClientNext'
        BY <2>5 DEF ClientDrops, DownInv, ClientNext
      <3>2. Received'
        BY <1>3, <2>5, DownFields DEF ClientDrops, DownInv, Received
      <3>3. ServerSeq'
        BY <1>2, <1>5, <2>5, <2>7 DEF ClientDrops, ServerSeq
      <3> QED
        BY <2>2, <3>1, <3>2, <3>3 DEF DownInv
    <2>6. ~ClientOpens(seg) /\ ~ClientAborts(seg)
      BY <2>1 DEF ClientOpens, ClientAborts, AnswersSyn
    <2> QED
      BY <1>5, <2>4, <2>5, <2>6 DEF ClientGets, seg
  <1> QED
    BY <1>4, <1>5 DEF ReplyData

\* The events of the socket
LEMMA HandleDown ==
    ASSUME TypeInv, LifeInv, DownInv, ZdtunHandleFd
    PROVE  DownInv'
  <1>1. client_seq \in Nat /\ srv_read \in Nat /\ srv_read <= srv_sent
    BY DownFields DEF DownInv, Received
  <1>2. CASE ReplyError \/ ConnectAsyncError \/ SendQueuedError
    <2>1. ConnClose(SocketErrorStatus) /\ UNCHANGED <<srv_sent, srv_read, srv_eof>>
      BY <1>2 DEF ReplyError, ConnectAsyncError, SendQueuedError, srvVars
    <2>2. SocketErrorStatus \notin OpenStatuses
      BY DEF SocketErrorStatus, OpenStatuses
    <2> QED
      BY <2>1, <2>2, CloseDown
  <1>3. CASE ConnectAsync
    <2>1. ready = "wr" /\ tx_queue = <<>> /\ UNCHANGED srvVars
      BY <1>3 DEF ConnectAsync, Handle
    <2>2. sock /\ write_fds
      BY <2>1 DEF LifeInv
    <2>3. status = "CONNECTING"
      BY <2>1, <2>2 DEF LifeInv, SelectedSocketsAreOpen, WriteSetMatchesWork
    <2>4. zdtun_seq = ISS
      BY <2>3 DEF DownInv, BeforeConnected
    <2>5. CASE ClosedOnSendError
      BY <1>1, <2>1, <2>5, SendErrorDown DEF srvVars
    <2>6. CASE /\ ClientGets(Reply({"SYN", "ACK"}, client_seq, 0))
               /\ status' = "CONNECTED" /\ zdtun_seq' = zdtun_seq + 1 /\ UNCHANGED sock
      <3> DEFINE seg == Reply({"SYN", "ACK"}, client_seq, 0)
      <3>1. seg.flags = {"SYN", "ACK"} /\ seg.seq = ISS
        BY <2>4 DEF Reply
      <3>2. sock' = TRUE
        BY <2>2, <2>6, DownFields
      <3> HIDE DEF seg
      <3> QED
        BY <1>1, <2>1, <2>3, <2>4, <2>6, <3>1, <3>2, OpensDown DEF seg, srvVars
    <2> QED
      BY <1>3, <2>5, <2>6 DEF ConnectAsync
  <1>4. CASE SendQueued
    <2>1. UNCHANGED <<zdtun_seq, srv, srv_sent, srv_read, srv_eof>>
      BY <1>4 DEF SendQueued
    <2>2. CASE ClosedOnSendError
      BY <1>1, <2>1, <2>2, SendErrorDown
    <2>3. CASE /\ UNCHANGED <<status, sock>>
               /\ UNCHANGED clVars \/ ClientGets(Reply({"ACK"}, client_seq', 0))
      <3>1. client_seq' \in Nat
        BY <1>1, <1>4 DEF SendQueued, Taken
      <3>2. ClientKeeps
        BY <2>3, <3>1, EmptyReply, NothingKeeps
      <3> QED
        BY <2>1, <2>3, <3>2, KeptDown
    <2> QED
      BY <1>4, <2>2, <2>3 DEF SendQueued
  <1> QED
    BY <1>2, <1>3, <1>4, EofDown, DataDown DEF ZdtunHandleFd

LEMMA PurgeDown ==
    ASSUME TypeInv, DownInv, ZdtunPurge
    PROVE  DownInv'
  <1>1. UNCHANGED srvVars
    BY DEF ZdtunPurge, PurgeClosed, PurgeIdle, Finalize
  <1>2. CASE PurgeIdle
    <2>1. ConnClose("GONE") /\ "GONE" \notin OpenStatuses
      BY <1>2 DEF PurgeIdle, OpenStatuses
    <2> QED
      BY <1>1, <2>1, CloseDown DEF srvVars
  <1>3. CASE PurgeClosed \/ Finalize
    <2>1. /\ UNCHANGED clVars
          /\ status' \notin OpenStatuses \/ UNCHANGED <<status, sock, zdtun_seq, srv>>
      BY <1>1, <1>3 DEF PurgeClosed, Finalize, Closed, OpenStatuses, srvVars
    <2> QED
      BY <1>1, <2>1, NothingKeeps, KeptDown DEF srvVars
  <1> QED
    BY <1>2, <1>3 DEF ZdtunPurge

LEMMA DownStep ==
    ASSUME TypeInv, LifeInv, DownInv, [Next]_vars, "early_server" \notin Allow
    PROVE  DownInv'
  BY EndsDown, ForwardDown, HandleDown, PurgeDown DEF Next

LEMMA DownInvariant ==
    ASSUME "early_server" \notin Allow
    PROVE  Spec => []DownInv
  <1>1. Init => DownInv
    <2> SUFFICES ASSUME Init PROVE DownInv
      OBVIOUS
    <2>1. Len(<<>>) = 0
      BY EmptySeq
    <2>2. Received
      BY <2>1 DEF Init, Received
    <2> QED
      BY <2>2 DEF Init, DownInv, BeforeConnected, ServerSeq, ClientNext
  <1>2. TypeInv /\ LifeInv /\ DownInv /\ [Next]_vars => DownInv'
    BY DownStep
  <1> QED
    BY <1>1, <1>2, LifeInvariant, PTL DEF Spec

\* handle_tcp_reply forwards what it reads once, in order and without a hole: the
\* client never accepts a byte of the server that does not follow what it has,
\* whatever it acknowledges, resets or leaves unread, as long as the server does
\* not talk before zdtun has noticed the connect.
THEOREM DownstreamCorrect ==
    ASSUME "early_server" \notin Allow
    PROVE  Spec => []DownstreamIsPrefix
  <1>1. TypeInv /\ DownInv => DownstreamIsPrefix
    BY ReceivedIsPrefix DEF DownInv
  <1> QED
    BY <1>1, DownInvariant, LifeInvariant, PTL
-----------------------------------------------------------------------------
(***************************************************************************)
(* Arithmetic modulo SeqMod: the bytes in flight are computed right across *)
(* the wrap of the sequence numbers.                                       *)
(***************************************************************************)
LEMMA ModFacts ==
    ASSUME NEW m \in Nat \ {0}, NEW x \in Nat
    PROVE  /\ (x % m) \in 0..(m - 1) /\ (x \div m) \in Nat
           /\ x = m * (x \div m) + (x % m)
           /\ x < m => (x % m) = x
  OBVIOUS

\* Two numbers less than m apart lie in the same multiple of m, or in adjacent ones.
LEMMA NearQuotients ==
    ASSUME NEW m \in Nat \ {0}, NEW p \in Nat, NEW q \in Nat,
           NEW r \in 0..(m - 1), NEW t \in 0..(m - 1),
           m * q + t <= m * p + r, (m * p + r) - (m * q + t) < m
    PROVE  p = q \/ p = q + 1
  <1>1. (p - q) * m > 0 - m /\ (p - q) * m < 2 * m
    OBVIOUS
  <1>2. CASE p >= q + 2
    <2>1. PICK k \in Nat : p - q = 2 + k
      BY <1>2
    <2>2. (p - q) * m = 2 * m + k * m
      BY <2>1
    <2>3. k * m >= 0
      OBVIOUS
    <2> QED
      BY <1>1, <2>2, <2>3
  <1>3. CASE p < q
    <2>1. PICK k \in Nat : q - p = 1 + k
      BY <1>3
    <2>2. (p - q) * m = 0 - (m + k * m)
      BY <2>1
    <2>3. k * m >= 0
      OBVIOUS
    <2> QED
      BY <1>1, <2>2, <2>3
  <1> QED
    BY <1>2, <1>3

\* handle_tcp_fwd computes the bytes in flight from two 32-bit sequence numbers.
LEMMA InFlightExact ==
    ASSUME NEW seq \in Nat, NEW ack \in Nat, ack <= seq, seq - ack < SeqMod
    PROVE  InFlight(seq, ack) = seq - ack
  <1> DEFINE p == seq \div SeqMod
             q == ack \div SeqMod
             r == seq % SeqMod
             t == ack % SeqMod
  <1>1. SeqMod \in Nat \ {0}
    BY ConstantsAssumption
  <1>2. p \in Nat /\ r \in 0..(SeqMod - 1) /\ seq = SeqMod * p + r
    BY <1>1, ModFacts
  <1>3. q \in Nat /\ t \in 0..(SeqMod - 1) /\ ack = SeqMod * q + t
    BY <1>1, ModFacts
  <1>4. InFlight(seq, ack) = IF r >= t THEN r - t ELSE SeqMod - 1 - t + r + 1
    BY DEF InFlight
  <1> HIDE DEF p, q, r, t
  <1>5. p = q \/ p = q + 1
    BY <1>1, <1>2, <1>3, NearQuotients
  <1>6. CASE p = q
    <2>1. seq - ack = r - t
      BY <1>1, <1>2, <1>3, <1>6
    <2>2. r >= t
      BY <1>2, <1>3, <2>1
    <2> QED
      BY <1>4, <2>1, <2>2
  <1>7. CASE p = q + 1
    <2>1. SeqMod * p = SeqMod * q + SeqMod
      BY <1>1, <1>3, <1>7
    <2>2. SeqMod * q \in Nat
      BY <1>1, <1>3
    <2>3. seq - ack = SeqMod + r - t
      BY <1>1, <1>2, <1>3, <2>1, <2>2
    <2>4. r < t
      BY <1>1, <1>2, <1>3, <2>3
    <2>5. InFlight(seq, ack) = SeqMod - 1 - t + r + 1
      BY <1>2, <1>3, <1>4, <2>4
    <2> QED
      BY <1>1, <1>2, <1>3, <2>3, <2>5
  <1> QED
    BY <1>5, <1>6, <1>7

\* The window after an ACK: the room the client has advertised past the ACK,
\* less what is in flight.
LEMMA WindowExact ==
    ASSUME NEW seq \in Nat, NEW ack \in Nat, NEW win \in Nat, WinUnit = 1,
           ack <= seq, seq <= ack + win, win < SeqMod
    PROVE  (win * WinUnit - InFlight(seq, ack)) % SeqMod = ack + win - seq
  <1>1. SeqMod \in Nat \ {0} /\ seq - ack < SeqMod
    BY ConstantsAssumption
  <1>2. InFlight(seq, ack) = seq - ack
    BY <1>1, InFlightExact
  <1>3. win * WinUnit - InFlight(seq, ack) = ack + win - seq
    BY <1>2
  <1>4. ack + win - seq \in Nat /\ ack + win - seq < SeqMod
    BY <1>1
  <1> QED
    BY <1>1, <1>3, <1>4, ModFacts
-----------------------------------------------------------------------------
(***************************************************************************)
(* The window of the client, when its windows are not scaled (zdtun takes  *)
(* the window of the SYN for scaled too) and its buffer is smaller than    *)
(* the space of sequence numbers.                                          *)
(***************************************************************************)
\* A segment that may update window_size, and the sequence number up to which it
\* lets zdtun send
Update(seg) == seg.seq >= 1 /\ "RST" \notin seg.flags
Edge(seg)   == seg.ack + seg.win

ClientEdge == rcv_nxt + (RcvBuf - rcv_used)

\* The first packet is the SYN, with the whole buffer of the client.
FirstWindow ==
    status = "NEW" =>
        /\ cl_state = "CLOSED" => tun = <<>>
        /\ cl_state # "CLOSED" => tun # <<>> /\ tun[1].win = RcvBuf

\* There is no update of a window before the connection is established.
NoUpdates ==
    /\ cl_state \in {"CLOSED", "SYN_SENT"} \/ status \in {"NEW", "CONNECTING"} =>
          \A i \in 1..Len(tun) : ~Update(tun[i])
    /\ cl_state \in {"CLOSED", "SYN_SENT"} => rcv_used = 0
    /\ status \in {"NEW", "CONNECTING"} => cl_state # "ESTABLISHED"
    /\ status = "CONNECTING" => window_size <= RcvBuf

\* What is sent and may be sent lies within every update on its way ...
UpdatesAllow ==
    status = "CONNECTED" /\ sock =>
        \A i \in 1..Len(tun) : Update(tun[i]) =>
            /\ tun[i].ack <= zdtun_seq /\ tun[i].win <= RcvBuf
            /\ zdtun_seq + window_size <= Edge(tun[i])

\* ... and these never shrink.
EdgesGrow ==
    \A i \in 1..Len(tun) : Update(tun[i]) =>
        /\ cl_state = "ESTABLISHED" => Edge(tun[i]) <= ClientEdge
        /\ \A j \in i..Len(tun) : Update(tun[j]) => Edge(tun[i]) <= Edge(tun[j])

ClientAllows ==
    status = "CONNECTED" /\ sock /\ cl_state = "ESTABLISHED" =>
        rcv_nxt <= zdtun_seq /\ zdtun_seq + window_size <= ClientEdge

\* A socket is selected for reading only when the client has room.
RoomToRead == sock /\ (all_fds \/ ready = "rd") => window_size > 0

PastSyn == sock => client_seq >= 1

WinInv == /\ FirstWindow /\ NoUpdates /\ UpdatesAllow /\ EdgesGrow /\ ClientAllows
          /\ RoomToRead /\ PastSyn

LEMMA EdgeType ==
    ASSUME NEW next \in Nat, NEW used \in Nat, used <= RcvBuf
    PROVE  next + (RcvBuf - used) \in Nat
  BY ConstantsAssumption

LEMMA WinFields ==
    ASSUME TypeInv
    PROVE  /\ tun \in Seq(Segments) /\ Len(tun) \in Nat
           /\ \A i \in 1..Len(tun) : /\ tun[i].seq \in Nat /\ tun[i].ack \in Nat
                                     /\ tun[i].win \in Nat /\ Edge(tun[i]) \in Nat
           /\ RcvBuf \in Nat /\ rcv_used \in Nat /\ rcv_used <= RcvBuf
           /\ rcv_nxt \in Nat /\ ClientEdge \in Nat
           /\ zdtun_seq \in Nat /\ window_size \in Nat /\ client_seq \in Nat
  <1>1. tun \in Seq(Segments) /\ Len(tun) \in Nat
    BY TunFields
  <1>2. \A i \in 1..Len(tun) : tun[i] \in Segments
    BY <1>1, ElementOfSeq
  <1>3. /\ RcvBuf \in Nat /\ rcv_used \in Nat /\ rcv_used <= RcvBuf /\ rcv_nxt \in Nat
        /\ zdtun_seq \in Nat /\ window_size \in Nat /\ client_seq \in Nat
    BY DownFields
  <1>4. ClientEdge \in Nat
    BY <1>3, EdgeType DEF ClientEdge
  <1> QED
    BY <1>1, <1>2, <1>3, <1>4, SegmentFields DEF Edge

\* What the client has room for grows, or the client is gone.
ClientGrows ==
    /\ cl_state' \in {cl_state, "RESET"}
    /\ cl_state' \in {"CLOSED", "SYN_SENT"} => rcv_used' = rcv_used
    /\ cl_state' = "ESTABLISHED" => ClientEdge <= ClientEdge'

LEMMA KeepsGrows ==
    ASSUME TypeInv, ClientKeeps
    PROVE  ClientGrows
  BY WinFields DEF ClientKeeps, ClientGrows, ClientEdge

\* The parts that speak of the TUN queue and of the client only
LEMMA ShrunkEdges ==
    ASSUME TypeInv, WinInv, TunShrinks, ClientGrows, ClientEdge' \in Nat
    PROVE  /\ EdgesGrow'
           /\ (\A i \in 1..Len(tun) : ~Update(tun[i])) => \A i \in 1..Len(tun') : ~Update(tun'[i])
  <1>1. PICK d \in {0, 1} : /\ Len(tun') = Len(tun) - d
                            /\ \A i \in 1..Len(tun') : i + d \in 1..Len(tun) /\ tun'[i] = tun[i + d]
    BY Shrunk
  <1>2. ASSUME NEW i \in 1..Len(tun'), Update(tun'[i])
        PROVE  /\ cl_state' = "ESTABLISHED" => Edge(tun'[i]) <= ClientEdge'
               /\ \A j \in i..Len(tun') : Update(tun'[j]) => Edge(tun'[i]) <= Edge(tun'[j])
    <2>1. /\ i + d \in 1..Len(tun) /\ tun'[i] = tun[i + d] /\ Update(tun[i + d])
          /\ Edge(tun[i + d]) \in Nat /\ ClientEdge \in Nat
      BY <1>1, <1>2, WinFields
    <2>2. /\ cl_state = "ESTABLISHED" => Edge(tun[i + d]) <= ClientEdge
          /\ \A j \in (i + d)..Len(tun) : Update(tun[j]) => Edge(tun[i + d]) <= Edge(tun[j])
      BY <2>1 DEF WinInv, EdgesGrow
    <2>3. cl_state' = "ESTABLISHED" => Edge(tun'[i]) <= ClientEdge'
      BY <2>1, <2>2 DEF ClientGrows
    <2>4. ASSUME NEW j \in i..Len(tun'), Update(tun'[j])
          PROVE  Edge(tun'[i]) <= Edge(tun'[j])
      <3>1. j \in 1..Len(tun') /\ j + d \in (i + d)..Len(tun)
        BY <1>1, WinFields, SMTT(40)
      <3>2. tun'[j] = tun[j + d]
        BY <1>1, <3>1
      <3> QED
        BY <2>1, <2>2, <2>4, <3>1, <3>2
    <2> QED
      BY <2>3, <2>4
  <1>3. ASSUME \A i \in 1..Len(tun) : ~Update(tun[i]), NEW i \in 1..Len(tun')
        PROVE  ~Update(tun'[i])
    BY <1>1, <1>3
  <1> QED
    BY <1>2, <1>3 DEF EdgesGrow

\* A packet is taken from the TUN queue or an event is handled, and the
\* connection closes or goes on with the same window.
LEMMA KeptWin ==
    ASSUME TypeInv, TypeInv', WinInv, TunShrinks, ClientGrows, ready' # "rd",
           status' = "NEW" => status = "NEW" /\ UNCHANGED <<tun, cl_state>>,
           status' = "CONNECTING" => status = "CONNECTING" /\ window_size' = window_size,
           \/ ~sock'
           \/ /\ ClientKeeps
              /\ UNCHANGED <<status, sock, zdtun_seq, window_size, all_fds>>
              /\ client_seq' >= client_seq
    PROVE  WinInv'
  <1>1. EdgesGrow' /\ ((\A i \in 1..Len(tun) : ~Update(tun[i])) => \A i \in 1..Len(tun') : ~Update(tun'[i]))
    <2>1. RcvBuf \in Nat /\ rcv_used' \in Nat /\ rcv_used' <= RcvBuf /\ rcv_nxt' \in Nat
      BY WinFields DEF TypeInv, ClientInv, ClientTypeOK
    <2>2. ClientEdge' \in Nat
      BY <2>1, EdgeType DEF ClientEdge
    <2> QED
      BY <2>2, ShrunkEdges
  <1>2. NoUpdates'
    BY <1>1 DEF WinInv, NoUpdates, ClientGrows
  <1>3. FirstWindow'
    BY DEF WinInv, FirstWindow
  <1>4. CASE ~sock'
    BY <1>1, <1>2, <1>3, <1>4 DEF WinInv, UpdatesAllow, ClientAllows, RoomToRead, PastSyn
  <1>5. CASE /\ ClientKeeps
             /\ UNCHANGED <<status, sock, zdtun_seq, window_size, all_fds>>
             /\ client_seq' >= client_seq
    <2>1. UpdatesAllow'
      <3> SUFFICES ASSUME status = "CONNECTED", sock, NEW i \in 1..Len(tun'), Update(tun'[i])
                   PROVE  /\ tun'[i].ack <= zdtun_seq /\ tun'[i].win <= RcvBuf
                          /\ zdtun_seq + window_size <= Edge(tun'[i])
        BY <1>5 DEF UpdatesAllow
      <3>1. PICK d \in {0, 1} : i + d \in 1..Len(tun) /\ tun'[i] = tun[i + d]
        BY Shrunk
      <3> QED
        BY <3>1 DEF WinInv, UpdatesAllow
    <2>2. ClientAllows'
      BY <1>5 DEF WinInv, ClientAllows, ClientKeeps, ClientEdge
    <2>3. RoomToRead'
      BY <1>5 DEF WinInv, RoomToRead
    <2>4. PastSyn'
      <3>1. client_seq \in Nat /\ client_seq' \in Nat
        BY WinFields, ConnFields DEF TypeInv, ConnInv, ConnTypeOK
      <3> QED
        BY <1>5, <3>1 DEF WinInv, PastSyn
    <2> QED
      BY <1>1, <1>2, <1>3, <2>1, <2>2, <2>3, <2>4 DEF WinInv
  <1> QED
    BY <1>4, <1>5

LEMMA WindowUnscaled ==
    ASSUME NEW used \in Nat, used <= RcvBuf, WinUnit = 1
    PROVE  Window(used) = RcvBuf - used
  <1>1. RcvBuf - used \in Nat
    BY ConstantsAssumption
  <1> QED
    BY <1>1 DEF Window

\* The client puts one more segment on the TUN queue: it is no update, or it is
\* one that lets zdtun send as far as the client has room.
LEMMA SendWin ==
    ASSUME TypeInv, WinInv, UNCHANGED connVars, UNCHANGED <<ready, rcv_nxt, rcv_used>>,
           NEW seg \in Segments, Send(seg),
           \/ ~Update(seg)
           \/ cl_state = "ESTABLISHED" /\ Edge(seg) = ClientEdge /\ seg.win <= RcvBuf /\ seg.ack = rcv_nxt,
           \/ cl_state' \in {cl_state, "RESET"} /\ cl_state # "CLOSED"
           \/ cl_state = "CLOSED" /\ cl_state' = "SYN_SENT" /\ seg.win = RcvBuf
    PROVE  WinInv'
  <1>1. /\ tun' \in Seq(Segments) /\ Len(tun') = Len(tun) + 1
        /\ \A i \in 1..Len(tun) : tun'[i] = tun[i]
        /\ tun'[Len(tun) + 1] = seg
    BY WinFields DEF Send
  <1>2. /\ Len(tun) \in Nat /\ ClientEdge \in Nat /\ UNCHANGED ClientEdge
        /\ UNCHANGED <<status, sock, zdtun_seq, window_size, all_fds, client_seq>>
    BY WinFields DEF ClientEdge, connVars
  <1>3. RoomToRead' /\ PastSyn'
    BY <1>2 DEF WinInv, RoomToRead, PastSyn
  <1>4. ClientAllows'
    BY <1>2 DEF WinInv, ClientAllows
  <1>5. FirstWindow'
    <2> SUFFICES ASSUME status = "NEW"
                 PROVE  cl_state' # "CLOSED" /\ tun' # <<>> /\ tun'[1].win = RcvBuf
      BY <1>2 DEF FirstWindow
    <2>1. tun' # <<>>
      BY <1>1, <1>2, EmptySeq
    <2>2. CASE cl_state = "CLOSED"
      <3>1. Len(tun) = 0
        BY <2>2, EmptySeq DEF WinInv, FirstWindow
      <3> QED
        BY <1>1, <2>1, <2>2, <3>1
    <2>3. CASE cl_state # "CLOSED"
      <3>1. tun # <<>> /\ tun[1].win = RcvBuf
        BY <2>3 DEF WinInv, FirstWindow
      <3>2. 1 \in 1..Len(tun)
        BY <1>2, <3>1, WinFields, EmptySeq
      <3> QED
        BY <1>1, <2>1, <2>3, <3>1, <3>2
    <2> QED
      BY <2>2, <2>3
  <1>6. NoUpdates'
    <2>1. ASSUME cl_state' = "SYN_SENT" \/ status \in {"NEW", "CONNECTING"}, NEW i \in 1..Len(tun')
          PROVE  ~Update(tun'[i])
      <3>1. cl_state \in {"CLOSED", "SYN_SENT"} \/ status \in {"NEW", "CONNECTING"}
        BY <2>1
      <3>2. ~Update(seg)
        BY <3>1 DEF WinInv, NoUpdates
      <3>3. i \in 1..Len(tun) \/ i = Len(tun) + 1
        BY <1>1, <1>2
      <3> QED
        BY <1>1, <3>1, <3>2, <3>3 DEF WinInv, NoUpdates
    <2> QED
      BY <1>2, <2>1 DEF WinInv, NoUpdates
  <1>7. UpdatesAllow'
    <2> SUFFICES ASSUME status = "CONNECTED", sock, NEW i \in 1..Len(tun'), Update(tun'[i])
                 PROVE  /\ tun'[i].ack <= zdtun_seq /\ tun'[i].win <= RcvBuf
                        /\ zdtun_seq + window_size <= Edge(tun'[i])
      BY <1>2 DEF UpdatesAllow
    <2>1. CASE i \in 1..Len(tun)
      BY <1>1, <2>1 DEF WinInv, UpdatesAllow
    <2>2. CASE i = Len(tun) + 1
      BY <1>1, <2>2 DEF WinInv, ClientAllows
    <2> QED
      BY <1>1, <1>2, <2>1, <2>2
  <1>8. EdgesGrow'
    <2> SUFFICES ASSUME NEW i \in 1..Len(tun'), Update(tun'[i])
                 PROVE  /\ cl_state' = "ESTABLISHED" => Edge(tun'[i]) <= ClientEdge
                        /\ \A j \in i..Len(tun') : Update(tun'[j]) => Edge(tun'[i]) <= Edge(tun'[j])
      BY <1>2 DEF EdgesGrow
    <2>1. CASE i = Len(tun) + 1
      <3>1. Edge(tun'[i]) = ClientEdge /\ \A j \in i..Len(tun') : j = i
        BY <1>1, <1>2, <2>1
      <3> QED
        BY <1>2, <3>1
    <2>2. CASE i \in 1..Len(tun)
      <3>1. /\ tun'[i] = tun[i]
            /\ cl_state = "ESTABLISHED" => Edge(tun[i]) <= ClientEdge
            /\ \A j \in i..Len(tun) : Update(tun[j]) => Edge(tun[i]) <= Edge(tun[j])
        BY <1>1, <2>2 DEF WinInv, EdgesGrow
      <3>2. ASSUME NEW j \in i..Len(tun'), Update(tun'[j]) PROVE Edge(tun'[i]) <= Edge(tun'[j])
        <4>1. CASE j = Len(tun) + 1
          BY <1>1, <3>1, <3>2, <4>1
        <4>2. CASE j \in i..Len(tun)
          <5>1. j \in 1..Len(tun)
            BY <2>2, <4>2
          <5> QED
            BY <1>1, <3>1, <3>2, <4>2, <5>1
        <4> QED
          BY <1>1, <1>2, <2>2, <4>1, <4>2
      <3>3. cl_state' = "ESTABLISHED" => cl_state = "ESTABLISHED"
        OBVIOUS
      <3> QED
        BY <3>1, <3>2, <3>3
    <2> QED
      BY <1>1, <1>2, <2>1, <2>2
  <1> QED
    BY <1>3, <1>4, <1>5, <1>6, <1>7, <1>8 DEF WinInv

\* A segment of an open client lets zdtun send as far as the client has room.
LEMMA SegmentEdge ==
    ASSUME TypeInv, WinUnit = 1,
           NEW flags \in SUBSET {"SYN", "ACK", "FIN", "RST", "URG"},
           NEW seq \in Nat, NEW len \in Nat
    PROVE  /\ Segment(flags, seq, len) \in Segments
           /\ Segment(flags, seq, len).flags = flags
           /\ Edge(Segment(flags, seq, len)) = ClientEdge
           /\ Segment(flags, seq, len).win <= RcvBuf
           /\ Segment(flags, seq, len).ack = rcv_nxt
  <1>1. Segment(flags, seq, len) \in Segments
    BY SegmentType DEF TypeInv
  <1>2. Window(rcv_used) = RcvBuf - rcv_used /\ RcvBuf - rcv_used <= RcvBuf
    BY WindowUnscaled, WinFields
  <1> QED
    BY <1>1, <1>2 DEF Segment, Edge, ClientEdge

LEMMA ClientWin ==
    ASSUME TypeInv, WinInv, Client, WinUnit = 1
    PROVE  WinInv'
  <1>0. /\ UNCHANGED connVars /\ ready' = ready /\ rcv_nxt' = rcv_nxt
        /\ snd_nxt \in Nat /\ snd_una \in Nat
    BY DEF Client, ClientConnect, ClientSend, ClientFin, ClientAck, ClientRead,
           ClientReset, ClientRefuses, ClientKeepAlive, ClientRetransmit,
           TypeInv, ClientInv, ClientTypeOK
  <1> DEFINE syn == [flags |-> {"SYN"}, seq |-> 0, len |-> 0, ack |-> 0, win |-> RcvBuf]
  <1>1. syn \in Segments /\ syn.win = RcvBuf /\ ~Update(syn)
    BY ConstantsAssumption DEF Segments, Update
  <1> HIDE DEF syn
  <1>2. ASSUME cl_state = "ESTABLISHED", UNCHANGED <<cl_state, rcv_used>>,
               NEW flags \in SUBSET {"SYN", "ACK", "FIN", "RST", "URG"},
               NEW seq \in Nat, NEW len \in Nat, Send(Segment(flags, seq, len))
        PROVE  WinInv'
    <2>1. cl_state' \in {cl_state, "RESET"} /\ cl_state # "CLOSED"
      BY <1>2
    <2> QED
      BY <1>0, <1>2, <2>1, SegmentEdge, SendWin
  <1>3. ASSUME cl_state \in {"SYN_SENT", "ESTABLISHED", "RESET"}, cl_state' = "RESET",
               rcv_used' = rcv_used,
               NEW flags \in {{"RST"}, {"RST", "ACK"}}, NEW seq \in Nat,
               Send(Segment(flags, seq, 0))
        PROVE  WinInv'
    <2>1. Segment(flags, seq, 0) \in Segments /\ ~Update(Segment(flags, seq, 0))
      BY SegmentEdge DEF Update
    <2> QED
      BY <1>0, <1>3, <2>1, SendWin
  <1>4. CASE ClientConnect
    BY <1>0, <1>1, <1>4, SendWin DEF ClientConnect, syn
  <1>5. CASE ClientSend
    <2>1. PICK n \in 1..SegMax, urg \in {{}, {"URG"}} :
            /\ Send(Segment({"ACK"} \cup urg, snd_nxt, n)) /\ cl_state = "ESTABLISHED"
            /\ UNCHANGED <<cl_state, rcv_used>>
      BY <1>5 DEF ClientSend
    <2> QED
      BY <1>0, <1>2, <2>1
  <1>6. CASE ClientFin
    <2>1. PICK n \in 0..SegMax :
            /\ Send(Segment({"FIN", "ACK"}, snd_nxt, n)) /\ cl_state = "ESTABLISHED"
            /\ UNCHANGED <<cl_state, rcv_used>>
      BY <1>6 DEF ClientFin
    <2> QED
      BY <1>0, <1>2, <2>1
  <1>7. CASE ClientAck
    BY <1>0, <1>2, <1>7 DEF ClientAck
  <1>8. CASE ClientKeepAlive
    <2>1. snd_una - 1 \in Nat
      BY <1>8 DEF ClientKeepAlive, TypeInv, ClientInv, ClientTypeOK
    <2> QED
      BY <1>2, <1>8, <2>1 DEF ClientKeepAlive
  <1>9. CASE ClientRetransmit
    <2>1. CASE cl_state = "SYN_SENT" /\ Send(syn)
      BY <1>0, <1>1, <1>9, <2>1, SendWin DEF ClientRetransmit
    <2>2. CASE /\ cl_state = "ESTABLISHED" /\ snd_una <= SentData
               /\ Send(Segment({"ACK"}, snd_una, MinOf(SegMax, SentData - snd_una + 1)))
      <3>1. MinOf(SegMax, SentData - snd_una + 1) \in Nat
        BY <1>0, <2>2, ConstantsAssumption DEF MinOf, SentData, TypeInv, ClientInv, ClientTypeOK
      <3> QED
        BY <1>0, <1>2, <1>9, <2>2, <3>1 DEF ClientRetransmit
    <2>3. CASE /\ cl_state = "ESTABLISHED" /\ cl_fin /\ snd_una = snd_nxt - 1
               /\ Send(Segment({"FIN", "ACK"}, snd_una, 0))
      BY <1>0, <1>2, <1>9, <2>3 DEF ClientRetransmit
    <2> QED
      BY <1>9, <2>1, <2>2, <2>3 DEF ClientRetransmit, syn
  <1>10. CASE ClientReset \/ ClientRefuses
    BY <1>0, <1>3, <1>10 DEF ClientReset, ClientRefuses
  <1>11. CASE ClientRead
    <2>1. /\ cl_state = "ESTABLISHED" /\ cl_state' = cl_state /\ rcv_used' = 0 /\ tun' = tun
          /\ UNCHANGED <<status, sock, zdtun_seq, window_size, all_fds, client_seq>>
      BY <1>11 DEF ClientRead, connVars
    <2>2. /\ ClientEdge \in Nat /\ ClientEdge' \in Nat /\ ClientEdge <= ClientEdge'
          /\ zdtun_seq \in Nat /\ window_size \in Nat
      <3>1. /\ RcvBuf \in Nat /\ rcv_used \in Nat /\ rcv_used <= RcvBuf /\ rcv_nxt \in Nat
        BY WinFields
      <3> QED
        BY <1>0, <2>1, <3>1, WinFields DEF ClientEdge
    <2>3. EdgesGrow'
      <3>1. TunShrinks /\ ClientGrows
        BY <2>1, <2>2 DEF TunShrinks, ClientGrows
      <3> QED
        BY <2>2, <3>1, ShrunkEdges
    <2>4. ClientAllows'
      BY <1>0, <2>1, <2>2 DEF WinInv, ClientAllows
    <2>5. FirstWindow' /\ NoUpdates' /\ UpdatesAllow' /\ RoomToRead' /\ PastSyn'
      BY <1>0, <2>1 DEF WinInv, FirstWindow, NoUpdates, UpdatesAllow, RoomToRead, PastSyn
    <2> QED
      BY <2>3, <2>4, <2>5 DEF WinInv
  <1> QED
    BY <1>4, <1>5, <1>6, <1>7, <1>8, <1>9, <1>10, <1>11 DEF Client

LEMMA SumBound ==
    ASSUME NEW z \in Nat, NEW win \in Nat, NEW room \in Nat, win <= room
    PROVE  z <= z /\ z + win <= z + (room - 0)
  OBVIOUS

\* The SYN+ACK: the client opens with its whole buffer.
LEMMA OpensWin ==
    ASSUME TypeInv, TypeInv', WinInv, TunShrinks, status \in {"NEW", "CONNECTING"},
           NEW z \in Nat, NEW seg, seg.flags = {"SYN", "ACK"}, seg.seq = z, ClientGets(seg),
           status' = "CONNECTED", zdtun_seq' = z + 1, ready' = "idle",
           window_size' <= RcvBuf, all_fds' => window_size' > 0, client_seq' >= 1
    PROVE  WinInv'
  <1>1. cl_state # "ESTABLISHED" /\ \A i \in 1..Len(tun) : ~Update(tun[i])
    BY DEF WinInv, NoUpdates
  <1>2. \A i \in 1..Len(tun') : ~Update(tun'[i])
    <2>1. PICK d \in {0, 1} : \A i \in 1..Len(tun') : i + d \in 1..Len(tun) /\ tun'[i] = tun[i + d]
      BY Shrunk
    <2> QED
      BY <1>1, <2>1
  <1>3. \/ /\ cl_state' # "ESTABLISHED"
           /\ cl_state' \in {"CLOSED", "SYN_SENT"} => rcv_used' = 0
        \/ /\ cl_state' = "ESTABLISHED"
           /\ rcv_nxt' = z + 1 /\ rcv_used' = 0
    <2>1. cl_state \in {"CLOSED", "SYN_SENT"} => rcv_used = 0
      BY DEF WinInv, NoUpdates
    <2>2. CASE ClientKeeps
      BY <1>1, <2>1, <2>2 DEF ClientKeeps
    <2>3. CASE ClientOpens(seg) /\ cl_state = "SYN_SENT"
      BY <2>1, <2>3 DEF ClientOpens
    <2> QED
      BY <1>1, <2>2, <2>3, SynAckKeeps
  <1>4. ClientAllows'
    <2> SUFFICES ASSUME cl_state' = "ESTABLISHED"
                 PROVE  rcv_nxt' <= zdtun_seq' /\ zdtun_seq' + window_size' <= ClientEdge'
      BY DEF ClientAllows
    <2>1. rcv_nxt' = z + 1 /\ rcv_used' = 0
      BY <1>3
    <2>2. ClientEdge' = (z + 1) + (RcvBuf - 0)
      BY <2>1 DEF ClientEdge
    <2>3. window_size' \in Nat /\ RcvBuf \in Nat
      BY WinFields DEF TypeInv, ConnInv, ConnTypeOK
    <2>4. zdtun_seq' = z + 1 /\ window_size' <= RcvBuf /\ z + 1 \in Nat
      OBVIOUS
    <2>5. (z + 1) + window_size' <= (z + 1) + (RcvBuf - 0) /\ z + 1 <= z + 1
      BY <2>3, <2>4, SumBound
    <2> QED
      BY <2>1, <2>2, <2>4, <2>5
  <1>5. RoomToRead' /\ PastSyn' /\ FirstWindow'
    BY DEF RoomToRead, PastSyn, FirstWindow
  <1>6. NoUpdates' /\ UpdatesAllow' /\ EdgesGrow'
    BY <1>2, <1>3 DEF NoUpdates, UpdatesAllow, EdgesGrow
  <1> QED
    BY <1>4, <1>5, <1>6 DEF WinInv

\* The packets of the client
LEMMA AckWin ==
    ASSUME TypeInv, TypeInv', WinInv, FwdAck, WinUnit = 1, RcvBuf < SeqMod
    PROVE  WinInv'
  <1>1. /\ TunShrinks /\ pkt = tun[1] /\ 1 \in 1..Len(tun) /\ ready' = "idle"
        /\ status = "CONNECTED" /\ sock /\ Plain /\ InSequence /\ ~KeepAlive
        /\ Len(tun') = Len(tun) - 1
        /\ \A i \in 1..Len(tun') : i + 1 \in 2..Len(tun) /\ tun'[i] = tun[i + 1]
    BY ForwardHead DEF FwdAck, Forward, Established
  <1>2. /\ UNCHANGED <<status, sock, client_seq, zdtun_seq, rcv_nxt, rcv_used, cl_state>>
        /\ window_size' = (pkt.win * WinUnit - InFlight(zdtun_seq, pkt.ack)) % SeqMod
        /\ all_fds' = (all_fds \/ HasRoom(window_size'))
    BY DEF FwdAck, clVars
  <1>3. /\ zdtun_seq \in Nat /\ window_size \in Nat /\ ClientEdge \in Nat
        /\ pkt.ack \in Nat /\ pkt.win \in Nat /\ pkt.seq \in Nat /\ Edge(pkt) \in Nat
        /\ client_seq \in Nat /\ tx_queue_size \in Nat /\ Len(tun) \in Nat
        /\ UNCHANGED ClientEdge
    BY <1>1, <1>2, WinFields, ConnFields DEF TypeInv, ClientEdge
  <1>4. Update(pkt)
    <2>1. pkt.seq = client_seq + tx_queue_size /\ client_seq >= 1
      BY <1>1 DEF InSequence, WinInv, PastSyn
    <2> QED
      BY <1>1, <1>3, <2>1 DEF Update, Plain
  <1>5. /\ pkt.ack <= zdtun_seq /\ pkt.win <= RcvBuf
        /\ zdtun_seq + window_size <= Edge(pkt)
    BY <1>1, <1>4 DEF WinInv, UpdatesAllow
  <1>6. window_size' = Edge(pkt) - zdtun_seq
    <2>1. zdtun_seq <= pkt.ack + pkt.win /\ pkt.win < SeqMod
      BY <1>3, <1>5, ConstantsAssumption DEF Edge
    <2> QED
      BY <1>2, <1>3, <1>5, <2>1, WindowExact DEF Edge
  <1>7. /\ window_size' \in Nat /\ window_size <= window_size'
        /\ zdtun_seq + window_size' = Edge(pkt)
    BY <1>3, <1>5, <1>6
  <1>8. /\ cl_state = "ESTABLISHED" => Edge(pkt) <= ClientEdge
        /\ \A j \in 1..Len(tun) : Update(tun[j]) => Edge(pkt) <= Edge(tun[j])
    BY <1>1, <1>4 DEF WinInv, EdgesGrow
  <1>9. UpdatesAllow'
    <2> SUFFICES ASSUME NEW i \in 1..Len(tun'), Update(tun'[i])
                 PROVE  /\ tun'[i].ack <= zdtun_seq /\ tun'[i].win <= RcvBuf
                        /\ Edge(pkt) <= Edge(tun'[i])
      BY <1>2, <1>7 DEF UpdatesAllow
    <2>1. i + 1 \in 1..Len(tun) /\ tun'[i] = tun[i + 1]
      BY <1>1, <1>3
    <2> QED
      BY <1>1, <1>8, <2>1 DEF WinInv, UpdatesAllow
  <1>10. ClientAllows'
    BY <1>1, <1>2, <1>3, <1>7, <1>8 DEF WinInv, ClientAllows
  <1>11. RoomToRead'
    <2>1. all_fds => window_size > 0
      BY <1>1 DEF WinInv, RoomToRead
    <2>2. all_fds' => window_size' > 0
      <3>1. all_fds' => all_fds \/ window_size' > 0
        BY <1>2 DEF HasRoom
      <3> QED
        BY <1>3, <1>7, <2>1, <3>1
    <2> QED
      BY <1>1, <2>2 DEF RoomToRead
  <1>12. EdgesGrow'
    <2>1. ClientGrows
      BY <1>2, <1>3 DEF ClientGrows
    <2> QED
      BY <1>1, <1>3, <2>1, ShrunkEdges
  <1>13. FirstWindow' /\ NoUpdates' /\ PastSyn'
    <2>1. cl_state \notin {"CLOSED", "SYN_SENT"}
      BY <1>1, <1>4 DEF WinInv, NoUpdates
    <2> QED
      BY <1>1, <1>2, <2>1 DEF WinInv, FirstWindow, NoUpdates, PastSyn
  <1> QED
    BY <1>9, <1>10, <1>11, <1>12, <1>13 DEF WinInv

LEMMA ForwardWin ==
    ASSUME TypeInv, TypeInv', LifeInv, WinInv, ZdtunForward, WinUnit = 1, RcvBuf < SeqMod
    PROVE  WinInv'
  <1>1. TunShrinks /\ pkt = tun[1] /\ tun # <<>> /\ pkt \in Segments
    BY ForwardHead DEF ZdtunForward, FwdToClosed, FwdOpenError, FwdConnectError, FwdConnect,
           FwdConnected, FwdUrgent, FwdConnecting, FwdOutOfSequence, FwdRst, FwdFin,
           FwdKeepAlive, FwdAck, FwdAfterServerClosed
  <1>2. ready' = "idle"
    BY DEF ZdtunForward, FwdToClosed, FwdOpenError, FwdConnectError, FwdConnect,
           FwdConnected, FwdUrgent, FwdConnecting, FwdOutOfSequence, FwdRst, FwdFin,
           FwdKeepAlive, FwdAck, FwdAfterServerClosed, Forward
  <1>3. /\ pkt.seq \in Nat /\ pkt.len \in Nat /\ pkt.win \in Nat /\ client_seq \in Nat
        /\ RcvBuf \in Nat \ {0}
    BY <1>1, SegmentFields, WinFields, ConstantsAssumption
  <1>4. ASSUME ClosedOnSendError PROVE WinInv'
    <2>1. ~sock' /\ status' = "CLIENT_ERROR" /\ UNCHANGED clVars
      BY <1>4 DEF ClosedOnSendError, Closed, CloseSocket
    <2> QED
      BY <1>1, <1>2, <2>1, NothingKeeps, KeepsGrows, KeptWin
  <1>5. ASSUME NEW st \in ClosedStatuses, ConnClose(st) PROVE WinInv'
    <2>1. ~sock' /\ status' \notin {"NEW", "CONNECTING"}
      BY <1>5, ConnCloseCloses DEF Closed, CloseSocket, ClosedStatuses
    <2> QED
      BY <1>1, <1>2, <1>5, <2>1, CloseKeeps, KeepsGrows, KeptWin
  <1>6. ASSUME ClientKeeps, UNCHANGED <<status, sock, zdtun_seq, window_size, all_fds>>,
               client_seq' >= client_seq, status # "NEW"
        PROVE  WinInv'
    <2>1. ~sock' \/ sock'
      OBVIOUS
    <2>2. ClientGrows
      BY <1>6, KeepsGrows
    <2> QED
      BY <1>1, <1>2, <1>6, <2>2, KeptWin
  <1>7. status = "NEW" => pkt.win = RcvBuf /\ ~sock
    BY <1>1, WinFields DEF WinInv, FirstWindow, LifeInv, SelectedSocketsAreOpen
  <1>8. CASE FwdToClosed \/ FwdOpenError
    <2>1. ~sock' /\ status' \notin {"NEW", "CONNECTING"} /\ UNCHANGED clVars
      BY <1>8 DEF FwdToClosed, FwdOpenError, Forward, LifeInv, SelectedSocketsAreOpen, ClosedStatuses
    <2> QED
      BY <1>1, <1>2, <2>1, NothingKeeps, KeepsGrows, KeptWin
  <1>9. CASE FwdConnectError \/ FwdUrgent \/ FwdRst
    BY <1>5, <1>9 DEF FwdConnectError, FwdUrgent, FwdRst, ClosedStatuses
  <1>10. CASE FwdConnect
    <2>1. /\ status = "NEW" /\ status' = "CONNECTING" /\ UNCHANGED clVars /\ all_fds'
          /\ client_seq' = pkt.seq + 1 /\ window_size' = pkt.win * WinUnit
      BY <1>10 DEF FwdConnect, Forward
    <2>2. ClientEdge \in Nat /\ UNCHANGED ClientEdge /\ window_size' = RcvBuf /\ client_seq' >= 1
      BY <1>3, <1>7, <2>1, WinFields DEF ClientEdge, clVars
    <2>3. ClientGrows
      BY <2>1, NothingKeeps, KeepsGrows
    <2>4. EdgesGrow' /\ \A i \in 1..Len(tun') : ~Update(tun'[i])
      BY <1>1, <2>1, <2>2, <2>3, ShrunkEdges DEF WinInv, NoUpdates
    <2>5. NoUpdates'
      BY <1>3, <2>1, <2>2, <2>4 DEF WinInv, NoUpdates, clVars
    <2>6. FirstWindow' /\ UpdatesAllow' /\ ClientAllows' /\ RoomToRead' /\ PastSyn'
      BY <1>2, <1>3, <2>1, <2>2 DEF FirstWindow, UpdatesAllow, ClientAllows, RoomToRead, PastSyn
    <2> QED
      BY <2>4, <2>5, <2>6 DEF WinInv
  <1>11. CASE FwdConnected
    <2>1. /\ status = "NEW" /\ client_seq' = pkt.seq + 1 /\ window_size' = pkt.win * WinUnit
      BY <1>11 DEF FwdConnected, Forward
    <2>2. window_size' = RcvBuf /\ window_size' > 0 /\ client_seq' >= 1
      BY <1>3, <1>7, <2>1
    <2>3. CASE /\ ClientGets([Reply({"SYN", "ACK"}, client_seq', 0) EXCEPT !.seq = ISS])
               /\ status' = "CONNECTED" /\ zdtun_seq' = ISS + 1
      <3> DEFINE seg == [Reply({"SYN", "ACK"}, client_seq', 0) EXCEPT !.seq = ISS]
      <3>1. seg.flags = {"SYN", "ACK"} /\ seg.seq = ISS
        BY DEF Reply
      <3>2. ISS \in Nat /\ window_size' <= RcvBuf
        BY <1>3, <2>2, ConstantsAssumption
      <3> HIDE DEF seg
      <3> QED
        BY <1>1, <1>2, <2>1, <2>2, <2>3, <3>1, <3>2, OpensWin DEF seg
    <2> QED
      BY <1>4, <1>11, <2>3 DEF FwdConnected
  <1>12. CASE FwdConnecting \/ FwdOutOfSequence
    BY <1>3, <1>6, <1>12, NothingKeeps
       DEF FwdConnecting, FwdOutOfSequence, Forward, Established, connVars
  <1>13. CASE FwdFin
    <2>1. client_seq' \in Nat /\ client_seq' >= client_seq /\ status = "CONNECTED"
      BY <1>3, <1>13 DEF FwdFin, Forward, Established
    <2>2. CASE ClientGets(Reply({"ACK"}, client_seq', 0)) /\ UNCHANGED <<status, sock, all_fds>>
      BY <1>6, <1>13, <2>1, <2>2, EmptyReply DEF FwdFin
    <2>3. CASE ClientGets(Reply({"ACK"}, client_seq', 0)) /\ Closed("CLOSED", 1)
      <3>1. ClientGrows /\ ~sock' /\ status' = "CLOSED"
        BY <2>1, <2>3, EmptyReply, KeepsGrows DEF Closed, CloseSocket
      <3> QED
        BY <1>1, <1>2, <3>1, KeptWin
    <2> QED
      BY <1>4, <1>13, <2>2, <2>3 DEF FwdFin
  <1>14. CASE FwdKeepAlive
    <2>1. /\ client_seq' = client_seq /\ client_seq' >= client_seq /\ status = "CONNECTED"
          /\ UNCHANGED <<zdtun_seq, window_size>>
      BY <1>3, <1>14 DEF FwdKeepAlive, Forward, Established
    <2>2. CASE UNCHANGED <<status, sock, all_fds>> /\ ClientGets(Reply({"ACK"}, client_seq, 0))
      BY <1>3, <1>6, <2>1, <2>2, EmptyReply
    <2> QED
      BY <1>4, <1>14, <2>2 DEF FwdKeepAlive
  <1>15. CASE FwdAfterServerClosed
    <2>1. /\ client_seq' \in Nat /\ client_seq' >= client_seq /\ status = "CONNECTED"
          /\ UNCHANGED <<zdtun_seq, window_size>>
      BY <1>3, <1>15 DEF FwdAfterServerClosed, Forward, Established
    <2>2. CASE /\ UNCHANGED <<status, sock, all_fds>>
               /\ UNCHANGED clVars \/ ClientGets(Reply({"ACK"}, client_seq', 0))
      BY <1>6, <2>1, <2>2, EmptyReply, NothingKeeps
    <2> QED
      BY <1>4, <1>15, <2>2 DEF FwdAfterServerClosed
  <1> QED
    BY <1>8, <1>9, <1>10, <1>11, <1>12, <1>13, <1>14, <1>15, AckWin DEF ZdtunForward

\* Bytes of the server use up the window, and the room of the client alike.
LEMMA DataWin ==
    ASSUME TypeInv, TypeInv', LifeInv, WinInv, ReplyData
    PROVE  WinInv'
  <1>1. /\ sock /\ status \in {"CONNECTING", "CONNECTED"} /\ ready' = "idle" /\ tun' = tun
        /\ client_seq' = client_seq /\ client_seq \in Nat
        /\ RecvLen > 0 /\ RecvLen \in Nat /\ window_size - RecvLen \in Nat
    BY RecvLenType, WinFields DEF ReplyData, Handle, LifeInv, SelectedSocketsAreOpen
  <1>2. TunShrinks
    BY <1>1 DEF TunShrinks
  <1>3. CASE ClosedOnSendError
    <2>1. ~sock' /\ status' = "CLIENT_ERROR" /\ UNCHANGED clVars
      BY <1>3 DEF ClosedOnSendError, Closed, CloseSocket
    <2> QED
      BY <1>1, <1>2, <2>1, NothingKeeps, KeepsGrows, KeptWin
  <1>4. CASE /\ ClientGets(Reply({"ACK"}, client_seq, RecvLen))
             /\ zdtun_seq' = zdtun_seq + RecvLen
             /\ window_size' = window_size - RecvLen
             /\ all_fds' = HasRoom(window_size')
             /\ UNCHANGED <<status, sock>>
    <2> DEFINE seg == Reply({"ACK"}, client_seq, RecvLen)
               n == Accepted(seg)
    <2>1. seg.len = RecvLen /\ seg.flags = {"ACK"} /\ seg.seq = zdtun_seq
      BY DEF Reply
    <2> HIDE DEF seg
    <2>2. /\ zdtun_seq \in Nat /\ window_size \in Nat /\ rcv_nxt \in Nat /\ rcv_used \in Nat
          /\ RcvBuf \in Nat /\ rcv_used <= RcvBuf /\ ClientEdge \in Nat
      BY WinFields
    <2>3. n \in Nat /\ n <= RecvLen /\ (n > 0 => zdtun_seq = rcv_nxt)
      BY <1>1, <2>1, <2>2 DEF Accepted, MinOf
    <2> HIDE DEF n
    <2>4. /\ zdtun_seq' + window_size' = zdtun_seq + window_size
          /\ zdtun_seq' \in Nat /\ zdtun_seq <= zdtun_seq' /\ window_size' <= window_size
      BY <1>1, <1>4, <2>2
    <2>5. /\ \/ UNCHANGED <<cl_state, rcv_nxt, rcv_used>>
             \/ /\ cl_state' = "ESTABLISHED" /\ cl_state = "ESTABLISHED"
                /\ rcv_nxt' = rcv_nxt + n /\ rcv_used' = rcv_used + n
      <3>1. CASE ClientTakes(seg)
        <4>1. ~FinInOrder(seg)
          BY <2>1 DEF FinInOrder
        <4>2. /\ rcv_nxt' = rcv_nxt + n + 0 /\ rcv_used' = rcv_used + n
              /\ cl_state' = cl_state /\ cl_state = "ESTABLISHED"
          BY <3>1, <4>1 DEF ClientTakes, Acceptable, n
        <4> QED
          BY <2>2, <2>3, <4>2
      <3>2. CASE ClientDrops(seg)
        BY <3>2 DEF ClientDrops
      <3>3. ~ClientOpens(seg) /\ ~ClientAborts(seg)
        BY <2>1 DEF ClientOpens, ClientAborts, AnswersSyn
      <3> QED
        BY <1>4, <3>1, <3>2, <3>3 DEF ClientGets, seg
    <2>6. ClientEdge' = ClientEdge
      <3>1. (rcv_nxt + n) + (RcvBuf - (rcv_used + n)) = rcv_nxt + (RcvBuf - rcv_used)
        BY <2>2, <2>3
      <3> QED
        BY <2>5, <3>1 DEF ClientEdge
    <2>7. ClientGrows
      BY <2>2, <2>5, <2>6 DEF ClientGrows
    <2>8. EdgesGrow'
      BY <1>2, <2>2, <2>6, <2>7, ShrunkEdges
    <2>9. UpdatesAllow'
      <3> SUFFICES ASSUME status = "CONNECTED", NEW i \in 1..Len(tun), Update(tun[i])
                   PROVE  /\ tun[i].ack <= zdtun_seq' /\ tun[i].win <= RcvBuf
                          /\ zdtun_seq + window_size <= Edge(tun[i])
        BY <1>1, <1>4, <2>4 DEF UpdatesAllow
      <3>1. /\ tun[i].ack <= zdtun_seq /\ tun[i].win <= RcvBuf
            /\ zdtun_seq + window_size <= Edge(tun[i]) /\ tun[i].ack \in Nat
        BY <1>1, WinFields DEF WinInv, UpdatesAllow
      <3> QED
        BY <2>2, <2>4, <3>1
    <2>10. ClientAllows'
      <3> SUFFICES ASSUME status = "CONNECTED", cl_state' = "ESTABLISHED"
                   PROVE  rcv_nxt' <= zdtun_seq' /\ zdtun_seq + window_size <= ClientEdge
        BY <1>4, <2>4, <2>6 DEF ClientAllows
      <3>1. rcv_nxt <= zdtun_seq /\ zdtun_seq + window_size <= ClientEdge
        BY <1>1, <2>5 DEF WinInv, ClientAllows
      <3>2. rcv_nxt' <= zdtun_seq'
        <4>1. rcv_nxt + n <= zdtun_seq + RecvLen
          BY <1>1, <2>2, <2>3, <3>1
        <4>2. rcv_nxt <= zdtun_seq + RecvLen
          BY <1>1, <2>2, <3>1
        <4> QED
          BY <1>4, <2>5, <4>1, <4>2
      <3> QED
        BY <3>1, <3>2
    <2>11. RoomToRead' /\ PastSyn'
      BY <1>1, <1>4 DEF RoomToRead, HasRoom, WinInv, PastSyn
    <2>12. NoUpdates'
      <3>1. status = "CONNECTING" => window_size' <= RcvBuf
        BY <2>2, <2>4, <1>1, <1>4 DEF WinInv, NoUpdates
      <3> QED
        BY <1>1, <1>4, <2>5, <3>1 DEF WinInv, NoUpdates
    <2>13. FirstWindow'
      BY <1>1, <1>4 DEF FirstWindow
    <2> QED
      BY <2>8, <2>9, <2>10, <2>11, <2>12, <2>13 DEF WinInv
  <1> QED
    BY <1>3, <1>4 DEF ReplyData

\* The FIN of the server: the socket is closed.
LEMMA EofWin ==
    ASSUME TypeInv, TypeInv', LifeInv, WinInv, ReplyEof
    PROVE  WinInv'
  <1>1. /\ sock /\ status \in {"CONNECTING", "CONNECTED"} /\ ready' = "idle" /\ tun' = tun
        /\ client_seq \in Nat /\ window_size' = window_size
    BY WinFields DEF ReplyEof, Handle, LifeInv, SelectedSocketsAreOpen
  <1>2. TunShrinks
    BY <1>1 DEF TunShrinks
  <1>3. ~sock' /\ (status' = status \/ status' \in {"CLOSED", "CLIENT_ERROR"})
    BY DEF ReplyEof, ClosedOnSendError, Closed, CloseSocket
  <1>4. ClientGrows
    <2>1. CASE ClosedOnSendError
      BY <2>1, NothingKeeps, KeepsGrows DEF ClosedOnSendError
    <2>2. CASE ClientGets(Reply({"FIN", "ACK"}, client_seq, 0))
      <3> DEFINE seg == Reply({"FIN", "ACK"}, client_seq, 0)
      <3>1. seg \in Replies
        BY <1>1, ReplyType
      <3>2. seg.len = 0 /\ seg.flags = {"FIN", "ACK"}
        BY DEF Reply
      <3> HIDE DEF seg
      <3>3. CASE ClientTakes(seg)
        <4>1. Accepted(seg) = 0
          BY <3>1, <3>2, EmptyAccepted DEF TypeInv
        <4>2. /\ rcv_nxt' = rcv_nxt + 0 + (IF FinInOrder(seg) THEN 1 ELSE 0)
              /\ rcv_used' = rcv_used + 0 /\ cl_state' = cl_state
          BY <3>3, <4>1 DEF ClientTakes
        <4>3. rcv_nxt' \in Nat /\ rcv_nxt <= rcv_nxt' /\ rcv_used' = rcv_used
          BY <4>2, WinFields
        <4>4. ClientEdge <= ClientEdge'
          BY <4>3, WinFields DEF ClientEdge
        <4> QED
          BY <4>2, <4>3, <4>4 DEF ClientGrows
      <3>4. CASE ClientDrops(seg)
        BY <3>4, WinFields DEF ClientDrops, ClientGrows, ClientEdge
      <3>5. ~ClientOpens(seg) /\ ~ClientAborts(seg)
        BY <3>2 DEF ClientOpens, ClientAborts, AnswersSyn
      <3> QED
        BY <2>2, <3>3, <3>4, <3>5 DEF ClientGets, seg
    <2> QED
      BY <2>1, <2>2 DEF ReplyEof
  <1> QED
    BY <1>1, <1>2, <1>3, <1>4, KeptWin

LEMMA HandleWin ==
    ASSUME TypeInv, TypeInv', LifeInv, WinInv, ZdtunHandleFd
    PROVE  WinInv'
  <1>1. ready' = "idle" /\ tun' = tun /\ client_seq \in Nat
    BY WinFields DEF ZdtunHandleFd, ReplyError, ReplyEof, ReplyData, ConnectAsync,
           ConnectAsyncError, SendQueued, SendQueuedError, Handle
  <1>2. TunShrinks
    BY <1>1 DEF TunShrinks
  <1>3. ASSUME ClosedOnSendError PROVE WinInv'
    <2>1. ~sock' /\ status' = "CLIENT_ERROR" /\ UNCHANGED clVars
      BY <1>3 DEF ClosedOnSendError, Closed, CloseSocket
    <2> QED
      BY <1>1, <1>2, <2>1, NothingKeeps, KeepsGrows, KeptWin
  <1>4. CASE ReplyError \/ ConnectAsyncError \/ SendQueuedError
    <2>1. ConnClose(SocketErrorStatus)
      BY <1>4 DEF ReplyError, ConnectAsyncError, SendQueuedError
    <2>2. ~sock' /\ status' \notin {"NEW", "CONNECTING"}
      <3>1. SocketErrorStatus \notin {"NEW", "CONNECTING"}
        BY DEF SocketErrorStatus
      <3>2. ~sock' /\ status' = SocketErrorStatus
        BY <2>1, ConnCloseCloses DEF Closed, CloseSocket
      <3> QED
        BY <3>1, <3>2
    <2> QED
      BY <1>1, <1>2, <2>1, <2>2, CloseKeeps, KeepsGrows, KeptWin
  <1>5. CASE ConnectAsync
    <2>1. ready = "wr" /\ tx_queue = <<>> /\ UNCHANGED <<client_seq, window_size>>
      BY <1>5 DEF ConnectAsync, Handle
    <2>2. sock /\ write_fds
      BY <2>1 DEF LifeInv
    <2>3. status = "CONNECTING"
      BY <2>1, <2>2 DEF LifeInv, SelectedSocketsAreOpen, WriteSetMatchesWork
    <2>4. /\ window_size <= RcvBuf /\ (all_fds => window_size > 0) /\ client_seq >= 1
          /\ zdtun_seq \in Nat
      BY <2>2, <2>3, WinFields DEF WinInv, NoUpdates, RoomToRead, PastSyn
    <2>5. CASE /\ ClientGets(Reply({"SYN", "ACK"}, client_seq, 0))
               /\ status' = "CONNECTED" /\ zdtun_seq' = zdtun_seq + 1 /\ UNCHANGED all_fds
      <3> DEFINE seg == Reply({"SYN", "ACK"}, client_seq, 0)
      <3>1. seg.flags = {"SYN", "ACK"} /\ seg.seq = zdtun_seq
        BY DEF Reply
      <3> HIDE DEF seg
      <3> QED
        BY <1>1, <1>2, <2>1, <2>3, <2>4, <2>5, <3>1, OpensWin DEF seg
    <2> QED
      BY <1>3, <1>5, <2>5 DEF ConnectAsync
  <1>6. CASE SendQueued
    <2>1. /\ client_seq' \in Nat /\ client_seq' >= client_seq
          /\ UNCHANGED <<zdtun_seq, window_size>>
      BY <1>1, <1>6 DEF SendQueued, Taken
    <2>2. CASE /\ UNCHANGED <<status, sock, all_fds>>
               /\ UNCHANGED clVars \/ ClientGets(Reply({"ACK"}, client_seq', 0))
      <3>1. ClientKeeps
        BY <2>1, <2>2, EmptyReply, NothingKeeps
      <3>2. sock /\ status # "NEW"
        BY <1>6 DEF SendQueued, Handle, LifeInv, SelectedSocketsAreOpen
      <3> QED
        BY <1>1, <1>2, <2>1, <2>2, <3>1, <3>2, KeepsGrows, KeptWin
    <2> QED
      BY <1>3, <1>6, <2>2 DEF SendQueued
  <1> QED
    BY <1>4, <1>5, <1>6, DataWin, EofWin DEF ZdtunHandleFd

LEMMA PurgeWin ==
    ASSUME TypeInv, TypeInv', LifeInv, WinInv, ZdtunPurge
    PROVE  WinInv'
  <1>1. ready' # "rd" /\ tun' = tun
    BY DEF ZdtunPurge, PurgeClosed, PurgeIdle, Finalize
  <1>2. TunShrinks
    BY <1>1 DEF TunShrinks
  <1>3. CASE PurgeIdle
    <2>1. ConnClose("GONE")
      BY <1>3 DEF PurgeIdle
    <2>2. ~sock' /\ status' = "GONE"
      BY <2>1, ConnCloseCloses DEF Closed, CloseSocket
    <2> QED
      BY <1>1, <1>2, <2>1, <2>2, CloseKeeps, KeepsGrows, KeptWin
  <1>4. CASE PurgeClosed \/ Finalize
    <2>1. /\ UNCHANGED clVars /\ status' # "CONNECTING"
          /\ status' = "NEW" => status = "NEW"
          /\ ~sock'
      BY <1>4 DEF PurgeClosed, Finalize, Closed, CloseSocket, LifeInv, SelectedSocketsAreOpen,
                  ClosedStatuses
    <2> QED
      BY <1>1, <1>2, <2>1, NothingKeeps, KeepsGrows, KeptWin DEF clVars
  <1> QED
    BY <1>3, <1>4 DEF ZdtunPurge

LEMMA WinStep ==
    ASSUME TypeInv, LifeInv, WinInv, [Next]_vars, WinUnit = 1, RcvBuf < SeqMod
    PROVE  WinInv'
  <1>1. TypeInv'
    BY TypeStep
  <1>2. CASE Server \/ Select \/ UNCHANGED vars
    <2>1. /\ UNCHANGED connVars /\ UNCHANGED clVars /\ tun' = tun
          /\ ready' = "rd" => ready = "rd" \/ all_fds
      BY <1>2 DEF Server, ServerAccept, ServerRefuse, ServerSend, ServerEof, ServerReset,
                  Select, Readable, vars
    <2>2. FirstWindow' /\ NoUpdates' /\ UpdatesAllow' /\ EdgesGrow'
      BY <2>1 DEF WinInv, FirstWindow, NoUpdates, UpdatesAllow, EdgesGrow, ClientEdge,
                  connVars, clVars
    <2>3. ClientAllows' /\ RoomToRead' /\ PastSyn'
      BY <2>1 DEF WinInv, ClientAllows, RoomToRead, PastSyn, ClientEdge, connVars, clVars
    <2> QED
      BY <2>2, <2>3 DEF WinInv
  <1> QED
    BY <1>1, <1>2, ClientWin, ForwardWin, HandleWin, PurgeWin DEF Next

LEMMA WinInvariant ==
    ASSUME WinUnit = 1, RcvBuf < SeqMod
    PROVE  Spec => []WinInv
  <1>1. Init => WinInv
    <2> SUFFICES ASSUME Init PROVE WinInv
      OBVIOUS
    <2>1. Len(tun) = 0
      BY EmptySeq DEF Init
    <2>2. NoUpdates /\ EdgesGrow
      BY <2>1 DEF Init, NoUpdates, EdgesGrow
    <2> QED
      BY <2>2 DEF Init, WinInv, FirstWindow, UpdatesAllow, ClientAllows, RoomToRead, PastSyn
  <1>2. TypeInv /\ LifeInv /\ WinInv /\ [Next]_vars => WinInv'
    BY WinStep
  <1> QED
    BY <1>1, <1>2, LifeInvariant, PTL DEF Spec

\* What handle_tcp_fwd makes of an ACK never lets handle_tcp_reply send more than
\* the client has room for, also across the wrap of the sequence numbers and with
\* updates and data that cross, in every environment.
THEOREM WindowCorrect ==
    ASSUME WinUnit = 1, RcvBuf < SeqMod
    PROVE  Spec => []WindowRespected
  <1>1. WinInv => WindowRespected
    BY DEF WinInv, ClientAllows, WindowRespected, ClientEdge
  <1> QED
    BY <1>1, WinInvariant, PTL
-----------------------------------------------------------------------------
(***************************************************************************)
(* The end of the server's stream: the two invariants together.            *)
(***************************************************************************)
\* Only handle_tcp_reply forwards bytes or the end of the server's stream.
LEMMA OnlyReplyForwards ==
    ASSUME TypeInv, LifeInv, DownInv, [Next]_vars, ~ReplyEof, ~ReplyData
    PROVE  UNCHANGED <<toClient, cl_eof>>
  <1>1. client_seq \in Nat
    BY DownFields
  <1>2. CASE Client \/ Server \/ Select \/ UNCHANGED vars
    BY <1>2 DEF Client, ClientConnect, ClientSend, ClientFin, ClientAck, ClientRead,
             ClientReset, ClientRefuses, ClientKeepAlive, ClientRetransmit,
             Server, ServerAccept, ServerRefuse, ServerSend, ServerEof, ServerReset,
             Select, vars, clVars
  <1>3. ASSUME ClientKeeps \/ UNCHANGED clVars PROVE UNCHANGED <<toClient, cl_eof>>
    BY <1>3 DEF ClientKeeps, clVars
  <1>4. ASSUME NEW st, ConnClose(st) PROVE UNCHANGED <<toClient, cl_eof>>
    BY <1>3, <1>4, CloseKeeps
  <1>5. ASSUME ClosedOnSendError PROVE UNCHANGED <<toClient, cl_eof>>
    BY <1>3, <1>5 DEF ClosedOnSendError
  <1>6. ASSUME NEW ack \in Nat, ClientGets(Reply({"ACK"}, ack, 0))
        PROVE  UNCHANGED <<toClient, cl_eof>>
    BY <1>3, <1>6, EmptyReply
  <1>7. ASSUME NEW seg, seg.flags = {"SYN", "ACK"}, cl_state # "ESTABLISHED", ClientGets(seg)
        PROVE  UNCHANGED <<toClient, cl_eof>>
    BY <1>7, SynAckKeeps DEF ClientKeeps, ClientOpens
  <1>8. CASE ZdtunForward
    <2>1. pkt.seq \in Nat /\ pkt.len \in Nat
      BY <1>8, ForwardType, SegmentFields DEF ZdtunForward, FwdToClosed, FwdOpenError,
           FwdConnectError, FwdConnect,
           FwdConnected, FwdUrgent, FwdConnecting, FwdOutOfSequence, FwdRst, FwdFin,
           FwdKeepAlive, FwdAck, FwdAfterServerClosed
    <2>2. CASE FwdToClosed \/ FwdOpenError \/ FwdConnect \/ FwdConnecting \/ FwdOutOfSequence
               \/ FwdAck
      BY <2>2 DEF FwdToClosed, FwdOpenError, FwdConnect, FwdConnecting, FwdOutOfSequence,
                  FwdAck, clVars
    <2>3. CASE FwdConnectError \/ FwdUrgent \/ FwdRst
      BY <1>4, <2>3 DEF FwdConnectError, FwdUrgent, FwdRst
    <2>4. CASE FwdConnected
      <3>1. CASE ClientGets([Reply({"SYN", "ACK"}, client_seq', 0) EXCEPT !.seq = ISS])
        <4> DEFINE seg == [Reply({"SYN", "ACK"}, client_seq', 0) EXCEPT !.seq = ISS]
        <4>1. seg.flags = {"SYN", "ACK"}
          BY DEF Reply
        <4>2. cl_state # "ESTABLISHED"
          BY <2>4 DEF FwdConnected, Forward, DownInv, BeforeConnected
        <4> HIDE DEF seg
        <4> QED
          BY <1>7, <3>1, <4>1, <4>2 DEF seg
      <3> QED
        BY <1>5, <2>4, <3>1 DEF FwdConnected
    <2>5. CASE FwdFin \/ FwdAfterServerClosed
      <3>1. client_seq' \in Nat
        BY <1>1, <2>1, <2>5 DEF FwdFin, FwdAfterServerClosed
      <3>2. ClientGets(Reply({"ACK"}, client_seq', 0)) \/ ClosedOnSendError \/ UNCHANGED clVars
        BY <2>5 DEF FwdFin, FwdAfterServerClosed
      <3> QED
        BY <1>3, <1>5, <1>6, <3>1, <3>2
    <2>6. CASE FwdKeepAlive
      BY <1>1, <1>5, <1>6, <2>6 DEF FwdKeepAlive
    <2> QED
      BY <1>8, <2>2, <2>3, <2>4, <2>5, <2>6 DEF ZdtunForward
  <1>9. CASE ZdtunHandleFd
    <2>1. CASE ReplyError \/ ConnectAsyncError \/ SendQueuedError
      BY <1>4, <2>1 DEF ReplyError, ConnectAsyncError, SendQueuedError
    <2>2. CASE ConnectAsync
      <3>1. sock /\ write_fds /\ tx_queue = <<>>
        BY <2>2 DEF ConnectAsync, Handle, LifeInv
      <3>2. cl_state # "ESTABLISHED"
        BY <3>1 DEF LifeInv, SelectedSocketsAreOpen, WriteSetMatchesWork, DownInv, BeforeConnected
      <3>3. CASE ClientGets(Reply({"SYN", "ACK"}, client_seq, 0))
        <4> DEFINE seg == Reply({"SYN", "ACK"}, client_seq, 0)
        <4>1. seg.flags = {"SYN", "ACK"}
          BY DEF Reply
        <4> HIDE DEF seg
        <4> QED
          BY <1>7, <3>2, <3>3, <4>1 DEF seg
      <3> QED
        BY <1>5, <2>2, <3>3 DEF ConnectAsync
    <2>3. CASE SendQueued
      <3>1. client_seq' \in Nat
        BY <1>1, <2>3 DEF SendQueued, Taken
      <3>2. ClientGets(Reply({"ACK"}, client_seq', 0)) \/ ClosedOnSendError \/ UNCHANGED clVars
        BY <2>3 DEF SendQueued
      <3> QED
        BY <1>3, <1>5, <1>6, <3>1, <3>2
    <2> QED
      BY <1>9, <2>1, <2>2, <2>3 DEF ZdtunHandleFd
  <1>10. CASE ZdtunPurge
    BY <1>3, <1>4, <1>10 DEF ZdtunPurge, PurgeClosed, PurgeIdle, Finalize
  <1> QED
    BY <1>2, <1>8, <1>9, <1>10 DEF Next

\* recv returns 0 only for the end of the stream, and then everything was read.
LEMMA EofMeansEnd ==
    ASSUME TypeInv, LifeInv, WinInv, DownInv, ReplyEof
    PROVE  srv_eof /\ srv_read = srv_sent
  <1>1. sock /\ ready = "rd" /\ RecvLen = 0 /\ (Avail > 0 \/ srv_eof)
    BY DEF ReplyEof, Handle, LifeInv
  <1>2. window_size > 0 /\ window_size \in Nat /\ SegMax \in Nat \ {0}
    BY <1>1, DownFields, ConstantsAssumption DEF WinInv, RoomToRead
  <1>3. Avail \in Nat /\ Avail = srv_sent - srv_read
    BY DownFields DEF Avail, DownInv, Received
  <1>4. Avail = 0
    BY <1>1, <1>2, <1>3 DEF RecvLen, MinOf
  <1> QED
    BY <1>1, <1>3, <1>4, DownFields

LEMMA EofStep ==
    ASSUME TypeInv, LifeInv, DownInv, WinInv, FinIsServerEof, [Next]_vars,
           "early_server" \notin Allow
    PROVE  FinIsServerEof'
  <1>1. CASE ReplyEof
    <2>1. /\ srv_eof /\ srv_read = srv_sent /\ UNCHANGED <<srv_eof, srv_sent, srv_read>>
      BY <1>1, EofMeansEnd DEF ReplyEof, srvVars
    <2>2. status = "CONNECTED" /\ sock /\ zdtun_seq = ISS + 1 + srv_read /\ ~cl_eof
      BY <1>1, ReadConnected DEF ReplyEof
    <2>3. ASSUME cl_eof' PROVE Len(toClient') = srv_sent
      <3>1. ~ClosedOnSendError
        BY <2>2, <2>3 DEF ClosedOnSendError, clVars
      <3> DEFINE seg == Reply({"FIN", "ACK"}, client_seq, 0)
      <3>2. ClientGets(seg)
        BY <1>1, <3>1 DEF ReplyEof
      <3>3. seg \in Replies
        BY DownFields, ReplyType
      <3>4. seg.len = 0 /\ seg.flags = {"FIN", "ACK"} /\ seg.seq = zdtun_seq
        BY DEF Reply
      <3> HIDE DEF seg
      <3>5. ClientTakes(seg)
        BY <2>2, <2>3, <3>2, <3>4
           DEF ClientGets, ClientOpens, ClientAborts, ClientDrops, AnswersSyn
      <3>6. toClient' = toClient /\ cl_state = "ESTABLISHED" /\ rcv_nxt = zdtun_seq
        <4>1. toClient' = toClient
          BY <3>3, <3>4, <3>5, EmptyAccepted DEF ClientTakes, TypeInv
        <4>2. FinInOrder(seg) /\ cl_state = "ESTABLISHED"
          BY <2>2, <2>3, <3>5 DEF ClientTakes, Acceptable
        <4> QED
          BY <3>4, <4>1, <4>2 DEF FinInOrder
      <3>7. rcv_nxt = ISS + 1 + Len(toClient) + 0
        BY <2>2, <3>6 DEF DownInv, ClientNext
      <3> QED
        BY <2>1, <2>2, <3>6, <3>7, DownFields
    <2> QED
      BY <2>1, <2>3 DEF FinIsServerEof
  <1>2. CASE ReplyData
    <2>1. RecvLen > 0 /\ RecvLen <= Avail
      BY <1>2, RecvLenType DEF ReplyData
    <2>2. Avail > 0
      BY <2>1, RecvLenType, DownFields DEF Avail
    <2>3. ~cl_eof
      BY <1>2, <2>2, ReadConnected DEF ReplyData
    <2>4. ~cl_eof'
      <3>1. CASE ClosedOnSendError
        BY <2>3, <3>1 DEF ClosedOnSendError, clVars
      <3>2. CASE ClientGets(Reply({"ACK"}, client_seq, RecvLen))
        BY <2>3, <3>2 DEF ClientGets, ClientOpens, ClientAborts, ClientTakes, ClientDrops,
                          FinInOrder, Reply
      <3> QED
        BY <1>2, <3>1, <3>2 DEF ReplyData
    <2> QED
      BY <2>4 DEF FinIsServerEof
  <1>3. CASE ~ReplyEof /\ ~ReplyData
    <2>1. UNCHANGED <<toClient, cl_eof>>
      BY <1>3, OnlyReplyForwards
    <2>2. srv_eof => UNCHANGED <<srv_sent, srv_eof>>
      <3>1. CASE ZdtunForward
        BY <3>1 DEF ZdtunForward, FwdToClosed, FwdOpenError, FwdConnectError, FwdConnect,
           FwdConnected, FwdUrgent, FwdConnecting, FwdOutOfSequence, FwdRst, FwdFin,
           FwdKeepAlive, FwdAck, FwdAfterServerClosed, srvVars
      <3>2. CASE ZdtunHandleFd \/ ZdtunPurge
        BY <3>2 DEF ZdtunHandleFd, ReplyError, ReplyEof, ReplyData, ConnectAsync,
           ConnectAsyncError, SendQueued, SendQueuedError, ZdtunPurge, PurgeClosed, PurgeIdle,
           Finalize, srvVars
      <3>3. CASE Client \/ Server \/ Select \/ UNCHANGED vars
        BY <3>3 DEF Client, ClientConnect, ClientSend, ClientFin, ClientAck, ClientRead,
             ClientReset, ClientRefuses, ClientKeepAlive, ClientRetransmit,
             Server, ServerAccept, ServerRefuse, ServerSend, ServerEof, ServerReset,
             Select, vars, srvVars
      <3> QED
        BY <3>1, <3>2, <3>3 DEF Next
    <2> QED
      BY <2>1, <2>2 DEF FinIsServerEof
  <1> QED
    BY <1>1, <1>2, <1>3

\* The client sees the end of the stream only when the server has ended it and
\* after every byte of the server: no socket is read into a buffer without room,
\* where recv returns 0 with data waiting.
THEOREM EofCorrect ==
    ASSUME WinUnit = 1, RcvBuf < SeqMod, "early_server" \notin Allow
    PROVE  Spec => []FinIsServerEof
  <1>1. Init => FinIsServerEof
    BY DEF Init, FinIsServerEof
  <1>2. TypeInv /\ LifeInv /\ DownInv /\ WinInv /\ FinIsServerEof /\ [Next]_vars => FinIsServerEof'
    BY EofStep
  <1> QED
    BY <1>1, <1>2, LifeInvariant, DownInvariant, WinInvariant, PTL DEF Spec
-----------------------------------------------------------------------------
(***************************************************************************)
(* The client knows when its connection was closed.  A RST or a FIN only   *)
(* reaches it when the ACK number lies within what it has sent, so         *)
(* client_seq must never pass snd_nxt; and a FIN only when nothing before  *)
(* it was lost.                                                            *)
(***************************************************************************)
\* A segment with data or a FIN, and the sequence number that follows it
Carries(seg) == seg.len > 0 \/ "FIN" \in seg.flags
Reach(seg) == seg.seq + seg.len + (IF "FIN" \in seg.flags THEN 1 ELSE 0)

Live == status \in {"CONNECTING", "CONNECTED"}

\* The client is gone, or it has seen the end of the stream.
Notified == cl_state = "RESET" \/ cl_eof

SynFirst ==
    status = "NEW" =>
        /\ tx_queue_size = 0 /\ ~fin_ack_sent /\ ~client_closed
        /\ cl_state = "CLOSED" => tun = <<>>
        /\ cl_state # "CLOSED" => tun # <<>> /\ tun[1].seq = 0

Handshake ==
    /\ cl_fin => cl_state \notin {"CLOSED", "SYN_SENT"}
    /\ cl_state = "SYN_SENT" => snd_nxt = 1
    /\ status = "CONNECTING" => /\ cl_state \in {"SYN_SENT", "RESET"}
                                /\ client_seq = 1 /\ tx_queue_size = 0
                                /\ ~client_closed /\ ~fin_ack_sent
    /\ status = "CONNECTED" => cl_state \in {"ESTABLISHED", "RESET"}

\* What is on its way follows one another, and the FIN is the last.
Carried ==
    \A i \in 1..Len(tun) :
        /\ Carries(tun[i]) => tun[i].seq >= 1 /\ Reach(tun[i]) <= snd_nxt
        /\ "FIN" \in tun[i].flags => cl_fin /\ Reach(tun[i]) = snd_nxt
        /\ \A j \in (i + 1)..Len(tun) :
               Carries(tun[i]) /\ Carries(tun[j]) => Reach(tun[i]) <= tun[j].seq

\* zdtun has taken no more than was sent, and nothing of what is on its way.
TakenSent ==
    Live /\ ~client_closed =>
        /\ client_seq + tx_queue_size <= snd_nxt
        /\ \A i \in 1..Len(tun) : Carries(tun[i]) => client_seq + tx_queue_size <= tun[i].seq

\* After the FIN of the client nothing more is taken or written.
EndTaken ==
    client_closed =>
        /\ status # "NEW" /\ cl_fin /\ \A i \in 1..Len(tun) : ~Carries(tun[i])
        /\ Live => client_seq <= snd_nxt
        /\ sock => wr_shut

Told ==
    /\ status \notin OpenStatuses /\ ready # "stopped" => Notified
    /\ fin_ack_sent => Notified
    /\ status = "CONNECTED" /\ ~sock => fin_ack_sent
    /\ status = "CONNECTED" /\ sock /\ cl_state = "ESTABLISHED" => rcv_nxt = zdtun_seq

\* As long as the client has sent nothing twice
KnowInv ==
    probes = 0 => SynFirst /\ Handshake /\ Carried /\ TakenSent /\ EndTaken /\ Told

Known == SynFirst /\ Handshake /\ Carried /\ TakenSent /\ EndTaken /\ Told

LEMMA KnowFields ==
    ASSUME TypeInv
    PROVE  /\ tun \in Seq(Segments) /\ Len(tun) \in Nat /\ snd_nxt \in Nat
           /\ \A i \in 1..Len(tun) : /\ tun[i] \in Segments
                                     /\ tun[i].seq \in Nat /\ tun[i].len \in Nat
           /\ client_seq \in Nat /\ tx_queue_size \in Nat /\ Len(tx_queue) <= tx_queue_size
           /\ Len(tx_queue) \in Nat
  <1>1. tun \in Seq(Segments) /\ Len(tun) \in Nat
    BY TunFields
  <1>2. \A i \in 1..Len(tun) : tun[i] \in Segments
    BY <1>1, ElementOfSeq
  <1>3. /\ client_seq \in Nat /\ tx_queue_size \in Nat /\ Len(tx_queue) <= tx_queue_size
        /\ tx_queue \in Seq(Nat) /\ snd_nxt \in Nat
    BY ConnFields DEF TypeInv, ClientInv, ClientTypeOK
  <1> QED
    BY <1>1, <1>2, <1>3, SegmentFields

LEMMA ReachMore ==
    ASSUME NEW seg \in Segments
    PROVE  /\ Reach(seg) \in Nat
           /\ Carries(seg) => Reach(seg) > seg.seq
           /\ ~Carries(seg) => Reach(seg) = seg.seq /\ seg.len = 0
           /\ seg.seq + seg.len <= Reach(seg)
           /\ "FIN" \in seg.flags => Reach(seg) = seg.seq + seg.len + 1
  BY SegmentFields DEF Reach, Carries

\* The ACK number of every segment of zdtun lies within what the client has sent.
LEMMA AckWithin ==
    ASSUME TypeInv, Known, Live
    PROVE  client_seq <= snd_nxt
  <1>1. CASE client_closed
    BY <1>1 DEF Known, EndTaken
  <1>2. CASE ~client_closed
    <2>1. client_seq + tx_queue_size <= snd_nxt
      BY <1>2 DEF Known, TakenSent
    <2> QED
      BY <2>1, KnowFields
  <1> QED
    BY <1>1, <1>2

\* A RST reaches the client.
LEMMA ResetReaches ==
    ASSUME TypeInv, Known, Live, NEW seg, seg.flags = {"RST", "ACK"}, seg.ack = client_seq,
           ClientGets(seg)
    PROVE  cl_state' = "RESET" /\ UNCHANGED <<snd_nxt, cl_fin, cl_eof, rcv_nxt, probes>>
  <1>1. \/ cl_state = "RESET"
        \/ cl_state = "ESTABLISHED"
        \/ cl_state = "SYN_SENT" /\ client_seq = snd_nxt
    BY DEF Live, Known, Handshake
  <1>2. client_seq <= snd_nxt
    BY AckWithin
  <1>3. cl_state = "RESET" \/ AnswersSyn(seg) \/ Acceptable(seg)
    BY <1>1, <1>2 DEF AnswersSyn, Acceptable
  <1>4. ~ClientOpens(seg) /\ ~ClientTakes(seg)
    BY DEF ClientOpens, ClientTakes
  <1> QED
    BY <1>3, <1>4 DEF ClientGets, ClientAborts, ClientDrops, Acceptable, AnswersSyn

\* zdtun_conn_close tells the client.
LEMMA CloseNotifies ==
    ASSUME TypeInv, Known, Live, NEW st, ConnClose(st), "send_error" \notin Allow
    PROVE  /\ Notified' /\ cl_state' \in {cl_state, "RESET"}
           /\ UNCHANGED <<snd_nxt, cl_fin, fin_ack_sent, probes>>
           /\ Closed(st, 1)
  <1>1. CASE fin_ack_sent /\ UNCHANGED clVars /\ Closed(st, 1) /\ UNCHANGED fin_ack_sent
    BY <1>1 DEF Known, Told, Notified, clVars
  <1>2. CASE /\ ~fin_ack_sent /\ ClientGets(Reply({"RST", "ACK"}, client_seq, 0))
             /\ Closed(st, 1) /\ UNCHANGED fin_ack_sent
    <2> DEFINE seg == Reply({"RST", "ACK"}, client_seq, 0)
    <2>1. seg.flags = {"RST", "ACK"} /\ seg.ack = client_seq
      BY DEF Reply
    <2> HIDE DEF seg
    <2>2. cl_state' = "RESET" /\ UNCHANGED <<snd_nxt, cl_fin, probes>>
      BY <1>2, <2>1, ResetReaches DEF seg
    <2> QED
      BY <1>2, <2>2 DEF Notified
  <1> QED
    BY <1>1, <1>2 DEF ConnClose, SendError
-----------------------------------------------------------------------------
LEMMA ShrunkCarried ==
    ASSUME TypeInv, Carried, TunShrinks, UNCHANGED <<snd_nxt, cl_fin>>
    PROVE  /\ Carried'
           /\ (\A i \in 1..Len(tun) : ~Carries(tun[i])) => \A i \in 1..Len(tun') : ~Carries(tun'[i])
           /\ \A b \in Nat : (\A i \in 1..Len(tun) : Carries(tun[i]) => b <= tun[i].seq)
                                => \A i \in 1..Len(tun') : Carries(tun'[i]) => b <= tun'[i].seq
  <1>1. PICK d \in {0, 1} : /\ Len(tun') = Len(tun) - d
                            /\ \A i \in 1..Len(tun') : i + d \in 1..Len(tun) /\ tun'[i] = tun[i + d]
    BY Shrunk
  <1>2. ASSUME NEW i \in 1..Len(tun')
        PROVE  /\ Carries(tun'[i]) => tun'[i].seq >= 1 /\ Reach(tun'[i]) <= snd_nxt'
               /\ "FIN" \in tun'[i].flags => cl_fin' /\ Reach(tun'[i]) = snd_nxt'
               /\ \A j \in (i + 1)..Len(tun') :
                      Carries(tun'[i]) /\ Carries(tun'[j]) => Reach(tun'[i]) <= tun'[j].seq
    <2>1. i + d \in 1..Len(tun) /\ tun'[i] = tun[i + d]
      BY <1>1
    <2>2. ASSUME NEW j \in (i + 1)..Len(tun')
          PROVE  j + d \in (i + d + 1)..Len(tun) /\ tun'[j] = tun[j + d]
      <3>1. j \in 1..Len(tun')
        BY <1>1, KnowFields
      <3> QED
        BY <1>1, <3>1, KnowFields
    <2> QED
      BY <2>1, <2>2 DEF Carried
  <1>3. Carried'
    BY <1>2 DEF Carried
  <1> QED
    BY <1>1, <1>3

\* The connection ends, and the client is told.
LEMMA EndsKnown ==
    ASSUME TypeInv, Known, TunShrinks, UNCHANGED <<snd_nxt, cl_fin>>,
           cl_state' \in {cl_state, "RESET"}, ~sock', status' \notin OpenStatuses,
           client_closed' => cl_fin /\ \A i \in 1..Len(tun') : ~Carries(tun'[i]),
           ready' # "stopped" => Notified', fin_ack_sent' => Notified'
    PROVE  Known'
  <1>1. Carried'
    BY ShrunkCarried DEF Known
  <1>2. SynFirst' /\ TakenSent' /\ EndTaken' /\ Told'
    BY DEF SynFirst, TakenSent, EndTaken, Told, Live, OpenStatuses
  <1>3. Handshake'
    BY DEF Known, Handshake, OpenStatuses
  <1> QED
    BY <1>1, <1>2, <1>3 DEF Known

\* ... by zdtun_conn_close
LEMMA CloseKnown ==
    ASSUME TypeInv, Known, Live, TunShrinks, NEW st, ConnClose(st), st \notin OpenStatuses,
           client_closed' = client_closed, "send_error" \notin Allow
    PROVE  Known'
  <1>1. /\ Notified' /\ cl_state' \in {cl_state, "RESET"} /\ UNCHANGED <<snd_nxt, cl_fin>>
        /\ Closed(st, 1)
    BY CloseNotifies
  <1>2. client_closed => cl_fin /\ \A i \in 1..Len(tun') : ~Carries(tun'[i])
    BY <1>1, ShrunkCarried DEF Known, EndTaken
  <1> QED
    BY <1>1, <1>2, EndsKnown DEF Closed, CloseSocket

\* The connection goes on.
LEMMA GoesOnKnown ==
    ASSUME TypeInv, Known, TunShrinks, UNCHANGED <<snd_nxt, cl_fin, client_closed>>,
           Live, status' = status, cl_state' \in {cl_state, "RESET"},
           status = "CONNECTING" => UNCHANGED <<client_seq, tx_queue_size, fin_ack_sent>>,
           client_closed => client_seq' = client_seq /\ (sock' => sock /\ wr_shut'),
           TakenSent', Told'
    PROVE  Known'
  <1>1. Carried'
    BY ShrunkCarried DEF Known
  <1>2. SynFirst'
    BY DEF SynFirst, Live
  <1>3. Handshake'
    BY DEF Known, Handshake
  <1>4. EndTaken'
    <2> SUFFICES ASSUME client_closed
                 PROVE  EndTaken'
      BY DEF EndTaken
    <2>1. \A i \in 1..Len(tun') : ~Carries(tun'[i])
      BY ShrunkCarried DEF Known, EndTaken
    <2> QED
      BY <2>1 DEF Known, EndTaken, Live
  <1> QED
    BY <1>1, <1>2, <1>3, <1>4 DEF Known

\* The client is sent a segment that takes nothing of the end of its stream.
LEMMA KeptTold ==
    ASSUME Known, ClientKeeps, UNCHANGED <<status, sock, fin_ack_sent, zdtun_seq>>,
           ready' # "stopped", ready # "stopped"
    PROVE  Told'
  BY DEF Known, Told, Notified, ClientKeeps
-----------------------------------------------------------------------------
\* The client puts one more segment on the TUN queue.
LEMMA SendKnown ==
    ASSUME TypeInv, Known, UNCHANGED connVars, UNCHANGED srvVars,
           UNCHANGED <<ready, rcv_nxt, cl_eof>>,
           NEW seg \in Segments, Send(seg),
           snd_nxt' \in Nat, snd_nxt' >= snd_nxt, cl_fin => cl_fin' /\ snd_nxt' = snd_nxt,
           Carries(seg) => /\ seg.seq = snd_nxt /\ snd_nxt >= 1
                           /\ Reach(seg) = snd_nxt' /\ ~cl_fin,
           "FIN" \in seg.flags => cl_fin',
           cl_state = "CLOSED" => seg.seq = 0, cl_state' # "CLOSED",
           cl_state' = "ESTABLISHED" => cl_state = "ESTABLISHED",
           cl_state = "RESET" => cl_state' = "RESET",
           Handshake'
    PROVE  Known'
  <1>1. /\ tun' \in Seq(Segments) /\ Len(tun') = Len(tun) + 1
        /\ \A i \in 1..Len(tun) : tun'[i] = tun[i]
        /\ tun'[Len(tun) + 1] = seg
    BY KnowFields DEF Send
  <1>2. UNCHANGED <<status, sock, tx_queue_size, client_seq, client_closed, fin_ack_sent,
                    zdtun_seq, wr_shut>>
    BY DEF connVars, srvVars
  <1>3. SynFirst'
    <2> SUFFICES ASSUME status = "NEW"
                 PROVE  tun' # <<>> /\ tun'[1].seq = 0
      BY <1>2 DEF Known, SynFirst
    <2>1. tun' # <<>>
      BY <1>1, KnowFields, EmptySeq
    <2>2. CASE cl_state = "CLOSED"
      <3>1. Len(tun) = 0
        BY <2>2, EmptySeq DEF Known, SynFirst
      <3> QED
        BY <1>1, <2>1, <2>2, <3>1
    <2>3. CASE cl_state # "CLOSED"
      <3>1. tun # <<>> /\ tun[1].seq = 0
        BY <2>3 DEF Known, SynFirst
      <3>2. 1 \in 1..Len(tun)
        BY <3>1, KnowFields, EmptySeq
      <3> QED
        BY <1>1, <2>1, <3>1, <3>2
    <2> QED
      BY <2>2, <2>3
  <1>4. Carried'
    <2> SUFFICES ASSUME NEW i \in 1..Len(tun')
                 PROVE  /\ Carries(tun'[i]) => tun'[i].seq >= 1 /\ Reach(tun'[i]) <= snd_nxt'
                        /\ "FIN" \in tun'[i].flags => cl_fin' /\ Reach(tun'[i]) = snd_nxt'
                        /\ \A j \in (i + 1)..Len(tun') :
                               Carries(tun'[i]) /\ Carries(tun'[j]) => Reach(tun'[i]) <= tun'[j].seq
      BY DEF Carried
    <2>1. CASE i = Len(tun) + 1
      <3>1. "FIN" \in seg.flags => Carries(seg)
        BY DEF Carries
      <3> QED
        BY <1>1, <2>1, <3>1, KnowFields
    <2>2. CASE i \in 1..Len(tun)
      <3>1. /\ Carries(tun[i]) => tun[i].seq >= 1 /\ Reach(tun[i]) <= snd_nxt
            /\ "FIN" \in tun[i].flags => cl_fin /\ Reach(tun[i]) = snd_nxt
            /\ \A j \in (i + 1)..Len(tun) :
                   Carries(tun[i]) /\ Carries(tun[j]) => Reach(tun[i]) <= tun[j].seq
        BY <2>2 DEF Known, Carried
      <3>2. tun'[i] = tun[i] /\ tun[i] \in Segments /\ snd_nxt \in Nat
        BY <1>1, <2>2, KnowFields
      <3>3. Carries(tun[i]) => tun[i].seq >= 1 /\ Reach(tun[i]) <= snd_nxt'
        BY <3>1, <3>2, ReachMore
      <3>4. ASSUME NEW j \in (i + 1)..Len(tun'), Carries(tun[i]), Carries(tun'[j])
            PROVE  Reach(tun[i]) <= tun'[j].seq
        <4>1. CASE j \in (i + 1)..Len(tun)
          <5>1. j \in 1..Len(tun)
            BY <2>2, <4>1, KnowFields
          <5> QED
            BY <1>1, <3>1, <3>4, <4>1, <5>1
        <4>2. CASE j = Len(tun) + 1
          BY <1>1, <3>1, <3>4, <4>2
        <4> QED
          BY <1>1, <2>2, <4>1, <4>2, KnowFields
      <3> QED
        BY <3>1, <3>2, <3>3, <3>4
    <2> QED
      BY <1>1, <2>1, <2>2, KnowFields
  <1>5. TakenSent'
    <2> SUFFICES ASSUME Live, ~client_closed
                 PROVE  /\ client_seq + tx_queue_size <= snd_nxt'
                        /\ \A i \in 1..Len(tun') : Carries(tun'[i]) =>
                               client_seq + tx_queue_size <= tun'[i].seq
      BY <1>2 DEF TakenSent, Live
    <2>1. /\ client_seq + tx_queue_size <= snd_nxt
          /\ \A i \in 1..Len(tun) : Carries(tun[i]) => client_seq + tx_queue_size <= tun[i].seq
      BY DEF Known, TakenSent
    <2>2. client_seq + tx_queue_size <= snd_nxt'
      BY <2>1, KnowFields
    <2>3. ASSUME NEW i \in 1..Len(tun'), Carries(tun'[i])
          PROVE  client_seq + tx_queue_size <= tun'[i].seq
      <3>1. i \in 1..Len(tun) \/ i = Len(tun) + 1
        BY <1>1, KnowFields
      <3> QED
        BY <1>1, <2>1, <2>3, <3>1
    <2> QED
      BY <2>2, <2>3
  <1>6. EndTaken'
    <2> SUFFICES ASSUME client_closed
                 PROVE  EndTaken'
      BY <1>2 DEF EndTaken
    <2>1. cl_fin /\ \A i \in 1..Len(tun) : ~Carries(tun[i])
      BY DEF Known, EndTaken
    <2>2. ASSUME NEW i \in 1..Len(tun') PROVE ~Carries(tun'[i])
      <3>1. i \in 1..Len(tun) \/ i = Len(tun) + 1
        BY <1>1, KnowFields
      <3> QED
        BY <1>1, <2>1, <3>1
    <2> QED
      BY <1>2, <2>1, <2>2 DEF Known, EndTaken, Live
  <1>7. Told'
    BY <1>2 DEF Known, Told, Notified
  <1> QED
    BY <1>3, <1>4, <1>5, <1>6, <1>7 DEF Known

\* What none of the parts speaks of
LEMMA QuietKnown ==
    ASSUME Known, UNCHANGED connVars,
           UNCHANGED <<tun, cl_state, snd_nxt, cl_fin, cl_eof, rcv_nxt, wr_shut>>,
           ready' # "stopped" => ready # "stopped"
    PROVE  Known'
  <1>1. UNCHANGED <<status, sock, tx_queue_size, client_seq, client_closed, fin_ack_sent, zdtun_seq>>
    BY DEF connVars
  <1>2. Told'
    BY <1>1 DEF Known, Told, Notified
  <1>3. SynFirst' /\ Handshake' /\ Carried' /\ TakenSent' /\ EndTaken'
    BY <1>1 DEF Known, SynFirst, Handshake, Carried, TakenSent, EndTaken, Live
  <1> QED
    BY <1>2, <1>3 DEF Known

LEMMA ClientKnown ==
    ASSUME TypeInv, Known, Client, probes' = 0, probes = 0
    PROVE  Known'
  <1>1. /\ ClientInv /\ snd_nxt \in Nat /\ snd_una \in Nat /\ probes \in Nat
        /\ UNCHANGED connVars /\ UNCHANGED srvVars /\ UNCHANGED <<ready, rcv_nxt, cl_eof>>
    BY DEF Client, ClientConnect, ClientSend, ClientFin, ClientAck, ClientRead,
           ClientReset, ClientRefuses, ClientKeepAlive, ClientRetransmit,
           TypeInv, ClientInv, ClientTypeOK
  <1>2. UNCHANGED <<status, client_seq, tx_queue_size, client_closed, fin_ack_sent>>
    BY <1>1 DEF connVars
  <1>3. CASE ClientConnect
    <2> DEFINE syn == [flags |-> {"SYN"}, seq |-> 0, len |-> 0, ack |-> 0, win |-> RcvBuf]
    <2>1. syn \in Segments /\ syn.seq = 0 /\ ~Carries(syn) /\ "FIN" \notin syn.flags
      <3>1. syn \in Segments
        BY ConstantsAssumption DEF Segments
      <3>2. syn.seq = 0 /\ syn.len = 0 /\ syn.flags = {"SYN"}
        OBVIOUS
      <3> QED
        BY <3>1, <3>2 DEF Carries
    <2>2. Send(syn)
      BY <1>3 DEF ClientConnect
    <2> HIDE DEF syn
    <2>3. /\ cl_state = "CLOSED" /\ cl_state' = "SYN_SENT" /\ snd_nxt' = 1 /\ cl_fin' = cl_fin
      BY <1>3 DEF ClientConnect
    <2>4. snd_nxt' \in Nat /\ snd_nxt' >= snd_nxt /\ ~cl_fin
      BY <1>1, <2>3 DEF ClientInv, Known, Handshake
    <2>5. Handshake'
      BY <1>2, <2>3, <2>4 DEF Known, Handshake
    <2> QED
      BY <1>1, <2>1, <2>2, <2>3, <2>4, <2>5, SendKnown
  <1>4. CASE ClientSend
    <2>1. PICK n \in 1..SegMax, urg \in {{}, {"URG"}} :
            /\ Send(Segment({"ACK"} \cup urg, snd_nxt, n))
            /\ snd_nxt' = snd_nxt + n /\ ~cl_fin /\ cl_fin' = cl_fin
            /\ cl_state = "ESTABLISHED" /\ cl_state' = cl_state
      BY <1>4 DEF ClientSend
    <2> DEFINE seg == Segment({"ACK"} \cup urg, snd_nxt, n)
    <2>2. /\ seg \in Segments /\ seg.seq = snd_nxt /\ seg.len = n /\ "FIN" \notin seg.flags
      BY <1>1, SegmentShape
    <2>3. Send(seg)
      BY <2>1
    <2> HIDE DEF seg
    <2>4. snd_nxt' \in Nat /\ snd_nxt' >= snd_nxt /\ snd_nxt >= 1
      BY <1>1, <2>1 DEF ClientInv
    <2>5. Reach(seg) = snd_nxt'
      BY <1>1, <2>1, <2>2 DEF Reach
    <2>6. Handshake'
      BY <1>2, <2>1 DEF Known, Handshake
    <2> QED
      BY <1>1, <2>1, <2>2, <2>3, <2>4, <2>5, <2>6, SendKnown
  <1>5. CASE ClientFin
    <2>1. PICK n \in 0..SegMax :
            /\ Send(Segment({"FIN", "ACK"}, snd_nxt, n))
            /\ snd_nxt' = snd_nxt + n + 1 /\ ~cl_fin /\ cl_fin' = TRUE
            /\ cl_state = "ESTABLISHED" /\ cl_state' = cl_state
      BY <1>5 DEF ClientFin
    <2> DEFINE seg == Segment({"FIN", "ACK"}, snd_nxt, n)
    <2>2. /\ seg \in Segments /\ seg.seq = snd_nxt /\ seg.len = n /\ "FIN" \in seg.flags
      BY <1>1, SegmentShape
    <2>3. Send(seg)
      BY <2>1
    <2> HIDE DEF seg
    <2>4. snd_nxt' \in Nat /\ snd_nxt' >= snd_nxt /\ snd_nxt >= 1
      BY <1>1, <2>1 DEF ClientInv
    <2>5. Reach(seg) = snd_nxt'
      BY <1>1, <2>1, <2>2 DEF Reach
    <2>6. Handshake'
      BY <1>2, <2>1 DEF Known, Handshake
    <2> QED
      BY <1>1, <2>1, <2>2, <2>3, <2>4, <2>5, <2>6, SendKnown
  <1>6. CASE ClientAck \/ ClientRefuses \/ ClientReset
    <2>1. PICK flags \in {{"ACK"}, {"RST"}, {"RST", "ACK"}}, seq \in Nat :
            Send(Segment(flags, seq, 0))
      BY <1>1, <1>6 DEF ClientAck, ClientRefuses, ClientReset
    <2> DEFINE seg == Segment(flags, seq, 0)
    <2>2. seg \in Segments /\ seg.len = 0 /\ seg.flags = flags
      BY <1>1, SegmentShape
    <2>3. Send(seg)
      BY <2>1
    <2> HIDE DEF seg
    <2>4. ~Carries(seg) /\ "FIN" \notin seg.flags
      BY <2>2 DEF Carries
    <2>5. /\ UNCHANGED <<snd_nxt, cl_fin>> /\ cl_state # "CLOSED"
          /\ cl_state' \in {cl_state, "RESET"}
      BY <1>6 DEF ClientAck, ClientRefuses, ClientReset
    <2>6. snd_nxt' \in Nat /\ snd_nxt' >= snd_nxt
      BY <1>1, <2>5
    <2>7. Handshake'
      BY <1>2, <2>5 DEF Known, Handshake
    <2> QED
      BY <1>1, <2>2, <2>3, <2>4, <2>5, <2>6, <2>7, SendKnown
  <1>7. CASE ClientRead
    BY <1>1, <1>7, QuietKnown DEF ClientRead, srvVars
  <1>8. ~ClientKeepAlive /\ ~ClientRetransmit
    BY <1>1 DEF ClientKeepAlive, ClientRetransmit
  <1> QED
    BY <1>3, <1>4, <1>5, <1>6, <1>7, <1>8 DEF Client
-----------------------------------------------------------------------------
\* The SYN+ACK reaches a client that waits for it.
LEMMA SynAckReaches ==
    ASSUME NEW seg, seg.flags = {"SYN", "ACK"}, cl_state \in {"SYN_SENT", "RESET"},
           cl_state = "SYN_SENT" => seg.ack = snd_nxt, ClientGets(seg)
    PROVE  /\ UNCHANGED <<snd_nxt, cl_fin, cl_eof, probes>>
           /\ \/ cl_state = "RESET" /\ cl_state' = "RESET"
              \/ cl_state' = "ESTABLISHED" /\ rcv_nxt' = seg.seq + 1
  BY DEF ClientGets, ClientOpens, ClientAborts, ClientTakes, ClientDrops, Acceptable, AnswersSyn

\* The connect is done: what is taken starts behind the SYN.
LEMMA OpensKnown ==
    ASSUME TypeInv, Known, TunShrinks, cl_state \in {"SYN_SENT", "RESET"},
           ~client_closed, ~fin_ack_sent, client_seq' = 1, tx_queue_size' = 0, snd_nxt >= 1,
           \/ status' = "CONNECTING" /\ UNCHANGED clVars
           \/ /\ status' = "CONNECTED"
              /\ \E seg : /\ seg.flags = {"SYN", "ACK"} /\ seg.ack = 1
                          /\ zdtun_seq' = seg.seq + 1 /\ ClientGets(seg),
           sock' = TRUE, UNCHANGED <<client_closed, fin_ack_sent>>, ready' = "idle"
    PROVE  Known'
  <1>1. cl_state = "SYN_SENT" => snd_nxt = 1
    BY DEF Known, Handshake
  <1>2. /\ UNCHANGED <<snd_nxt, cl_fin>>
        /\ \/ status' = "CONNECTING" /\ cl_state' = cl_state
           \/ /\ status' = "CONNECTED"
              /\ \/ cl_state = "RESET" /\ cl_state' = "RESET"
                 \/ cl_state' = "ESTABLISHED" /\ rcv_nxt' = zdtun_seq'
    BY <1>1, SynAckReaches DEF clVars
  <1>3. SynFirst' /\ Handshake' /\ EndTaken' /\ Told'
    <2>1. SynFirst' /\ EndTaken'
      BY <1>2 DEF SynFirst, EndTaken
    <2>2. Handshake'
      BY <1>1, <1>2 DEF Known, Handshake
    <2>3. Told'
      BY <1>2 DEF Told, OpenStatuses
    <2> QED
      BY <2>1, <2>2, <2>3
  <1>4. Carried'
    BY <1>2, ShrunkCarried DEF Known
  <1>5. TakenSent'
    <2>1. client_seq' + tx_queue_size' = 1
      OBVIOUS
    <2>2. \A i \in 1..Len(tun') : Carries(tun'[i]) => 1 <= tun'[i].seq
      <3>1. \A i \in 1..Len(tun) : Carries(tun[i]) => 1 <= tun[i].seq
        BY KnowFields DEF Known, Carried
      <3> QED
        BY <1>2, <3>1, ShrunkCarried DEF Known
    <2> QED
      BY <1>2, <2>1, <2>2 DEF TakenSent
  <1> QED
    BY <1>3, <1>4, <1>5 DEF Known

LEMMA SynKnown ==
    ASSUME TypeInv, Known, DownInv, FwdConnect \/ FwdConnected, "send_error" \notin Allow
    PROVE  Known'
  <1>1. Forward(status = "NEW") /\ ready' = "idle"
    BY DEF FwdConnect, FwdConnected, Forward
  <1>2. /\ status = "NEW" /\ TunShrinks /\ pkt = tun[1] /\ tun # <<>>
    BY <1>1, ForwardHead
  <1>3. /\ cl_state # "CLOSED" /\ pkt.seq = 0 /\ tx_queue_size = 0
        /\ ~fin_ack_sent /\ ~client_closed
    BY <1>2 DEF Known, SynFirst
  <1>4. cl_state \in {"SYN_SENT", "RESET"}
    BY <1>2, <1>3 DEF DownInv, BeforeConnected, TypeInv, ClientInv, ClientTypeOK
  <1>5. snd_nxt \in Nat /\ snd_nxt >= 1
    BY <1>3 DEF TypeInv, ClientInv, ClientTypeOK
  <1>6. /\ client_seq' = 1 /\ tx_queue_size' = 0 /\ sock' = TRUE
        /\ UNCHANGED <<client_closed, fin_ack_sent>>
    BY <1>3 DEF FwdConnect, FwdConnected, ClosedOnSendError, SendError
  <1>7. \/ status' = "CONNECTING" /\ UNCHANGED clVars
        \/ /\ status' = "CONNECTED"
           /\ \E seg : /\ seg.flags = {"SYN", "ACK"} /\ seg.ack = 1
                       /\ zdtun_seq' = seg.seq + 1 /\ ClientGets(seg)
    <2>1. CASE FwdConnect
      BY <2>1 DEF FwdConnect
    <2>2. CASE FwdConnected
      <3> DEFINE seg == [Reply({"SYN", "ACK"}, client_seq', 0) EXCEPT !.seq = ISS]
      <3>1. status' = "CONNECTED" /\ zdtun_seq' = ISS + 1 /\ ClientGets(seg)
        BY <2>2 DEF FwdConnected, ClosedOnSendError, SendError
      <3>2. seg.flags = {"SYN", "ACK"} /\ seg.ack = client_seq' /\ seg.seq = ISS
        BY DEF Reply
      <3> HIDE DEF seg
      <3> QED
        BY <1>6, <3>1, <3>2
    <2> QED
      BY <2>1, <2>2
  <1> QED
    BY <1>1, <1>2, <1>3, <1>4, <1>5, <1>6, <1>7, OpensKnown

\* The FIN of the client: the last that is taken.
LEMMA FinKnown ==
    ASSUME TypeInv, Known, FwdFin, "send_error" \notin Allow
    PROVE  Known'
  <1>1. Forward(Established /\ InSequence /\ "FIN" \in pkt.flags) /\ ready' = "idle"
        /\ ready = "tun"
    BY DEF FwdFin, Forward
  <1>2. /\ status = "CONNECTED" /\ "FIN" \in pkt.flags /\ TunShrinks /\ pkt = tun[1]
        /\ 1 \in 1..Len(tun) /\ pkt \in Segments /\ Len(tun') = Len(tun) - 1
        /\ \A i \in 1..Len(tun') : i + 1 \in 2..Len(tun) /\ tun'[i] = tun[i + 1]
    BY <1>1, ForwardHead DEF Established
  <1>3. Carries(pkt) /\ cl_fin /\ Reach(pkt) = snd_nxt
    BY <1>2 DEF Carries, Known, Carried
  <1>4. ~client_closed
    BY <1>2, <1>3 DEF Known, EndTaken
  <1>5. ASSUME NEW i \in 1..Len(tun') PROVE ~Carries(tun'[i])
    <2>1. i + 1 \in (1 + 1)..Len(tun) /\ i + 1 \in 1..Len(tun) /\ tun'[i] = tun[i + 1]
      BY <1>2, KnowFields
    <2>2. /\ Carries(tun[i + 1]) => Reach(pkt) <= tun[i + 1].seq
          /\ Carries(tun[i + 1]) => Reach(tun[i + 1]) <= snd_nxt
      BY <1>2, <1>3, <2>1 DEF Known, Carried
    <2>3. tun[i + 1] \in Segments /\ tun[i + 1].seq \in Nat
      BY <2>1, KnowFields
    <2>4. Carries(tun[i + 1]) => Reach(tun[i + 1]) > tun[i + 1].seq
      BY <2>3, ReachMore
    <2>5. Reach(tun[i + 1]) \in Nat /\ snd_nxt \in Nat
      BY <2>3, ReachMore, KnowFields
    <2>6. ~Carries(tun[i + 1])
      BY <1>3, <2>2, <2>3, <2>4, <2>5
    <2> QED
      BY <2>1, <2>6
  <1>6. client_seq + tx_queue_size <= pkt.seq
    BY <1>2, <1>3, <1>4 DEF Known, TakenSent, Live
  <1>7. client_seq' = client_seq + pkt.len + 1 /\ client_closed' = TRUE
        /\ ClientGets(Reply({"ACK"}, client_seq', 0))
    BY DEF FwdFin, ClosedOnSendError, SendError
  <1>8. client_seq' \in Nat /\ client_seq' <= snd_nxt
    <2>1. pkt.seq \in Nat /\ pkt.len \in Nat /\ Reach(pkt) = pkt.seq + pkt.len + 1
      BY <1>2, ReachMore, SegmentFields
    <2> QED
      BY <1>3, <1>6, <1>7, <2>1, KnowFields, SMTT(40)
  <1>9. ClientKeeps /\ UNCHANGED <<snd_nxt, cl_fin>>
    BY <1>7, <1>8, EmptyReply, ClientGetsKeeps
  <1>10. CASE sock /\ UNCHANGED <<status, sock, fin_ack_sent>>
    <2>1. Told'
      BY <1>1, <1>9, <1>10, KeptTold DEF FwdFin
    <2>2. Carried'
      BY <1>2, <1>9, ShrunkCarried DEF Known
    <2>3. SynFirst' /\ TakenSent'
      BY <1>2, <1>7, <1>10 DEF SynFirst, TakenSent
    <2>4. Handshake'
      BY <1>2, <1>9, <1>10 DEF Known, Handshake, ClientKeeps
    <2>5. wr_shut' = TRUE
      BY <1>10 DEF FwdFin
    <2>6. EndTaken'
      BY <1>2, <1>3, <1>5, <1>8, <1>9, <1>10, <2>5 DEF EndTaken
    <2> QED
      BY <2>1, <2>2, <2>3, <2>4, <2>6 DEF Known
  <1>11. CASE ~sock /\ fin_ack_sent /\ Closed("CLOSED", 1)
    <2>1. Notified'
      BY <1>9, <1>11 DEF Known, Told, Notified, ClientKeeps
    <2>2. cl_state' \in {cl_state, "RESET"}
      BY <1>9 DEF ClientKeeps
    <2>3. ~sock' /\ status' \notin OpenStatuses
      BY <1>11 DEF Closed, CloseSocket, OpenStatuses
    <2> QED
      BY <1>2, <1>3, <1>5, <1>9, <2>1, <2>2, <2>3, EndsKnown
  <1> QED
    BY <1>10, <1>11 DEF FwdFin, ClosedOnSendError, SendError

\* What is taken goes on with the packet that is handled, or stays.
LEMMA TakesKnown ==
    ASSUME TypeInv, Known, Live, NEW guard, Forward(guard), status' = status,
           UNCHANGED <<client_closed, snd_nxt>>,
           ~client_closed =>
               \/ client_seq' + tx_queue_size' = client_seq + tx_queue_size
               \/ /\ Carries(pkt) /\ client_seq' + tx_queue_size' \in Nat
                  /\ client_seq' + tx_queue_size' <= Reach(pkt)
    PROVE  TakenSent'
  <1>1. /\ TunShrinks /\ pkt = tun[1] /\ 1 \in 1..Len(tun) /\ pkt \in Segments
        /\ \A i \in 1..Len(tun') : i + 1 \in 2..Len(tun) /\ tun'[i] = tun[i + 1]
    BY ForwardHead
  <1> SUFFICES ASSUME ~client_closed
               PROVE  /\ client_seq' + tx_queue_size' <= snd_nxt
                      /\ \A i \in 1..Len(tun') : Carries(tun'[i]) =>
                             client_seq' + tx_queue_size' <= tun'[i].seq
    BY DEF TakenSent
  <1>2. /\ client_seq + tx_queue_size <= snd_nxt
        /\ \A i \in 1..Len(tun) : Carries(tun[i]) => client_seq + tx_queue_size <= tun[i].seq
    BY DEF Known, TakenSent
  <1>3. CASE client_seq' + tx_queue_size' = client_seq + tx_queue_size
    <2>1. ASSUME NEW i \in 1..Len(tun'), Carries(tun'[i])
          PROVE  client_seq + tx_queue_size <= tun'[i].seq
      <3>1. i + 1 \in 1..Len(tun) /\ tun'[i] = tun[i + 1]
        BY <1>1, KnowFields, SMTT(40)
      <3> QED
        BY <1>2, <2>1, <3>1
    <2> QED
      BY <1>2, <1>3, <2>1
  <1>4. CASE /\ Carries(pkt) /\ client_seq' + tx_queue_size' \in Nat
             /\ client_seq' + tx_queue_size' <= Reach(pkt)
    <2>1. Reach(pkt) \in Nat /\ Reach(pkt) <= snd_nxt
      BY <1>1, <1>4, ReachMore DEF Known, Carried
    <2>2. client_seq' + tx_queue_size' <= snd_nxt
      BY <1>4, <2>1, KnowFields
    <2>3. ASSUME NEW i \in 1..Len(tun'), Carries(tun'[i])
          PROVE  client_seq' + tx_queue_size' <= tun'[i].seq
      <3>1. i + 1 \in 2..Len(tun) /\ tun'[i] = tun[i + 1]
        BY <1>1
      <3>0. i + 1 \in (1 + 1)..Len(tun) /\ i + 1 \in 1..Len(tun)
        BY <3>1, KnowFields
      <3>2. Reach(pkt) <= tun[i + 1].seq
        BY <1>1, <1>4, <2>3, <3>0, <3>1 DEF Known, Carried
      <3> QED
        BY <1>4, <2>1, <3>0, <3>1, <3>2, KnowFields
    <2> QED
      BY <2>2, <2>3
  <1> QED
    BY <1>3, <1>4

\* A packet that is not the last of the client
LEMMA PacketKnown ==
    ASSUME TypeInv, Known, FwdKeepAlive \/ FwdAck \/ FwdAfterServerClosed,
           "send_error" \notin Allow
    PROVE  Known'
  <1>1. PICK guard : Forward(guard)
    BY DEF FwdKeepAlive, FwdAck, FwdAfterServerClosed
  <1>2. /\ TunShrinks /\ pkt = tun[1] /\ 1 \in 1..Len(tun) /\ pkt \in Segments
        /\ ready = "tun" /\ ready' = "idle"
    BY <1>1, ForwardHead DEF Forward
  <1>3. /\ status = "CONNECTED" /\ InSequence /\ "FIN" \notin pkt.flags
        /\ UNCHANGED <<status, sock, fin_ack_sent, zdtun_seq, client_closed, wr_shut>>
    BY DEF FwdKeepAlive, FwdAck, FwdAfterServerClosed, Forward, Established, InSequence,
           Plain, ClosedOnSendError, SendError, srvVars
  <1>4. /\ pkt.seq \in Nat /\ pkt.len \in Nat /\ client_seq \in Nat /\ tx_queue_size \in Nat
        /\ snd_nxt \in Nat
    BY <1>2, SegmentFields, KnowFields
  <1>5. pkt.len > 0 => /\ ~client_closed /\ client_seq + tx_queue_size <= pkt.seq
                       /\ Carries(pkt) /\ Reach(pkt) = pkt.seq + pkt.len
    <2> SUFFICES ASSUME pkt.len > 0
                 PROVE  /\ ~client_closed /\ client_seq + tx_queue_size <= pkt.seq
                        /\ Carries(pkt) /\ Reach(pkt) = pkt.seq + pkt.len
      OBVIOUS
    <2>1. Carries(pkt)
      BY DEF Carries
    <2>2. Reach(pkt) = pkt.seq + pkt.len
      BY <1>3, <1>4 DEF Reach
    <2>3. ~client_closed
      BY <1>2, <2>1 DEF Known, EndTaken
    <2>4. client_seq + tx_queue_size <= pkt.seq
      BY <1>2, <1>3, <2>1, <2>3 DEF Known, TakenSent, Live
    <2> QED
      BY <2>1, <2>2, <2>3, <2>4
  <1>6. pkt.len > 0 => ~KeepAlive /\ pkt.seq = client_seq + tx_queue_size
    BY <1>3, <1>4, <1>5 DEF KeepAlive, InSequence
  <1>7. /\ pkt.len = 0 => UNCHANGED <<client_seq, tx_queue_size>>
        /\ pkt.len > 0 =>
              \/ client_seq' = client_seq + pkt.len /\ tx_queue_size' = tx_queue_size
              \/ client_seq' = client_seq /\ tx_queue_size' = tx_queue_size + pkt.len
    <2>1. CASE FwdKeepAlive
      <3>1. pkt.len = 0 /\ client_seq' = client_seq
        BY <1>4, <1>6, <2>1 DEF FwdKeepAlive, Forward
      <3>2. tx_queue_size' = tx_queue_size
        BY <2>1, <3>1 DEF FwdKeepAlive, Enqueue
      <3> QED
        BY <3>1, <3>2
    <2>2. CASE FwdAck
      BY <2>2 DEF FwdAck, Enqueue
    <2>3. CASE FwdAfterServerClosed
      BY <1>4, <2>3 DEF FwdAfterServerClosed
    <2> QED
      BY <2>1, <2>2, <2>3
  <1>8. client_seq' \in Nat /\ (client_closed => client_seq' = client_seq)
    BY <1>4, <1>5, <1>7
  <1>9. UNCHANGED clVars \/ ClientGets(Reply({"ACK"}, client_seq', 0))
    BY DEF FwdKeepAlive, FwdAck, FwdAfterServerClosed, ClosedOnSendError, SendError
  <1>10. ClientKeeps /\ UNCHANGED <<snd_nxt, cl_fin>>
    BY <1>8, <1>9, EmptyReply, NothingKeeps, ClientGetsKeeps DEF clVars
  <1>11. \/ client_seq' + tx_queue_size' = client_seq + tx_queue_size
         \/ /\ Carries(pkt) /\ client_seq' + tx_queue_size' \in Nat
            /\ client_seq' + tx_queue_size' <= Reach(pkt)
    <2>1. CASE pkt.len = 0
      BY <1>7, <2>1
    <2>2. CASE pkt.len > 0
      BY <1>4, <1>5, <1>6, <1>7, <2>2
    <2> QED
      BY <1>4, <2>1, <2>2
  <1>12. Live
    BY <1>3 DEF Live
  <1>13. TakenSent'
    BY <1>1, <1>3, <1>10, <1>11, <1>12, TakesKnown
  <1>14. Told'
    BY <1>2, <1>3, <1>10, KeptTold
  <1>15. cl_state' \in {cl_state, "RESET"}
    BY <1>10 DEF ClientKeeps
  <1>16. client_closed => client_seq' = client_seq /\ (sock' => sock /\ wr_shut')
    BY <1>3, <1>8 DEF Known, EndTaken
  <1> QED
    BY <1>2, <1>3, <1>10, <1>12, <1>13, <1>14, <1>15, <1>16, GoesOnKnown

LEMMA ForwardKnown ==
    ASSUME TypeInv, LifeInv, DownInv, Known, ZdtunForward,
           Allow \cap {"send_error", "open_error", "connect_error"} = {}
    PROVE  Known'
  <1>0. "send_error" \notin Allow /\ ~FwdOpenError /\ ~FwdConnectError
    BY DEF FwdOpenError, FwdConnectError
  <1>1. CASE FwdToClosed
    <2>1. Forward(status \in ClosedStatuses \cup {"GONE"}) /\ ready = "tun" /\ ready' = "idle"
      BY <1>1 DEF FwdToClosed, Forward
    <2>2. TunShrinks /\ status \in ClosedStatuses \cup {"GONE"}
      <3>1. status \in ClosedStatuses \cup {"GONE"}
        BY <2>1 DEF Forward
      <3>2. TunShrinks
        BY <2>1, ForwardHead
      <3> QED
        BY <3>1, <3>2
    <2>3. ~sock /\ status \notin OpenStatuses
      BY <2>2 DEF LifeInv, SelectedSocketsAreOpen, ClosedStatuses, OpenStatuses
    <2>4. /\ UNCHANGED <<snd_nxt, cl_fin, cl_state, cl_eof, sock, client_closed, fin_ack_sent>>
          /\ status' = "GONE"
      BY <1>1 DEF FwdToClosed, clVars
    <2>5. Notified /\ Notified'
      BY <2>1, <2>3, <2>4 DEF Known, Told, Notified
    <2>6. client_closed => cl_fin /\ \A i \in 1..Len(tun') : ~Carries(tun'[i])
      BY <2>2, <2>4, ShrunkCarried DEF Known, EndTaken
    <2> QED
      BY <2>2, <2>3, <2>4, <2>5, <2>6, EndsKnown DEF OpenStatuses
  <1>2. CASE FwdUrgent \/ FwdRst
    <2>1. PICK guard : Forward(guard)
      BY <1>2 DEF FwdUrgent, FwdRst
    <2>2. TunShrinks
      BY <2>1, ForwardHead
    <2>3. PICK st \in {"ERROR", "CLOSED"} : ConnClose(st)
      BY <1>2 DEF FwdUrgent, FwdRst
    <2>4. Live /\ client_closed' = client_closed
      BY <1>2 DEF FwdUrgent, FwdRst, Forward, Established, Live
    <2> QED
      BY <1>0, <2>2, <2>3, <2>4, CloseKnown DEF OpenStatuses
  <1>3. CASE FwdConnecting \/ FwdOutOfSequence
    <2>1. PICK guard : Forward(guard)
      BY <1>3 DEF FwdConnecting, FwdOutOfSequence
    <2>2. TunShrinks /\ ready = "tun" /\ ready' = "idle"
      BY <2>1, ForwardHead DEF Forward
    <2>3. UNCHANGED connVars /\ UNCHANGED clVars /\ UNCHANGED srvVars /\ Live
      BY <1>3 DEF FwdConnecting, FwdOutOfSequence, Forward, Established, Live
    <2>4. UNCHANGED <<status, sock, client_seq, tx_queue_size, fin_ack_sent, zdtun_seq,
                      client_closed, snd_nxt, cl_fin, cl_state, wr_shut>>
      BY <2>3 DEF connVars, clVars, srvVars
    <2>5. TakenSent'
      BY <2>1, <2>3, <2>4, TakesKnown
    <2>6. Told'
      BY <2>2, <2>3, <2>4, NothingKeeps, KeptTold
    <2>7. client_closed /\ sock => wr_shut
      BY DEF Known, EndTaken
    <2> QED
      BY <2>2, <2>3, <2>4, <2>5, <2>6, <2>7, GoesOnKnown
  <1> QED
    BY <1>0, <1>1, <1>2, <1>3, SynKnown, FinKnown, PacketKnown DEF ZdtunForward
-----------------------------------------------------------------------------
\* Data of the server reaches the client whole: it has room for it.
LEMMA DataReaches ==
    ASSUME TypeInv, WinInv, Known, status = "CONNECTED", sock, RecvLen > 0,
           ClientGets(Reply({"ACK"}, client_seq, RecvLen))
    PROVE  /\ UNCHANGED <<snd_nxt, cl_fin, cl_state, cl_eof>>
           /\ cl_state = "ESTABLISHED" => rcv_nxt' = zdtun_seq + RecvLen
  <1> DEFINE seg == Reply({"ACK"}, client_seq, RecvLen)
  <1>1. seg.flags = {"ACK"} /\ seg.ack = client_seq /\ seg.seq = zdtun_seq /\ seg.len = RecvLen
    BY DEF Reply
  <1>2. client_seq <= snd_nxt
    BY AckWithin DEF Live
  <1> HIDE DEF seg
  <1>3. ClientGets(seg)
    BY DEF seg
  <1>4. UNCHANGED <<snd_nxt, cl_fin>>
    BY <1>3, ClientGetsKeeps
  <1>5. CASE cl_state = "RESET"
    BY <1>1, <1>3, <1>4, <1>5
       DEF ClientGets, ClientOpens, ClientAborts, ClientTakes, ClientDrops, AnswersSyn, Acceptable
  <1>6. CASE cl_state = "ESTABLISHED"
    <2>1. Acceptable(seg) /\ ~AnswersSyn(seg)
      BY <1>1, <1>2, <1>6 DEF Acceptable, AnswersSyn
    <2>2. ClientTakes(seg)
      BY <1>1, <1>3, <2>1 DEF ClientGets, ClientOpens, ClientAborts, ClientDrops
    <2>3. rcv_nxt = zdtun_seq /\ zdtun_seq + window_size <= rcv_nxt + (RcvBuf - rcv_used)
      BY <1>6 DEF Known, Told, WinInv, ClientAllows, ClientEdge
    <2>4. RecvLen \in Nat /\ RecvLen <= window_size
      BY DownFields, RecvLenType DEF RecvLen, MinOf
    <2>5. RecvLen <= RcvBuf - rcv_used
      BY <2>3, <2>4, DownFields
    <2>6. Accepted(seg) = RecvLen
      BY <1>1, <2>3, <2>4, <2>5, DownFields DEF Accepted, MinOf
    <2>7. ~FinInOrder(seg)
      BY <1>1 DEF FinInOrder
    <2> QED
      BY <1>4, <1>6, <2>2, <2>3, <2>4, <2>6, <2>7, DownFields, SMTT(40) DEF ClientTakes
  <1> QED
    BY <1>5, <1>6 DEF Known, Handshake

\* The FIN reaches the client: nothing before it was lost.
LEMMA FinReaches ==
    ASSUME TypeInv, Known, status = "CONNECTED", sock,
           ClientGets(Reply({"FIN", "ACK"}, client_seq, 0))
    PROVE  Notified' /\ UNCHANGED <<snd_nxt, cl_fin, cl_state>>
  <1> DEFINE seg == Reply({"FIN", "ACK"}, client_seq, 0)
  <1>1. seg.flags = {"FIN", "ACK"} /\ seg.ack = client_seq /\ seg.seq = zdtun_seq
    BY DEF Reply
  <1>2. client_seq <= snd_nxt
    BY AckWithin DEF Live
  <1> HIDE DEF seg
  <1>3. ClientGets(seg)
    BY DEF seg
  <1>4. UNCHANGED <<snd_nxt, cl_fin>>
    BY <1>3, ClientGetsKeeps
  <1>5. CASE cl_state = "RESET"
    BY <1>1, <1>3, <1>4, <1>5
       DEF ClientGets, ClientOpens, ClientAborts, ClientTakes, ClientDrops, AnswersSyn,
           Acceptable, Notified
  <1>6. CASE cl_state = "ESTABLISHED"
    <2>1. Acceptable(seg) /\ ~AnswersSyn(seg)
      BY <1>1, <1>2, <1>6 DEF Acceptable, AnswersSyn
    <2>2. ClientTakes(seg)
      BY <1>1, <1>3, <2>1 DEF ClientGets, ClientOpens, ClientAborts, ClientDrops
    <2>3. FinInOrder(seg)
      BY <1>1, <1>6 DEF FinInOrder, Known, Told
    <2> QED
      BY <1>4, <2>2, <2>3 DEF ClientTakes, Notified
  <1> QED
    BY <1>5, <1>6 DEF Known, Handshake

LEMMA HandleKnown ==
    ASSUME TypeInv, LifeInv, DownInv, WinInv, Known, ZdtunHandleFd, "send_error" \notin Allow
    PROVE  Known'
  <1>1. /\ tun' = tun /\ client_closed' = client_closed /\ sock /\ ready' = "idle"
        /\ ready # "stopped"
    BY DEF ZdtunHandleFd, ReplyError, ReplyEof, ReplyData, ConnectAsync, LifeInv,
           ConnectAsyncError, SendQueued, SendQueuedError, Handle
  <1>2. TunShrinks /\ Live
    BY <1>1 DEF TunShrinks, Live, LifeInv, SelectedSocketsAreOpen
  <1>3. ~ClosedOnSendError
    BY DEF ClosedOnSendError, SendError
  <1>4. CASE ReplyError \/ ConnectAsyncError \/ SendQueuedError
    <2>1. ConnClose(SocketErrorStatus) /\ SocketErrorStatus \notin OpenStatuses
      BY <1>4 DEF ReplyError, ConnectAsyncError, SendQueuedError, SocketErrorStatus, OpenStatuses
    <2> QED
      BY <1>1, <1>2, <2>1, CloseKnown
  <1>5. CASE ReplyEof
    <2>1. status = "CONNECTED"
      BY <1>5, ReadConnected DEF ReplyEof
    <2>2. ClientGets(Reply({"FIN", "ACK"}, client_seq, 0)) /\ fin_ack_sent' = TRUE
          /\ UNCHANGED <<tx_queue_size, client_seq, wr_shut>>
      BY <1>3, <1>5 DEF ReplyEof, srvVars
    <2>3. Notified' /\ UNCHANGED <<snd_nxt, cl_fin, cl_state>>
      BY <1>1, <2>1, <2>2, FinReaches
    <2>4. CASE Closed("CLOSED", 1)
      <3>1. client_closed => cl_fin /\ \A i \in 1..Len(tun') : ~Carries(tun'[i])
        BY <1>1 DEF Known, EndTaken
      <3>2. ~sock' /\ status' \notin OpenStatuses
        BY <2>4 DEF Closed, CloseSocket, OpenStatuses
      <3> QED
        BY <1>1, <1>2, <2>3, <3>1, <3>2, EndsKnown
    <2>5. CASE CloseSocket /\ status' = status
      <3>1. Told'
        BY <2>1, <2>2, <2>3, <2>5 DEF Told, CloseSocket, OpenStatuses
      <3>2. TakenSent'
        BY <1>1, <2>2, <2>3, <2>5 DEF Known, TakenSent, Live
      <3>3. ~sock'
        BY <2>5 DEF CloseSocket
      <3> QED
        BY <1>1, <1>2, <2>1, <2>2, <2>3, <2>5, <3>1, <3>2, <3>3, GoesOnKnown
    <2> QED
      BY <1>3, <1>5, <2>4, <2>5 DEF ReplyEof
  <1>6. CASE ReplyData
    <2>1. RecvLen > 0 /\ RecvLen \in Nat /\ RecvLen <= Avail
      BY <1>6, RecvLenType DEF ReplyData
    <2>2. Avail > 0
      BY <2>1, DownFields DEF Avail
    <2>3. status = "CONNECTED"
      BY <1>6, <2>2, ReadConnected DEF ReplyData
    <2>4. /\ ClientGets(Reply({"ACK"}, client_seq, RecvLen))
          /\ zdtun_seq' = zdtun_seq + RecvLen
          /\ UNCHANGED <<status, sock, fin_ack_sent, tx_queue_size, client_seq, wr_shut>>
      BY <1>3, <1>6 DEF ReplyData
    <2>5. /\ UNCHANGED <<snd_nxt, cl_fin, cl_state, cl_eof>>
          /\ cl_state = "ESTABLISHED" => rcv_nxt' = zdtun_seq + RecvLen
      BY <1>1, <2>1, <2>3, <2>4, DataReaches
    <2>6. Told'
      BY <1>1, <2>3, <2>4, <2>5 DEF Known, Told, Notified, OpenStatuses
    <2>7. TakenSent'
      BY <1>1, <2>4, <2>5 DEF Known, TakenSent, Live
    <2>8. client_closed => wr_shut
      BY <1>1 DEF Known, EndTaken
    <2> QED
      BY <1>1, <1>2, <2>4, <2>5, <2>6, <2>7, <2>8, GoesOnKnown
  <1>7. CASE ConnectAsync
    <2>1. status = "CONNECTING" /\ client_seq = 1
      <3>1. write_fds /\ tx_queue = <<>>
        BY <1>7 DEF ConnectAsync, Handle, LifeInv
      <3>2. status = "CONNECTING"
        BY <1>1, <1>2, <3>1 DEF Live, LifeInv, WriteSetMatchesWork
      <3> QED
        BY <3>2 DEF Known, Handshake
    <2>2. /\ cl_state \in {"SYN_SENT", "RESET"} /\ ~client_closed /\ ~fin_ack_sent
          /\ tx_queue_size = 0
      BY <2>1 DEF Known, Handshake
    <2>3. snd_nxt >= 1
      BY <2>2 DEF TypeInv, ClientInv
    <2>4. /\ ClientGets(Reply({"SYN", "ACK"}, client_seq, 0)) /\ status' = "CONNECTED"
          /\ zdtun_seq' = zdtun_seq + 1
          /\ UNCHANGED <<sock, fin_ack_sent, tx_queue_size, client_seq>>
      BY <1>3, <1>7 DEF ConnectAsync
    <2>5. \E seg : /\ seg.flags = {"SYN", "ACK"} /\ seg.ack = 1
                   /\ zdtun_seq' = seg.seq + 1 /\ ClientGets(seg)
      <3> DEFINE seg == Reply({"SYN", "ACK"}, client_seq, 0)
      <3>1. seg.flags = {"SYN", "ACK"} /\ seg.ack = client_seq /\ seg.seq = zdtun_seq
        BY DEF Reply
      <3> HIDE DEF seg
      <3> QED
        BY <2>1, <2>4, <3>1 DEF seg
    <2>6. sock' = TRUE
      BY <1>1, <2>4, DownFields
    <2> QED
      BY <1>1, <1>2, <2>1, <2>2, <2>3, <2>4, <2>5, <2>6, OpensKnown
  <1>8. CASE SendQueued
    <2>1. PICK n \in 0..Len(tx_queue) :
            /\ Taken(n) /\ UNCHANGED <<status, sock, fin_ack_sent>>
            /\ UNCHANGED clVars \/ ClientGets(Reply({"ACK"}, client_seq', 0))
      BY <1>3, <1>8 DEF SendQueued
    <2>2. /\ client_seq' = client_seq + n /\ tx_queue_size' = tx_queue_size - n
          /\ tx_queue # <<>> /\ ~wr_shut /\ zdtun_seq' = zdtun_seq
      BY <1>8, <2>1 DEF SendQueued, Taken
    <2>3. client_seq' \in Nat /\ client_seq' + tx_queue_size' = client_seq + tx_queue_size
      BY <2>1, <2>2, KnowFields
    <2>4. ClientKeeps /\ UNCHANGED <<snd_nxt, cl_fin>>
      BY <2>1, <2>3, EmptyReply, NothingKeeps, ClientGetsKeeps DEF clVars
    <2>5. status = "CONNECTED"
      BY <1>1, <1>2, <2>2 DEF Live, LifeInv, WriteSetMatchesWork
    <2>6. ~client_closed
      BY <1>1, <2>2 DEF Known, EndTaken
    <2>7. Told'
      BY <1>1, <2>1, <2>2, <2>4, KeptTold
    <2>8. TakenSent'
      BY <1>1, <2>1, <2>3, <2>4 DEF Known, TakenSent, Live
    <2>9. cl_state' \in {cl_state, "RESET"}
      BY <2>4 DEF ClientKeeps
    <2> QED
      BY <1>1, <1>2, <2>1, <2>4, <2>5, <2>6, <2>7, <2>8, <2>9, GoesOnKnown
  <1> QED
    BY <1>4, <1>5, <1>6, <1>7, <1>8 DEF ZdtunHandleFd

LEMMA PurgeKnown ==
    ASSUME TypeInv, LifeInv, Known, ZdtunPurge, "send_error" \notin Allow
    PROVE  Known'
  <1>1. tun' = tun /\ client_closed' = client_closed
    BY DEF ZdtunPurge, PurgeClosed, PurgeIdle, Finalize
  <1>2. TunShrinks
    BY <1>1 DEF TunShrinks
  <1>3. client_closed => cl_fin /\ \A i \in 1..Len(tun') : ~Carries(tun'[i])
    BY <1>1 DEF Known, EndTaken
  <1>4. CASE PurgeIdle
    BY <1>1, <1>2, <1>4, CloseKnown DEF PurgeIdle, Live, OpenStatuses
  <1>5. CASE PurgeClosed
    <2>1. /\ status \in ClosedStatuses /\ ready = "idle" /\ status' = "GONE"
          /\ UNCHANGED <<snd_nxt, cl_fin, cl_state, cl_eof, sock, fin_ack_sent>>
      BY <1>5 DEF PurgeClosed, clVars
    <2>2. ~sock /\ Notified
      BY <2>1 DEF LifeInv, SelectedSocketsAreOpen, ClosedStatuses, OpenStatuses, Known, Told
    <2>3. Notified'
      BY <2>1, <2>2 DEF Notified
    <2> QED
      BY <1>1, <1>2, <1>3, <2>1, <2>2, <2>3, EndsKnown DEF OpenStatuses
  <1>6. CASE Finalize
    <2>1. ready' = "stopped" /\ UNCHANGED clVars /\ fin_ack_sent' = fin_ack_sent
      BY <1>6 DEF Finalize
    <2>2. UNCHANGED <<snd_nxt, cl_fin, cl_state, cl_eof, rcv_nxt>>
      BY <2>1 DEF clVars
    <2>3. fin_ack_sent' => Notified'
      BY <2>1, <2>2 DEF Known, Told, Notified
    <2>4. CASE Closed("GONE", 1)
      <3>1. ~sock' /\ status' \notin OpenStatuses
        BY <2>4 DEF Closed, CloseSocket, OpenStatuses
      <3> QED
        BY <1>1, <1>2, <1>3, <2>1, <2>2, <2>3, <3>1, EndsKnown
    <2>5. CASE /\ status \in {"NEW", "GONE"} \cup ClosedStatuses
               /\ status' = IF status = "NEW" THEN "NEW" ELSE "GONE"
               /\ UNCHANGED <<sock, tx_queue, all_fds, write_fds, closes>>
      <3>1. CASE status = "NEW"
        <4>1. UNCHANGED connVars /\ wr_shut' = wr_shut
          BY <1>6, <2>5, <3>1 DEF Finalize, connVars, srvVars
        <4> QED
          BY <1>1, <2>1, <2>2, <4>1, QuietKnown
      <3>2. CASE status # "NEW"
        <4>1. ~sock' /\ status' \notin OpenStatuses
          BY <2>5, <3>2 DEF LifeInv, SelectedSocketsAreOpen, ClosedStatuses, OpenStatuses
        <4> QED
          BY <1>1, <1>2, <1>3, <2>1, <2>2, <2>3, <4>1, EndsKnown
      <3> QED
        BY <3>1, <3>2
    <2> QED
      BY <1>6, <2>4, <2>5 DEF Finalize
  <1> QED
    BY <1>4, <1>5, <1>6 DEF ZdtunPurge

\* No step of zdtun counts a retransmission of the client.
LEMMA ProbesKept ==
    ASSUME [Next]_vars, ~Client
    PROVE  probes' = probes
  <1>1. CASE Server \/ Select \/ UNCHANGED vars
    BY <1>1 DEF Server, ServerAccept, ServerRefuse, ServerSend, ServerEof, ServerReset,
                Select, vars, clVars
  <1>2. CASE ZdtunForward
    BY <1>2 DEF ZdtunForward, FwdToClosed, FwdOpenError, FwdConnectError, FwdConnect,
         FwdConnected, FwdUrgent, FwdConnecting, FwdOutOfSequence, FwdRst, FwdFin,
         FwdKeepAlive, FwdAck, FwdAfterServerClosed, ConnClose, ClosedOnSendError,
         ClientGets, clVars
  <1>3. CASE ZdtunHandleFd \/ ZdtunPurge
    BY <1>3 DEF ZdtunHandleFd, ReplyError, ReplyEof, ReplyData, ConnectAsync,
         ConnectAsyncError, SendQueued, SendQueuedError, ZdtunPurge, PurgeClosed, PurgeIdle,
         Finalize, ConnClose, ClosedOnSendError, ClientGets, clVars
  <1> QED
    BY <1>1, <1>2, <1>3 DEF Next

LEMMA KnowStep ==
    ASSUME TypeInv, LifeInv, DownInv, WinInv, KnowInv, [Next]_vars,
           Allow \cap {"send_error", "open_error", "connect_error"} = {}
    PROVE  KnowInv'
  <1> SUFFICES ASSUME probes' = 0
               PROVE  Known'
    BY DEF KnowInv, Known
  <1>1. probes = 0
    <2>1. CASE Client
      <3>1. probes' = probes \/ (probes' = probes + 1 /\ probes \in Nat)
        BY <2>1 DEF Client, ClientConnect, ClientSend, ClientFin, ClientAck, ClientRead,
             ClientReset, ClientRefuses, ClientKeepAlive, ClientRetransmit, TypeInv, ClientInv,
             ClientTypeOK
      <3> QED
        BY <3>1
    <2> QED
      BY <2>1, ProbesKept
  <1>2. Known
    BY <1>1 DEF KnowInv, Known
  <1>3. CASE Server \/ Select \/ UNCHANGED vars
    <2>1. /\ UNCHANGED connVars
          /\ UNCHANGED <<tun, cl_state, snd_nxt, cl_fin, cl_eof, rcv_nxt, wr_shut>>
          /\ ready' # "stopped" => ready # "stopped"
      BY <1>3 DEF Server, ServerAccept, ServerRefuse, ServerSend, ServerEof, ServerReset,
                  Select, vars, clVars, srvVars
    <2> QED
      BY <1>2, <2>1, QuietKnown
  <1> QED
    BY <1>1, <1>2, <1>3, ClientKnown, ForwardKnown, HandleKnown, PurgeKnown DEF Next

\* When zdtun has closed a connection, the client was reset or has the end of the
\* stream: client_seq never passes what the client has sent, so no RST or FIN is
\* refused, and no byte before the FIN is lost.  The hypotheses name the paths of
\* zdtun.c on which the client is not told.
THEOREM ClientIsTold ==
    ASSUME WinUnit = 1, RcvBuf < SeqMod,
           Allow \cap {"early_server", "send_error", "open_error", "connect_error"} = {}
    PROVE  Spec => []ClientKnowsClosed
  <1>1. Init => KnowInv
    <2> SUFFICES ASSUME Init PROVE KnowInv
      OBVIOUS
    <2>1. Len(tun) = 0
      BY EmptySeq DEF Init
    <2> QED
      BY <2>1 DEF Init, KnowInv, SynFirst, Handshake, Carried, TakenSent, EndTaken, Told, Live,
                  OpenStatuses
  <1>2. TypeInv /\ LifeInv /\ DownInv /\ WinInv /\ KnowInv /\ [Next]_vars => KnowInv'
    <2>1. Allow \cap {"send_error", "open_error", "connect_error"} = {}
      OBVIOUS
    <2> QED
      BY <2>1, KnowStep
  <1>3. KnowInv => ClientKnowsClosed
    BY DEF KnowInv, Told, Notified, ClientKnowsClosed, ClosedStatuses, OpenStatuses
  <1>4. "early_server" \notin Allow
    OBVIOUS
  <1>5. Spec => []DownInv
    BY <1>4, DownInvariant
  <1>6. Spec => []WinInv
    BY WinInvariant
  <1> QED
    BY <1>1, <1>2, <1>3, <1>5, <1>6, LifeInvariant, PTL DEF Spec
=============================================================================
