----------------------------- MODULE ZdtunTable -----------------------------
(***************************************************************************)
(* The connections of the user-space NAT side by side: the table of        *)
(* zdtun.c with its limit on sockets and its purges, the local ports that  *)
(* UDP connections of one client port share, and the handshake of TCP      *)
(* connections with a SOCKS5 proxy.  ZdtunTcp follows the bytes of one of  *)
(* the TCP connections.  The steps are those of the loop of run_vpn: a     *)
(* packet of the client, an event of a socket, a purge.                    *)
(***************************************************************************)
EXTENDS Socks5, Sequences, FiniteSets, SequencesExt

CONSTANTS
    Udp, Tcp,      \* 5-tuples
    Dns,           \* those of Udp that go to port 53
    Proxied,       \* those of Tcp that go through the proxy
    ClientPort,    \* source port of each of Udp
    LocalPorts,    \* ports the kernel may choose for a UDP socket
    None,
    MaxSockets,    \* MAX_NUM_SOCKETS
    AfterPurge,    \* NUM_SOCKETS_AFTER_PURGE
    Data,          \* bound on the bytes a server sends through the proxy
    Allow          \* of Behaviours

Tuples     == Udp \cup Tcp
Behaviours == {"blocked", "udp_error"}

ASSUME TableAssumption ==
    /\ IsFiniteSet(Udp) /\ Udp \cap Tcp = {} /\ Dns \subseteq Udp /\ Proxied \subseteq Tcp
    /\ DOMAIN ClientPort = Udp /\ None \notin LocalPorts
    /\ MaxSockets \in Nat /\ AfterPurge \in 0..MaxSockets - 1
    /\ Data \in Nat /\ Allow \subseteq Behaviours

VARIABLES
    conn,      \* conn_table
    age,       \* its tuples by the time of their last packet, oldest first
    sockets,   \* num_open_sockets
    mapping,   \* udp_mappings of each client port: local port and num_uses
    owned      \* 1 from on_connection_open to on_connection_close of the last
               \* connection of each tuple

vars == <<conn, age, sockets, mapping, owned>>

NoConn == [status |-> "none", sock |-> FALSE, port |-> None, client_closed |-> FALSE,
           socks |-> NoProxy, got |-> 0, fwd |-> 0]
NewConn == [NoConn EXCEPT !.status = "new"]

ClientPorts == {ClientPort[t] : t \in Udp}
NoMapping   == [port |-> None, uses |-> 0]
Open        == {t \in Tuples : conn[t].status \in {"new", "connecting", "connected"}}

TypeOK ==
    /\ DOMAIN conn = Tuples
    /\ \A t \in Tuples :
           /\ conn[t].status \in {"none", "new", "connecting", "connected", "closed"}
           /\ conn[t].sock => t \in Open
           /\ conn[t].port \in LocalPorts \cup {None}
           /\ conn[t].socks \in Handshake
           /\ conn[t].got \in 0..ReplyLength(Data)
    /\ ToSet(age) = {t \in Tuples : conn[t].status # "none"} /\ IsInjective(age)
    /\ sockets \in 0..MaxSockets
    /\ \A p \in ClientPorts :
           mapping[p].uses \in 0..Cardinality(Udp)
               /\ (mapping[p].uses = 0 <=> mapping[p] = NoMapping)
    /\ \A t \in Tuples : owned[t] \in 0..1

Init ==
    /\ conn = [t \in Tuples |-> NoConn]
    /\ age = <<>>
    /\ sockets = 0
    /\ mapping = [p \in ClientPorts |-> NoMapping]
    /\ owned = [t \in Tuples |-> 0]

-----------------------------------------------------------------------------
(* The table as a record, so that a handler may change it several times.   *)

Table == [conn |-> conn, age |-> age, sockets |-> sockets, mapping |-> mapping,
          owned |-> owned]

Become(T) ==
    /\ conn' = T.conn /\ age' = T.age /\ sockets' = T.sockets
    /\ mapping' = T.mapping /\ owned' = T.owned

Without(s, t) ==
    IF t \in ToSet(s) THEN RemoveAt(s, CHOOSE i \in DOMAIN s : s[i] = t) ELSE s

\* Mutant: a packet enters its connection again.
SeenAgain(T, t) == [T EXCEPT !.age = Append(@, t)]

\* conn->tstamp = zdtun_now
Seen(T, t) == [T EXCEPT !.age = Append(Without(T.age, t), t)]

\* Mutant: a socket that is closed is not taken off the count.
CloseSocketCounted(T, t) == [T EXCEPT !.conn[t].sock = FALSE]

CloseSocket(T, t) ==
    IF T.conn[t].sock
    THEN [T EXCEPT !.conn[t].sock = FALSE, !.sockets = IF @ = 0 THEN 0 ELSE @ - 1]
    ELSE T

\* Mutant: the last use is kept.
UnmapButLast(m, t) ==
    LET p == ClientPort[t]
    IN  IF m[p].uses <= 1 THEN m ELSE [m EXCEPT ![p].uses = @ - 1]

\* A use less of the mapping of t's client port, whoever has been counted in it
Unmap(m, t) ==
    LET p == ClientPort[t]
    IN  IF m[p].uses = 0 THEN m
        ELSE IF m[p].uses = 1 THEN [m EXCEPT ![p] = NoMapping]
        ELSE [m EXCEPT ![p].uses = @ - 1]

\* Mutant: a connection that is closed is closed again.
CloseConnAgain(T, t) ==
    [CloseSocket(T, t) EXCEPT
        !.mapping = IF t \in Udp THEN Unmap(@, t) ELSE @,
        !.conn[t] = [NoConn EXCEPT !.status = "closed"],
        !.owned[t] = @ - 1]

\* zdtun_conn_close
CloseConn(T, t) ==
    IF T.conn[t].status = "closed" THEN T
    ELSE [CloseSocket(T, t) EXCEPT
             !.mapping = IF t \in Udp THEN Unmap(@, t) ELSE @,
             !.conn[t] = [NoConn EXCEPT !.status = "closed"],
             !.owned[t] = @ - 1]

\* destroy_conn
Destroyed(T, t) ==
    [CloseConn(T, t) EXCEPT !.conn[t] = NoConn, !.age = Without(@, t)]

\* HASH_ITER: the connections are gone through, and those in S destroyed
DestroyedAll(T, S) ==
    LET after[n \in 0..Len(T.age)] ==
            IF n = 0 THEN T
            ELSE IF T.age[n] \in S THEN Destroyed(after[n - 1], T.age[n])
            ELSE after[n - 1]
    IN  after[Len(T.age)]

\* zdtun_purge_expired; expired: the open connections that were idle for too long
PurgeExpired(T, expired) ==
    LET U        == DestroyedAll(T, expired \cup {t \in Tuples : T.conn[t].status = "closed"})
        to_purge == U.sockets - AfterPurge
    IN  IF U.sockets < MaxSockets THEN U
        ELSE DestroyedAll(U, {U.age[i] : i \in {j \in DOMAIN U.age : j <= to_purge}})

\* What may have expired: with a connection, the older ones of its protocol
Expirable ==
    {e \in SUBSET Open :
        \A i, j \in 1..Len(age) :
            i < j /\ age[j] \in e /\ (age[i] \in Udp <=> age[j] \in Udp) =>
                age[i] \in e \/ age[i] \notin Open}

\* zdtun_lookup: a closed connection of the tuple is destroyed, and if the packet
\* may create one it is created, after a purge when there are too many sockets.
Lookup(T, t, create, expired) ==
    LET U == IF T.conn[t].status = "closed" THEN Destroyed(T, t) ELSE T
        P == IF U.sockets >= MaxSockets THEN PurgeExpired(U, expired) ELSE U
    IN  IF U.conn[t].status # "none" \/ ~create THEN U
        ELSE Seen([P EXCEPT !.conn[t] = NewConn, !.owned[t] = 1], t)

\* open_socket, when it is possible
CanOpen(T) == T.sockets < MaxSockets
OpenSocket(T, t, status) ==
    [T EXCEPT !.conn[t].sock = TRUE, !.conn[t].status = status, !.sockets = @ + 1]

-----------------------------------------------------------------------------
(* A packet of the client: zdtun_lookup, the verdict of the relay on it,   *)
(* zdtun_forward, and zdtun_conn_close when that fails.                    *)

PortsInUse(T) == {T.conn[t].port : t \in Udp}

\* bind_and_connect_udp: the local port of the client port, or one of the kernel
LocalPort(T, t) ==
    LET m == T.mapping[ClientPort[t]]
    IN  IF m.uses # 0 THEN {m.port} ELSE LocalPorts \ PortsInUse(T)

Bound(T, t, port) ==
    [OpenSocket(T, t, "connected") EXCEPT
        !.conn[t].port = port,
        !.mapping[ClientPort[t]] = [port |-> port, uses |-> @.uses + 1]]

\* handle_udp_fwd: T becomes one of these tables; a socket that cannot be opened,
\* bound or connected closes the connection, and so does a send that fails.  The branch
\* of a proxied connection is not taken: the relay proxies TCP alone (should_proxify).
UdpForwarded(T, t) ==
    LET bound == IF T.conn[t].status # "new" THEN {T}
                 ELSE IF CanOpen(T) THEN {Bound(T, t, p) : p \in LocalPort(T, t)} ELSE {}
        failed == IF bound = {} THEN {CloseConn(T, t)}
                  ELSE IF "udp_error" \in Allow
                  THEN {CloseConn(T, t)} \cup {Seen(CloseConn(B, t), t) : B \in bound}
                  ELSE {}
    IN  failed \cup {Seen(B, t) : B \in bound}

\* The socket of a TCP connection is connected: a proxied one sends its hello, the
\* others answer the client (ZdtunTcp).
TcpConnected(T, t) ==
    [T EXCEPT !.conn[t].status = "connected",
              !.conn[t].socks = IF t \in Proxied THEN Asked("hello") ELSE @]

\* handle_tcp_fwd: without a socket the connection is closed with no callback; else
\* it is connecting, connected at once, or cannot be connected.
TcpOpened(T, t) ==
    IF ~CanOpen(T) THEN {[T EXCEPT !.conn[t].status = "closed"]}
    ELSE LET S == OpenSocket(T, t, "connecting")
         IN  {Seen(S, t), Seen(TcpConnected(S, t), t), Seen(CloseConn(S, t), t)}

\* A later packet: data, a reset, or the end of the client's stream; none but a SYN
\* sent again is accepted during the handshake with the proxy.
TcpAccepted(T, t) ==
    IF T.conn[t].status = "new" THEN TcpOpened(T, t)
    ELSE IF T.conn[t].status = "connecting" \/ InProgress(T.conn[t].socks) THEN {Seen(T, t)}
    ELSE {Seen(T, t), Seen(CloseConn(T, t), t)} \cup
         (IF T.conn[t].sock THEN {Seen([T EXCEPT !.conn[t].client_closed = TRUE], t)}
          ELSE {})

\* Urgent data closes the connection in any state, before its first socket too; so does
\* what the handshake does not accept.
TcpForwarded(T, t) == {CloseConn(T, t)} \cup TcpAccepted(T, t)

Forwarded(T, t) ==
    IF T.conn[t].status = "closed" THEN {T}
    ELSE IF t \in Udp THEN UdpForwarded(T, t) ELSE TcpForwarded(T, t)

\* The relay drops what it blocks; a DNS query is answered by the relay itself if it
\* is the first packet of its connection, which is then closed.
Blocked(T, t) ==
    IF t \in Dns /\ T.conn[t].status = "new" THEN CloseConn(T, t) ELSE T

Packet(t) ==
    \E create \in IF t \in Udp THEN {TRUE} ELSE BOOLEAN, expired \in Expirable :
        LET T == Lookup(Table, t, create, expired)
        IN     \/ T.conn[t].status = "none" /\ Become(T)
               \/ /\ T.conn[t].status # "none"
                  /\ \E U \in Forwarded(T, t) : Become(U)
               \/ /\ T.conn[t].status # "none" /\ "blocked" \in Allow
                  /\ Become(Blocked(T, t))

-----------------------------------------------------------------------------
(* Events of the sockets (zdtun_handle_fd), and the purge of the loop.     *)

\* An answer, the last answer of a DNS connection, or an error
UdpReply(t) ==
    /\ t \in Udp /\ conn[t].sock
    /\ \/ Become(Seen(Table, t))
       \/ t \in Dns /\ Become(CloseConn(Seen(Table, t), t))
       \/ "udp_error" \in Allow /\ Become(CloseConn(Table, t))

\* handle_tcp_connect_async
TcpConnectEnds(t) ==
    /\ t \in Tcp /\ conn[t].status = "connecting"
    /\ \/ Become(Seen(TcpConnected(Table, t), t))
       \/ Become(Seen(CloseConn(Table, t), t))

\* recv returns some of the bytes the proxy has sent: a part of the handshake, which
\* is answered or closes the connection ...
SocksReply(t) ==
    \E len \in 1..ReplyLength(Data), granted \in BOOLEAN :
        LET s == Replied(conn[t].socks, len, granted)
        IN  /\ conn[t].sock /\ InProgress(conn[t].socks)
            /\ conn[t].got + len <= Sent(conn[t].socks, Data)
            /\ Become(IF s = Failed THEN CloseConn(Seen(Table, t), t)
                      ELSE [Seen(Table, t) EXCEPT !.conn[t].socks = s,
                                                  !.conn[t].got = @ + len])

\* ... or data of the server, which is sent to the client
TcpData(t) ==
    /\ conn[t].sock /\ conn[t].status = "connected" /\ ~InProgress(conn[t].socks)
    /\ IF t \notin Proxied THEN Become(Seen(Table, t))
       ELSE \E len \in 1..Data :
                /\ conn[t].got + len <= ReplyLength(Data)
                /\ Become([Seen(Table, t) EXCEPT !.conn[t].got = @ + len,
                                                 !.conn[t].fwd = @ + len])

\* recv returns zero, or an error
TcpEnds(t) ==
    /\ t \in Tcp /\ conn[t].sock /\ conn[t].status = "connected"
    /\ \/ ~conn[t].client_closed /\ Become(CloseSocket(Seen(Table, t), t))
       \/ Become(CloseConn(Seen(Table, t), t))

Purge ==
    /\ age # <<>>
    /\ \E expired \in Expirable : Become(PurgeExpired(Table, expired))

Next ==
    \/ \E t \in Tuples : Packet(t)
    \/ \E t \in Udp : UdpReply(t)
    \/ \E t \in Tcp : TcpConnectEnds(t) \/ SocksReply(t) \/ TcpData(t) \/ TcpEnds(t)
    \/ Purge

Spec == Init /\ [][Next]_vars

-----------------------------------------------------------------------------
(* Properties.                                                             *)

\* num_open_sockets is the number of the sockets that are open, whatever closes or
\* destroys a connection: too low and FD_SET overflows, too high and no connection
\* can be opened any more (zdtun.c:222).
SocketsCounted == sockets = Cardinality({t \in Tuples : conn[t].sock})

\* A mapping is counted in use only by open UDP connections of its client port that
\* are bound to its local port (zdtun.c:1431).
MappingIsInUse ==
    \A p \in ClientPorts :
        mapping[p].uses <=
            Cardinality({t \in Udp : ClientPort[t] = p /\ conn[t].sock /\
                                     conn[t].port = mapping[p].port})

\* The relay is told of the end of every UDP connection it was told of, once, and
\* never while it is open; a TCP connection that is open is known to it.
CallbacksBalance ==
    /\ \A t \in Udp : owned[t] = IF t \in Open THEN 1 ELSE 0
    /\ \A t \in Tcp \cap Open : owned[t] = 1

\* Every byte of the handshake is taken out of the stream and none of the server's,
\* in whatever pieces the proxy's replies come (socks5.c:223).
OnlyDataForwarded ==
    \A t \in Proxied :
        /\ (conn[t].socks.phase = "skip" =>
                conn[t].got + conn[t].socks.skip = ReplyLength(0))
        /\ (conn[t].socks.phase = "established" =>
                conn[t].got = ReplyLength(0) + conn[t].fwd)
        /\ (conn[t].socks.phase # "established" => conn[t].fwd = 0)
=============================================================================
