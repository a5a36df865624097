-------------------------- MODULE ZdtunTableProof --------------------------
(***************************************************************************)
(* Proofs about the connections side by side.  The invariant Inv says of   *)
(* the table, as a record, that its order lists the connections it has,    *)
(* that the sockets are counted, that a mapping counts no more uses than   *)
(* there are UDP connections bound to its port, that the relay knows of    *)
(* every open connection, and how much has been taken out of the stream of *)
(* a proxied connection in each phase of the handshake.  Each step the     *)
(* handlers are made of keeps it, and going through the table does, by an  *)
(* induction on its length.                                                *)
(***************************************************************************)
EXTENDS ZdtunTable, SequenceTheorems, FiniteSetTheorems, WellFoundedInduction, TLAPS

(***************************************************************************)
(* The fields of a table.                                                  *)
(***************************************************************************)
ConnType == [status : {"none", "new", "connecting", "connected", "closed"}, sock : BOOLEAN,
             port : LocalPorts \cup {None}, client_closed : BOOLEAN, socks : Handshake,
             got : Nat, fwd : Nat]

TableType == [conn : [Tuples -> ConnType], age : Seq(Tuples), sockets : Nat,
              mapping : [ClientPorts -> [port : LocalPorts \cup {None}, uses : Nat]],
              owned : [Tuples -> Int]]

\* Each step the handlers are made of, field by field: close_socket ...
LEMMA CloseSocketFields ==
  ASSUME NEW T \in TableType, NEW t \in Tuples
  PROVE  LET U == CloseSocket(T, t)
         IN  /\ U \in TableType
             /\ U.conn = [T.conn EXCEPT ![t] = [T.conn[t] EXCEPT !.sock = FALSE]]
             /\ U.sockets = IF T.conn[t].sock /\ T.sockets # 0 THEN T.sockets - 1 ELSE T.sockets
             /\ U.age = T.age /\ U.mapping = T.mapping /\ U.owned = T.owned
  <1> DEFINE c == [T.conn[t] EXCEPT !.sock = FALSE]
             k == [T.conn EXCEPT ![t] = c]
             n == IF T.sockets = 0 THEN 0 ELSE T.sockets - 1
  <1>1. T.conn[t] \in ConnType /\ T.sockets \in Nat /\ T.conn \in [Tuples -> ConnType]
    BY DEF TableType
  <1>2. c \in ConnType
    BY <1>1 DEF ConnType
  <1>3. k \in [Tuples -> ConnType] /\ n \in Nat
    BY <1>1, <1>2
  <1>4. CASE T.conn[t].sock
    <2>1. CloseSocket(T, t) = [T EXCEPT !.conn = k, !.sockets = n]
      BY <1>4 DEF CloseSocket
    <2> HIDE DEF k, n
    <2>2. [T EXCEPT !.conn = k, !.sockets = n] \in TableType
      BY <1>3 DEF TableType
    <2>3. n = IF T.conn[t].sock /\ T.sockets # 0 THEN T.sockets - 1 ELSE T.sockets
      BY <1>4 DEF n
    <2> QED
      BY <2>1, <2>2, <2>3 DEF TableType, k
  <1>5. CASE ~T.conn[t].sock
    <2>1. c = T.conn[t]
      BY <1>1, <1>5 DEF ConnType
    <2> HIDE DEF c
    <2>2. k = T.conn
      BY <1>1, <2>1
    <2> QED
      BY <1>5, <2>2 DEF CloseSocket, c
  <1> QED
    BY <1>4, <1>5

\* ... the time of the last packet ...
LEMMA SeenFields ==
  ASSUME NEW T \in TableType, NEW t \in Tuples
  PROVE  LET U == Seen(T, t)
         IN  /\ U.age = Append(Without(T.age, t), t)
             /\ U.conn = T.conn /\ U.sockets = T.sockets
             /\ U.mapping = T.mapping /\ U.owned = T.owned
  BY DEF Seen, TableType

Closed == [NoConn EXCEPT !.status = "closed"]

\* Connections and mappings as they are created and closed
LEMMA ConstTypes ==
  /\ NoConn \in ConnType /\ NewConn \in ConnType /\ Closed \in ConnType
  /\ NoConn.status = "none" /\ ~NoConn.sock /\ NoConn.socks = NoProxy
  /\ NewConn.status = "new" /\ ~NewConn.sock /\ NewConn.socks = NoProxy
  /\ Closed.status = "closed" /\ ~Closed.sock /\ Closed.socks = NoProxy
  /\ NoConn.got = 0 /\ NoConn.fwd = 0 /\ NewConn.got = 0 /\ NewConn.fwd = 0
  /\ Closed.got = 0 /\ Closed.fwd = 0
  /\ NoMapping \in [port : LocalPorts \cup {None}, uses : Nat]
  <1>1. NoProxy \in Handshake
    BY SocksAssumption DEF NoProxy, Handshake, Phases
  <1> QED
    BY <1>1 DEF NoConn, NewConn, Closed, ConnType, NoMapping

\* The client port of a UDP connection is one of the client ports.
LEMMA PortOf ==
  ASSUME NEW t \in Udp
  PROVE  ClientPort[t] \in ClientPorts
  BY DEF ClientPorts

\* A use less of the mapping of t's client port
LEMMA UnmapMap ==
  ASSUME NEW m \in [ClientPorts -> [port : LocalPorts \cup {None}, uses : Nat]], NEW t \in Udp
  PROVE  LET p == ClientPort[t]
             w == Unmap(m, t)
         IN  /\ w \in [ClientPorts -> [port : LocalPorts \cup {None}, uses : Nat]]
             /\ \A q \in ClientPorts \ {p} : w[q] = m[q]
             /\ \/ m[p].uses = 0 /\ w[p] = m[p]
                \/ m[p].uses = 1 /\ w[p] = NoMapping
                \/ m[p].uses > 1 /\ w[p].port = m[p].port /\ w[p].uses = m[p].uses - 1
  <1> DEFINE p == ClientPort[t]
             w == Unmap(m, t)
  <1>1. p \in ClientPorts /\ m[p] \in [port : LocalPorts \cup {None}, uses : Nat]
    BY PortOf
  <1>2. CASE m[p].uses = 0
    BY <1>2 DEF Unmap
  <1>3. CASE m[p].uses = 1
    <2>1. w = [m EXCEPT ![p] = NoMapping]
      BY <1>3 DEF Unmap
    <2> QED
      BY <1>1, <1>3, <2>1, ConstTypes
  <1>4. CASE m[p].uses > 1
    <2> DEFINE e == [m[p] EXCEPT !.uses = m[p].uses - 1]
    <2>1. w = [m EXCEPT ![p] = e]
      BY <1>1, <1>4 DEF Unmap
    <2>2. /\ e \in [port : LocalPorts \cup {None}, uses : Nat]
          /\ e.port = m[p].port /\ e.uses = m[p].uses - 1
      BY <1>1, <1>4
    <2> HIDE DEF e
    <2> QED
      BY <1>1, <1>4, <2>1, <2>2
  <1> QED
    BY <1>1, <1>2, <1>3, <1>4

\* ... zdtun_conn_close of a connection that is not closed ...
LEMMA CloseConnFields ==
  ASSUME NEW T \in TableType, NEW t \in Tuples, T.conn[t].status # "closed"
  PROVE  LET U == CloseConn(T, t)
         IN  /\ U \in TableType
             /\ U.conn = [T.conn EXCEPT ![t] = Closed]
             /\ U.sockets = IF T.conn[t].sock /\ T.sockets # 0 THEN T.sockets - 1 ELSE T.sockets
             /\ U.mapping = IF t \in Udp THEN Unmap(T.mapping, t) ELSE T.mapping
             /\ U.owned = [T.owned EXCEPT ![t] = T.owned[t] - 1]
             /\ U.age = T.age
  <1> DEFINE S == CloseSocket(T, t)
             m == IF t \in Udp THEN Unmap(S.mapping, t) ELSE S.mapping
             k == [S.conn EXCEPT ![t] = Closed]
             o == [S.owned EXCEPT ![t] = S.owned[t] - 1]
             U == [S EXCEPT !.mapping = m, !.conn = k, !.owned = o]
  <1>1. /\ S \in TableType /\ S.age = T.age /\ S.mapping = T.mapping /\ S.owned = T.owned
        /\ S.conn = [T.conn EXCEPT ![t] = [T.conn[t] EXCEPT !.sock = FALSE]]
        /\ S.sockets = IF T.conn[t].sock /\ T.sockets # 0 THEN T.sockets - 1 ELSE T.sockets
    BY CloseSocketFields
  <1>2. CloseConn(T, t) = U
    BY DEF CloseConn, Closed
  <1>3. m = IF t \in Udp THEN Unmap(T.mapping, t) ELSE T.mapping
    BY <1>1
  <1>4. k = [T.conn EXCEPT ![t] = Closed]
    BY <1>1 DEF TableType
  <1>5. o = [T.owned EXCEPT ![t] = T.owned[t] - 1]
    BY <1>1
  <1>6. /\ m \in [ClientPorts -> [port : LocalPorts \cup {None}, uses : Nat]]
        /\ k \in [Tuples -> ConnType] /\ o \in [Tuples -> Int]
    <2>1. /\ T.mapping \in [ClientPorts -> [port : LocalPorts \cup {None}, uses : Nat]]
          /\ T.conn \in [Tuples -> ConnType] /\ T.owned \in [Tuples -> Int]
      BY DEF TableType
    <2>2. t \in Udp => Unmap(T.mapping, t)
                          \in [ClientPorts -> [port : LocalPorts \cup {None}, uses : Nat]]
      BY <2>1, UnmapMap
    <2>3. k \in [Tuples -> ConnType]
      BY <1>4, <2>1, ConstTypes
    <2>4. o \in [Tuples -> Int]
      <3>1. T.owned[t] \in Int
        BY <2>1
      <3> DEFINE x == T.owned[t] - 1
      <3>2. x \in Int
        BY <3>1
      <3> HIDE DEF x
      <3>3. [T.owned EXCEPT ![t] = x] \in [Tuples -> Int]
        BY <2>1, <3>2
      <3> QED
        BY <1>5, <3>3 DEF x
    <2> HIDE DEF m
    <2> QED
      BY <1>3, <2>1, <2>2, <2>3, <2>4
  <1> HIDE DEF S, m, k, o
  <1>7. U \in TableType /\ U.mapping = m /\ U.conn = k /\ U.owned = o
        /\ U.sockets = S.sockets /\ U.age = S.age
    BY <1>1, <1>6 DEF TableType
  <1> HIDE DEF U
  <1> QED
    BY <1>1, <1>2, <1>3, <1>4, <1>5, <1>7

\* ... and destroy_conn
LEMMA DestroyedFields ==
  ASSUME NEW T \in TableType, NEW t \in Tuples, Without(T.age, t) \in Seq(Tuples)
  PROVE  LET U == Destroyed(T, t)
             C == CloseConn(T, t)
         IN  /\ U \in TableType
             /\ U.conn = [T.conn EXCEPT ![t] = NoConn]
             /\ U.age = Without(T.age, t)
             /\ U.sockets = C.sockets /\ U.mapping = C.mapping /\ U.owned = C.owned
  <1> DEFINE C == CloseConn(T, t)
             k == [C.conn EXCEPT ![t] = NoConn]
             a == Without(C.age, t)
             U == [C EXCEPT !.conn = k, !.age = a]
  <1>1. /\ C \in TableType /\ C.age = T.age
        /\ [C.conn EXCEPT ![t] = NoConn] = [T.conn EXCEPT ![t] = NoConn]
    <2>1. CASE T.conn[t].status = "closed"
      BY <2>1 DEF CloseConn
    <2>2. CASE T.conn[t].status # "closed"
      <3>1. C \in TableType /\ C.age = T.age /\ C.conn = [T.conn EXCEPT ![t] = Closed]
        BY <2>2, CloseConnFields
      <3> HIDE DEF C
      <3> QED
        BY <3>1 DEF TableType
    <2> QED
      BY <2>1, <2>2
  <1>2. Destroyed(T, t) = U
    BY DEF Destroyed
  <1>3. k = [T.conn EXCEPT ![t] = NoConn] /\ a = Without(T.age, t)
    BY <1>1
  <1>4. k \in [Tuples -> ConnType] /\ a \in Seq(Tuples)
    BY <1>3, ConstTypes DEF TableType
  <1> HIDE DEF C, k, a
  <1>5. U \in TableType /\ U.conn = k /\ U.age = a /\ U.sockets = C.sockets
        /\ U.mapping = C.mapping /\ U.owned = C.owned
    BY <1>1, <1>4 DEF TableType
  <1> HIDE DEF U
  <1> QED
    BY <1>2, <1>3, <1>5 DEF C
-----------------------------------------------------------------------------
(***************************************************************************)
(* The order of the connections.                                           *)
(***************************************************************************)
\* A list of the tuples in S, each once
IsListOf(s, S) ==
    /\ s \in Seq(Tuples)
    /\ \A i, j \in 1..Len(s) : s[i] = s[j] => i = j
    /\ S = {s[i] : i \in 1..Len(s)}

\* A tuple is taken out of a list.
LEMMA WithoutList ==
  ASSUME NEW S, NEW s, IsListOf(s, S), NEW t
  PROVE  /\ IsListOf(Without(s, t), S \ {t})
         /\ t \notin S => Without(s, t) = s
  <1> DEFINE n == Len(s)
             a == CHOOSE i \in DOMAIN s : s[i] = t
             u == SubSeq(s, 1, a - 1)
             v == SubSeq(s, a + 1, n)
             w == u \o v
  <1>1. n \in Nat /\ DOMAIN s = 1..n /\ \A i \in 1..n : s[i] \in Tuples
    BY LenProperties, ElementOfSeq DEF IsListOf
  <1>2. ToSet(s) = S
    BY <1>1 DEF ToSet, IsListOf
  <1>3. CASE t \notin S
    <2>1. Without(s, t) = s /\ S \ {t} = S
      BY <1>2, <1>3 DEF Without
    <2> QED
      BY <1>3, <2>1
  <1>4. CASE t \in S
    <2>1. a \in 1..n /\ s[a] = t
      BY <1>1, <1>4 DEF IsListOf
    <2>2. Without(s, t) = w
      BY <1>2, <1>4 DEF Without, RemoveAt
    <2>3. /\ \A i, j \in 1..n : s[i] = s[j] => i = j
          /\ \A x : x \in S <=> \E i \in 1..n : s[i] = x
      BY DEF IsListOf
    <2> HIDE DEF n, a
    <2>4. u \in Seq(Tuples) /\ Len(u) = a - 1 /\ \A i \in 1..(a - 1) : u[i] = s[i]
      <3>1. 1 \in Int /\ a - 1 \in Int /\ \A i \in 1..(a - 1) : s[i] \in Tuples
        BY <1>1, <2>1
      <3>2. /\ u \in Seq(Tuples) /\ Len(u) = IF 1 <= a - 1 THEN a - 1 - 1 + 1 ELSE 0
            /\ \A i \in 1..(a - 1 - 1 + 1) : u[i] = s[1 + i - 1]
        BY <3>1, SubSeqProperties
      <3> HIDE DEF u
      <3> QED
        BY <1>1, <2>1, <3>2
    <2>5. v \in Seq(Tuples) /\ Len(v) = n - a /\ \A i \in 1..(n - a) : v[i] = s[a + i]
      <3>1. n \in Int /\ a + 1 \in Int /\ \A i \in (a + 1)..n : s[i] \in Tuples
        BY <1>1, <2>1
      <3>2. /\ v \in Seq(Tuples) /\ Len(v) = IF a + 1 <= n THEN n - (a + 1) + 1 ELSE 0
            /\ \A i \in 1..(n - (a + 1) + 1) : v[i] = s[a + 1 + i - 1]
        BY <3>1, SubSeqProperties
      <3> HIDE DEF v
      <3> QED
        BY <1>1, <2>1, <3>2
    <2>6. w \in Seq(Tuples) /\ Len(w) = Len(u) + Len(v)
          /\ \A i \in 1..Len(u) + Len(v) : w[i] = IF i <= Len(u) THEN u[i] ELSE v[i - Len(u)]
      <3> HIDE DEF u, v
      <3> QED
        BY <2>4, <2>5, ConcatProperties
    <2> HIDE DEF u, v, w
    <2>7. Len(u) + Len(v) = n - 1
      BY <1>1, <2>1, <2>4, <2>5
    <2> DEFINE at(i) == IF i < a THEN i ELSE i + 1
    <2>8. \A i \in 1..(n - 1) : w[i] = s[at(i)]
      <3> SUFFICES ASSUME NEW i \in 1..(n - 1) PROVE w[i] = s[at(i)]
        OBVIOUS
      <3>1. CASE i < a
        BY <1>1, <2>1, <2>4, <2>6, <2>7, <3>1
      <3>2. CASE ~(i < a)
        <4>1. i - (a - 1) \in 1..(n - a) /\ a + (i - (a - 1)) = i + 1 /\ ~(i <= a - 1)
          BY <1>1, <2>1, <3>2
        <4>2. w[i] = v[i - (a - 1)]
          BY <2>4, <2>6, <2>7, <4>1
        <4> QED
          BY <2>5, <3>2, <4>1, <4>2
      <3> QED
        BY <3>1, <3>2
    <2>9. \A i, j \in 1..(n - 1) : at(i) \in 1..n /\ at(i) # a /\ (at(i) = at(j) => i = j)
      BY <1>1, <2>1
    <2>10. \A i \in 1..n : i # a => \E j \in 1..(n - 1) : at(j) = i
      <3> SUFFICES ASSUME NEW i \in 1..n, i # a PROVE \E j \in 1..(n - 1) : at(j) = i
        OBVIOUS
      <3>1. CASE i < a
        <4>1. i \in 1..(n - 1) /\ at(i) = i
          BY <1>1, <2>1, <3>1
        <4> QED
          BY <4>1
      <3>2. CASE ~(i < a)
        <4>1. i - 1 \in 1..(n - 1) /\ at(i - 1) = i
          BY <1>1, <2>1, <3>2
        <4> QED
          BY <4>1
      <3> QED
        BY <3>1, <3>2
    <2>11. Len(w) = n - 1
      BY <2>6, <2>7
    <2> HIDE DEF at
    <2>12. \A i, j \in 1..(n - 1) : w[i] = w[j] => i = j
      BY <2>3, <2>8, <2>9
    <2>13. \A x : x \in S \ {t} <=> \E i \in 1..(n - 1) : w[i] = x
      BY <2>1, <2>3, <2>8, <2>9, <2>10
    <2>14. S \ {t} = {w[i] : i \in 1..(n - 1)}
      BY <2>13
    <2>15. IsListOf(w, S \ {t})
      BY <2>6, <2>11, <2>12, <2>14 DEF IsListOf
    <2> QED
      BY <1>4, <2>2, <2>15
  <1> QED
    BY <1>3, <1>4

\* A packet makes its connection the youngest.
LEMMA SeenList ==
  ASSUME NEW S, NEW s, IsListOf(s, S), NEW t \in Tuples
  PROVE  IsListOf(Append(Without(s, t), t), S \cup {t})
  <1> DEFINE w == Without(s, t)
             n == Len(w)
             z == Append(w, t)
  <1>1. IsListOf(w, S \ {t})
    BY WithoutList
  <1> HIDE DEF w
  <1>2. /\ w \in Seq(Tuples) /\ n \in Nat
        /\ \A i, j \in 1..n : w[i] = w[j] => i = j
        /\ \A x : x \in S \ {t} <=> \E i \in 1..n : w[i] = x
    BY <1>1, LenProperties DEF IsListOf
  <1>3. /\ z \in Seq(Tuples) /\ Len(z) = n + 1
        /\ \A i \in 1..n : z[i] = w[i]
        /\ z[n + 1] = t
    BY <1>2, AppendProperties
  <1> HIDE DEF n, z
  <1>4. \A i \in 1..(n + 1) : i \in 1..n \/ i = n + 1
    BY <1>2
  <1>5. \A i \in 1..n : i \in 1..(n + 1) /\ z[i] # t
    <2>1. \A i \in 1..n : w[i] \in S \ {t}
      BY <1>2
    <2>2. \A i \in 1..n : i \in 1..(n + 1)
      BY <1>2
    <2> QED
      BY <1>3, <2>1, <2>2
  <1>6. n + 1 \in 1..(n + 1)
    BY <1>2
  <1>7. \A i, j \in 1..(n + 1) : z[i] = z[j] => i = j
    BY <1>2, <1>3, <1>4, <1>5
  <1>8. \A x : x \in S \cup {t} <=> \E i \in 1..(n + 1) : z[i] = x
    BY <1>2, <1>3, <1>4, <1>5, <1>6
  <1> QED
    BY <1>3, <1>7, <1>8 DEF IsListOf, z, w
-----------------------------------------------------------------------------
(***************************************************************************)
(* What every table is like.                                               *)
(***************************************************************************)
\* What has been taken out of the stream of a proxied connection
TakenOut(c) ==
    \/ c.socks.phase = "hello" /\ c.got = 0 /\ c.fwd = 0
    \/ c.socks.phase = "auth" /\ Password /\ c.got = 2 /\ c.fwd = 0
    \/ c.socks.phase = "connecting" /\ c.got + 4 + Bnd = ReplyLength(0) /\ c.fwd = 0
    \/ c.socks.phase = "skip" /\ c.got + c.socks.skip = ReplyLength(0) /\ c.fwd = 0
    \/ c.socks.phase = "established" /\ c.got = ReplyLength(0) + c.fwd

\* A socket is that of a connection on its way or there; a handshake is that of a
\* connection to the proxy.
ConnOk(t, c) ==
    /\ c.sock => c.status \in {"connecting", "connected"}
    /\ c.got <= ReplyLength(Data)
    /\ c.status # "connected" \/ t \notin Proxied => c.socks = NoProxy /\ c.got = 0
    /\ c.status # "connected" => c.fwd = 0
    /\ c.status = "connected" /\ t \in Proxied => TakenOut(c)

SocketsOf(T)  == {t \in Tuples : T.conn[t].sock}
UsersOf(T, p) == {t \in Udp : ClientPort[t] = p /\ T.conn[t].sock /\
                              T.conn[t].port = T.mapping[p].port}
Present(T)    == {t \in Tuples : T.conn[t].status # "none"}
OpenIn(T, t)  == T.conn[t].status \in {"new", "connecting", "connected"}

Counted(T) ==
    /\ IsFiniteSet(SocketsOf(T)) /\ T.sockets = Cardinality(SocketsOf(T))
    /\ T.sockets <= MaxSockets

MappedAt(T, p) ==
    /\ T.mapping[p].uses = 0 <=> T.mapping[p] = NoMapping
    /\ T.mapping[p].uses # 0 => T.mapping[p].port \in LocalPorts
    /\ T.mapping[p].uses <= Cardinality(UsersOf(T, p))

OwnedAt(T, t) ==
    /\ T.owned[t] \in 0..1
    /\ t \in Udp => T.owned[t] = IF OpenIn(T, t) THEN 1 ELSE 0
    /\ OpenIn(T, t) => T.owned[t] = 1

Good(T) ==
    /\ T \in TableType
    /\ \A t \in Tuples : ConnOk(t, T.conn[t]) /\ OwnedAt(T, t)
    /\ IsListOf(T.age, Present(T))
    /\ Counted(T)
    /\ \A p \in ClientPorts : MappedAt(T, p)

\* Nothing but the connection of t changes.
OnlyAt(t, T, U) == \A u \in Tuples \ {t} : U.conn[u] = T.conn[u] /\ U.owned[u] = T.owned[u]

\* Connections without a socket are well-formed.
LEMMA ConstOk ==
  ASSUME NEW t
  PROVE  ConnOk(t, NoConn) /\ ConnOk(t, NewConn) /\ ConnOk(t, Closed)
  <1>1. 0 <= ReplyLength(Data)
    BY SocksAssumption, TableAssumption DEF ReplyLength
  <1> QED
    BY <1>1, ConstTypes DEF ConnOk

\* The users of a mapping can be counted.
LEMMA UsersFinite ==
  ASSUME NEW T, NEW p
  PROVE  IsFiniteSet(UsersOf(T, p)) /\ Cardinality(UsersOf(T, p)) \in Nat
         /\ Cardinality(UsersOf(T, p)) <= Cardinality(Udp)
  <1>1. UsersOf(T, p) \subseteq Udp /\ IsFiniteSet(Udp)
    BY TableAssumption DEF UsersOf
  <1> QED
    BY <1>1, FS_Subset, FS_CardinalityType

\* A step that changes one connection: what remains to be shown
LEMMA GoodAgain ==
  ASSUME NEW T, Good(T), NEW U \in TableType, NEW t \in Tuples, OnlyAt(t, T, U),
         ConnOk(t, U.conn[t]), OwnedAt(U, t), IsListOf(U.age, Present(U)), Counted(U),
         \A p \in ClientPorts : MappedAt(U, p)
  PROVE  Good(U)
  <1>1. \A u \in Tuples \ {t} : ConnOk(u, U.conn[u]) /\ OwnedAt(U, u)
    BY DEF Good, OnlyAt, OwnedAt, OpenIn
  <1> QED
    BY <1>1 DEF Good

\* When the socket stays as it is
LEMMA SameSocket ==
  ASSUME NEW T, Good(T), NEW U, NEW t \in Tuples, OnlyAt(t, T, U),
         U.conn[t].sock = T.conn[t].sock, U.sockets = T.sockets
  PROVE  Counted(U)
  <1>1. SocketsOf(U) = SocketsOf(T)
    BY DEF SocketsOf, OnlyAt
  <1> QED
    BY <1>1 DEF Good, Counted

\* When the socket is closed, if there is one
LEMMA SocketGone ==
  ASSUME NEW T, Good(T), NEW U, NEW t \in Tuples, OnlyAt(t, T, U),
         ~U.conn[t].sock,
         U.sockets = IF T.conn[t].sock /\ T.sockets # 0 THEN T.sockets - 1 ELSE T.sockets
  PROVE  Counted(U)
  <1>1. /\ IsFiniteSet(SocketsOf(T)) /\ T.sockets = Cardinality(SocketsOf(T))
        /\ T.sockets <= MaxSockets /\ T.sockets \in Nat /\ MaxSockets \in Nat
        /\ T.conn[t].sock \in BOOLEAN
    BY TableAssumption DEF Good, Counted, TableType, ConnType
  <1>2. CASE T.conn[t].sock
    <2>1. t \in SocketsOf(T) /\ SocketsOf(U) = SocketsOf(T) \ {t}
      BY <1>2 DEF SocketsOf, OnlyAt
    <2>2. /\ IsFiniteSet(SocketsOf(U))
          /\ Cardinality(SocketsOf(U)) = Cardinality(SocketsOf(T)) - 1
      BY <1>1, <2>1, FS_RemoveElement
    <2>3. Cardinality(SocketsOf(U)) \in Nat
      BY <2>2, FS_CardinalityType
    <2> QED
      BY <1>1, <1>2, <2>2, <2>3 DEF Counted
  <1>3. CASE ~T.conn[t].sock
    <2>1. SocketsOf(U) = SocketsOf(T)
      BY <1>3 DEF SocketsOf, OnlyAt
    <2> QED
      BY <1>1, <1>3, <2>1 DEF Counted
  <1> QED
    BY <1>1, <1>2, <1>3

\* When a socket is opened
LEMMA SocketMore ==
  ASSUME NEW T, Good(T), NEW U, NEW t \in Tuples, OnlyAt(t, T, U),
         ~T.conn[t].sock, U.conn[t].sock, CanOpen(T), U.sockets = T.sockets + 1
  PROVE  Counted(U)
  <1>1. /\ IsFiniteSet(SocketsOf(T)) /\ T.sockets = Cardinality(SocketsOf(T))
        /\ T.sockets < MaxSockets /\ T.sockets \in Nat /\ MaxSockets \in Nat
    BY TableAssumption DEF Good, Counted, TableType, CanOpen
  <1>2. t \notin SocketsOf(T) /\ SocketsOf(U) = SocketsOf(T) \cup {t}
    BY DEF SocketsOf, OnlyAt
  <1>3. /\ IsFiniteSet(SocketsOf(U))
        /\ Cardinality(SocketsOf(U)) = Cardinality(SocketsOf(T)) + 1
    BY <1>1, <1>2, FS_AddElement
  <1> QED
    BY <1>1, <1>3 DEF Counted

\* When socket and port of a UDP connection and the mappings stay as they are
LEMMA SameUsers ==
  ASSUME NEW T, Good(T), NEW U, NEW t \in Tuples, OnlyAt(t, T, U), U.mapping = T.mapping,
         t \in Udp => U.conn[t].sock = T.conn[t].sock /\ U.conn[t].port = T.conn[t].port
  PROVE  \A p \in ClientPorts : MappedAt(U, p)
  <1>1. Udp \subseteq Tuples
    BY DEF Tuples
  <1>2. \A p : UsersOf(U, p) = UsersOf(T, p)
    BY <1>1 DEF UsersOf, OnlyAt
  <1> QED
    BY <1>2 DEF Good, MappedAt

\* When a UDP connection loses its socket and its client port a use
LEMMA UserGone ==
  ASSUME NEW T, Good(T), NEW U, NEW t \in Udp, OnlyAt(t, T, U),
         ~U.conn[t].sock, U.mapping = Unmap(T.mapping, t)
  PROVE  \A p \in ClientPorts : MappedAt(U, p)
  <1> SUFFICES ASSUME NEW p \in ClientPorts PROVE MappedAt(U, p)
    OBVIOUS
  <1>1. Udp \subseteq Tuples
    BY DEF Tuples
  <1>2. /\ T.mapping \in [ClientPorts -> [port : LocalPorts \cup {None}, uses : Nat]]
        /\ MappedAt(T, p)
    BY DEF Good, TableType
  <1>3. /\ \A q \in ClientPorts \ {ClientPort[t]} : U.mapping[q] = T.mapping[q]
        /\ LET q == ClientPort[t]
           IN  \/ T.mapping[q].uses = 0 /\ U.mapping[q] = T.mapping[q]
               \/ T.mapping[q].uses = 1 /\ U.mapping[q] = NoMapping
               \/ /\ T.mapping[q].uses > 1 /\ U.mapping[q].port = T.mapping[q].port
                  /\ U.mapping[q].uses = T.mapping[q].uses - 1
    BY <1>2, UnmapMap
  <1>4. CASE p # ClientPort[t]
    <2>1. U.mapping[p] = T.mapping[p]
      BY <1>3, <1>4
    <2>2. UsersOf(U, p) = UsersOf(T, p)
      BY <1>1, <1>4, <2>1 DEF UsersOf, OnlyAt
    <2> QED
      BY <1>2, <2>1, <2>2 DEF MappedAt
  <1>5. CASE p = ClientPort[t] /\ T.mapping[p].uses = 0 /\ U.mapping[p] = T.mapping[p]
    <2>1. Cardinality(UsersOf(U, p)) \in Nat
      BY UsersFinite
    <2> QED
      BY <1>2, <1>5, <2>1 DEF MappedAt
  <1>6. CASE p = ClientPort[t] /\ U.mapping[p] = NoMapping
    <2>1. Cardinality(UsersOf(U, p)) \in Nat /\ NoMapping.uses = 0
      BY UsersFinite DEF NoMapping
    <2> QED
      BY <1>6, <2>1 DEF MappedAt
  <1>7. CASE /\ p = ClientPort[t]
             /\ T.mapping[p].uses > 1 /\ U.mapping[p].port = T.mapping[p].port
             /\ U.mapping[p].uses = T.mapping[p].uses - 1
    <2>1. UsersOf(U, p) = UsersOf(T, p) \ {t}
      BY <1>1, <1>7 DEF UsersOf, OnlyAt
    <2>2. /\ IsFiniteSet(UsersOf(T, p)) /\ Cardinality(UsersOf(T, p)) \in Nat
          /\ Cardinality(UsersOf(U, p)) \in Nat
      BY UsersFinite
    <2>3. Cardinality(UsersOf(U, p)) >= Cardinality(UsersOf(T, p)) - 1
      <3>1. CASE t \in UsersOf(T, p)
        <4>1. Cardinality(UsersOf(T, p) \ {t}) = Cardinality(UsersOf(T, p)) - 1
          BY <2>2, <3>1, FS_RemoveElement
        <4> QED
          BY <2>1, <2>2, <4>1
      <3>2. CASE t \notin UsersOf(T, p)
        <4>1. UsersOf(U, p) = UsersOf(T, p)
          BY <2>1, <3>2
        <4> QED
          BY <2>2, <4>1
      <3> QED
        BY <3>1, <3>2
    <2>4. T.mapping[p].uses \in Nat /\ T.mapping[p].uses <= Cardinality(UsersOf(T, p))
      BY <1>2 DEF MappedAt
    <2>5. /\ U.mapping[p].uses <= Cardinality(UsersOf(U, p))
          /\ U.mapping[p].uses # 0 /\ T.mapping[p].uses # 0
      BY <1>7, <2>2, <2>3, <2>4
    <2>6. U.mapping[p].port \in LocalPorts
      BY <1>2, <1>7, <2>5 DEF MappedAt
    <2>7. NoMapping.uses = 0
      BY DEF NoMapping
    <2> QED
      BY <2>5, <2>6, <2>7 DEF MappedAt
  <1> QED
    BY <1>3, <1>4, <1>5, <1>6, <1>7

\* When a UDP connection is bound to a local port its client port may use
LEMMA UserMore ==
  ASSUME NEW T, Good(T), NEW U, NEW t \in Udp, OnlyAt(t, T, U), NEW port \in LocalPort(T, t),
         ~T.conn[t].sock, U.conn[t].sock, U.conn[t].port = port,
         U.mapping = [T.mapping EXCEPT ![ClientPort[t]] =
                         [port |-> port, uses |-> T.mapping[ClientPort[t]].uses + 1]]
  PROVE  \A p \in ClientPorts : MappedAt(U, p)
  <1> SUFFICES ASSUME NEW p \in ClientPorts PROVE MappedAt(U, p)
    OBVIOUS
  <1> DEFINE m == T.mapping[p]
  <1>1. Udp \subseteq Tuples /\ ClientPort[t] \in ClientPorts
    BY PortOf DEF Tuples
  <1>2. /\ T.mapping \in [ClientPorts -> [port : LocalPorts \cup {None}, uses : Nat]]
        /\ MappedAt(T, p)
    BY DEF Good, TableType
  <1>3. CASE p # ClientPort[t]
    <2>1. U.mapping[p] = T.mapping[p]
      BY <1>2, <1>3
    <2>2. UsersOf(U, p) = UsersOf(T, p)
      BY <1>1, <1>3, <2>1 DEF UsersOf, OnlyAt
    <2> QED
      BY <1>2, <2>1, <2>2 DEF MappedAt
  <1>4. CASE p = ClientPort[t]
    <2>1. U.mapping[p].port = port /\ U.mapping[p].uses = m.uses + 1 /\ m.uses \in Nat
      BY <1>1, <1>2, <1>4
    <2>2. port \in LocalPorts /\ (m.uses # 0 => port = m.port)
      BY <1>2, <1>4 DEF LocalPort, MappedAt
    <2>3. t \in UsersOf(U, p) /\ t \notin UsersOf(T, p)
      BY <1>4, <2>1 DEF UsersOf
    <2>4. /\ IsFiniteSet(UsersOf(U, p)) /\ Cardinality(UsersOf(U, p)) \in Nat
          /\ IsFiniteSet(UsersOf(T, p)) /\ Cardinality(UsersOf(T, p)) \in Nat
      BY UsersFinite
    <2>5. m.uses + 1 <= Cardinality(UsersOf(U, p))
      <3>1. CASE m.uses = 0
        <4>1. {t} \subseteq UsersOf(U, p)
          BY <2>3
        <4>2. Cardinality({t}) = 1 /\ Cardinality({t}) <= Cardinality(UsersOf(U, p))
          BY <2>4, <4>1, FS_Subset, FS_Singleton
        <4> QED
          BY <3>1, <4>2
      <3>2. CASE m.uses # 0
        <4>1. UsersOf(U, p) = UsersOf(T, p) \cup {t}
          BY <1>1, <1>4, <2>1, <2>2, <2>3, <3>2 DEF UsersOf, OnlyAt
        <4>2. Cardinality(UsersOf(U, p)) = Cardinality(UsersOf(T, p)) + 1
          BY <2>3, <2>4, <4>1, FS_AddElement
        <4>3. m.uses <= Cardinality(UsersOf(T, p))
          BY <1>2 DEF MappedAt
        <4> QED
          BY <2>1, <2>4, <4>2, <4>3
      <3> QED
        BY <3>1, <3>2
    <2>6. U.mapping[p] # NoMapping /\ U.mapping[p].uses # 0
      BY <2>1 DEF NoMapping
    <2> QED
      BY <2>1, <2>2, <2>5, <2>6 DEF MappedAt
  <1> QED
    BY <1>3, <1>4
-----------------------------------------------------------------------------
(***************************************************************************)
(* The steps the handlers are made of.                                     *)
(***************************************************************************)
\* When the connection neither comes nor goes
LEMMA PresentSame ==
  ASSUME NEW T, Good(T), NEW U, NEW t \in Tuples, OnlyAt(t, T, U), U.age = T.age,
         T.conn[t].status # "none", U.conn[t].status # "none"
  PROVE  IsListOf(U.age, Present(U))
  <1>1. Present(U) = Present(T)
    BY DEF Present, OnlyAt
  <1> QED
    BY <1>1 DEF Good

\* zdtun_conn_close of a connection that is not closed
LEMMA GoodClosed ==
  ASSUME NEW T, Good(T), NEW t \in Tuples, OpenIn(T, t)
  PROVE  LET U == CloseConn(T, t)
         IN  /\ Good(U)
             /\ U.conn = [T.conn EXCEPT ![t] = Closed] /\ U.age = T.age
  <1> DEFINE U == CloseConn(T, t)
  <1>1. /\ T \in TableType /\ T.conn \in [Tuples -> ConnType] /\ T.owned \in [Tuples -> Int]
        /\ T.conn[t].status # "closed" /\ T.conn[t].status # "none" /\ T.owned[t] = 1
    BY DEF Good, TableType, OpenIn, OwnedAt
  <1>2. /\ U \in TableType
        /\ U.conn = [T.conn EXCEPT ![t] = Closed]
        /\ U.sockets = IF T.conn[t].sock /\ T.sockets # 0 THEN T.sockets - 1 ELSE T.sockets
        /\ U.mapping = IF t \in Udp THEN Unmap(T.mapping, t) ELSE T.mapping
        /\ U.owned = [T.owned EXCEPT ![t] = T.owned[t] - 1]
        /\ U.age = T.age
    BY <1>1, CloseConnFields
  <1> HIDE DEF U
  <1>3. /\ OnlyAt(t, T, U) /\ U.conn[t] = Closed /\ U.owned[t] = 0
    BY <1>1, <1>2 DEF OnlyAt
  <1>4. Closed.status = "closed" /\ ~Closed.sock
    BY ConstTypes
  <1>5. ConnOk(t, U.conn[t]) /\ OwnedAt(U, t)
    BY <1>3, <1>4, ConstOk DEF OwnedAt, OpenIn
  <1>6. IsListOf(U.age, Present(U))
    BY <1>1, <1>2, <1>3, <1>4, PresentSame
  <1>7. Counted(U)
    BY <1>2, <1>3, <1>4, SocketGone
  <1>8. \A p \in ClientPorts : MappedAt(U, p)
    <2>1. CASE t \in Udp
      BY <1>2, <1>3, <1>4, <2>1, UserGone
    <2>2. CASE t \notin Udp
      BY <1>2, <1>3, <2>2, SameUsers
    <2> QED
      BY <2>1, <2>2
  <1> QED
    BY <1>2, <1>3, <1>5, <1>6, <1>7, <1>8, GoodAgain DEF U

\* destroy_conn
LEMMA GoodDestroyed ==
  ASSUME NEW T, Good(T), NEW t \in Tuples, T.conn[t].status # "none"
  PROVE  LET U == Destroyed(T, t)
         IN  /\ Good(U)
             /\ U.conn = [T.conn EXCEPT ![t] = NoConn] /\ U.age = Without(T.age, t)
  <1> DEFINE U == Destroyed(T, t)
             C == CloseConn(T, t)
  <1>1. /\ T \in TableType /\ T.conn \in [Tuples -> ConnType]
        /\ T.conn[t].status \in {"new", "connecting", "connected", "closed"}
    BY DEF Good, TableType, ConnType
  <1>2. Good(C) /\ C.conn[t].status = "closed" /\ ~C.conn[t].sock /\ OnlyAt(t, T, C)
        /\ C.age = T.age /\ C.owned \in [Tuples -> Int]
    <2>1. CASE T.conn[t].status = "closed"
      <3>1. C = T
        BY <2>1 DEF CloseConn
      <3>2. ~T.conn[t].sock
        BY <2>1 DEF Good, ConnOk
      <3> QED
        BY <2>1, <3>1, <3>2 DEF OnlyAt, Good, TableType
    <2>2. CASE T.conn[t].status # "closed"
      <3>1. OpenIn(T, t)
        BY <1>1, <2>2 DEF OpenIn
      <3>2. /\ Good(C) /\ C.conn = [T.conn EXCEPT ![t] = Closed] /\ C.age = T.age
        BY <3>1, GoodClosed
      <3>3. C.owned = [T.owned EXCEPT ![t] = T.owned[t] - 1]
        BY <1>1, <2>2, CloseConnFields
      <3> HIDE DEF C
      <3>4. C.conn[t].status = "closed" /\ ~C.conn[t].sock
        BY <1>1, <3>2, ConstTypes
      <3>5. OnlyAt(t, T, C) /\ C.owned \in [Tuples -> Int]
        BY <3>2, <3>3 DEF OnlyAt, Good, TableType
      <3> QED
        BY <3>2, <3>4, <3>5
    <2> QED
      BY <2>1, <2>2
  <1>3. /\ IsListOf(Without(T.age, t), Present(T) \ {t})
        /\ Without(T.age, t) \in Seq(Tuples)
    <2>1. IsListOf(T.age, Present(T))
      BY DEF Good
    <2>2. IsListOf(Without(T.age, t), Present(T) \ {t})
      BY <2>1, WithoutList
    <2> QED
      BY <2>2 DEF IsListOf
  <1>4. /\ U \in TableType /\ U.conn = [T.conn EXCEPT ![t] = NoConn]
        /\ U.age = Without(T.age, t)
        /\ U.sockets = C.sockets /\ U.mapping = C.mapping /\ U.owned = C.owned
    BY <1>1, <1>3, DestroyedFields
  <1> HIDE DEF U, C
  <1>5. OnlyAt(t, C, U) /\ OnlyAt(t, T, U) /\ U.conn[t] = NoConn
    BY <1>1, <1>2, <1>4 DEF OnlyAt
  <1>6. NoConn.status = "none" /\ ~NoConn.sock
    BY ConstTypes
  <1>7. ConnOk(t, U.conn[t])
    BY <1>5, ConstOk
  <1>8. OwnedAt(U, t)
    BY <1>2, <1>4, <1>5, <1>6 DEF Good, OwnedAt, OpenIn
  <1>9. Present(U) = Present(T) \ {t}
    BY <1>5, <1>6 DEF Present, OnlyAt
  <1>10. Counted(U)
    <2>1. C.conn[t].sock = FALSE /\ U.conn[t].sock = FALSE
      BY <1>2, <1>5, ConstTypes DEF Good, TableType, ConnType, NoConn
    <2> QED
      BY <1>2, <1>4, <1>5, <2>1, SameSocket
  <1>11. \A p \in ClientPorts : MappedAt(U, p)
    <2>1. Udp \subseteq Tuples
      BY DEF Tuples
    <2>2. \A p : UsersOf(U, p) = UsersOf(C, p)
      BY <1>2, <1>4, <1>5, <1>6, <2>1 DEF UsersOf, OnlyAt
    <2> QED
      BY <1>2, <1>4, <2>2 DEF Good, MappedAt
  <1> QED
    BY <1>2, <1>3, <1>4, <1>5, <1>7, <1>8, <1>9, <1>10, <1>11, GoodAgain DEF U

\* conn->tstamp = zdtun_now
LEMMA GoodSeen ==
  ASSUME NEW T, Good(T), NEW t \in Tuples, T.conn[t].status # "none"
  PROVE  Good(Seen(T, t)) /\ Seen(T, t).conn = T.conn
  <1> DEFINE U == Seen(T, t)
  <1>1. /\ U.age = Append(Without(T.age, t), t)
        /\ U.conn = T.conn /\ U.sockets = T.sockets
        /\ U.mapping = T.mapping /\ U.owned = T.owned
    BY SeenFields DEF Good
  <1>2. Present(T) \cup {t} = Present(T)
    BY DEF Present
  <1>3. IsListOf(U.age, Present(T))
    <2>1. IsListOf(T.age, Present(T))
      BY DEF Good
    <2>2. IsListOf(Append(Without(T.age, t), t), Present(T) \cup {t})
      BY <2>1, SeenList
    <2> QED
      BY <1>1, <1>2, <2>2
  <1>4. U \in TableType
    <2>1. Append(Without(T.age, t), t) \in Seq(Tuples)
      BY <1>1, <1>3 DEF IsListOf
    <2> HIDE DEF U
    <2>2. U = [T EXCEPT !.age = Append(Without(T.age, t), t)]
      BY DEF U, Seen
    <2> QED
      BY <2>1, <2>2 DEF Good, TableType
  <1> HIDE DEF U
  <1>5. OnlyAt(t, T, U)
    BY <1>1 DEF OnlyAt
  <1>6. ConnOk(t, U.conn[t]) /\ OwnedAt(U, t)
    BY <1>1 DEF Good, OwnedAt, OpenIn
  <1>7. Present(U) = Present(T)
    BY <1>1 DEF Present
  <1>8. Counted(U)
    BY <1>1, <1>5, SameSocket
  <1>9. \A p \in ClientPorts : MappedAt(U, p)
    BY <1>1, <1>5, SameUsers
  <1> QED
    BY <1>1, <1>3, <1>4, <1>5, <1>6, <1>7, <1>8, <1>9, GoodAgain DEF U

\* The first packet of a connection
Created(T, t) == [T EXCEPT !.conn[t] = NewConn, !.owned[t] = 1]

LEMMA GoodCreated ==
  ASSUME NEW T, Good(T), NEW t \in Tuples, T.conn[t].status = "none"
  PROVE  LET U == Seen(Created(T, t), t)
         IN  Good(U) /\ U.conn = [T.conn EXCEPT ![t] = NewConn]
  <1> DEFINE k == [T.conn EXCEPT ![t] = NewConn]
             o == [T.owned EXCEPT ![t] = 1]
             C == Created(T, t)
             U == Seen(C, t)
  <1>1. /\ T \in TableType /\ T.conn \in [Tuples -> ConnType] /\ T.owned \in [Tuples -> Int]
    BY DEF Good, TableType
  <1>2. k \in [Tuples -> ConnType] /\ o \in [Tuples -> Int]
    <2>1. 1 \in Int
      OBVIOUS
    <2> QED
      BY <1>1, <2>1, ConstTypes
  <1>3. C = [T EXCEPT !.conn = k, !.owned = o]
    BY DEF Created
  <1>4. k[t] = NewConn /\ o[t] = 1
        /\ \A u \in Tuples \ {t} : k[u] = T.conn[u] /\ o[u] = T.owned[u]
    BY <1>1
  <1> HIDE DEF k, o
  <1>5. /\ C \in TableType /\ C.conn = k /\ C.owned = o /\ C.age = T.age
        /\ C.sockets = T.sockets /\ C.mapping = T.mapping
    BY <1>1, <1>2, <1>3 DEF TableType
  <1> HIDE DEF C
  <1>6. /\ U.age = Append(Without(T.age, t), t)
        /\ U.conn = k /\ U.sockets = T.sockets
        /\ U.mapping = T.mapping /\ U.owned = o
    BY <1>5, SeenFields
  <1>7. NewConn.status = "new" /\ NewConn.sock = FALSE
    BY ConstTypes DEF NewConn, NoConn
  <1>8. Present(U) = Present(T) \cup {t}
    BY <1>4, <1>6, <1>7 DEF Present
  <1>9. IsListOf(U.age, Present(U))
    <2>1. IsListOf(T.age, Present(T))
      BY DEF Good
    <2>2. IsListOf(Append(Without(T.age, t), t), Present(T) \cup {t})
      BY <2>1, SeenList
    <2> QED
      BY <1>6, <1>8, <2>2
  <1>10. U \in TableType
    <2>1. Append(Without(T.age, t), t) \in Seq(Tuples)
      BY <1>6, <1>9 DEF IsListOf
    <2> HIDE DEF U
    <2>2. U = [C EXCEPT !.age = Append(Without(T.age, t), t)]
      BY <1>5 DEF U, Seen
    <2> QED
      BY <1>5, <2>1, <2>2 DEF TableType
  <1> HIDE DEF U
  <1>11. OnlyAt(t, T, U)
    BY <1>4, <1>6 DEF OnlyAt
  <1>12. ~T.conn[t].sock /\ T.conn[t].sock = FALSE
    BY <1>1 DEF Good, ConnOk, ConnType
  <1>13. ConnOk(t, U.conn[t]) /\ OwnedAt(U, t)
    BY <1>4, <1>6, <1>7, ConstOk DEF OwnedAt, OpenIn
  <1>14. U.conn[t].sock = T.conn[t].sock
    BY <1>4, <1>6, <1>7, <1>12
  <1>15. Counted(U)
    BY <1>6, <1>11, <1>14, SameSocket
  <1>16. \A p \in ClientPorts : MappedAt(U, p)
    <2>1. Udp \subseteq Tuples
      BY DEF Tuples
    <2>2. \A p : UsersOf(U, p) = UsersOf(T, p)
      BY <1>6, <1>11, <1>12, <1>14, <2>1 DEF UsersOf, OnlyAt
    <2> QED
      BY <1>6, <2>2 DEF Good, MappedAt
  <1>17. Good(U)
    BY <1>9, <1>10, <1>11, <1>13, <1>15, <1>16, GoodAgain
  <1> QED
    BY <1>6, <1>17 DEF U, C, k

\* A socket of a connection is closed, and the connection stays.
LEMMA GoodSocketClosed ==
  ASSUME NEW T, Good(T), NEW t \in Tcp, T.conn[t].status # "none"
  PROVE  Good(CloseSocket(T, t))
  <1> DEFINE U == CloseSocket(T, t)
             c == [T.conn[t] EXCEPT !.sock = FALSE]
  <1>1. t \in Tuples /\ t \notin Udp /\ T \in TableType /\ T.conn \in [Tuples -> ConnType]
        /\ T.conn[t] \in ConnType
    BY TableAssumption DEF Good, TableType, Tuples
  <1>2. /\ U \in TableType
        /\ U.conn = [T.conn EXCEPT ![t] = c]
        /\ U.sockets = IF T.conn[t].sock /\ T.sockets # 0 THEN T.sockets - 1 ELSE T.sockets
        /\ U.age = T.age /\ U.mapping = T.mapping /\ U.owned = T.owned
    BY <1>1, CloseSocketFields
  <1> HIDE DEF U
  <1>3. /\ OnlyAt(t, T, U) /\ U.conn[t] = c
    BY <1>1, <1>2 DEF OnlyAt
  <1>4. /\ c.sock = FALSE /\ c.status = T.conn[t].status /\ c.socks = T.conn[t].socks
        /\ c.got = T.conn[t].got /\ c.fwd = T.conn[t].fwd
    BY <1>1 DEF ConnType
  <1> HIDE DEF c
  <1>5. ConnOk(t, U.conn[t]) /\ OwnedAt(U, t)
    <2>1. ConnOk(t, T.conn[t]) /\ OwnedAt(T, t)
      BY <1>1 DEF Good
    <2>2. TakenOut(T.conn[t]) => TakenOut(c)
      BY <1>4 DEF TakenOut
    <2>3. ConnOk(t, c)
      BY <1>4, <2>1, <2>2 DEF ConnOk
    <2> QED
      BY <1>2, <1>3, <1>4, <2>1, <2>3 DEF OwnedAt, OpenIn
  <1>6. IsListOf(U.age, Present(U))
    BY <1>1, <1>2, <1>3, <1>4, PresentSame
  <1>7. Counted(U)
    BY <1>1, <1>2, <1>3, <1>4, SocketGone
  <1>8. \A p \in ClientPorts : MappedAt(U, p)
    BY <1>1, <1>2, <1>3, SameUsers
  <1> QED
    BY <1>1, <1>2, <1>3, <1>5, <1>6, <1>7, <1>8, GoodAgain DEF U

\* A connection is changed, but for its socket and its local port.
Edited(T, t, c) == [T EXCEPT !.conn = [T.conn EXCEPT ![t] = c]]

LEMMA GoodEdited ==
  ASSUME NEW T, Good(T), NEW t \in Tuples, NEW c \in ConnType, ConnOk(t, c),
         c.sock = T.conn[t].sock, c.port = T.conn[t].port,
         T.conn[t].status # "none", c.status # "none",
         c.status \in {"new", "connecting", "connected"} => OpenIn(T, t),
         t \in Udp => c.status = T.conn[t].status
  PROVE  Good(Edited(T, t, c)) /\ Edited(T, t, c).conn = [T.conn EXCEPT ![t] = c]
  <1> DEFINE k == [T.conn EXCEPT ![t] = c]
             U == Edited(T, t, c)
  <1>1. /\ T \in TableType /\ T.conn \in [Tuples -> ConnType]
    BY DEF Good, TableType
  <1>2. k \in [Tuples -> ConnType] /\ k[t] = c /\ \A u \in Tuples \ {t} : k[u] = T.conn[u]
    BY <1>1
  <1> HIDE DEF k
  <1>3. U = [T EXCEPT !.conn = k]
    BY DEF Edited, k
  <1>4. /\ U \in TableType /\ U.conn = k /\ U.owned = T.owned /\ U.age = T.age
        /\ U.sockets = T.sockets /\ U.mapping = T.mapping
    BY <1>1, <1>2, <1>3 DEF TableType
  <1> HIDE DEF U
  <1>5. OnlyAt(t, T, U) /\ U.conn[t] = c
    BY <1>2, <1>4 DEF OnlyAt
  <1>6. OwnedAt(U, t)
    BY <1>4, <1>5 DEF Good, OwnedAt, OpenIn
  <1>7. IsListOf(U.age, Present(U))
    BY <1>4, <1>5, PresentSame
  <1>8. Counted(U)
    BY <1>4, <1>5, SameSocket
  <1>9. \A p \in ClientPorts : MappedAt(U, p)
    BY <1>4, <1>5, SameUsers
  <1>10. Good(U)
    BY <1>4, <1>5, <1>6, <1>7, <1>8, <1>9, GoodAgain
  <1> QED
    BY <1>4, <1>10 DEF U, k

\* open_socket for a new TCP connection
LEMMA GoodOpened ==
  ASSUME NEW T, Good(T), NEW t \in Tcp, T.conn[t].status = "new", ~T.conn[t].sock, CanOpen(T)
  PROVE  LET U == OpenSocket(T, t, "connecting")
             c == [T.conn[t] EXCEPT !.sock = TRUE, !.status = "connecting"]
         IN  Good(U) /\ U.conn = [T.conn EXCEPT ![t] = c]
  <1> DEFINE U == OpenSocket(T, t, "connecting")
             c == [T.conn[t] EXCEPT !.sock = TRUE, !.status = "connecting"]
             k == [T.conn EXCEPT ![t] = c]
             n == T.sockets + 1
  <1>1. t \in Tuples /\ t \notin Udp /\ T \in TableType /\ T.conn \in [Tuples -> ConnType]
        /\ T.conn[t] \in ConnType /\ T.sockets \in Nat
    BY TableAssumption DEF Good, TableType, Tuples
  <1>2. /\ c.sock = TRUE /\ c.status = "connecting" /\ c.socks = T.conn[t].socks
        /\ c.got = T.conn[t].got /\ c.fwd = T.conn[t].fwd /\ c \in ConnType
    BY <1>1 DEF ConnType
  <1>3. U = [T EXCEPT !.conn = k, !.sockets = n]
    BY <1>1 DEF OpenSocket
  <1> HIDE DEF c
  <1>4. k \in [Tuples -> ConnType] /\ k[t] = c /\ n \in Nat
        /\ \A u \in Tuples \ {t} : k[u] = T.conn[u]
    BY <1>1, <1>2
  <1> HIDE DEF k, n
  <1>5. /\ U \in TableType /\ U.conn = k /\ U.owned = T.owned /\ U.age = T.age
        /\ U.sockets = n /\ U.mapping = T.mapping
    BY <1>1, <1>3, <1>4 DEF TableType
  <1> HIDE DEF U
  <1>6. OnlyAt(t, T, U) /\ U.conn[t] = c
    BY <1>4, <1>5 DEF OnlyAt
  <1>7. ConnOk(t, U.conn[t]) /\ OwnedAt(U, t)
    <2>1. ConnOk(t, T.conn[t]) /\ OwnedAt(T, t) /\ OpenIn(T, t)
      BY <1>1 DEF Good, OpenIn
    <2>2. ConnOk(t, c)
      BY <1>2, <2>1 DEF ConnOk
    <2> QED
      BY <1>1, <1>2, <1>5, <1>6, <2>1, <2>2 DEF OwnedAt, OpenIn
  <1>8. IsListOf(U.age, Present(U))
    BY <1>1, <1>2, <1>5, <1>6, PresentSame
  <1>9. Counted(U)
    <2>1. U.sockets = T.sockets + 1
      BY <1>5 DEF n
    <2> QED
      BY <1>1, <1>2, <1>6, <2>1, SocketMore
  <1>10. \A p \in ClientPorts : MappedAt(U, p)
    BY <1>1, <1>5, <1>6, SameUsers
  <1>11. Good(U)
    BY <1>1, <1>5, <1>6, <1>7, <1>8, <1>9, <1>10, GoodAgain
  <1> QED
    BY <1>5, <1>11 DEF U, k, c

\* bind_and_connect_udp for a new UDP connection
LEMMA GoodBound ==
  ASSUME NEW T, Good(T), NEW t \in Udp, T.conn[t].status = "new", CanOpen(T),
         NEW port \in LocalPort(T, t)
  PROVE  Good(Bound(T, t, port)) /\ Bound(T, t, port).conn[t].status = "connected"
  <1> DEFINE U == Bound(T, t, port)
             S == OpenSocket(T, t, "connected")
             b == [T.conn[t] EXCEPT !.sock = TRUE, !.status = "connected"]
             c == [T.conn[t] EXCEPT !.sock = TRUE, !.status = "connected", !.port = port]
             k == [T.conn EXCEPT ![t] = c]
             n == T.sockets + 1
             q == ClientPort[t]
             e == [port |-> port, uses |-> T.mapping[q].uses + 1]
             m == [T.mapping EXCEPT ![q] = e]
  <1>1. t \in Tuples /\ T \in TableType /\ T.conn \in [Tuples -> ConnType]
        /\ T.conn[t] \in ConnType /\ T.sockets \in Nat
    BY DEF Good, TableType, Tuples
  <1>2. T.mapping \in [ClientPorts -> [port : LocalPorts \cup {None}, uses : Nat]]
        /\ q \in ClientPorts /\ MappedAt(T, q)
    BY <1>1, PortOf DEF Good, TableType
  <1>3. T.mapping[q] \in [port : LocalPorts \cup {None}, uses : Nat]
    BY <1>2
  <1>4. port \in LocalPorts
    BY <1>2 DEF LocalPort, MappedAt
  <1>5. e \in [port : LocalPorts \cup {None}, uses : Nat]
    <2>1. T.mapping[q].uses \in Nat
      BY <1>3
    <2> DEFINE x == T.mapping[q].uses + 1
    <2>2. x \in Nat
      BY <2>1
    <2> HIDE DEF x
    <2>3. [port |-> port, uses |-> x] \in [port : LocalPorts \cup {None}, uses : Nat]
      BY <1>4, <2>2
    <2> QED
      BY <2>3 DEF x
  <1>6. /\ c.sock = TRUE /\ c.status = "connected" /\ c.socks = T.conn[t].socks /\ c.port = port
        /\ c.got = T.conn[t].got /\ c.fwd = T.conn[t].fwd /\ c \in ConnType
    BY <1>1, <1>4 DEF ConnType
  <1>7. U = [T EXCEPT !.conn = k, !.sockets = n, !.mapping = m]
    <2>1. S = [T EXCEPT !.conn = [T.conn EXCEPT ![t] = b], !.sockets = n]
      BY <1>1 DEF OpenSocket
    <2>2. S.conn = [T.conn EXCEPT ![t] = b] /\ S.mapping = T.mapping
      BY <1>1, <2>1 DEF TableType
    <2>3. S.conn[t] = b /\ [S.conn EXCEPT ![t] = c] = k
      BY <1>1, <2>2
    <2>4. [b EXCEPT !.port = port] = c
      BY <1>1 DEF ConnType
    <2>5. [S.conn EXCEPT ![t] = [S.conn[t] EXCEPT !.port = port]] = k
      BY <2>3, <2>4
    <2>6. [S.mapping EXCEPT ![q] = [port |-> port, uses |-> S.mapping[q].uses + 1]] = m
      BY <2>2
    <2>7. U = [S EXCEPT !.conn = [S.conn EXCEPT ![t] = [S.conn[t] EXCEPT !.port = port]],
                        !.mapping = [S.mapping EXCEPT ![q] =
                                        [port |-> port, uses |-> S.mapping[q].uses + 1]]]
      BY DEF Bound
    <2> HIDE DEF U, S, k, m
    <2>8. U = [S EXCEPT !.conn = k, !.mapping = m]
      BY <2>5, <2>6, <2>7
    <2>9. [[T EXCEPT !.conn = [T.conn EXCEPT ![t] = b], !.sockets = n]
               EXCEPT !.conn = k, !.mapping = m]
              = [T EXCEPT !.conn = k, !.sockets = n, !.mapping = m]
      BY <1>1 DEF TableType
    <2> QED
      BY <2>1, <2>8, <2>9
  <1> HIDE DEF c, e, b, S
  <1>8. k \in [Tuples -> ConnType] /\ k[t] = c /\ n \in Nat
        /\ \A u \in Tuples \ {t} : k[u] = T.conn[u]
    BY <1>1, <1>6
  <1>9. m \in [ClientPorts -> [port : LocalPorts \cup {None}, uses : Nat]]
    BY <1>2, <1>5
  <1> HIDE DEF k, n, m
  <1>10. /\ U \in TableType /\ U.conn = k /\ U.owned = T.owned /\ U.age = T.age
         /\ U.sockets = n /\ U.mapping = m
    BY <1>1, <1>7, <1>8, <1>9 DEF TableType
  <1> HIDE DEF U
  <1>11. OnlyAt(t, T, U) /\ U.conn[t] = c
    BY <1>8, <1>10 DEF OnlyAt
  <1>12. ConnOk(t, T.conn[t]) /\ OwnedAt(T, t) /\ OpenIn(T, t) /\ t \notin Proxied
         /\ T.conn[t].sock = FALSE
    BY <1>1, TableAssumption DEF Good, OpenIn, ConnOk, ConnType
  <1>13. ConnOk(t, U.conn[t]) /\ OwnedAt(U, t)
    <2>1. ConnOk(t, c)
      BY <1>6, <1>12 DEF ConnOk
    <2> QED
      BY <1>1, <1>6, <1>10, <1>11, <1>12, <2>1 DEF OwnedAt, OpenIn
  <1>14. IsListOf(U.age, Present(U))
    BY <1>1, <1>6, <1>10, <1>11, PresentSame
  <1>15. Counted(U)
    <2>1. U.sockets = T.sockets + 1
      BY <1>10 DEF n
    <2> QED
      BY <1>1, <1>6, <1>11, <1>12, <2>1, SocketMore
  <1>16. \A p \in ClientPorts : MappedAt(U, p)
    <2>1. U.mapping = [T.mapping EXCEPT ![ClientPort[t]] =
                          [port |-> port, uses |-> T.mapping[ClientPort[t]].uses + 1]]
      BY <1>10 DEF m, e
    <2> QED
      BY <1>1, <1>6, <1>11, <1>12, <2>1, UserMore
  <1>17. Good(U)
    BY <1>1, <1>10, <1>11, <1>13, <1>14, <1>15, <1>16, GoodAgain
  <1> QED
    BY <1>6, <1>11, <1>17 DEF U
-----------------------------------------------------------------------------
(***************************************************************************)
(* Going through the table.                                                *)
(***************************************************************************)
\* A set of numbers has a least one.
LEMMA LeastNumber ==
  ASSUME NEW S \in SUBSET Nat, S # {}
  PROVE  \E n \in S : \A m \in S : n <= m
  <1> DEFINE R == OpToRel(<, Nat)
  <1>1. IsWellFoundedOn(R, Nat)
    BY NatLessThanWellFounded, Zenon
  <1>2. \A m, n \in Nat : m < n => <<m, n>> \in R
    BY DEF OpToRel
  <1> HIDE DEF R
  <1>3. PICK n \in S : \A m \in S : ~(<<m, n>> \in R)
    BY <1>1, WFMin, Zenon
  <1>4. ASSUME NEW m \in S PROVE n <= m
    <2>1. m \in Nat /\ n \in Nat
      OBVIOUS
    <2>2. ~(m < n)
      BY <1>2, <1>3, <2>1
    <2> QED
      BY <2>1, <2>2
  <1> QED
    BY <1>4

\* Induction, of a set
LEMMA AllNumbers ==
  ASSUME NEW S, 0 \in S, \A n \in Nat : n \in S => n + 1 \in S
  PROVE  Nat \subseteq S
  <1> SUFFICES ASSUME Nat \ S # {} PROVE FALSE
    OBVIOUS
  <1>1. PICK n \in Nat \ S : \A m \in Nat \ S : n <= m
    BY LeastNumber
  <1>2. n # 0
    BY <1>1
  <1>3. n - 1 \in Nat /\ n - 1 \in S /\ n = (n - 1) + 1
    BY <1>1, <1>2
  <1> QED
    BY <1>1, <1>3

\* The table after each connection that is gone through
Visited(f, T, S, n) == IF T.age[n] \in S THEN Destroyed(f[n - 1], T.age[n]) ELSE f[n - 1]
IsWalk(f, T, S) ==
    f[0] = T /\ \A n \in 1..Len(T.age) : f[n] = Visited(f, T, S, n)

\* The tables in between exist ...
LEMMA WalkExists ==
  ASSUME NEW T, NEW S, Len(T.age) \in Nat
  PROVE  \E f : f = [n \in 0..Len(T.age) |-> f[n]] /\ IsWalk(f, T, S)
  <1> DEFINE L == Len(T.age)
             Part(f, k) == f[0] = T /\ \A n \in 1..k : f[n] = Visited(f, T, S, n)
             K == {k \in Nat : \E f : Part(f, k)}
  <1> HIDE DEF L
  <1>1. 0 \in K
    <2> DEFINE z == [n \in Nat |-> T]
    <2>1. z[0] = T /\ 1..0 = {}
      OBVIOUS
    <2> HIDE DEF z
    <2>2. Part(z, 0)
      BY <2>1
    <2> QED
      BY <2>2
  <1>2. ASSUME NEW k \in Nat, k \in K
        PROVE  k + 1 \in K
    <2>1. PICK f : Part(f, k)
      BY <1>2
    <2> DEFINE x == IF T.age[k + 1] \in S THEN Destroyed(f[k], T.age[k + 1]) ELSE f[k]
    <2> HIDE DEF x
    <2> DEFINE g == [n \in Nat |-> IF n = k + 1 THEN x ELSE f[n]]
    <2>2. k + 1 \in Nat /\ k + 1 # 0 /\ (k + 1) - 1 = k /\ k # k + 1
      OBVIOUS
    <2>3. g[0] = f[0] /\ g[k + 1] = x /\ \A n \in Nat : n # k + 1 => g[n] = f[n]
      BY <2>2
    <2> HIDE DEF g
    <2>4. ASSUME NEW n \in 1..(k + 1)
          PROVE  g[n] = Visited(g, T, S, n)
      <3>1. CASE n = k + 1
        <4>1. g[n - 1] = f[k]
          BY <2>2, <2>3, <3>1
        <4> QED
          BY <2>3, <3>1, <4>1 DEF Visited, x
      <3>2. CASE n # k + 1
        <4>1. n \in 1..k /\ n - 1 \in Nat /\ n - 1 # k + 1 /\ n \in Nat
          BY <3>2
        <4>2. g[n] = f[n] /\ g[n - 1] = f[n - 1] /\ f[n] = Visited(f, T, S, n)
          BY <2>1, <2>3, <3>2, <4>1
        <4> QED
          BY <4>2 DEF Visited
      <3> QED
        BY <3>1, <3>2
    <2>5. Part(g, k + 1)
      BY <2>1, <2>3, <2>4
    <2> QED
      BY <2>5
  <1> HIDE DEF K
  <1>3. L \in K
    <2>1. \A n \in Nat : n \in K => n + 1 \in K
      BY <1>2
    <2>2. Nat \subseteq K
      BY <1>1, <2>1, AllNumbers
    <2> QED
      BY <2>2 DEF L
  <1>4. PICK f : Part(f, L)
    BY <1>3 DEF K
  <1> DEFINE h == [n \in 0..L |-> f[n]]
  <1>5. L \in Nat
    BY DEF L
  <1>6. h[0] = T
    BY <1>4, <1>5
  <1>7. \A n \in 1..L : h[n] = f[n] /\ h[n - 1] = f[n - 1]
    BY <1>5
  <1>8. h = [n \in 0..L |-> h[n]]
    OBVIOUS
  <1> HIDE DEF h
  <1>9. \A n \in 1..L : h[n] = Visited(h, T, S, n)
    BY <1>4, <1>7 DEF Visited
  <1> QED
    BY <1>6, <1>8, <1>9 DEF IsWalk, L

\* ... and lead to what DestroyedAll returns.
LEMMA DestroyedAllWalks ==
  ASSUME NEW T, NEW S, Len(T.age) \in Nat
  PROVE  \E f : IsWalk(f, T, S) /\ DestroyedAll(T, S) = f[Len(T.age)]
  <1> DEFINE L == Len(T.age)
             Step(f) == [n \in 0..L |->
                            IF n = 0 THEN T
                            ELSE IF T.age[n] \in S THEN Destroyed(f[n - 1], T.age[n])
                            ELSE f[n - 1]]
             g == CHOOSE f : f = Step(f)
  <1>1. DestroyedAll(T, S) = g[L]
    BY DEF DestroyedAll
  <1>2. PICK f : f = [n \in 0..L |-> f[n]] /\ IsWalk(f, T, S)
    BY WalkExists
  <1> HIDE DEF L
  <1>3. f = Step(f)
    <2>1. \A n \in 0..L : Step(f)[n] = f[n]
      <3> SUFFICES ASSUME NEW n \in 0..L PROVE Step(f)[n] = f[n]
        OBVIOUS
      <3>1. CASE n = 0
        BY <1>2, <3>1 DEF IsWalk
      <3>2. CASE n # 0
        <4>1. n \in 1..L
          BY <3>2 DEF L
        <4>2. f[n] = Visited(f, T, S, n)
          BY <1>2, <4>1 DEF IsWalk, L
        <4> QED
          BY <3>2, <4>2 DEF Visited
      <3> QED
        BY <3>1, <3>2
    <2>2. Step(f) = [n \in 0..L |-> Step(f)[n]]
      OBVIOUS
    <2> HIDE DEF Step
    <2> QED
      BY <1>2, <2>1, <2>2
  <1>4. g = Step(g)
    BY <1>3
  <1> HIDE DEF g
  <1>5. g[0] = T /\ \A n \in 1..L : g[n] = Visited(g, T, S, n)
    <2>1. \A n \in 0..L : g[n] = Step(g)[n]
      BY <1>4
    <2>2. 0 \in 0..L /\ \A n \in 1..L : n \in 0..L /\ n # 0
      BY DEF L
    <2> QED
      BY <2>1, <2>2 DEF Visited
  <1>6. IsWalk(g, T, S)
    BY <1>5 DEF IsWalk, L
  <1> QED
    BY <1>1, <1>6 DEF L

\* A good table stays good, and a connection is destroyed or stays as it is.
Remains(T, U) == \A t \in Tuples : U.conn[t] = T.conn[t] \/ U.conn[t] = NoConn

LEMMA GoodDestroyedAll ==
  ASSUME NEW T, Good(T), NEW S
  PROVE  Good(DestroyedAll(T, S)) /\ Remains(T, DestroyedAll(T, S))
  <1> DEFINE L == Len(T.age)
  <1>1. L \in Nat /\ T.age \in Seq(Tuples)
        /\ \A i \in 1..L : T.age[i] \in Tuples
    BY LenProperties, ElementOfSeq DEF Good, IsListOf
  <1>2. /\ \A i, j \in 1..L : T.age[i] = T.age[j] => i = j
        /\ \A i \in 1..L : T.conn[T.age[i]].status # "none"
    BY DEF Good, IsListOf, Present
  <1>3. PICK f : IsWalk(f, T, S) /\ DestroyedAll(T, S) = f[L]
    BY <1>1, DestroyedAllWalks
  <1> HIDE DEF L
  <1> DEFINE Fine(n) == /\ Good(f[n]) /\ Remains(T, f[n])
                        /\ \A i \in (n + 1)..L : f[n].conn[T.age[i]] = T.conn[T.age[i]]
             K == {n \in Nat : n <= L => Fine(n)}
  <1>4. 0 \in K
    BY <1>3 DEF IsWalk, Remains
  <1>5. ASSUME NEW n \in Nat, n \in K
        PROVE  n + 1 \in K
    <2> SUFFICES ASSUME n + 1 <= L PROVE Fine(n + 1)
      OBVIOUS
    <2> DEFINE a == T.age[n + 1]
               U == f[n]
               V == f[n + 1]
    <2>1. n <= L /\ n + 1 \in 1..L /\ (n + 1) - 1 = n /\ n + 1 \in (n + 1)..L
          /\ \A i \in ((n + 1) + 1)..L : i \in (n + 1)..L /\ i \in 1..L /\ i # n + 1
      BY <1>1
    <2>2. /\ Good(U) /\ Remains(T, U)
          /\ \A i \in (n + 1)..L : U.conn[T.age[i]] = T.conn[T.age[i]]
      BY <1>5, <2>1
    <2>3. a \in Tuples /\ U.conn[a].status # "none"
      BY <1>1, <1>2, <2>1, <2>2
    <2>4. V = IF a \in S THEN Destroyed(U, a) ELSE U
      BY <1>3, <2>1 DEF IsWalk, Visited, L
    <2>5. CASE a \in S
      <3>1. Good(V) /\ V.conn = [U.conn EXCEPT ![a] = NoConn]
        BY <2>2, <2>3, <2>4, <2>5, GoodDestroyed
      <3>2. U.conn \in [Tuples -> ConnType]
        BY <2>2 DEF Good, TableType
      <3> HIDE DEF V, U
      <3>3. /\ V.conn[a] = NoConn
            /\ \A t \in Tuples \ {a} : V.conn[t] = U.conn[t]
        BY <2>3, <3>1, <3>2
      <3>4. Remains(T, V)
        BY <2>2, <3>3 DEF Remains
      <3>5. \A i \in ((n + 1) + 1)..L : V.conn[T.age[i]] = T.conn[T.age[i]]
        <4> SUFFICES ASSUME NEW i \in ((n + 1) + 1)..L
                     PROVE  V.conn[T.age[i]] = T.conn[T.age[i]]
          OBVIOUS
        <4>1. T.age[i] \in Tuples \ {a}
          BY <1>1, <1>2, <2>1
        <4>2. U.conn[T.age[i]] = T.conn[T.age[i]]
          BY <2>1, <2>2
        <4> QED
          BY <3>3, <4>1, <4>2
      <3> QED
        BY <3>1, <3>4, <3>5 DEF V
    <2>6. CASE a \notin S
      <3>1. V = U
        BY <2>4, <2>6
      <3> HIDE DEF U
      <3> QED
        BY <2>1, <2>2, <3>1 DEF V
    <2> QED
      BY <2>5, <2>6
  <1> HIDE DEF K, Fine
  <1>6. L \in K
    <2>1. \A n \in Nat : n \in K => n + 1 \in K
      BY <1>5
    <2>2. Nat \subseteq K
      BY <1>4, <2>1, AllNumbers
    <2> QED
      BY <1>1, <2>2
  <1> QED
    BY <1>1, <1>3, <1>6 DEF K, Fine

\* zdtun_purge_expired
LEMMA GoodPurgeExpired ==
  ASSUME NEW T, Good(T), NEW expired
  PROVE  Good(PurgeExpired(T, expired)) /\ Remains(T, PurgeExpired(T, expired))
  <1> DEFINE S == expired \cup {t \in Tuples : T.conn[t].status = "closed"}
             U == DestroyedAll(T, S)
             to_purge == U.sockets - AfterPurge
             R == {U.age[i] : i \in {j \in DOMAIN U.age : j <= to_purge}}
             V == DestroyedAll(U, R)
  <1>1. PurgeExpired(T, expired) = IF U.sockets < MaxSockets THEN U ELSE V
    BY DEF PurgeExpired
  <1>2. Good(U) /\ Remains(T, U)
    BY GoodDestroyedAll
  <1> HIDE DEF U, R
  <1>3. Good(V) /\ Remains(U, V)
    BY <1>2, GoodDestroyedAll
  <1>4. Remains(T, V)
    BY <1>2, <1>3 DEF Remains
  <1> HIDE DEF V
  <1> QED
    BY <1>1, <1>2, <1>3, <1>4
-----------------------------------------------------------------------------
(***************************************************************************)
(* The handlers.                                                           *)
(***************************************************************************)
\* What a good table says of one connection
LEMMA ConnAt ==
  ASSUME NEW T, Good(T), NEW t \in Tuples
  PROVE  /\ T \in TableType /\ T.conn \in [Tuples -> ConnType] /\ T.conn[t] \in ConnType
         /\ ConnOk(t, T.conn[t]) /\ OwnedAt(T, t)
  BY DEF Good, TableType

\* zdtun_lookup
LEMMA GoodLookup ==
  ASSUME NEW T, Good(T), NEW t \in Tuples, NEW create, NEW expired
  PROVE  Good(Lookup(T, t, create, expired))
  <1> DEFINE U == IF T.conn[t].status = "closed" THEN Destroyed(T, t) ELSE T
             P == IF U.sockets >= MaxSockets THEN PurgeExpired(U, expired) ELSE U
             V == Seen([P EXCEPT !.conn[t] = NewConn, !.owned[t] = 1], t)
  <1>1. Lookup(T, t, create, expired) = IF U.conn[t].status # "none" \/ ~create THEN U ELSE V
    BY DEF Lookup
  <1>2. Good(U)
    <2>1. CASE T.conn[t].status = "closed"
      <3>1. T.conn[t].status # "none"
        BY <2>1
      <3> QED
        BY <2>1, <3>1, GoodDestroyed
    <2>2. CASE T.conn[t].status # "closed"
      BY <2>2
    <2> QED
      BY <2>1, <2>2
  <1> HIDE DEF U
  <1>3. Good(P) /\ (P.conn[t] = U.conn[t] \/ P.conn[t] = NoConn)
    <2>1. Good(PurgeExpired(U, expired)) /\ Remains(U, PurgeExpired(U, expired))
      BY <1>2, GoodPurgeExpired
    <2> QED
      BY <1>2, <2>1 DEF Remains
  <1> HIDE DEF P
  <1>4. CASE U.conn[t].status # "none" \/ ~create
    BY <1>1, <1>2, <1>4
  <1>5. CASE ~(U.conn[t].status # "none" \/ ~create)
    <2>1. P.conn[t].status = "none"
      BY <1>3, <1>5, ConstTypes
    <2>2. Good(Seen(Created(P, t), t))
      BY <1>3, <2>1, GoodCreated
    <2>3. V = Seen(Created(P, t), t)
      BY DEF Created
    <2> HIDE DEF V
    <2> QED
      BY <1>1, <1>5, <2>2, <2>3
  <1> QED
    BY <1>4, <1>5

\* An open connection is closed, before or after its packet is noted.
LEMMA GoodEnded ==
  ASSUME NEW T, Good(T), NEW t \in Tuples, OpenIn(T, t)
  PROVE  /\ Good(CloseConn(T, t)) /\ Good(Seen(CloseConn(T, t), t))
         /\ Good(Seen(T, t)) /\ Good(CloseConn(Seen(T, t), t))
  <1>1. T.conn[t].status # "none" /\ T.conn \in [Tuples -> ConnType]
    BY ConnAt DEF OpenIn
  <1>2. Good(CloseConn(T, t)) /\ CloseConn(T, t).conn = [T.conn EXCEPT ![t] = Closed]
    BY GoodClosed
  <1>3. CloseConn(T, t).conn[t].status # "none"
    BY <1>1, <1>2, ConstTypes
  <1>4. Good(Seen(CloseConn(T, t), t))
    BY <1>2, <1>3, GoodSeen
  <1>5. Good(Seen(T, t)) /\ Seen(T, t).conn = T.conn
    BY <1>1, GoodSeen
  <1>6. OpenIn(Seen(T, t), t)
    BY <1>5 DEF OpenIn
  <1>7. Good(CloseConn(Seen(T, t), t))
    BY <1>5, <1>6, GoodClosed
  <1> QED
    BY <1>2, <1>4, <1>5, <1>7

\* handle_udp_fwd, with every way it may end
LEMMA GoodUdpForwarded ==
  ASSUME NEW T, Good(T), NEW t \in Udp, OpenIn(T, t), NEW U \in UdpForwarded(T, t)
  PROVE  Good(U)
  <1> DEFINE bound == IF T.conn[t].status # "new" THEN {T}
                      ELSE IF CanOpen(T) THEN {Bound(T, t, p) : p \in LocalPort(T, t)} ELSE {}
  <1>1. t \in Tuples
    BY DEF Tuples
  <1>2. \/ U = CloseConn(T, t)
        \/ \E B \in bound : U = Seen(CloseConn(B, t), t)
        \/ \E B \in bound : U = Seen(B, t)
    BY DEF UdpForwarded
  <1>3. \A B \in bound : Good(B) /\ OpenIn(B, t)
    <2> SUFFICES ASSUME NEW B \in bound PROVE Good(B) /\ OpenIn(B, t)
      OBVIOUS
    <2>1. CASE T.conn[t].status # "new"
      BY <2>1
    <2>2. CASE T.conn[t].status = "new"
      <3>1. CanOpen(T)
        BY <2>2
      <3>2. PICK p \in LocalPort(T, t) : B = Bound(T, t, p)
        BY <2>2, <3>1
      <3>3. Good(Bound(T, t, p)) /\ Bound(T, t, p).conn[t].status = "connected"
        BY <2>2, <3>1, GoodBound
      <3> HIDE DEF bound
      <3> QED
        BY <3>2, <3>3 DEF OpenIn
    <2> QED
      BY <2>1, <2>2
  <1> HIDE DEF bound
  <1>4. Good(CloseConn(T, t))
    BY <1>1, GoodEnded
  <1>5. \A B \in bound : Good(Seen(CloseConn(B, t), t)) /\ Good(Seen(B, t))
    BY <1>1, <1>3, GoodEnded
  <1> QED
    BY <1>2, <1>4, <1>5

\* A socket of a TCP connection is connected.
LEMMA GoodTcpConnected ==
  ASSUME NEW T, Good(T), NEW t \in Tcp, T.conn[t].status = "connecting"
  PROVE  Good(TcpConnected(T, t)) /\ TcpConnected(T, t).conn[t].status = "connected"
  <1> DEFINE c == T.conn[t]
             h == IF t \in Proxied THEN Asked("hello") ELSE c.socks
             d == [c EXCEPT !.status = "connected", !.socks = h]
  <1>1. /\ t \in Tuples /\ t \notin Udp /\ T \in TableType /\ T.conn \in [Tuples -> ConnType]
        /\ c \in ConnType /\ ConnOk(t, c)
    BY ConnAt, TableAssumption DEF Tuples
  <1>2. c.socks = NoProxy /\ c.got = 0 /\ c.fwd = 0 /\ c.status # "none"
    BY <1>1 DEF ConnOk
  <1>3. h \in Handshake
    <2>1. Asked("hello") \in Handshake
      BY SocksAssumption DEF Asked, Handshake, Phases
    <2> QED
      BY <1>1, <2>1 DEF ConnType
  <1>4. /\ d \in ConnType /\ d.sock = c.sock /\ d.port = c.port /\ d.status = "connected"
        /\ d.socks = h /\ d.got = 0 /\ d.fwd = 0
    <2> HIDE DEF h
    <2> QED
      BY <1>1, <1>2, <1>3 DEF ConnType
  <1>5. TcpConnected(T, t) = Edited(T, t, d)
    BY <1>1 DEF TcpConnected, Edited, TableType, ConnType
  <1> HIDE DEF d
  <1>6. ConnOk(t, d)
    <2>1. 0 <= ReplyLength(Data)
      BY <1>1, <1>2 DEF ConnOk
    <2>2. t \in Proxied => TakenOut(d)
      BY <1>4 DEF TakenOut, Asked
    <2> QED
      BY <1>2, <1>4, <2>1, <2>2 DEF ConnOk
  <1>7. OpenIn(T, t)
    BY DEF OpenIn
  <1>8. Good(Edited(T, t, d)) /\ Edited(T, t, d).conn = [T.conn EXCEPT ![t] = d]
    BY <1>1, <1>2, <1>4, <1>6, <1>7, GoodEdited
  <1>9. [T.conn EXCEPT ![t] = d][t] = d
    BY <1>1
  <1> QED
    BY <1>4, <1>5, <1>8, <1>9

\* The first packet of a TCP connection ...
LEMMA GoodTcpOpened ==
  ASSUME NEW T, Good(T), NEW t \in Tcp, T.conn[t].status = "new", NEW U \in TcpOpened(T, t)
  PROVE  Good(U)
  <1> DEFINE c == T.conn[t]
             S == OpenSocket(T, t, "connecting")
  <1>1. /\ t \in Tuples /\ t \notin Udp /\ T \in TableType /\ T.conn \in [Tuples -> ConnType]
        /\ c \in ConnType /\ ConnOk(t, c)
    BY ConnAt, TableAssumption DEF Tuples
  <1>2. ~c.sock /\ c.status # "none"
    BY <1>1 DEF ConnOk
  <1>3. CASE ~CanOpen(T)
    <2> DEFINE d == [c EXCEPT !.status = "closed"]
    <2>1. U = Edited(T, t, d)
      BY <1>1, <1>3 DEF TcpOpened, Edited, TableType, ConnType
    <2>2. /\ d \in ConnType /\ d.sock = c.sock /\ d.port = c.port /\ d.status = "closed"
          /\ d.socks = c.socks /\ d.got = c.got /\ d.fwd = c.fwd
      BY <1>1 DEF ConnType
    <2> HIDE DEF d
    <2>3. ConnOk(t, d)
      BY <1>1, <1>2, <2>2 DEF ConnOk
    <2>4. Good(Edited(T, t, d))
      BY <1>1, <1>2, <2>2, <2>3, GoodEdited
    <2> QED
      BY <2>1, <2>4
  <1>4. CASE CanOpen(T)
    <2>1. U = Seen(S, t) \/ U = Seen(TcpConnected(S, t), t) \/ U = Seen(CloseConn(S, t), t)
      BY <1>4 DEF TcpOpened
    <2>2. Good(S) /\ S.conn[t].status = "connecting"
      <3> DEFINE d == [c EXCEPT !.sock = TRUE, !.status = "connecting"]
      <3>1. Good(S) /\ S.conn = [T.conn EXCEPT ![t] = d]
        BY <1>2, <1>4, GoodOpened
      <3>2. d.status = "connecting" /\ [T.conn EXCEPT ![t] = d][t] = d
        BY <1>1 DEF ConnType
      <3> HIDE DEF S, d
      <3> QED
        BY <3>1, <3>2
    <2> HIDE DEF S
    <2>3. OpenIn(S, t)
      BY <2>2 DEF OpenIn
    <2>4. Good(Seen(S, t)) /\ Good(Seen(CloseConn(S, t), t))
      BY <1>1, <2>2, <2>3, GoodEnded
    <2>5. Good(TcpConnected(S, t)) /\ TcpConnected(S, t).conn[t].status = "connected"
      BY <2>2, GoodTcpConnected
    <2>6. Good(Seen(TcpConnected(S, t), t))
      BY <1>1, <2>5, GoodSeen
    <2> QED
      BY <2>1, <2>4, <2>6
  <1> QED
    BY <1>3, <1>4

\* ... and each later one
LEMMA GoodTcpForwarded ==
  ASSUME NEW T, Good(T), NEW t \in Tcp, OpenIn(T, t), NEW U \in TcpForwarded(T, t)
  PROVE  Good(U)
  <1> DEFINE c == T.conn[t]
             d == [c EXCEPT !.client_closed = TRUE]
             C == [T EXCEPT !.conn[t].client_closed = TRUE]
  <1>1. /\ t \in Tuples /\ t \notin Udp /\ T \in TableType /\ T.conn \in [Tuples -> ConnType]
        /\ c \in ConnType /\ ConnOk(t, c)
    BY ConnAt, TableAssumption DEF Tuples
  <1>2. \/ c.status = "new" /\ U \in TcpOpened(T, t)
        \/ U = Seen(T, t) \/ U = CloseConn(T, t) \/ U = Seen(CloseConn(T, t), t)
        \/ U = Seen(C, t)
    BY DEF TcpForwarded, TcpAccepted
  <1>3. CASE c.status = "new" /\ U \in TcpOpened(T, t)
    BY <1>3, GoodTcpOpened
  <1>4. Good(Seen(T, t)) /\ Good(CloseConn(T, t)) /\ Good(Seen(CloseConn(T, t), t))
    BY <1>1, GoodEnded
  <1>5. Good(Seen(C, t))
    <2>1. C = Edited(T, t, d)
      BY <1>1 DEF Edited, TableType, ConnType
    <2>2. /\ d \in ConnType /\ d.sock = c.sock /\ d.port = c.port /\ d.status = c.status
          /\ d.socks = c.socks /\ d.got = c.got /\ d.fwd = c.fwd
      BY <1>1 DEF ConnType
    <2> HIDE DEF d, C
    <2>3. ConnOk(t, d)
      BY <1>1, <2>2 DEF ConnOk, TakenOut
    <2>4. c.status # "none"
      BY DEF OpenIn
    <2>5. Good(Edited(T, t, d)) /\ Edited(T, t, d).conn = [T.conn EXCEPT ![t] = d]
      BY <1>1, <2>2, <2>3, <2>4, GoodEdited
    <2>6. [T.conn EXCEPT ![t] = d][t] = d
      BY <1>1
    <2>7. Good(C) /\ C.conn[t].status # "none"
      BY <2>1, <2>2, <2>4, <2>5, <2>6
    <2> QED
      BY <1>1, <2>7, GoodSeen
  <1> QED
    BY <1>2, <1>3, <1>4, <1>5
-----------------------------------------------------------------------------
(***************************************************************************)
(* The steps.                                                              *)
(***************************************************************************)
Inv == Good(Table)

\* The table becomes a good one.
LEMMA BecomeGood ==
  ASSUME NEW U, Good(U), Become(U)
  PROVE  Inv'
  <1>1. U \in TableType
    BY DEF Good
  <1>2. U = [conn |-> U.conn, age |-> U.age, sockets |-> U.sockets, mapping |-> U.mapping,
             owned |-> U.owned]
    BY <1>1 DEF TableType
  <1>3. Table' = U
    BY <1>2 DEF Become, Table
  <1>4. Good(Table')
    BY <1>3
  <1> QED
    BY <1>4 DEF Inv

\* The variables are the fields of the table.
LEMMA TableFields ==
  /\ Table.conn = conn /\ Table.age = age /\ Table.sockets = sockets
  /\ Table.mapping = mapping /\ Table.owned = owned
  BY DEF Table

\* One lemma for the initial state and for each action
LEMMA InitGood == Init => Inv
  <1> SUFFICES ASSUME Init PROVE Good(Table)
    BY DEF Inv
  <1>1. /\ Table.conn = [t \in Tuples |-> NoConn] /\ Table.age = <<>> /\ Table.sockets = 0
        /\ Table.mapping = [p \in ClientPorts |-> NoMapping]
        /\ Table.owned = [t \in Tuples |-> 0]
    BY TableFields DEF Init
  <1>2. Table \in TableType
    <2>1. /\ [t \in Tuples |-> NoConn] \in [Tuples -> ConnType]
          /\ <<>> \in Seq(Tuples) /\ 0 \in Nat
          /\ [p \in ClientPorts |-> NoMapping]
                 \in [ClientPorts -> [port : LocalPorts \cup {None}, uses : Nat]]
          /\ [t \in Tuples |-> 0] \in [Tuples -> Int]
      BY ConstTypes
    <2>2. Table = [conn |-> [t \in Tuples |-> NoConn], age |-> <<>>, sockets |-> 0,
                   mapping |-> [p \in ClientPorts |-> NoMapping],
                   owned |-> [t \in Tuples |-> 0]]
      BY <1>1 DEF Table
    <2> QED
      BY <2>1, <2>2 DEF TableType
  <1>3. \A t \in Tuples : ConnOk(t, Table.conn[t]) /\ OwnedAt(Table, t)
    <2> SUFFICES ASSUME NEW t \in Tuples PROVE ConnOk(t, Table.conn[t]) /\ OwnedAt(Table, t)
      OBVIOUS
    <2>1. Table.conn[t] = NoConn /\ Table.owned[t] = 0
      BY <1>1
    <2> QED
      BY <2>1, ConstOk, ConstTypes DEF OwnedAt, OpenIn
  <1>4. IsListOf(Table.age, Present(Table))
    <2>1. Present(Table) = {}
      BY <1>1, ConstTypes DEF Present
    <2>2. <<>> \in Seq(Tuples) /\ Len(<<>>) = 0 /\ 1..0 = {}
      OBVIOUS
    <2> QED
      BY <1>1, <2>1, <2>2 DEF IsListOf
  <1>5. Counted(Table)
    <2>1. SocketsOf(Table) = {}
      BY <1>1, ConstTypes DEF SocketsOf
    <2>2. IsFiniteSet({}) /\ Cardinality({}) = 0
      BY FS_EmptySet
    <2> QED
      BY <1>1, <2>1, <2>2, TableAssumption DEF Counted
  <1>6. \A p \in ClientPorts : MappedAt(Table, p)
    <2> SUFFICES ASSUME NEW p \in ClientPorts PROVE MappedAt(Table, p)
      OBVIOUS
    <2>1. Table.mapping[p] = NoMapping /\ NoMapping.uses = 0
      BY <1>1 DEF NoMapping
    <2>2. Cardinality(UsersOf(Table, p)) \in Nat
      BY UsersFinite
    <2> QED
      BY <2>1, <2>2 DEF MappedAt
  <1> QED
    BY <1>2, <1>3, <1>4, <1>5, <1>6 DEF Good

LEMMA PacketGood == \A t \in Tuples : Inv /\ Packet(t) => Inv'
  <1> SUFFICES ASSUME NEW t \in Tuples, Inv, Packet(t) PROVE Inv'
    OBVIOUS
  <1>1. PICK create, expired :
            LET T == Lookup(Table, t, create, expired)
            IN     \/ T.conn[t].status = "none" /\ Become(T)
                   \/ /\ T.conn[t].status # "none"
                      /\ \E U \in Forwarded(T, t) : Become(U)
                   \/ /\ T.conn[t].status # "none" /\ "blocked" \in Allow
                      /\ Become(Blocked(T, t))
    BY DEF Packet
  <1> DEFINE T == Lookup(Table, t, create, expired)
  <1>2. Good(T)
    BY GoodLookup DEF Inv
  <1> HIDE DEF T
  <1>3. CASE Become(T)
    BY <1>2, <1>3, BecomeGood
  <1>4. T.conn[t].status \in {"none", "new", "connecting", "connected", "closed"}
    BY <1>2, ConnAt DEF ConnType
  <1>5. ASSUME T.conn[t].status # "none", NEW U \in Forwarded(T, t), Become(U)
        PROVE  Inv'
    <2>1. CASE T.conn[t].status = "closed"
      <3>1. U = T
        BY <1>5, <2>1 DEF Forwarded
      <3> QED
        BY <1>2, <1>5, <3>1, BecomeGood
    <2>2. CASE T.conn[t].status # "closed"
      <3>1. OpenIn(T, t)
        BY <1>4, <1>5, <2>2 DEF OpenIn
      <3>2. CASE t \in Udp
        <4>1. U \in UdpForwarded(T, t)
          BY <1>5, <2>2, <3>2 DEF Forwarded
        <4>2. Good(U)
          BY <1>2, <3>1, <3>2, <4>1, GoodUdpForwarded
        <4> QED
          BY <1>5, <4>2, BecomeGood
      <3>3. CASE t \notin Udp
        <4>1. U \in TcpForwarded(T, t) /\ t \in Tcp
          BY <1>5, <2>2, <3>3 DEF Forwarded, Tuples
        <4>2. Good(U)
          BY <1>2, <3>1, <4>1, GoodTcpForwarded
        <4> QED
          BY <1>5, <4>2, BecomeGood
      <3> QED
        BY <3>2, <3>3
    <2> QED
      BY <2>1, <2>2
  <1>6. CASE Become(Blocked(T, t))
    <2>1. CASE T.conn[t].status = "new"
      <3>1. Good(CloseConn(T, t))
        BY <1>2, <2>1, GoodEnded DEF OpenIn
      <3>2. Blocked(T, t) = CloseConn(T, t) \/ Blocked(T, t) = T
        BY DEF Blocked
      <3>3. Good(Blocked(T, t))
        BY <1>2, <3>1, <3>2
      <3> QED
        BY <1>6, <3>3, BecomeGood
    <2>2. CASE T.conn[t].status # "new"
      <3>1. Blocked(T, t) = T
        BY <2>2 DEF Blocked
      <3> QED
        BY <1>2, <1>6, <3>1, BecomeGood
    <2> QED
      BY <2>1, <2>2
  <1> QED
    BY <1>1, <1>3, <1>5, <1>6 DEF T

\* A connection with a socket is open.
LEMMA SocketOpen ==
  ASSUME Inv, NEW t \in Tuples, conn[t].sock
  PROVE  OpenIn(Table, t) /\ conn[t].status # "none"
  <1>1. ConnOk(t, Table.conn[t])
    BY ConnAt DEF Inv
  <1> QED
    BY <1>1, TableFields DEF ConnOk, OpenIn

LEMMA UdpReplyGood == \A t \in Udp : Inv /\ UdpReply(t) => Inv'
  <1> SUFFICES ASSUME NEW t \in Udp, Inv, UdpReply(t) PROVE Inv'
    OBVIOUS
  <1>1. t \in Tuples /\ conn[t].sock
    BY DEF Tuples, UdpReply
  <1>2. OpenIn(Table, t)
    BY <1>1, SocketOpen
  <1>3. Good(Seen(Table, t)) /\ Good(CloseConn(Seen(Table, t), t)) /\ Good(CloseConn(Table, t))
    BY <1>1, <1>2, GoodEnded DEF Inv
  <1>4. \/ Become(Seen(Table, t)) \/ Become(CloseConn(Seen(Table, t), t))
        \/ Become(CloseConn(Table, t))
    BY DEF UdpReply
  <1> QED
    BY <1>3, <1>4, BecomeGood

LEMMA TcpConnectEndsGood == \A t \in Tcp : Inv /\ TcpConnectEnds(t) => Inv'
  <1> SUFFICES ASSUME NEW t \in Tcp, Inv, TcpConnectEnds(t) PROVE Inv'
    OBVIOUS
  <1>1. t \in Tuples /\ Table.conn[t].status = "connecting" /\ OpenIn(Table, t) /\ Good(Table)
    BY TableFields DEF Tuples, TcpConnectEnds, OpenIn, Inv
  <1>2. Good(Seen(CloseConn(Table, t), t))
    BY <1>1, GoodEnded
  <1>3. Good(TcpConnected(Table, t)) /\ TcpConnected(Table, t).conn[t].status = "connected"
    BY <1>1, GoodTcpConnected
  <1>4. Good(Seen(TcpConnected(Table, t), t))
    BY <1>1, <1>3, GoodSeen
  <1>5. Become(Seen(TcpConnected(Table, t), t)) \/ Become(Seen(CloseConn(Table, t), t))
    BY DEF TcpConnectEnds
  <1> QED
    BY <1>2, <1>4, <1>5, BecomeGood

LEMMA TcpEndsGood == \A t \in Tcp : Inv /\ TcpEnds(t) => Inv'
  <1> SUFFICES ASSUME NEW t \in Tcp, Inv, TcpEnds(t) PROVE Inv'
    OBVIOUS
  <1>1. t \in Tuples /\ conn[t].sock /\ Good(Table)
    BY DEF Tuples, TcpEnds, Inv
  <1>2. OpenIn(Table, t) /\ Table.conn[t].status # "none"
    BY <1>1, SocketOpen, TableFields
  <1>3. Good(Seen(Table, t)) /\ Good(CloseConn(Seen(Table, t), t))
        /\ Seen(Table, t).conn = Table.conn
    BY <1>1, <1>2, GoodEnded, GoodSeen
  <1>4. Good(CloseSocket(Seen(Table, t), t))
    BY <1>2, <1>3, GoodSocketClosed
  <1>5. Become(CloseSocket(Seen(Table, t), t)) \/ Become(CloseConn(Seen(Table, t), t))
    BY DEF TcpEnds
  <1> QED
    BY <1>3, <1>4, <1>5, BecomeGood

LEMMA PurgeGood == Inv /\ Purge => Inv'
  <1> SUFFICES ASSUME Inv, Purge PROVE Inv'
    OBVIOUS
  <1>1. PICK expired : Become(PurgeExpired(Table, expired))
    BY DEF Purge
  <1>2. Good(PurgeExpired(Table, expired))
    BY GoodPurgeExpired DEF Inv
  <1> QED
    BY <1>1, <1>2, BecomeGood

\* A reply of the proxy that is accepted is taken out of the stream.
LEMMA ReplyTaken ==
  ASSUME NEW c \in ConnType, TakenOut(c), InProgress(c.socks),
         NEW len \in Nat \ {0}, NEW granted \in BOOLEAN,
         c.got + len <= Sent(c.socks, Data), Replied(c.socks, len, granted) # Failed,
         NEW d, d.socks = Replied(c.socks, len, granted), d.got = c.got + len, d.fwd = c.fwd
  PROVE  TakenOut(d) /\ d.got <= ReplyLength(Data) /\ d.socks \in Handshake
  <1> DEFINE s == c.socks
             phase == s.phase
             skip == s.skip
             got == c.got
             P == IF Password THEN 2 ELSE 0
  <1>1. /\ got \in Nat /\ c.fwd \in Nat /\ skip \in 0..Bnd /\ phase \in Phases
        /\ Bnd \in Nat \ {0} /\ Data \in Nat /\ P \in Nat
    BY SocksAssumption, TableAssumption DEF ConnType, Handshake
  <1>2. ReplyLength(0) = 6 + P + Bnd /\ ReplyLength(Data) = 6 + P + Bnd + Data
    BY <1>1 DEF ReplyLength
  <1>3. CASE phase = "hello"
    <2>1. got = 0 /\ c.fwd = 0 /\ Sent(s, Data) = 2
      BY <1>3 DEF TakenOut, Sent
    <2>2. len = 2 /\ d.socks = Asked(IF Password THEN "auth" ELSE "connecting")
      BY <1>3 DEF Replied
    <2>3. d.got = 2 /\ d.fwd = 0
      BY <2>1, <2>2
    <2>4. CASE Password
      <3>1. d.socks = [phase |-> "auth", skip |-> 0]
        BY <2>2, <2>4 DEF Asked
      <3> HIDE DEF s, phase, skip, got
      <3>2. d.socks \in Handshake
        BY <1>1, <3>1 DEF Handshake, Phases
      <3> QED
        BY <1>1, <1>2, <2>3, <2>4, <3>1, <3>2 DEF TakenOut
    <2>5. CASE ~Password
      <3>1. d.socks = [phase |-> "connecting", skip |-> 0] /\ P = 0
        BY <2>2, <2>5 DEF Asked
      <3> HIDE DEF s, phase, skip, got
      <3>2. d.socks \in Handshake
        BY <1>1, <3>1 DEF Handshake, Phases
      <3> HIDE DEF P
      <3> QED
        BY <1>1, <1>2, <2>3, <3>1, <3>2 DEF TakenOut
    <2> QED
      BY <2>4, <2>5
  <1>4. CASE phase = "auth"
    <2>1. got = 2 /\ c.fwd = 0 /\ Password /\ Sent(s, Data) = 4
      BY <1>4 DEF TakenOut, Sent
    <2>2. ~(len < 2) /\ d.socks = Asked("connecting")
      BY <1>4 DEF Replied
    <2>3. len = 2
      BY <2>1, <2>2
    <2>4. d.got = 4 /\ d.fwd = 0 /\ P = 2
      BY <2>1, <2>3
    <2>5. d.socks = [phase |-> "connecting", skip |-> 0]
      BY <2>2 DEF Asked
    <2> HIDE DEF s, phase, skip, got, P
    <2>6. d.socks \in Handshake
      BY <1>1, <2>5 DEF Handshake, Phases
    <2> QED
      BY <1>1, <1>2, <2>4, <2>5, <2>6 DEF TakenOut
  <1>5. ASSUME NEW r \in [phase : {"skip"}, skip : 0..Bnd], NEW l \in Nat, NEW b \in Nat,
               b + r.skip = ReplyLength(0), c.fwd = 0, d.got = b + l,
               d.socks = SkipBnd(r, l), d.got <= ReplyLength(Data)
        PROVE  TakenOut(d) /\ d.got <= ReplyLength(Data) /\ d.socks \in Handshake
    <2> DEFINE k == r.skip
    <2>1. k \in 0..Bnd
      OBVIOUS
    <2>2. ~(l > k)
      <3>1. CASE l > k
        BY <3>1, <1>5 DEF SkipBnd
      <3> QED
        BY <3>1
    <2>3. d.socks = [phase |-> IF l = k THEN "established" ELSE "skip", skip |-> k - l]
      BY <1>5, <2>2 DEF SkipBnd
    <2>4. b + k = ReplyLength(0) /\ ReplyLength(0) \in Nat
      BY <1>1, <1>2, <1>5
    <2> HIDE DEF k, s, phase, skip, got, P
    <2>5. k - l \in 0..Bnd
      BY <1>1, <2>1, <2>2
    <2> DEFINE x == k - l
    <2>6. x \in 0..Bnd /\ b + l + x = ReplyLength(0) /\ (l = k => x = 0)
      BY <1>1, <1>5, <2>1, <2>4, <2>5
    <2>7. d.socks = [phase |-> IF l = k THEN "established" ELSE "skip", skip |-> x]
      BY <2>3
    <2> HIDE DEF x
    <2>8. d.socks \in Handshake
      BY <2>6, <2>7 DEF Handshake, Phases
    <2>9. TakenOut(d)
      <3>1. CASE l = k
        <4>1. d.socks.phase = "established" /\ d.got = ReplyLength(0) + d.fwd
          BY <1>1, <1>5, <2>4, <2>6, <2>7, <3>1
        <4> QED
          BY <4>1 DEF TakenOut
      <3>2. CASE l # k
        <4>1. d.socks.phase = "skip" /\ d.got + d.socks.skip = ReplyLength(0) /\ d.fwd = 0
          BY <1>5, <2>6, <2>7, <3>2
        <4> QED
          BY <4>1 DEF TakenOut
      <3> QED
        BY <3>1, <3>2
    <2> QED
      BY <1>5, <2>8, <2>9
  <1>6. CASE phase = "connecting"
    <2>1. got + 4 + Bnd = ReplyLength(0) /\ c.fwd = 0 /\ Sent(s, Data) = ReplyLength(Data)
      BY <1>6 DEF TakenOut, Sent
    <2>2. /\ ~(len < 4)
          /\ d.socks = IF len > 4 THEN SkipBnd([phase |-> "skip", skip |-> Bnd], len - 4)
                       ELSE [phase |-> "skip", skip |-> Bnd]
      BY <1>6 DEF Replied
    <2> DEFINE r == [phase |-> "skip", skip |-> Bnd]
    <2>3. r \in [phase : {"skip"}, skip : 0..Bnd] /\ r.skip = Bnd
      BY <1>1
    <2>4. d.got <= ReplyLength(Data)
      BY <2>1
    <2>5. CASE len > 4
      <3>1. d.socks = SkipBnd(r, len - 4)
        BY <2>2, <2>5
      <3>2. len - 4 \in Nat /\ got + 4 \in Nat /\ (got + 4) + r.skip = ReplyLength(0)
            /\ d.got = (got + 4) + (len - 4)
        BY <1>1, <2>1, <2>3, <2>5
      <3> HIDE DEF r, s, phase, skip, got
      <3> QED
        BY <1>5, <2>1, <2>3, <2>4, <3>1, <3>2
    <2>6. CASE ~(len > 4)
      <3>1. len = 4 /\ d.socks = r
        BY <2>2, <2>6
      <3>2. d.got + Bnd = ReplyLength(0) /\ d.fwd = 0
        BY <1>1, <2>1, <3>1
      <3>3. d.socks \in Handshake
        BY <1>1, <3>1 DEF Handshake, Phases
      <3> QED
        BY <2>4, <3>1, <3>2, <3>3 DEF TakenOut
    <2> QED
      BY <2>5, <2>6
  <1>7. CASE phase = "skip"
    <2>1. got + skip = ReplyLength(0) /\ c.fwd = 0 /\ Sent(s, Data) = ReplyLength(Data)
      BY <1>7 DEF TakenOut, Sent
    <2>2. d.socks = SkipBnd(s, len)
      BY <1>7 DEF Replied
    <2>3. s \in [phase : {"skip"}, skip : 0..Bnd]
      BY <1>7 DEF ConnType, Handshake
    <2>4. d.got <= ReplyLength(Data)
      BY <2>1
    <2> QED
      BY <1>1, <1>5, <2>1, <2>2, <2>3, <2>4
  <1> QED
    BY <1>3, <1>4, <1>6, <1>7 DEF InProgress

LEMMA SocksReplyGood == \A t \in Tcp : Inv /\ SocksReply(t) => Inv'
  <1> SUFFICES ASSUME NEW t \in Tcp, Inv, SocksReply(t) PROVE Inv'
    OBVIOUS
  <1> DEFINE S == Seen(Table, t)
             c == conn[t]
  <1>1. PICK len \in 1..ReplyLength(Data), granted \in BOOLEAN :
            LET s == Replied(conn[t].socks, len, granted)
            IN  /\ conn[t].sock /\ InProgress(conn[t].socks)
                /\ conn[t].got + len <= Sent(conn[t].socks, Data)
                /\ Become(IF s = Failed THEN CloseConn(Seen(Table, t), t)
                          ELSE [Seen(Table, t) EXCEPT !.conn[t].socks = s,
                                                      !.conn[t].got = @ + len])
    BY DEF SocksReply
  <1> DEFINE s == Replied(c.socks, len, granted)
  <1>2. t \in Tuples /\ Good(Table) /\ OpenIn(Table, t) /\ c.status # "none"
    BY <1>1, SocketOpen DEF Tuples, Inv
  <1>3. Good(S) /\ S.conn = Table.conn /\ Good(CloseConn(S, t))
    BY <1>2, GoodSeen, GoodEnded, TableFields
  <1>4. S.conn = conn /\ S \in TableType /\ conn \in [Tuples -> ConnType] /\ c \in ConnType
        /\ ConnOk(t, c) /\ OpenIn(S, t)
    BY <1>2, <1>3, ConnAt, TableFields DEF OpenIn
  <1> HIDE DEF S
  <1>5. CASE s = Failed
    <2>1. Become(CloseConn(S, t))
      BY <1>1, <1>5 DEF S
    <2> QED
      BY <1>3, <2>1, BecomeGood
  <1>6. CASE s # Failed
    <2> DEFINE d == [c EXCEPT !.socks = s, !.got = c.got + len]
               U == [S EXCEPT !.conn[t].socks = s, !.conn[t].got = @ + len]
    <2>1. Become(U)
      BY <1>1, <1>6 DEF S
    <2>2. c.socks.phase # "off" /\ c.status = "connected" /\ t \in Proxied /\ TakenOut(c)
          /\ c.fwd \in Nat /\ len \in Nat \ {0} /\ c.got \in Nat
      BY <1>1, <1>4 DEF ConnOk, InProgress, NoProxy, ConnType
    <2>3. d.socks = s /\ d.got = c.got + len /\ d.fwd = c.fwd /\ d.sock = c.sock
          /\ d.port = c.port /\ d.status = c.status /\ d.client_closed = c.client_closed
      BY <1>4 DEF ConnType
    <2>4. TakenOut(d) /\ d.got <= ReplyLength(Data) /\ d.socks \in Handshake
      <3> HIDE DEF d
      <3> QED
        BY <1>1, <1>4, <1>6, <2>2, <2>3, ReplyTaken
    <2>5. U = Edited(S, t, d)
      <3> HIDE DEF s
      <3>1. [S.conn[t] EXCEPT !.socks = s, !.got = S.conn[t].got + len] = d
        BY <1>4
      <3>2. U = [S EXCEPT !.conn = [S.conn EXCEPT ![t] =
                    [S.conn[t] EXCEPT !.socks = s, !.got = S.conn[t].got + len]]]
        BY <1>2, <1>4 DEF TableType, ConnType
      <3> HIDE DEF d, U
      <3> QED
        BY <3>1, <3>2 DEF Edited
    <2>6. d \in ConnType
      <3> DEFINE g == c.got + len
      <3>1. g \in Nat /\ s \in Handshake
        BY <2>2, <2>3, <2>4
      <3> HIDE DEF s, g
      <3>2. [c EXCEPT !.socks = s, !.got = g] \in ConnType
        BY <1>4, <3>1 DEF ConnType
      <3> QED
        BY <3>2 DEF g
    <2> HIDE DEF d, U
    <2>7. ConnOk(t, d)
      BY <1>4, <2>2, <2>3, <2>4 DEF ConnOk
    <2>8. Good(U)
      BY <1>2, <1>3, <1>4, <2>3, <2>5, <2>6, <2>7, GoodEdited
    <2> QED
      BY <2>1, <2>8, BecomeGood
  <1> QED
    BY <1>5, <1>6

LEMMA TcpDataGood == \A t \in Tcp : Inv /\ TcpData(t) => Inv'
  <1> SUFFICES ASSUME NEW t \in Tcp, Inv, TcpData(t) PROVE Inv'
    OBVIOUS
  <1> DEFINE S == Seen(Table, t)
             c == conn[t]
  <1>1. /\ c.sock /\ c.status = "connected" /\ ~InProgress(c.socks)
        /\ IF t \notin Proxied THEN Become(S)
           ELSE \E len \in 1..Data :
                    /\ c.got + len <= ReplyLength(Data)
                    /\ Become([S EXCEPT !.conn[t].got = @ + len, !.conn[t].fwd = @ + len])
    BY DEF TcpData
  <1>2. t \in Tuples /\ Good(Table) /\ OpenIn(Table, t) /\ c.status # "none"
    BY <1>1, SocketOpen DEF Tuples, Inv
  <1>3. Good(S) /\ S.conn = Table.conn
    BY <1>2, GoodSeen, TableFields
  <1>4. S.conn = conn /\ S \in TableType /\ conn \in [Tuples -> ConnType] /\ c \in ConnType
        /\ ConnOk(t, c) /\ OpenIn(S, t)
    BY <1>2, <1>3, ConnAt, TableFields DEF OpenIn
  <1> HIDE DEF S
  <1>5. CASE t \notin Proxied
    BY <1>1, <1>3, <1>5, BecomeGood
  <1>6. CASE t \in Proxied
    <2>1. PICK len \in 1..Data :
              /\ c.got + len <= ReplyLength(Data)
              /\ Become([S EXCEPT !.conn[t].got = @ + len, !.conn[t].fwd = @ + len])
      BY <1>1, <1>6
    <2>2. len \in Nat /\ c.got \in Nat /\ c.fwd \in Nat
      BY <1>4, TableAssumption DEF ConnType
    <2> DEFINE g == c.got + len
               w == c.fwd + len
               d == [c EXCEPT !.got = g, !.fwd = w]
               U == [S EXCEPT !.conn[t].got = @ + len, !.conn[t].fwd = @ + len]
    <2>3. g \in Nat /\ w \in Nat
      BY <2>2
    <2>4. U = Edited(S, t, d)
      <3>1. [S.conn[t] EXCEPT !.got = S.conn[t].got + len, !.fwd = S.conn[t].fwd + len] = d
        BY <1>4
      <3>2. U = [S EXCEPT !.conn = [S.conn EXCEPT ![t] =
                    [S.conn[t] EXCEPT !.got = S.conn[t].got + len,
                                      !.fwd = S.conn[t].fwd + len]]]
        BY <1>2, <1>4 DEF TableType, ConnType
      <3> HIDE DEF d, U
      <3> QED
        BY <3>1, <3>2 DEF Edited
    <2>5. Become(U)
      BY <2>1
    <2>6. c.got = ReplyLength(0) + c.fwd /\ c.socks.phase = "established"
      BY <1>1, <1>4, <1>6 DEF ConnOk, TakenOut, InProgress
    <2>7. ReplyLength(0) \in Nat
      BY SocksAssumption DEF ReplyLength
    <2>8. g = ReplyLength(0) + w /\ g <= ReplyLength(Data)
      BY <2>1, <2>2, <2>6, <2>7
    <2> HIDE DEF g, w
    <2>9. /\ d \in ConnType /\ d.socks = c.socks /\ d.got = g /\ d.fwd = w /\ d.sock = c.sock
          /\ d.port = c.port /\ d.status = c.status
      BY <1>4, <2>3 DEF ConnType
    <2> HIDE DEF d, U
    <2>10. TakenOut(d)
      BY <2>6, <2>8, <2>9 DEF TakenOut
    <2>11. ConnOk(t, d)
      BY <1>1, <1>4, <1>6, <2>8, <2>9, <2>10 DEF ConnOk
    <2>12. Good(U)
      BY <1>2, <1>3, <1>4, <2>4, <2>9, <2>11, GoodEdited
    <2> QED
      BY <2>5, <2>12, BecomeGood
  <1> QED
    BY <1>5, <1>6

-----------------------------------------------------------------------------
(***************************************************************************)
(* The theorems.                                                           *)
(***************************************************************************)
\* The invariant holds in every reachable state ...
LEMMA InvAlways == Spec => []Inv
  <1>1. Inv /\ [Next]_vars => Inv'
    <2>1. Inv /\ UNCHANGED vars => Inv'
      <3> SUFFICES ASSUME Inv, UNCHANGED vars PROVE Inv'
        OBVIOUS
      <3>1. Become(Table)
        BY TableFields DEF Become, vars
      <3> QED
        BY <3>1, BecomeGood DEF Inv
    <2>2. Inv /\ Next => Inv'
      BY PacketGood, UdpReplyGood, TcpConnectEndsGood, SocksReplyGood, TcpDataGood,
         TcpEndsGood, PurgeGood DEF Next
    <2> QED
      BY <2>1, <2>2
  <1> QED
    BY InitGood, <1>1, PTL DEF Spec

\* ... and types the variables.
LEMMA InvTypes == Inv => TypeOK
  <1> SUFFICES ASSUME Inv PROVE TypeOK
    OBVIOUS
  <1>1. /\ Table \in TableType /\ conn \in [Tuples -> ConnType]
        /\ mapping \in [ClientPorts -> [port : LocalPorts \cup {None}, uses : Nat]]
    BY TableFields DEF Inv, Good, TableType
  <1>2. \A t \in Tuples :
           /\ conn[t].status \in {"none", "new", "connecting", "connected", "closed"}
           /\ conn[t].sock => t \in Open
           /\ conn[t].port \in LocalPorts \cup {None}
           /\ conn[t].socks \in Handshake
           /\ conn[t].got \in 0..ReplyLength(Data)
    <2> SUFFICES ASSUME NEW t \in Tuples
                 PROVE  /\ conn[t].status
                               \in {"none", "new", "connecting", "connected", "closed"}
                        /\ conn[t].sock => t \in Open
                        /\ conn[t].port \in LocalPorts \cup {None}
                        /\ conn[t].socks \in Handshake
                        /\ conn[t].got \in 0..ReplyLength(Data)
      OBVIOUS
    <2>1. conn[t] \in ConnType /\ ConnOk(t, conn[t])
      BY ConnAt, TableFields DEF Inv
    <2>2. ReplyLength(Data) \in Nat
      BY SocksAssumption, TableAssumption DEF ReplyLength
    <2> QED
      BY <2>1, <2>2 DEF ConnType, ConnOk, Open
  <1>3. ToSet(age) = {t \in Tuples : conn[t].status # "none"} /\ IsInjective(age)
    <2>1. IsListOf(age, {t \in Tuples : conn[t].status # "none"})
      BY TableFields DEF Inv, Good, Present
    <2>2. DOMAIN age = 1..Len(age)
      BY <2>1, LenProperties DEF IsListOf
    <2> QED
      BY <2>1, <2>2 DEF IsListOf, ToSet, IsInjective
  <1>4. sockets \in 0..MaxSockets
    BY <1>1, TableFields, TableAssumption DEF Inv, Good, Counted, TableType
  <1>5. \A p \in ClientPorts :
            mapping[p].uses \in 0..Cardinality(Udp)
                /\ (mapping[p].uses = 0 <=> mapping[p] = NoMapping)
    <2> SUFFICES ASSUME NEW p \in ClientPorts
                 PROVE  mapping[p].uses \in 0..Cardinality(Udp)
                            /\ (mapping[p].uses = 0 <=> mapping[p] = NoMapping)
      OBVIOUS
    <2>1. MappedAt(Table, p) /\ mapping[p].uses \in Nat
      BY <1>1 DEF Inv, Good
    <2>2. Cardinality(UsersOf(Table, p)) <= Cardinality(Udp)
          /\ Cardinality(UsersOf(Table, p)) \in Nat
      BY UsersFinite
    <2>3. Cardinality(Udp) \in Nat
      BY TableAssumption, FS_CardinalityType
    <2> QED
      BY <2>1, <2>2, <2>3, TableFields DEF MappedAt
  <1>6. \A t \in Tuples : owned[t] \in 0..1
    BY ConnAt, TableFields DEF Inv, OwnedAt
  <1> QED
    BY <1>1, <1>2, <1>3, <1>4, <1>5, <1>6 DEF TypeOK

\* For every set of tuples, limit of sockets, length of an address and order of
\* packets, events and purges: the order by age lists the connections of the table,
\* each once, a socket is that of an open connection, and no counter leaves its range.
THEOREM TableTyped == Spec => []TypeOK
  BY InvAlways, InvTypes, PTL

\* num_open_sockets is the number of the open sockets, whatever closes or destroys
\* a connection.
THEOREM SocketsCorrect == Spec => []SocketsCounted
  <1>1. Inv => SocketsCounted
    BY TableFields DEF Inv, Good, Counted, SocketsOf, SocketsCounted
  <1> QED
    BY InvAlways, <1>1, PTL

\* A mapping counts no more uses than there are open UDP connections of its client
\* port that are bound to its local port.
THEOREM MappingCorrect == Spec => []MappingIsInUse
  <1>1. Inv => MappingIsInUse
    BY TableFields DEF Inv, Good, MappedAt, UsersOf, MappingIsInUse
  <1> QED
    BY InvAlways, <1>1, PTL

\* The relay is told of the end of every UDP connection it was told of, once and
\* never while it is open, and knows of every TCP connection that is open.
THEOREM CallbacksCorrect == Spec => []CallbacksBalance
  <1>1. Inv => CallbacksBalance
    <2> SUFFICES ASSUME Inv PROVE CallbacksBalance
      OBVIOUS
    <2>1. \A t \in Tuples : OwnedAt(Table, t) /\ (OpenIn(Table, t) <=> t \in Open)
      BY ConnAt, TableFields DEF Inv, OpenIn, Open
    <2>2. Udp \subseteq Tuples /\ Tcp \subseteq Tuples
      BY DEF Tuples
    <2> QED
      BY <2>1, <2>2, TableFields DEF OwnedAt, CallbacksBalance
  <1> QED
    BY InvAlways, <1>1, PTL

\* For every length of a bound address, with and without a password, and for every
\* way the proxy's replies are cut: the whole handshake is taken out of the stream,
\* and nothing of the server's data.
THEOREM HandshakeCorrect == Spec => []OnlyDataForwarded
  <1>1. Inv => OnlyDataForwarded
    <2> SUFFICES ASSUME Inv, NEW t \in Proxied
                 PROVE  /\ (conn[t].socks.phase = "skip" =>
                                conn[t].got + conn[t].socks.skip = ReplyLength(0))
                        /\ (conn[t].socks.phase = "established" =>
                                conn[t].got = ReplyLength(0) + conn[t].fwd)
                        /\ (conn[t].socks.phase # "established" => conn[t].fwd = 0)
      BY DEF OnlyDataForwarded
    <2>1. t \in Tuples /\ ConnOk(t, conn[t])
      BY ConnAt, TableFields, TableAssumption DEF Inv, Tuples
    <2>2. CASE conn[t].status = "connected"
      <3>1. TakenOut(conn[t])
        BY <2>1, <2>2 DEF ConnOk
      <3> QED
        BY <3>1 DEF TakenOut
    <2>3. CASE conn[t].status # "connected"
      <3>1. conn[t].socks = NoProxy /\ conn[t].fwd = 0
        BY <2>1, <2>3 DEF ConnOk
      <3> QED
        BY <3>1 DEF NoProxy
    <2> QED
      BY <2>2, <2>3
  <1> QED
    BY InvAlways, <1>1, PTL
=============================================================================
