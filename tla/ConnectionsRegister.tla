------------------------ MODULE ConnectionsRegister ------------------------
(***************************************************************************)
(* The register of the connections of a capture (ConnectionsRegister.java):*)
(* a ring of the last Size connections and the counters shown with it.     *)
(* The methods are synchronized; each is an operator from a register to a  *)
(* register here, and ConnPipeline says who calls it when.                 *)
(*                                                                         *)
(* A connection is a record: its number (incr_id), its bytes in both       *)
(* directions, whether it is blacklisted, blocked and closed, and what was *)
(* accounted of it (alerted, block_accounted).  The applications' counters *)
(* (mAppsStats) are those of one application.                              *)
(***************************************************************************)
EXTENDS Integers, Sequences, FiniteSets

CONSTANTS
    Size,       \* capacity of the ring, CONNECTIONS_LOG_SIZE = 8192 in the code
    CleanAbove  \* the register is emptied when it holds more, 5000 in the code

ASSUME RegisterAssumption == Size \in Nat \ {0} /\ CleanAbove \in Nat

\* An empty slot of the ring
NoConn == [id |-> -1, bytes |-> 0, bad |-> FALSE, blocked |-> FALSE,
           closed |-> FALSE, alerted |-> FALSE, accounted |-> FALSE]

Slots == 0..(Size - 1)

\* i % mSize, for the sums the code takes it of: i < 2 * mSize
Wrap(i) == IF i < Size THEN i ELSE i - Size

EmptyRegister ==
    [ring |-> [p \in Slots |-> NoConn], tail |-> 0, cur |-> 0, untracked |-> 0,
     malicious |-> 0, numBlocked |-> 0, maxBytes |-> 0, appBytes |-> 0]

Lesser(a, b)  == IF a < b THEN a ELSE b
Greater(a, b) == IF a < b THEN b ELSE a

\* The largest element of a set of natural numbers, at least n
AtLeast(S, n) == CHOOSE m \in S \cup {n} : \A x \in S \cup {n} : x <= m

FirstPos(r) == IF r.cur < Size THEN 0 ELSE r.tail
LastPos(r)  == Wrap(r.tail - 1 + Size)

\* getConn(i - 1): the i-th oldest connection
GetConn(r, i) == r.ring[Wrap(FirstPos(r) + i - 1)]

\* The connections of the register, the oldest first
Tracked(r) == [i \in 1..r.cur |-> GetConn(r, i)]

\* processConnectionStatus: what becomes of the flags of the connection
Accounted(d) == [d EXCEPT !.alerted = d.bad, !.accounted = d.blocked]

\* ... and of the counters, when the slots in P go from old to new
MaliciousDelta(P, old, new) ==
    Cardinality({p \in P : ~old[p].alerted /\ new[p].bad})
        - Cardinality({p \in P : old[p].alerted /\ ~new[p].bad})

BlockedDelta(P, old, new) ==
    Cardinality({p \in P : ~old[p].accounted /\ new[p].blocked})
        - Cardinality({p \in P : old[p].accounted /\ ~new[p].blocked})

\* A sum of the field bytes over the slots in P
BytesOf(P, ring) ==
    LET sum[n \in 0..Size] ==
            IF n = 0 THEN 0
            ELSE sum[n - 1] + (IF n - 1 \in P THEN ring[n - 1].bytes ELSE 0)
    IN  sum[Size]

\* The most recent connections of a batch larger than the ring
Newest(conns) ==
    IF Len(conns) > Size THEN SubSeq(conns, Len(conns) - Size + 1, Len(conns)) ELSE conns

\* Mutant: one connection too few is evicted from the counters.
OutItemsOneLess(r, n) == Greater(n - Lesser(Size - r.cur, n) - 1, 0)

\* The old connections that n new ones push out
OutItems(r, n) == n - Lesser(Size - r.cur, n)

Evicted(r, n) == {Wrap(FirstPos(r) + i) : i \in 0..(OutItems(r, n) - 1)}

\* The slots that n new connections fill, and the k-th of them back to k
Filled(r, n) == {p \in Slots : Wrap(p - r.tail + Size) < n}
Nth(r, p)    == Wrap(p - r.tail + Size) + 1

\* Mutant: the maximum is kept when its connection leaves.
AddedMaxKept(r, conns, ring) ==
    AtLeast({conns[k].bytes : k \in DOMAIN conns}, r.maxBytes)

\* The maximum: taken over the ring again if the connection that had it leaves
\* and no new one exceeds it
AddedMax(r, conns, ring) ==
    LET newMax == AtLeast({conns[k].bytes : k \in DOMAIN conns}, 0) IN
    IF newMax > r.maxBytes THEN newMax
    ELSE IF \E p \in Evicted(r, Len(conns)) : r.ring[p].bytes = r.maxBytes
    THEN AtLeast({ring[p].bytes : p \in 0..(Lesser(r.cur + Len(conns), Size) - 1)}, 0)
    ELSE r.maxBytes

\* newConnections
Added(r, all) ==
    LET conns  == Newest(all)
        n      == Len(conns)
        in     == Filled(r, n)
        ring   == [p \in Slots |-> IF p \in in THEN Accounted(conns[Nth(r, p)])
                                               ELSE r.ring[p]]
        \* new connections come with no flag set
        fresh  == [p \in Slots |-> NoConn]
    IN  [ring       |-> ring,
         tail       |-> Wrap(r.tail + n),
         cur        |-> Lesser(r.cur + n, Size),
         untracked  |-> r.untracked + (Len(all) - n) + OutItems(r, n),
         malicious  |-> r.malicious - Cardinality({p \in Evicted(r, n) : r.ring[p].bad})
                            + MaliciousDelta(in, fresh, ring),
         numBlocked |-> r.numBlocked + BlockedDelta(in, fresh, ring),
         maxBytes   |-> AddedMax(r, conns, ring),
         appBytes   |-> r.appBytes + BytesOf(in, ring)]

\* processUpdate, with UPDATE_STATS, which every update of the engine has
Applied(d, u) ==
    Accounted([d EXCEPT !.bytes = u.bytes, !.bad = u.bad, !.blocked = u.blocked,
                        !.closed = u.closed])

\* The slot the number of a connection stands for
Position(r, id) == (id - GetConn(r, 1).id + FirstPos(r)) % Size

\* Mutant: the newest connection is left out.
InRangeOpen(r, id) == r.cur > 0 /\ id >= GetConn(r, 1).id /\ id < r.ring[LastPos(r)].id

InRange(r, id) == r.cur > 0 /\ id >= GetConn(r, 1).id /\ id <= r.ring[LastPos(r)].id

BytesDelta(P, old, new) == BytesOf(P, new) - BytesOf(P, old)

\* connectionsUpdates; a dump has one update of a connection at most
Updated(r, upds) ==
    LET seen  == {k \in DOMAIN upds : InRange(r, upds[k].id)}
        at(k) == Position(r, upds[k].id)
        hit   == {at(k) : k \in seen}
        ring  == [p \in Slots |->
                    IF p \in hit
                    THEN Applied(r.ring[p], upds[CHOOSE k \in seen : at(k) = p])
                    ELSE r.ring[p]]
    IN  [r EXCEPT
            !.ring       = ring,
            !.malicious  = @ + MaliciousDelta(hit, r.ring, ring),
            !.numBlocked = @ + BlockedDelta(hit, r.ring, ring),
            !.maxBytes   = AtLeast({upds[k].bytes : k \in seen}, @),
            !.appBytes   = @ + BytesDelta(hit, r.ring, ring)]

\* reset: the counters of connections of all kinds are left as they are
Emptied(r) ==
    [r EXCEPT !.ring = [p \in Slots |-> NoConn], !.tail = 0, !.cur = 0,
              !.untracked = 0, !.appBytes = 0]
=============================================================================
