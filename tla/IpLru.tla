------------------------------- MODULE IpLru -------------------------------
(***************************************************************************)
(* The cache from addresses to host names (ip_lru.c), which the engine     *)
(* fills from DNS replies and asks when a connection begins.  The hash     *)
(* table keeps its entries in the order of insertion; a cache is that      *)
(* order, the oldest entry first, as a sequence of [ip, host].             *)
(***************************************************************************)
EXTENDS Naturals, Sequences

LruKeys(cache) == { cache[i].ip : i \in DOMAIN cache }

\* Where a cached address is
LruAt(cache, ip) == CHOOSE i \in DOMAIN cache : cache[i].ip = ip

\* The host that a cached address stands for.
LruHost(cache, ip) == cache[LruAt(cache, ip)].host

\* HASH_DELETE
LruWithout(cache, ip) ==
    LET i == LruAt(cache, ip)
    IN  SubSeq(cache, 1, i - 1) \o SubSeq(cache, i + 1, Len(cache))

\* An entry at the young end, in the place of the one there was
LruMoved(cache, ip, host) ==
    Append(LruWithout(cache, ip), [ip |-> ip, host |-> host])

\* ip_lru_find_entry: an entry that is found moves to the young end.
LruFind(cache, ip) ==
    IF ip \in LruKeys(cache) THEN LruMoved(cache, ip, LruHost(cache, ip)) ELSE cache

\* Mutant: the oldest entry is never pushed out.
LruAddKept(cache, ip, host, max) ==
    IF ip \in LruKeys(cache) THEN LruMoved(cache, ip, host)
    ELSE Append(cache, [ip |-> ip, host |-> host])

\* ip_lru_add: an entry that exists moves and changes its host; a new one pushes
\* out the oldest when there are more than max.
LruAdd(cache, ip, host, max) ==
    LET more == Append(cache, [ip |-> ip, host |-> host])
    IN  IF ip \in LruKeys(cache) THEN LruMoved(cache, ip, host)
        ELSE IF Len(more) > max THEN Tail(more) ELSE more

\* A cache of at most max entries from ips to hosts, with one for an address
IsLru(cache, ips, hosts, max) ==
    /\ cache \in Seq([ip : ips, host : hosts]) /\ Len(cache) <= max
    /\ \A i, j \in 1..Len(cache) : cache[i].ip = cache[j].ip => i = j
=============================================================================
