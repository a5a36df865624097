------------------------- MODULE ConnPipelineProof -------------------------
(***************************************************************************)
(* From the engine to the register, proved for every number of             *)
(* connections, of verdicts, of bytes, every size of the ring and every    *)
(* capacity of the queue.                                                  *)
(*                                                                         *)
(* The engine: a connection is listed exactly while a notification of it   *)
(* is pending, and its record is freed by the dump that tells of its end.  *)
(*                                                                         *)
(* The way (FlowInv): register, queue and arrays hold connections with     *)
(* consecutive numbers, so that a position in the ring stands for a        *)
(* number.  What is told (ShowInv, ForwardInv): the last word on its way   *)
(* about a connection is what the engine knows, and no word goes back.     *)
(* The counters (CountInv): until the register is emptied, they are the    *)
(* count, the maximum and the sum over the ring, which newConnections and  *)
(* connectionsUpdates keep up by differences.                              *)
(* These are proved for engines whose dumps do not fail: a dump that fails *)
(* leaves a gap in the numbers.                                            *)
(***************************************************************************)
EXTENDS ConnPipeline, SequenceTheorems, FiniteSetTheorems,
        WellFoundedInduction, TLAPS

\* pd_conn_t
Data == [status : {"none", "open", "closed", "freed"}, bytes : Nat, bad : BOOLEAN,
         blocked : BOOLEAN, pending : BOOLEAN, to_purge : BOOLEAN]

EngineType ==
    /\ conns \in [Ids -> Data]
    /\ new_conn_id \in 0..MaxConns
    /\ new_conns \in Seq(Ids) /\ conns_updates \in Seq(Ids)

Distinct(s) == \A i, j \in DOMAIN s : s[i] = s[j] => i = j

\* The two arrays share nothing, a connection that was not opened has no record, and
\* one that is closed is marked for conns_clear.
EngineInv ==
    /\ EngineType
    /\ Distinct(new_conns) /\ Distinct(conns_updates)
    /\ RangeOf(new_conns) \cap RangeOf(conns_updates) = {}
    /\ \A c \in Ids : conns[c].pending <=> c \in Listed
    /\ \A c \in Listed : conns[c].status \in {"open", "closed"}
    /\ \A c \in Ids : conns[c].status = "none" <=> c \notin Opened
    /\ \A c \in Ids : conns[c].status = "closed" => c \in Listed /\ conns[c].to_purge
    /\ capture # "loop" => ~running /\ \A c \in Opened : conns[c].status = "freed"
-----------------------------------------------------------------------------
(***************************************************************************)
(* Arrays.                                                                 *)
(***************************************************************************)
\* An entry at the end is one more element, and is distinct if it is new.
LEMMA AppendEntry ==
    ASSUME NEW S, NEW s \in Seq(S), NEW x \in S
    PROVE  /\ Append(s, x) \in Seq(S)
           /\ RangeOf(Append(s, x)) = RangeOf(s) \cup {x}
           /\ Distinct(s) /\ x \notin RangeOf(s) => Distinct(Append(s, x))
  <1> DEFINE t == Append(s, x)
  <1>1. /\ t \in Seq(S) /\ Len(s) \in Nat
        /\ DOMAIN s = 1..Len(s) /\ DOMAIN t = 1..(Len(s) + 1)
        /\ \A i \in 1..Len(s) : t[i] = s[i]
        /\ t[Len(s) + 1] = x
    BY AppendProperties, LenProperties
  <1>2. DOMAIN t = DOMAIN s \cup {Len(s) + 1} /\ Len(s) + 1 \notin DOMAIN s
    BY <1>1
  <1> HIDE DEF t
  <1>3. RangeOf(t) = RangeOf(s) \cup {x}
    BY <1>1, <1>2 DEF RangeOf
  <1>4. Distinct(s) /\ x \notin RangeOf(s) => Distinct(t)
    BY <1>1, <1>2 DEF RangeOf, Distinct
  <1> QED
    BY <1>1, <1>3, <1>4 DEF t

LEMMA EmptyArray == RangeOf(<<>>) = {} /\ Distinct(<<>>) /\ \A S : <<>> \in Seq(S)
  <1>1. DOMAIN <<>> = {}
    OBVIOUS
  <1> QED
    BY <1>1 DEF RangeOf, Distinct

\* Two arrays without repetitions that share nothing have none together.
LEMMA DistinctConcat ==
    ASSUME NEW S, NEW s \in Seq(S), NEW t \in Seq(S), Distinct(s), Distinct(t),
           RangeOf(s) \cap RangeOf(t) = {}
    PROVE  Distinct(s \o t)
  <1> DEFINE u == s \o t
  <1>1. /\ Len(s) \in Nat /\ Len(t) \in Nat
        /\ DOMAIN s = 1..Len(s) /\ DOMAIN t = 1..Len(t)
        /\ u \in Seq(S) /\ Len(u) = Len(s) + Len(t) /\ DOMAIN u = 1..Len(u)
        /\ \A i \in 1..Len(u) : u[i] = IF i <= Len(s) THEN s[i] ELSE t[i - Len(s)]
    BY ConcatProperties, LenProperties
  <1> HIDE DEF u
  <1> SUFFICES ASSUME NEW i \in DOMAIN u, NEW j \in DOMAIN u, u[i] = u[j]
               PROVE  i = j
    BY DEF Distinct, u
  <1>2. i \in Nat /\ j \in Nat
    BY <1>1
  <1>3. CASE i \in DOMAIN s /\ j \in DOMAIN s
    BY <1>1, <1>3 DEF Distinct
  <1>4. CASE i \notin DOMAIN s /\ j \notin DOMAIN s
    <2>1. /\ i - Len(s) \in DOMAIN t /\ j - Len(s) \in DOMAIN t
          /\ u[i] = t[i - Len(s)] /\ u[j] = t[j - Len(s)]
      BY <1>1, <1>2, <1>4
    <2>2. i - Len(s) = j - Len(s)
      BY <2>1 DEF Distinct
    <2> QED
      BY <1>1, <1>2, <2>2
  <1>5. CASE i \in DOMAIN s /\ j \notin DOMAIN s
    <2>1. u[i] = s[i] /\ j - Len(s) \in DOMAIN t /\ u[j] = t[j - Len(s)]
      BY <1>1, <1>2, <1>5
    <2> QED
      BY <2>1, <1>5 DEF RangeOf
  <1>6. CASE i \notin DOMAIN s /\ j \in DOMAIN s
    <2>1. u[j] = s[j] /\ i - Len(s) \in DOMAIN t /\ u[i] = t[i - Len(s)]
      BY <1>1, <1>2, <1>6
    <2> QED
      BY <2>1, <1>6 DEF RangeOf
  <1> QED
    BY <1>3, <1>4, <1>5, <1>6
-----------------------------------------------------------------------------
(***************************************************************************)
(* The steps of the engine.                                                *)
(***************************************************************************)
\* A record of an active connection changes, and is listed by notif_connection.
LEMMA ChangeKeepsInv ==
    ASSUME EngineInv, NEW c \in Ids, Active(c), Notify(c),
           NEW d \in Data, d.status \in {"open", "closed"}, d.pending = TRUE,
           d.status = "closed" => d.to_purge,
           conns' = [conns EXCEPT ![c] = d],
           UNCHANGED <<new_conn_id, new_conns, running, capture>>
    PROVE  EngineInv'
  <1>1. /\ conns \in [Ids -> Data] /\ conns_updates \in Seq(Ids) /\ c \in Opened
        /\ conns'[c] = d /\ \A e \in Ids \ {c} : conns'[e] = conns[e]
        /\ conns[c].status = "open" /\ running /\ capture = "loop"
    BY DEF EngineInv, EngineType, Active
  <1>2. /\ conns_updates' \in Seq(Ids) /\ Distinct(conns_updates')
        /\ RangeOf(conns_updates') \cap RangeOf(new_conns) = {}
        /\ RangeOf(conns_updates') \cup RangeOf(new_conns) = Listed \cup {c}
    <2>1. CASE conns[c].pending
      BY <1>1, <2>1 DEF Notify, EngineInv, Listed
    <2>2. CASE ~conns[c].pending
      <3>1. conns_updates' = Append(conns_updates, c) /\ c \notin Listed
        BY <1>1, <2>2 DEF Notify, EngineInv
      <3>2. /\ Append(conns_updates, c) \in Seq(Ids)
            /\ RangeOf(Append(conns_updates, c)) = RangeOf(conns_updates) \cup {c}
            /\ Distinct(conns_updates) /\ c \notin RangeOf(conns_updates)
                 => Distinct(Append(conns_updates, c))
        BY <1>1, AppendEntry
      <3> QED
        BY <3>1, <3>2 DEF EngineInv, Listed
    <2> QED
      BY <2>1, <2>2
  <1>3. Listed' = Listed \cup {c}
    BY <1>2 DEF Listed
  <1>4. EngineType'
    BY <1>1, <1>2 DEF EngineInv, EngineType
  <1>5. Distinct(new_conns') /\ RangeOf(new_conns') \cap RangeOf(conns_updates') = {}
    BY <1>2 DEF EngineInv
  <1>6. \A e \in Ids : conns'[e].pending <=> e \in Listed'
    BY <1>1, <1>3 DEF EngineInv
  <1>7. \A e \in Listed' : conns'[e].status \in {"open", "closed"}
    <2>1. Listed \subseteq Ids
      BY DEF EngineInv, EngineType, Listed, RangeOf
    <2> QED
      BY <1>1, <1>3, <2>1 DEF EngineInv
  <1>8. Opened' = Opened
    BY DEF Opened
  <1>9. \A e \in Ids : conns'[e].status = "none" <=> e \notin Opened'
    BY <1>1, <1>8 DEF EngineInv
  <1>10. \A e \in Ids : conns'[e].status = "closed" => e \in Listed' /\ conns'[e].to_purge
    BY <1>1, <1>3 DEF EngineInv
  <1> QED
    BY <1>1, <1>2, <1>4, <1>5, <1>6, <1>7, <1>9, <1>10 DEF EngineInv

LEMMA OpenKeepsInv ==
    ASSUME PipelineAssumption, EngineInv, OpenConn
    PROVE  EngineInv'
  <1> DEFINE c == new_conn_id
  <1>1. PICK v \in Verdicts, n \in {0, 1}, status \in {"open", "closed"} :
            /\ running /\ capture = "loop" /\ new_conn_id < MaxConns
            /\ v.blocked => n = 0
            /\ n <= MaxBytes
            /\ conns' = [conns EXCEPT ![new_conn_id] =
                            [status |-> status, bytes |-> n, bad |-> v.bad,
                             blocked |-> v.blocked, pending |-> TRUE,
                             to_purge |-> status = "closed"]]
            /\ new_conns' = Append(new_conns, new_conn_id)
            /\ new_conn_id' = new_conn_id + 1
            /\ UNCHANGED <<conns_updates, running, capture, serviceVars, workerVars>>
    BY DEF OpenConn
  <1>2. /\ conns \in [Ids -> Data] /\ new_conns \in Seq(Ids) /\ MaxConns \in Nat
        /\ c \in Nat /\ c < MaxConns /\ c \in Ids /\ c + 1 \in 0..MaxConns
    BY <1>1 DEF EngineInv, EngineType, PipelineAssumption, Ids
  <1> DEFINE d == [status |-> status, bytes |-> n, bad |-> v.bad, blocked |-> v.blocked,
                   pending |-> TRUE, to_purge |-> status = "closed"]
  <1>3. v.bad \in BOOLEAN /\ v.blocked \in BOOLEAN
    BY DEF PipelineAssumption
  <1>4. /\ d \in Data /\ d.status \in {"open", "closed"} /\ d.pending = TRUE
        /\ d.status = "closed" => d.to_purge
    <2>1. /\ n \in Nat /\ (status = "closed") \in BOOLEAN
          /\ status \in {"none", "open", "closed", "freed"}
      OBVIOUS
    <2>2. d \in Data
      BY <1>3, <2>1 DEF Data
    <2>3. /\ d.status = status /\ d.pending = TRUE
          /\ d.to_purge = (status = "closed")
      OBVIOUS
    <2> QED
      BY <2>2, <2>3
  <1>5. conns'[c] = d /\ \A e \in Ids \ {c} : conns'[e] = conns[e]
    BY <1>1, <1>2
  <1>6. conns' \in [Ids -> Data]
    BY <1>1, <1>2, <1>4
  <1> HIDE DEF d
  <1>7. conns[c].status = "none" /\ c \notin Listed
    BY <1>2 DEF EngineInv, Opened
  <1>8. /\ new_conns' \in Seq(Ids) /\ Distinct(new_conns')
        /\ RangeOf(new_conns') = RangeOf(new_conns) \cup {c}
    <2>1. /\ Append(new_conns, c) \in Seq(Ids)
          /\ RangeOf(Append(new_conns, c)) = RangeOf(new_conns) \cup {c}
          /\ Distinct(new_conns) /\ c \notin RangeOf(new_conns)
               => Distinct(Append(new_conns, c))
      BY <1>2, AppendEntry
    <2> QED
      BY <1>1, <1>7, <2>1 DEF EngineInv, Listed
  <1>9. Listed' = Listed \cup {c} /\ RangeOf(new_conns') \cap RangeOf(conns_updates') = {}
    BY <1>1, <1>7, <1>8 DEF Listed, EngineInv
  <1>10. Opened' = Opened \cup {c}
    BY <1>1, <1>2 DEF Opened
  <1>11. EngineType'
    BY <1>1, <1>2, <1>6, <1>8 DEF EngineInv, EngineType
  <1>12. Listed \subseteq Ids
    BY DEF EngineInv, EngineType, Listed, RangeOf
  <1>13. \A e \in Ids : conns'[e].pending <=> e \in Listed'
    BY <1>2, <1>4, <1>5, <1>9 DEF EngineInv
  <1>14. /\ \A e \in Listed' : conns'[e].status \in {"open", "closed"}
         /\ \A e \in Ids : conns'[e].status = "closed" => e \in Listed' /\ conns'[e].to_purge
    BY <1>2, <1>4, <1>5, <1>9, <1>12 DEF EngineInv
  <1>15. \A e \in Ids : conns'[e].status = "none" <=> e \notin Opened'
    BY <1>2, <1>4, <1>5, <1>10 DEF EngineInv
  <1> QED
    BY <1>1, <1>8, <1>9, <1>11, <1>13, <1>14, <1>15 DEF EngineInv

\* What conns_clear makes of one record
LEMMA ClearedRecord ==
    ASSUME EngineInv, NEW S, NEW free_all \in BOOLEAN, S \subseteq Ids
    PROVE  /\ Cleared(S, free_all, S) \in [Ids -> Data]
           /\ \A c \in Ids \ S : Cleared(S, free_all, S)[c] = conns[c]
           /\ \A c \in S :
                  /\ Cleared(S, free_all, S)[c].pending = FALSE
                  /\ Cleared(S, free_all, S)[c].status =
                         IF conns[c].to_purge \/ free_all THEN "freed" ELSE conns[c].status
  <1>1. /\ conns \in [Ids -> Data]
        /\ \A c \in Ids : conns[c] \in Data
    BY DEF EngineInv, EngineType
  <1>2. ASSUME NEW d \in Data
        PROVE  /\ [d EXCEPT !.pending = FALSE] \in Data
               /\ [d EXCEPT !.pending = FALSE].pending = FALSE
               /\ [d EXCEPT !.pending = FALSE].status = d.status
               /\ [d EXCEPT !.status = "freed", !.pending = FALSE] \in Data
               /\ [d EXCEPT !.status = "freed", !.pending = FALSE].pending = FALSE
               /\ [d EXCEPT !.status = "freed", !.pending = FALSE].status = "freed"
    BY DEF Data
  <1>3. ASSUME NEW c \in Ids
        PROVE  /\ c \in S /\ (conns[c].to_purge \/ free_all) =>
                      Cleared(S, free_all, S)[c] =
                          [conns[c] EXCEPT !.status = "freed", !.pending = FALSE]
               /\ c \in S /\ ~(conns[c].to_purge \/ free_all) =>
                      Cleared(S, free_all, S)[c] = [conns[c] EXCEPT !.pending = FALSE]
               /\ c \notin S => Cleared(S, free_all, S)[c] = conns[c]
    BY DEF Cleared
  <1>4. ASSUME NEW c \in Ids
        PROVE  Cleared(S, free_all, S)[c] \in Data
    BY <1>1, <1>2, <1>3
  <1>5. Cleared(S, free_all, S) \in [Ids -> Data]
    BY <1>4 DEF Cleared
  <1>6. ASSUME NEW c \in S
        PROVE  /\ Cleared(S, free_all, S)[c].pending = FALSE
               /\ Cleared(S, free_all, S)[c].status =
                      IF conns[c].to_purge \/ free_all THEN "freed" ELSE conns[c].status
    <2>1. c \in Ids /\ conns[c] \in Data
      BY <1>1
    <2> QED
      BY <2>1, <1>2, <1>3
  <1> QED
    BY <1>3, <1>5, <1>6

\* Both arrays are emptied after a dump that reached all of them.
LEMMA DumpKeepsInv ==
    ASSUME EngineInv, Dump
    PROVE  EngineInv'
  <1>1. /\ conns' = Cleared(Listed, FALSE, Listed)
        /\ new_conns' = <<>> /\ conns_updates' = <<>>
        /\ new_conn_id' = new_conn_id /\ running' = running /\ capture' = capture
        /\ running /\ capture = "loop"
    BY DEF Dump
  <1>2. Listed \subseteq Ids
    BY DEF EngineInv, EngineType, Listed, RangeOf
  <1>3. /\ conns' \in [Ids -> Data]
        /\ \A c \in Ids \ Listed : conns'[c] = conns[c]
        /\ \A c \in Listed :
               /\ conns'[c].pending = FALSE
               /\ conns'[c].status = IF conns[c].to_purge THEN "freed" ELSE conns[c].status
    BY <1>1, <1>2, ClearedRecord, ZenonT(40)
  <1>4. Listed' = {} /\ Opened' = Opened
    BY <1>1, EmptyArray DEF Listed, Opened
  <1>5. EngineType' /\ Distinct(new_conns') /\ Distinct(conns_updates')
        /\ RangeOf(new_conns') \cap RangeOf(conns_updates') = {}
    BY <1>1, <1>3, EmptyArray DEF EngineInv, EngineType
  <1>6. \A c \in Ids : conns'[c].pending <=> c \in Listed'
    BY <1>3, <1>4 DEF EngineInv
  <1>7. \A c \in Ids : conns'[c].status = "none" <=> c \notin Opened'
    BY <1>3, <1>4 DEF EngineInv
  <1>8. \A c \in Ids : conns'[c].status # "closed"
    BY <1>3 DEF EngineInv
  <1> QED
    BY <1>1, <1>4, <1>5, <1>6, <1>7, <1>8 DEF EngineInv

\* The last dump: zdtun_finalize has listed what was open, so nothing is left.
LEMMA LoopEndsKeepsInv ==
    ASSUME PipelineAssumption, EngineInv, LoopEnds
    PROVE  EngineInv'
  <1> DEFINE all == Listed \cup Closings
  <1>1. /\ conns' = Cleared(all, TRUE, all)
        /\ new_conns' = <<>> /\ conns_updates' = <<>>
        /\ new_conn_id' = new_conn_id /\ running' = running
        /\ ~running /\ capture = "loop"
    BY DEF LoopEnds
  <1>2. Opened \subseteq Ids
    <2>1. MaxConns \in Nat /\ new_conn_id \in 0..MaxConns
      BY DEF PipelineAssumption, EngineInv, EngineType
    <2> QED
      BY <2>1 DEF Opened, Ids
  <1>3. all \subseteq Ids
    BY <1>2 DEF EngineInv, EngineType, Listed, RangeOf, Closings, StillOpen
  <1>4. Opened \subseteq all \cup {c \in Opened : conns[c].status = "freed"}
    <2> SUFFICES ASSUME NEW c \in Opened, conns[c].status # "freed"
                 PROVE  c \in all
      OBVIOUS
    <2>1. c \in Ids /\ conns[c].status \in {"none", "open", "closed", "freed"}
      BY <1>2 DEF EngineInv, EngineType, Data
    <2>2. conns[c].status # "none"
      BY <2>1 DEF EngineInv
    <2>3. CASE conns[c].status = "closed"
      BY <2>1, <2>3 DEF EngineInv
    <2>4. CASE conns[c].status = "open"
      BY <2>1, <2>4 DEF EngineInv, Closings, StillOpen
    <2> QED
      BY <2>1, <2>2, <2>3, <2>4
  <1>5. /\ conns' \in [Ids -> Data]
        /\ \A c \in Ids \ all : conns'[c] = conns[c]
        /\ \A c \in all : conns'[c].pending = FALSE /\ conns'[c].status = "freed"
    <2> HIDE DEF all
    <2>1. /\ Cleared(all, TRUE, all) \in [Ids -> Data]
          /\ \A c \in Ids \ all : Cleared(all, TRUE, all)[c] = conns[c]
          /\ \A c \in all :
                 /\ Cleared(all, TRUE, all)[c].pending = FALSE
                 /\ Cleared(all, TRUE, all)[c].status =
                        IF conns[c].to_purge \/ TRUE THEN "freed" ELSE conns[c].status
      BY <1>3, ClearedRecord, Zenon
    <2> QED
      BY <1>1, <2>1
  <1>6. all \subseteq Opened
    <2>1. Listed \subseteq Ids /\ \A c \in Listed : conns[c].status # "none"
      BY <1>3 DEF EngineInv
    <2> QED
      BY <2>1 DEF EngineInv, Closings, StillOpen
  <1>7. Listed \subseteq all
    OBVIOUS
  <1> HIDE DEF all
  <1>8. Listed' = {} /\ Opened' = Opened
    BY <1>1, EmptyArray DEF Listed, Opened
  <1>9. EngineType' /\ Distinct(new_conns') /\ Distinct(conns_updates')
        /\ RangeOf(new_conns') \cap RangeOf(conns_updates') = {}
    BY <1>1, <1>5, EmptyArray DEF EngineInv, EngineType
  <1>10. \A c \in Ids : conns'[c].pending <=> c \in Listed'
    BY <1>5, <1>7, <1>8 DEF EngineInv
  <1>11. /\ \A c \in Ids : conns'[c].status = "none" <=> c \notin Opened'
         /\ \A c \in Opened' : conns'[c].status = "freed"
    BY <1>2, <1>4, <1>5, <1>6, <1>8 DEF EngineInv
  <1>12. \A c \in Ids : conns'[c].status # "closed"
    BY <1>5, <1>7 DEF EngineInv
  <1> QED
    BY <1>1, <1>8, <1>9, <1>10, <1>11, <1>12 DEF EngineInv

\* What the other threads do
LEMMA OthersKeepInv ==
    ASSUME EngineInv, UNCHANGED engineVars, running' => running,
           capture # "loop" <=> capture' # "loop"
    PROVE  EngineInv'
  BY DEF EngineInv, EngineType, engineVars, Listed, Opened

\* A packet, the end of a connection, or a reload of the lists
LEMMA ActiveKeepsInv ==
    ASSUME PipelineAssumption, EngineInv, NEW c \in Ids,
           Traffic(c) \/ CloseConn(c) \/ Recheck(c)
    PROVE  EngineInv'
  <1>1. conns \in [Ids -> Data] /\ conns[c] \in Data
    BY DEF EngineInv, EngineType
  <1>2. CASE Traffic(c)
    <2>1. PICK v \in Verdicts, n \in {0, 1} :
              /\ Active(c) /\ Notify(c)
              /\ conns' = [conns EXCEPT ![c].bytes = @ + n, ![c].bad = v.bad,
                                        ![c].blocked = v.blocked, ![c].pending = TRUE]
              /\ UNCHANGED <<new_conn_id, new_conns, running, capture>>
      BY <1>2 DEF Traffic
    <2>2. v.bad \in BOOLEAN /\ v.blocked \in BOOLEAN
      BY DEF PipelineAssumption
    <2>3. PICK m \in Nat : m = conns[c].bytes + n
      BY <1>1 DEF Data
    <2> DEFINE d == [conns[c] EXCEPT !.bytes = m, !.bad = v.bad,
                                     !.blocked = v.blocked, !.pending = TRUE]
    <2>4. conns' = [conns EXCEPT ![c] = d] /\ conns[c].status = "open"
      BY <2>1, <2>3 DEF Active
    <2>5. d \in Data /\ d.status = conns[c].status /\ d.pending = TRUE
      BY <1>1, <2>2 DEF Data
    <2> HIDE DEF d
    <2> QED
      BY <2>1, <2>4, <2>5, ChangeKeepsInv
  <1>3. CASE CloseConn(c)
    <2>1. /\ Active(c) /\ Notify(c)
          /\ conns' = [conns EXCEPT ![c].status = "closed", ![c].to_purge = TRUE,
                                    ![c].pending = TRUE]
          /\ UNCHANGED <<new_conn_id, new_conns, running, capture>>
      BY <1>3 DEF CloseConn
    <2> DEFINE d == [conns[c] EXCEPT !.status = "closed", !.to_purge = TRUE,
                                     !.pending = TRUE]
    <2>2. d \in Data /\ d.status = "closed" /\ d.to_purge /\ d.pending = TRUE
      BY <1>1 DEF Data
    <2>3. conns' = [conns EXCEPT ![c] = d]
      BY <2>1
    <2> HIDE DEF d
    <2> QED
      BY <2>1, <2>2, <2>3, ChangeKeepsInv
  <1>4. CASE Recheck(c)
    <2>1. PICK v \in Verdicts :
              /\ Active(c) /\ Notify(c)
              /\ conns' = [conns EXCEPT ![c].bad = v.bad, ![c].blocked = v.blocked,
                                        ![c].pending = TRUE]
              /\ UNCHANGED <<new_conn_id, new_conns, running, capture>>
      BY <1>4 DEF Recheck
    <2> DEFINE d == [conns[c] EXCEPT !.bad = v.bad, !.blocked = v.blocked,
                                     !.pending = TRUE]
    <2>2. v.bad \in BOOLEAN /\ v.blocked \in BOOLEAN
      BY DEF PipelineAssumption
    <2>3. d \in Data /\ d.status = conns[c].status /\ d.pending = TRUE
      BY <1>1, <2>2 DEF Data
    <2>4. conns' = [conns EXCEPT ![c] = d] /\ conns[c].status = "open"
      BY <2>1 DEF Active
    <2> HIDE DEF d
    <2> QED
      BY <2>1, <2>3, <2>4, ChangeKeepsInv
  <1> QED
    BY <1>2, <1>3, <1>4
-----------------------------------------------------------------------------
(***************************************************************************)
(* The invariant, and what follows from it.                                *)
(***************************************************************************)
LEMMA InitInv ==
    ASSUME PipelineAssumption, Init
    PROVE  EngineInv
  <1>1. Opened = {} /\ Listed = {}
    BY EmptyArray DEF Init, Opened, Listed
  <1>2. NoData \in Data /\ NoData.status = "none" /\ NoData.pending = FALSE
    BY DEF NoData, Data
  <1>3. EngineType
    BY <1>2, EmptyArray DEF Init, EngineType, PipelineAssumption
  <1>4. \A c \in Ids : conns[c] = NoData
    BY DEF Init
  <1>5. capture = "loop" /\ new_conns = <<>> /\ conns_updates = <<>>
    BY DEF Init
  <1> QED
    BY <1>1, <1>2, <1>3, <1>4, <1>5, EmptyArray DEF EngineInv

LEMMA NextKeepsInv ==
    ASSUME PipelineAssumption, DumpMayFail = FALSE, EngineInv, [Next]_vars
    PROVE  EngineInv'
  <1>1. CASE Engine
    <2>1. CASE OpenConn
      BY <2>1, OpenKeepsInv
    <2>2. CASE Dump
      BY <2>2, DumpKeepsInv
    <2>3. CASE DumpFails
      BY <2>3 DEF DumpFails
    <2>4. CASE \E c \in Ids : Traffic(c) \/ CloseConn(c) \/ Recheck(c)
      BY <2>4, ActiveKeepsInv
    <2> QED
      BY <1>1, <2>1, <2>2, <2>3, <2>4 DEF Engine
  <1>2. CASE LoopEnds
    BY <1>2, LoopEndsKeepsInv
  <1>3. CASE \/ Stop \/ StopService \/ OnDestroy \/ RequestBlacklistsUpdate
             \/ Signal \/ JoinInterrupted \/ Join \/ Worker
    <2>1. UNCHANGED engineVars /\ (running' = running \/ running' = FALSE)
      BY <1>3 DEF Stop, StopService, OnDestroy, RequestBlacklistsUpdate, Signal,
                  JoinInterrupted, Join, Worker, Take, Clean
    <2>2. capture' = capture \/ (capture # "loop" /\ capture' # "loop")
      BY <1>3 DEF Stop, StopService, OnDestroy, RequestBlacklistsUpdate, Signal,
                  JoinInterrupted, Join, Worker, Take, Clean
    <2> QED
      BY <2>1, <2>2, OthersKeepInv
  <1>4. CASE UNCHANGED vars
    BY <1>4, OthersKeepInv DEF vars
  <1> QED
    BY <1>1, <1>2, <1>3, <1>4 DEF Next, Service

LEMMA InvIsKept ==
    ASSUME DumpMayFail = FALSE
    PROVE  Spec => []EngineInv
  <1>1. Init => EngineInv
    BY PipelineAssumption, InitInv
  <1>2. EngineInv /\ [Next]_vars => EngineInv'
    BY PipelineAssumption, NextKeepsInv
  <1> QED
    BY <1>1, <1>2, PTL DEF Spec

\* PendingIsListed: whatever packets, verdicts, closings and reloads come between two
\* dumps, a connection has one entry in the two arrays of the engine exactly while its
\* pending flag is set, so conns_clear meets no connection twice and frees none that
\* is still listed; for engines whose dumps do not fail.
THEOREM PendingCorrect ==
    ASSUME DumpMayFail = FALSE
    PROVE  Spec => []PendingIsListed
  <1>1. EngineInv => PendingIsListed
    <2> SUFFICES ASSUME EngineInv PROVE PendingIsListed
      OBVIOUS
    <2>1. Distinct(new_conns \o conns_updates)
      BY DistinctConcat DEF EngineInv, EngineType
    <2> QED
      BY <2>1 DEF EngineInv, PendingIsListed, Distinct
  <1> QED
    BY <1>1, InvIsKept, PTL

\* ClosedIsFreed: a connection that is closed is listed until the dump that tells of
\* its end frees it, and the engine frees every connection before it returns; for
\* engines whose dumps do not fail.
THEOREM FreedCorrect ==
    ASSUME DumpMayFail = FALSE
    PROVE  Spec => []ClosedIsFreed
  <1>1. EngineInv => ClosedIsFreed
    <2> SUFFICES ASSUME EngineInv PROVE ClosedIsFreed
      OBVIOUS
    <2>1. MaxConns \in Nat /\ new_conn_id \in 0..MaxConns
      BY PipelineAssumption DEF PipelineAssumption, EngineInv, EngineType
    <2>2. Opened \subseteq Ids
      BY <2>1 DEF Opened, Ids
    <2> QED
      BY <2>2 DEF EngineInv, ClosedIsFreed
  <1> QED
    BY <1>1, InvIsKept, PTL
-----------------------------------------------------------------------------
(***************************************************************************)
(* The register: a ring, and what its methods make of it.                  *)
(***************************************************************************)
\* Where the i-th oldest connection is
At(r, i) == Wrap(FirstPos(r) + i - 1)

\* A register is a record, whatever its counters are; the slots in use come first.
RegOk(r) ==
    /\ r \in [ring : [Slots -> Descs \cup {NoConn}], tail : Slots, cur : 0..Size,
              untracked : Nat, malicious : {r.malicious}, numBlocked : {r.numBlocked},
              maxBytes : {r.maxBytes}, appBytes : {r.appBytes}]
    /\ r.cur < Size => r.tail = r.cur
    /\ \A p \in Slots : IF p < r.cur THEN r.ring[p] \in Descs ELSE r.ring[p] = NoConn

\* The numbers of its connections
FirstId(r)     == GetConn(r, 1).id
Consecutive(r) == \A i \in 1..r.cur : GetConn(r, i).id = FirstId(r) + i - 1

LEMMA SizeType == Size \in Nat /\ Size >= 1 /\ Slots = 0..(Size - 1)
  BY RegisterAssumption DEF Slots

LEMMA EmptyOk ==
  /\ RegOk(EmptyRegister) /\ EmptyRegister.cur = 0 /\ Consecutive(EmptyRegister)
  <1>1. 0 \in Slots /\ 0 \in 0..Size /\ \A p \in Slots : ~(p < 0)
    BY SizeType
  <1>2. 1..0 = {}
    OBVIOUS
  <1> QED
    BY <1>1, <1>2 DEF EmptyRegister, RegOk, Consecutive

LEMMA EmptiedOk ==
  ASSUME NEW r, RegOk(r)
  PROVE  RegOk(Emptied(r)) /\ Emptied(r).cur = 0 /\ Consecutive(Emptied(r))
         /\ Emptied(r).untracked = 0
  <1>1. 0 \in Slots /\ 0 \in 0..Size /\ \A p \in Slots : ~(p < 0)
    BY SizeType
  <1>2. 1..0 = {}
    OBVIOUS
  <1>3. [p \in Slots |-> NoConn] \in [Slots -> Descs \cup {NoConn}]
    OBVIOUS
  <1> DEFINE n == [p \in Slots |-> NoConn]
             s == [r EXCEPT !.ring = n, !.tail = 0, !.cur = 0, !.untracked = 0,
                            !.appBytes = 0]
  <1>4. Emptied(r) = s /\ \A p \in Slots : n[p] = NoConn
    BY DEF Emptied
  <1> HIDE DEF n
  <1>5. /\ s \in [ring : [Slots -> Descs \cup {NoConn}], tail : Slots, cur : 0..Size,
                 untracked : Nat, malicious : {s.malicious}, numBlocked : {s.numBlocked},
                 maxBytes : {s.maxBytes}, appBytes : {s.appBytes}]
        /\ s.ring = n /\ s.tail = 0 /\ s.cur = 0 /\ s.untracked = 0
    BY <1>1, <1>3 DEF RegOk, n
  <1> HIDE DEF s
  <1> QED
    BY <1>1, <1>2, <1>4, <1>5 DEF RegOk, Consecutive

\* The connections of a register are in slots of their own.
LEMMA AtIsSlot ==
  ASSUME NEW r, RegOk(r), NEW i \in 1..r.cur
  PROVE  /\ At(r, i) \in Slots /\ At(r, i) < r.cur /\ GetConn(r, i) = r.ring[At(r, i)]
         /\ GetConn(r, i) \in Descs
         /\ \A j \in 1..r.cur : At(r, i) = At(r, j) => i = j
  <1>1. /\ r.tail \in Slots /\ r.cur \in 0..Size /\ (r.cur < Size => r.tail = r.cur)
        /\ \A p \in Slots : p < r.cur => r.ring[p] \in Descs
    BY DEF RegOk
  <1> DEFINE cur == r.cur
             tail == r.tail
  <1>2. /\ At(r, i) \in Slots /\ At(r, i) < cur
        /\ \A j \in 1..cur : At(r, i) = At(r, j) => i = j
    <2>1. tail \in 0..(Size - 1) /\ cur \in 0..Size /\ i \in 1..cur
      BY <1>1, SizeType
    <2> HIDE DEF cur, tail
    <2>2. \A j \in 1..cur : At(r, j) = IF cur < Size THEN j - 1
                                       ELSE IF tail + j - 1 < Size THEN tail + j - 1
                                       ELSE tail + j - 1 - Size
      BY <2>1, SizeType DEF At, FirstPos, Wrap, cur, tail
    <2> QED
      BY <2>1, <2>2, SizeType
  <1> QED
    BY <1>1, <1>2 DEF GetConn, At

\* And every occupied slot is one of a connection.
LEMMA SlotIsAt ==
  ASSUME NEW r, RegOk(r), NEW p \in Slots, p < r.cur
  PROVE  \E i \in 1..r.cur : At(r, i) = p
  <1>1. /\ r.tail \in 0..(Size - 1) /\ r.cur \in 0..Size /\ p \in 0..(Size - 1)
    BY SizeType DEF RegOk
  <1>2. CASE r.cur < Size
    <2>1. p + 1 \in 1..r.cur /\ At(r, p + 1) = p
      BY <1>1, <1>2, SizeType DEF At, FirstPos, Wrap
    <2> QED
      BY <2>1
  <1>3. CASE ~(r.cur < Size)
    <2>1. CASE p >= r.tail
      <3>1. p - r.tail + 1 \in 1..r.cur /\ At(r, p - r.tail + 1) = p
        BY <1>1, <1>3, <2>1, SizeType DEF At, FirstPos, Wrap
      <3> QED
        BY <3>1
    <2>2. CASE p < r.tail
      <3>1. p - r.tail + 1 + Size \in 1..r.cur /\ At(r, p - r.tail + 1 + Size) = p
        BY <1>1, <1>3, <2>2, SizeType, SMTT(40) DEF At, FirstPos, Wrap
      <3> QED
        BY <3>1
    <2> QED
      BY <1>1, <2>1, <2>2, SizeType
  <1> QED
    BY <1>1, <1>2, <1>3, SizeType

\* i % mSize, as the code takes it
LEMMA WrapIsMod ==
  ASSUME NEW x \in 0..(2 * Size - 1)
  PROVE  x % Size = Wrap(x)
  BY RegisterAssumption DEF Wrap

LEMMA LastIsAt ==
  ASSUME NEW r, RegOk(r), r.cur > 0
  PROVE  r.ring[LastPos(r)] = GetConn(r, r.cur)
  <1>1. r.tail \in 0..(Size - 1) /\ r.cur \in 1..Size /\ (r.cur < Size => r.tail = r.cur)
    BY SizeType DEF RegOk
  <1>2. LastPos(r) = At(r, r.cur)
    <2>1. CASE r.cur < Size
      BY <1>1, <2>1, SizeType DEF LastPos, At, FirstPos, Wrap
    <2>2. CASE r.cur = Size
      BY <1>1, <2>2, SizeType DEF LastPos, At, FirstPos, Wrap
    <2> QED
      BY <1>1, <2>1, <2>2, SizeType
  <1> QED
    BY <1>2 DEF GetConn, At

\* The slot for a number in the range of the register is that of its connection.
LEMMA PositionIsAt ==
  ASSUME NEW r, RegOk(r), Consecutive(r), NEW i \in 1..r.cur
  PROVE  InRange(r, GetConn(r, i).id) /\ Position(r, GetConn(r, i).id) = At(r, i)
  <1>1. r.tail \in 0..(Size - 1) /\ r.cur \in 0..Size /\ (r.cur < Size => r.tail = r.cur)
    BY SizeType DEF RegOk
  <1>2. 1 \in 1..r.cur /\ r.cur \in 1..r.cur /\ i \in Nat
    BY <1>1
  <1>3. FirstId(r) \in Int
    BY <1>2, AtIsSlot DEF FirstId, Descs, Ids
  <1>4. GetConn(r, i).id = FirstId(r) + i - 1 /\ GetConn(r, r.cur).id = FirstId(r) + r.cur - 1
    BY <1>2 DEF Consecutive
  <1>5. r.ring[LastPos(r)] = GetConn(r, r.cur)
    BY <1>1, <1>2, LastIsAt
  <1>6. InRange(r, GetConn(r, i).id)
    BY <1>1, <1>2, <1>3, <1>4, <1>5 DEF InRange, FirstId
  <1>7. FirstPos(r) \in 0..(Size - 1)
    BY <1>1, SizeType DEF FirstPos
  <1>8. GetConn(r, i).id - GetConn(r, 1).id + FirstPos(r) = FirstPos(r) + i - 1
    BY <1>2, <1>3, <1>4, <1>7 DEF FirstId
  <1>9. FirstPos(r) + i - 1 \in 0..(2 * Size - 1)
    BY <1>1, <1>7, SizeType
  <1> QED
    BY <1>6, <1>8, <1>9, WrapIsMod DEF Position, At

\* Numbers out of the range are of no connection.
LEMMA InRangeIsAt ==
  ASSUME NEW r, RegOk(r), Consecutive(r), NEW id \in Int, InRange(r, id)
  PROVE  \E i \in 1..r.cur : GetConn(r, i).id = id
  <1>1. r.tail \in 0..(Size - 1) /\ r.cur \in 0..Size /\ (r.cur < Size => r.tail = r.cur)
        /\ r.cur > 0
    BY SizeType DEF RegOk, InRange
  <1>2. 1 \in 1..r.cur /\ r.cur \in 1..r.cur
    BY <1>1
  <1>3. FirstId(r) \in Int
    BY <1>2, AtIsSlot DEF FirstId, Descs, Ids
  <1>4. GetConn(r, r.cur).id = FirstId(r) + r.cur - 1
    BY <1>2 DEF Consecutive
  <1>5. r.ring[LastPos(r)] = GetConn(r, r.cur)
    BY <1>1, <1>2, LastIsAt
  <1>6. id >= FirstId(r) /\ id <= FirstId(r) + r.cur - 1
    BY <1>4, <1>5 DEF InRange, FirstId
  <1> DEFINE i == id - FirstId(r) + 1
  <1>7. i \in 1..r.cur /\ FirstId(r) + i - 1 = id
    BY <1>1, <1>3, <1>6
  <1> QED
    BY <1>7 DEF Consecutive

\* processConnectionStatus keeps what the connection is.
LEMMA AccountedType ==
  ASSUME NEW d \in Descs
  PROVE  /\ Accounted(d) \in Descs /\ Accounted(d).id = d.id
         /\ Accounted(d).bytes = d.bytes /\ Accounted(d).bad = d.bad
         /\ Accounted(d).blocked = d.blocked /\ Accounted(d).closed = d.closed
         /\ Accounted(d).alerted = d.bad /\ Accounted(d).accounted = d.blocked
  BY DEF Accounted, Descs

LEMMA AppliedType ==
  ASSUME NEW d \in Descs, NEW u \in Descs
  PROVE  /\ Applied(d, u) \in Descs /\ Applied(d, u).id = d.id
         /\ Applied(d, u).bytes = u.bytes /\ Applied(d, u).bad = u.bad
         /\ Applied(d, u).blocked = u.blocked /\ Applied(d, u).closed = u.closed
         /\ Applied(d, u).alerted = u.bad /\ Applied(d, u).accounted = u.blocked
         /\ d.id = u.id => Applied(d, u) = Accounted(u)
  <1> DEFINE e == [d EXCEPT !.bytes = u.bytes, !.bad = u.bad, !.blocked = u.blocked,
                            !.closed = u.closed]
  <1>1. /\ e \in Descs /\ e.id = d.id /\ e.bytes = u.bytes /\ e.bad = u.bad
        /\ e.blocked = u.blocked /\ e.closed = u.closed
    BY DEF Descs
  <1>2. Applied(d, u) = Accounted(e)
    BY DEF Applied
  <1> HIDE DEF e
  <1>3. /\ Accounted(e) \in Descs /\ Accounted(e).id = d.id
        /\ Accounted(e).bytes = u.bytes /\ Accounted(e).bad = u.bad
        /\ Accounted(e).blocked = u.blocked /\ Accounted(e).closed = u.closed
        /\ Accounted(e).alerted = u.bad /\ Accounted(e).accounted = u.blocked
    BY <1>1, AccountedType
  <1>4. /\ Accounted(u) \in Descs /\ Accounted(u).id = u.id
        /\ Accounted(u).bytes = u.bytes /\ Accounted(u).bad = u.bad
        /\ Accounted(u).blocked = u.blocked /\ Accounted(u).closed = u.closed
        /\ Accounted(u).alerted = u.bad /\ Accounted(u).accounted = u.blocked
    BY AccountedType
  <1>5. d.id = u.id => Accounted(e) = Accounted(u)
    BY <1>3, <1>4 DEF Descs
  <1> QED
    BY <1>2, <1>3, <1>5

\* What a batch that is larger than the ring is cut to
LEMMA NewestOf ==
  ASSUME NEW all \in Seq(Descs)
  PROVE  /\ Newest(all) \in Seq(Descs) /\ Len(Newest(all)) = Lesser(Len(all), Size)
         /\ \A k \in 1..Len(Newest(all)) :
                Newest(all)[k] = all[Len(all) - Len(Newest(all)) + k]
  <1>1. Len(all) \in Nat /\ \A k \in 1..Len(all) : all[k] \in Descs
    BY ElementOfSeq, LenProperties
  <1>2. CASE Len(all) > Size
    <2> DEFINE m == Len(all) - Size + 1
               n == Len(all)
    <2>1. m \in Int /\ n \in Int /\ m <= n /\ n - m + 1 = Size
          /\ \A i \in m..n : all[i] \in Descs
      BY <1>1, <1>2, SizeType
    <2> HIDE DEF m, n
    <2>2. /\ SubSeq(all, m, n) \in Seq(Descs) /\ Len(SubSeq(all, m, n)) = Size
          /\ \A i \in 1..Size : SubSeq(all, m, n)[i] = all[m + i - 1]
      BY <2>1, SubSeqProperties
    <2>3. Newest(all) = SubSeq(all, m, n)
      BY <1>2 DEF Newest, m, n
    <2>4. \A i \in 1..Size : m + i - 1 = n - Size + i
      BY <1>1, SizeType DEF m, n
    <2> QED
      BY <1>1, <1>2, <2>2, <2>3, <2>4, SizeType DEF Lesser, n
  <1>3. CASE ~(Len(all) > Size)
    <2>1. Newest(all) = all /\ Lesser(Len(all), Size) = Len(all)
      BY <1>1, <1>3, SizeType DEF Newest, Lesser
    <2>2. \A k \in 1..Len(all) : Len(all) - Len(all) + k = k
      BY <1>1
    <2> QED
      BY <2>1, <2>2
  <1> QED
    BY <1>2, <1>3

\* Where the positions of the ring go when n connections come: the arithmetic of
\* tail, size and number of connections, with out connections that leave.
LEMMA AddedPositions ==
  ASSUME NEW tail \in Slots, NEW cur \in 0..Size, cur < Size => tail = cur,
         NEW n \in 0..Size
  PROVE  LET out   == n - Lesser(Size - cur, n)
             cur2  == Lesser(cur + n, Size)
             tail2 == Wrap(tail + n)
             pos(i)  == Wrap((IF cur < Size THEN 0 ELSE tail) + i - 1)
             pos2(i) == Wrap((IF cur2 < Size THEN 0 ELSE tail2) + i - 1)
             in(p) == Wrap(p - tail + Size)
         IN  /\ tail2 \in Slots /\ cur2 \in 0..Size /\ (cur2 < Size => tail2 = cur2)
             /\ out \in 0..cur /\ cur2 = cur - out + n
             /\ \A i \in 1..(cur - out) : in(pos2(i)) >= n /\ pos2(i) = pos(i + out)
             /\ \A i \in (cur - out + 1)..cur2 :
                    in(pos2(i)) < n /\ in(pos2(i)) + 1 = i + out - cur
             /\ \A p \in Slots : p < cur2 <=> p < cur \/ in(p) < n
  <1>1. tail \in 0..(Size - 1) /\ Size \in Nat /\ Slots = 0..(Size - 1)
    BY SizeType
  <1>2. CASE cur + n < Size
    BY <1>1, <1>2 DEF Lesser, Wrap
  <1>3. CASE cur + n >= Size /\ cur = Size
    BY <1>1, <1>3 DEF Lesser, Wrap
  <1>4. CASE cur + n >= Size /\ cur < Size
    BY <1>1, <1>4 DEF Lesser, Wrap
  <1> QED
    BY <1>1, <1>2, <1>3, <1>4

\* newConnections: the oldest leave, the others stay in order, and the newest of the
\* batch follow.
LEMMA AddedLists ==
  ASSUME NEW r, RegOk(r), NEW all \in Seq(Descs)
  PROVE  LET a   == Added(r, all)
             n   == Lesser(Len(all), Size)
             out == OutItems(r, n)
         IN  /\ RegOk(a) /\ out \in 0..r.cur /\ n \in 0..Len(all)
             /\ a.cur = r.cur - out + n
             /\ out > 0 => a.cur = Size
             /\ n < Len(all) => n = Size
             /\ a.untracked = r.untracked + (Len(all) - n) + out
             /\ \A i \in 1..(r.cur - out) : GetConn(a, i) = GetConn(r, i + out)
             /\ \A k \in 1..n :
                    GetConn(a, r.cur - out + k) = Accounted(all[Len(all) - n + k])
  <1> DEFINE conns2 == Newest(all)
             n == Len(conns2)
             a == Added(r, all)
             out == OutItems(r, n)
             in == Filled(r, n)
             ring == [p \in Slots |-> IF p \in in THEN Accounted(conns2[Nth(r, p)])
                                                  ELSE r.ring[p]]
  <1>1. /\ conns2 \in Seq(Descs) /\ n = Lesser(Len(all), Size)
        /\ \A k \in 1..n : conns2[k] = all[Len(all) - n + k]
        /\ \A k \in 1..n : conns2[k] \in Descs
    BY NewestOf, ElementOfSeq
  <1>2. Len(all) \in Nat /\ n \in 0..Size /\ n \in 0..Len(all) /\ (n < Len(all) => n = Size)
    BY <1>1, LenProperties, SizeType DEF Lesser
  <1>3. /\ r.tail \in Slots /\ r.cur \in 0..Size /\ (r.cur < Size => r.tail = r.cur)
        /\ r.untracked \in Nat /\ r.ring \in [Slots -> Descs \cup {NoConn}]
        /\ \A p \in Slots : IF p < r.cur THEN r.ring[p] \in Descs ELSE r.ring[p] = NoConn
    BY DEF RegOk
  <1>4. /\ a.ring = ring /\ a.tail = Wrap(r.tail + n)
        /\ a.cur = Lesser(r.cur + n, Size)
        /\ a.untracked = r.untracked + (Len(all) - n) + out
        /\ a = [ring |-> a.ring, tail |-> a.tail, cur |-> a.cur,
                untracked |-> a.untracked, malicious |-> a.malicious,
                numBlocked |-> a.numBlocked, maxBytes |-> a.maxBytes,
                appBytes |-> a.appBytes]
    BY DEF Added
  <1> HIDE DEF conns2, n, a, in
  <1> DEFINE tail == r.tail
             cur  == r.cur
             tail2 == Wrap(tail + n)
             cur2  == Lesser(cur + n, Size)
             pos(i)  == Wrap((IF cur < Size THEN 0 ELSE tail) + i - 1)
             pos2(i) == Wrap((IF cur2 < Size THEN 0 ELSE tail2) + i - 1)
             at(p) == Wrap(p - tail + Size)
  <1>5. out = n - Lesser(Size - cur, n)
    BY DEF OutItems
  <1>6. /\ tail2 \in Slots /\ cur2 \in 0..Size /\ (cur2 < Size => tail2 = cur2)
        /\ out \in 0..cur /\ cur2 = cur - out + n
        /\ \A i \in 1..(cur - out) : at(pos2(i)) >= n /\ pos2(i) = pos(i + out)
        /\ \A i \in (cur - out + 1)..cur2 : at(pos2(i)) < n /\ at(pos2(i)) + 1 = i + out - cur
        /\ \A p \in Slots : p < cur2 <=> p < cur \/ at(p) < n
    <2>1. /\ tail \in Slots /\ cur \in 0..Size /\ (cur < Size => tail = cur)
          /\ n \in 0..Size
      BY <1>2, <1>3
    <2> HIDE DEF tail, cur
    <2> DEFINE gone == n - Lesser(Size - cur, n)
    <2>2. /\ tail2 \in Slots /\ cur2 \in 0..Size /\ (cur2 < Size => tail2 = cur2)
          /\ gone \in 0..cur /\ cur2 = cur - gone + n
          /\ \A i \in 1..(cur - gone) : at(pos2(i)) >= n /\ pos2(i) = pos(i + gone)
          /\ \A i \in (cur - gone + 1)..cur2 : at(pos2(i)) < n /\ at(pos2(i)) + 1 = i + gone - cur
          /\ \A p \in Slots : p < cur2 <=> p < cur \/ at(p) < n
      BY <2>1, AddedPositions
    <2>3. out = gone
      BY <1>5 DEF cur
    <2> HIDE DEF gone, out, tail2, cur2, pos, pos2, at
    <2> QED
      BY <2>2, <2>3
  <1>7. \A p \in Slots : (p \in in <=> at(p) < n) /\ Nth(r, p) = at(p) + 1
    BY DEF Filled, Nth, in
  <1>8. \A i \in 1..cur2 : GetConn(a, i) = ring[pos2(i)]
    BY <1>4 DEF GetConn, FirstPos
  <1>9. \A i \in 1..cur : GetConn(r, i) = r.ring[pos(i)]
    BY DEF GetConn, FirstPos
  <1>10. a.tail = tail2 /\ a.cur = cur2
    BY <1>4
  <1>11. \A p \in Slots : at(p) \in 0..(Size - 1)
    BY <1>3, SizeType DEF Wrap
  <1>12. \A i \in 1..cur2 : pos2(i) \in Slots
    BY <1>6, SizeType DEF Wrap
  <1> HIDE DEF tail, cur, tail2, cur2, pos, pos2, at, out
  <1>13. n \in Nat /\ cur \in Nat /\ out \in Nat /\ cur2 \in Nat
    BY <1>2, <1>3, <1>6, SizeType DEF cur
  <1>14. \A i \in 1..(cur - out) : GetConn(a, i) = GetConn(r, i + out)
    <2> SUFFICES ASSUME NEW i \in 1..(cur - out) PROVE GetConn(a, i) = GetConn(r, i + out)
      OBVIOUS
    <2>1. i \in 1..cur2 /\ i + out \in 1..cur
      BY <1>6, <1>13
    <2>2. pos2(i) \in Slots /\ ~(at(pos2(i)) < n)
      BY <1>6, <1>11, <1>12, <1>13, <2>1, SizeType
    <2>3. ring[pos2(i)] = r.ring[pos2(i)]
      BY <1>7, <2>2
    <2>4. pos2(i) = pos(i + out)
      BY <1>6
    <2> QED
      BY <1>8, <1>9, <2>1, <2>3, <2>4
  <1>15. \A k \in 1..n : GetConn(a, cur - out + k) = Accounted(all[Len(all) - n + k])
    <2> SUFFICES ASSUME NEW k \in 1..n
                 PROVE  GetConn(a, cur - out + k) = Accounted(all[Len(all) - n + k])
      OBVIOUS
    <2> DEFINE i == cur - out + k
    <2>1. i \in 1..cur2 /\ i \in (cur - out + 1)..cur2 /\ i + out - cur = k
      BY <1>6, <1>13
    <2> HIDE DEF i
    <2>2. pos2(i) \in Slots /\ at(pos2(i)) < n /\ at(pos2(i)) + 1 = k
      BY <1>6, <1>12, <2>1
    <2>3. ring[pos2(i)] = Accounted(conns2[k])
      BY <1>7, <2>2
    <2>4. GetConn(a, i) = Accounted(conns2[k])
      BY <1>8, <2>1, <2>3
    <2> QED
      BY <1>1, <2>4 DEF i
  <1>16. \A p \in Slots : IF p < cur2 THEN ring[p] \in Descs ELSE ring[p] = NoConn
    <2> SUFFICES ASSUME NEW p \in Slots
                 PROVE  IF p < cur2 THEN ring[p] \in Descs ELSE ring[p] = NoConn
      OBVIOUS
    <2>1. CASE at(p) < n
      <3>1. at(p) + 1 \in 1..n
        BY <1>11, <1>13, <2>1, SizeType, SMTT(40)
      <3>2. ring[p] = Accounted(conns2[at(p) + 1])
        BY <1>7, <2>1
      <3>3. ring[p] \in Descs
        BY <1>1, <3>1, <3>2, AccountedType
      <3> QED
        BY <1>6, <2>1, <3>3
    <2>2. CASE ~(at(p) < n)
      <3>1. ring[p] = r.ring[p]
        BY <1>7, <2>2
      <3> QED
        BY <1>3, <1>6, <2>2, <3>1 DEF cur
    <2> QED
      BY <2>1, <2>2
  <1>17. RegOk(a)
    <2>1. ring \in [Slots -> Descs \cup {NoConn}]
      <3>1. \A p \in Slots : ring[p] \in Descs \cup {NoConn}
        BY <1>16
      <3> QED
        BY <3>1
    <2> HIDE DEF ring
    <2>2. a.untracked \in Nat
      BY <1>2, <1>3, <1>4, <1>13
    <2>3. a \in [ring : [Slots -> Descs \cup {NoConn}], tail : Slots, cur : 0..Size,
                untracked : Nat, malicious : {a.malicious}, numBlocked : {a.numBlocked},
                maxBytes : {a.maxBytes}, appBytes : {a.appBytes}]
      BY <1>4, <1>6, <1>10, <2>1, <2>2
    <2> QED
      BY <1>4, <1>6, <1>10, <1>16, <2>3 DEF RegOk
  <1>18. out > 0 => a.cur = Size
    BY <1>2, <1>3, <1>5, <1>10, <1>13, SizeType DEF Lesser, cur2, cur
  <1>19. a.cur = cur - out + n
    BY <1>6, <1>10
  <1> QED
    BY <1>1, <1>2, <1>4, <1>6, <1>14, <1>15, <1>17, <1>18, <1>19 DEF a, out, cur

\* The slots that a batch of updates changes, and how: each of them is the slot of the
\* connection that an update is of.
LEMMA UpdateHits ==
  ASSUME NEW r, RegOk(r), Consecutive(r), NEW upds \in Seq(Descs),
         NEW i \in 1..r.cur, NEW k \in 1..Len(upds), InRange(r, upds[k].id)
  PROVE  Position(r, upds[k].id) = At(r, i) <=> upds[k].id = GetConn(r, i).id
  <1>1. upds[k].id \in Int
    <2>1. upds[k] \in Descs
      BY ElementOfSeq
    <2> QED
      BY <2>1 DEF Descs, Ids
  <1>2. PICK j \in 1..r.cur : GetConn(r, j).id = upds[k].id
    BY <1>1, InRangeIsAt
  <1>3. Position(r, upds[k].id) = At(r, j)
    BY <1>2, PositionIsAt
  <1>4. At(r, i) = At(r, j) => i = j
    BY AtIsSlot
  <1>5. GetConn(r, i).id = GetConn(r, j).id => i = j
    <2>1. i \in Int /\ j \in Int /\ 1 \in 1..r.cur
      BY DEF RegOk
    <2>2. FirstId(r) \in Int
      BY <2>1, AtIsSlot DEF FirstId, Descs, Ids
    <2>3. GetConn(r, i).id = FirstId(r) + i - 1 /\ GetConn(r, j).id = FirstId(r) + j - 1
      BY DEF Consecutive
    <2> QED
      BY <2>1, <2>2, <2>3
  <1> QED
    BY <1>2, <1>3, <1>4, <1>5

\* connectionsUpdates: a connection that an update is of takes it, and no other changes.
LEMMA UpdatedLists ==
  ASSUME NEW r, RegOk(r), Consecutive(r), NEW upds \in Seq(Descs)
  PROVE  LET u == Updated(r, upds)
         IN  /\ RegOk(u) /\ u.cur = r.cur /\ u.untracked = r.untracked
             /\ \A i \in 1..r.cur :
                    \/ /\ GetConn(u, i) = GetConn(r, i)
                       /\ \A k \in 1..Len(upds) : upds[k].id # GetConn(r, i).id
                    \/ \E k \in 1..Len(upds) :
                           /\ upds[k].id = GetConn(r, i).id
                           /\ GetConn(u, i) = Applied(GetConn(r, i), upds[k])
  <1> DEFINE u == Updated(r, upds)
             seen == {k \in DOMAIN upds : InRange(r, upds[k].id)}
             at(k) == Position(r, upds[k].id)
             hit == {at(k) : k \in seen}
             by(p) == CHOOSE k \in seen : at(k) = p
             ring == [p \in Slots |-> IF p \in hit THEN Applied(r.ring[p], upds[by(p)])
                                                   ELSE r.ring[p]]
  <1>1. /\ DOMAIN upds = 1..Len(upds) /\ \A k \in 1..Len(upds) : upds[k] \in Descs
    BY ElementOfSeq, LenProperties
  <1>2. /\ r.tail \in Slots /\ r.cur \in 0..Size /\ (r.cur < Size => r.tail = r.cur)
        /\ r.untracked \in Nat /\ r.ring \in [Slots -> Descs \cup {NoConn}]
        /\ \A p \in Slots : IF p < r.cur THEN r.ring[p] \in Descs ELSE r.ring[p] = NoConn
    BY DEF RegOk
  <1>3. \A p \in hit : by(p) \in seen /\ at(by(p)) = p
    OBVIOUS
  <1>4. ASSUME NEW k \in seen PROVE \E i \in 1..r.cur : at(k) = At(r, i)
    <2>1. k \in 1..Len(upds) /\ InRange(r, upds[k].id) /\ upds[k].id \in Int
      BY <1>1 DEF Descs, Ids
    <2>2. PICK i \in 1..r.cur : GetConn(r, i).id = upds[k].id
      BY <2>1, InRangeIsAt
    <2>3. at(k) = At(r, i)
      BY <2>2, PositionIsAt
    <2> QED
      BY <2>3
  <1>5. \A p \in hit : p \in Slots /\ p < r.cur
    BY <1>4, AtIsSlot
  <1> DEFINE m == r.malicious + MaliciousDelta(hit, r.ring, ring)
             b == r.numBlocked + BlockedDelta(hit, r.ring, ring)
             x == AtLeast({upds[k].bytes : k \in seen}, r.maxBytes)
             y == r.appBytes + BytesDelta(hit, r.ring, ring)
             v == [r EXCEPT !.ring = ring, !.malicious = m, !.numBlocked = b,
                            !.maxBytes = x, !.appBytes = y]
  <1>6. u = v
    BY DEF Updated
  <1>7. \A p \in Slots : ring[p] = IF p \in hit THEN Applied(r.ring[p], upds[by(p)])
                                             ELSE r.ring[p]
    OBVIOUS
  <1>8. ring = [p \in Slots |-> ring[p]]
    OBVIOUS
  <1> HIDE DEF seen, at, hit, by, ring, m, b, x, y, u
  <1>9. ASSUME NEW p \in Slots
        PROVE  IF p < r.cur THEN ring[p] \in Descs ELSE ring[p] = NoConn
    <2>1. CASE p \in hit
      <3>1. by(p) \in 1..Len(upds) /\ p < r.cur
        BY <1>1, <1>3, <1>5, <2>1 DEF seen
      <3>2. Applied(r.ring[p], upds[by(p)]) \in Descs
        BY <1>1, <1>2, <3>1, AppliedType
      <3> QED
        BY <1>7, <2>1, <3>1, <3>2
    <2>2. CASE p \notin hit
      BY <1>2, <1>7, <2>2
    <2> QED
      BY <2>1, <2>2
  <1>10. ring \in [Slots -> Descs \cup {NoConn}]
    <2>1. \A p \in Slots : ring[p] \in Descs \cup {NoConn}
      BY <1>9
    <2> QED
      BY <1>8, <2>1
  <1>11. /\ v \in [ring : [Slots -> Descs \cup {NoConn}], tail : Slots, cur : 0..Size,
                  untracked : Nat, malicious : {v.malicious}, numBlocked : {v.numBlocked},
                  maxBytes : {v.maxBytes}, appBytes : {v.appBytes}]
         /\ v.ring = ring /\ v.cur = r.cur /\ v.tail = r.tail /\ v.untracked = r.untracked
    BY <1>10 DEF RegOk
  <1> HIDE DEF v
  <1>12. RegOk(u)
    BY <1>2, <1>6, <1>9, <1>11 DEF RegOk
  <1>13. \A i \in 1..r.cur : GetConn(u, i) = ring[At(r, i)]
    BY <1>6, <1>11 DEF GetConn, At, FirstPos
  <1>14. ASSUME NEW i \in 1..r.cur
         PROVE  \/ /\ GetConn(u, i) = GetConn(r, i)
                   /\ \A k \in 1..Len(upds) : upds[k].id # GetConn(r, i).id
                \/ \E k \in 1..Len(upds) :
                       /\ upds[k].id = GetConn(r, i).id
                       /\ GetConn(u, i) = Applied(GetConn(r, i), upds[k])
    <2>1. At(r, i) \in Slots /\ GetConn(r, i) = r.ring[At(r, i)]
      BY AtIsSlot
    <2>2. CASE At(r, i) \in hit
      <3> DEFINE k == by(At(r, i))
      <3>1. k \in 1..Len(upds) /\ InRange(r, upds[k].id) /\ Position(r, upds[k].id) = At(r, i)
        BY <1>1, <1>3, <2>2 DEF seen, at
      <3>2. upds[k].id = GetConn(r, i).id
        BY <3>1, UpdateHits
      <3>3. GetConn(u, i) = Applied(GetConn(r, i), upds[k])
        BY <1>7, <1>13, <2>1, <2>2
      <3> QED
        BY <3>1, <3>2, <3>3
    <2>3. CASE At(r, i) \notin hit
      <3>1. GetConn(u, i) = GetConn(r, i)
        BY <1>7, <1>13, <2>1, <2>3
      <3>2. ASSUME NEW k \in 1..Len(upds), upds[k].id = GetConn(r, i).id PROVE FALSE
        <4>1. InRange(r, upds[k].id) /\ Position(r, upds[k].id) = At(r, i)
          BY <3>2, PositionIsAt
        <4>2. k \in seen /\ at(k) = At(r, i)
          BY <1>1, <4>1 DEF seen, at
        <4> QED
          BY <2>3, <4>2 DEF hit
      <3> QED
        BY <3>1, <3>2
    <2> QED
      BY <2>2, <2>3
  <1> QED
    BY <1>6, <1>11, <1>12, <1>14 DEF u

\* A batch of connections with the numbers from n on, which are the next after those
\* of the register, leaves the register consecutive.
LEMMA AddedConsecutive ==
  ASSUME NEW r, RegOk(r), Consecutive(r), NEW n0 \in Nat,
         r.cur > 0 => FirstId(r) + r.cur = n0,
         NEW all \in Seq(Descs), \A j \in 1..Len(all) : all[j].id = n0 + j - 1
  PROVE  LET a == Added(r, all)
         IN  /\ Consecutive(a)
             /\ a.cur > 0 => FirstId(a) + a.cur = n0 + Len(all)
             /\ a.cur = 0 => r.cur = 0 /\ Len(all) = 0
             /\ r.cur > 0 => /\ a.cur > 0
                             /\ FirstId(a) = FirstId(r) + (a.untracked - r.untracked)
             /\ a.untracked >= r.untracked
  <1> DEFINE a == Added(r, all)
             n == Lesser(Len(all), Size)
             out == OutItems(r, n)
             len == Len(all)
  <1>1. /\ RegOk(a) /\ out \in 0..r.cur /\ n \in 0..len
        /\ a.cur = r.cur - out + n
        /\ n < len => n = Size
        /\ a.untracked = r.untracked + (len - n) + out
        /\ \A i \in 1..(r.cur - out) : GetConn(a, i) = GetConn(r, i + out)
        /\ \A k \in 1..n : GetConn(a, r.cur - out + k) = Accounted(all[len - n + k])
    BY AddedLists
  <1>2. /\ len \in Nat /\ r.cur \in 0..Size /\ a.cur \in 0..Size
        /\ \A j \in 1..len : all[j] \in Descs
    BY <1>1, LenProperties, ElementOfSeq DEF RegOk
  <1>3. n = Lesser(len, Size) /\ out = n - Lesser(Size - r.cur, n)
    BY DEF OutItems
  <1>4. \A j \in 1..len : all[j].id = n0 + j - 1
    OBVIOUS
  <1>5. \A i \in 1..r.cur : GetConn(r, i).id = FirstId(r) + i - 1
    BY DEF Consecutive
  <1>6. r.cur > 0 => FirstId(r) \in Int
    <2> SUFFICES ASSUME r.cur > 0 PROVE FirstId(r) \in Int
      OBVIOUS
    <2>1. 1 \in 1..r.cur
      BY <1>2, SizeType
    <2> QED
      BY <2>1, AtIsSlot DEF FirstId, Descs, Ids
  <1> HIDE DEF a, n, out, len
  <1>7. \A k \in 1..n : GetConn(a, r.cur - out + k).id = n0 + (len - n + k) - 1
    <2> SUFFICES ASSUME NEW k \in 1..n
                 PROVE  GetConn(a, r.cur - out + k).id = n0 + (len - n + k) - 1
      OBVIOUS
    <2>1. len - n + k \in 1..len
      BY <1>1, <1>2
    <2>2. Accounted(all[len - n + k]).id = all[len - n + k].id
      BY <1>2, <2>1, AccountedType
    <2> QED
      BY <1>1, <1>4, <2>1, <2>2
  \* The numbers, under names of their own
  <1>8. PICK rc \in Int, ac \in Int : rc = r.cur /\ ac = a.cur
    BY <1>2, SizeType
  <1>9. /\ len \in Nat /\ n \in Nat /\ out \in Nat /\ rc \in Nat /\ ac \in Nat
        /\ n <= len /\ out <= rc /\ ac = rc - out + n
        /\ (n < len => out = rc) /\ out <= n /\ (n = 0 => len = 0)
    <2>1. /\ len \in Nat /\ n \in 0..len /\ rc \in 0..Size /\ out \in 0..rc
          /\ ac \in 0..Size /\ ac = rc - out + n
          /\ n = Lesser(len, Size) /\ out = n - Lesser(Size - rc, n)
      BY <1>1, <1>2, <1>3, <1>8
    <2> QED
      BY <2>1, SizeType DEF Lesser
  <1>10. ASSUME NEW i \in 1..ac PROVE GetConn(a, i).id = n0 + len - ac + i - 1
    <2>1. CASE i \in 1..(rc - out)
      <3>1. i + out \in 1..rc /\ rc > 0 /\ n = len /\ i \in Int
        BY <1>9, <2>1
      <3>2. GetConn(a, i) = GetConn(r, i + out)
        BY <1>1, <1>8, <2>1
      <3>3. GetConn(r, i + out).id = FirstId(r) + (i + out) - 1
        BY <1>5, <1>8, <3>1
      <3>4. FirstId(r) \in Int /\ FirstId(r) + rc = n0
        BY <1>6, <1>8, <3>1
      <3>5. PICK f \in Int : f = FirstId(r)
        BY <3>4
      <3>6. f + (i + out) - 1 = n0 + len - ac + i - 1
        BY <1>9, <3>1, <3>4, <3>5
      <3> QED
        BY <3>2, <3>3, <3>5, <3>6
    <2>2. CASE i \notin 1..(rc - out)
      <3>1. PICK k \in Int : k = i - (rc - out)
        BY <1>9
      <3>2. /\ k \in 1..n /\ rc - out + k = i
            /\ n0 + (len - n + k) - 1 = n0 + len - ac + i - 1
        BY <1>9, <2>2, <3>1
      <3> QED
        BY <1>7, <1>8, <3>2
    <2> QED
      BY <2>1, <2>2
  <1>11. ac > 0 => FirstId(a) = n0 + len - ac
    <2> SUFFICES ASSUME ac > 0 PROVE FirstId(a) = n0 + len - ac
      OBVIOUS
    <2>1. 1 \in 1..ac /\ n0 + len - ac + 1 - 1 = n0 + len - ac
      BY <1>9
    <2> QED
      BY <1>10, <2>1 DEF FirstId
  <1>12. Consecutive(a)
    <2> SUFFICES ASSUME NEW i \in 1..ac PROVE GetConn(a, i).id = FirstId(a) + i - 1
      BY <1>8 DEF Consecutive
    <2>1. ac > 0
      BY <1>9
    <2> QED
      BY <1>10, <1>11, <2>1
  <1>13. ac > 0 => FirstId(a) + ac = n0 + len
    BY <1>9, <1>11
  <1>14. ac = 0 => rc = 0 /\ len = 0
    BY <1>9
  <1>15. rc > 0 => ac > 0 /\ FirstId(a) = FirstId(r) + (len - n + out)
    <2> SUFFICES ASSUME rc > 0 PROVE ac > 0 /\ FirstId(a) = FirstId(r) + (len - n + out)
      OBVIOUS
    <2>1. ac > 0
      BY <1>9
    <2>2. FirstId(r) \in Int /\ FirstId(r) + rc = n0
      BY <1>6, <1>8
    <2>3. PICK f \in Int : f = FirstId(r)
      BY <2>2
    <2>4. f + rc = n0 /\ ac = rc - out + n
      BY <1>9, <2>2, <2>3
    <2>5. n0 + len - ac = f + (len - n + out)
      BY <1>9, <2>4
    <2> QED
      BY <1>11, <2>1, <2>3, <2>5
  <1>16. a.untracked >= r.untracked /\ a.untracked - r.untracked = len - n + out
    <2>1. r.untracked \in Nat
      BY DEF RegOk
    <2>2. PICK x \in Nat : x = r.untracked
      BY <2>1
    <2>3. a.untracked = x + (len - n) + out
      BY <1>1, <2>2
    <2>4. x + (len - n) + out >= x /\ (x + (len - n) + out) - x = len - n + out
      BY <1>9, <2>2, SMTT(40)
    <2> QED
      BY <2>2, <2>3, <2>4
  <1> QED
    BY <1>8, <1>12, <1>13, <1>14, <1>15, <1>16 DEF a, len

\* Updates leave the numbers as they are.
LEMMA UpdatedConsecutive ==
  ASSUME NEW r, RegOk(r), Consecutive(r), NEW upds \in Seq(Descs)
  PROVE  LET u == Updated(r, upds)
         IN  /\ Consecutive(u)
             /\ \A i \in 1..r.cur : GetConn(u, i).id = GetConn(r, i).id
             /\ r.cur > 0 => FirstId(u) = FirstId(r)
  <1> DEFINE u == Updated(r, upds)
  <1>1. /\ RegOk(u) /\ u.cur = r.cur
        /\ \A i \in 1..r.cur :
               \/ GetConn(u, i) = GetConn(r, i)
               \/ \E k \in 1..Len(upds) : GetConn(u, i) = Applied(GetConn(r, i), upds[k])
    BY UpdatedLists
  <1>2. \A i \in 1..r.cur : GetConn(r, i) \in Descs
    BY AtIsSlot
  <1>3. \A k \in 1..Len(upds) : upds[k] \in Descs
    BY ElementOfSeq
  <1> HIDE DEF u
  <1>4. \A i \in 1..r.cur : GetConn(u, i).id = GetConn(r, i).id
    BY <1>1, <1>2, <1>3, AppliedType
  <1>5. r.cur \in Nat
    BY SizeType DEF RegOk
  <1>6. r.cur > 0 => FirstId(u) = FirstId(r)
    <2>1. r.cur > 0 => 1 \in 1..r.cur
      BY <1>5
    <2> QED
      BY <1>4, <2>1 DEF FirstId
  <1>7. \A i \in 1..r.cur : r.cur > 0
    BY <1>5
  <1>8. Consecutive(u)
    BY <1>1, <1>4, <1>6, <1>7 DEF Consecutive
  <1> QED
    BY <1>4, <1>6, <1>8 DEF u
-----------------------------------------------------------------------------
(***************************************************************************)
(* What the register makes of an item of the queue.                        *)
(***************************************************************************)
ItemType       == [new : Seq(Descs), upd : Seq(Descs), last : BOOLEAN]
Empty(item)    == item.new = <<>> /\ item.upd = <<>>
Mentions(item) == RangeOf(item.new) \cup RangeOf(item.upd)

\* The connections before the item are those below a, with it those below b.
Linked(item, a, b) ==
    /\ b = a + Len(item.new)
    /\ \A j \in 1..Len(item.new) : item.new[j].id = a + j - 1
    /\ \A d \in Mentions(item) : d.id < b

\* The connections of register and queue have numbers without a gap: those of the
\* register are below next[0], those of the i-th item from next[i - 1] to next[i] - 1.
Chained(q, r, emptied, next) ==
    /\ r.cur > 0 => FirstId(r) + r.cur = next[0]
    /\ r.cur = 0 => emptied \/ next[0] = 0
    /\ \A i \in 1..Len(q) : Linked(q[i], next[i - 1], next[i])

LEMMA MentionsType ==
  ASSUME NEW item \in ItemType
  PROVE  /\ Mentions(item) \subseteq Descs
         /\ \A k \in 1..Len(item.new) : item.new[k] \in Mentions(item)
         /\ \A k \in 1..Len(item.upd) : item.upd[k] \in Mentions(item)
         /\ item.new \in Seq(Descs) /\ item.upd \in Seq(Descs)
         /\ \A d \in Mentions(item) :
                \/ \E k \in 1..Len(item.new) : d = item.new[k]
                \/ \E k \in 1..Len(item.upd) : d = item.upd[k]
  <1>1. item.new \in Seq(Descs) /\ item.upd \in Seq(Descs)
    BY DEF ItemType
  <1>2. /\ DOMAIN item.new = 1..Len(item.new) /\ DOMAIN item.upd = 1..Len(item.upd)
    BY <1>1, LenProperties
  <1>3. /\ \A k \in 1..Len(item.new) : item.new[k] \in Descs
        /\ \A k \in 1..Len(item.upd) : item.upd[k] \in Descs
    BY <1>1, ElementOfSeq
  <1> QED
    BY <1>1, <1>2, <1>3 DEF Mentions, RangeOf

LEMMA EmptyItem ==
  ASSUME NEW item, Empty(item)
  PROVE  Mentions(item) = {} /\ \A a \in Int : Linked(item, a, a)
  <1>1. Mentions(item) = {}
    BY EmptyArray DEF Empty, Mentions
  <1>2. Len(<<>>) = 0 /\ 1..0 = {}
    OBVIOUS
  <1> QED
    BY <1>1, <1>2 DEF Empty, Linked

\* An item as connUpdateWork hands it to the register
Taken(r, item) == Updated(Added(r, item.new), item.upd)

LEMMA TakenConsecutive ==
  ASSUME NEW r, RegOk(r), Consecutive(r), NEW n0 \in Nat, NEW n1 \in Nat,
         r.cur > 0 => FirstId(r) + r.cur = n0,
         NEW item \in ItemType, Linked(item, n0, n1)
  PROVE  LET u == Taken(r, item)
         IN  /\ RegOk(u) /\ Consecutive(u)
             /\ u.cur > 0 => FirstId(u) + u.cur = n1
             /\ u.cur = 0 => r.cur = 0 /\ n1 = n0
             /\ r.cur > 0 => /\ u.cur > 0
                             /\ FirstId(u) = FirstId(r) + (u.untracked - r.untracked)
             /\ u.untracked >= r.untracked
  <1> DEFINE a == Added(r, item.new)
             u == Updated(a, item.upd)
  <1>1. item.new \in Seq(Descs) /\ item.upd \in Seq(Descs) /\ Len(item.new) \in Nat
    BY MentionsType, LenProperties
  <1>2. \A j \in 1..Len(item.new) : item.new[j].id = n0 + j - 1
    BY DEF Linked
  <1>3. /\ Consecutive(a)
        /\ a.cur > 0 => FirstId(a) + a.cur = n0 + Len(item.new)
        /\ a.cur = 0 => r.cur = 0 /\ Len(item.new) = 0
        /\ r.cur > 0 => a.cur > 0 /\ FirstId(a) = FirstId(r) + (a.untracked - r.untracked)
        /\ a.untracked >= r.untracked
    BY <1>1, <1>2, AddedConsecutive
  <1>4. RegOk(a)
    BY <1>1, AddedLists
  <1> HIDE DEF a
  <1>5. /\ Consecutive(u) /\ (a.cur > 0 => FirstId(u) = FirstId(a))
    BY <1>1, <1>3, <1>4, UpdatedConsecutive
  <1>6. RegOk(u) /\ u.cur = a.cur /\ u.untracked = a.untracked
    BY <1>1, <1>3, <1>4, UpdatedLists
  <1>7. Taken(r, item) = u
    BY DEF Taken, a
  <1>8. n1 = n0 + Len(item.new)
    BY DEF Linked
  <1> HIDE DEF u
  <1>9. a.cur \in Nat
    BY <1>4, SizeType DEF RegOk
  <1>10. u.cur = 0 => r.cur = 0 /\ n1 = n0
    BY <1>1, <1>3, <1>6, <1>8
  <1>11. u.cur > 0 => FirstId(u) + u.cur = n1
    BY <1>3, <1>5, <1>6, <1>8
  <1>12. r.cur > 0 => u.cur > 0 /\ FirstId(u) = FirstId(r) + (u.untracked - r.untracked)
    BY <1>3, <1>5, <1>6
  <1> QED
    BY <1>3, <1>5, <1>6, <1>7, <1>10, <1>11, <1>12

\* Two connections of a register have different numbers.
LEMMA NumbersDiffer ==
  ASSUME NEW r, RegOk(r), Consecutive(r), NEW i \in 1..r.cur, NEW j \in 1..r.cur,
         GetConn(r, i).id = GetConn(r, j).id
  PROVE  i = j
  <1>1. i \in Int /\ j \in Int /\ 1 \in 1..r.cur
    BY SizeType DEF RegOk
  <1>2. FirstId(r) \in Int
    BY <1>1, AtIsSlot DEF FirstId, Descs, Ids
  <1>3. FirstId(r) + i - 1 = FirstId(r) + j - 1
    BY DEF Consecutive
  <1> QED
    BY <1>1, <1>2, <1>3

\* What a connection of the register is told by: the item, or what was there before.
LEMMA TakenOrigin ==
  ASSUME NEW r, RegOk(r), Consecutive(r), NEW n0 \in Nat, NEW n1 \in Nat,
         r.cur > 0 => FirstId(r) + r.cur = n0,
         NEW item \in ItemType, Linked(item, n0, n1),
         NEW i \in 1..Taken(r, item).cur
  PROVE  LET g == GetConn(Taken(r, item), i)
         IN  \/ \E d \in Mentions(item) : d.id = g.id /\ g = Accounted(d)
             \/ /\ \E j \in 1..r.cur : g = GetConn(r, j)
                /\ \A d \in Mentions(item) : d.id # g.id
  <1> DEFINE a == Added(r, item.new)
             u == Updated(a, item.upd)
             g == GetConn(u, i)
             len == Len(item.new)
             n == Lesser(len, Size)
             out == OutItems(r, n)
  <1>1. /\ item.new \in Seq(Descs) /\ item.upd \in Seq(Descs) /\ Len(item.new) \in Nat
        /\ Mentions(item) \subseteq Descs
        /\ \A k \in 1..Len(item.new) : item.new[k] \in Mentions(item)
        /\ \A k \in 1..Len(item.upd) : item.upd[k] \in Mentions(item)
        /\ \A d \in Mentions(item) :
                \/ \E k \in 1..Len(item.new) : d = item.new[k]
                \/ \E k \in 1..Len(item.upd) : d = item.upd[k]
    BY MentionsType, LenProperties
  <1>2. \A j \in 1..Len(item.new) : item.new[j].id = n0 + j - 1
    BY DEF Linked
  <1>3. Consecutive(a)
    BY <1>1, <1>2, AddedConsecutive
  <1>4. /\ RegOk(a) /\ out \in 0..r.cur /\ n \in 0..len
        /\ a.cur = r.cur - out + n
        /\ \A p \in 1..(r.cur - out) : GetConn(a, p) = GetConn(r, p + out)
        /\ \A k \in 1..n : GetConn(a, r.cur - out + k) = Accounted(item.new[len - n + k])
    BY <1>1, AddedLists
  <1>5. Taken(r, item) = u
    BY DEF Taken
  <1> HIDE DEF a
  <1>6. /\ u.cur = a.cur
        /\ \A p \in 1..a.cur :
               \/ /\ GetConn(u, p) = GetConn(a, p)
                  /\ \A k \in 1..Len(item.upd) : item.upd[k].id # GetConn(a, p).id
               \/ \E k \in 1..Len(item.upd) :
                      /\ item.upd[k].id = GetConn(a, p).id
                      /\ GetConn(u, p) = Applied(GetConn(a, p), item.upd[k])
    BY <1>1, <1>3, <1>4, UpdatedLists
  <1>7. i \in 1..a.cur /\ GetConn(a, i) \in Descs
    BY <1>4, <1>5, <1>6, AtIsSlot
  <1> HIDE DEF u, len, n, out
  <1>8. CASE \E k \in 1..Len(item.upd) :
                      /\ item.upd[k].id = GetConn(a, i).id
                      /\ GetConn(u, i) = Applied(GetConn(a, i), item.upd[k])
    <2>1. PICK k \in 1..Len(item.upd) :
                      /\ item.upd[k].id = GetConn(a, i).id
                      /\ GetConn(u, i) = Applied(GetConn(a, i), item.upd[k])
      BY <1>8
    <2>2. item.upd[k] \in Mentions(item) /\ item.upd[k] \in Descs
      BY <1>1
    <2>3. g = Accounted(item.upd[k])
      BY <1>7, <2>1, <2>2, AppliedType
    <2>4. g.id = item.upd[k].id
      BY <2>2, <2>3, AccountedType
    <2> QED
      BY <1>5, <2>2, <2>3, <2>4
  <1>9. CASE /\ GetConn(u, i) = GetConn(a, i)
             /\ \A k \in 1..Len(item.upd) : item.upd[k].id # GetConn(a, i).id
    <2>4. r.cur \in Int /\ len \in Int
      BY <1>1, SizeType DEF len, RegOk
    <2>5. out \in Int /\ n \in Int /\ i \in Int
      BY <1>4, <1>7, <2>4
    <2>0. PICK rc \in Int, o \in Int, m \in Int, l \in Int, x \in Int :
              rc = r.cur /\ o = out /\ m = n /\ l = len /\ x = i
      BY <2>4, <2>5
    <2>1. /\ x \in 1..(rc - o + m) /\ m \in 0..l /\ o \in 0..rc
      BY <1>4, <1>7, <2>0
    <2>2. CASE x \in 1..(rc - o)
      <3>1. x + o \in 1..rc /\ 1 \in 1..rc /\ rc > 0
        BY <2>1, <2>2
      <3>2. g = GetConn(r, x + o) /\ g.id = FirstId(r) + (x + o) - 1
            /\ FirstId(r) \in Int /\ FirstId(r) + rc = n0
        <4>1. g = GetConn(r, x + o)
          BY <1>4, <1>9, <2>0, <2>2
        <4>2. FirstId(r) \in Int
          BY <2>0, <3>1, AtIsSlot DEF FirstId, Descs, Ids
        <4> QED
          BY <2>0, <3>1, <4>1, <4>2 DEF Consecutive
      <3>3. g.id < n0
        BY <3>1, <3>2
      <3>4. \A k \in 1..Len(item.new) : item.new[k].id # g.id
        <4> SUFFICES ASSUME NEW k \in 1..Len(item.new) PROVE item.new[k].id # g.id
          OBVIOUS
        <4>1. item.new[k].id = n0 + k - 1 /\ k \in Int /\ k >= 1 /\ g.id \in Int
          BY <1>2, <3>1, <3>2
        <4> QED
          BY <3>3, <4>1
      <3>5. \A d \in Mentions(item) : d.id # g.id
        BY <1>1, <1>9, <3>4
      <3> QED
        BY <1>5, <2>0, <3>1, <3>2, <3>5
    <2>3. CASE x \notin 1..(rc - o)
      <3>1. PICK k \in Int : k = x - (rc - o)
        BY <2>1
      <3>2. k \in 1..m /\ rc - o + k = x /\ l - m + k \in 1..l
        BY <2>1, <2>3, <3>1
      <3>3. g = Accounted(item.new[l - m + k])
        BY <1>4, <1>9, <2>0, <3>2
      <3>4. item.new[l - m + k] \in Mentions(item) /\ item.new[l - m + k] \in Descs
        BY <1>1, <2>0, <3>2 DEF len
      <3>5. g.id = item.new[l - m + k].id
        BY <3>3, <3>4, AccountedType
      <3> QED
        BY <1>5, <3>3, <3>4, <3>5
    <2> QED
      BY <2>2, <2>3
  <1> QED
    BY <1>6, <1>7, <1>8, <1>9

\* A number that has come, and has not left, is that of a connection of the register.
LEMMA FoundOrDropped ==
  ASSUME NEW r, RegOk(r), Consecutive(r), r.cur > 0, NEW n1 \in Nat,
         FirstId(r) + r.cur = n1, NEW c \in Int, c < n1, ~(c < FirstId(r))
  PROVE  \E i \in 1..r.cur : GetConn(r, i).id = c
  <1>1. r.cur \in Nat /\ 1 \in 1..r.cur
    BY SizeType DEF RegOk
  <1>2. FirstId(r) \in Int
    BY <1>1, AtIsSlot DEF FirstId, Descs, Ids
  <1>3. PICK f \in Int, rc \in Nat : f = FirstId(r) /\ rc = r.cur
    BY <1>1, <1>2
  <1>4. f + rc = n1 /\ ~(c < f)
    BY <1>3
  <1>5. c - f + 1 \in 1..rc /\ f + (c - f + 1) - 1 = c
    BY <1>3, <1>4
  <1> QED
    BY <1>3, <1>5 DEF Consecutive

\* What the register shows, or has dropped, after an item: what the item says last of a
\* connection that it is of, and what it showed before of another.
LEMMA TakenShows ==
  ASSUME NEW r, RegOk(r), Consecutive(r), NEW n0 \in Nat, NEW n1 \in Nat,
         r.cur > 0 => FirstId(r) + r.cur = n0,
         NEW item \in ItemType, Linked(item, n0, n1),
         NEW c \in Int, c < n1
  PROVE  LET u == Taken(r, item)
         IN  \/ u.cur = 0
             \/ c < FirstId(u)
             \/ \E i \in 1..u.cur, d \in Mentions(item) :
                    d.id = c /\ GetConn(u, i) = Accounted(d)
             \/ /\ \A d \in Mentions(item) : d.id # c
                /\ \E i \in 1..u.cur, j \in 1..r.cur :
                       GetConn(r, j).id = c /\ GetConn(u, i) = GetConn(r, j)
  <1> DEFINE u == Taken(r, item)
  <1>1. /\ RegOk(u) /\ Consecutive(u)
        /\ u.cur > 0 => FirstId(u) + u.cur = n1
    BY TakenConsecutive
  <1>2. u.cur \in Nat
    BY <1>1, SizeType DEF RegOk
  <1>3. ASSUME u.cur > 0, ~(c < FirstId(u))
        PROVE \E i \in 1..u.cur : GetConn(u, i).id = c
    BY <1>1, <1>3, FoundOrDropped
  <1>4. ASSUME NEW i \in 1..u.cur
        PROVE  \/ \E d \in Mentions(item) : d.id = GetConn(u, i).id /\ GetConn(u, i) = Accounted(d)
               \/ /\ \E j \in 1..r.cur : GetConn(u, i) = GetConn(r, j)
                  /\ \A d \in Mentions(item) : d.id # GetConn(u, i).id
    BY <1>4, TakenOrigin
  <1> HIDE DEF u
  <1>5. u.cur > 0 \/ u.cur = 0
    BY <1>2
  <1>6. \/ u.cur = 0
        \/ c < FirstId(u)
        \/ \E i \in 1..u.cur, d \in Mentions(item) : d.id = c /\ GetConn(u, i) = Accounted(d)
        \/ /\ \A d \in Mentions(item) : d.id # c
           /\ \E i \in 1..u.cur, j \in 1..r.cur :
                  GetConn(r, j).id = c /\ GetConn(u, i) = GetConn(r, j)
    <2> SUFFICES ASSUME u.cur > 0, ~(c < FirstId(u))
                 PROVE  \/ \E i \in 1..u.cur, d \in Mentions(item) :
                               d.id = c /\ GetConn(u, i) = Accounted(d)
                        \/ /\ \A d \in Mentions(item) : d.id # c
                           /\ \E i \in 1..u.cur, j \in 1..r.cur :
                                  GetConn(r, j).id = c /\ GetConn(u, i) = GetConn(r, j)
      BY <1>5
    <2>1. PICK i \in 1..u.cur : GetConn(u, i).id = c
      BY <1>3
    <2> QED
      BY <1>4, <2>1
  <1> QED
    BY <1>6 DEF u
-----------------------------------------------------------------------------
(***************************************************************************)
(* What is on its way from the engine to the register.                     *)
(***************************************************************************)
\* Desc(c), of the connections in cs
DescIn(cs, c) ==
    [id |-> c, bytes |-> cs[c].bytes, bad |-> cs[c].bad, blocked |-> cs[c].blocked,
     closed |-> cs[c].status # "open", alerted |-> FALSE, accounted |-> FALSE]

\* The numbers from next on are those of the connections in news, up to n.
Coming(news, next, n) ==
    /\ next + Len(news) = n
    /\ \A j \in 1..Len(news) : news[j] = next + j - 1

Mentioned(q, c) == \E i \in 1..Len(q) : \E d \in Mentions(q[i]) : d.id = c

Numbered ==
    \E next \in [Nat -> Nat] :
        /\ Chained(mPendingUpdates, reg, cleaned, next)
        /\ ~mQueueFull =>
               /\ Coming(new_conns, next[Len(mPendingUpdates)], new_conn_id)
               /\ \A c \in Opened : c < next[0] \/ c \in Listed \/ Mentioned(mPendingUpdates, c)

\* A termination item is queued after the last dump, and the worker ends with it.
TermInv ==
    /\ \A i \in 1..Len(mPendingUpdates) :
           mPendingUpdates[i].last =>
               \A j \in i..Len(mPendingUpdates) : Empty(mPendingUpdates[j])
    /\ capture = "loop" => /\ worker # "done"
                           /\ \A i \in 1..Len(mPendingUpdates) : ~mPendingUpdates[i].last
    /\ worker = "done" => \A i \in 1..Len(mPendingUpdates) : Empty(mPendingUpdates[i])
    /\ capture = "done" => worker = "done"
    /\ capture # "loop" => Listed = {}

\* Register and queue are about connections that were opened, and what is to be purged
\* is closed.
KnownInv ==
    /\ \A i \in 1..Len(mPendingUpdates) :
           \A d \in Mentions(mPendingUpdates[i]) : d.id \in Opened
    /\ \A i \in 1..reg.cur : GetConn(reg, i).id \in Opened
    /\ \A c \in Ids : conns[c].to_purge => conns[c].status # "open"

FlowInv ==
    /\ EngineInv
    /\ RegOk(reg) /\ Consecutive(reg)
    /\ mPendingUpdates \in Seq(ItemType)
    /\ Numbered /\ TermInv /\ KnownInv

\* Queues
LEMMA QueueAppend ==
  ASSUME NEW q \in Seq(ItemType), NEW item \in ItemType
  PROVE  /\ Append(q, item) \in Seq(ItemType) /\ Len(q) \in Nat
         /\ Len(Append(q, item)) = Len(q) + 1
         /\ \A i \in 1..Len(q) : Append(q, item)[i] = q[i] /\ i \in 1..(Len(q) + 1)
         /\ Append(q, item)[Len(q) + 1] = item
         /\ 1..(Len(q) + 1) = 1..Len(q) \cup {Len(q) + 1}
  <1>1. /\ Append(q, item) \in Seq(ItemType) /\ Len(q) \in Nat
        /\ Len(Append(q, item)) = Len(q) + 1
        /\ \A i \in 1..Len(q) : Append(q, item)[i] = q[i]
        /\ Append(q, item)[Len(q) + 1] = item
    BY AppendProperties, LenProperties
  <1>2. /\ \A i \in 1..Len(q) : i \in 1..(Len(q) + 1)
        /\ 1..(Len(q) + 1) = 1..Len(q) \cup {Len(q) + 1}
    BY <1>1
  <1> QED
    BY <1>1, <1>2

LEMMA QueueTail ==
  ASSUME NEW q \in Seq(ItemType), q # <<>>
  PROVE  /\ Tail(q) \in Seq(ItemType) /\ Head(q) = q[1] /\ Head(q) \in ItemType
         /\ Len(q) \in Nat /\ Len(q) >= 1 /\ Len(Tail(q)) = Len(q) - 1
         /\ \A i \in 1..Len(Tail(q)) : Tail(q)[i] = q[i + 1] /\ i + 1 \in 1..Len(q)
         /\ 1 \in 1..Len(q)
         /\ \A i \in 1..Len(q) : i = 1 \/ (i - 1 \in 1..Len(Tail(q)) /\ Tail(q)[i - 1] = q[i])
  <1>1. Len(q) \in Nat /\ Len(q) >= 1
    BY LenProperties, EmptySeq
  <1>2. /\ Tail(q) \in Seq(ItemType) /\ Head(q) = q[1] /\ Head(q) \in ItemType
        /\ Len(Tail(q)) = Len(q) - 1
        /\ \A i \in 1..Len(Tail(q)) : Tail(q)[i] = q[i + 1]
    BY HeadTailProperties
  <1>3. /\ \A i \in 1..(Len(q) - 1) : i + 1 \in 1..Len(q)
        /\ 1 \in 1..Len(q)
        /\ \A i \in 1..Len(q) : i = 1 \/ (i - 1 \in 1..(Len(q) - 1) /\ (i - 1) + 1 = i)
    BY <1>1
  <1> QED
    BY <1>1, <1>2, <1>3

\* The same with the length of the queue counted from its tail
LEMMA QueueRest ==
  ASSUME NEW q \in Seq(ItemType), q # <<>>
  PROVE  /\ Len(Tail(q)) \in Nat /\ Len(q) = Len(Tail(q)) + 1
         /\ \A i \in 1..Len(Tail(q)) : Tail(q)[i] = q[i + 1] /\ i + 1 \in 1..Len(q)
         /\ \A i \in 1..Len(q) : i = 1 \/ (i - 1 \in 1..Len(Tail(q)) /\ Tail(q)[i - 1] = q[i])
  <1>1. /\ Len(q) \in Nat /\ Len(q) >= 1 /\ Len(Tail(q)) = Len(q) - 1
        /\ \A i \in 1..Len(Tail(q)) : Tail(q)[i] = q[i + 1] /\ i + 1 \in 1..Len(q)
        /\ \A i \in 1..Len(q) : i = 1 \/ (i - 1 \in 1..Len(Tail(q)) /\ Tail(q)[i - 1] = q[i])
    BY QueueTail
  <1>2. Len(q) - 1 \in Nat /\ Len(q) = (Len(q) - 1) + 1
    BY <1>1
  <1> QED
    BY <1>1, <1>2

\* The numbers when an item is queued, and when one is taken
Extended(q, next, b) == [i \in Nat |-> IF i <= Len(q) THEN next[i] ELSE b]
Shifted(next)        == [i \in Nat |-> next[i + 1]]

LEMMA ChainAppend ==
  ASSUME NEW q \in Seq(ItemType), NEW r, NEW e, NEW next \in [Nat -> Nat],
         Chained(q, r, e, next), NEW item \in ItemType, NEW b \in Nat,
         Linked(item, next[Len(q)], b)
  PROVE  /\ Extended(q, next, b) \in [Nat -> Nat]
         /\ Chained(Append(q, item), r, e, Extended(q, next, b))
  <1> DEFINE next2 == Extended(q, next, b)
  <1>1. /\ Append(q, item) \in Seq(ItemType) /\ Len(q) \in Nat
        /\ Len(Append(q, item)) = Len(q) + 1
        /\ \A i \in 1..Len(q) : Append(q, item)[i] = q[i]
        /\ Append(q, item)[Len(q) + 1] = item
        /\ 1..(Len(q) + 1) = 1..Len(q) \cup {Len(q) + 1}
    BY QueueAppend, ZenonT(40)
  <1>2. next2 \in [Nat -> Nat]
    BY DEF Extended
  <1>3. /\ \A i \in 0..Len(q) : next2[i] = next[i]
        /\ next2[Len(q) + 1] = b
    BY <1>1 DEF Extended
  <1>4. /\ 0 \in 0..Len(q) /\ Len(q) \in 0..Len(q) /\ (Len(q) + 1) - 1 = Len(q)
        /\ \A i \in 1..Len(q) : i \in 0..Len(q) /\ i - 1 \in 0..Len(q)
    BY <1>1
  <1> HIDE DEF next2
  <1>5. \A i \in 1..Len(q) : Linked(Append(q, item)[i], next2[i - 1], next2[i])
    BY <1>1, <1>3, <1>4 DEF Chained
  <1>6. Linked(Append(q, item)[Len(q) + 1], next2[(Len(q) + 1) - 1], next2[Len(q) + 1])
    BY <1>1, <1>3, <1>4
  <1>7. Chained(Append(q, item), r, e, next2)
    BY <1>1, <1>3, <1>4, <1>5, <1>6 DEF Chained
  <1> QED
    BY <1>2, <1>7 DEF next2

LEMMA ChainTail ==
  ASSUME NEW q \in Seq(ItemType), q # <<>>, NEW r, NEW e, NEW next \in [Nat -> Nat],
         Chained(q, r, e, next), NEW r2,
         r2.cur > 0 => FirstId(r2) + r2.cur = next[1],
         r2.cur = 0 => e \/ next[1] = 0
  PROVE  /\ Shifted(next) \in [Nat -> Nat]
         /\ Chained(Tail(q), r2, e, Shifted(next))
  <1> DEFINE next2 == Shifted(next)
  <1>1. /\ Len(q) \in Nat /\ Len(q) >= 1 /\ Len(Tail(q)) = Len(q) - 1
        /\ \A i \in 1..Len(Tail(q)) : Tail(q)[i] = q[i + 1] /\ i + 1 \in 1..Len(q)
    BY QueueTail
  <1>2. next2 \in [Nat -> Nat] /\ next2[0] = next[1]
    BY DEF Shifted
  <1>3. \A i \in Nat : next2[i] = next[i + 1]
    BY DEF Shifted
  <1> HIDE DEF next2
  <1>4. /\ Len(Tail(q)) \in Nat /\ Len(Tail(q)) + 1 = Len(q)
        /\ \A i \in 1..Len(Tail(q)) : i \in Nat /\ i - 1 \in Nat /\ (i - 1) + 1 = (i + 1) - 1
    BY <1>1
  <1>5. \A i \in 1..Len(Tail(q)) : Linked(Tail(q)[i], next2[i - 1], next2[i])
    BY <1>1, <1>3, <1>4 DEF Chained
  <1>7. Chained(Tail(q), r2, e, next2)
    BY <1>2, <1>5 DEF Chained
  <1> QED
    BY <1>2, <1>7 DEF next2
-----------------------------------------------------------------------------
(***************************************************************************)
(* The steps, as far as they are about that way.                           *)
(***************************************************************************)
\* The record of c changes, and c is listed.
Changes(c) ==
    /\ capture = "loop" /\ capture' = "loop"
    /\ UNCHANGED <<mPendingUpdates, mQueueFull, worker, reg, cleaned>>
    /\ c \in Ids /\ Listed' = Listed \cup {c}
    /\ \A e \in Ids \ {c} : conns'[e] = conns[e]
    /\ conns'[c].to_purge => conns'[c].status # "open"
    /\ \/ /\ c \in Opened /\ UNCHANGED <<new_conn_id, new_conns>>
          /\ conns[c].status = "open" /\ conns'[c].bytes >= conns[c].bytes
       \/ c = new_conn_id /\ new_conn_id' = c + 1 /\ new_conns' = Append(new_conns, c)

\* All that is listed is told of in the item, as it is then.
Dumps(item) ==
    /\ capture = "loop" /\ capture' \in {"loop", "signal"}
    /\ UNCHANGED <<new_conn_id, worker, reg, cleaned>>
    /\ new_conns' = <<>> /\ Listed' = {}
    /\ UpdateConnections(item)
    /\ item \in ItemType /\ ~item.last
    /\ Len(item.new) = Len(new_conns)
    /\ \A j \in 1..Len(new_conns) : item.new[j].id = new_conns[j]
    /\ \A d \in Mentions(item) : d.id \in Opened /\ d = DescIn(conns', d.id)
    /\ \A c \in Listed : \E d \in Mentions(item) : d.id = c
    /\ \A c \in Ids :
           /\ conns'[c].to_purge => conns'[c].status # "open"
           /\ conns'[c].bytes = conns[c].bytes
           /\ conns[c].status # "open" => conns'[c].status # "open"
           /\ \/ \E d \in Mentions(item) : d.id = c
              \/ DescIn(conns', c) = DescIn(conns, c)

\* An item of nothing is offered to the queue.
Offers(item) ==
    /\ UNCHANGED <<engineVars, mQueueFull, worker, reg, cleaned>>
    /\ capture' = "loop" <=> capture = "loop"
    /\ capture' = "done" => capture = "done"
    /\ item \in ItemType /\ Empty(item)
    /\ capture = "loop" => ~item.last
    /\ \/ mPendingUpdates' = Append(mPendingUpdates, item)
       \/ UNCHANGED mPendingUpdates

Rests ==
    /\ UNCHANGED <<engineVars, mPendingUpdates, mQueueFull, worker, reg, cleaned>>
    /\ \/ UNCHANGED capture
       \/ capture # "loop" /\ capture' = "done" /\ worker = "done"

LEMMA ListedPending ==
  ASSUME EngineInv
  PROVE  Listed = {c \in Ids : conns[c].pending} /\ Opened \subseteq Ids
  <1>1. Listed \subseteq Ids
    BY DEF EngineInv, EngineType, Listed, RangeOf
  <1>2. MaxConns \in Nat /\ new_conn_id \in 0..MaxConns
    BY PipelineAssumption DEF PipelineAssumption, EngineInv, EngineType
  <1>3. Opened \subseteq Ids
    BY <1>2 DEF Opened, Ids
  <1> QED
    BY <1>1, <1>3 DEF EngineInv

LEMMA OpenChanges ==
  ASSUME FlowInv, EngineInv', OpenConn
  PROVE  Changes(new_conn_id)
  <1> DEFINE c == new_conn_id
  <1>1. PICK v \in Verdicts, n \in {0, 1}, status \in {"open", "closed"} :
            /\ running /\ capture = "loop" /\ new_conn_id < MaxConns
            /\ conns' = [conns EXCEPT ![new_conn_id] =
                            [status |-> status, bytes |-> n, bad |-> v.bad,
                             blocked |-> v.blocked, pending |-> TRUE,
                             to_purge |-> status = "closed"]]
            /\ new_conns' = Append(new_conns, new_conn_id)
            /\ new_conn_id' = new_conn_id + 1
            /\ UNCHANGED <<conns_updates, running, capture, serviceVars, workerVars>>
    BY ZenonT(40) DEF OpenConn
  <1>2. /\ conns \in [Ids -> Data] /\ new_conns \in Seq(Ids) /\ c \in Ids
    BY <1>1, PipelineAssumption DEF FlowInv, EngineInv, EngineType, PipelineAssumption, Ids
  <1>3. /\ \A e \in Ids \ {c} : conns'[e] = conns[e]
        /\ conns'[c].to_purge = (status = "closed") /\ conns'[c].status = status
    BY <1>1, <1>2
  <1>4. RangeOf(new_conns') = RangeOf(new_conns) \cup {c} /\ conns_updates' = conns_updates
    BY <1>1, <1>2, AppendEntry
  <1>5. Listed' = Listed \cup {c}
    BY <1>4 DEF Listed
  <1>6. UNCHANGED <<mPendingUpdates, mQueueFull, worker, reg, cleaned>>
    BY <1>1 DEF serviceVars, workerVars
  <1> QED
    BY <1>1, <1>2, <1>3, <1>5, <1>6 DEF Changes

LEMMA ActiveChanges ==
  ASSUME FlowInv, EngineInv', NEW c \in Ids, Traffic(c) \/ CloseConn(c) \/ Recheck(c)
  PROVE  Changes(c)
  <1>1. conns \in [Ids -> Data] /\ conns[c] \in Data /\ EngineInv
    BY DEF FlowInv, EngineInv, EngineType
  <1>2. Active(c) /\ UNCHANGED <<new_conn_id, new_conns, running, capture, serviceVars, workerVars>>
    BY DEF Traffic, CloseConn, Recheck
  <1>3. /\ c \in Opened /\ conns[c].status = "open" /\ ~conns[c].to_purge
        /\ capture = "loop" /\ capture' = "loop"
    BY <1>1, <1>2 DEF Active, FlowInv, KnownInv, Data
  <1>4. conns[c].bytes \in Nat
    BY <1>1 DEF Data
  <1>5. /\ \A e \in Ids \ {c} : conns'[e] = conns[e]
        /\ conns'[c].to_purge => conns'[c].status # "open"
        /\ conns'[c].bytes >= conns[c].bytes
        /\ conns'[c].pending
    <2>1. CASE Traffic(c)
      <3>1. PICK v \in Verdicts, n \in {0, 1} :
                conns' = [conns EXCEPT ![c].bytes = @ + n, ![c].bad = v.bad,
                                       ![c].blocked = v.blocked, ![c].pending = TRUE]
        BY <2>1 DEF Traffic
      <3>2. PICK m \in Nat : m = conns[c].bytes + n /\ m >= conns[c].bytes
        BY <1>4
      <3> DEFINE d == [conns[c] EXCEPT !.bytes = m, !.bad = v.bad,
                                       !.blocked = v.blocked, !.pending = TRUE]
      <3>3. conns' = [conns EXCEPT ![c] = d]
        BY <3>1, <3>2
      <3>4. d.bytes = m /\ d.to_purge = conns[c].to_purge /\ d.pending = TRUE
        BY <1>1 DEF Data
      <3> HIDE DEF d
      <3>5. conns'[c] = d /\ \A e \in Ids \ {c} : conns'[e] = conns[e]
        BY <1>1, <3>3
      <3> QED
        BY <1>3, <3>2, <3>4, <3>5
    <2>2. CASE CloseConn(c)
      <3> DEFINE d == [conns[c] EXCEPT !.status = "closed", !.to_purge = TRUE,
                                       !.pending = TRUE]
      <3>1. conns' = [conns EXCEPT ![c] = d]
        BY <2>2 DEF CloseConn
      <3>2. d.bytes = conns[c].bytes /\ d.status = "closed" /\ d.pending = TRUE
        BY <1>1 DEF Data
      <3> HIDE DEF d
      <3>3. conns'[c] = d /\ \A e \in Ids \ {c} : conns'[e] = conns[e]
        BY <1>1, <3>1
      <3> QED
        BY <1>4, <3>2, <3>3
    <2>3. CASE Recheck(c)
      <3>1. PICK v \in Verdicts :
                conns' = [conns EXCEPT ![c].bad = v.bad, ![c].blocked = v.blocked,
                                       ![c].pending = TRUE]
        BY <2>3 DEF Recheck
      <3> DEFINE d == [conns[c] EXCEPT !.bad = v.bad, !.blocked = v.blocked,
                                       !.pending = TRUE]
      <3>2. conns' = [conns EXCEPT ![c] = d]
        BY <3>1
      <3>3. d.bytes = conns[c].bytes /\ d.to_purge = conns[c].to_purge /\ d.pending = TRUE
        BY <1>1 DEF Data
      <3> HIDE DEF d
      <3>4. conns'[c] = d /\ \A e \in Ids \ {c} : conns'[e] = conns[e]
        BY <1>1, <3>2
      <3> QED
        BY <1>3, <1>4, <3>3, <3>4
    <2> QED
      BY <2>1, <2>2, <2>3
  <1>6. Listed' = Listed \cup {c}
    <2>1. Listed = {e \in Ids : conns[e].pending}
      BY <1>1, ListedPending
    <2>2. Listed' \subseteq Ids /\ \A e \in Ids : conns'[e].pending <=> e \in Listed'
      BY DEF EngineInv, EngineType, Listed, RangeOf
    <2> QED
      BY <1>5, <2>1, <2>2
  <1>7. UNCHANGED <<mPendingUpdates, mQueueFull, worker, reg, cleaned, new_conn_id, new_conns>>
    BY <1>2 DEF serviceVars, workerVars
  <1> QED
    BY <1>3, <1>5, <1>6, <1>7 DEF Changes

LEMMA OthersRest ==
  ASSUME Stop \/ StopService \/ OnDestroy \/ Join \/ UNCHANGED vars
  PROVE  Rests
  BY DEF Stop, StopService, OnDestroy, Join, Rests, engineVars, serviceVars, workerVars, vars

LEMMA SignalsOffer ==
  ASSUME Signal \/ JoinInterrupted \/ RequestBlacklistsUpdate
  PROVE  \E item : Offers(item)
  <1>1. <<>> \in Seq(Descs)
    BY EmptyArray
  <1>2. /\ Termination \in ItemType /\ Empty(Termination)
        /\ Item(<<>>, <<>>) \in ItemType /\ Empty(Item(<<>>, <<>>))
        /\ ~Item(<<>>, <<>>).last
    BY <1>1 DEF Termination, Item, ItemType, Empty
  <1>3. CASE Signal \/ JoinInterrupted
    <2>1. Offers(Termination)
      BY <1>2, <1>3 DEF Signal, JoinInterrupted, OfferTermination, Offered, Offers,
                        workerVars
    <2> QED
      BY <2>1
  <1>4. CASE RequestBlacklistsUpdate
    <2>1. Offers(Item(<<>>, <<>>))
      <3>1. UNCHANGED <<engineVars, mQueueFull, worker, reg, cleaned, capture>>
        BY <1>4 DEF RequestBlacklistsUpdate, workerVars
      <3>2. \/ mPendingUpdates' = Append(mPendingUpdates, Item(<<>>, <<>>))
            \/ UNCHANGED mPendingUpdates
        BY <1>4 DEF RequestBlacklistsUpdate, Offered
      <3> QED
        BY <1>2, <3>1, <3>2 DEF Offers
    <2> QED
      BY <2>1
  <1> QED
    BY <1>3, <1>4

\* The entries of an array of the engine, as the register is told of them
LEMMA DescribedArray ==
  ASSUME NEW s \in Seq(Ids), NEW g \in [Ids -> Descs], NEW t \in [DOMAIN s -> Descs],
         \A i \in DOMAIN s : t[i] = g[s[i]]
  PROVE  /\ t \in Seq(Descs) /\ Len(t) = Len(s)
         /\ \A i \in 1..Len(s) : t[i] = g[s[i]]
         /\ \A d : d \in RangeOf(t) <=> \E c \in RangeOf(s) : d = g[c]
  <1>1. Len(s) \in Nat /\ DOMAIN s = 1..Len(s) /\ \A i \in 1..Len(s) : s[i] \in Ids
    BY LenProperties, ElementOfSeq
  <1>2. t \in [1..Len(s) -> Descs]
    BY <1>1
  <1>3. t \in Seq(Descs) /\ Len(t) = Len(s) /\ DOMAIN t = 1..Len(s)
    BY <1>1, <1>2
  <1>4. \A i \in 1..Len(s) : t[i] = g[s[i]]
    BY <1>1
  <1>5. \A d : d \in RangeOf(t) <=> \E c \in RangeOf(s) : d = g[c]
    BY <1>1, <1>3, <1>4 DEF RangeOf
  <1> QED
    BY <1>3, <1>4, <1>5

\* conns_clear changes the end and the pending flag of a record only.
LEMMA ClearedKeepsData ==
  ASSUME EngineInv, NEW S, NEW free_all \in BOOLEAN, S \subseteq Ids,
         conns' = Cleared(S, free_all, S), NEW c \in Ids
  PROVE  /\ conns'[c].bytes = conns[c].bytes /\ conns'[c].bad = conns[c].bad
         /\ conns'[c].blocked = conns[c].blocked /\ conns'[c].to_purge = conns[c].to_purge
         /\ conns'[c].status = IF c \in S /\ (conns[c].to_purge \/ free_all) THEN "freed"
                               ELSE conns[c].status
  <1>1. conns[c] \in Data
    BY DEF EngineInv, EngineType
  <1>2. ASSUME NEW d \in Data
        PROVE  LET x == [d EXCEPT !.pending = FALSE]
                   y == [d EXCEPT !.status = "freed", !.pending = FALSE]
               IN  /\ x.bytes = d.bytes /\ x.bad = d.bad /\ x.blocked = d.blocked
                   /\ x.to_purge = d.to_purge /\ x.status = d.status
                   /\ y.bytes = d.bytes /\ y.bad = d.bad /\ y.blocked = d.blocked
                   /\ y.to_purge = d.to_purge /\ y.status = "freed"
    BY DEF Data
  <1>3. /\ c \in S /\ (conns[c].to_purge \/ free_all) =>
               conns'[c] = [conns[c] EXCEPT !.status = "freed", !.pending = FALSE]
        /\ c \in S /\ ~(conns[c].to_purge \/ free_all) =>
               conns'[c] = [conns[c] EXCEPT !.pending = FALSE]
        /\ c \notin S => conns'[c] = conns[c]
    BY DEF Cleared
  <1> QED
    BY <1>1, <1>2, <1>3

LEMMA DescInType ==
  ASSUME NEW cs \in [Ids -> Data]
  PROVE  /\ [c \in Ids |-> DescIn(cs, c)] \in [Ids -> Descs]
         /\ \A c \in Ids : DescIn(cs, c) \in Descs /\ DescIn(cs, c).id = c
  <1>1. ASSUME NEW c \in Ids PROVE DescIn(cs, c) \in Descs /\ DescIn(cs, c).id = c
    <2>1. cs[c].bytes \in Nat /\ cs[c].bad \in BOOLEAN /\ cs[c].blocked \in BOOLEAN
      BY DEF Data
    <2>2. (cs[c].status # "open") \in BOOLEAN
      OBVIOUS
    <2>3. [id |-> c, bytes |-> cs[c].bytes, bad |-> cs[c].bad, blocked |-> cs[c].blocked,
           closed |-> cs[c].status # "open", alerted |-> FALSE, accounted |-> FALSE] \in Descs
      BY <2>1, <2>2 DEF Descs
    <2> QED
      BY <2>3 DEF DescIn
  <1> QED
    BY <1>1

LEMMA DumpDumps ==
  ASSUME FlowInv, EngineInv', Dump
  PROVE  \E item : Dumps(item)
  <1> DEFINE g == [c \in Ids |-> DescIn(conns', c)]
             tn == [i \in DOMAIN new_conns |-> Desc(new_conns[i])]
             tu == [i \in DOMAIN conns_updates |-> Desc(conns_updates[i])]
             item == Item(tn, tu)
  <1>1. /\ EngineInv /\ new_conns \in Seq(Ids) /\ conns_updates \in Seq(Ids)
        /\ Listed \subseteq Opened /\ Opened \subseteq Ids /\ conns' \in [Ids -> Data]
    <2>1. EngineInv /\ Listed \subseteq Ids /\ Opened \subseteq Ids
      BY ListedPending DEF FlowInv
    <2>2. \A c \in Listed : c \in Opened
      BY <2>1 DEF EngineInv
    <2> QED
      BY <2>1, <2>2 DEF EngineInv, EngineType
  <1>2. /\ UpdateConnections(item) /\ capture = "loop" /\ capture' = "loop"
        /\ conns' = Cleared(Listed, FALSE, Listed)
        /\ new_conns' = <<>> /\ conns_updates' = <<>>
        /\ UNCHANGED <<new_conn_id, worker, reg, cleaned>>
    BY DEF Dump, Sent, workerVars
  <1>3. ASSUME NEW c \in Ids
        PROVE  /\ conns'[c].bytes = conns[c].bytes /\ conns'[c].bad = conns[c].bad
               /\ conns'[c].blocked = conns[c].blocked
               /\ conns'[c].to_purge = conns[c].to_purge
               /\ conns'[c].status = IF c \in Listed /\ conns[c].to_purge THEN "freed"
                                     ELSE conns[c].status
    <2>1. Listed \subseteq Ids
      BY <1>1
    <2>2. /\ conns'[c].bytes = conns[c].bytes /\ conns'[c].bad = conns[c].bad
          /\ conns'[c].blocked = conns[c].blocked
          /\ conns'[c].to_purge = conns[c].to_purge
          /\ conns'[c].status = IF c \in Listed /\ (conns[c].to_purge \/ FALSE) THEN "freed"
                                ELSE conns[c].status
      BY <1>1, <1>2, <1>3, <2>1, ClearedKeepsData, ZenonT(40)
    <2> QED
      BY <2>2
  <1>4. \A c \in Ids : conns[c].to_purge => conns[c].status # "open"
    BY DEF FlowInv, KnownInv
  <1>5. \A c \in Ids : (conns'[c].status # "open") = (conns[c].status # "open")
    BY <1>3, <1>4
  <1>6. \A c \in Ids : DescIn(conns', c) = Desc(c) /\ DescIn(conns', c) = DescIn(conns, c)
    BY <1>3, <1>5 DEF DescIn, Desc
  <1>7. g \in [Ids -> Descs] /\ \A c \in Ids : g[c].id = c /\ g[c] = DescIn(conns', c)
    BY <1>1, DescInType
  <1>8. /\ \A i \in DOMAIN new_conns : new_conns[i] \in Ids
        /\ \A i \in DOMAIN conns_updates : conns_updates[i] \in Ids
    BY <1>1, ElementOfSeq, LenProperties
  <1>9. /\ tn \in [DOMAIN new_conns -> Descs]
        /\ tu \in [DOMAIN conns_updates -> Descs]
        /\ \A i \in DOMAIN new_conns : tn[i] = g[new_conns[i]]
        /\ \A i \in DOMAIN conns_updates : tu[i] = g[conns_updates[i]]
    BY <1>6, <1>7, <1>8
  <1> HIDE DEF g, tn, tu
  <1>10. /\ item \in ItemType /\ ~item.last /\ Len(item.new) = Len(new_conns)
         /\ \A j \in 1..Len(new_conns) : item.new[j].id = new_conns[j]
         /\ \A d : d \in Mentions(item) <=> \E c \in Listed : d = g[c]
    <2>1. /\ tn \in Seq(Descs) /\ Len(tn) = Len(new_conns)
          /\ \A i \in 1..Len(new_conns) : tn[i] = g[new_conns[i]]
          /\ \A d : d \in RangeOf(tn) <=> \E c \in RangeOf(new_conns) : d = g[c]
      BY <1>1, <1>7, <1>9, DescribedArray, ZenonT(40)
    <2>2. /\ tu \in Seq(Descs)
          /\ \A d : d \in RangeOf(tu) <=> \E c \in RangeOf(conns_updates) : d = g[c]
      BY <1>1, <1>7, <1>9, DescribedArray, ZenonT(40)
    <2>3. item.new = tn /\ item.upd = tu /\ item.last = FALSE
      BY DEF Item
    <2>4. item \in ItemType
      BY <2>1, <2>2 DEF Item, ItemType
    <2> HIDE DEF item
    <2>5. \A j \in 1..Len(new_conns) : new_conns[j] \in Ids
      BY <1>1, ElementOfSeq
    <2>6. Mentions(item) = RangeOf(tn) \cup RangeOf(tu)
      BY <2>3 DEF Mentions
    <2>7. \A d : d \in Mentions(item) <=> \E c \in Listed : d = g[c]
      BY <2>1, <2>2, <2>6 DEF Listed
    <2> QED
      BY <1>7, <2>1, <2>3, <2>4, <2>5, <2>7
  <1>11. Listed' = {}
    BY <1>2, EmptyArray DEF Listed
  <1> HIDE DEF item
  <1>12. \A d \in Mentions(item) : d.id \in Opened /\ d = DescIn(conns', d.id)
    BY <1>1, <1>7, <1>10
  <1>13. \A c \in Listed : \E d \in Mentions(item) : d.id = c
    BY <1>1, <1>7, <1>10
  <1>14. Dumps(item)
    BY <1>2, <1>3, <1>4, <1>5, <1>6, <1>10, <1>11, <1>12, <1>13 DEF Dumps
  <1> QED
    BY <1>14

\* The connections that zdtun_finalize closes, in some order
LEMMA InOrderOf ==
  ASSUME NEW S \in SUBSET Ids, IsFiniteSet(S)
  PROVE  InOrder(S) \in Seq(Ids) /\ RangeOf(InOrder(S)) = S
  <1> DEFINE n == Cardinality(S)
  <1>1. n \in Nat /\ ExistsBijection(1..n, S)
    BY FS_CardinalityType
  <1>2. PICK f \in Bijection(1..n, S) : TRUE
    BY <1>1 DEF ExistsBijection
  <1>3. f \in [1..n -> S] /\ \A y \in S : \E x \in 1..n : f[x] = y
    BY <1>2 DEF Bijection, Surjection
  <1>4. RangeOf(f) = S
    <2>1. DOMAIN f = 1..n /\ \A i \in 1..n : f[i] \in S
      BY <1>3
    <2> QED
      BY <1>3, <2>1 DEF RangeOf
  <1>5. /\ InOrder(S) \in [1..n -> S] /\ RangeOf(InOrder(S)) = S
    BY <1>3, <1>4 DEF InOrder
  <1> HIDE DEF n
  <1>6. InOrder(S) \in Seq(S)
    BY <1>1, <1>5
  <1>7. Len(InOrder(S)) \in Nat /\ \A i \in 1..Len(InOrder(S)) : InOrder(S)[i] \in Ids
    BY <1>6, LenProperties, ElementOfSeq
  <1>8. InOrder(S) \in [1..n -> Ids]
    BY <1>5
  <1>9. InOrder(S) \in Seq(Ids)
    BY <1>1, <1>8
  <1> QED
    BY <1>5, <1>9

LEMMA ConcatEntries ==
  ASSUME NEW S, NEW s \in Seq(S), NEW t \in Seq(S)
  PROVE  s \o t \in Seq(S) /\ RangeOf(s \o t) = RangeOf(s) \cup RangeOf(t)
  <1> DEFINE u == s \o t
  <1>1. /\ Len(s) \in Nat /\ Len(t) \in Nat
        /\ DOMAIN s = 1..Len(s) /\ DOMAIN t = 1..Len(t)
        /\ u \in Seq(S) /\ Len(u) = Len(s) + Len(t) /\ DOMAIN u = 1..Len(u)
        /\ \A i \in 1..Len(u) : u[i] = IF i <= Len(s) THEN s[i] ELSE t[i - Len(s)]
    BY ConcatProperties, LenProperties
  <1> HIDE DEF u
  <1>2. ASSUME NEW i \in 1..Len(u) PROVE u[i] \in RangeOf(s) \cup RangeOf(t)
    <2>1. CASE i <= Len(s)
      BY <1>1, <2>1, SMTT(40) DEF RangeOf
    <2>2. CASE ~(i <= Len(s))
      <3>1. i - Len(s) \in 1..Len(t)
        BY <1>1, <2>2
      <3> QED
        BY <1>1, <2>2, <3>1 DEF RangeOf
    <2> QED
      BY <2>1, <2>2
  <1>3. ASSUME NEW i \in 1..Len(s) PROVE s[i] \in RangeOf(u)
    <2>1. i \in 1..Len(u) /\ i <= Len(s)
      BY <1>1
    <2> QED
      BY <1>1, <2>1 DEF RangeOf
  <1>4. ASSUME NEW i \in 1..Len(t) PROVE t[i] \in RangeOf(u)
    <2>1. i + Len(s) \in 1..Len(u) /\ ~(i + Len(s) <= Len(s)) /\ (i + Len(s)) - Len(s) = i
      BY <1>1
    <2> QED
      BY <1>1, <2>1 DEF RangeOf
  <1>5. RangeOf(u) = RangeOf(s) \cup RangeOf(t)
    BY <1>1, <1>2, <1>3, <1>4 DEF RangeOf
  <1> QED
    BY <1>1, <1>5 DEF u

LEMMA ClosedDesc ==
  ASSUME NEW d \in Descs, NEW e \in Descs, e.id = d.id, e.bytes = d.bytes,
         e.bad = d.bad, e.blocked = d.blocked, e.closed = TRUE,
         e.alerted = d.alerted, e.accounted = d.accounted
  PROVE  [d EXCEPT !.closed = TRUE] = e
  BY DEF Descs

LEMMA LoopEndsDumps ==
  ASSUME DumpMayFail = FALSE, FlowInv, EngineInv', LoopEnds
  PROVE  \E item : Dumps(item)
  <1> DEFINE g == [c \in Ids |-> DescIn(conns', c)]
             upd == conns_updates \o InOrder(Closings)
             all == Listed \cup Closings
             tn == [i \in DOMAIN new_conns |-> [Desc(new_conns[i]) EXCEPT !.closed = TRUE]]
             tu == [i \in DOMAIN upd |-> [Desc(upd[i]) EXCEPT !.closed = TRUE]]
             item == Item(tn, tu)
  <1>1. /\ EngineInv /\ new_conns \in Seq(Ids) /\ conns_updates \in Seq(Ids)
        /\ all \subseteq Opened /\ Opened \subseteq Ids
        /\ conns \in [Ids -> Data] /\ conns' \in [Ids -> Data]
    <2>1. EngineInv /\ Listed \subseteq Ids /\ Opened \subseteq Ids
      BY ListedPending DEF FlowInv
    <2>2. \A c \in Listed : c \in Opened
      BY <2>1 DEF EngineInv
    <2>3. Closings \subseteq Opened
      BY DEF Closings, StillOpen
    <2> QED
      BY <2>1, <2>2, <2>3 DEF EngineInv, EngineType
  <1>2. /\ UpdateConnections(item) /\ capture = "loop" /\ capture' = "signal"
        /\ conns' = Cleared(all, TRUE, all)
        /\ new_conns' = <<>> /\ conns_updates' = <<>>
        /\ UNCHANGED <<new_conn_id, worker, reg, cleaned>>
    BY DEF LoopEnds, workerVars
  <1>3. IsFiniteSet(Closings) /\ Closings \in SUBSET Ids
    <2>1. new_conn_id \in Int
      BY <1>1, PipelineAssumption DEF EngineInv, EngineType, PipelineAssumption
    <2>2. IsFiniteSet(Opened)
      BY <2>1, FS_Interval DEF Opened
    <2>3. Closings \subseteq Opened
      BY DEF Closings, StillOpen
    <2> QED
      BY <1>1, <2>2, <2>3, FS_Subset
  <1>4. InOrder(Closings) \in Seq(Ids) /\ RangeOf(InOrder(Closings)) = Closings
    BY <1>3, InOrderOf
  <1>5. upd \in Seq(Ids) /\ RangeOf(upd) = RangeOf(conns_updates) \cup Closings
    BY <1>1, <1>4, ConcatEntries
  <1>6. all = RangeOf(new_conns) \cup RangeOf(upd) /\ Listed \subseteq all
    BY <1>5 DEF Listed
  <1>7. \A c \in RangeOf(new_conns) \cup RangeOf(upd) : c \in all /\ c \in Ids
    BY <1>1, <1>6
  <1> HIDE DEF all, upd
  <1>8. ASSUME NEW c \in Ids
        PROVE  /\ conns'[c].bytes = conns[c].bytes /\ conns'[c].bad = conns[c].bad
               /\ conns'[c].blocked = conns[c].blocked
               /\ conns'[c].to_purge = conns[c].to_purge
               /\ conns'[c].status = IF c \in all THEN "freed" ELSE conns[c].status
    <2>1. all \subseteq Ids
      BY <1>1
    <2>2. /\ conns'[c].bytes = conns[c].bytes /\ conns'[c].bad = conns[c].bad
          /\ conns'[c].blocked = conns[c].blocked
          /\ conns'[c].to_purge = conns[c].to_purge
          /\ conns'[c].status = IF c \in all /\ (conns[c].to_purge \/ TRUE) THEN "freed"
                                ELSE conns[c].status
      BY <1>1, <1>2, <1>8, <2>1, ClearedKeepsData, ZenonT(40)
    <2> QED
      BY <2>2
  <1>9. \A c \in Ids : conns[c].to_purge => conns[c].status # "open"
    BY DEF FlowInv, KnownInv
  <1>10. \A c \in Ids : /\ conns'[c].to_purge => conns'[c].status # "open"
                        /\ conns[c].status # "open" => conns'[c].status # "open"
    BY <1>8, <1>9
  <1>11. /\ \A c \in all : DescIn(conns', c) = [Desc(c) EXCEPT !.closed = TRUE]
         /\ \A c \in Ids \ all : DescIn(conns', c) = DescIn(conns, c)
    <2>1. ASSUME NEW c \in all
          PROVE  DescIn(conns', c) = [Desc(c) EXCEPT !.closed = TRUE]
      <3>1. /\ conns'[c].bytes = conns[c].bytes /\ conns'[c].bad = conns[c].bad
            /\ conns'[c].blocked = conns[c].blocked
            /\ (conns'[c].status # "open") = TRUE
        BY <1>1, <1>8
      <3>2. Desc(c) = DescIn(conns, c)
        BY DEF Desc, DescIn
      <3>3. DescIn(conns, c) \in Descs /\ DescIn(conns', c) \in Descs
        BY <1>1, DescInType
      <3>4. /\ DescIn(conns', c).id = DescIn(conns, c).id
            /\ DescIn(conns', c).bytes = DescIn(conns, c).bytes
            /\ DescIn(conns', c).bad = DescIn(conns, c).bad
            /\ DescIn(conns', c).blocked = DescIn(conns, c).blocked
            /\ DescIn(conns', c).closed = TRUE
            /\ DescIn(conns', c).alerted = DescIn(conns, c).alerted
            /\ DescIn(conns', c).accounted = DescIn(conns, c).accounted
        BY <3>1, Zenon DEF DescIn
      <3> QED
        BY <3>2, <3>3, <3>4, ClosedDesc
    <2>2. ASSUME NEW c \in Ids \ all PROVE DescIn(conns', c) = DescIn(conns, c)
      BY <1>8 DEF DescIn
    <2> QED
      BY <2>1, <2>2
  <1>12. g \in [Ids -> Descs] /\ \A c \in Ids : g[c].id = c /\ g[c] = DescIn(conns', c)
    BY <1>1, DescInType
  <1>13. /\ \A i \in DOMAIN new_conns : new_conns[i] \in all /\ new_conns[i] \in Ids
         /\ \A i \in DOMAIN upd : upd[i] \in all /\ upd[i] \in Ids
    BY <1>7 DEF RangeOf
  <1>14. /\ \A i \in DOMAIN new_conns : tn[i] = g[new_conns[i]]
         /\ \A i \in DOMAIN upd : tu[i] = g[upd[i]]
    BY <1>11, <1>12, <1>13
  <1>15. /\ tn \in [DOMAIN new_conns -> Descs] /\ tu \in [DOMAIN upd -> Descs]
    <2>1. /\ \A i \in DOMAIN new_conns : tn[i] \in Descs
          /\ \A i \in DOMAIN upd : tu[i] \in Descs
      BY <1>12, <1>13, <1>14
    <2> QED
      BY <2>1
  <1> HIDE DEF g, tn, tu
  <1>16. /\ item \in ItemType /\ ~item.last /\ Len(item.new) = Len(new_conns)
         /\ \A j \in 1..Len(new_conns) : item.new[j].id = new_conns[j]
         /\ \A d : d \in Mentions(item) <=> \E c \in all : d = g[c]
    <2>1. /\ tn \in Seq(Descs) /\ Len(tn) = Len(new_conns)
          /\ \A i \in 1..Len(new_conns) : tn[i] = g[new_conns[i]]
          /\ \A d : d \in RangeOf(tn) <=> \E c \in RangeOf(new_conns) : d = g[c]
      BY <1>1, <1>12, <1>14, <1>15, DescribedArray, ZenonT(40)
    <2>2. /\ tu \in Seq(Descs)
          /\ \A d : d \in RangeOf(tu) <=> \E c \in RangeOf(upd) : d = g[c]
      BY <1>5, <1>12, <1>14, <1>15, DescribedArray
    <2>3. item.new = tn /\ item.upd = tu /\ item.last = FALSE
      BY DEF Item
    <2>4. item \in ItemType
      BY <2>1, <2>2 DEF Item, ItemType
    <2> HIDE DEF item
    <2>5. \A j \in 1..Len(new_conns) : new_conns[j] \in Ids
      BY <1>1, ElementOfSeq
    <2>6. Mentions(item) = RangeOf(tn) \cup RangeOf(tu)
      BY <2>3 DEF Mentions
    <2>7. \A d : d \in Mentions(item) <=> \E c \in all : d = g[c]
      BY <1>6, <2>1, <2>2, <2>6
    <2> QED
      BY <1>12, <2>1, <2>3, <2>4, <2>5, <2>7
  <1>17. Listed' = {}
    BY <1>2, EmptyArray DEF Listed
  <1> HIDE DEF item
  <1>18. \A d \in Mentions(item) : d.id \in Opened /\ d = DescIn(conns', d.id)
    BY <1>1, <1>12, <1>16
  <1>19. \A c \in all : \E d \in Mentions(item) : d.id = c
    BY <1>1, <1>12, <1>16
  <1>20. \A c \in Listed : \E d \in Mentions(item) : d.id = c
    BY <1>6, <1>19
  <1>21. \A c \in Ids : \/ \E d \in Mentions(item) : d.id = c
                        \/ DescIn(conns', c) = DescIn(conns, c)
    BY <1>11, <1>19
  <1>22. \A c \in Ids : conns'[c].bytes = conns[c].bytes
    BY <1>8
  <1>23. Dumps(item)
    BY <1>2, <1>10, <1>16, <1>17, <1>18, <1>20, <1>21, <1>22 DEF Dumps
  <1> QED
    BY <1>23
-----------------------------------------------------------------------------
(***************************************************************************)
(* What is on its way, step by step.                                       *)
(***************************************************************************)
-----------------------------------------------------------------------------
(***************************************************************************)
(* The invariant of that way is kept.                                      *)
(***************************************************************************)
LEMMA InitFlow ==
  ASSUME Init
  PROVE  FlowInv
  <1>1. EngineInv
    BY PipelineAssumption, InitInv
  <1>2. /\ mPendingUpdates = <<>> /\ new_conns = <<>> /\ new_conn_id = 0
        /\ reg = EmptyRegister /\ worker = "take" /\ capture = "loop"
        /\ conns = [c \in Ids |-> NoData]
    BY DEF Init
  <1>3. RegOk(reg) /\ Consecutive(reg) /\ reg.cur = 0
    BY <1>2, EmptyOk
  <1>4. Len(<<>>) = 0 /\ 1..0 = {} /\ <<>> \in Seq(ItemType) /\ 0..(0 - 1) = {}
    BY EmptyArray
  <1>5. Numbered
    <2> DEFINE next == [i \in Nat |-> 0]
    <2>1. next \in [Nat -> Nat] /\ next[0] = 0
      OBVIOUS
    <2>2. Chained(mPendingUpdates, reg, cleaned, next)
      BY <1>2, <1>3, <1>4, <2>1 DEF Chained
    <2>3. Coming(new_conns, next[Len(mPendingUpdates)], new_conn_id)
      BY <1>2, <1>4, <2>1 DEF Coming
    <2>4. Opened = {}
      BY <1>2, <1>4 DEF Opened
    <2> HIDE DEF next
    <2> QED
      BY <2>1, <2>2, <2>3, <2>4 DEF Numbered
  <1>6. TermInv
    BY <1>2, <1>4 DEF TermInv
  <1>7. KnownInv
    <2>1. \A c \in Ids : conns[c].status = "none"
      BY <1>2 DEF NoData
    <2> QED
      BY <1>2, <1>3, <1>4, <2>1 DEF KnownInv
  <1> QED
    BY <1>1, <1>2, <1>3, <1>4, <1>5, <1>6, <1>7 DEF FlowInv

LEMMA ChangesFlow ==
  ASSUME FlowInv, EngineInv', NEW c, Changes(c)
  PROVE  FlowInv'
  <1>1. /\ RegOk(reg) /\ Consecutive(reg) /\ reg' = reg
        /\ mPendingUpdates \in Seq(ItemType) /\ mPendingUpdates' = mPendingUpdates
        /\ mQueueFull' = mQueueFull /\ worker' = worker /\ cleaned' = cleaned
        /\ capture = "loop" /\ capture' = "loop"
        /\ c \in Ids /\ Listed' = Listed \cup {c}
        /\ \A e \in Ids \ {c} : conns'[e] = conns[e]
        /\ conns'[c].to_purge => conns'[c].status # "open"
    BY DEF FlowInv, Changes
  <1>2. /\ new_conns \in Seq(Ids) /\ new_conn_id \in Nat
    BY PipelineAssumption DEF FlowInv, EngineInv, EngineType, PipelineAssumption
  <1>3. Opened' = Opened \cup {c} /\ (c \in Opened \/ c = new_conn_id)
    BY <1>2 DEF Changes, Opened
  <1>4. Numbered'
    <2>1. PICK next \in [Nat -> Nat] :
              /\ Chained(mPendingUpdates, reg, cleaned, next)
              /\ ~mQueueFull =>
                     /\ Coming(new_conns, next[Len(mPendingUpdates)], new_conn_id)
                     /\ \A e \in Opened : e < next[0] \/ e \in Listed
                                          \/ Mentioned(mPendingUpdates, e)
      BY DEF FlowInv, Numbered
    <2>2. \A e \in Opened' : ~mQueueFull => e < next[0] \/ e \in Listed'
                                            \/ Mentioned(mPendingUpdates, e)
      BY <1>1, <1>3, <2>1
    <2>3. ~mQueueFull => Coming(new_conns', next[Len(mPendingUpdates)], new_conn_id')
      <3>1. CASE UNCHANGED <<new_conn_id, new_conns>>
        BY <2>1, <3>1
      <3>2. CASE c = new_conn_id /\ new_conn_id' = c + 1 /\ new_conns' = Append(new_conns, c)
        <4>1. PICK x \in Nat : x = next[Len(mPendingUpdates)]
          BY <1>1, LenProperties
        <4>2. /\ Len(new_conns) \in Nat /\ Len(Append(new_conns, c)) = Len(new_conns) + 1
              /\ \A j \in 1..Len(new_conns) : Append(new_conns, c)[j] = new_conns[j]
              /\ Append(new_conns, c)[Len(new_conns) + 1] = c
          BY <1>1, <1>2, AppendProperties, LenProperties
        <4>3. ASSUME ~mQueueFull PROVE Coming(new_conns', x, new_conn_id')
          <5>1. /\ x + Len(new_conns) = c
                /\ \A j \in 1..Len(new_conns) : new_conns[j] = x + j - 1
            BY <2>1, <3>2, <4>1, <4>3 DEF Coming
          <5>2. /\ x + (Len(new_conns) + 1) = c + 1
                /\ x + (Len(new_conns) + 1) - 1 = c
                /\ 1..(Len(new_conns) + 1) = 1..Len(new_conns) \cup {Len(new_conns) + 1}
            <6>1. PICK l \in Nat : l = Len(new_conns)
              BY <4>2
            <6>2. x + l = c
              BY <5>1, <6>1
            <6>3. x + (l + 1) = c + 1 /\ x + (l + 1) - 1 = c /\ 1..(l + 1) = 1..l \cup {l + 1}
              BY <6>2
            <6> QED
              BY <6>1, <6>3
          <5> QED
            BY <3>2, <4>2, <5>1, <5>2 DEF Coming
        <4> QED
          BY <4>1, <4>3
      <3> QED
        BY <3>1, <3>2 DEF Changes
    <2> QED
      BY <1>1, <2>1, <2>2, <2>3 DEF Numbered
  <1>5. TermInv'
    BY <1>1 DEF FlowInv, TermInv
  <1>6. KnownInv'
    BY <1>1, <1>3 DEF FlowInv, KnownInv
  <1> QED
    BY <1>1, <1>4, <1>5, <1>6 DEF FlowInv

\* The queue takes an item, or is full.
LEMMA QueueOrFull ==
  ASSUME NEW item, UpdateConnections(item)
  PROVE  \/ /\ mPendingUpdates' = Append(mPendingUpdates, item)
            /\ ~mQueueFull /\ mQueueFull' = mQueueFull
         \/ mPendingUpdates' = mPendingUpdates /\ mQueueFull'
  BY DEF UpdateConnections

LEMMA DumpsFlow ==
  ASSUME FlowInv, EngineInv', NEW item, Dumps(item)
  PROVE  FlowInv'
  <1> DEFINE q == mPendingUpdates
  <1>1. /\ RegOk(reg) /\ Consecutive(reg) /\ reg' = reg
        /\ q \in Seq(ItemType) /\ worker' = worker /\ cleaned' = cleaned
        /\ new_conn_id' = new_conn_id /\ new_conns' = <<>> /\ Listed' = {}
        /\ capture = "loop" /\ capture' \in {"loop", "signal"}
        /\ item \in ItemType /\ ~item.last
        /\ Len(item.new) = Len(new_conns)
        /\ \A j \in 1..Len(new_conns) : item.new[j].id = new_conns[j]
        /\ \A d \in Mentions(item) : d.id \in Opened
        /\ \A c \in Listed : \E d \in Mentions(item) : d.id = c
        /\ \A c \in Ids : conns'[c].to_purge => conns'[c].status # "open"
    BY DEF FlowInv, Dumps
  <1>2. Opened' = Opened /\ new_conn_id \in Nat /\ \A c \in Opened : c \in Nat /\ c < new_conn_id
    BY <1>1, PipelineAssumption DEF Opened, FlowInv, EngineInv, EngineType, PipelineAssumption
  <1>3. PICK next \in [Nat -> Nat] :
            /\ Chained(q, reg, cleaned, next)
            /\ ~mQueueFull =>
                   /\ Coming(new_conns, next[Len(q)], new_conn_id)
                   /\ \A e \in Opened : e < next[0] \/ e \in Listed \/ Mentioned(q, e)
    BY DEF FlowInv, Numbered
  <1>4. TermInv /\ KnownInv
    BY DEF FlowInv
  <1>5. worker # "done" /\ \A i \in 1..Len(q) : ~q[i].last
    BY <1>1, <1>4 DEF TermInv
  <1>6. CASE q' = Append(q, item) /\ ~mQueueFull /\ mQueueFull' = mQueueFull
    <2>1. /\ Append(q, item) \in Seq(ItemType) /\ Len(q) \in Nat
          /\ Len(Append(q, item)) = Len(q) + 1
          /\ \A i \in 1..Len(q) : Append(q, item)[i] = q[i] /\ i \in 1..(Len(q) + 1)
          /\ Append(q, item)[Len(q) + 1] = item
          /\ 1..(Len(q) + 1) = 1..Len(q) \cup {Len(q) + 1}
      BY <1>1, QueueAppend
    <2>2. \A i \in 1..(Len(q) + 1) : q'[i] = item \/ \E j \in 1..Len(q) : q'[i] = q[j]
      BY <1>6, <2>1
    <2>3. Linked(item, next[Len(q)], new_conn_id)
      BY <1>1, <1>2, <1>3, <1>6 DEF Linked, Coming
    <2> DEFINE next2 == Extended(q, next, new_conn_id)
    <2>4. /\ next2 \in [Nat -> Nat] /\ Chained(q', reg, cleaned, next2)
          /\ next2[Len(q')] = new_conn_id /\ next2[0] = next[0]
      <3>1. q \in Seq(ItemType) /\ item \in ItemType /\ new_conn_id \in Nat
        BY <1>1, <1>2
      <3>2. Chained(q, reg, cleaned, next)
        BY <1>3
      <3>7. Len(q) \in Nat /\ Len(Append(q, item)) = Len(q) + 1
        BY <2>1
      <3> HIDE DEF q
      <3>3. Extended(q, next, new_conn_id) \in [Nat -> Nat]
        BY <2>3, <3>1, <3>2, ChainAppend
      <3>4. Chained(Append(q, item), reg, cleaned, Extended(q, next, new_conn_id))
        BY <2>3, <3>1, <3>2, ChainAppend
      <3>5. Extended(q, next, new_conn_id)[Len(q) + 1] = new_conn_id
        BY <3>1, <3>7 DEF Extended
      <3>6. Extended(q, next, new_conn_id)[0] = next[0]
        BY <3>1, <3>7 DEF Extended
      <3> QED
        BY <1>6, <3>3, <3>4, <3>5, <3>6, <3>7
    <2> HIDE DEF next2
    <2>5. \A e \in Opened : e < next2[0] \/ Mentioned(q', e)
      <3> SUFFICES ASSUME NEW e \in Opened, ~(e < next2[0]) PROVE Mentioned(q', e)
        OBVIOUS
      <3>1. CASE e \in Listed
        <4>1. Len(q) + 1 \in 1..Len(q')
          BY <1>6, <2>1
        <4> QED
          BY <1>1, <1>6, <2>1, <3>1, <4>1 DEF Mentioned
      <3>2. CASE Mentioned(q, e)
        BY <1>6, <2>1, <3>2 DEF Mentioned
      <3> QED
        BY <1>3, <1>6, <2>4, <3>1, <3>2
    <2>6. Coming(new_conns', next2[Len(q')], new_conn_id')
      <3>1. Len(<<>>) = 0 /\ 1..0 = {} /\ new_conn_id + 0 = new_conn_id
        BY <1>2
      <3> QED
        BY <1>1, <1>6, <2>1, <2>4, <3>1 DEF Coming
    <2>7. Numbered'
      BY <1>1, <1>2, <1>6, <2>4, <2>5, <2>6 DEF Numbered
    <2>8. TermInv'
      <3>1. \A i \in 1..Len(q') : ~q'[i].last
        BY <1>1, <1>5, <1>6, <2>1, <2>2
      <3> QED
        BY <1>1, <1>5, <3>1 DEF TermInv
    <2>9. KnownInv'
      <3>1. \A i \in 1..Len(q') : \A d \in Mentions(q'[i]) : d.id \in Opened
        BY <1>1, <1>4, <1>6, <2>1, <2>2, ZenonT(40) DEF KnownInv
      <3> QED
        BY <1>1, <1>2, <1>4, <3>1 DEF KnownInv
    <2> QED
      BY <1>1, <1>6, <2>1, <2>7, <2>8, <2>9 DEF FlowInv
  <1>7. CASE q' = q /\ mQueueFull'
    <2>1. Numbered'
      BY <1>1, <1>3, <1>7 DEF Numbered
    <2>2. TermInv'
      BY <1>1, <1>5, <1>7 DEF TermInv
    <2>3. KnownInv'
      BY <1>1, <1>2, <1>4, <1>7 DEF KnownInv
    <2> QED
      BY <1>1, <1>7, <2>1, <2>2, <2>3 DEF FlowInv
  <1> QED
    BY <1>6, <1>7, QueueOrFull DEF Dumps

LEMMA OffersFlow ==
  ASSUME FlowInv, EngineInv', NEW item, Offers(item)
  PROVE  FlowInv'
  <1> DEFINE q == mPendingUpdates
  <1>1. /\ RegOk(reg) /\ Consecutive(reg) /\ reg' = reg
        /\ q \in Seq(ItemType) /\ worker' = worker /\ cleaned' = cleaned
        /\ UNCHANGED <<conns, new_conn_id, new_conns, conns_updates, mQueueFull>>
        /\ capture' = "loop" <=> capture = "loop"
        /\ capture' = "done" => capture = "done"
        /\ item \in ItemType /\ Empty(item) /\ (capture = "loop" => ~item.last)
    BY DEF FlowInv, Offers, engineVars
  <1>2. Opened' = Opened /\ Listed' = Listed
    BY <1>1 DEF Opened, Listed
  <1>3. PICK next \in [Nat -> Nat] :
            /\ Chained(q, reg, cleaned, next)
            /\ ~mQueueFull =>
                   /\ Coming(new_conns, next[Len(q)], new_conn_id)
                   /\ \A e \in Opened : e < next[0] \/ e \in Listed \/ Mentioned(q, e)
    BY DEF FlowInv, Numbered
  <1>4. TermInv /\ KnownInv
    BY DEF FlowInv
  <1>5. Mentions(item) = {} /\ \A a \in Int : Linked(item, a, a)
    BY <1>1, EmptyItem
  <1>6. CASE q' = Append(q, item)
    <2>1. /\ Append(q, item) \in Seq(ItemType) /\ Len(q) \in Nat
          /\ Len(Append(q, item)) = Len(q) + 1
          /\ \A i \in 1..Len(q) : Append(q, item)[i] = q[i] /\ i \in 1..(Len(q) + 1)
          /\ Append(q, item)[Len(q) + 1] = item
          /\ 1..(Len(q) + 1) = 1..Len(q) \cup {Len(q) + 1}
      BY <1>1, QueueAppend
    <2>2. Len(q') = Len(q) + 1
      BY <1>6, <2>1
    <2>3. \A i \in 1..Len(q') : q'[i] = item \/ (i \in 1..Len(q) /\ q'[i] = q[i])
      BY <1>6, <2>1, <2>2
    <2>4. PICK b \in Nat : b = next[Len(q)]
      BY <2>1
    <2>5. Linked(item, next[Len(q)], b)
      BY <1>5, <2>4
    <2> DEFINE next2 == Extended(q, next, b)
    <2>6. /\ next2 \in [Nat -> Nat] /\ Chained(q', reg, cleaned, next2)
          /\ next2[Len(q')] = b /\ next2[0] = next[0]
      <3>1. q \in Seq(ItemType) /\ item \in ItemType
        BY <1>1
      <3>2. Chained(q, reg, cleaned, next)
        BY <1>3
      <3>7. Len(q) \in Nat /\ Len(Append(q, item)) = Len(q) + 1
        BY <2>1
      <3> HIDE DEF q
      <3>3. Extended(q, next, b) \in [Nat -> Nat]
        BY <2>5, <3>1, <3>2, ChainAppend
      <3>4. Chained(Append(q, item), reg, cleaned, Extended(q, next, b))
        BY <2>5, <3>1, <3>2, ChainAppend
      <3>5. Extended(q, next, b)[Len(q) + 1] = b
        BY <3>1, <3>7 DEF Extended
      <3>6. Extended(q, next, b)[0] = next[0]
        BY <3>1, <3>7 DEF Extended
      <3> QED
        BY <1>6, <3>3, <3>4, <3>5, <3>6, <3>7
    <2> HIDE DEF next2
    <2>7. \A e \in Opened : Mentioned(q, e) => Mentioned(q', e)
      BY <1>6, <2>1 DEF Mentioned
    <2>8. Numbered'
      BY <1>1, <1>2, <1>3, <2>4, <2>6, <2>7 DEF Numbered
    <2>9. TermInv'
      <3>1. ASSUME NEW i \in 1..Len(q'), q'[i].last, NEW j \in i..Len(q')
            PROVE  Empty(q'[j])
        <4>1. j \in 1..Len(q')
          BY <2>1, <2>2
        <4>2. CASE q'[j] = item
          BY <1>1, <4>2
        <4>3. CASE q'[j] # item
          <5>1. j \in 1..Len(q) /\ q'[j] = q[j] /\ i \in 1..Len(q) /\ j \in i..Len(q)
            BY <2>1, <2>2, <2>3, <4>1, <4>3
          <5>2. q'[i] = q[i]
            BY <1>6, <2>1, <5>1
          <5> QED
            BY <1>4, <3>1, <5>1, <5>2 DEF TermInv
        <4> QED
          BY <4>2, <4>3
      <3>2. worker = "done" => \A i \in 1..Len(q') : Empty(q'[i])
        BY <1>1, <1>4, <2>3 DEF TermInv
      <3>3. capture = "loop" => worker # "done" /\ \A i \in 1..Len(q') : ~q'[i].last
        BY <1>1, <1>4, <2>3 DEF TermInv
      <3>4. /\ capture = "done" => worker = "done"
            /\ capture # "loop" => Listed = {}
        BY <1>4 DEF TermInv
      <3> QED
        BY <1>1, <1>2, <3>1, <3>2, <3>3, <3>4 DEF TermInv
    <2>10. KnownInv'
      <3>1. \A i \in 1..Len(q') : \A d \in Mentions(q'[i]) : d.id \in Opened
        BY <1>4, <1>5, <2>3 DEF KnownInv
      <3> QED
        BY <1>1, <1>2, <1>4, <3>1 DEF KnownInv
    <2>11. q' \in Seq(ItemType)
      BY <1>6, <2>1
    <2> QED
      BY <1>1, <2>8, <2>9, <2>10, <2>11 DEF FlowInv
  <1>7. CASE q' = q
    <2>1. Numbered'
      BY <1>1, <1>2, <1>3, <1>7 DEF Numbered
    <2>2. TermInv'
      BY <1>1, <1>2, <1>4, <1>7 DEF TermInv
    <2>3. KnownInv'
      BY <1>1, <1>2, <1>4, <1>7 DEF KnownInv
    <2> QED
      BY <1>1, <1>7, <2>1, <2>2, <2>3 DEF FlowInv
  <1> QED
    BY <1>6, <1>7 DEF Offers

LEMMA RestsFlow ==
  ASSUME FlowInv, EngineInv', Rests
  PROVE  FlowInv'
  <1>1. UNCHANGED <<conns, new_conn_id, new_conns, conns_updates, mPendingUpdates,
                    mQueueFull, worker, reg, cleaned>>
    BY DEF Rests, engineVars
  <1>2. Opened' = Opened /\ Listed' = Listed
    BY <1>1 DEF Opened, Listed
  <1>3. RegOk(reg) /\ Consecutive(reg) /\ mPendingUpdates \in Seq(ItemType)
        /\ Numbered /\ TermInv /\ KnownInv
    BY DEF FlowInv
  <1>4. Numbered'
    BY <1>1, <1>2, <1>3 DEF Numbered
  <1>5. TermInv'
    BY <1>1, <1>2, <1>3 DEF TermInv, Rests
  <1>6. KnownInv'
    BY <1>1, <1>2, <1>3 DEF KnownInv
  <1> QED
    BY <1>1, <1>3, <1>4, <1>5, <1>6 DEF FlowInv

\* What the worker takes
LEMMA TakeStep ==
  ASSUME FlowInv, Take
  PROVE  /\ mPendingUpdates # <<>> /\ mPendingUpdates' = Tail(mPendingUpdates)
         /\ Head(mPendingUpdates) = mPendingUpdates[1]
         /\ mPendingUpdates[1] \in ItemType /\ 1 \in 1..Len(mPendingUpdates)
         /\ worker = "take"
         /\ UNCHANGED <<conns, new_conn_id, new_conns, conns_updates, mQueueFull,
                        capture, cleaned>>
         /\ \/ /\ mPendingUpdates[1].last /\ worker' = "done" /\ reg' = reg
               /\ Empty(mPendingUpdates[1])
            \/ /\ ~mPendingUpdates[1].last /\ worker' = "clean"
               /\ reg' = Taken(reg, mPendingUpdates[1])
  <1>1. /\ mPendingUpdates \in Seq(ItemType) /\ mPendingUpdates # <<>>
        /\ mPendingUpdates' = Tail(mPendingUpdates) /\ worker = "take"
        /\ UNCHANGED <<engineVars, mQueueFull, capture, cleaned>>
    BY DEF FlowInv, Take
  <1>2. /\ Head(mPendingUpdates) = mPendingUpdates[1] /\ mPendingUpdates[1] \in ItemType
        /\ 1 \in 1..Len(mPendingUpdates) /\ Len(mPendingUpdates) \in Nat
    BY <1>1, QueueTail
  <1>3. mPendingUpdates[1].last => Empty(mPendingUpdates[1])
    <2>1. 1 \in 1..Len(mPendingUpdates)
      BY <1>2
    <2> QED
      BY <2>1 DEF FlowInv, TermInv
  <1>4. \/ /\ mPendingUpdates[1].last /\ worker' = "done" /\ reg' = reg
        \/ /\ ~mPendingUpdates[1].last /\ worker' = "clean"
           /\ reg' = Taken(reg, mPendingUpdates[1])
    BY <1>2 DEF Take, IsTermination, Registered, Taken
  <1> QED
    BY <1>1, <1>2, <1>3, <1>4 DEF engineVars

LEMMA TakeFlow ==
  ASSUME FlowInv, EngineInv', Take
  PROVE  FlowInv'
  <1> DEFINE q == mPendingUpdates
             item == q[1]
  <1>1. /\ q # <<>> /\ q' = Tail(q) /\ item \in ItemType /\ 1 \in 1..Len(q)
        /\ worker = "take"
        /\ UNCHANGED <<conns, new_conn_id, new_conns, conns_updates, mQueueFull,
                       capture, cleaned>>
        /\ \/ item.last /\ worker' = "done" /\ reg' = reg /\ Empty(item)
           \/ ~item.last /\ worker' = "clean" /\ reg' = Taken(reg, item)
    BY TakeStep
  <1>2. RegOk(reg) /\ Consecutive(reg) /\ q \in Seq(ItemType) /\ TermInv /\ KnownInv
    BY DEF FlowInv
  <1>3. Opened' = Opened /\ Listed' = Listed
    BY <1>1 DEF Opened, Listed
  <1>4. PICK next \in [Nat -> Nat] :
            /\ Chained(q, reg, cleaned, next)
            /\ ~mQueueFull =>
                   /\ Coming(new_conns, next[Len(q)], new_conn_id)
                   /\ \A e \in Opened : e < next[0] \/ e \in Listed \/ Mentioned(q, e)
    BY DEF FlowInv, Numbered
  <1>5. PICK n0 \in Nat, n1 \in Nat : n0 = next[0] /\ n1 = next[1]
    OBVIOUS
  <1>6. /\ Linked(item, n0, n1) /\ (reg.cur > 0 => FirstId(reg) + reg.cur = n0)
        /\ reg.cur = 0 => cleaned \/ n0 = 0
    <2>1. 1 - 1 = 0
      OBVIOUS
    <2> QED
      BY <1>1, <1>4, <1>5, <2>1 DEF Chained
  <1>7. n0 <= n1
    <2>1. item.new \in Seq(Descs) /\ n1 = n0 + Len(item.new)
      BY <1>1, <1>6 DEF Linked, ItemType
    <2> HIDE DEF item
    <2>2. PICK l \in Nat : l = Len(item.new)
      BY <2>1, LenProperties
    <2>3. n1 = n0 + l
      BY <2>1, <2>2
    <2> QED
      BY <2>3
  <1>8. /\ Tail(q) \in Seq(ItemType) /\ Len(q) \in Nat /\ Len(q) >= 1
        /\ Len(Tail(q)) = Len(q) - 1
        /\ \A i \in 1..Len(Tail(q)) : Tail(q)[i] = q[i + 1] /\ i + 1 \in 1..Len(q)
        /\ \A i \in 1..Len(q) : i = 1 \/ (i - 1 \in 1..Len(Tail(q)) /\ Tail(q)[i - 1] = q[i])
    <2>1. q \in Seq(ItemType) /\ q # <<>>
      BY <1>1, <1>2
    <2> HIDE DEF q, item
    <2> QED
      BY <2>1, QueueTail
  <1> HIDE DEF item
  <1>9. /\ RegOk(reg') /\ Consecutive(reg')
        /\ reg'.cur > 0 => FirstId(reg') + reg'.cur = n1
        /\ reg'.cur = 0 => cleaned \/ n1 = 0
        /\ \A i \in 1..reg'.cur : GetConn(reg', i).id \in Opened
    <2>1. CASE item.last
      <3>1. reg' = reg /\ Empty(item)
        BY <1>1, <2>1
      <3>2. n1 = n0
        <4>1. n1 = n0 + Len(<<>>)
          BY <1>6, <3>1 DEF Linked, Empty
        <4> QED
          BY <4>1
      <3> QED
        BY <1>2, <1>6, <3>1, <3>2 DEF KnownInv
    <2>2. CASE ~item.last
      <3>1. reg' = Taken(reg, item)
        BY <1>1, <2>2
      <3>2. /\ RegOk(Taken(reg, item)) /\ Consecutive(Taken(reg, item))
            /\ Taken(reg, item).cur > 0 => FirstId(Taken(reg, item)) + Taken(reg, item).cur = n1
            /\ Taken(reg, item).cur = 0 => reg.cur = 0 /\ n1 = n0
        <4>1. RegOk(reg) /\ Consecutive(reg) /\ item \in ItemType
          BY <1>1, <1>2
        <4> QED
          BY <1>6, <4>1, TakenConsecutive
      <3>3. \A i \in 1..Taken(reg, item).cur : GetConn(Taken(reg, item), i).id \in Opened
        <4> SUFFICES ASSUME NEW i \in 1..Taken(reg, item).cur
                     PROVE  GetConn(Taken(reg, item), i).id \in Opened
          OBVIOUS
        <4> DEFINE g == GetConn(Taken(reg, item), i)
        <4>1. \/ \E d \in Mentions(item) : d.id = g.id /\ g = Accounted(d)
              \/ \E j \in 1..reg.cur : g = GetConn(reg, j)
          <5>1. RegOk(reg) /\ Consecutive(reg) /\ item \in ItemType
            BY <1>1, <1>2
          <5> QED
            BY <1>6, <5>1, TakenOrigin
        <4>2. \A d \in Mentions(item) : d.id \in Opened
          BY <1>1, <1>2 DEF KnownInv, item
        <4>3. \A j \in 1..reg.cur : GetConn(reg, j).id \in Opened
          BY <1>2 DEF KnownInv
        <4> HIDE DEF g
        <4>4. g.id \in Opened
          BY <4>1, <4>2, <4>3
        <4> QED
          BY <4>4 DEF g
      <3> QED
        BY <1>6, <3>1, <3>2, <3>3
    <2> QED
      BY <2>1, <2>2
  <1>10. Numbered'
    <2> DEFINE next2 == Shifted(next)
    <2>1. next2 \in [Nat -> Nat] /\ next2[0] = n1 /\ next2[Len(Tail(q))] = next[Len(q)]
      <3>1. Len(Tail(q)) \in Nat /\ Len(Tail(q)) + 1 = Len(q) /\ 0 + 1 = 1
        BY <1>8
      <3> HIDE DEF q
      <3>2. Shifted(next) \in [Nat -> Nat]
        BY DEF Shifted
      <3>3. \A i \in Nat : Shifted(next)[i] = next[i + 1]
        BY DEF Shifted
      <3> QED
        BY <1>5, <3>1, <3>2, <3>3
    <2>2. Chained(Tail(q), reg', cleaned, next2)
      <3>1. /\ reg'.cur > 0 => FirstId(reg') + reg'.cur = next[1]
            /\ reg'.cur = 0 => cleaned \/ next[1] = 0
        BY <1>5, <1>9
      <3>2. q \in Seq(ItemType) /\ q # <<>> /\ Chained(q, reg, cleaned, next)
        BY <1>1, <1>2, <1>4
      <3> HIDE DEF q
      <3> QED
        BY <3>1, <3>2, ChainTail
    <2> HIDE DEF next2
    <2>3. ASSUME ~mQueueFull, NEW e \in Opened, ~(e < n1), e \notin Listed
          PROVE  Mentioned(Tail(q), e)
      <3>1. e \in Nat /\ ~(e < n0)
        BY <1>7, <2>3 DEF Opened
      <3>2. Mentioned(q, e)
        BY <1>4, <1>5, <2>3, <3>1
      <3>3. PICK i \in 1..Len(q) : \E d \in Mentions(q[i]) : d.id = e
        BY <3>2 DEF Mentioned
      <3>4. i # 1
        BY <1>6, <2>3, <3>3 DEF Linked, item
      <3> QED
        BY <1>8, <3>3, <3>4 DEF Mentioned
    <2> QED
      BY <1>1, <1>3, <1>4, <2>1, <2>2, <2>3 DEF Numbered
  <1>11. TermInv'
    <2>1. ASSUME NEW i \in 1..Len(Tail(q)), Tail(q)[i].last, NEW j \in i..Len(Tail(q))
          PROVE  Empty(Tail(q)[j])
      <3>1. j \in 1..Len(Tail(q)) /\ j + 1 \in (i + 1)..Len(q)
        BY <1>8
      <3> QED
        BY <1>2, <1>8, <2>1, <3>1 DEF TermInv
    <2>2. item.last => \A i \in 1..Len(Tail(q)) : Empty(Tail(q)[i])
      <3>1. \A i \in 1..Len(Tail(q)) : i + 1 \in 1..Len(q)
        BY <1>8
      <3> QED
        BY <1>1, <1>2, <1>8, <3>1 DEF TermInv, item
    <2>3. capture = "loop" => ~item.last /\ \A i \in 1..Len(Tail(q)) : ~Tail(q)[i].last
      BY <1>1, <1>2, <1>8 DEF TermInv, item
    <2>4. capture # "done" /\ (capture # "loop" => Listed = {})
      BY <1>1, <1>2 DEF TermInv
    <2> QED
      BY <1>1, <1>3, <2>1, <2>2, <2>3, <2>4 DEF TermInv
  <1>12. KnownInv'
    <2>1. \A i \in 1..Len(Tail(q)) : \A d \in Mentions(Tail(q)[i]) : d.id \in Opened
      BY <1>2, <1>8 DEF KnownInv
    <2> QED
      BY <1>1, <1>2, <1>3, <1>9, <2>1 DEF KnownInv
  <1> QED
    BY <1>1, <1>8, <1>9, <1>10, <1>11, <1>12 DEF FlowInv

LEMMA CleanFlow ==
  ASSUME FlowInv, EngineInv', Clean
  PROVE  FlowInv'
  <1>1. /\ worker = "clean" /\ worker' = "take"
        /\ UNCHANGED <<conns, new_conn_id, new_conns, conns_updates, mPendingUpdates,
                       mQueueFull, capture>>
        /\ \/ reg' = Emptied(reg) /\ cleaned' = TRUE
           \/ reg' = reg /\ cleaned' = cleaned
    BY DEF Clean, engineVars, serviceVars
  <1>2. RegOk(reg) /\ Consecutive(reg) /\ mPendingUpdates \in Seq(ItemType)
        /\ Numbered /\ TermInv /\ KnownInv
    BY DEF FlowInv
  <1>3. Opened' = Opened /\ Listed' = Listed
    BY <1>1 DEF Opened, Listed
  <1>4. /\ RegOk(reg') /\ Consecutive(reg')
        /\ \/ reg'.cur = 0 /\ cleaned' = TRUE
           \/ reg' = reg /\ cleaned' = cleaned
    BY <1>1, <1>2, EmptiedOk
  <1>5. PICK next \in [Nat -> Nat] :
            /\ Chained(mPendingUpdates, reg, cleaned, next)
            /\ ~mQueueFull =>
                   /\ Coming(new_conns, next[Len(mPendingUpdates)], new_conn_id)
                   /\ \A e \in Opened : e < next[0] \/ e \in Listed
                                        \/ Mentioned(mPendingUpdates, e)
    BY <1>2 DEF Numbered
  <1>6. Chained(mPendingUpdates, reg', cleaned', next)
    BY <1>4, <1>5 DEF Chained
  <1>7. Numbered'
    BY <1>1, <1>3, <1>5, <1>6 DEF Numbered
  <1>8. TermInv'
    BY <1>1, <1>2, <1>3 DEF TermInv
  <1>9. KnownInv'
    <2>1. \A i \in 1..reg'.cur : GetConn(reg', i).id \in Opened
      <3>1. 1..0 = {}
        OBVIOUS
      <3> QED
        BY <1>2, <1>4, <3>1 DEF KnownInv
    <2> QED
      BY <1>1, <1>2, <1>3, <2>1 DEF KnownInv
  <1> QED
    BY <1>1, <1>2, <1>4, <1>7, <1>8, <1>9 DEF FlowInv

\* Every step is one of these.
LEMMA StepKinds ==
  ASSUME DumpMayFail = FALSE, FlowInv, EngineInv', [Next]_vars
  PROVE  \/ \E c : Changes(c)
         \/ \E item : Dumps(item)
         \/ \E item : Offers(item)
         \/ Rests \/ Take \/ Clean
  <1>1. CASE Engine
    <2>1. CASE OpenConn
      BY <2>1, OpenChanges
    <2>2. CASE Dump
      BY <2>2, DumpDumps
    <2>3. CASE DumpFails
      BY <2>3 DEF DumpFails
    <2>4. CASE \E c \in Ids : Traffic(c) \/ CloseConn(c) \/ Recheck(c)
      BY <2>4, ActiveChanges
    <2> QED
      BY <1>1, <2>1, <2>2, <2>3, <2>4 DEF Engine
  <1>2. CASE LoopEnds
    BY <1>2, LoopEndsDumps
  <1>3. CASE Signal \/ JoinInterrupted \/ RequestBlacklistsUpdate
    BY <1>3, SignalsOffer
  <1>4. CASE Stop \/ StopService \/ OnDestroy \/ Join \/ UNCHANGED vars
    BY <1>4, OthersRest
  <1> QED
    BY <1>1, <1>2, <1>3, <1>4 DEF Next, Service, Worker

LEMMA NextKeepsFlow ==
  ASSUME DumpMayFail = FALSE, FlowInv, [Next]_vars
  PROVE  FlowInv'
  <1>1. EngineInv'
    BY PipelineAssumption, NextKeepsInv DEF FlowInv
  <1> QED
    BY <1>1, StepKinds, ChangesFlow, DumpsFlow, OffersFlow, RestsFlow, TakeFlow, CleanFlow

LEMMA FlowIsKept ==
  ASSUME DumpMayFail = FALSE
  PROVE  Spec => []FlowInv
  <1>1. Init => FlowInv
    BY InitFlow
  <1>2. FlowInv /\ [Next]_vars => FlowInv'
    BY NextKeepsFlow
  <1> QED
    BY <1>1, <1>2, PTL DEF Spec

\* PositionsMatchIds: whatever is queued, taken and emptied between them, the slot that
\* getConnById and connectionsUpdates compute from a number in the range of the register
\* holds the connection with this number; for engines whose dumps do not fail.
THEOREM PositionsCorrect ==
  ASSUME DumpMayFail = FALSE
  PROVE  Spec => []PositionsMatchIds
  <1>1. FlowInv => PositionsMatchIds
    <2> SUFFICES ASSUME FlowInv, NEW c \in Ids, InRange(reg, c)
                 PROVE  reg.ring[Position(reg, c)].id = c
      BY DEF PositionsMatchIds
    <2>1. RegOk(reg) /\ Consecutive(reg) /\ c \in Int
      BY DEF FlowInv, Ids
    <2>2. PICK i \in 1..reg.cur : GetConn(reg, i).id = c
      BY <2>1, InRangeIsAt
    <2>3. Position(reg, c) = At(reg, i) /\ GetConn(reg, i) = reg.ring[At(reg, i)]
      BY <2>1, <2>2, PositionIsAt, AtIsSlot
    <2> QED
      BY <2>2, <2>3
  <1> QED
    BY <1>1, FlowIsKept, PTL
-----------------------------------------------------------------------------
(***************************************************************************)
(* What the register shows is what the engine knows.                       *)
(***************************************************************************)
\* Items after the i-th are not about c.
LastWord(q, i, c) == \A j \in (i + 1)..Len(q) : \A d \in Mentions(q[j]) : d.id # c

\* The last item about a connection that is not listed says what the engine knows of it.
FreshInv ==
    ~mQueueFull =>
        \A c \in Opened \ Listed : \A i \in 1..Len(mPendingUpdates) :
            \A d \in Mentions(mPendingUpdates[i]) :
                d.id = c /\ LastWord(mPendingUpdates, i, c) => d = DescIn(conns, c)

Shown(c)   == \E i \in 1..reg.cur : GetConn(reg, i) = Accounted(DescIn(conns, c))
Dropped(c) == \/ reg.cur > 0 /\ c < FirstId(reg)
              \/ reg.cur = 0 /\ cleaned

ShownInv ==
    ~mQueueFull =>
        \A c \in Opened : c \in Listed \/ Mentioned(mPendingUpdates, c) \/ Shown(c) \/ Dropped(c)

ShowInv == FreshInv /\ ShownInv

LEMMA InitShow ==
  ASSUME Init
  PROVE  ShowInv
  <1>1. new_conn_id = 0 /\ 0..(0 - 1) = {}
    BY DEF Init
  <1>2. Opened = {}
    BY <1>1 DEF Opened
  <1> QED
    BY <1>2 DEF ShowInv, FreshInv, ShownInv

LEMMA ChangesShow ==
  ASSUME FlowInv, ShowInv, NEW c, Changes(c)
  PROVE  ShowInv'
  <1>1. /\ UNCHANGED <<mPendingUpdates, mQueueFull, reg, cleaned>>
        /\ Listed' = Listed \cup {c}
        /\ \A e \in Ids \ {c} : conns'[e] = conns[e]
    BY DEF Changes
  <1>2. Opened' \subseteq Opened \cup {c} /\ Opened \subseteq Ids
    <2>1. EngineInv
      BY DEF FlowInv
    <2>2. new_conn_id \in Nat
      BY <2>1, PipelineAssumption DEF EngineInv, EngineType, PipelineAssumption
    <2>3. Opened' \subseteq Opened \cup {c}
      BY <2>2 DEF Changes, Opened
    <2> QED
      BY <2>1, <2>3, ListedPending
  <1>3. \A e \in Opened' \ Listed' : e \in Opened \ Listed /\ DescIn(conns', e) = DescIn(conns, e)
    BY <1>1, <1>2 DEF DescIn
  <1>4. FreshInv'
    BY <1>1, <1>3 DEF ShowInv, FreshInv
  <1>5. ShownInv'
    <2> SUFFICES ASSUME ~mQueueFull, NEW e \in Opened', e \notin Listed'
                 PROVE  Mentioned(mPendingUpdates, e) \/ Shown(e)' \/ Dropped(e)'
      BY <1>1 DEF ShownInv
    <2>1. e \in Opened \ Listed /\ DescIn(conns', e) = DescIn(conns, e)
      BY <1>3
    <2>2. Mentioned(mPendingUpdates, e) \/ Shown(e) \/ Dropped(e)
      BY <2>1 DEF ShowInv, ShownInv
    <2> QED
      BY <1>1, <2>1, <2>2 DEF Shown, Dropped
  <1> QED
    BY <1>4, <1>5 DEF ShowInv

LEMMA DumpsShow ==
  ASSUME FlowInv, ShowInv, NEW item, Dumps(item)
  PROVE  ShowInv'
  <1> DEFINE q == mPendingUpdates
  <1>1. /\ UNCHANGED <<new_conn_id, reg, cleaned>> /\ Listed' = {} /\ item \in ItemType
        /\ \A d \in Mentions(item) : d.id \in Opened /\ d = DescIn(conns', d.id)
        /\ \A c \in Listed : \E d \in Mentions(item) : d.id = c
        /\ \A c \in Ids : \/ \E d \in Mentions(item) : d.id = c
                          \/ DescIn(conns', c) = DescIn(conns, c)
    BY DEF Dumps
  <1>2. Opened' = Opened /\ Opened \subseteq Ids /\ q \in Seq(ItemType)
    BY <1>1, ListedPending DEF FlowInv, Opened
  <1>3. CASE q' = Append(q, item) /\ ~mQueueFull /\ mQueueFull' = mQueueFull
    <2>1. /\ Append(q, item) \in Seq(ItemType) /\ Len(q) \in Nat
          /\ Len(Append(q, item)) = Len(q) + 1
          /\ \A i \in 1..Len(q) : Append(q, item)[i] = q[i] /\ i \in 1..(Len(q) + 1)
          /\ Append(q, item)[Len(q) + 1] = item
          /\ 1..(Len(q) + 1) = 1..Len(q) \cup {Len(q) + 1}
      BY <1>1, <1>2, QueueAppend
    <2>2. /\ Len(q') = Len(q) + 1 /\ Len(q) + 1 \in 1..Len(q') /\ q'[Len(q) + 1] = item
          /\ \A i \in 1..Len(q) : q'[i] = q[i] /\ i \in 1..Len(q')
          /\ \A i \in 1..Len(q') : i \in 1..Len(q) \/ i = Len(q) + 1
      BY <1>3, <2>1
    <2> HIDE DEF q
    <2>3. FreshInv'
      <3> SUFFICES ASSUME NEW c \in Opened, NEW i \in 1..Len(q'), NEW d \in Mentions(q'[i]),
                          d.id = c, LastWord(q', i, c)
                   PROVE  d = DescIn(conns', c)
        BY <1>2 DEF FreshInv, q
      <3>1. CASE i = Len(q) + 1
        BY <1>1, <2>2, <3>1
      <3>2. CASE i \in 1..Len(q)
        <4>1. /\ Len(q) + 1 \in (i + 1)..Len(q')
              /\ \A j \in (i + 1)..Len(q) : j \in (i + 1)..Len(q') /\ j \in 1..Len(q)
          BY <2>1, <2>2, <3>2
        <4>2. \A e \in Mentions(item) : e.id # c
          BY <2>2, <4>1 DEF LastWord
        <4>3. c \notin Listed /\ DescIn(conns', c) = DescIn(conns, c)
          BY <1>1, <1>2, <4>2
        <4>4. LastWord(q, i, c)
          BY <2>2, <4>1 DEF LastWord
        <4>5. d \in Mentions(q[i])
          BY <2>2, <3>2
        <4> QED
          BY <1>3, <3>2, <4>3, <4>4, <4>5 DEF ShowInv, FreshInv, q
      <3> QED
        BY <2>2, <3>1, <3>2
    <2>4. ShownInv'
      <3> SUFFICES ASSUME NEW c \in Opened PROVE Mentioned(q', c) \/ Shown(c)' \/ Dropped(c)'
        BY <1>2 DEF ShownInv, q
      <3>1. CASE \E d \in Mentions(item) : d.id = c
        BY <2>2, <3>1 DEF Mentioned
      <3>2. CASE Mentioned(q, c)
        BY <2>2, <3>2 DEF Mentioned
      <3>3. CASE ~(\E d \in Mentions(item) : d.id = c) /\ ~Mentioned(q, c)
        <4>1. c \notin Listed /\ DescIn(conns', c) = DescIn(conns, c)
          BY <1>1, <1>2, <3>3
        <4>2. Shown(c) \/ Dropped(c)
          BY <1>3, <3>3, <4>1 DEF ShowInv, ShownInv, q
        <4> QED
          BY <1>1, <4>1, <4>2 DEF Shown, Dropped
      <3> QED
        BY <3>1, <3>2, <3>3
    <2> QED
      BY <2>3, <2>4 DEF ShowInv
  <1>4. CASE mQueueFull'
    BY <1>4 DEF ShowInv, FreshInv, ShownInv
  <1> QED
    BY <1>3, <1>4, QueueOrFull DEF Dumps

LEMMA OffersShow ==
  ASSUME FlowInv, ShowInv, NEW item, Offers(item)
  PROVE  ShowInv'
  <1> DEFINE q == mPendingUpdates
  <1>1. /\ UNCHANGED <<conns, new_conn_id, new_conns, conns_updates, mQueueFull, reg, cleaned>>
        /\ item \in ItemType /\ Empty(item)
    BY DEF Offers, engineVars
  <1>2. Opened' = Opened /\ Listed' = Listed /\ q \in Seq(ItemType)
    BY <1>1 DEF FlowInv, Opened, Listed
  <1>3. Mentions(item) = {}
    BY <1>1, EmptyItem
  <1>4. CASE q' = Append(q, item)
    <2>1. /\ Append(q, item) \in Seq(ItemType) /\ Len(q) \in Nat
          /\ Len(Append(q, item)) = Len(q) + 1
          /\ \A i \in 1..Len(q) : Append(q, item)[i] = q[i] /\ i \in 1..(Len(q) + 1)
          /\ Append(q, item)[Len(q) + 1] = item
          /\ 1..(Len(q) + 1) = 1..Len(q) \cup {Len(q) + 1}
      BY <1>1, <1>2, QueueAppend
    <2>2. /\ Len(q') = Len(q) + 1 /\ q'[Len(q) + 1] = item
          /\ \A i \in 1..Len(q) : q'[i] = q[i] /\ i \in 1..Len(q')
          /\ \A i \in 1..Len(q') : i \in 1..Len(q) \/ i = Len(q) + 1
      BY <1>4, <2>1
    <2> HIDE DEF q
    <2>3. FreshInv'
      <3> SUFFICES ASSUME ~mQueueFull, NEW c \in Opened \ Listed, NEW i \in 1..Len(q'),
                          NEW d \in Mentions(q'[i]), d.id = c, LastWord(q', i, c)
                   PROVE  d = DescIn(conns, c)
        BY <1>1, <1>2 DEF FreshInv, q
      <3>1. i \in 1..Len(q) /\ d \in Mentions(q[i])
        BY <1>3, <2>2
      <3>2. \A j \in (i + 1)..Len(q) : j \in (i + 1)..Len(q') /\ j \in 1..Len(q)
        BY <2>1, <2>2, <3>1
      <3>3. LastWord(q, i, c)
        BY <2>2, <3>2 DEF LastWord
      <3> QED
        BY <3>1, <3>3 DEF ShowInv, FreshInv, q
    <2>4. \A c : Mentioned(q, c) => Mentioned(q', c)
      BY <2>2 DEF Mentioned
    <2>5. ShownInv'
      BY <1>1, <1>2, <2>4 DEF ShowInv, ShownInv, Shown, Dropped, q
    <2> QED
      BY <2>3, <2>5 DEF ShowInv
  <1>5. CASE q' = q
    BY <1>1, <1>2, <1>5 DEF ShowInv, FreshInv, ShownInv, Shown, Dropped
  <1> QED
    BY <1>4, <1>5 DEF Offers

LEMMA RestsShow ==
  ASSUME FlowInv, ShowInv, Rests
  PROVE  ShowInv'
  <1>1. UNCHANGED <<conns, new_conn_id, new_conns, conns_updates, mPendingUpdates,
                    mQueueFull, reg, cleaned>>
    BY DEF Rests, engineVars
  <1>2. Opened' = Opened /\ Listed' = Listed
    BY <1>1 DEF Opened, Listed
  <1> QED
    BY <1>1, <1>2 DEF ShowInv, FreshInv, ShownInv, Shown, Dropped

LEMMA CleanShow ==
  ASSUME FlowInv, ShowInv, Clean
  PROVE  ShowInv'
  <1>1. /\ UNCHANGED <<conns, new_conn_id, new_conns, conns_updates, mPendingUpdates,
                       mQueueFull>>
        /\ \/ reg' = Emptied(reg) /\ cleaned' = TRUE
           \/ reg' = reg /\ cleaned' = cleaned
    BY DEF Clean, engineVars, serviceVars
  <1>2. Opened' = Opened /\ Listed' = Listed
    BY <1>1 DEF Opened, Listed
  <1>3. \/ reg'.cur = 0 /\ cleaned' = TRUE
        \/ reg' = reg /\ cleaned' = cleaned
    BY <1>1, EmptiedOk DEF FlowInv
  <1>4. FreshInv'
    BY <1>1, <1>2 DEF ShowInv, FreshInv
  <1>5. ShownInv'
    BY <1>1, <1>2, <1>3 DEF ShowInv, ShownInv, Shown, Dropped
  <1> QED
    BY <1>4, <1>5 DEF ShowInv

LEMMA TakeShow ==
  ASSUME FlowInv, ShowInv, Take
  PROVE  ShowInv'
  <1> DEFINE q == mPendingUpdates
             item == q[1]
  <1>1. /\ q # <<>> /\ q' = Tail(q) /\ item \in ItemType /\ 1 \in 1..Len(q)
        /\ UNCHANGED <<conns, new_conn_id, new_conns, conns_updates, mQueueFull, cleaned>>
        /\ \/ item.last /\ reg' = reg /\ Empty(item)
           \/ ~item.last /\ reg' = Taken(reg, item)
    BY TakeStep
  <1>2. RegOk(reg) /\ Consecutive(reg) /\ q \in Seq(ItemType)
    BY DEF FlowInv
  <1>3. Opened' = Opened /\ Listed' = Listed
    BY <1>1 DEF Opened, Listed
  <1>4. PICK next \in [Nat -> Nat] :
            /\ Chained(q, reg, cleaned, next)
            /\ ~mQueueFull =>
                   /\ Coming(new_conns, next[Len(q)], new_conn_id)
                   /\ \A e \in Opened : e < next[0] \/ e \in Listed \/ Mentioned(q, e)
    BY DEF FlowInv, Numbered
  <1>5. PICK n0 \in Nat, n1 \in Nat : n0 = next[0] /\ n1 = next[1]
    OBVIOUS
  <1>6. /\ Linked(item, n0, n1) /\ (reg.cur > 0 => FirstId(reg) + reg.cur = n0)
        /\ reg.cur = 0 => cleaned \/ n0 = 0
    <2>1. 1 - 1 = 0
      OBVIOUS
    <2> QED
      BY <1>1, <1>4, <1>5, <2>1 DEF Chained
  <1>7. n0 <= n1
    <2>1. item.new \in Seq(Descs) /\ n1 = n0 + Len(item.new)
      BY <1>1, <1>6 DEF Linked, ItemType
    <2> HIDE DEF item
    <2>2. PICK l \in Nat : l = Len(item.new)
      BY <2>1, LenProperties
    <2>3. n1 = n0 + l
      BY <2>1, <2>2
    <2> QED
      BY <2>3
  <1> HIDE DEF q, item
  <1>8. /\ Len(Tail(q)) \in Nat /\ Len(q) = Len(Tail(q)) + 1
        /\ \A i \in 1..Len(Tail(q)) : Tail(q)[i] = q[i + 1] /\ i + 1 \in 1..Len(q)
        /\ \A i \in 1..Len(q) : i = 1 \/ (i - 1 \in 1..Len(Tail(q)) /\ Tail(q)[i - 1] = q[i])
    <2>1. q \in Seq(ItemType) /\ q # <<>>
      BY <1>1, <1>2
    <2> QED
      BY <2>1, QueueRest
  \* What is said later is still said.
  <1>9. ASSUME NEW c, NEW i \in 1..Len(Tail(q)), LastWord(Tail(q), i, c)
        PROVE  LastWord(q, i + 1, c)
    <2> SUFFICES ASSUME NEW j \in (i + 1 + 1)..Len(q), NEW d \in Mentions(q[j])
                 PROVE  d.id # c
      BY DEF LastWord
    <2>1. j - 1 \in (i + 1)..Len(Tail(q)) /\ j \in 1..Len(q) /\ j # 1
      BY <1>8
    <2>2. Tail(q)[j - 1] = q[j]
      BY <1>8, <2>1
    <2> QED
      BY <1>9, <2>1, <2>2 DEF LastWord
  <1>10. FreshInv'
    <2> SUFFICES ASSUME ~mQueueFull, NEW c \in Opened \ Listed, NEW i \in 1..Len(Tail(q)),
                        NEW d \in Mentions(Tail(q)[i]), d.id = c, LastWord(Tail(q), i, c)
                 PROVE  d = DescIn(conns, c)
      BY <1>1, <1>3 DEF FreshInv, q
    <2>1. i + 1 \in 1..Len(q) /\ d \in Mentions(q[i + 1]) /\ LastWord(q, i + 1, c)
      BY <1>8, <1>9
    <2> QED
      BY <2>1 DEF ShowInv, FreshInv, q
  <1>11. ShownInv'
    <2> SUFFICES ASSUME ~mQueueFull, NEW c \in Opened, c \notin Listed, ~Mentioned(Tail(q), c)
                 PROVE  Shown(c)' \/ Dropped(c)'
      BY <1>1, <1>3 DEF ShownInv, q
    <2>1. \A d \in Mentions(item) : d.id = c => d = DescIn(conns, c)
      <3>1. LastWord(q, 1, c)
        <4> SUFFICES ASSUME NEW j \in (1 + 1)..Len(q), NEW d \in Mentions(q[j])
                     PROVE  d.id # c
          BY DEF LastWord
        <4>1. j \in 1..Len(q) /\ j # 1
          BY <1>8
        <4> QED
          BY <1>8, <4>1 DEF Mentioned
      <3> QED
        BY <1>1, <3>1 DEF ShowInv, FreshInv, q, item
    <2>2. ASSUME \A d \in Mentions(item) : d.id # c
          PROVE  ~Mentioned(q, c)
      BY <1>8, <2>2 DEF Mentioned, item
    <2>3. ASSUME \A d \in Mentions(item) : d.id # c
          PROVE  Shown(c) \/ Dropped(c)
      BY <2>2, <2>3 DEF ShowInv, ShownInv, q
    <2>4. CASE item.last
      BY <1>1, <2>3, <2>4, EmptyItem DEF Shown, Dropped
    <2>5. CASE ~item.last
      <3>1. reg' = Taken(reg, item)
        BY <1>1, <2>5
      <3> DEFINE u == Taken(reg, item)
      <3>2. c \in Int /\ c < n1
        <4>1. c < n0 \/ Mentioned(q, c)
          BY <1>4, <1>5
        <4>2. ASSUME Mentioned(q, c), ~(c < n1) PROVE FALSE
          <5>1. PICK i \in 1..Len(q) : \E d \in Mentions(q[i]) : d.id = c
            BY <4>2 DEF Mentioned
          <5>2. i # 1
            BY <1>6, <4>2, <5>1 DEF Linked, item
          <5> QED
            BY <1>8, <5>1, <5>2 DEF Mentioned
        <4>3. c \in Int
          BY DEF Opened
        <4> QED
          BY <1>7, <4>1, <4>2, <4>3
      <3>3. /\ reg.cur > 0 => /\ u.cur > 0
                              /\ FirstId(u) = FirstId(reg) + (u.untracked - reg.untracked)
            /\ u.untracked >= reg.untracked
            /\ u.cur = 0 => reg.cur = 0 /\ n1 = n0
            /\ RegOk(u)
        <4>1. RegOk(reg) /\ Consecutive(reg) /\ item \in ItemType
          BY <1>1, <1>2
        <4> QED
          BY <1>6, <4>1, TakenConsecutive
      <3>4. \/ u.cur = 0
            \/ c < FirstId(u)
            \/ \E i \in 1..u.cur, d \in Mentions(item) :
                   d.id = c /\ GetConn(u, i) = Accounted(d)
            \/ /\ \A d \in Mentions(item) : d.id # c
               /\ \E i \in 1..u.cur, j \in 1..reg.cur :
                      GetConn(reg, j).id = c /\ GetConn(u, i) = GetConn(reg, j)
        <4>1. RegOk(reg) /\ Consecutive(reg) /\ item \in ItemType
          BY <1>1, <1>2
        <4> QED
          BY <1>6, <3>2, <4>1, TakenShows
      <3> HIDE DEF u
      <3>5. u.cur \in Nat
        BY <3>3, SizeType DEF RegOk
      <3>6. CASE u.cur = 0
        <4>1. reg.cur = 0 /\ n1 = n0
          BY <3>3, <3>6
        <4>2. cleaned
          BY <1>6, <3>2, <4>1 DEF Opened
        <4> QED
          BY <1>1, <3>1, <3>6, <4>2 DEF Dropped, u
      <3>7. CASE u.cur # 0 /\ c < FirstId(u)
        BY <3>1, <3>5, <3>7 DEF Dropped, u
      <3>8. CASE \E i \in 1..u.cur, d \in Mentions(item) :
                   d.id = c /\ GetConn(u, i) = Accounted(d)
        BY <1>1, <2>1, <3>1, <3>8 DEF Shown, u
      <3>9. CASE /\ u.cur # 0 /\ ~(c < FirstId(u))
                 /\ \A d \in Mentions(item) : d.id # c
                 /\ \E i \in 1..u.cur, j \in 1..reg.cur :
                      GetConn(reg, j).id = c /\ GetConn(u, i) = GetConn(reg, j)
        <4>1. PICK i \in 1..u.cur, j \in 1..reg.cur :
                      GetConn(reg, j).id = c /\ GetConn(u, i) = GetConn(reg, j)
          BY <3>9
        <4>2. reg.cur > 0 /\ 1 \in 1..reg.cur /\ reg.cur \in Nat
          <5>1. reg.cur \in Nat
            BY <1>2, SizeType DEF RegOk
          <5> QED
            BY <4>1, <5>1
        <4>3. FirstId(reg) + j - 1 = c /\ FirstId(reg) \in Int
          <5>1. GetConn(reg, 1) \in Descs
            BY <1>2, <4>2, AtIsSlot
          <5>2. FirstId(reg) \in Int
            BY <5>1 DEF FirstId, Descs, Ids
          <5>3. GetConn(reg, j).id = FirstId(reg) + j - 1
            BY <1>2, <4>1 DEF Consecutive
          <5> QED
            BY <4>1, <5>2, <5>3
        <4>4. ~(c < FirstId(reg))
          BY <3>2, <4>3
        <4>5. Shown(c)
          BY <2>3, <3>9, <4>2, <4>4 DEF Dropped
        <4>6. PICK k \in 1..reg.cur : GetConn(reg, k) = Accounted(DescIn(conns, c))
          BY <4>5 DEF Shown
        <4>7. GetConn(reg, k).id = c
          BY <4>6 DEF Accounted, DescIn
        <4>8. k = j
          BY <1>2, <4>1, <4>6, <4>7, NumbersDiffer
        <4> QED
          BY <1>1, <3>1, <4>1, <4>6, <4>8 DEF Shown, u
      <3> QED
        BY <3>4, <3>6, <3>7, <3>8, <3>9
    <2> QED
      BY <2>4, <2>5
  <1> QED
    BY <1>10, <1>11 DEF ShowInv

LEMMA NextKeepsShow ==
  ASSUME DumpMayFail = FALSE, FlowInv, ShowInv, [Next]_vars
  PROVE  FlowInv' /\ ShowInv'
  <1>1. FlowInv'
    BY NextKeepsFlow
  <1>2. EngineInv'
    BY <1>1 DEF FlowInv
  <1>3. ShowInv'
    BY <1>2, StepKinds, ChangesShow, DumpsShow, OffersShow, RestsShow, TakeShow, CleanShow
  <1> QED
    BY <1>1, <1>3

LEMMA ShowIsKept ==
  ASSUME DumpMayFail = FALSE
  PROVE  Spec => [](FlowInv /\ ShowInv)
  <1>1. Init => FlowInv /\ ShowInv
    BY InitFlow, InitShow
  <1>2. FlowInv /\ ShowInv /\ [Next]_vars => (FlowInv /\ ShowInv)'
    BY NextKeepsShow
  <1> QED
    BY <1>1, <1>2, PTL DEF Spec

\* A connection that Shown finds is one of those of Shows.
LEMMA ShownShows ==
  ASSUME FlowInv, NEW c \in Opened, Shown(c)
  PROVE  \E i \in 1..reg.cur : /\ Shows(i, c)
                               /\ GetConn(reg, i).closed = (conns[c].status # "open")
  <1>1. PICK i \in 1..reg.cur : GetConn(reg, i) = Accounted(DescIn(conns, c))
    BY DEF Shown
  <1>2. Desc(c) = DescIn(conns, c)
    BY DEF Desc, DescIn
  <1>3. c \in Ids /\ conns \in [Ids -> Data]
    BY ListedPending DEF FlowInv, EngineInv, EngineType
  <1>4. DescIn(conns, c) \in Descs /\ DescIn(conns, c).id = c
    BY <1>3, DescInType
  <1>5. DescIn(conns, c).closed = (conns[c].status # "open")
    BY DEF DescIn
  <1>6. GetConn(reg, i).id = c /\ GetConn(reg, i).closed = DescIn(conns, c).closed
    BY <1>1, <1>4, AccountedType
  <1> QED
    BY <1>1, <1>2, <1>5, <1>6 DEF Shows

LEMMA MentionedInFlight ==
  ASSUME FlowInv, NEW c, c \in Listed \/ Mentioned(mPendingUpdates, c)
  PROVE  InFlight(c)
  <1>1. CASE Mentioned(mPendingUpdates, c)
    <2>1. PICK i \in 1..Len(mPendingUpdates) : \E d \in Mentions(mPendingUpdates[i]) : d.id = c
      BY <1>1 DEF Mentioned
    <2>2. /\ mPendingUpdates[i].new \in Seq(Descs) /\ mPendingUpdates[i].upd \in Seq(Descs)
          /\ i \in DOMAIN mPendingUpdates
      <3>1. mPendingUpdates \in Seq(ItemType)
        BY DEF FlowInv
      <3>2. mPendingUpdates[i] \in ItemType /\ DOMAIN mPendingUpdates = 1..Len(mPendingUpdates)
        BY <3>1, ElementOfSeq, LenProperties
      <3> QED
        BY <3>2 DEF ItemType
    <2>3. RangeOf(mPendingUpdates[i].new \o mPendingUpdates[i].upd)
              = Mentions(mPendingUpdates[i])
      BY <2>2, ConcatEntries DEF Mentions
    <2>4. c \in {d.id : d \in RangeOf(mPendingUpdates[i].new \o mPendingUpdates[i].upd)}
      BY <2>1, <2>3
    <2> QED
      BY <2>2, <2>4 DEF InFlight
  <1> QED
    BY <1>1 DEF InFlight

\* NothingIsLost: as long as no dump was lost for want of room, what the engine knows of a
\* connection is in the register, or listed for the next dump, or in the queue, or the
\* register has dropped the connection; for engines whose dumps do not fail.
THEOREM NothingLost ==
  ASSUME DumpMayFail = FALSE
  PROVE  Spec => []NothingIsLost
  <1>1. FlowInv /\ ShowInv => NothingIsLost
    <2> SUFFICES ASSUME FlowInv, ShowInv, ~mQueueFull, NEW c \in Opened
                 PROVE  \/ InFlight(c)
                        \/ \E i \in 1..reg.cur : Shows(i, c)
                        \/ reg.cur > 0 /\ c < GetConn(reg, 1).id
                        \/ reg.cur = 0 /\ cleaned
      BY DEF NothingIsLost
    <2>1. c \in Listed \/ Mentioned(mPendingUpdates, c) \/ Shown(c) \/ Dropped(c)
      BY DEF ShowInv, ShownInv
    <2> QED
      BY <2>1, MentionedInFlight, ShownShows DEF Dropped, FirstId
  <1> QED
    BY <1>1, ShowIsKept, PTL

\* EndIsShown: when the capture thread has joined the worker, the register shows every
\* connection as the engine left it and as closed, unless a dump was lost for want of room
\* or the register has dropped the connection; for engines whose dumps do not fail.
THEOREM EndShown ==
  ASSUME DumpMayFail = FALSE
  PROVE  Spec => []EndIsShown
  <1>1. FlowInv /\ ShowInv => EndIsShown
    <2> SUFFICES ASSUME FlowInv, ShowInv, capture = "done", ~mQueueFull, NEW c \in Opened
                 PROVE  \/ \E i \in 1..reg.cur : Shows(i, c) /\ GetConn(reg, i).closed
                        \/ cleaned \/ (reg.cur > 0 /\ c < GetConn(reg, 1).id)
      BY DEF EndIsShown
    <2>1. Listed = {} /\ \A i \in 1..Len(mPendingUpdates) : Empty(mPendingUpdates[i])
      BY DEF FlowInv, TermInv
    <2>2. ~Mentioned(mPendingUpdates, c)
      BY <2>1, EmptyItem DEF Mentioned
    <2>3. Shown(c) \/ Dropped(c)
      BY <2>1, <2>2 DEF ShowInv, ShownInv
    <2>4. conns[c].status = "freed"
      BY DEF FlowInv, EngineInv
    <2>5. CASE Shown(c)
      BY <2>4, <2>5, ShownShows
    <2>6. CASE Dropped(c)
      BY <2>6 DEF Dropped, FirstId
    <2> QED
      BY <2>3, <2>5, <2>6
  <1> QED
    BY <1>1, ShowIsKept, PTL
-----------------------------------------------------------------------------
(***************************************************************************)
(* What is told of a connection only moves forward.                        *)
(***************************************************************************)
\* Of the same connection, e is as far as d, or further.
Behind(d, e) == d.id = e.id => d.bytes <= e.bytes /\ (d.closed => e.closed)

\* Register, queue and engine, each as far as those before it
Forward(q, r, cs) ==
    /\ \A i, j \in 1..Len(q) : i <= j =>
           \A d \in Mentions(q[i]), e \in Mentions(q[j]) : Behind(d, e)
    /\ \A i \in 1..Len(q) : \A d \in Mentions(q[i]) : Behind(d, DescIn(cs, d.id))
    /\ \A p \in 1..r.cur :
           /\ Behind(GetConn(r, p), DescIn(cs, GetConn(r, p).id))
           /\ \A i \in 1..Len(q) : \A d \in Mentions(q[i]) : Behind(GetConn(r, p), d)

ForwardInv == Forward(mPendingUpdates, reg, conns)

LEMMA BehindDesc ==
  ASSUME NEW d \in Descs, NEW cs, NEW cs2, Behind(d, DescIn(cs, d.id)),
         cs[d.id].bytes \in Nat, cs2[d.id].bytes \in Nat,
         cs[d.id].bytes <= cs2[d.id].bytes,
         cs[d.id].status # "open" => cs2[d.id].status # "open"
  PROVE  Behind(d, DescIn(cs2, d.id))
  <1>1. d.bytes \in Nat
    BY DEF Descs
  <1>2. d.bytes <= cs[d.id].bytes /\ (d.closed => cs[d.id].status # "open")
    BY DEF Behind, DescIn
  <1>3. d.bytes <= cs2[d.id].bytes
    <2>1. PICK x \in Nat, y \in Nat, z \in Nat :
              x = d.bytes /\ y = cs[d.id].bytes /\ z = cs2[d.id].bytes
      BY <1>1
    <2> QED
      BY <1>2, <2>1
  <1> QED
    BY <1>2, <1>3 DEF Behind, DescIn

\* Queue and register are about descriptions of connections that were opened.
LEMMA DescsKnown ==
  ASSUME FlowInv
  PROVE  /\ \A i \in 1..Len(mPendingUpdates) : \A d \in Mentions(mPendingUpdates[i]) :
                d \in Descs /\ d.id \in Opened
         /\ \A p \in 1..reg.cur : GetConn(reg, p) \in Descs /\ GetConn(reg, p).id \in Opened
  <1>1. \A i \in 1..Len(mPendingUpdates) : mPendingUpdates[i] \in ItemType
    BY ElementOfSeq DEF FlowInv
  <1>2. \A i \in 1..Len(mPendingUpdates) : Mentions(mPendingUpdates[i]) \subseteq Descs
    BY <1>1, MentionsType
  <1>3. \A p \in 1..reg.cur : GetConn(reg, p) \in Descs
    BY AtIsSlot DEF FlowInv
  <1> QED
    BY <1>2, <1>3 DEF FlowInv, KnownInv

\* When the engine gets further
LEMMA ForwardGrow ==
  ASSUME FlowInv, ForwardInv, NEW cs,
         \A c \in Opened : /\ conns[c].bytes \in Nat /\ cs[c].bytes \in Nat
                           /\ conns[c].bytes <= cs[c].bytes
                           /\ conns[c].status # "open" => cs[c].status # "open"
  PROVE  Forward(mPendingUpdates, reg, cs)
  <1>1. \A i \in 1..Len(mPendingUpdates) : \A d \in Mentions(mPendingUpdates[i]) :
            Behind(d, DescIn(cs, d.id))
    BY DescsKnown, BehindDesc DEF ForwardInv, Forward
  <1>2. \A p \in 1..reg.cur : Behind(GetConn(reg, p), DescIn(cs, GetConn(reg, p).id))
    BY DescsKnown, BehindDesc DEF ForwardInv, Forward
  <1> QED
    BY <1>1, <1>2 DEF ForwardInv, Forward

\* When an item is queued that tells of connections as they are
LEMMA ForwardAppend ==
  ASSUME NEW q \in Seq(ItemType), NEW r, NEW cs, Forward(q, r, cs), NEW item \in ItemType,
         \A d \in Mentions(item) : d = DescIn(cs, d.id)
  PROVE  Forward(Append(q, item), r, cs)
  <1> DEFINE t == Append(q, item)
  <1>1. /\ Len(q) \in Nat /\ Len(t) = Len(q) + 1
        /\ \A i \in 1..Len(q) : t[i] = q[i]
        /\ t[Len(q) + 1] = item
    BY QueueAppend
  <1>2. Mentions(item) \subseteq Descs
    BY MentionsType
  <1>3. \A d \in Descs : Behind(d, d)
    BY DEF Behind, Descs
  <1> HIDE DEF t
  <1>4. \A i \in 1..Len(t) : (i \in 1..Len(q) /\ t[i] = q[i]) \/ (i = Len(q) + 1 /\ t[i] = item)
    BY <1>1
  <1>5. ASSUME NEW i \in 1..Len(t), NEW j \in 1..Len(t), i <= j,
               NEW d \in Mentions(t[i]), NEW e \in Mentions(t[j])
        PROVE  Behind(d, e)
    <2>1. CASE j \in 1..Len(q) /\ t[j] = q[j]
      <3>1. i \in 1..Len(q) /\ t[i] = q[i]
        BY <1>1, <1>4, <1>5, <2>1
      <3> QED
        BY <1>5, <2>1, <3>1 DEF Forward
    <2>2. CASE t[j] = item /\ i \in 1..Len(q) /\ t[i] = q[i]
      <3>1. Behind(d, DescIn(cs, d.id)) /\ e = DescIn(cs, e.id)
        BY <1>5, <2>2 DEF Forward
      <3>2. d.id = e.id => Behind(d, e)
        BY <3>1
      <3> QED
        BY <3>2 DEF Behind
    <2>3. CASE t[j] = item /\ t[i] = item
      <3>1. d = DescIn(cs, d.id) /\ e = DescIn(cs, e.id) /\ d \in Descs
        BY <1>2, <1>5, <2>3
      <3>2. d.id = e.id => Behind(d, e)
        BY <1>3, <3>1
      <3> QED
        BY <3>2 DEF Behind
    <2> QED
      BY <1>4, <2>1, <2>2, <2>3
  <1>6. \A i \in 1..Len(t) : \A d \in Mentions(t[i]) : Behind(d, DescIn(cs, d.id))
    BY <1>2, <1>3, <1>4 DEF Forward
  <1>7. ASSUME NEW p \in 1..r.cur, NEW i \in 1..Len(t), NEW d \in Mentions(t[i])
        PROVE  Behind(GetConn(r, p), d)
    <2>1. CASE i \in 1..Len(q) /\ t[i] = q[i]
      BY <1>7, <2>1 DEF Forward
    <2>2. CASE t[i] = item
      <3>1. Behind(GetConn(r, p), DescIn(cs, GetConn(r, p).id)) /\ d = DescIn(cs, d.id)
        BY <1>7, <2>2 DEF Forward
      <3>2. GetConn(r, p).id = d.id => Behind(GetConn(r, p), d)
        BY <3>1
      <3> QED
        BY <3>2 DEF Behind
    <2> QED
      BY <1>4, <2>1, <2>2
  <1>8. \A p \in 1..r.cur : Behind(GetConn(r, p), DescIn(cs, GetConn(r, p).id))
    BY DEF Forward
  <1>9. Forward(t, r, cs)
    BY <1>5, <1>6, <1>7, <1>8 DEF Forward
  <1> QED
    BY <1>9 DEF t

\* When the first item is taken into the register
LEMMA ForwardTail ==
  ASSUME NEW q \in Seq(ItemType), q # <<>>, NEW r, NEW cs, Forward(q, r, cs), NEW r2,
         \A i \in 1..r2.cur : \/ \E d \in Mentions(q[1]) : GetConn(r2, i) = Accounted(d)
                              \/ \E j \in 1..r.cur : GetConn(r2, i) = GetConn(r, j)
  PROVE  Forward(Tail(q), r2, cs)
  <1>1. /\ q[1] \in ItemType /\ Len(q) \in Nat /\ 1 \in 1..Len(q)
        /\ \A i \in 1..Len(Tail(q)) : Tail(q)[i] = q[i + 1] /\ i + 1 \in 1..Len(q)
    BY QueueTail
  <1>2. Mentions(q[1]) \subseteq Descs
    BY <1>1, MentionsType
  <1>3. \A i, j \in 1..Len(Tail(q)) : i <= j =>
            \A d \in Mentions(Tail(q)[i]), e \in Mentions(Tail(q)[j]) : Behind(d, e)
    <2> SUFFICES ASSUME NEW i \in 1..Len(Tail(q)), NEW j \in 1..Len(Tail(q)), i <= j
                 PROVE \A d \in Mentions(Tail(q)[i]), e \in Mentions(Tail(q)[j]) : Behind(d, e)
      OBVIOUS
    <2>1. i + 1 <= j + 1
      OBVIOUS
    <2> QED
      BY <1>1, <2>1 DEF Forward
  <1>4. \A i \in 1..Len(Tail(q)) : \A d \in Mentions(Tail(q)[i]) : Behind(d, DescIn(cs, d.id))
    BY <1>1 DEF Forward
  <1>5. ASSUME NEW p \in 1..r2.cur
        PROVE  /\ Behind(GetConn(r2, p), DescIn(cs, GetConn(r2, p).id))
               /\ \A i \in 1..Len(Tail(q)) : \A d \in Mentions(Tail(q)[i]) :
                      Behind(GetConn(r2, p), d)
    <2>1. CASE \E d \in Mentions(q[1]) : GetConn(r2, p) = Accounted(d)
      <3>1. PICK d \in Mentions(q[1]) : GetConn(r2, p) = Accounted(d)
        BY <2>1
      <3>2. /\ GetConn(r2, p).id = d.id /\ GetConn(r2, p).bytes = d.bytes
            /\ GetConn(r2, p).closed = d.closed
        BY <1>2, <3>1, AccountedType
      <3>3. Behind(d, DescIn(cs, d.id))
        BY <1>1 DEF Forward
      <3>4. \A i \in 1..Len(Tail(q)) : \A e \in Mentions(Tail(q)[i]) : Behind(d, e)
        <4> SUFFICES ASSUME NEW i \in 1..Len(Tail(q)) PROVE \A e \in Mentions(Tail(q)[i]) : Behind(d, e)
          OBVIOUS
        <4>1. 1 <= i + 1
          OBVIOUS
        <4> QED
          BY <1>1, <4>1 DEF Forward
      <3> QED
        BY <3>2, <3>3, <3>4 DEF Behind
    <2>2. CASE \E j \in 1..r.cur : GetConn(r2, p) = GetConn(r, j)
      BY <1>1, <2>2 DEF Forward
    <2> QED
      BY <1>5, <2>1, <2>2
  <1> QED
    BY <1>3, <1>4, <1>5 DEF Forward

LEMMA InitForward ==
  ASSUME Init
  PROVE  ForwardInv
  <1>1. Len(mPendingUpdates) = 0 /\ reg.cur = 0 /\ 1..0 = {}
    BY EmptyOk DEF Init
  <1> QED
    BY <1>1 DEF ForwardInv, Forward

\* What the worker makes of the register is told by the item or was there.
LEMMA TakeSources ==
  ASSUME FlowInv, Take
  PROVE  \A i \in 1..reg'.cur :
             \/ \E d \in Mentions(mPendingUpdates[1]) :
                    d.id = GetConn(reg', i).id /\ GetConn(reg', i) = Accounted(d)
             \/ \E j \in 1..reg.cur : GetConn(reg', i) = GetConn(reg, j)
  <1> DEFINE item == mPendingUpdates[1]
  <1>1. /\ item \in ItemType /\ 1 \in 1..Len(mPendingUpdates)
        /\ reg' = reg \/ reg' = Taken(reg, item)
    BY TakeStep
  <1>2. PICK next \in [Nat -> Nat] : Chained(mPendingUpdates, reg, cleaned, next)
    BY DEF FlowInv, Numbered
  <1>3. PICK n0 \in Nat, n1 \in Nat : n0 = next[0] /\ n1 = next[1]
    OBVIOUS
  <1>4. Linked(item, n0, n1) /\ (reg.cur > 0 => FirstId(reg) + reg.cur = n0)
    <2>1. 1 - 1 = 0
      OBVIOUS
    <2> QED
      BY <1>1, <1>2, <1>3, <2>1 DEF Chained
  <1>5. RegOk(reg) /\ Consecutive(reg)
    BY DEF FlowInv
  <1> HIDE DEF item
  <1>6. CASE reg' = reg
    BY <1>6
  <1>7. CASE reg' = Taken(reg, item)
    <2> SUFFICES ASSUME NEW i \in 1..Taken(reg, item).cur
                 PROVE  \/ \E d \in Mentions(item) :
                               /\ d.id = GetConn(Taken(reg, item), i).id
                               /\ GetConn(Taken(reg, item), i) = Accounted(d)
                        \/ \E j \in 1..reg.cur :
                               GetConn(Taken(reg, item), i) = GetConn(reg, j)
      BY <1>7 DEF item
    <2> DEFINE g == GetConn(Taken(reg, item), i)
    <2>1. \/ \E d \in Mentions(item) : d.id = g.id /\ g = Accounted(d)
          \/ /\ \E j \in 1..reg.cur : g = GetConn(reg, j)
             /\ \A d \in Mentions(item) : d.id # g.id
      <3>1. RegOk(reg) /\ Consecutive(reg) /\ item \in ItemType
        BY <1>1, <1>5
      <3> QED
        BY <1>4, <3>1, TakenOrigin
    <2> QED
      BY <2>1
  <1> QED
    BY <1>1, <1>6, <1>7

LEMMA NextKeepsForward ==
  ASSUME DumpMayFail = FALSE, FlowInv, ForwardInv, [Next]_vars
  PROVE  ForwardInv'
  <1>1. FlowInv' /\ EngineInv /\ EngineInv'
    BY NextKeepsFlow DEF FlowInv
  <1>2. /\ \A c \in Ids : conns[c].bytes \in Nat /\ conns'[c].bytes \in Nat
        /\ Opened \subseteq Ids
    BY <1>1, ListedPending DEF EngineInv, EngineType, Data
  <1>3. mPendingUpdates \in Seq(ItemType)
    BY DEF FlowInv
  <1>4. ASSUME NEW c, Changes(c)
        PROVE  ForwardInv'
    <2>1. c \in Opened => conns[c].status = "open" /\ conns'[c].bytes >= conns[c].bytes
      BY <1>1, <1>4 DEF Changes, Opened, EngineInv, EngineType
    <2>2. \A e \in Opened : e # c => conns'[e] = conns[e]
      BY <1>2, <1>4 DEF Changes
    <2>3. \A e \in Opened : /\ conns[e].bytes <= conns'[e].bytes
                            /\ conns[e].status # "open" => conns'[e].status # "open"
      BY <1>2, <2>1, <2>2
    <2>4. Forward(mPendingUpdates, reg, conns')
      BY <1>2, <2>3, ForwardGrow
    <2> QED
      BY <1>4, <2>4 DEF Changes, ForwardInv
  <1>5. ASSUME NEW item, Dumps(item)
        PROVE  ForwardInv'
    <2>1. \A e \in Opened : /\ conns[e].bytes <= conns'[e].bytes
                            /\ conns[e].status # "open" => conns'[e].status # "open"
      BY <1>2, <1>5 DEF Dumps
    <2>2. Forward(mPendingUpdates, reg, conns')
      BY <1>2, <2>1, ForwardGrow
    <2>3. item \in ItemType /\ \A d \in Mentions(item) : d = DescIn(conns', d.id)
      BY <1>5 DEF Dumps
    <2>4. Forward(Append(mPendingUpdates, item), reg, conns')
      BY <1>3, <2>2, <2>3, ForwardAppend
    <2>5. reg' = reg /\ (mPendingUpdates' = Append(mPendingUpdates, item)
                         \/ mPendingUpdates' = mPendingUpdates)
      BY <1>5, QueueOrFull DEF Dumps
    <2> QED
      BY <2>2, <2>4, <2>5 DEF ForwardInv
  <1>6. ASSUME NEW item, Offers(item)
        PROVE  ForwardInv'
    <2>1. item \in ItemType /\ Mentions(item) = {}
      BY <1>6, EmptyItem DEF Offers
    <2>2. Forward(Append(mPendingUpdates, item), reg, conns)
      BY <1>3, <2>1, ForwardAppend DEF ForwardInv
    <2>3. reg' = reg /\ conns' = conns
          /\ (mPendingUpdates' = Append(mPendingUpdates, item)
              \/ mPendingUpdates' = mPendingUpdates)
      BY <1>6 DEF Offers, engineVars
    <2> QED
      BY <2>2, <2>3 DEF ForwardInv
  <1>7. CASE Rests
    BY <1>7 DEF Rests, engineVars, ForwardInv
  <1>8. CASE Take
    <2>1. /\ mPendingUpdates # <<>> /\ mPendingUpdates' = Tail(mPendingUpdates)
          /\ conns' = conns
      BY <1>8, TakeStep
    <2>2. \A i \in 1..reg'.cur :
              \/ \E d \in Mentions(mPendingUpdates[1]) : GetConn(reg', i) = Accounted(d)
              \/ \E j \in 1..reg.cur : GetConn(reg', i) = GetConn(reg, j)
      BY <1>8, TakeSources
    <2>3. Forward(Tail(mPendingUpdates), reg', conns)
      BY <1>3, <2>1, <2>2, ForwardTail DEF ForwardInv
    <2> QED
      BY <2>1, <2>3 DEF ForwardInv
  <1>9. CASE Clean
    <2>1. /\ UNCHANGED <<conns, mPendingUpdates>>
          /\ reg' = reg \/ reg'.cur = 0
      BY <1>9, EmptiedOk DEF Clean, engineVars, serviceVars, FlowInv
    <2>2. 1..0 = {}
      OBVIOUS
    <2> QED
      BY <2>1, <2>2 DEF ForwardInv, Forward
  <1> QED
    BY <1>1, <1>4, <1>5, <1>6, <1>7, <1>8, <1>9, StepKinds
-----------------------------------------------------------------------------
(***************************************************************************)
(* The register is the list it promises.                                   *)
(***************************************************************************)
LEMMA TrackedList ==
  ASSUME NEW r, RegOk(r)
  PROVE  /\ Tracked(r) \in Seq(Descs) /\ Len(Tracked(r)) = r.cur
         /\ \A i \in 1..r.cur : Tracked(r)[i] = GetConn(r, i)
         /\ r.cur = 0 => Tracked(r) = <<>>
  <1>1. r.cur \in Nat
    BY SizeType DEF RegOk
  <1>2. \A i \in 1..r.cur : GetConn(r, i) \in Descs
    BY AtIsSlot
  <1>3. Tracked(r) \in [1..r.cur -> Descs] /\ \A i \in 1..r.cur : Tracked(r)[i] = GetConn(r, i)
    BY <1>2 DEF Tracked
  <1>4. Tracked(r) \in Seq(Descs)
    BY <1>1, <1>3, IsASeq
  <1>5. DOMAIN Tracked(r) = 1..r.cur
    BY <1>3
  <1>6. Len(Tracked(r)) = r.cur
    BY <1>1, <1>4, <1>5, LenProperties
  <1> QED
    BY <1>3, <1>4, <1>6, EmptySeq

\* The connections that an item pushes out, or for which there is no room at all
LEMMA TakenCounts ==
  ASSUME NEW r, RegOk(r), Consecutive(r), NEW n0 \in Nat, NEW n1 \in Nat,
         r.cur > 0 => FirstId(r) + r.cur = n0,
         NEW item \in ItemType, Linked(item, n0, n1)
  PROVE  LET u == Taken(r, item)
         IN  /\ u.cur \in 0..Size /\ r.cur \in 0..Size
             /\ u.untracked \in Nat /\ r.untracked \in Nat
             /\ u.untracked > r.untracked => u.cur = Size
             /\ u.cur >= r.cur - (u.untracked - r.untracked)
  <1> DEFINE a == Added(r, item.new)
             u == Updated(a, item.upd)
             len == Len(item.new)
             n == Lesser(len, Size)
             out == OutItems(r, n)
  <1>1. item.new \in Seq(Descs) /\ item.upd \in Seq(Descs) /\ len \in Nat
    BY MentionsType, LenProperties
  <1>2. \A j \in 1..Len(item.new) : item.new[j].id = n0 + j - 1
    BY DEF Linked
  <1>3. Consecutive(a)
    BY <1>1, <1>2, AddedConsecutive
  <1>4. /\ RegOk(a) /\ out \in 0..r.cur /\ n \in 0..len
        /\ a.cur = r.cur - out + n
        /\ out > 0 => a.cur = Size
        /\ n < len => n = Size
        /\ a.untracked = r.untracked + (len - n) + out
    BY <1>1, AddedLists
  <1>5. Taken(r, item) = u
    BY DEF Taken
  <1> HIDE DEF a
  <1>6. u.cur = a.cur /\ u.untracked = a.untracked
    BY <1>1, <1>3, <1>4, UpdatedLists
  <1>7. a.cur \in 0..Size /\ a.untracked \in Nat /\ r.cur \in 0..Size /\ r.untracked \in Nat
    BY <1>4 DEF RegOk
  <1> HIDE DEF u, len, n, out
  <1>8. out \in Int /\ n \in Int
    BY <1>1, <1>4, <1>7, SizeType
  <1>9. PICK ac \in Int, au \in Nat, rc \in Int, ru \in Nat, l \in Nat, m \in Int, o \in Int,
             s \in Nat :
            /\ ac = a.cur /\ au = a.untracked /\ rc = r.cur /\ ru = r.untracked
            /\ l = len /\ m = n /\ o = out /\ s = Size
    BY <1>1, <1>7, <1>8, SizeType
  <1>10. /\ ac \in 0..s /\ rc \in 0..s /\ o \in 0..rc /\ m \in 0..l
         /\ ac = rc - o + m /\ (o > 0 => ac = s) /\ (m < l => m = s)
         /\ au = ru + (l - m) + o
    BY <1>4, <1>7, <1>9
  <1>11. au > ru => ac = s
    BY <1>10
  <1>12. ac >= rc - (au - ru)
    BY <1>10
  <1> QED
    BY <1>5, <1>6, <1>7, <1>9, <1>11, <1>12

\* What the worker takes makes the list advance.
LEMMA TakeAdvances ==
  ASSUME FlowInv, FlowInv', ForwardInv, Take, reg' # reg
  PROVE  Log!Advance
  <1> DEFINE item == mPendingUpdates[1]
  <1>1. /\ item \in ItemType /\ 1 \in 1..Len(mPendingUpdates)
        /\ reg' = Taken(reg, item)
    BY TakeStep
  <1>2. PICK next \in [Nat -> Nat] : Chained(mPendingUpdates, reg, cleaned, next)
    BY DEF FlowInv, Numbered
  <1>3. PICK n0 \in Nat, n1 \in Nat : n0 = next[0] /\ n1 = next[1]
    OBVIOUS
  <1>4. Linked(item, n0, n1) /\ (reg.cur > 0 => FirstId(reg) + reg.cur = n0)
    <2>1. 1 - 1 = 0
      OBVIOUS
    <2> QED
      BY <1>1, <1>2, <1>3, <2>1 DEF Chained
  <1>5. RegOk(reg) /\ Consecutive(reg) /\ RegOk(reg') /\ Consecutive(reg')
    BY DEF FlowInv
  <1> DEFINE u == reg'
  <1>6. /\ u.cur \in 0..Size /\ reg.cur \in 0..Size
        /\ u.untracked \in Nat /\ reg.untracked \in Nat
        /\ u.untracked > reg.untracked => u.cur = Size
        /\ u.cur >= reg.cur - (u.untracked - reg.untracked)
    <2>1. RegOk(reg) /\ Consecutive(reg) /\ item \in ItemType
      BY <1>1, <1>5
    <2> HIDE DEF item
    <2> QED
      BY <1>1, <1>4, <2>1, TakenCounts
  <1>7. /\ reg.cur > 0 => /\ u.cur > 0
                          /\ FirstId(u) = FirstId(reg) + (u.untracked - reg.untracked)
        /\ u.untracked >= reg.untracked
    <2>1. RegOk(reg) /\ Consecutive(reg) /\ item \in ItemType
      BY <1>1, <1>5
    <2> HIDE DEF item
    <2>2. /\ reg.cur > 0 =>
                 /\ Taken(reg, item).cur > 0
                 /\ FirstId(Taken(reg, item))
                       = FirstId(reg) + (Taken(reg, item).untracked - reg.untracked)
          /\ Taken(reg, item).untracked >= reg.untracked
      BY <1>4, <2>1, TakenConsecutive
    <2> QED
      BY <1>1, <2>2
  <1>8. /\ Len(Tracked(reg)) = reg.cur /\ Len(Tracked(u)) = u.cur
        /\ \A i \in 1..reg.cur : Tracked(reg)[i] = GetConn(reg, i)
        /\ \A i \in 1..u.cur : Tracked(u)[i] = GetConn(u, i)
        /\ reg.cur = 0 => Tracked(reg) = <<>>
    BY <1>5, TrackedList
  <1> HIDE DEF u, item
  <1>9. PICK gone \in Nat, rc \in 0..Size, uc \in 0..Size :
            /\ gone = u.untracked - reg.untracked /\ rc = reg.cur /\ uc = u.cur
            /\ gone > 0 => uc = Size
            /\ uc >= rc - gone
    BY <1>6, <1>7
  <1>10. rc \in Nat /\ uc \in Nat
    BY SizeType
  <1>11. /\ \A i \in 1..rc : GetConn(reg, i) \in Descs
         /\ \A i \in 1..uc : GetConn(u, i) \in Descs
         /\ \A i \in 1..rc : GetConn(reg, i).id = FirstId(reg) + i - 1
         /\ \A i \in 1..uc : GetConn(u, i).id = FirstId(u) + i - 1
    BY <1>5, <1>9, AtIsSlot DEF Consecutive, u
  <1>12. ASSUME NEW i \in 1..rc, i > gone
         PROVE  Log!Follows(GetConn(u, i - gone), GetConn(reg, i))
    <2>1. i - gone \in 1..uc /\ 1 \in 1..rc
      BY <1>9, <1>10, <1>12
    <2>2. GetConn(u, i - gone).id = GetConn(reg, i).id
      <3>1. FirstId(reg) \in Int /\ FirstId(u) = FirstId(reg) + gone
        BY <1>7, <1>9, <1>10, <1>11, <2>1 DEF FirstId, Descs, Ids
      <3>2. /\ GetConn(reg, i).id = FirstId(reg) + i - 1
            /\ GetConn(u, i - gone).id = FirstId(u) + (i - gone) - 1
        BY <1>11, <2>1
      <3> QED
        BY <3>1, <3>2
    <2>3. \/ \E d \in Mentions(item) :
                 d.id = GetConn(u, i - gone).id /\ GetConn(u, i - gone) = Accounted(d)
          \/ \E j \in 1..rc : GetConn(u, i - gone) = GetConn(reg, j)
      BY <1>9, <2>1, TakeSources DEF u, item
    <2>4. CASE \E d \in Mentions(item) :
                 d.id = GetConn(u, i - gone).id /\ GetConn(u, i - gone) = Accounted(d)
      <3>1. PICK d \in Mentions(item) :
                 d.id = GetConn(u, i - gone).id /\ GetConn(u, i - gone) = Accounted(d)
        BY <2>4
      <3>2. d \in Descs
        BY <1>1, MentionsType
      <3>3. GetConn(u, i - gone).bytes = d.bytes /\ GetConn(u, i - gone).closed = d.closed
        BY <3>1, <3>2, AccountedType
      <3>4. Behind(GetConn(reg, i), d)
        BY <1>1, <1>9 DEF ForwardInv, Forward, item
      <3>5. GetConn(reg, i).bytes \in Nat /\ d.bytes \in Nat
        BY <1>11, <3>2 DEF Descs
      <3> QED
        BY <2>2, <3>1, <3>3, <3>4, <3>5 DEF Behind, Log!Follows
    <2>5. CASE \E j \in 1..rc : GetConn(u, i - gone) = GetConn(reg, j)
      <3>1. PICK j \in 1..rc : GetConn(u, i - gone) = GetConn(reg, j)
        BY <2>5
      <3>2. j = i
        BY <1>5, <1>9, <2>2, <3>1, NumbersDiffer
      <3>3. GetConn(reg, i).bytes \in Nat
        BY <1>11 DEF Descs
      <3> QED
        BY <3>1, <3>2, <3>3 DEF Log!Follows
    <2> QED
      BY <2>3, <2>4, <2>5
  <1>13. /\ gone >= 0 /\ Len(Tracked(u)) <= Size
         /\ gone > 0 => Len(Tracked(u)) = Size
         /\ Len(Tracked(u)) >= Len(Tracked(reg)) - gone
    BY <1>8, <1>9, SizeType, SMTT(40)
  <1>14. \A i \in 1..Len(Tracked(reg)) :
             i > gone => Log!Follows(Tracked(u)[i - gone], Tracked(reg)[i])
    <2> SUFFICES ASSUME NEW i \in 1..rc, i > gone
                 PROVE  Log!Follows(Tracked(u)[i - gone], Tracked(reg)[i])
      BY <1>8, <1>9
    <2>1. i - gone \in 1..uc
      BY <1>9, <1>10
    <2> QED
      BY <1>8, <1>9, <1>12, <2>1
  <1>15. Tracked(reg) # <<>> => Tracked(u)[1].id = Tracked(reg)[1].id + gone
    <2> SUFFICES ASSUME Tracked(reg) # <<>>
                 PROVE  Tracked(u)[1].id = Tracked(reg)[1].id + gone
      OBVIOUS
    <2>1. rc > 0 /\ 1 \in 1..rc
      <3>1. rc # 0
        BY <1>8, <1>9
      <3> QED
        BY <1>10, <3>1
    <2>2. uc > 0 /\ 1 \in 1..uc
      <3>1. uc > 0
        BY <1>7, <1>9, <2>1
      <3> QED
        BY <1>10, <3>1
    <2> QED
      BY <1>7, <1>8, <1>9, <2>1, <2>2 DEF FirstId
  <1>16. Log!Consecutive(Tracked(u))
    <2> SUFFICES ASSUME NEW i \in 1..(uc - 1)
                 PROVE  Tracked(u)[i + 1].id = Tracked(u)[i].id + 1
      BY <1>8, <1>9 DEF Log!Consecutive
    <2>1. i \in 1..uc /\ i + 1 \in 1..uc /\ 1 \in 1..uc
      BY <1>10
    <2>2. FirstId(u) \in Int
      BY <1>11, <2>1 DEF FirstId, Descs, Ids
    <2>3. Tracked(u)[i].id = FirstId(u) + i - 1 /\ Tracked(u)[i + 1].id = FirstId(u) + (i + 1) - 1
      BY <1>8, <1>9, <1>11, <2>1
    <2> QED
      BY <2>2, <2>3
  <1>17. /\ Tracked(reg)' = Tracked(u) /\ (reg.untracked)' = u.untracked
    BY DEF u, Tracked
  <1> QED
    BY <1>9, <1>13, <1>14, <1>15, <1>16, <1>17 DEF Log!Advance

\* When the register is emptied, the list is cleared.
LEMMA CleanClears ==
  ASSUME FlowInv, Clean
  PROVE  Log!Clear \/ reg' = reg
  <1>1. RegOk(reg)
    BY DEF FlowInv
  <1>2. CASE reg.cur > CleanAbove /\ reg' = Emptied(reg)
    <2>1. Len(Tracked(reg)) > CleanAbove
      BY <1>1, <1>2, TrackedList
    <2>2. Tracked(Emptied(reg)) = <<>> /\ Emptied(reg).untracked = 0
      BY <1>1, EmptiedOk, TrackedList
    <2>3. Tracked(reg)' = <<>> /\ (reg.untracked)' = 0
      BY <1>2, <2>2 DEF Tracked
    <2> QED
      BY <2>1, <2>3 DEF Log!Clear
  <1> QED
    BY <1>2 DEF Clean

\* RegisterIsLog: the register implements the list of ConnectionsLog, whatever the sizes of
\* the ring, of the queue and of a dump: connections enter in the order of their numbers
\* and without a gap, leave at the front and are counted, and never go back; for engines
\* whose dumps do not fail.
THEOREM RegisterImplementsLog ==
  ASSUME DumpMayFail = FALSE
  PROVE  Spec => RegisterIsLog
  <1>1. Init => Log!Init
    <2> SUFFICES ASSUME Init PROVE Log!Init
      OBVIOUS
    <2>1. reg = EmptyRegister /\ RegOk(reg) /\ reg.cur = 0 /\ reg.untracked = 0
      BY EmptyOk DEF Init, EmptyRegister
    <2> QED
      BY <2>1, TrackedList DEF Log!Init
  <1>2. Init => FlowInv /\ ForwardInv
    BY InitFlow, InitForward
  <1>3. FlowInv /\ ForwardInv /\ [Next]_vars => (FlowInv /\ ForwardInv)'
    BY NextKeepsFlow, NextKeepsForward
  <1>4. FlowInv /\ ForwardInv /\ [Next]_vars => [Log!Next]_<<Tracked(reg), reg.untracked>>
    <2> SUFFICES ASSUME FlowInv, ForwardInv, [Next]_vars
                 PROVE  [Log!Next]_<<Tracked(reg), reg.untracked>>
      OBVIOUS
    <2>1. FlowInv' /\ EngineInv'
      BY NextKeepsFlow DEF FlowInv
    <2>2. reg' = reg => UNCHANGED <<Tracked(reg), reg.untracked>>
      BY DEF Tracked
    <2>3. CASE Take
      BY <2>1, <2>2, <2>3, TakeAdvances DEF Log!Next
    <2>4. CASE Clean
      BY <2>2, <2>4, CleanClears DEF Log!Next
    <2>5. (\E c : Changes(c)) \/ (\E item : Dumps(item)) \/ (\E item : Offers(item)) \/ Rests
              => reg' = reg
      BY DEF Changes, Dumps, Offers, Rests
    <2> QED
      BY <2>1, <2>2, <2>3, <2>4, <2>5, StepKinds
  <1> QED
    BY <1>1, <1>2, <1>3, <1>4, PTL DEF Spec, RegisterIsLog, Log!LogSpec
-----------------------------------------------------------------------------
(***************************************************************************)
(* Sums and maxima over the ring.                                          *)
(***************************************************************************)
LEMMA LeastNumber ==
  ASSUME NEW S \in SUBSET Nat, S # {}
  PROVE  \E n \in S : \A m \in S : n <= m
  <1> DEFINE R == OpToRel(<, Nat)
  <1>1. IsWellFoundedOn(R, Nat)
    BY NatLessThanWellFounded, Zenon
  <1>2. \A m, n \in Nat : m < n => <<m, n>> \in R
    BY DEF OpToRel
  <1> HIDE DEF R
  <1>3. PICK n \in S : \A m \in S : ~(<<m, n>> \in R)
    BY <1>1, WFMin, Zenon
  <1>4. ASSUME NEW m \in S PROVE n <= m
    <2>1. m \in Nat /\ n \in Nat
      OBVIOUS
    <2>2. ~(m < n)
      BY <1>2, <1>3, <2>1
    <2> QED
      BY <2>1, <2>2
  <1> QED
    BY <1>4

\* Induction, of a set
LEMMA AllNumbers ==
  ASSUME NEW S, 0 \in S, \A n \in Nat : n \in S => n + 1 \in S
  PROVE  Nat \subseteq S
  <1> SUFFICES ASSUME Nat \ S # {} PROVE FALSE
    OBVIOUS
  <1>1. PICK n \in Nat \ S : \A m \in Nat \ S : n <= m
    BY LeastNumber
  <1>2. n # 0
    BY <1>1
  <1>3. n - 1 \in Nat /\ n - 1 \in S /\ n = (n - 1) + 1
    BY <1>1, <1>2
  <1> QED
    BY <1>1, <1>3

\* The partial sums of the weights w of the slots
IsSum(f, w) ==
    /\ f \in [0..Size -> Nat] /\ f[0] = 0
    /\ \A n \in 1..Size : f[n] = f[n - 1] + w[n - 1]

LEMMA SumExists ==
  ASSUME NEW w \in [Slots -> Nat]
  PROVE  \E f : IsSum(f, w)
  <1> DEFINE Part(f, k) == /\ f \in [Nat -> Nat] /\ f[0] = 0
                           /\ \A n \in 1..k : n <= Size => f[n] = f[n - 1] + w[n - 1]
             S == {k \in Nat : \E f : Part(f, k)}
  <1>1. 0 \in S
    <2> DEFINE z == [n \in Nat |-> 0]
    <2>1. z \in [Nat -> Nat] /\ z[0] = 0 /\ 1..0 = {}
      OBVIOUS
    <2> HIDE DEF z
    <2>2. Part(z, 0)
      BY <2>1
    <2> QED
      BY <2>2
  <1>2. ASSUME NEW k \in Nat, k \in S
        PROVE  k + 1 \in S
    <2>1. PICK f : Part(f, k)
      BY <1>2
    <2> DEFINE x == IF k < Size THEN w[k] ELSE 0
               g == [n \in Nat |-> IF n = k + 1 THEN f[k] + x ELSE f[n]]
    <2>2. x \in Nat
      BY SizeType
    <2>3. k + 1 \in Nat /\ k + 1 # 0 /\ (k + 1) - 1 = k /\ f[k] \in Nat
      BY <2>1
    <2>4. g \in [Nat -> Nat] /\ g[0] = 0 /\ g[k + 1] = f[k] + x
      BY <2>1, <2>2, <2>3
    <2>5. \A n \in Nat : n # k + 1 => g[n] = f[n]
      OBVIOUS
    <2> HIDE DEF g
    <2>6. ASSUME NEW n \in 1..(k + 1), n <= Size
          PROVE  g[n] = g[n - 1] + w[n - 1]
      <3>1. CASE n = k + 1
        <4>1. k # k + 1 /\ k < Size
          BY <2>6, <3>1, SizeType
        <4> QED
          BY <2>3, <2>4, <2>5, <3>1, <4>1
      <3>2. CASE n # k + 1
        <4>1. n \in 1..k /\ n - 1 \in Nat /\ n - 1 # k + 1 /\ n \in Nat
          BY <3>2
        <4> QED
          BY <2>1, <2>5, <2>6, <3>2, <4>1
      <3> QED
        BY <3>1, <3>2
    <2>7. Part(g, k + 1)
      BY <2>4, <2>6
    <2> QED
      BY <2>7
  <1> HIDE DEF S
  <1>3. Size \in S
    <2>1. \A n \in Nat : n \in S => n + 1 \in S
      BY <1>2
    <2>2. Nat \subseteq S
      BY <1>1, <2>1, AllNumbers
    <2> QED
      BY <2>2, SizeType
  <1>4. PICK f : Part(f, Size)
    BY <1>3 DEF S
  <1> DEFINE h == [n \in 0..Size |-> f[n]]
  <1>5. h \in [0..Size -> Nat] /\ h[0] = 0
    BY <1>4, SizeType
  <1>6. \A n \in 1..Size : h[n] = f[n] /\ h[n - 1] = f[n - 1] /\ n <= Size
    BY SizeType
  <1> HIDE DEF h
  <1>7. IsSum(h, w)
    BY <1>4, <1>5, <1>6 DEF IsSum
  <1> QED
    BY <1>7

\* Weights that balance have sums that do.
LEMMA SumsBalance ==
  ASSUME NEW w1 \in [Slots -> Nat], NEW w2 \in [Slots -> Nat], NEW w3 \in [Slots -> Nat],
         NEW w4 \in [Slots -> Nat], \A p \in Slots : w1[p] + w2[p] = w3[p] + w4[p],
         NEW f1, IsSum(f1, w1), NEW f2, IsSum(f2, w2), NEW f3, IsSum(f3, w3),
         NEW f4, IsSum(f4, w4)
  PROVE  f1[Size] + f2[Size] = f3[Size] + f4[Size]
  <1> DEFINE S == {n \in Nat : n <= Size => f1[n] + f2[n] = f3[n] + f4[n]}
  <1>1. 0 \in S
    BY DEF IsSum
  <1>2. ASSUME NEW n \in Nat, n \in S
        PROVE  n + 1 \in S
    <2> SUFFICES ASSUME n + 1 <= Size
                 PROVE  f1[n + 1] + f2[n + 1] = f3[n + 1] + f4[n + 1]
      OBVIOUS
    <2>1. n \in Slots /\ n \in 0..Size /\ n + 1 \in 1..Size /\ (n + 1) - 1 = n
      BY SizeType
    <2>2. f1[n] + f2[n] = f3[n] + f4[n]
      BY <1>2, <2>1
    <2>3. /\ f1[n + 1] = f1[n] + w1[n] /\ f2[n + 1] = f2[n] + w2[n]
          /\ f3[n + 1] = f3[n] + w3[n] /\ f4[n + 1] = f4[n] + w4[n]
      BY <2>1 DEF IsSum
    <2>4. /\ f1[n] \in Nat /\ f2[n] \in Nat /\ f3[n] \in Nat /\ f4[n] \in Nat
          /\ w1[n] \in Nat /\ w2[n] \in Nat /\ w3[n] \in Nat /\ w4[n] \in Nat
      BY <2>1 DEF IsSum
    <2>5. w1[n] + w2[n] = w3[n] + w4[n]
      BY <2>1
    <2>6. PICK a1 \in Nat, a2 \in Nat, a3 \in Nat, a4 \in Nat :
              a1 = f1[n] /\ a2 = f2[n] /\ a3 = f3[n] /\ a4 = f4[n]
      BY <2>4
    <2>7. PICK b1 \in Nat, b2 \in Nat, b3 \in Nat, b4 \in Nat :
              b1 = w1[n] /\ b2 = w2[n] /\ b3 = w3[n] /\ b4 = w4[n]
      BY <2>4
    <2>8. a1 + a2 = a3 + a4 /\ b1 + b2 = b3 + b4
      BY <2>2, <2>5, <2>6, <2>7
    <2>9. (a1 + b1) + (a2 + b2) = (a3 + b3) + (a4 + b4)
      BY <2>8
    <2> QED
      BY <2>3, <2>6, <2>7, <2>9
  <1> HIDE DEF S
  <1>3. Size \in S
    <2>1. \A n \in Nat : n \in S => n + 1 \in S
      BY <1>2
    <2>2. Nat \subseteq S
      BY <1>1, <2>1, AllNumbers
    <2> QED
      BY <2>2, SizeType
  <1> QED
    BY <1>3, SizeType DEF S

Weight(P, ring) == [p \in Slots |-> IF p \in P THEN ring[p].bytes ELSE 0]

LEMMA BytesAreSum ==
  ASSUME NEW P, NEW ring \in [Slots -> Descs \cup {NoConn}]
  PROVE  /\ Weight(P, ring) \in [Slots -> Nat]
         /\ \E f : IsSum(f, Weight(P, ring)) /\ BytesOf(P, ring) = f[Size]
  <1> DEFINE w == Weight(P, ring)
             Step(f) == [n \in 0..Size |->
                            IF n = 0 THEN 0
                            ELSE f[n - 1] + (IF n - 1 \in P THEN ring[n - 1].bytes ELSE 0)]
             g == CHOOSE f : f = Step(f)
  <1>1. w \in [Slots -> Nat]
    BY DEF Weight, Descs, NoConn
  <1>2. \A n \in 1..Size : n - 1 \in Slots
                           /\ w[n - 1] = (IF n - 1 \in P THEN ring[n - 1].bytes ELSE 0)
    BY SizeType DEF Weight
  <1>3. BytesOf(P, ring) = g[Size]
    BY DEF BytesOf
  <1> HIDE DEF w
  <1>4. PICK f : IsSum(f, w)
    BY <1>1, SumExists
  <1>5. f = Step(f)
    <2>1. \A n \in 0..Size : Step(f)[n] = f[n]
      <3> SUFFICES ASSUME NEW n \in 0..Size PROVE Step(f)[n] = f[n]
        OBVIOUS
      <3>1. CASE n = 0
        BY <1>4, <3>1 DEF IsSum
      <3>2. CASE n # 0
        <4>1. n \in 1..Size
          BY <3>2, SizeType
        <4> QED
          BY <1>2, <1>4, <3>2, <4>1 DEF IsSum
      <3> QED
        BY <3>1, <3>2
    <2>2. f = [n \in 0..Size |-> f[n]]
      BY <1>4 DEF IsSum
    <2> QED
      BY <2>1, <2>2
  <1>6. g = Step(g)
    BY <1>5
  <1>7. /\ g[0] = 0
        /\ \A n \in 1..Size :
               g[n] = g[n - 1] + (IF n - 1 \in P THEN ring[n - 1].bytes ELSE 0)
    <2> HIDE DEF g
    <2>1. \A n \in 0..Size : g[n] = Step(g)[n]
      BY <1>6
    <2>2. 0 \in 0..Size /\ \A n \in 1..Size : n \in 0..Size /\ n # 0
      BY SizeType
    <2> QED
      BY <2>1, <2>2
  <1> HIDE DEF g
  <1> DEFINE S == {n \in Nat : n <= Size => g[n] = f[n]}
  <1>8. 0 \in S
    BY <1>4, <1>7 DEF IsSum
  <1>9. ASSUME NEW n \in Nat, n \in S
        PROVE  n + 1 \in S
    <2> SUFFICES ASSUME n + 1 <= Size PROVE g[n + 1] = f[n + 1]
      OBVIOUS
    <2>1. n + 1 \in 1..Size /\ (n + 1) - 1 = n /\ g[n] = f[n]
      BY <1>9, SizeType
    <2> QED
      BY <1>2, <1>4, <1>7, <2>1 DEF IsSum
  <1> HIDE DEF S
  <1>10. g[Size] = f[Size]
    <2>1. \A n \in Nat : n \in S => n + 1 \in S
      BY <1>9
    <2>2. Nat \subseteq S
      BY <1>8, <2>1, AllNumbers
    <2> QED
      BY <2>2, SizeType DEF S
  <1> QED
    BY <1>1, <1>3, <1>4, <1>10 DEF w

\* Position by position, the ring r1 within P1 and r2 within P2 weigh what r3
\* within P3 and r4 within P4 do
Balanced(P1, r1, P2, r2, P3, r3, P4, r4) ==
  /\ r1 \in [Slots -> Descs \cup {NoConn}] /\ r2 \in [Slots -> Descs \cup {NoConn}]
  /\ r3 \in [Slots -> Descs \cup {NoConn}] /\ r4 \in [Slots -> Descs \cup {NoConn}]
  /\ \A p \in Slots : Weight(P1, r1)[p] + Weight(P2, r2)[p]
                          = Weight(P3, r3)[p] + Weight(P4, r4)[p]

LEMMA BytesBalance ==
  ASSUME NEW P1, NEW P2, NEW P3, NEW P4, NEW r1, NEW r2, NEW r3, NEW r4,
         Balanced(P1, r1, P2, r2, P3, r3, P4, r4)
  PROVE  /\ BytesOf(P1, r1) + BytesOf(P2, r2) = BytesOf(P3, r3) + BytesOf(P4, r4)
         /\ BytesOf(P1, r1) \in Nat /\ BytesOf(P2, r2) \in Nat
         /\ BytesOf(P3, r3) \in Nat /\ BytesOf(P4, r4) \in Nat
  <1>0. /\ r1 \in [Slots -> Descs \cup {NoConn}] /\ r2 \in [Slots -> Descs \cup {NoConn}]
        /\ r3 \in [Slots -> Descs \cup {NoConn}] /\ r4 \in [Slots -> Descs \cup {NoConn}]
        /\ \A p \in Slots : Weight(P1, r1)[p] + Weight(P2, r2)[p]
                                = Weight(P3, r3)[p] + Weight(P4, r4)[p]
    BY DEF Balanced
  <1>1. /\ Weight(P1, r1) \in [Slots -> Nat] /\ Weight(P2, r2) \in [Slots -> Nat]
        /\ Weight(P3, r3) \in [Slots -> Nat] /\ Weight(P4, r4) \in [Slots -> Nat]
    BY <1>0, BytesAreSum
  <1>2. PICK f1 : IsSum(f1, Weight(P1, r1)) /\ BytesOf(P1, r1) = f1[Size]
    BY <1>0, BytesAreSum
  <1>3. PICK f2 : IsSum(f2, Weight(P2, r2)) /\ BytesOf(P2, r2) = f2[Size]
    BY <1>0, BytesAreSum
  <1>4. PICK f3 : IsSum(f3, Weight(P3, r3)) /\ BytesOf(P3, r3) = f3[Size]
    BY <1>0, BytesAreSum
  <1>5. PICK f4 : IsSum(f4, Weight(P4, r4)) /\ BytesOf(P4, r4) = f4[Size]
    BY <1>0, BytesAreSum
  <1>6. f1[Size] + f2[Size] = f3[Size] + f4[Size]
    BY <1>0, <1>1, <1>2, <1>3, <1>4, <1>5, SumsBalance, SMTT(40)
  <1>7. f1[Size] \in Nat /\ f2[Size] \in Nat /\ f3[Size] \in Nat /\ f4[Size] \in Nat
    <2>1. Size \in 0..Size
      BY SizeType
    <2> QED
      BY <1>2, <1>3, <1>4, <1>5, <2>1 DEF IsSum
  <1> QED
    BY <1>2, <1>3, <1>4, <1>5, <1>6, <1>7

LEMMA BytesNat ==
  ASSUME NEW P, NEW ring \in [Slots -> Descs \cup {NoConn}]
  PROVE  BytesOf(P, ring) \in Nat
  <1>1. PICK f : IsSum(f, Weight(P, ring)) /\ BytesOf(P, ring) = f[Size]
    BY BytesAreSum
  <1>2. Size \in 0..Size
    BY SizeType
  <1> QED
    BY <1>1, <1>2 DEF IsSum

LEMMA NoBytes ==
  ASSUME NEW P, NEW ring \in [Slots -> Descs \cup {NoConn}],
         \A p \in Slots : Weight(P, ring)[p] = 0
  PROVE  BytesOf(P, ring) = 0
  <1> DEFINE w == Weight(P, ring)
             z == [n \in 0..Size |-> 0]
  <1>1. w \in [Slots -> Nat]
    BY BytesAreSum
  <1>2. PICK f : IsSum(f, w) /\ BytesOf(P, ring) = f[Size]
    BY BytesAreSum
  <1>3. IsSum(z, w)
    <2>1. \A n \in 1..Size : n \in 0..Size /\ n - 1 \in 0..Size /\ n - 1 \in Slots
      BY SizeType
    <2>2. z \in [0..Size -> Nat] /\ \A n \in 0..Size : z[n] = 0
      OBVIOUS
    <2>3. 0 \in 0..Size
      BY SizeType
    <2> HIDE DEF z, w
    <2>4. \A n \in 1..Size : z[n] = z[n - 1] + w[n - 1]
      BY <2>1, <2>2 DEF w
    <2> QED
      BY <2>2, <2>3, <2>4 DEF IsSum
  <1>4. z[Size] = 0 /\ Size \in 0..Size
    BY SizeType
  <1> HIDE DEF w, z
  <1>5. \A p \in Slots : w[p] + w[p] = w[p] + w[p]
    OBVIOUS
  <1>6. f[Size] + z[Size] = z[Size] + z[Size]
    BY <1>1, <1>2, <1>3, <1>5, SumsBalance, SMTT(40)
  <1>7. f[Size] \in Nat
    BY <1>2, <1>4 DEF IsSum
  <1> QED
    BY <1>2, <1>4, <1>6, <1>7

IsMost(m, S, n) == m \in S \cup {n} /\ \A x \in S \cup {n} : x <= m

LEMMA MostIs ==
  ASSUME NEW S \in SUBSET Nat, NEW n \in Nat, NEW m, IsMost(m, S, n)
  PROVE  AtLeast(S, n) = m
  <1> DEFINE c == CHOOSE y \in S \cup {n} : \A x \in S \cup {n} : x <= y
  <1>1. m \in S \cup {n} /\ \A x \in S \cup {n} : x <= m
    BY DEF IsMost
  <1>2. c \in S \cup {n} /\ \A x \in S \cup {n} : x <= c
    BY <1>1
  <1>3. AtLeast(S, n) = c
    BY DEF AtLeast
  <1> HIDE DEF c
  <1>4. c <= m /\ m <= c /\ c \in Nat /\ m \in Nat
    BY <1>1, <1>2
  <1> QED
    BY <1>3, <1>4

Lists(f, k, S) == \A x \in S : \E i \in 1..k : f[i] = x

\* A set of numbers that can be listed has a largest one.
LEMMA MostExists ==
  ASSUME NEW S \in SUBSET Nat, NEW n \in Nat, NEW k \in Nat, NEW f, Lists(f, k, S)
  PROVE  IsMost(AtLeast(S, n), S, n)
  <1> DEFINE T == {j \in Nat : \E m \in S \cup {n} :
                       n <= m /\ \A i \in 1..j : f[i] \in S => f[i] <= m}
  <1>1. 0 \in T
    <2>1. n <= n /\ 1..0 = {}
      OBVIOUS
    <2> QED
      BY <2>1
  <1>2. ASSUME NEW j \in Nat, j \in T
        PROVE  j + 1 \in T
    <2>1. PICK m \in S \cup {n} : n <= m /\ \A i \in 1..j : f[i] \in S => f[i] <= m
      BY <1>2
    <2>2. \A i \in 1..(j + 1) : i \in 1..j \/ i = j + 1
      OBVIOUS
    <2>3. CASE f[j + 1] \in S /\ m <= f[j + 1]
      <3>1. f[j + 1] \in Nat /\ m \in Nat
        BY <2>3
      <3>2. \A i \in 1..(j + 1) : f[i] \in S => f[i] <= f[j + 1]
        <4> SUFFICES ASSUME NEW i \in 1..(j + 1), f[i] \in S PROVE f[i] <= f[j + 1]
          OBVIOUS
        <4>1. CASE i = j + 1
          BY <3>1, <4>1
        <4>2. CASE i \in 1..j
          <5>1. f[i] <= m /\ f[i] \in Nat
            BY <2>1, <4>2
          <5> QED
            BY <2>3, <3>1, <5>1
        <4> QED
          BY <2>2, <4>1, <4>2
      <3>3. n <= f[j + 1]
        BY <2>1, <2>3, <3>1
      <3> QED
        <4>1. \E y \in S \cup {n} : n <= y /\ \A i \in 1..(j + 1) : f[i] \in S => f[i] <= y
          BY <2>3, <3>2, <3>3
        <4> QED
          BY <4>1
    <2>4. CASE ~(f[j + 1] \in S /\ m <= f[j + 1])
      <3>1. f[j + 1] \in S => f[j + 1] <= m
        <4>1. m \in Nat
          OBVIOUS
        <4> SUFFICES ASSUME f[j + 1] \in S PROVE f[j + 1] <= m
          OBVIOUS
        <4>2. f[j + 1] \in Nat /\ ~(m <= f[j + 1])
          BY <2>4
        <4> QED
          BY <4>1, <4>2
      <3>2. \A i \in 1..(j + 1) : f[i] \in S => f[i] <= m
        BY <2>1, <2>2, <3>1
      <3> QED
        BY <2>1, <3>2
    <2> QED
      BY <2>3, <2>4
  <1> HIDE DEF T
  <1>3. k \in T
    <2>1. \A j \in Nat : j \in T => j + 1 \in T
      BY <1>2
    <2> QED
      BY <1>1, <2>1, AllNumbers
  <1>4. PICK m \in S \cup {n} : n <= m /\ \A i \in 1..k : f[i] \in S => f[i] <= m
    BY <1>3 DEF T
  <1>5. IsMost(m, S, n)
    BY <1>4 DEF IsMost, Lists
  <1> QED
    BY <1>5, MostIs

LEMMA MostBytes ==
  ASSUME NEW S \in SUBSET Nat, NEW n \in Nat, NEW l \in Seq(Descs),
         \A x \in S : \E i \in 1..Len(l) : l[i].bytes = x
  PROVE  IsMost(AtLeast(S, n), S, n)
  <1> DEFINE k == Len(l)
             f == [i \in 1..k |-> l[i].bytes]
  <1>1. k \in Nat
    BY LenProperties
  <1>2. Lists(f, k, S)
    BY DEF Lists
  <1> HIDE DEF k, f
  <1> QED
    BY <1>1, <1>2, MostExists
-----------------------------------------------------------------------------
(***************************************************************************)
(* The counters of the register.                                           *)
(***************************************************************************)
\* The slots that n new connections fill, where cur connections end before tail
LEMMA SlotsFilled ==
  ASSUME NEW tail \in Slots, NEW cur \in 0..Size, cur < Size => tail = cur,
         NEW n \in 0..Size
  PROVE  LET out   == n - Lesser(Size - cur, n)
             first == IF cur < Size THEN 0 ELSE tail
             in(p) == Wrap(p - tail + Size)
         IN  /\ \A i \in 0..(out - 1) : Wrap(first + i) \in Slots /\ in(Wrap(first + i)) < n
             /\ \A p \in Slots : in(p) < n => \/ ~(p < cur)
                                              \/ \E i \in 0..(out - 1) : p = Wrap(first + i)
             /\ \A k \in 1..n : Wrap(tail + k - 1) \in Slots /\ in(Wrap(tail + k - 1)) = k - 1
             /\ \A p \in Slots : in(p) \in 0..(Size - 1)
  <1> DEFINE out   == n - Lesser(Size - cur, n)
             first == IF cur < Size THEN 0 ELSE tail
             in(p) == Wrap(p - tail + Size)
  <1>0. Size \in Nat /\ tail \in 0..(Size - 1) /\ Slots = 0..(Size - 1)
    BY SizeType
  <1>1. \A i \in 0..(out - 1) : Wrap(first + i) \in Slots /\ in(Wrap(first + i)) < n
    <2> SUFFICES ASSUME NEW i \in 0..(out - 1)
                 PROVE  Wrap(first + i) \in Slots /\ in(Wrap(first + i)) < n
      OBVIOUS
    <2>1. CASE cur < Size
      BY <1>0, <2>1 DEF Lesser, Wrap
    <2>2. CASE cur = Size
      <3>1. out = n
        BY <1>0, <2>2 DEF Lesser
      <3> HIDE DEF out
      <3> QED
        BY <1>0, <2>2, <3>1 DEF Wrap
    <2> QED
      BY <1>0, <2>1, <2>2
  <1>2. \A p \in Slots : in(p) < n => \/ ~(p < cur)
                                      \/ \E i \in 0..(out - 1) : p = Wrap(first + i)
    <2> SUFFICES ASSUME NEW p \in Slots, in(p) < n, p < cur
                 PROVE  \E i \in 0..(out - 1) : p = Wrap(first + i)
      OBVIOUS
    <2>1. CASE cur < Size
      <3>1. p \in 0..(out - 1) /\ p = Wrap(first + p)
        BY <1>0, <2>1 DEF Lesser, Wrap
      <3> QED
        BY <3>1
    <2>2. CASE cur = Size
      <3>1. out = n
        BY <1>0, <2>2 DEF Lesser
      <3> HIDE DEF out
      <3>2. in(p) \in 0..(out - 1) /\ p = Wrap(first + in(p))
        BY <1>0, <2>2, <3>1 DEF Wrap
      <3> HIDE DEF in, first
      <3> QED
        BY <3>2
    <2> QED
      BY <1>0, <2>1, <2>2
  <1>3. \A k \in 1..n : Wrap(tail + k - 1) \in Slots /\ in(Wrap(tail + k - 1)) = k - 1
    BY <1>0 DEF Wrap
  <1>4. \A p \in Slots : in(p) \in 0..(Size - 1)
    BY <1>0 DEF Wrap
  <1> QED
    BY <1>1, <1>2, <1>3, <1>4

\* What newConnections makes of the slots: those that it fills were empty or are evicted.
LEMMA AddedRing ==
  ASSUME NEW r, RegOk(r), NEW all \in Seq(Descs)
  PROVE  LET batch == Newest(all)
             n     == Len(batch)
             in    == Filled(r, n)
             a     == Added(r, all)
         IN  /\ Evicted(r, n) \subseteq in /\ in \subseteq Slots
             /\ \A p \in in : p \in Evicted(r, n) \/ r.ring[p] = NoConn
             /\ \A p \in Slots : p \notin in => a.ring[p] = r.ring[p]
             /\ \A p \in in : \E k \in 1..n : a.ring[p] = Accounted(batch[k])
             /\ \A k \in 1..n : \E p \in in : a.ring[p] = Accounted(batch[k])
  <1> DEFINE batch == Newest(all)
             n == Len(batch)
             in == Filled(r, n)
             a == Added(r, all)
             ring == [p \in Slots |-> IF p \in in THEN Accounted(batch[Nth(r, p)])
                                                  ELSE r.ring[p]]
             tail == r.tail
             cur  == r.cur
             out   == n - Lesser(Size - cur, n)
             first == IF cur < Size THEN 0 ELSE tail
             at(p) == Wrap(p - tail + Size)
  <1>1. n \in 0..Size
    <2>1. n = Lesser(Len(all), Size) /\ Len(all) \in Nat
      BY NewestOf, LenProperties
    <2> QED
      BY <2>1, SizeType DEF Lesser
  <1>2. /\ tail \in Slots /\ cur \in 0..Size /\ (cur < Size => tail = cur)
        /\ \A p \in Slots : ~(p < cur) => r.ring[p] = NoConn
    BY DEF RegOk
  <1>3. a.ring = ring
    BY DEF Added
  <1> HIDE DEF a, batch, n
  <1>4. /\ Evicted(r, n) = {Wrap(first + i) : i \in 0..(out - 1)}
        /\ in = {p \in Slots : at(p) < n}
        /\ \A p : Nth(r, p) = at(p) + 1
    BY DEF Evicted, OutItems, FirstPos, Filled, Nth
  <1> HIDE DEF tail, cur
  <1>5. /\ \A i \in 0..(out - 1) : Wrap(first + i) \in Slots /\ at(Wrap(first + i)) < n
        /\ \A p \in Slots : at(p) < n => \/ ~(p < cur)
                                         \/ \E i \in 0..(out - 1) : p = Wrap(first + i)
        /\ \A k \in 1..n : Wrap(tail + k - 1) \in Slots /\ at(Wrap(tail + k - 1)) = k - 1
        /\ \A p \in Slots : at(p) \in 0..(Size - 1)
    BY <1>1, <1>2, SlotsFilled
  <1> HIDE DEF out, first, at
  <1>6. Evicted(r, n) \subseteq in /\ in \subseteq Slots
    BY <1>4, <1>5
  <1>7. \A p \in in : p \in Evicted(r, n) \/ r.ring[p] = NoConn
    BY <1>2, <1>4, <1>5
  <1>8. \A p \in Slots : p \notin in => ring[p] = r.ring[p]
    OBVIOUS
  <1>9. \A p \in in : p \in Slots /\ ring[p] = Accounted(batch[at(p) + 1])
    BY <1>4
  <1>10. n \in Nat
    BY <1>1, SizeType
  <1> HIDE DEF ring, in
  <1>11. ASSUME NEW p \in in
         PROVE  \E k \in 1..n : ring[p] = Accounted(batch[k])
    <2>1. at(p) + 1 \in 1..n
      <3>1. p \in Slots /\ at(p) < n
        BY <1>4
      <3>2. at(p) \in 0..(Size - 1)
        BY <1>5, <3>1
      <3>3. PICK x \in Int : x = at(p)
        BY <3>2, SizeType
      <3> QED
        BY <1>10, <3>1, <3>2, <3>3
    <2> QED
      BY <1>9, <2>1
  <1>12. ASSUME NEW k \in 1..n
         PROVE  \E p \in in : ring[p] = Accounted(batch[k])
    <2> DEFINE p == Wrap(tail + k - 1)
    <2>1. p \in Slots /\ at(p) = k - 1
      BY <1>5
    <2> HIDE DEF p
    <2>2. at(p) < n /\ at(p) + 1 = k
      BY <1>10, <2>1
    <2>3. p \in in
      BY <1>4, <2>1, <2>2
    <2> QED
      BY <1>9, <2>2, <2>3
  <1> QED
    BY <1>3, <1>6, <1>7, <1>8, <1>11, <1>12 DEF a, n, batch, in

Bad(ring)     == {p \in Slots : ring[p].bad}
BytesIn(ring) == {ring[p].bytes : p \in Slots}

\* The flags of a connection are those it was accounted with.
Flagged(r) == \A p \in Slots : r.ring[p].alerted = r.ring[p].bad

\* An empty slot is not bad and has no bytes, so that the sets may be of all slots.
Counts(r) ==
    /\ r.malicious = Cardinality(Bad(r.ring))
    /\ IsMost(r.maxBytes, BytesIn(r.ring), 0)
    /\ r.untracked = 0 => r.appBytes = BytesOf(Slots, r.ring)

LEMMA SlotsFinite == IsFiniteSet(Slots)
  BY SizeType, FS_Interval

LEMMA ExchangeCount ==
  ASSUME NEW B, B \subseteq Slots, NEW X, X \subseteq B, NEW Y, Y \subseteq Slots,
         Y \cap (B \ X) = {}
  PROVE  /\ Cardinality((B \ X) \cup Y) = Cardinality(B) - Cardinality(X) + Cardinality(Y)
         /\ Cardinality(B) \in Nat /\ Cardinality(X) \in Nat /\ Cardinality(Y) \in Nat
  <1>1. IsFiniteSet(B) /\ IsFiniteSet(Y)
    BY SlotsFinite, FS_Subset
  <1>2. IsFiniteSet(X)
    BY <1>1, FS_Subset
  <1>3. B \cap X = X
    OBVIOUS
  <1>4. IsFiniteSet(B \ X) /\ Cardinality(B \ X) = Cardinality(B) - Cardinality(X)
    BY <1>1, <1>3, FS_Difference
  <1>5. (B \ X) \cap Y = {}
    OBVIOUS
  <1>6. Cardinality((B \ X) \cup Y)
            = Cardinality(B \ X) + Cardinality(Y) - Cardinality((B \ X) \cap Y)
    BY <1>1, <1>4, FS_Union
  <1>7. Cardinality((B \ X) \cap Y) = 0
    BY <1>5, FS_EmptySet
  <1>8. Cardinality(B) \in Nat /\ Cardinality(X) \in Nat /\ Cardinality(Y) \in Nat
    BY <1>1, <1>2, FS_CardinalityType
  <1> QED
    BY <1>4, <1>6, <1>7, <1>8

LEMMA SlotType ==
  ASSUME NEW r, RegOk(r)
  PROVE  /\ r.ring \in [Slots -> Descs \cup {NoConn}]
         /\ \A p \in Slots : /\ r.ring[p].bytes \in Nat /\ r.ring[p].bad \in BOOLEAN
                             /\ r.ring[p].alerted \in BOOLEAN
         /\ BytesIn(r.ring) \in SUBSET Nat /\ r.untracked \in Nat
  <1>1. r.ring \in [Slots -> Descs \cup {NoConn}] /\ r.untracked \in Nat
    BY DEF RegOk
  <1>2. \A d \in Descs \cup {NoConn} :
            d.bytes \in Nat /\ d.bad \in BOOLEAN /\ d.alerted \in BOOLEAN
    <2>1. NoConn.bytes \in Nat /\ NoConn.bad \in BOOLEAN /\ NoConn.alerted \in BOOLEAN
      BY DEF NoConn
    <2>2. \A d \in Descs : d.bytes \in Nat /\ d.bad \in BOOLEAN /\ d.alerted \in BOOLEAN
      BY DEF Descs
    <2> QED
      BY <2>1, <2>2
  <1> QED
    BY <1>1, <1>2 DEF BytesIn

LEMMA AddedFlagged ==
  ASSUME NEW r, RegOk(r), Flagged(r), NEW all \in Seq(Descs)
  PROVE  Flagged(Added(r, all))
  <1> DEFINE batch == Newest(all)
             n == Len(batch)
             in == Filled(r, n)
             a == Added(r, all)
  <1>1. /\ \A p \in Slots : p \notin in => a.ring[p] = r.ring[p]
        /\ \A p \in in : \E k \in 1..n : a.ring[p] = Accounted(batch[k])
    BY AddedRing
  <1>2. \A k \in 1..n : batch[k] \in Descs
    BY NewestOf, ElementOfSeq
  <1>3. \A d \in Descs : Accounted(d).alerted = Accounted(d).bad
    BY AccountedType
  <1> HIDE DEF a, batch, n, in
  <1>4. Flagged(a)
    BY <1>1, <1>2, <1>3 DEF Flagged
  <1> QED
    BY <1>4 DEF a

LEMMA AddedMalicious ==
  ASSUME NEW r, RegOk(r), NEW all \in Seq(Descs), r.malicious = Cardinality(Bad(r.ring))
  PROVE  Added(r, all).malicious = Cardinality(Bad(Added(r, all).ring))
  <1> DEFINE batch == Newest(all)
             n == Len(batch)
             in == Filled(r, n)
             a == Added(r, all)
             fresh == [p \in Slots |-> NoConn]
             X == {p \in Evicted(r, n) : r.ring[p].bad}
             Y == {p \in in : a.ring[p].bad}
  <1>1. /\ Evicted(r, n) \subseteq in /\ in \subseteq Slots
        /\ \A p \in in : p \in Evicted(r, n) \/ r.ring[p] = NoConn
        /\ \A p \in Slots : p \notin in => a.ring[p] = r.ring[p]
    BY AddedRing
  <1>2. a.malicious = r.malicious - Cardinality(X) + MaliciousDelta(in, fresh, a.ring)
    BY DEF Added
  <1>3. MaliciousDelta(in, fresh, a.ring) = Cardinality(Y) - Cardinality({})
    <2>1. \A p \in in : fresh[p].alerted = FALSE
      BY <1>1 DEF NoConn
    <2> HIDE DEF a, in, fresh
    <2>2. /\ {p \in in : ~fresh[p].alerted /\ a.ring[p].bad} = Y
          /\ {p \in in : fresh[p].alerted /\ ~a.ring[p].bad} = {}
      BY <2>1
    <2> QED
      BY <2>2 DEF MaliciousDelta
  <1>4. NoConn.bad = FALSE
    BY DEF NoConn
  <1> HIDE DEF a, in, n, fresh
  <1>5. Bad(a.ring) = (Bad(r.ring) \ X) \cup Y
    BY <1>1, <1>4 DEF Bad
  <1>6. /\ Bad(r.ring) \in SUBSET Slots /\ X \in SUBSET Bad(r.ring) /\ Y \in SUBSET Slots
        /\ Y \cap (Bad(r.ring) \ X) = {}
    BY <1>1, <1>4 DEF Bad
  <1> HIDE DEF X, Y
  <1>7. /\ Cardinality(Bad(a.ring))
               = Cardinality(Bad(r.ring)) - Cardinality(X) + Cardinality(Y)
        /\ Cardinality(Bad(r.ring)) \in Nat /\ Cardinality(X) \in Nat /\ Cardinality(Y) \in Nat
    <2> DEFINE B == Bad(r.ring)
    <2>1. B \subseteq Slots /\ X \subseteq B /\ Y \subseteq Slots /\ Y \cap (B \ X) = {}
      BY <1>6
    <2> HIDE DEF B
    <2>2. /\ Cardinality((B \ X) \cup Y) = Cardinality(B) - Cardinality(X) + Cardinality(Y)
          /\ Cardinality(B) \in Nat /\ Cardinality(X) \in Nat /\ Cardinality(Y) \in Nat
      BY <2>1, ExchangeCount
    <2> QED
      BY <1>5, <2>2 DEF B
  <1>8. a.malicious = Cardinality(Bad(a.ring))
    BY <1>2, <1>3, <1>7, FS_EmptySet
  <1> QED
    BY <1>8 DEF a

LEMMA AddedAppBytes ==
  ASSUME NEW r, RegOk(r), NEW all \in Seq(Descs),
         r.untracked = 0 => r.appBytes = BytesOf(Slots, r.ring),
         Added(r, all).untracked = 0
  PROVE  Added(r, all).appBytes = BytesOf(Slots, Added(r, all).ring)
  <1> DEFINE batch == Newest(all)
             n == Len(batch)
             in == Filled(r, n)
             a == Added(r, all)
             empty == [p \in Slots |-> NoConn]
  <1>1. /\ in \subseteq Slots
        /\ \A p \in in : p \in Evicted(r, n) \/ r.ring[p] = NoConn
        /\ \A p \in Slots : p \notin in => a.ring[p] = r.ring[p]
    BY AddedRing
  <1>2. /\ a.appBytes = r.appBytes + BytesOf(in, a.ring)
        /\ a.untracked = r.untracked + (Len(all) - n) + OutItems(r, n)
    BY DEF Added
  <1>3. RegOk(a)
    BY AddedLists
  <1>4. n = Lesser(Len(all), Size) /\ Len(all) \in Nat
    BY NewestOf, LenProperties
  <1>5. OutItems(r, n) \in 0..r.cur
    BY <1>4, AddedLists
  <1>6. /\ r.ring \in [Slots -> Descs \cup {NoConn}] /\ r.untracked \in Nat /\ r.cur \in Nat
        /\ a.ring \in [Slots -> Descs \cup {NoConn}]
    BY <1>3, SizeType DEF RegOk
  <1>7. r.untracked = 0 /\ OutItems(r, n) = 0
    <2>1. PICK u \in Nat, l \in Nat, o \in Nat, m \in Nat :
              u = r.untracked /\ l = Len(all) /\ o = OutItems(r, n) /\ m = n /\ m <= l
      <3>1. OutItems(r, n) \in Nat
        BY <1>5, <1>6
      <3>2. n \in Nat /\ n <= Len(all)
        BY <1>4, SizeType DEF Lesser
      <3> HIDE DEF n
      <3> QED
        BY <1>4, <1>6, <3>1, <3>2
    <2>2. 0 = u + (l - m) + o
      BY <1>2, <2>1
    <2>3. u = 0 /\ o = 0
      BY <2>1, <2>2
    <2> QED
      BY <2>1, <2>3
  <1>8. Evicted(r, n) = {}
    <2>1. 0..(0 - 1) = {}
      OBVIOUS
    <2> HIDE DEF n
    <2> QED
      BY <1>7, <2>1 DEF Evicted
  <1>9. empty \in [Slots -> Descs \cup {NoConn}] /\ \A p \in Slots : empty[p] = NoConn
    OBVIOUS
  <1> HIDE DEF a, in, n, empty
  <1>10. NoConn.bytes = 0
    BY DEF NoConn
  <1>11. \A p \in Slots : a.ring[p].bytes \in Nat /\ r.ring[p].bytes \in Nat
    BY <1>3, SlotType
  <1>12. \A p \in Slots : Weight(Slots, a.ring)[p] + Weight(Slots, empty)[p]
                              = Weight(Slots, r.ring)[p] + Weight(in, a.ring)[p]
    <2> SUFFICES ASSUME NEW p \in Slots
                 PROVE  a.ring[p].bytes + empty[p].bytes
                            = r.ring[p].bytes + (IF p \in in THEN a.ring[p].bytes ELSE 0)
      BY DEF Weight
    <2>1. CASE p \in in
      <3>1. r.ring[p].bytes = 0 /\ empty[p].bytes = 0
        BY <1>1, <1>8, <1>9, <1>10, <2>1
      <3> QED
        BY <1>11, <2>1, <3>1
    <2>2. CASE p \notin in
      <3>1. a.ring[p].bytes = r.ring[p].bytes /\ empty[p].bytes = 0
        BY <1>1, <1>9, <1>10, <2>2
      <3> QED
        BY <1>11, <2>2, <3>1
    <2> QED
      BY <2>1, <2>2
  <1>13. /\ BytesOf(Slots, a.ring) + BytesOf(Slots, empty)
                = BytesOf(Slots, r.ring) + BytesOf(in, a.ring)
         /\ BytesOf(Slots, a.ring) \in Nat
    <2> DEFINE s == a.ring
               t == r.ring
    <2>1. /\ s \in [Slots -> Descs \cup {NoConn}] /\ t \in [Slots -> Descs \cup {NoConn}]
          /\ empty \in [Slots -> Descs \cup {NoConn}]
          /\ \A p \in Slots : Weight(Slots, s)[p] + Weight(Slots, empty)[p]
                                = Weight(Slots, t)[p] + Weight(in, s)[p]
      BY <1>6, <1>9, <1>12
    <2> HIDE DEF s, t
    <2>2. /\ BytesOf(Slots, s) + BytesOf(Slots, empty) = BytesOf(Slots, t) + BytesOf(in, s)
          /\ BytesOf(Slots, s) \in Nat /\ BytesOf(Slots, empty) \in Nat
          /\ BytesOf(Slots, t) \in Nat /\ BytesOf(in, s) \in Nat
      <3>1. Balanced(Slots, s, Slots, empty, Slots, t, in, s)
        BY <2>1 DEF Balanced
      <3> QED
        BY <3>1, BytesBalance
    <2> QED
      BY <2>2 DEF s, t
  <1>14. BytesOf(Slots, empty) = 0
    <2>1. \A p \in Slots : Weight(Slots, empty)[p] = 0
      BY <1>9, <1>10 DEF Weight
    <2> QED
      BY <1>9, <2>1, NoBytes
  <1>15. a.appBytes = BytesOf(Slots, a.ring)
    BY <1>2, <1>7, <1>13, <1>14
  <1> QED
    BY <1>15 DEF a

\* newConnections: the maximum is that of the ring again.
LEMMA AddedMost ==
  ASSUME NEW r, RegOk(r), NEW all \in Seq(Descs), IsMost(r.maxBytes, BytesIn(r.ring), 0)
  PROVE  IsMost(Added(r, all).maxBytes, BytesIn(Added(r, all).ring), 0)
  <1> DEFINE batch == Newest(all)
             n == Len(batch)
             in == Filled(r, n)
             a == Added(r, all)
             b == a.ring
             old == r.maxBytes
             N == {batch[k].bytes : k \in DOMAIN batch}
             c == Lesser(r.cur + n, Size)
             T == {b[p].bytes : p \in 0..(c - 1)}
             new == AtLeast(N, 0)
             ends == \E p \in Evicted(r, n) : r.ring[p].bytes = old
             m == IF new > old THEN new ELSE IF ends THEN AtLeast(T, 0) ELSE old
  <1>1. a.maxBytes = m /\ a.cur = c
    BY DEF Added, AddedMax
  <1>2. /\ in \subseteq Slots
        /\ \A p \in in : p \in Evicted(r, n) \/ r.ring[p] = NoConn
        /\ \A p \in Slots : p \notin in => b[p] = r.ring[p]
        /\ \A p \in in : \E k \in 1..n : b[p] = Accounted(batch[k])
        /\ \A k \in 1..n : \E p \in in : b[p] = Accounted(batch[k])
    BY AddedRing
  <1>3. /\ DOMAIN batch = 1..n /\ n \in Nat /\ \A k \in 1..n : batch[k] \in Descs
    BY NewestOf, ElementOfSeq, LenProperties
  <1>4. RegOk(a)
    BY AddedLists
  <1>5. /\ \A p \in Slots : b[p].bytes \in Nat /\ r.ring[p].bytes \in Nat
        /\ BytesIn(r.ring) \in SUBSET Nat
    BY <1>4, SlotType
  <1>6. /\ c \in 0..Size /\ \A p \in Slots : ~(p < c) => b[p] = NoConn
    BY <1>1, <1>4 DEF RegOk
  <1>7. old \in BytesIn(r.ring) \cup {0} /\ \A x \in BytesIn(r.ring) \cup {0} : x <= old
    BY DEF IsMost
  <1>8. NoConn.bytes = 0
    BY DEF NoConn
  <1> HIDE DEF a, in, c, batch, n, old
  <1>9. /\ \A p \in in : b[p].bytes \in N
        /\ \A x \in N : \E p \in in : b[p].bytes = x
        /\ N \in SUBSET Nat
    <2>1. \A k \in 1..n : Accounted(batch[k]).bytes = batch[k].bytes /\ batch[k].bytes \in Nat
      BY <1>3, AccountedType DEF Descs
    <2>2. \A k \in 1..n : batch[k].bytes \in N
      BY <1>3
    <2>3. \A p \in in : b[p].bytes \in N
      <3> SUFFICES ASSUME NEW p \in in PROVE b[p].bytes \in N
        OBVIOUS
      <3>1. PICK k \in 1..n : b[p] = Accounted(batch[k])
        BY <1>2
      <3> HIDE DEF b, N
      <3> QED
        BY <2>1, <2>2, <3>1
    <2>4. \A x \in N : \E k \in 1..n : x = batch[k].bytes
      BY <1>3
    <2> HIDE DEF b, N
    <2>5. \A x \in N : \E p \in in : b[p].bytes = x
      BY <1>2, <2>1, <2>4
    <2>6. N \in SUBSET Nat
      BY <2>1, <2>4
    <2> QED
      BY <2>3, <2>5, <2>6
  <1>10. IsMost(new, N, 0)
    <2>1. batch \in Seq(Descs) /\ \A x \in N : \E k \in 1..Len(batch) : batch[k].bytes = x
      BY <1>3, NewestOf DEF batch, n
    <2>2. N \in SUBSET Nat
      BY <1>9
    <2> HIDE DEF N
    <2> QED
      BY <2>1, <2>2, MostBytes
  <1>11. T \in SUBSET Nat /\ IsMost(AtLeast(T, 0), T, 0)
    <2> DEFINE f == [i \in 1..c |-> b[i - 1].bytes]
    <2>1. c \in Nat /\ \A p \in 0..(c - 1) : p \in Slots /\ p + 1 \in 1..c /\ (p + 1) - 1 = p
      BY <1>6, SizeType
    <2>2. T \in SUBSET Nat
      BY <1>5, <2>1
    <2>3. \A x \in T : \E i \in 1..c : f[i] = x
      <3> SUFFICES ASSUME NEW p \in 0..(c - 1) PROVE \E i \in 1..c : f[i] = b[p].bytes
        OBVIOUS
      <3>1. f[p + 1] = b[p].bytes
        BY <2>1
      <3> QED
        BY <2>1, <3>1
    <2>4. Lists(f, c, T)
      BY <2>3 DEF Lists
    <2> HIDE DEF f, T
    <2> QED
      BY <2>1, <2>2, <2>4, MostExists
  <1> HIDE DEF b, T, N
  <1> HIDE DEF new
  <1>12. /\ new \in N \cup {0} /\ \A x \in N \cup {0} : x <= new
         /\ new \in Nat /\ old \in Nat
    <2>1. new \in N \cup {0} /\ \A x \in N \cup {0} : x <= new
      BY <1>10 DEF IsMost
    <2> QED
      BY <1>5, <1>7, <1>9, <2>1
  <1>13. \A p \in Slots : b[p].bytes <= new \/ b[p].bytes <= old
    <2>1. \A p \in in : b[p].bytes <= new
      BY <1>9, <1>12
    <2>2. \A p \in Slots : r.ring[p].bytes <= old
      BY <1>7 DEF BytesIn
    <2> QED
      BY <1>2, <2>1, <2>2
  <1> SUFFICES IsMost(a.maxBytes, BytesIn(b), 0)
    BY DEF a, b
  <1>14. CASE new > old
    <2>1. new \in BytesIn(b) \cup {0}
      BY <1>2, <1>9, <1>12 DEF BytesIn
    <2>2. \A p \in Slots : b[p].bytes <= new
      BY <1>5, <1>12, <1>13, <1>14
    <2>3. \A x \in BytesIn(b) \cup {0} : x <= new
      BY <1>12, <2>2 DEF BytesIn
    <2>4. m = new
      BY <1>14
    <2> QED
      BY <1>1, <2>1, <2>3, <2>4 DEF IsMost
  <1>15. CASE ~(new > old) /\ ends
    <2>1. m = AtLeast(T, 0)
      BY <1>15
    <2>2. BytesIn(b) \cup {0} = T \cup {0}
      <3>1. \A p \in 0..(c - 1) : p \in Slots
        BY <1>6, SizeType
      <3>2. \A p \in Slots : p \in 0..(c - 1) \/ b[p].bytes = 0
        <4> SUFFICES ASSUME NEW p \in Slots, ~(p < c) PROVE b[p].bytes = 0
          BY <1>6, SizeType
        <4> QED
          BY <1>6, <1>8
      <3> QED
        BY <3>1, <3>2 DEF BytesIn, T
    <2> QED
      BY <1>1, <1>11, <2>1, <2>2 DEF IsMost
  <1>16. CASE ~(new > old) /\ ~ends
    <2>1. m = old
      BY <1>16
    <2>2. old \in BytesIn(b) \cup {0}
      <3> SUFFICES ASSUME old # 0 PROVE old \in BytesIn(b)
        OBVIOUS
      <3>1. PICK p \in Slots : r.ring[p].bytes = old
        BY <1>7 DEF BytesIn
      <3>2. p \notin in
        BY <1>2, <1>8, <1>16, <3>1
      <3> QED
        BY <1>2, <3>1, <3>2 DEF BytesIn
    <2>3. \A p \in Slots : b[p].bytes <= old
      BY <1>5, <1>12, <1>13, <1>16
    <2>4. \A x \in BytesIn(b) \cup {0} : x <= old
      BY <1>12, <2>3 DEF BytesIn
    <2> QED
      BY <1>1, <2>1, <2>2, <2>4 DEF IsMost
  <1> QED
    BY <1>14, <1>15, <1>16

Seen(r, upds) == {k \in DOMAIN upds : InRange(r, upds[k].id)}
Hit(r, upds)  == {Position(r, upds[k].id) : k \in Seen(r, upds)}

\* connectionsUpdates, by slots: u is r with the updates
UpdatedBy(r, upds, u) ==
    LET seen == Seen(r, upds)
        hit  == Hit(r, upds)
    IN  /\ hit \subseteq Slots /\ seen \subseteq 1..Len(upds)
        /\ \A p \in Slots : p \notin hit => u.ring[p] = r.ring[p]
        /\ \A p \in hit : /\ r.ring[p] \in Descs
                          /\ \E k \in seen : /\ upds[k].id = r.ring[p].id
                                             /\ u.ring[p] = Applied(r.ring[p], upds[k])
        /\ \A k \in seen : \E p \in hit : upds[k].id = r.ring[p].id
        /\ u.malicious = r.malicious + MaliciousDelta(hit, r.ring, u.ring)
        /\ u.maxBytes = AtLeast({upds[k].bytes : k \in seen}, r.maxBytes)
        /\ u.appBytes = r.appBytes + BytesDelta(hit, r.ring, u.ring)

LEMMA UpdatedRing ==
  ASSUME NEW r, RegOk(r), Consecutive(r), NEW upds \in Seq(Descs)
  PROVE  UpdatedBy(r, upds, Updated(r, upds))
  <1> DEFINE u == Updated(r, upds)
             seen == Seen(r, upds)
             hit == Hit(r, upds)
             at(k) == Position(r, upds[k].id)
             by(p) == CHOOSE k \in seen : at(k) = p
             ring == [p \in Slots |-> IF p \in hit THEN Applied(r.ring[p], upds[by(p)])
                                                   ELSE r.ring[p]]
             m == r.malicious + MaliciousDelta(hit, r.ring, ring)
             b == r.numBlocked + BlockedDelta(hit, r.ring, ring)
             x == AtLeast({upds[k].bytes : k \in seen}, r.maxBytes)
             y == r.appBytes + BytesDelta(hit, r.ring, ring)
             v == [r EXCEPT !.ring = ring, !.malicious = m, !.numBlocked = b,
                            !.maxBytes = x, !.appBytes = y]
  <1>1. u = v
    BY DEF Updated, Seen, Hit
  <1>2. /\ DOMAIN upds = 1..Len(upds) /\ \A k \in 1..Len(upds) : upds[k] \in Descs
    BY ElementOfSeq, LenProperties
  <1>3. hit = {at(k) : k \in seen} /\ seen \subseteq 1..Len(upds)
    BY <1>2 DEF Hit, Seen
  <1>4. ASSUME NEW k \in seen
        PROVE  at(k) \in Slots /\ r.ring[at(k)] \in Descs /\ upds[k].id = r.ring[at(k)].id
    <2>1. k \in 1..Len(upds) /\ InRange(r, upds[k].id) /\ upds[k].id \in Int
      BY <1>2, <1>3 DEF Seen, Descs, Ids
    <2>2. PICK i \in 1..r.cur : GetConn(r, i).id = upds[k].id
      BY <2>1, InRangeIsAt
    <2>3. at(k) = At(r, i)
      BY <2>2, PositionIsAt
    <2>4. At(r, i) \in Slots /\ GetConn(r, i) = r.ring[At(r, i)] /\ GetConn(r, i) \in Descs
      BY AtIsSlot
    <2> QED
      BY <2>2, <2>3, <2>4
  <1>5. \A p \in hit : by(p) \in seen /\ at(by(p)) = p
    BY <1>3
  <1>6. \A p \in Slots : ring[p] = IF p \in hit THEN Applied(r.ring[p], upds[by(p)])
                                   ELSE r.ring[p]
    OBVIOUS
  <1>7. /\ u.ring = ring /\ u.malicious = m /\ u.maxBytes = x /\ u.appBytes = y
    <2> HIDE DEF ring, m, b, x, y, u
    <2>1. DOMAIN r = {"ring", "tail", "cur", "untracked", "malicious", "numBlocked",
                      "maxBytes", "appBytes"}
      BY DEF RegOk
    <2> QED
      BY <1>1, <2>1
  <1> HIDE DEF seen, hit, by, ring, u, v
  <1>8. hit \subseteq Slots
    BY <1>3, <1>4
  <1>9. \A p \in Slots : p \notin hit => ring[p] = r.ring[p]
    BY <1>6
  <1>10. ASSUME NEW p \in hit
         PROVE  /\ r.ring[p] \in Descs
                /\ \E k \in seen : /\ upds[k].id = r.ring[p].id
                                   /\ ring[p] = Applied(r.ring[p], upds[k])
    <2>1. by(p) \in seen /\ at(by(p)) = p /\ p \in Slots
      BY <1>5, <1>8
    <2>2. r.ring[p] \in Descs /\ upds[by(p)].id = r.ring[p].id
      BY <1>4, <2>1
    <2>3. ring[p] = Applied(r.ring[p], upds[by(p)])
      BY <1>6, <2>1
    <2> QED
      BY <2>1, <2>2, <2>3
  <1>11. \A k \in seen : \E p \in hit : upds[k].id = r.ring[p].id
    BY <1>3, <1>4
  <1> HIDE DEF at
  <1> QED
    BY <1>3, <1>7, <1>8, <1>9, <1>10, <1>11 DEF u, seen, hit, UpdatedBy

LEMMA UpdatedFlagged ==
  ASSUME NEW r, RegOk(r), Consecutive(r), Flagged(r), NEW upds \in Seq(Descs)
  PROVE  Flagged(Updated(r, upds))
  <1> DEFINE u == Updated(r, upds)
             seen == Seen(r, upds)
             hit == Hit(r, upds)
  <1>0. UpdatedBy(r, upds, u)
    BY UpdatedRing
  <1>1. /\ seen \subseteq 1..Len(upds)
        /\ \A p \in Slots : p \notin hit => u.ring[p] = r.ring[p]
        /\ \A p \in hit : /\ r.ring[p] \in Descs
                          /\ \E k \in seen : u.ring[p] = Applied(r.ring[p], upds[k])
    BY <1>0 DEF UpdatedBy
  <1>2. \A k \in 1..Len(upds) : upds[k] \in Descs
    BY ElementOfSeq
  <1> HIDE DEF u, seen, hit
  <1>3. \A p \in hit : u.ring[p].alerted = u.ring[p].bad
    BY <1>1, <1>2, AppliedType
  <1>4. Flagged(u)
    BY <1>1, <1>3 DEF Flagged
  <1> QED
    BY <1>4 DEF u

LEMMA UpdatedMalicious ==
  ASSUME NEW r, RegOk(r), Consecutive(r), Flagged(r), NEW upds \in Seq(Descs),
         r.malicious = Cardinality(Bad(r.ring))
  PROVE  Updated(r, upds).malicious = Cardinality(Bad(Updated(r, upds).ring))
  <1> DEFINE u == Updated(r, upds)
             hit == Hit(r, upds)
             B == Bad(r.ring)
             X == {p \in hit : r.ring[p].alerted /\ ~u.ring[p].bad}
             Y == {p \in hit : ~r.ring[p].alerted /\ u.ring[p].bad}
  <1>0. UpdatedBy(r, upds, u)
    BY UpdatedRing
  <1>1. /\ hit \subseteq Slots
        /\ \A p \in Slots : p \notin hit => u.ring[p] = r.ring[p]
        /\ u.malicious = r.malicious + MaliciousDelta(hit, r.ring, u.ring)
    BY <1>0 DEF UpdatedBy
  <1>2. MaliciousDelta(hit, r.ring, u.ring) = Cardinality(Y) - Cardinality(X)
    BY DEF MaliciousDelta
  <1>3. /\ \A p \in Slots : r.ring[p].alerted = r.ring[p].bad
    BY DEF Flagged
  <1> HIDE DEF u, hit
  <1>4. Bad(u.ring) = (B \ X) \cup Y
    BY <1>1, <1>3 DEF Bad
  <1>5. B \subseteq Slots /\ X \subseteq B /\ Y \subseteq Slots /\ Y \cap (B \ X) = {}
    BY <1>1, <1>3 DEF Bad
  <1>6. r.malicious = Cardinality(B)
    OBVIOUS
  <1> HIDE DEF B, X, Y
  <1>7. /\ Cardinality((B \ X) \cup Y) = Cardinality(B) - Cardinality(X) + Cardinality(Y)
        /\ Cardinality(B) \in Nat /\ Cardinality(X) \in Nat /\ Cardinality(Y) \in Nat
    BY <1>5, ExchangeCount
  <1>8. u.malicious = Cardinality(Bad(u.ring))
    BY <1>1, <1>2, <1>4, <1>6, <1>7
  <1> QED
    BY <1>8 DEF u

LEMMA UpdatedAppBytes ==
  ASSUME NEW r, RegOk(r), Consecutive(r), NEW upds \in Seq(Descs),
         r.appBytes = BytesOf(Slots, r.ring)
  PROVE  Updated(r, upds).appBytes = BytesOf(Slots, Updated(r, upds).ring)
  <1> DEFINE u == Updated(r, upds)
             hit == Hit(r, upds)
             s == u.ring
             t == r.ring
  <1>0. UpdatedBy(r, upds, u)
    BY UpdatedRing
  <1>1. /\ hit \subseteq Slots
        /\ \A p \in Slots : p \notin hit => s[p] = t[p]
        /\ u.appBytes = r.appBytes + BytesDelta(hit, t, s)
    BY <1>0 DEF UpdatedBy
  <1>2. RegOk(u)
    BY UpdatedLists
  <1>3. /\ t \in [Slots -> Descs \cup {NoConn}] /\ \A p \in Slots : t[p].bytes \in Nat
    BY SlotType
  <1> HIDE DEF u, hit
  <1>4. /\ s \in [Slots -> Descs \cup {NoConn}] /\ \A p \in Slots : s[p].bytes \in Nat
    BY <1>2, SlotType
  <1>5. u.appBytes = r.appBytes + (BytesOf(hit, s) - BytesOf(hit, t))
        /\ r.appBytes = BytesOf(Slots, t)
    BY <1>1 DEF BytesDelta
  <1> HIDE DEF s, t
  <1>6. \A p \in Slots : Weight(Slots, s)[p] + Weight(hit, t)[p]
                             = Weight(Slots, t)[p] + Weight(hit, s)[p]
    <2> SUFFICES ASSUME NEW p \in Slots
                 PROVE  s[p].bytes + (IF p \in hit THEN t[p].bytes ELSE 0)
                            = t[p].bytes + (IF p \in hit THEN s[p].bytes ELSE 0)
      BY DEF Weight
    <2> QED
      BY <1>1, <1>3, <1>4
  <1>7. BytesOf(Slots, s) + BytesOf(hit, t) = BytesOf(Slots, t) + BytesOf(hit, s)
    <2>1. Balanced(Slots, s, hit, t, Slots, t, hit, s)
      BY <1>3, <1>4, <1>6 DEF Balanced
    <2> QED
      BY <2>1, BytesBalance
  <1>8. /\ BytesOf(Slots, s) \in Nat /\ BytesOf(hit, t) \in Nat
        /\ BytesOf(Slots, t) \in Nat /\ BytesOf(hit, s) \in Nat
    BY <1>3, <1>4, BytesNat
  <1>9. u.appBytes = BytesOf(Slots, s)
    BY <1>5, <1>7, <1>8
  <1> QED
    BY <1>9 DEF u, s

\* connectionsUpdates: the maximum is that of the ring, if no update takes back bytes
LEMMA UpdatedMost ==
  ASSUME NEW r, RegOk(r), Consecutive(r), NEW upds \in Seq(Descs),
         IsMost(r.maxBytes, BytesIn(r.ring), 0),
         \A k \in 1..Len(upds), p \in Slots :
             r.ring[p] \in Descs /\ r.ring[p].id = upds[k].id => r.ring[p].bytes <= upds[k].bytes,
         \A k, l \in 1..Len(upds) : upds[k].id = upds[l].id => upds[k].bytes = upds[l].bytes
  PROVE  IsMost(Updated(r, upds).maxBytes, BytesIn(Updated(r, upds).ring), 0)
  <1> DEFINE u == Updated(r, upds)
             seen == Seen(r, upds)
             hit == Hit(r, upds)
             s == u.ring
             t == r.ring
             old == r.maxBytes
             M == {upds[k].bytes : k \in seen}
             m == AtLeast(M, old)
  <1>0. UpdatedBy(r, upds, u)
    BY UpdatedRing
  <1>1. /\ hit \subseteq Slots /\ seen \subseteq 1..Len(upds)
        /\ \A p \in Slots : p \notin hit => s[p] = t[p]
        /\ \A p \in hit : /\ t[p] \in Descs
                          /\ \E k \in seen : /\ upds[k].id = t[p].id
                                             /\ s[p] = Applied(t[p], upds[k])
        /\ \A k \in seen : \E p \in hit : upds[k].id = t[p].id
        /\ u.maxBytes = m
    BY <1>0 DEF UpdatedBy
  <1>2. /\ Len(upds) \in Nat /\ \A k \in 1..Len(upds) : upds[k] \in Descs
    BY ElementOfSeq, LenProperties
  <1>3. \A k \in 1..Len(upds) : upds[k].bytes \in Nat
    BY <1>2 DEF Descs
  <1>4. RegOk(u)
    BY UpdatedLists
  <1>5. /\ \A p \in Slots : t[p].bytes \in Nat
        /\ BytesIn(t) \in SUBSET Nat
    BY SlotType
  <1>6. old \in BytesIn(t) \cup {0} /\ \A x \in BytesIn(t) \cup {0} : x <= old
    BY DEF IsMost
  <1> HIDE DEF u, seen, hit
  <1>7. \A p \in Slots : s[p].bytes \in Nat
    BY <1>4, SlotType
  <1>8. /\ \A p \in Slots, k \in seen :
               t[p] \in Descs /\ t[p].id = upds[k].id => t[p].bytes <= upds[k].bytes
        /\ \A k, l \in seen : upds[k].id = upds[l].id => upds[k].bytes = upds[l].bytes
    BY <1>1
  <1> HIDE DEF s, t, old
  \* the new bytes of a slot that is hit are those of any update of its connection
  <1>9. \A p \in hit : \E k \in seen : upds[k].id = t[p].id /\ s[p].bytes = upds[k].bytes
    BY <1>1, <1>2, AppliedType
  <1>10. \A p \in hit : p \in Slots /\ t[p].bytes <= s[p].bytes /\ s[p].bytes \in M
    BY <1>1, <1>8, <1>9
  <1>11. \A x \in M : \E p \in hit : s[p].bytes = x
    <2> SUFFICES ASSUME NEW k \in seen PROVE \E p \in hit : s[p].bytes = upds[k].bytes
      OBVIOUS
    <2>1. PICK p \in hit : upds[k].id = t[p].id
      BY <1>1
    <2>2. PICK l \in seen : upds[l].id = t[p].id /\ s[p].bytes = upds[l].bytes
      BY <1>9
    <2> QED
      BY <1>8, <2>1, <2>2
  <1>12. M \in SUBSET Nat /\ old \in Nat
    BY <1>1, <1>3, <1>5, <1>6
  <1>13. IsMost(m, M, old)
    <2>1. \A x \in M : \E k \in 1..Len(upds) : upds[k].bytes = x
      BY <1>1
    <2>2. M \in SUBSET Nat /\ old \in Nat
      BY <1>12
    <2> HIDE DEF M, m
    <2>3. IsMost(AtLeast(M, old), M, old)
      BY <2>1, <2>2, MostBytes
    <2> QED
      BY <2>3 DEF m
  <1> HIDE DEF M, m
  <1>14. m \in M \cup {old} /\ m \in Nat /\ old <= m /\ \A x \in M : x <= m
    BY <1>12, <1>13 DEF IsMost
  <1>15. \A p \in Slots : s[p].bytes <= m
    <2>1. \A p \in Slots : t[p].bytes <= old
      BY <1>6 DEF BytesIn
    <2> SUFFICES ASSUME NEW p \in Slots PROVE s[p].bytes <= m
      OBVIOUS
    <2>2. CASE p \in hit
      BY <1>10, <1>14, <2>2
    <2>3. CASE p \notin hit
      BY <1>1, <1>5, <1>12, <1>14, <2>1, <2>3
    <2> QED
      BY <2>2, <2>3
  <1>16. m \in BytesIn(s) \cup {0}
    <2>1. CASE m \in M
      BY <1>1, <1>11, <2>1 DEF BytesIn
    <2>2. CASE m = old /\ old # 0
      <3>1. PICK p \in Slots : t[p].bytes = old
        BY <1>6, <2>2 DEF BytesIn
      <3>2. s[p].bytes = old
        <4>1. CASE p \in hit
          <5>1. t[p].bytes <= s[p].bytes /\ s[p].bytes <= m /\ s[p].bytes \in Nat
            BY <1>7, <1>10, <1>15, <4>1
          <5> QED
            BY <1>12, <2>2, <3>1, <5>1
        <4>2. CASE p \notin hit
          BY <1>1, <3>1, <4>2
        <4> QED
          BY <4>1, <4>2
      <3> QED
        BY <2>2, <3>2 DEF BytesIn
    <2> QED
      BY <1>14, <2>1, <2>2
  <1>17. \A x \in BytesIn(s) \cup {0} : x <= m
    BY <1>14, <1>15 DEF BytesIn
  <1>18. IsMost(u.maxBytes, BytesIn(s), 0)
    BY <1>1, <1>16, <1>17 DEF IsMost
  <1> QED
    BY <1>18 DEF u, s

\* An item whose connections are not behind themselves takes no bytes back.
LEMMA AddedBytes ==
  ASSUME NEW r, RegOk(r), NEW item \in ItemType,
         \A d, e \in Mentions(item) : Behind(d, e),
         \A i \in 1..r.cur : \A d \in Mentions(item) : Behind(GetConn(r, i), d),
         NEW p \in Slots, NEW k \in 1..Len(item.upd),
         Added(r, item.new).ring[p] \in Descs,
         Added(r, item.new).ring[p].id = item.upd[k].id
  PROVE  Added(r, item.new).ring[p].bytes <= item.upd[k].bytes
  <1> DEFINE all == item.new
             batch == Newest(all)
             n == Len(batch)
             in == Filled(r, n)
             a == Added(r, all)
             e == item.upd[k]
  <1>1. /\ all \in Seq(Descs) /\ e \in Mentions(item) /\ Mentions(item) \subseteq Descs
        /\ \A j \in 1..Len(all) : all[j] \in Mentions(item)
    BY MentionsType
  <1>2. /\ \A q \in Slots : q \notin in => a.ring[q] = r.ring[q]
        /\ \A q \in in : \E j \in 1..n : a.ring[q] = Accounted(batch[j])
    BY <1>1, AddedRing
  <1>3. ASSUME NEW j \in 1..n PROVE batch[j] \in Mentions(item)
    <2>1. n = Lesser(Len(all), Size) /\ batch[j] = all[Len(all) - n + j] /\ Len(all) \in Nat
      BY <1>1, NewestOf, LenProperties
    <2>2. PICK l \in Nat, m \in Nat : l = Len(all) /\ m = n /\ m <= l
      BY <2>1, SizeType DEF Lesser
    <2>3. j \in Nat /\ 1 <= j /\ j <= m
      BY <2>2
    <2>4. l - m + j \in 1..l
      <3> HIDE DEF n, batch, all
      <3> QED
        BY <2>2, <2>3
    <2> QED
      BY <1>1, <2>1, <2>2, <2>4
  <1> HIDE DEF all, batch, n, in, a
  <1>4. CASE p \in in
    <2>1. PICK j \in 1..n : a.ring[p] = Accounted(batch[j])
      BY <1>2, <1>4
    <2>2. batch[j] \in Descs /\ Behind(batch[j], e)
      BY <1>1, <1>3
    <2>3. a.ring[p].id = batch[j].id /\ a.ring[p].bytes = batch[j].bytes
      BY <2>1, <2>2, AccountedType
    <2> QED
      BY <2>2, <2>3 DEF Behind, a, all
  <1>5. CASE p \notin in
    <2>1. a.ring[p] = r.ring[p] /\ r.ring[p] \in Descs
      BY <1>2, <1>5 DEF a, all
    <2>2. NoConn \notin Descs
      BY DEF NoConn, Descs, Ids
    <2>3. p < r.cur
      BY <2>1, <2>2 DEF RegOk
    <2>4. PICK i \in 1..r.cur : At(r, i) = p
      BY <2>3, SlotIsAt
    <2>5. GetConn(r, i) = r.ring[p]
      BY <2>4, AtIsSlot
    <2>6. Behind(r.ring[p], e)
      BY <1>1, <2>5
    <2> QED
      BY <2>1, <2>6 DEF Behind, a, all
  <1> QED
    BY <1>4, <1>5

LEMMA TakenFlagged ==
  ASSUME NEW r, RegOk(r), Consecutive(r), NEW n0 \in Nat, NEW n1 \in Nat,
         r.cur > 0 => FirstId(r) + r.cur = n0,
         NEW item \in ItemType, Linked(item, n0, n1), Flagged(r)
  PROVE  /\ RegOk(Added(r, item.new)) /\ Consecutive(Added(r, item.new))
         /\ Flagged(Added(r, item.new)) /\ Flagged(Taken(r, item))
  <1> DEFINE a == Added(r, item.new)
  <1>1. item.new \in Seq(Descs) /\ item.upd \in Seq(Descs)
    BY MentionsType
  <1>2. \A j \in 1..Len(item.new) : item.new[j].id = n0 + j - 1
    BY DEF Linked
  <1>3. Consecutive(a)
    BY <1>1, <1>2, AddedConsecutive
  <1>4. RegOk(a)
    BY <1>1, AddedLists
  <1>5. Flagged(a)
    BY <1>1, AddedFlagged
  <1> HIDE DEF a
  <1>6. Flagged(Updated(a, item.upd))
    BY <1>1, <1>3, <1>4, <1>5, UpdatedFlagged
  <1> QED
    BY <1>3, <1>4, <1>5, <1>6 DEF Taken, a

LEMMA TakenCounted ==
  ASSUME NEW r, RegOk(r), NEW item \in ItemType,
         \A d, e \in Mentions(item) : Behind(d, e),
         \A i \in 1..r.cur : \A d \in Mentions(item) : Behind(GetConn(r, i), d),
         Counts(r), Consecutive(Added(r, item.new)), Flagged(Added(r, item.new))
  PROVE  Counts(Taken(r, item))
  <1> DEFINE a == Added(r, item.new)
             u == Updated(a, item.upd)
  <1>1. /\ item.new \in Seq(Descs) /\ item.upd \in Seq(Descs) /\ Mentions(item) \subseteq Descs
        /\ \A k \in 1..Len(item.upd) : item.upd[k] \in Mentions(item)
    BY MentionsType
  <1>2. RegOk(a)
    BY <1>1, AddedLists
  <1>3. a.malicious = Cardinality(Bad(a.ring))
    BY <1>1, AddedMalicious DEF Counts
  <1>4. IsMost(a.maxBytes, BytesIn(a.ring), 0)
    BY <1>1, AddedMost DEF Counts
  <1>5. a.untracked = 0 => a.appBytes = BytesOf(Slots, a.ring)
    BY <1>1, AddedAppBytes DEF Counts
  <1>6. \A k \in 1..Len(item.upd), p \in Slots :
            a.ring[p] \in Descs /\ a.ring[p].id = item.upd[k].id
                => a.ring[p].bytes <= item.upd[k].bytes
    BY AddedBytes
  <1>7. Consecutive(a) /\ Flagged(a)
    OBVIOUS
  <1> HIDE DEF a
  <1>8. ASSUME NEW k \in 1..Len(item.upd), NEW l \in 1..Len(item.upd),
               item.upd[k].id = item.upd[l].id
        PROVE  item.upd[k].bytes = item.upd[l].bytes
    <2>1. PICK x \in Nat, y \in Nat : x = item.upd[k].bytes /\ y = item.upd[l].bytes
      BY <1>1 DEF Descs
    <2>2. item.upd[k].bytes <= item.upd[l].bytes /\ item.upd[l].bytes <= item.upd[k].bytes
      BY <1>1, <1>8 DEF Behind
    <2> QED
      BY <2>1, <2>2
  <1>9. u.malicious = Cardinality(Bad(u.ring))
    BY <1>1, <1>2, <1>3, <1>7, UpdatedMalicious
  <1>10. IsMost(u.maxBytes, BytesIn(u.ring), 0)
    <2>1. /\ RegOk(a) /\ Consecutive(a) /\ item.upd \in Seq(Descs)
          /\ IsMost(a.maxBytes, BytesIn(a.ring), 0)
      BY <1>1, <1>2, <1>4, <1>7
    <2>2. \A k, l \in 1..Len(item.upd) :
              item.upd[k].id = item.upd[l].id => item.upd[k].bytes = item.upd[l].bytes
      BY <1>8
    <2> QED
      BY <1>6, <2>1, <2>2, UpdatedMost
  <1>11. u.untracked = 0 => u.appBytes = BytesOf(Slots, u.ring)
    <2>1. u.untracked = a.untracked
      BY <1>1, <1>2, <1>7, UpdatedLists
    <2>2. a.appBytes = BytesOf(Slots, a.ring) => u.appBytes = BytesOf(Slots, u.ring)
      BY <1>1, <1>2, <1>7, UpdatedAppBytes
    <2> QED
      BY <1>5, <2>1, <2>2
  <1> QED
    BY <1>9, <1>10, <1>11 DEF Counts, Taken, a

\* The counters are right until the register is emptied.
CountInv ==
    /\ Flagged(reg)
    /\ ~cleaned => Counts(reg)

LEMMA InitCount ==
  ASSUME Init
  PROVE  CountInv
  <1> DEFINE r == EmptyRegister
  <1>1. /\ \A p \in Slots : r.ring[p] = NoConn
        /\ r.malicious = 0 /\ r.maxBytes = 0 /\ r.appBytes = 0
        /\ r.ring \in [Slots -> Descs \cup {NoConn}]
    BY DEF EmptyRegister
  <1>2. NoConn.bytes = 0 /\ NoConn.bad = FALSE /\ NoConn.alerted = FALSE
    BY DEF NoConn
  <1> HIDE DEF r
  <1>3. Flagged(r)
    BY <1>1, <1>2 DEF Flagged
  <1>4. r.malicious = Cardinality(Bad(r.ring))
    <2>1. Bad(r.ring) = {}
      BY <1>1, <1>2 DEF Bad
    <2> QED
      BY <1>1, <2>1, FS_EmptySet
  <1>5. IsMost(r.maxBytes, BytesIn(r.ring), 0)
    BY <1>1, <1>2 DEF IsMost, BytesIn
  <1>6. BytesOf(Slots, r.ring) = 0
    <2>1. \A p \in Slots : Weight(Slots, r.ring)[p] = 0
      BY <1>1, <1>2 DEF Weight
    <2> QED
      BY <1>1, <2>1, NoBytes
  <1>7. Counts(r)
    BY <1>1, <1>4, <1>5, <1>6 DEF Counts
  <1> QED
    BY <1>3, <1>7 DEF Init, CountInv, r

LEMMA NextKeepsCount ==
  ASSUME DumpMayFail = FALSE, FlowInv, ForwardInv, CountInv, [Next]_vars
  PROVE  CountInv'
  <1>1. EngineInv'
    BY NextKeepsFlow DEF FlowInv
  <1>2. RegOk(reg) /\ Consecutive(reg)
    BY DEF FlowInv
  <1>3. ASSUME reg' = reg, cleaned' = cleaned
        PROVE  CountInv'
    BY <1>3 DEF CountInv
  <1>4. CASE Clean
    <2>1. \/ reg' = Emptied(reg) /\ cleaned' = TRUE
          \/ reg' = reg /\ cleaned' = cleaned
      BY <1>4 DEF Clean
    <2>2. CASE reg' = Emptied(reg) /\ cleaned' = TRUE
      <3>1. RegOk(reg') /\ reg'.cur = 0
        BY <1>2, <2>2, EmptiedOk
      <3>2. \A p \in Slots : reg'.ring[p] = NoConn
        <4>1. \A p \in Slots : ~(p < 0)
          BY SizeType
        <4> QED
          BY <3>1, <4>1 DEF RegOk
      <3>3. NoConn.alerted = NoConn.bad
        BY DEF NoConn
      <3>4. Flagged(reg')
        BY <3>2, <3>3 DEF Flagged
      <3> QED
        BY <2>2, <3>4 DEF CountInv
    <2> QED
      BY <1>3, <2>1, <2>2
  <1>5. CASE Take
    <2> DEFINE item == mPendingUpdates[1]
    <2>1. /\ item \in ItemType /\ 1 \in 1..Len(mPendingUpdates) /\ cleaned' = cleaned
          /\ reg' = reg \/ reg' = Taken(reg, item)
      BY <1>5, TakeStep
    <2>2. PICK next \in [Nat -> Nat] : Chained(mPendingUpdates, reg, cleaned, next)
      BY DEF FlowInv, Numbered
    <2>3. PICK n0 \in Nat, n1 \in Nat : n0 = next[0] /\ n1 = next[1]
      OBVIOUS
    <2>4. Linked(item, n0, n1) /\ (reg.cur > 0 => FirstId(reg) + reg.cur = n0)
      <3>1. 1 - 1 = 0
        OBVIOUS
      <3> QED
        BY <2>1, <2>2, <2>3, <3>1 DEF Chained
    <2>5. /\ \A d, e \in Mentions(item) : Behind(d, e)
          /\ \A i \in 1..reg.cur : \A d \in Mentions(item) : Behind(GetConn(reg, i), d)
      <3>1. 1 <= 1
        OBVIOUS
      <3> QED
        BY <2>1, <3>1 DEF ForwardInv, Forward
    <2>6. Flagged(reg) /\ (~cleaned => Counts(reg))
      BY DEF CountInv
    <2> HIDE DEF item
    <2>7. CASE reg' = Taken(reg, item)
      <3>1. /\ RegOk(reg) /\ Consecutive(reg) /\ item \in ItemType /\ Flagged(reg)
        BY <1>2, <2>1, <2>6
      <3>2. /\ Consecutive(Added(reg, item.new)) /\ Flagged(Added(reg, item.new))
            /\ Flagged(Taken(reg, item))
        BY <2>4, <3>1, TakenFlagged
      <3>3. Counts(reg) => Counts(Taken(reg, item))
        BY <2>5, <3>1, <3>2, TakenCounted
      <3> QED
        BY <2>1, <2>6, <2>7, <3>2, <3>3 DEF CountInv
    <2> QED
      BY <1>3, <2>1, <2>7
  <1>6. CASE ~Clean /\ ~Take
    <2>1. reg' = reg /\ cleaned' = cleaned
      BY <1>1, <1>6, StepKinds DEF Changes, Dumps, Offers, Rests
    <2> QED
      BY <1>3, <2>1
  <1> QED
    BY <1>4, <1>5, <1>6

\* CountersMatchRing: until the register is emptied, its count of the malicious
\* connections, its maximum and the bytes of the applications are those of the ring,
\* whatever was added, pushed out and updated; for engines whose dumps do not fail.
THEOREM CountersCorrect ==
  ASSUME DumpMayFail = FALSE
  PROVE  Spec => []CountersMatchRing
  <1>1. Init => FlowInv /\ ForwardInv /\ CountInv
    BY InitFlow, InitForward, InitCount
  <1>2. FlowInv /\ ForwardInv /\ CountInv /\ [Next]_vars
            => FlowInv' /\ ForwardInv' /\ CountInv'
    BY NextKeepsFlow, NextKeepsForward, NextKeepsCount
  <1>3. FlowInv /\ CountInv => CountersMatchRing
    <2> SUFFICES ASSUME RegOk(reg), Counts(reg)
                 PROVE  LET shown == {p \in Slots : reg.ring[p] # NoConn}
                        IN  /\ reg.malicious = Cardinality({p \in shown : reg.ring[p].bad})
                            /\ reg.maxBytes = AtLeast({reg.ring[p].bytes : p \in shown}, 0)
                            /\ reg.untracked = 0 => reg.appBytes = BytesOf(Slots, reg.ring)
      BY DEF CountersMatchRing, FlowInv, CountInv
    <2> DEFINE shown == {p \in Slots : reg.ring[p] # NoConn}
               S == {reg.ring[p].bytes : p \in shown}
    <2>1. NoConn.bytes = 0 /\ NoConn.bad = FALSE
      BY DEF NoConn
    <2>2. {p \in shown : reg.ring[p].bad} = Bad(reg.ring)
      BY <2>1 DEF Bad
    <2>3. S \cup {0} = BytesIn(reg.ring) \cup {0}
      BY <2>1 DEF BytesIn
    <2>4. S \in SUBSET Nat
      BY SlotType
    <2>5. IsMost(reg.maxBytes, S, 0)
      BY <2>3 DEF Counts, IsMost
    <2> HIDE DEF S
    <2>6. AtLeast(S, 0) = reg.maxBytes
      BY <2>4, <2>5, MostIs
    <2> QED
      BY <2>2, <2>6 DEF Counts, S
  <1> QED
    BY <1>1, <1>2, <1>3, PTL DEF Spec
=============================================================================
