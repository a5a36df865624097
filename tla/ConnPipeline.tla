---------------------------- MODULE ConnPipeline ----------------------------
(***************************************************************************)
(* How a connection comes to be shown.  The engine (vpnrelay.c) keeps a    *)
(* pd_conn_t for each connection and lists those that are new or changed;  *)
(* its housekeeping dumps the lists to CaptureService.updateConnections,   *)
(* which puts the dump in a bounded queue for the thread UpdateListener    *)
(* (connUpdateWork), which fills the register.  At the end of a capture    *)
(* the engine's thread sends a last dump, asks the other thread to end and *)
(* waits for it.                                                           *)
(*                                                                         *)
(* Three threads: the capture thread (engine), the worker, and the main    *)
(* thread, which stops the capture and requests updates of the blacklists. *)
(***************************************************************************)
EXTENDS ConnectionsRegister

CONSTANTS
    MaxConns,     \* bound on the connections of a capture
    MaxBytes,     \* bound on the bytes of a connection
    Verdicts,     \* what the lists may say: a set of [bad, blocked]
    QueueCap,     \* capacity of mPendingUpdates, 32 in the code
    MaxWakes,     \* bound on the requests for an update of the blacklists
    DumpMayFail,  \* JNI calls of a dump may fail (no memory)
    StopBy        \* who stops the capture, of {"handler", "service"}

ASSUME PipelineAssumption ==
    /\ MaxConns \in Nat /\ MaxBytes \in Nat /\ MaxWakes \in Nat
    /\ QueueCap \in Nat \ {0} /\ DumpMayFail \in BOOLEAN
    /\ StopBy \subseteq {"handler", "service"}
    /\ Verdicts \subseteq [bad : BOOLEAN, blocked : BOOLEAN]

VARIABLES
    \* pd_conn_t by incr_id, and the next incr_id
    conns, new_conn_id,
    \* the two arrays of the engine: numbers of connections
    new_conns, conns_updates,
    \* the run flag of the engine, and where its thread is
    running, capture,
    \* onDestroy, which interrupts the capture thread once
    destroy,
    \* CaptureService
    mPendingUpdates, mQueueFull, wakes,
    \* the worker, and the register it fills
    worker, reg,
    \* history: the register was emptied; a termination item was queued
    cleaned, signalled

engineVars  == <<conns, new_conn_id, new_conns, conns_updates>>
serviceVars == <<mPendingUpdates, mQueueFull, wakes, destroy, signalled>>
workerVars  == <<worker, reg, cleaned>>
vars == <<engineVars, running, capture, serviceVars, workerVars>>

Ids    == 0..(MaxConns - 1)
Opened == 0..(new_conn_id - 1)

NoData == [status |-> "none", bytes |-> 0, bad |-> FALSE, blocked |-> FALSE,
           pending |-> FALSE, to_purge |-> FALSE]

\* dumpNewConnection and getConnUpdate: what the register is told of c
Desc(c) ==
    [id |-> c, bytes |-> conns[c].bytes, bad |-> conns[c].bad,
     blocked |-> conns[c].blocked, closed |-> conns[c].status # "open",
     alerted |-> FALSE, accounted |-> FALSE]

Item(new, upd) == [new |-> new, upd |-> upd, last |-> FALSE]
Termination    == [new |-> <<>>, upd |-> <<>>, last |-> TRUE]

RangeOf(s) == {s[i] : i \in DOMAIN s}
Listed     == RangeOf(new_conns) \cup RangeOf(conns_updates)
-----------------------------------------------------------------------------
(***************************************************************************)
(* The engine: run_vpn handles packets and sockets.                        *)
(***************************************************************************)
\* Mutant: an entry is added whether one is pending or not.
NotifyAlways(c) == conns_updates' = Append(conns_updates, c)

\* pd_notify_connection_update: one entry until the next dump
Notify(c) ==
    conns_updates' = IF conns[c].pending THEN conns_updates
                                         ELSE Append(conns_updates, c)

Active(c) == running /\ capture = "loop" /\ c \in Opened /\ conns[c].status = "open"

\* pd_new_connection, and the first packet: n = 1 if it is accounted.  It is not when
\* it is blocked, or fails; and the connection may end with it.
OpenConn == \E v \in Verdicts, n \in {0, 1}, status \in {"open", "closed"} :
    /\ running /\ capture = "loop" /\ new_conn_id < MaxConns
    /\ v.blocked => n = 0
    /\ n <= MaxBytes
    /\ conns' = [conns EXCEPT ![new_conn_id] =
                    [status |-> status, bytes |-> n, bad |-> v.bad,
                     blocked |-> v.blocked, pending |-> TRUE,
                     to_purge |-> status = "closed"]]
    /\ new_conns' = Append(new_conns, new_conn_id)
    /\ new_conn_id' = new_conn_id + 1
    /\ UNCHANGED <<conns_updates, running, capture, serviceVars, workerVars>>

\* Another packet of c, either way: pd_account_stats (n = 1), or it is blocked.  The
\* host name in it may be on a list.
Traffic(c) == \E v \in Verdicts, n \in {0, 1} :
    /\ Active(c)
    /\ v = [bad |-> conns[c].bad, blocked |-> conns[c].blocked] \/ ~conns[c].blocked
    /\ v.blocked => n = 0
    /\ conns[c].bytes + n <= MaxBytes
    /\ Notify(c)
    /\ conns' = [conns EXCEPT ![c].bytes = @ + n, ![c].bad = v.bad,
                              ![c].blocked = v.blocked, ![c].pending = TRUE]
    /\ UNCHANGED <<new_conn_id, new_conns, running, capture, serviceVars, workerVars>>

\* connection_closed
CloseConn(c) ==
    /\ Active(c)
    /\ Notify(c)
    /\ conns' = [conns EXCEPT ![c].status = "closed", ![c].to_purge = TRUE,
                              ![c].pending = TRUE]
    /\ UNCHANGED <<new_conn_id, new_conns, running, capture, serviceVars, workerVars>>

\* check_blacklisted_conn_cb and check_blocked_conn_cb, when lists were reloaded:
\* a connection is never blacklisted by them
Recheck(c) == \E v \in Verdicts :
    /\ Active(c)
    /\ v # [bad |-> conns[c].bad, blocked |-> conns[c].blocked]
    /\ v.bad => conns[c].bad
    /\ Notify(c)
    /\ conns' = [conns EXCEPT ![c].bad = v.bad, ![c].blocked = v.blocked,
                              ![c].pending = TRUE]
    /\ UNCHANGED <<new_conn_id, new_conns, running, capture, serviceVars, workerVars>>
-----------------------------------------------------------------------------
(***************************************************************************)
(* The dump.                                                               *)
(***************************************************************************)
\* Mutant: later dumps are queued when one was lost.
UpdateConnectionsGap(item) ==
    IF Len(mPendingUpdates) < QueueCap
    THEN mPendingUpdates' = Append(mPendingUpdates, item) /\ UNCHANGED mQueueFull
    ELSE UNCHANGED mPendingUpdates /\ mQueueFull' = TRUE

\* updateConnections: a dump that is lost is the last one
UpdateConnections(item) ==
    \/ mQueueFull /\ UNCHANGED <<mPendingUpdates, mQueueFull>>
    \/ /\ ~mQueueFull /\ Len(mPendingUpdates) < QueueCap
       /\ mPendingUpdates' = Append(mPendingUpdates, item) /\ UNCHANGED mQueueFull
    \/ /\ ~mQueueFull /\ Len(mPendingUpdates) >= QueueCap
       /\ mQueueFull' = TRUE /\ UNCHANGED mPendingUpdates

\* sendConnectionsDump succeeds, over the given state of the connections
Sent(new, upd) ==
    UpdateConnections(Item([i \in DOMAIN new |-> Desc(new[i])],
                           [i \in DOMAIN upd |-> Desc(upd[i])]))

\* Mutant: connections that are closed are kept.
ClearedKept(S, free_all, done) ==
    [c \in Ids |-> IF c \in done THEN [conns[c] EXCEPT !.pending = FALSE] ELSE conns[c]]

\* sendConnectionsDump reached the connections in done, conns_clear those in S
Cleared(S, free_all, done) ==
    [c \in Ids |->
        IF c \in S /\ (conns[c].to_purge \/ free_all)
        THEN [conns[c] EXCEPT !.status = "freed", !.pending = FALSE]
        ELSE IF c \in done THEN [conns[c] EXCEPT !.pending = FALSE]
        ELSE conns[c]]

\* pd_housekeeping: the dump, and conns_clear of both arrays
Dump ==
    /\ running /\ capture = "loop"
    /\ Listed # {}
    /\ Sent(new_conns, conns_updates)
    /\ conns' = Cleared(Listed, FALSE, Listed)
    /\ new_conns' = <<>> /\ conns_updates' = <<>>
    /\ UNCHANGED <<new_conn_id, running, capture, wakes, destroy, signalled, workerVars>>

\* sendConnectionsDump fails at the k-th connection, or before the first: the
\* arrays are cleared all the same
DumpFails == \E k \in 0..(Len(new_conns) + Len(conns_updates)) :
    /\ DumpMayFail /\ running /\ capture = "loop"
    /\ Listed # {}
    /\ conns' = Cleared(Listed, FALSE, {(new_conns \o conns_updates)[i] : i \in 1..k})
    /\ new_conns' = <<>> /\ conns_updates' = <<>>
    /\ UNCHANGED <<new_conn_id, running, capture, serviceVars, workerVars>>
-----------------------------------------------------------------------------
(***************************************************************************)
(* The end of a capture.                                                   *)
(***************************************************************************)
\* stopPacketLoop: by the handler when the queue was full, or for an error of the tun
Stop ==
    /\ "handler" \in StopBy /\ running /\ running' = FALSE
    /\ UNCHANGED <<engineVars, capture, serviceVars, workerVars>>

\* stopService: stopPacketLoop, and stopSelf, which brings onDestroy
StopService ==
    /\ "service" \in StopBy
    /\ capture # "done" /\ destroy = "no"
    /\ running' = FALSE /\ destroy' = "posted"
    /\ UNCHANGED <<engineVars, capture, mPendingUpdates, mQueueFull, wakes, signalled,
                   workerVars>>

\* onDestroy interrupts the capture thread, if it is there.
OnDestroy ==
    /\ destroy = "posted"
    /\ destroy' = IF capture = "done" THEN "over" ELSE "interrupted"
    /\ UNCHANGED <<engineVars, running, capture, mPendingUpdates, mQueueFull, wakes,
                   signalled, workerVars>>

\* The connections zdtun_finalize closes, in the order of its table
StillOpen == {c \in Opened : conns[c].status = "open"}
Closings  == {c \in StillOpen : ~conns[c].pending}
InOrder(S) == CHOOSE s \in [1..Cardinality(S) -> S] : RangeOf(s) = S

\* run_vpn returns: zdtun_finalize, then the last dump of pd_run, which frees all
LoopEnds ==
    LET upd     == conns_updates \o InOrder(Closings)
        all     == Listed \cup Closings
        desc(c) == [Desc(c) EXCEPT !.closed = TRUE]
    IN  /\ ~running /\ capture = "loop" /\ capture' = "signal"
        /\ \/ UpdateConnections(Item([i \in DOMAIN new_conns |-> desc(new_conns[i])],
                                     [i \in DOMAIN upd |-> desc(upd[i])]))
           \/ DumpMayFail /\ UNCHANGED <<mPendingUpdates, mQueueFull>>
        /\ conns' = Cleared(all, TRUE, all)
        /\ new_conns' = <<>> /\ conns_updates' = <<>>
        /\ UNCHANGED <<new_conn_id, running, wakes, destroy, signalled, workerVars>>

\* What offer makes of the queue
Offered(item) ==
    IF Len(mPendingUpdates) < QueueCap THEN Append(mPendingUpdates, item)
                                       ELSE mPendingUpdates

OfferTermination ==
    /\ mPendingUpdates' = Offered(Termination)
    /\ signalled' = (signalled \/ Len(mPendingUpdates) < QueueCap)

\* signalServicesTermination: nobody looks at what offer returns
Signal ==
    /\ capture = "signal" /\ capture' = "join"
    /\ OfferTermination
    /\ UNCHANGED <<engineVars, running, mQueueFull, wakes, destroy, workerVars>>

\* join is interrupted: the termination item is offered again
JoinInterrupted ==
    /\ capture = "join" /\ destroy = "interrupted" /\ destroy' = "over"
    /\ OfferTermination
    /\ UNCHANGED <<engineVars, running, capture, mQueueFull, wakes, workerVars>>

\* stopAndJoinThreads has joined the worker; mCaptureThread ends
Join ==
    /\ capture = "join" /\ worker = "done" /\ capture' = "done"
    /\ UNCHANGED <<engineVars, running, serviceVars, workerVars>>

\* requestBlacklistsUpdate: an empty item wakes the worker
RequestBlacklistsUpdate ==
    /\ wakes < MaxWakes /\ wakes' = wakes + 1
    /\ capture # "done"
    /\ mPendingUpdates' = Offered(Item(<<>>, <<>>))
    /\ UNCHANGED <<engineVars, running, capture, mQueueFull, destroy, signalled, workerVars>>
-----------------------------------------------------------------------------
(***************************************************************************)
(* connUpdateWork.                                                         *)
(***************************************************************************)
\* Mutant: nothing is taken any more after a dump was lost.
IsTerminationUnlessFull(item) == item.last /\ ~mQueueFull

\* Mutant: an item of nothing ends the thread.
IsTerminationEmpty(item) == item.new = <<>>

IsTermination(item) == item.last

\* newConnections and connectionsUpdates, under the lock of the register
Registered(item) == Updated(Added(reg, item.new), item.upd)

Take ==
    /\ worker = "take" /\ mPendingUpdates # <<>>
    /\ mPendingUpdates' = Tail(mPendingUpdates)
    /\ IF IsTermination(Head(mPendingUpdates))
       THEN worker' = "done" /\ UNCHANGED reg
       ELSE worker' = "clean" /\ reg' = Registered(Head(mPendingUpdates))
    /\ UNCHANGED <<engineVars, running, capture, mQueueFull, wakes, destroy, signalled,
                   cleaned>>

\* The register is emptied when it holds more than CleanAbove connections.
Clean ==
    /\ worker = "clean" /\ worker' = "take"
    /\ IF reg.cur > CleanAbove THEN reg' = Emptied(reg) /\ cleaned' = TRUE
                               ELSE UNCHANGED <<reg, cleaned>>
    /\ UNCHANGED <<engineVars, running, capture, serviceVars>>
-----------------------------------------------------------------------------
Init ==
    /\ conns = [c \in Ids |-> NoData] /\ new_conn_id = 0
    /\ new_conns = <<>> /\ conns_updates = <<>>
    /\ running = TRUE /\ capture = "loop" /\ destroy = "no"
    /\ mPendingUpdates = <<>> /\ mQueueFull = FALSE /\ wakes = 0
    /\ worker = "take" /\ reg = EmptyRegister
    /\ cleaned = FALSE /\ signalled = FALSE

Engine == \/ OpenConn \/ Dump \/ DumpFails
          \/ \E c \in Ids : Traffic(c) \/ CloseConn(c) \/ Recheck(c)

Service == \/ Stop \/ StopService \/ OnDestroy \/ RequestBlacklistsUpdate
           \/ LoopEnds \/ Signal \/ JoinInterrupted \/ Join

Worker == Take \/ Clean

Next == Engine \/ Service \/ Worker

Spec == Init /\ [][Next]_vars

\* Each thread goes on; the housekeeping of the loop dumps now and then; a
\* capture whose queue was full is stopped by the handler.
Fairness ==
    /\ WF_vars(Dump) /\ WF_vars(LoopEnds) /\ WF_vars(Signal) /\ WF_vars(Join)
    /\ WF_vars(OnDestroy) /\ WF_vars(JoinInterrupted) /\ WF_vars(Worker)
    /\ WF_vars(mQueueFull /\ Stop)

FairSpec == Spec /\ Fairness
-----------------------------------------------------------------------------
Descs == [id : Ids, bytes : Nat, bad : BOOLEAN, blocked : BOOLEAN, closed : BOOLEAN,
          alerted : BOOLEAN, accounted : BOOLEAN]

\* What the arrays of the engine, the queue and the register hold
TypeOK ==
    /\ conns \in [Ids -> [status : {"none", "open", "closed", "freed"}, bytes : Nat,
                          bad : BOOLEAN, blocked : BOOLEAN, pending : BOOLEAN,
                          to_purge : BOOLEAN]]
    /\ new_conn_id \in 0..MaxConns
    /\ new_conns \in Seq(Ids) /\ conns_updates \in Seq(Ids)
    /\ running \in BOOLEAN /\ capture \in {"loop", "signal", "join", "done"}
    /\ mPendingUpdates \in Seq([new : Seq(Descs), upd : Seq(Descs), last : BOOLEAN])
    /\ Len(mPendingUpdates) <= QueueCap
    /\ mQueueFull \in BOOLEAN /\ wakes \in Nat /\ cleaned \in BOOLEAN /\ signalled \in BOOLEAN
    /\ worker \in {"take", "clean", "done"}
    /\ destroy \in {"no", "posted", "interrupted", "over"}
    /\ reg.ring \in [Slots -> Descs \cup {NoConn}] /\ reg.tail \in Slots
    /\ reg.cur \in 0..Size /\ reg.untracked \in Nat /\ reg.malicious \in Nat
    /\ reg.numBlocked \in Nat /\ reg.maxBytes \in Nat /\ reg.appBytes \in Nat

\* An update reaches its own connection: what connectionsUpdates asserts, and
\* getConnById relies on.
PositionsMatchIds ==
    \A c \in Ids : InRange(reg, c) => reg.ring[Position(reg, c)].id = c

\* A connection is listed, once, exactly while its notification is pending, and
\* only while it is allocated: each is told of in the next dump and freed once.
PendingIsListed ==
    LET all == new_conns \o conns_updates IN
    /\ \A c \in Ids : conns[c].pending <=> c \in Listed
    /\ \A i, j \in DOMAIN all : all[i] = all[j] => i = j
    /\ \A c \in Listed : conns[c].status \in {"open", "closed"}

\* A connection that is closed is freed by the dump that tells of it, and none is
\* left when the engine has returned.
ClosedIsFreed ==
    /\ \A c \in Opened : conns[c].status = "closed" => c \in Listed
    /\ capture # "loop" => \A c \in Opened : conns[c].status = "freed"

\* On its way to the register
InFlight(c) ==
    \/ c \in Listed
    \/ \E i \in DOMAIN mPendingUpdates :
           c \in {d.id : d \in RangeOf(mPendingUpdates[i].new \o mPendingUpdates[i].upd)}

\* The register shows of c what the engine knows of it
Shows(i, c) ==
    LET d == GetConn(reg, i) IN
    d.id = c /\ Accounted(Desc(c)) = d

\* What the register does not show yet is on its way, unless a dump was lost for
\* want of room (then the capture is stopped) or the register has dropped it.
NothingIsLost ==
    ~mQueueFull => \A c \in Opened :
        \/ InFlight(c)
        \/ \E i \in 1..reg.cur : Shows(i, c)
        \/ reg.cur > 0 /\ c < GetConn(reg, 1).id
        \/ reg.cur = 0 /\ cleaned

\* The counters agree with the ring, until it is emptied: reset leaves them.  The
\* traffic of the applications is that of the connections, each byte once.
CountersMatchRing ==
    LET shown == {p \in Slots : reg.ring[p] # NoConn} IN
    ~cleaned =>
        /\ reg.malicious = Cardinality({p \in shown : reg.ring[p].bad})
        /\ reg.maxBytes = AtLeast({reg.ring[p].bytes : p \in shown}, 0)
        /\ reg.untracked = 0 => reg.appBytes = BytesOf(Slots, reg.ring)

\* The register implements the list it promises.
Log == INSTANCE ConnectionsLog
           WITH recent <- Tracked(reg), untracked <- reg.untracked

RegisterIsLog == Log!LogSpec

\* The last dump is in the register when the capture has ended: every connection is
\* shown, as closed, unless a dump was lost for want of room or the register has
\* dropped the connection.
EndIsShown ==
    capture = "done" /\ ~mQueueFull => \A c \in Opened :
        \/ \E i \in 1..reg.cur : Shows(i, c) /\ GetConn(reg, i).closed
        \/ cleaned \/ (reg.cur > 0 /\ c < GetConn(reg, 1).id)

\* A capture that is stopped, in any way, ends if its termination item found room;
\* else it gets as far as to wait for its worker.
CaptureStopsIfSignalled ==
    ~running ~> (capture = "done" \/ (capture = "join" /\ ~signalled))
=============================================================================
