-------------------------- MODULE CaptureLifecycle --------------------------
(***************************************************************************)
(* How a capture is started, stopped and started again: the instances of   *)
(* CaptureService and their capture threads, the flag running that all of  *)
(* them share in the engine, VpnController, and VpnReconnectService, which *)
(* waits for the VPN of another application to end.                        *)
(*                                                                         *)
(* Android is the environment.  A start is an intent that is delivered     *)
(* later, to the living instance or to a new one; stopSelf only asks for   *)
(* onDestroy, which waits while the system is bound to an open VPN.  When  *)
(* another VPN takes over, the system unbinds ours, and onRevoke and the   *)
(* callbacks about networks come later, each on a thread of its own.  What *)
(* the capture thread does within its loop is in ConnPipeline.             *)
(***************************************************************************)
EXTENDS Naturals, Sequences

CONSTANTS
    MaxInstances,  \* bound on the instances of CaptureService
    MaxIntents,    \* bound on the starts that are under way
    MaxServices,   \* bound on the instances of VpnReconnectService
    MaxStarts,     \* bound on the starts of one of them
    MaxCalls,      \* bound on the calls that wait for one of its callbacks
    Networks,      \* VPN networks of other applications, each up once at most
    NoNetwork,
    Allow          \* of Behaviours

Behaviours == {"early_revoke", "quick_start"}

ASSUME LifecycleAssumption ==
    /\ MaxInstances \in Nat \ {0} /\ MaxIntents \in Nat \ {0} /\ MaxServices \in Nat
    /\ MaxStarts \in Nat /\ MaxCalls \in Nat /\ NoNetwork \notin Networks /\ Allow \subseteq Behaviours

VARIABLES
    instance,  \* INSTANCE, the instance created last (0: none yet)
    svc,       \* the instances: alive, started (not stopSelf'd), bound, mRevoked
    thread,    \* mCaptureThread of each instance, by what it does
    running,   \* the flag of the engine (vpnrelay.c)
    intents,   \* starts of CaptureService that are not delivered
    revoking,  \* the instance whose onRevoke is to come (0: none)
    posts,     \* instances whose STOPPED status waits on the main thread
    restart,   \* the delayed start of VpnController.restartVpn
    vpn,       \* the VPN network of another application that is up
    used,      \* networks that have been up
    rc,        \* VpnReconnectService: its instance (gen) and the starts of it (reg)
    watched,   \* mActiveVpnNetwork of each of its instances
    leaked,    \* callbacks that are registered and that no instance knows any more
    calls,     \* the calls about networks that wait for each callback
    timers,    \* delayed messages: <<kind, callback of the start that set it up>>
    asked      \* history: what was asked for last, "on", "off", or "crossed" for
               \* a stop that crosses a start

captureVars   == <<instance, svc, thread, running, revoking, posts>>
reconnectVars == <<rc, watched, leaked, calls, timers>>
vars == <<captureVars, intents, restart, vpn, used, reconnectVars, asked>>

Instances == 1..MaxInstances
Services  == 1..MaxServices
Callbacks == Services \X (1..MaxStarts)   \* one for each start of a service
Phases    == {"none", "started", "loop", "left", "joining", "ending"}

TypeOK ==
    /\ instance \in 0..MaxInstances
    /\ svc \in [Instances -> [alive : BOOLEAN, started : BOOLEAN,
                              bound : BOOLEAN, revoked : BOOLEAN]]
    /\ thread \in [Instances -> Phases]
    /\ \A i \in Instances : svc[i].alive \/ svc[i].started => i = instance
    /\ running \in BOOLEAN /\ restart \in BOOLEAN
    /\ intents \in 0..MaxIntents
    /\ posts \subseteq Instances /\ revoking \in 0..MaxInstances
    /\ vpn \in Networks \cup {NoNetwork} /\ used \subseteq Networks
    /\ rc \in [gen : 0..MaxServices, reg : 0..MaxStarts, alive : BOOLEAN,
               callback : BOOLEAN, intent : BOOLEAN]
    /\ watched \in [Services -> Networks \cup {NoNetwork}]
    /\ leaked \subseteq Callbacks
    /\ calls \in [Callbacks -> Seq({"available", "lost"} \X Networks)]
    /\ timers \subseteq {"deadline", "lost"} \X Callbacks
    /\ asked \in {"on", "off", "crossed"}

Init ==
    /\ instance = 0
    /\ svc = [i \in Instances |-> [alive |-> FALSE, started |-> FALSE,
                                   bound |-> FALSE, revoked |-> FALSE]]
    /\ thread = [i \in Instances |-> "none"]
    /\ running = FALSE /\ restart = FALSE
    /\ intents = 0 /\ posts = {} /\ revoking = 0
    /\ vpn = NoNetwork /\ used = {}
    /\ rc = [gen |-> 0, reg |-> 0, alive |-> FALSE, callback |-> FALSE, intent |-> FALSE]
    /\ watched = [g \in Services |-> NoNetwork]
    /\ leaked = {} /\ calls = [c \in Callbacks |-> <<>>] /\ timers = {}
    /\ asked = "off"

isServiceActive == instance # 0 /\ thread[instance] # "none"

\* Mutant: the tunnel is closed with the request to stop.
StopSelfUnbinds(s) ==
    IF instance = 0 THEN s ELSE [s EXCEPT ![instance].started = FALSE,
                                          ![instance].bound = FALSE]

\* CaptureService.stopService, on the instances s: the flag and stopSelf
StopSelf(s) == IF instance = 0 THEN s ELSE [s EXCEPT ![instance].started = FALSE]

\* Mutant: the loop is not told, as onDestroy will follow.
stopServiceOnly == svc' = StopSelf(svc) /\ UNCHANGED running

stopService ==
    /\ svc' = StopSelf(svc)
    /\ running' = IF instance = 0 THEN running ELSE FALSE

\* VpnReconnectService.stopService and the onDestroy it asks for
StopReconnect(r) == [r EXCEPT !.alive = FALSE, !.callback = FALSE]

\* mNetworkCallback, while rc.callback says that there is one
Own == <<rc.gen, rc.reg>>

\* unregisterNetworkCallback: the callback is not called any more.
Dropped == IF rc.callback THEN [calls EXCEPT ![Own] = <<>>] ELSE calls

\* A timer runs for at least 500 ms, the loop looks at its flag every 250 ms
\* (SELECT_TIMEOUT_MS) and the way out of it waits for nobody: no timer rings
\* between a stop and the moment the tunnel is closed.
LoopIsOut ==
    \A i \in Instances : thread[i] # "left" /\ (running \/ thread[i] # "loop")

\* A stop before the loop has begun is lost when it begins (vpnrelay.c:2748).
Starting == intents > 0 \/ restart \/ \E i \in Instances : thread[i] = "started"

-----------------------------------------------------------------------------
(* The user: VpnController, and the ways round it (CaptureHelper, always-on)*)

\* VpnController.startVpn does nothing while a capture thread exists.
UserStart ==
    /\ ~isServiceActive /\ intents < MaxIntents
    /\ intents' = intents + 1
    /\ asked' = "on"
    /\ UNCHANGED <<captureVars, restart, vpn, used, reconnectVars>>

UserStop ==
    /\ stopService
    /\ asked' = IF Starting THEN "crossed" ELSE "off"
    /\ UNCHANGED <<instance, thread, revoking, posts, intents, restart, vpn, used,
                   reconnectVars>>

\* restartVpn: a stop, and a start after half a second
UserRestart ==
    /\ ~restart
    /\ stopService
    /\ restart' = TRUE
    /\ asked' = "on"
    /\ UNCHANGED <<instance, thread, revoking, posts, intents, vpn, used, reconnectVars>>

RestartTimer ==
    /\ restart /\ LoopIsOut
    /\ restart' = FALSE
    /\ IF isServiceActive THEN UNCHANGED intents
       ELSE intents < MaxIntents /\ intents' = intents + 1
    /\ UNCHANGED <<captureVars, vpn, used, reconnectVars, asked>>

\* CaptureHelper.startCapture and the system's start of an always-on VPN do not
\* ask whether the thread of the last capture is still there.
SystemStart ==
    /\ "quick_start" \in Allow \/ \A i \in Instances : thread[i] = "none"
    /\ intents < MaxIntents
    /\ intents' = intents + 1
    /\ asked' = "on"
    /\ UNCHANGED <<captureVars, restart, vpn, used, reconnectVars>>

-----------------------------------------------------------------------------
(* CaptureService.                                                         *)

\* The instance that an intent is delivered to
Living == instance # 0 /\ svc[instance].alive

\* onStartCommand, after onCreate when no instance lives.  An instance that has
\* a thread is stopped (abortStart), and so is one whose VPN cannot be set up, as
\* when another application has the VPN (Builder.establish).
onStartCommand ==
    LET i    == IF Living THEN instance ELSE instance + 1
        busy == thread[i] # "none"
    IN  /\ intents > 0 /\ i \in Instances
        /\ intents' = intents - 1
        /\ instance' = i
        /\ \E ok \in BOOLEAN :
               IF ok /\ ~busy
               THEN /\ vpn = NoNetwork
                    /\ svc' = [svc EXCEPT ![i].alive = TRUE, ![i].started = TRUE,
                                          ![i].bound = TRUE]
                    /\ thread' = [thread EXCEPT ![i] = "started"]
                    /\ UNCHANGED <<running, posts>>
               ELSE /\ svc' = [svc EXCEPT ![i].alive = TRUE, ![i].started = FALSE]
                    /\ running' = FALSE
                    /\ posts' = posts \cup {i}
                    /\ UNCHANGED thread
        /\ rc' = IF busy THEN rc ELSE StopReconnect(rc)
        /\ calls' = IF busy THEN calls ELSE Dropped
        /\ UNCHANGED <<revoking, restart, vpn, used, watched, leaked, timers, asked>>

\* onDestroy (the interrupt it sends to the thread is in ConnPipeline)
onDestroy ==
    /\ instance # 0
    /\ svc[instance].alive /\ ~svc[instance].started /\ ~svc[instance].bound
    /\ svc' = [svc EXCEPT ![instance].alive = FALSE]
    /\ UNCHANGED <<instance, thread, running, revoking, posts, intents, restart, vpn,
                   used, reconnectVars, asked>>

\* onRevoke, on a thread of the system's calls, which may be late
onRevoke ==
    /\ revoking # 0
    /\ revoking' = 0
    /\ svc' = [StopSelf(svc) EXCEPT ![revoking].revoked = TRUE]
    /\ running' = FALSE
    /\ UNCHANGED <<instance, thread, posts, intents, restart, vpn, used,
                   reconnectVars, asked>>

\* The capture thread (CaptureService.run, runPacketLoop), step by step
Thread(i, from, to) == thread[i] = from /\ thread' = [thread EXCEPT ![i] = to]

EnterLoop(i) ==
    /\ Thread(i, "started", "loop")
    /\ running' = TRUE
    /\ UNCHANGED <<instance, svc, posts>>

LeaveLoop(i) ==
    /\ ~running
    /\ Thread(i, "loop", "left")
    /\ UNCHANGED <<instance, svc, running, posts>>

CloseTunnel(i) ==
    /\ Thread(i, "left", "joining")
    /\ svc' = [svc EXCEPT ![i].bound = FALSE]
    /\ UNCHANGED <<instance, running, posts>>

\* The thread has waited for the others and calls the static stopService.
StopAfterJoin(i) ==
    /\ Thread(i, "joining", "ending")
    /\ stopService
    /\ UNCHANGED <<instance, posts>>

EndThread(i) ==
    /\ Thread(i, "ending", "none")
    /\ posts' = posts \cup {i}
    /\ UNCHANGED <<instance, svc, running>>

CaptureThread ==
    \E i \in Instances :
        /\ \/ EnterLoop(i) \/ LeaveLoop(i) \/ CloseTunnel(i)
           \/ StopAfterJoin(i) \/ EndThread(i)
        /\ UNCHANGED <<revoking, intents, restart, vpn, used, reconnectVars, asked>>

\* updateServiceStatus(STOPPED): a revoked capture waits for the other VPN
HandleStopped ==
    \E i \in posts :
        /\ posts' = posts \ {i}
        /\ rc' = [rc EXCEPT !.intent = @ \/ svc[i].revoked]
        /\ UNCHANGED <<instance, svc, thread, running, revoking, intents, restart, vpn,
                       used, watched, leaked, calls, timers, asked>>

-----------------------------------------------------------------------------
(* VPNs of other applications, and VpnReconnectService.                    *)

\* checkAvailableNetwork of a service ignores a network that it knows, and one that has
\* gone; any other network it watches from then on ...
Sees(g, net) == net # NoNetwork /\ net = vpn /\ net # watched[g]

\* Mutant: a network that comes back leaves the timers alone.
RemainingAll(g) == timers

\* ... and cancels every timer of the service.
Remaining(g) == {t \in timers : t[2][1] # g}

\* What the callbacks that are registered will be told
Registered      == leaked \cup {c \in {Own} : rc.callback}
Told(kind, net) ==
    [c \in Callbacks |-> IF c \in Registered THEN Append(calls[c], <<kind, net>>)
                         ELSE calls[c]]
Room            == \A c \in Callbacks : Len(calls[c]) < MaxCalls

\* Another application takes the VPN: the system unbinds ours, and calls onRevoke.
VpnUp ==
    \E net \in Networks \ used :
        LET ours == instance # 0 /\ svc[instance].alive /\ svc[instance].bound
        IN  /\ vpn = NoNetwork /\ Room /\ revoking = 0
            /\ "early_revoke" \in Allow \/ \A i \in Instances : thread[i] # "started"
            /\ intents = 0 \/ "quick_start" \in Allow
            /\ vpn' = net /\ used' = used \cup {net}
            /\ calls' = Told("available", net)
            /\ IF ours
               THEN /\ svc' = [svc EXCEPT ![instance].bound = FALSE]
                    /\ revoking' = instance
               ELSE UNCHANGED <<svc, revoking>>
            /\ UNCHANGED <<instance, thread, running, posts, intents, restart, rc,
                           watched, leaked, timers, asked>>

VpnDown ==
    /\ vpn # NoNetwork /\ Room
    /\ vpn' = NoNetwork
    /\ calls' = Told("lost", vpn)
    /\ UNCHANGED <<captureVars, intents, restart, used, rc, watched, leaked, timers, asked>>

\* A callback is called, on a thread of the connectivity manager.
Called(c, kind) ==
    /\ calls[c] # <<>> /\ Head(calls[c])[1] = kind
    /\ calls' = [calls EXCEPT ![c] = Tail(@)]
    /\ UNCHANGED <<captureVars, intents, restart, vpn, used, rc, leaked, asked>>

onAvailable ==
    \E c \in Callbacks :
        /\ Called(c, "available")
        /\ IF Sees(c[1], Head(calls[c])[2])
           THEN /\ watched' = [watched EXCEPT ![c[1]] = vpn]
                /\ timers' = Remaining(c[1])
           ELSE UNCHANGED <<watched, timers>>

\* The loss of the network that is watched starts the debounce.
onLost ==
    \E c \in Callbacks :
        /\ Called(c, "lost")
        /\ timers' = IF Head(calls[c])[2] = watched[c[1]] THEN timers \cup {<<"lost", c>>}
                     ELSE timers
        /\ UNCHANGED watched

\* VpnReconnectService.onStartCommand, after onCreate when no instance lives.  A
\* callback is registered, which is told of the network that is up, and the service
\* looks for this network itself; a callback it had before is forgotten, not taken back.
\* When the callback is refused the service is stopped, but not its deadline.
StartReconnect ==
    LET g == IF rc.alive THEN rc.gen ELSE rc.gen + 1
        k == IF rc.alive THEN rc.reg + 1 ELSE 1
        Service(up) == [gen |-> g, reg |-> k, alive |-> up, callback |-> up,
                        intent |-> FALSE]
    IN  /\ rc.intent /\ <<g, k>> \in Callbacks
        /\ leaked' = leaked \cup {c \in {Own} : rc.callback}
        /\ \/ /\ rc' = Service(TRUE)
              /\ IF Sees(g, vpn)
                 THEN watched' = [watched EXCEPT ![g] = vpn] /\ timers' = Remaining(g)
                 ELSE /\ timers' = timers \cup {<<"deadline", <<g, k>>>>}
                      /\ UNCHANGED watched
              /\ calls' = IF vpn = NoNetwork THEN calls
                          ELSE [calls EXCEPT ![<<g, k>>] = <<<<"available", vpn>>>>]
           \/ /\ rc' = Service(FALSE)
              /\ timers' = timers \cup {<<"deadline", <<g, k>>>>}
              /\ UNCHANGED <<watched, calls>>
        /\ UNCHANGED <<captureVars, intents, restart, vpn, used, asked>>

\* The user aborts the reconnection: the timers are left alone.
AbortReconnect ==
    /\ rc.alive
    /\ rc' = StopReconnect(rc)
    /\ calls' = Dropped
    /\ UNCHANGED <<captureVars, intents, restart, vpn, used, watched, leaked, timers, asked>>

\* The deadline stops the service that lives, be it another than the one that set it.
DeadlineRings ==
    \E t \in timers :
        /\ t[1] = "deadline" /\ LoopIsOut
        /\ timers' = timers \ {t}
        /\ rc' = StopReconnect(rc)
        /\ calls' = Dropped
        /\ UNCHANGED <<captureVars, intents, restart, vpn, used, watched, leaked, asked>>

\* The network that was watched is gone: what runs is stopped and the capture started
\* (CaptureHelper.startCapture), unless the user has to consent first or the host of
\* the proxy is not found.
LostRings ==
    \E t \in timers :
        /\ t[1] = "lost" /\ LoopIsOut
        /\ revoking = 0 \/ "quick_start" \in Allow
        /\ timers' = timers \ {t}
        /\ IF t[2][1] = rc.gen THEN rc' = [rc EXCEPT !.callback = FALSE] /\ calls' = Dropped
           ELSE UNCHANGED <<rc, calls>>
        /\ IF isServiceActive THEN stopService ELSE UNCHANGED <<svc, running>>
        /\ \/ intents < MaxIntents /\ intents' = intents + 1 /\ asked' = "on"
           \/ UNCHANGED <<intents, asked>>
        /\ UNCHANGED <<instance, thread, revoking, posts, restart, vpn, used, watched,
                       leaked>>

Next ==
    \/ UserStart \/ UserStop \/ UserRestart \/ RestartTimer \/ SystemStart
    \/ onStartCommand \/ onDestroy \/ onRevoke \/ CaptureThread \/ HandleStopped
    \/ VpnUp \/ VpnDown \/ onAvailable \/ onLost
    \/ StartReconnect \/ AbortReconnect \/ DeadlineRings \/ LostRings

\* The threads go on, and Android delivers what it has.
Fairness == WF_vars(CaptureThread) /\ WF_vars(onStartCommand)

Spec     == Init /\ [][Next]_vars
FairSpec == Spec /\ Fairness

-----------------------------------------------------------------------------
(* Properties.                                                             *)

\* The engine keeps its state in globals and on the stack of one thread: two
\* threads are never in runPacketLoop at once (vpnrelay.c:3019), and the tunnel
\* of the one that is there is the one of the current instance.
OneLoop ==
    \A i, j \in Instances :
        thread[i] = "loop" /\ thread[j] \in {"started", "loop", "left"} => i = j

\* A stop that finds the capture in its loop ends it, whatever is started,
\* revoked or reconnected meanwhile, unless a capture is asked for again ("The
\* SERVICE_STATUS_STOPPED notification is sent asynchronously when mCaptureThread
\* terminates", CaptureService.java:1445).  A stop that crosses a start is forgotten: the
\* intent, the restart or the start of the loop comes after it, and none of them asks
\* (CaptureService.java:682, vpnrelay.c:2748).
StopIsObeyed ==
    asked = "off" ~> asked = "on" \/ \A i \in Instances : thread[i] = "none"

\* A timer of onLost rings and starts the capture.
Rings(t) == t[1] = "lost" /\ t \in timers /\ t \notin timers' /\ intents' > intents

\* What the service knows it respects: while its callback is registered it starts the
\* capture only if no VPN is up, or the news of the one that is has not reached it yet.
\* Each network that it is told of cancels the timer of the one lost before it, in
\* whatever order networks and callbacks come (VpnReconnectService.java:187).  Once the
\* callback is taken back nothing cancels a timer that is left, which starts the capture
\* over any VPN (VpnReconnectService.java:260).
KnownVpnIsRespected ==
    [][ \A t \in timers :
            rc.callback /\ t[2][1] = rc.gen /\ Rings(t) /\ vpn # NoNetwork
            => \E n \in 1..Len(calls[Own]) : calls[Own][n] = <<"available", vpn>> ]_vars
=============================================================================
