--------------------------- MODULE NetfreeMonitor ---------------------------
(***************************************************************************)
(* The mode that lets only networks filtered by Netfree through:           *)
(* NetfreeMonitorService with its NetworkWatcher, the watchdog that sends  *)
(* it START every minute, and what it sets: the always-on VPN of the       *)
(* device policy, the stored status, and the network of BlockerVpnService. *)
(*                                                                         *)
(* Its methods run on the main thread, on the thread of the network        *)
(* callbacks and in coroutines, with no lock between them.  Each of these  *)
(* has a program, the statements it has still to execute, and a step of    *)
(* the system is a statement of one of them.                               *)
(***************************************************************************)
EXTENDS Naturals, Sequences, SequencesExt

CONSTANTS
    Networks, Wifi, Cellular,  \* networks, and those of each transport
    None,
    MaxInstances,  \* bound on the instances of the service in one process
    MaxCallbacks,  \* bound on the callbacks an instance registers: beyond it a
                   \* new one takes the place of the last
    MaxEvents,     \* bound on the callbacks that wait to be called
    MaxIntents,    \* bound on what the user sends and is not delivered
    MaxCrashes     \* bound on the deaths of the process

ASSUME MonitorAssumption ==
    /\ Wifi \subseteq Networks /\ Cellular \subseteq Networks \ Wifi
    /\ None \notin Networks
    /\ MaxInstances \in Nat \ {0} /\ MaxCallbacks \in Nat \ {0}
    /\ MaxEvents \in Nat /\ MaxIntents \in Nat /\ MaxCrashes \in Nat

VARIABLES
    up,         \* the networks that are up
    active,     \* stored: is_service_active
    status,     \* stored: is_blocked and approved_network_type
    watchdog,   \* the job is scheduled
    alwaysOn,   \* the always-on VPN: "off", "open", or with "lockdown"
    gen,        \* the instance of the service created last (0: none)
    alive,      \* it has not been destroyed
    approved,   \* approvedNetworks of each instance
    callbacks,  \* registered network callbacks, <<instance, number>>
    last,       \* networkCallback of each instance's NetworkWatcher (0: null)
    messages,   \* messages of the main thread
    events,     \* callbacks to call
    todo, job,  \* of each thread: its statements, and what they are about
    crashes,
    saved,      \* active as it is on the disk (apply writes later)
    asked,      \* history: the START or STOP that was begun last
    torn        \* history: a death cut a STOP short, and no START has set the VPN since

stored  == <<active, status, watchdog>>
service == <<gen, alive, approved, callbacks, last>>
history == <<asked, torn>>
vars == <<up, stored, alwaysOn, service, messages, events, todo, job, crashes, saved,
          history>>

Instances == 1..MaxInstances
Callbacks == Instances \X (1..MaxCallbacks)
Threads   == {"main", "callback", "check"}
Intents   == {"start", "stop", "recheck"}

TypeName(n) == IF n = None THEN "blocked" ELSE IF n \in Wifi THEN "Wi-Fi" ELSE "Cellular"
Statuses    == {"none"} \cup {TypeName(n) : n \in Wifi \cup Cellular \cup {None}}

NoJob == [inst |-> 1, net |-> None]

\* The statements of each method, and what follows the answer to a check
Apply     == <<"determine", "setAlwaysOn">>
Accepting == <<"put", "determine", "setAlwaysOn">>
Refusing  == <<"remove", "determine", "setAlwaysOn">>
Start     == <<"enable", "clear", "determine", "setAlwaysOn", "startWatching", "flush">>

\* Mutant: the mode stays stored as active.
StopForgets == <<"disable", "stopWatching", "flush">>

Stop == <<"disable", "stopWatching", "deactivate", "flush">>

\* What each thread, queue and preference holds
TypeOK ==
    /\ up \subseteq Networks
    /\ active \in BOOLEAN /\ watchdog \in BOOLEAN
    /\ status \in Statuses
    /\ alwaysOn \in {"off", "open", "lockdown"}
    /\ gen \in 0..MaxInstances /\ (alive => gen # 0)
    /\ alive \in BOOLEAN
    /\ approved \in [Instances -> SUBSET (Wifi \cup Cellular)]
    /\ callbacks \subseteq Callbacks
    /\ last \in [Instances -> 0..MaxCallbacks]
    /\ \A i \in Instances : last[i] # 0 => <<i, last[i]>> \in callbacks
    /\ messages \in Seq(Intents \cup {"destroy"})
    /\ events \in Seq({"available", "lost"} \X Networks \X Callbacks)
    /\ DOMAIN todo = Threads
    /\ job \in [Threads -> [inst : Instances, net : Networks \cup {None}]]
    /\ crashes \in 0..MaxCrashes
    /\ saved \in BOOLEAN
    /\ asked \in {"none", "start", "stop"} /\ torn \in BOOLEAN

Init ==
    /\ up \in SUBSET Networks
    /\ active = FALSE /\ status = "none" /\ watchdog = FALSE
    /\ alwaysOn = "off"
    /\ gen = 0 /\ alive = FALSE
    /\ approved = [i \in Instances |-> {}]
    /\ callbacks = {} /\ last = [i \in Instances |-> 0]
    /\ messages = <<>> /\ events = <<>>
    /\ todo = [t \in Threads |-> <<>>]
    /\ job = [t \in Threads |-> NoJob]
    /\ crashes = 0
    /\ saved = FALSE
    /\ asked = "none" /\ torn = FALSE

Idle(t) == todo[t] = <<>>

\* An event of each network for each callback in cs
EventsOf(kind, nets, cs) == {kind} \X nets \X cs

\* Thread t begins a program p of instance i, about network n.
Begin(t, p, i, n) ==
    /\ Idle(t)
    /\ todo' = [todo EXCEPT ![t] = p]
    /\ job' = [job EXCEPT ![t] = [inst |-> i, net |-> n]]

\* Thread t goes on with p; what it was about is forgotten at the end.
Continue(t, p) ==
    /\ todo' = [todo EXCEPT ![t] = p]
    /\ job' = IF p = <<>> THEN [job EXCEPT ![t] = NoJob] ELSE job

\* A check is launched, unless the scope of the service has been cancelled.  Bound:
\* one check at a time; the next is launched when it has ended.
performNetfreeCheck(n, i) ==
    IF i = gen /\ alive THEN Begin("check", <<"ask">>, i, n)
    ELSE UNCHANGED <<todo, job>>

-----------------------------------------------------------------------------
(* The statements of a thread t, for instance i and network n.             *)

At(t, step) == ~Idle(t) /\ Head(todo[t]) = step
Go(t, step) == At(t, step) /\ Continue(t, Tail(todo[t]))

\* Wi-Fi first, then a cellular network
Preferred(nets) ==
    IF nets \cap Wifi # {} THEN nets \cap Wifi
    ELSE IF nets \cap Cellular # {} THEN nets \cap Cellular ELSE {None}

\* determinePreferredNetwork and saveNetfreeStatus; the policy is set later.
Determine(t, i) ==
    /\ At(t, "determine")
    /\ todo' = [todo EXCEPT ![t] = Tail(@)]
    /\ \E n \in Preferred(approved[i]) :
           /\ job' = [job EXCEPT ![t].net = n]
           /\ status' = TypeName(n)
    /\ UNCHANGED <<active, watchdog, alwaysOn, service, messages, events>>

\* setAlwaysOnVpnPackage, for the network that was preferred
SetAlwaysOn(t, n) ==
    /\ Go(t, "setAlwaysOn")
    /\ alwaysOn' = IF n = None THEN "lockdown" ELSE "open"
    /\ UNCHANGED <<stored, service, messages, events>>

\* START: scheduleWatchdog and enablePersistentFirewall, then approvedNetworks.clear
Enable(t) ==
    /\ Go(t, "enable")
    /\ watchdog' = TRUE /\ alwaysOn' = "open"
    /\ UNCHANGED <<active, status, service, messages, events>>

Approve(i, nets) ==
    /\ approved' = [approved EXCEPT ![i] = nets]
    /\ UNCHANGED <<stored, alwaysOn, gen, alive, callbacks, last, messages, events>>

\* Mutant: START keeps what was approved before it.
ClearNothing(t, i) == Go(t, "clear") /\ Approve(i, approved[i])

Clear(t, i) == Go(t, "clear") /\ Approve(i, {})

\* NetworkWatcher.startWatching registers one more callback, which is called for
\* every network that is up; the one before it stays registered.  Then the mode is
\* stored as active.
StartWatching(t, i) ==
    LET k == IF last[i] < MaxCallbacks THEN last[i] + 1 ELSE MaxCallbacks
    IN  /\ Go(t, "startWatching")
        /\ last' = [last EXCEPT ![i] = k]
        /\ callbacks' = callbacks \cup {<<i, k>>}
        /\ events' = events \o SetToSeq(EventsOf("available", up, {<<i, k>>}) \ ToSet(events))
        /\ active' = TRUE
        /\ UNCHANGED <<status, watchdog, alwaysOn, gen, alive, approved, messages>>

\* stopWatching knows the last callback only; one that is not registered any more
\* is not called.
stopWatching(i) ==
    /\ callbacks' = callbacks \ {<<i, last[i]>>}
    /\ last' = [last EXCEPT ![i] = 0]
    /\ events' = SelectSeq(events, LAMBDA e : e[3] \in callbacks')

StopWatching(t, i) ==
    /\ Go(t, "stopWatching")
    /\ stopWatching(i)
    /\ UNCHANGED <<stored, alwaysOn, gen, alive, approved, messages>>

\* STOP: cancelWatchdog and disablePersistentFirewall
Disable(t) ==
    /\ Go(t, "disable")
    /\ watchdog' = FALSE /\ alwaysOn' = "off"
    /\ UNCHANGED <<active, status, service, messages, events>>

\* ... setServiceActive(false), stopSelf: onDestroy follows what was sent before.
Deactivate(t) ==
    /\ Go(t, "deactivate")
    /\ active' = FALSE /\ status' = "none"
    /\ messages' = Append(messages, "destroy")
    /\ UNCHANGED <<watchdog, alwaysOn, service, events>>

\* Android waits for what was applied to be on the disk before the command is done.
Flush(t) ==
    /\ Go(t, "flush")
    /\ saved' = active
    /\ UNCHANGED <<stored, alwaysOn, service, messages, events>>

\* The answer to a check.  A scope that was cancelled makes it "no" (isNetfreeFiltered
\* catches the exception), and the policy is applied in any case.
Ask(t, i) ==
    /\ At(t, "ask")
    /\ \E filtered \in IF i = gen /\ alive THEN BOOLEAN ELSE {FALSE} :
           Continue(t, IF filtered THEN <<"transport">> ELSE Refusing)
    /\ UNCHANGED <<stored, alwaysOn, service, messages, events>>

\* getNetworkCapabilities: a network that is gone has no transport.
Transport(t, n) ==
    /\ At(t, "transport")
    /\ Continue(t, IF n \in up \cap (Wifi \cup Cellular) THEN Accepting ELSE Apply)
    /\ UNCHANGED <<stored, alwaysOn, service, messages, events>>

Accept(t, i, n) == Go(t, "put") /\ Approve(i, approved[i] \cup {n})
Refuse(t, i, n) == Go(t, "remove") /\ Approve(i, approved[i] \ {n})

Run(t) ==
    LET i == job[t].inst
        n == job[t].net
    IN  /\ \/ Enable(t) /\ torn' = FALSE /\ UNCHANGED saved
           \/ Flush(t) /\ UNCHANGED torn
           \/ /\ \/ Clear(t, i) \/ Determine(t, i) \/ SetAlwaysOn(t, n)
                 \/ StartWatching(t, i)
                 \/ Disable(t) \/ StopWatching(t, i) \/ Deactivate(t)
                 \/ Ask(t, i) \/ Transport(t, n) \/ Accept(t, i, n) \/ Refuse(t, i, n)
              /\ UNCHANGED <<saved, torn>>
        /\ UNCHANGED <<up, crashes, asked>>

\* The preferences are written in the background.
WritePreferences ==
    /\ saved' = active
    /\ UNCHANGED <<up, stored, alwaysOn, service, messages, events, todo, job, crashes,
                   history>>

-----------------------------------------------------------------------------
(* The main thread takes a message; an intent finds or creates the service.*)

onStartCommand ==
    LET i == IF alive THEN gen ELSE gen + 1
        m == Head(messages)
    IN  /\ Idle("main") /\ messages # <<>>
        /\ m # "destroy" /\ i \in Instances
        /\ messages' = Tail(messages)
        /\ gen' = i /\ alive' = TRUE
        /\ \/ m = "start" /\ Begin("main", Start, i, None)
           \/ m = "stop" /\ Begin("main", Stop, i, None)
           \/ m = "recheck" /\ up = {} /\ Begin("main", Apply, i, None)
           \/ m = "recheck" /\ \E n \in up : Begin("check", <<"ask">>, i, n)
        /\ asked' = IF m = "recheck" THEN asked ELSE m
        /\ UNCHANGED <<up, stored, alwaysOn, approved, callbacks, last, events, crashes,
                       saved, torn>>

\* onDestroy cancels the scope of the checks.
onDestroy ==
    /\ Idle("main") /\ messages # <<>> /\ Head(messages) = "destroy"
    /\ messages' = Tail(messages)
    /\ alive' = FALSE
    /\ stopWatching(gen)
    /\ UNCHANGED <<up, stored, alwaysOn, gen, approved, todo, job, crashes,
                   saved, history>>

\* A network callback is called.
Callback ==
    LET kind == Head(events)[1]
        n    == Head(events)[2]
        cb   == Head(events)[3]
    IN  /\ Idle("callback") /\ events # <<>>
        /\ events' = Tail(events)
        /\ IF kind = "available"
           THEN performNetfreeCheck(n, cb[1])
           ELSE IF n \in approved[cb[1]]
           THEN Begin("callback", Refusing, cb[1], n)
           ELSE UNCHANGED <<todo, job>>
        /\ UNCHANGED <<up, stored, alwaysOn, service, messages, crashes, saved, history>>

-----------------------------------------------------------------------------
(* The environment.                                                        *)

NetworkUp ==
    \E n \in Networks \ up :
        /\ Len(events) < MaxEvents
        /\ up' = up \cup {n}
        /\ events' = events \o SetToSeq(EventsOf("available", {n}, callbacks))
        /\ UNCHANGED <<stored, alwaysOn, service, messages, todo, job, crashes,
                       saved, history>>

NetworkDown ==
    \E n \in up :
        /\ Len(events) < MaxEvents
        /\ up' = up \ {n}
        /\ events' = events \o SetToSeq(EventsOf("lost", {n}, callbacks))
        /\ UNCHANGED <<stored, alwaysOn, service, messages, todo, job, crashes,
                       saved, history>>

\* The feature is switched on or off, the dashboard asks for a check (it shows the
\* button while the mode is on) or restarts the service: stop, then start.  Bound:
\* the last instance of a process is not stopped, nor a process that died once.
User ==
    \E m \in Intents :
        /\ Len(messages) < MaxIntents
        /\ m = "stop" =>
               /\ Idle("main") /\ messages = <<>> /\ crashes < MaxCrashes
               /\ (IF alive THEN gen ELSE gen + 1) < MaxInstances
        /\ m = "recheck" => active
        /\ m = "start" => ~active
        /\ messages' = Append(messages, m)
        /\ UNCHANGED <<up, stored, alwaysOn, service, events, todo, job, crashes,
                       saved, history>>

Post(m) == IF m \in ToSet(messages) THEN messages ELSE Append(messages, m)

\* Mutant: a service that lives is not sent START again.
ServiceWatchdogJobIfDead ==
    /\ watchdog /\ active /\ ~alive
    /\ messages' = Post("start")
    /\ UNCHANGED <<up, stored, alwaysOn, service, events, todo, job, crashes,
                   saved, history>>

ServiceWatchdogJob ==
    /\ watchdog /\ active
    /\ messages' = Post("start")
    /\ UNCHANGED <<up, stored, alwaysOn, service, events, todo, job, crashes,
                   saved, history>>

\* The command that the main thread is executing
Interrupted ==
    IF Idle("main") THEN <<>>
    ELSE IF todo["main"] \in {Apply, Tail(Apply)} THEN <<"recheck">> ELSE <<asked>>

\* The process dies, between any two statements; what is on the disk, the scheduled
\* job and the device policy survive, and so do intents (the status may be any that
\* was stored).  Android delivers again the
\* command that was cut short, unless it does not restart the service.  After a
\* reboot no intent is left, and NetfreeWatchdogBootTask sends START.
ProcessDies ==
    \E reboot, again \in BOOLEAN :
        /\ crashes < MaxCrashes
        /\ crashes' = crashes + 1
        /\ active' = saved /\ status' \in Statuses
        /\ gen' = 0 /\ alive' = FALSE
        /\ approved' = [i \in Instances |-> {}]
        /\ callbacks' = {} /\ last' = [i \in Instances |-> 0]
        /\ events' = <<>>
        /\ todo' = [t \in Threads |-> <<>>] /\ job' = [t \in Threads |-> NoJob]
        /\ messages' =
               IF reboot THEN IF saved THEN <<"start">> ELSE <<>>
               ELSE (IF again THEN Interrupted ELSE <<>>)
                    \o SelectSeq(messages, LAMBDA m : m # "destroy")
        /\ watchdog' = (watchdog \/ (reboot /\ saved))
        /\ torn' = (torn \/ Interrupted = <<"stop">>)
        /\ UNCHANGED <<up, alwaysOn, saved, asked>>

\* START_STICKY: the system creates the service again, with no intent.
StickyRestart ==
    /\ crashes > 0 /\ gen = 0 /\ Idle("main") /\ messages = <<>>
    /\ gen' = 1 /\ alive' = TRUE
    /\ UNCHANGED <<up, stored, alwaysOn, approved, callbacks, last, messages, events,
                   todo, job, crashes, saved, history>>

Next ==
    \/ \E t \in Threads : Run(t)
    \/ onStartCommand \/ onDestroy \/ Callback
    \/ NetworkUp \/ NetworkDown \/ User \/ ServiceWatchdogJob
    \/ WritePreferences \/ ProcessDies \/ StickyRestart

\* Threads go on, messages are delivered, and the job runs every minute.
Fairness ==
    /\ WF_vars(Run("main") \/ onStartCommand \/ onDestroy)
    /\ WF_vars(Run("callback") \/ Callback)
    /\ WF_vars(Run("check"))
    /\ WF_vars(ServiceWatchdogJob)

Spec     == Init /\ [][Next]_vars
FairSpec == Spec /\ Fairness

-----------------------------------------------------------------------------
(* Properties.                                                             *)

\* Whatever is started, stopped, destroyed or lost, and wherever the process dies, the
\* always-on VPN is set while the mode is stored as active, but for the command in
\* which the main thread changes both, and after a STOP that a death has cut short:
\* the watchdog and the VPN are off then, the mode is stored as active, and nothing
\* arms it before the next boot (NetfreeMonitorService.kt:125).
ArmedWhileActive == active /\ Idle("main") /\ ~torn => alwaysOn # "off"

\* What the living service knows of the networks
Approved == IF gen = 0 THEN {} ELSE approved[gen]

\* Two threads that apply the policy at once may leave the network open although
\* none is approved (NetfreeMonitorService.kt:200), and so does a process that dies
\* with what it had approved: not for ever.
OpenIsRepaired ==
    active /\ ~torn /\ alwaysOn = "open" /\ Approved = {} ~>
        ~active \/ torn \/ alwaysOn = "lockdown" \/ Approved # {}

\* A network that is lost between the two last statements of its check is approved
\* after that (NetfreeMonitorService.kt:184): it does not stay approved.
LostNetworkIsForgotten ==
    \A n \in Wifi \cup Cellular :
        active /\ ~torn /\ n \notin up ~>
            ~active \/ torn \/ n \in up \/ n \notin Approved
=============================================================================
