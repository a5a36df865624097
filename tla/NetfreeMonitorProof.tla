------------------------ MODULE NetfreeMonitorProof ------------------------
(***************************************************************************)
(* A proof about NetfreeMonitor, for every set of networks and every bound *)
(* on instances, callbacks, events, intents and crashes.                   *)
(***************************************************************************)
EXTENDS NetfreeMonitor, TLAPS

\* What START and STOP have still to do, point by point
Starting == {<<"clear", "determine", "setAlwaysOn", "startWatching", "flush">>,
             <<"determine", "setAlwaysOn", "startWatching", "flush">>,
             <<"setAlwaysOn", "startWatching", "flush">>, <<"startWatching", "flush">>}
Stopping == {<<"stopWatching", "deactivate", "flush">>, <<"deactivate", "flush">>}
Flushing == <<"flush">>
Applying == {<<>>, Apply, <<"setAlwaysOn">>}

MainPrograms   == {Start, Stop, Flushing} \cup Starting \cup Stopping \cup Applying
WorkerPrograms == {<<"ask">>, <<"transport">>, Accepting, Refusing} \cup Applying

\* After a statement of the main thread
LEMMA MainStatement ==
  ASSUME NEW p \in MainPrograms, p # <<>>
  PROVE  /\ Tail(p) \in MainPrograms
         /\ Tail(p) \in Starting => Head(p) = "enable" \/ p \in Starting
         /\ Tail(p) \in Stopping => p = Stop \/ p \in Stopping
         /\ p \in Stopping => Tail(p) \in Stopping \/ Head(p) = "deactivate"
         /\ Tail(p) = Flushing => \/ Head(p) = "startWatching" /\ p \in Starting
                                  \/ Head(p) = "deactivate" /\ p \in Stopping
         /\ Tail(p) \notin {Start, Stop}
         /\ Head(p) = "startWatching" => p \in Starting
         /\ Head(p) = "deactivate" => Tail(p) = Flushing
         /\ Head(p) = "disable" => Tail(p) \in Stopping
         /\ Head(p) = "enable" => p = Start /\ Tail(p) \in Starting
         /\ Head(p) = "flush" <=> p = Flushing
         /\ p = Flushing => Tail(p) = <<>>
         /\ Head(p) \notin {"ask", "transport"}
  <1> USE DEF MainPrograms, Starting, Stopping, Applying, Apply, Start, Stop, Flushing
  <1>1. CASE p = Start
    BY <1>1
  <1>2. CASE p = Stop
    BY <1>2
  <1>3. CASE p = <<"clear", "determine", "setAlwaysOn", "startWatching", "flush">>
    BY <1>3
  <1>4. CASE p = <<"determine", "setAlwaysOn", "startWatching", "flush">>
    BY <1>4
  <1>5. CASE p = <<"setAlwaysOn", "startWatching", "flush">>
    BY <1>5
  <1>6. CASE p = <<"startWatching", "flush">>
    BY <1>6
  <1>7. CASE p = <<"stopWatching", "deactivate", "flush">>
    BY <1>7
  <1>8. CASE p = <<"deactivate", "flush">>
    BY <1>8
  <1>9. CASE p = Apply
    BY <1>9
  <1>10. CASE p = <<"setAlwaysOn">>
    BY <1>10
  <1>11. CASE p = Flushing
    BY <1>11
  <1> QED
    BY <1>1, <1>2, <1>3, <1>4, <1>5, <1>6, <1>7, <1>8, <1>9, <1>10, <1>11

\* After a statement of another thread
LEMMA WorkerStatement ==
  ASSUME NEW p \in WorkerPrograms, p # <<>>
  PROVE  /\ Tail(p) \in WorkerPrograms
         /\ Head(p) \notin {"enable", "disable", "startWatching", "deactivate", "flush"}
  <1> USE DEF WorkerPrograms, Applying, Apply, Accepting, Refusing
  <1>1. CASE p = <<"ask">>
    BY <1>1
  <1>2. CASE p = <<"transport">>
    BY <1>2
  <1>3. CASE p = <<"setAlwaysOn">>
    BY <1>3
  <1>4. CASE p = Accepting
    BY <1>4
  <1>5. CASE p = Refusing
    BY <1>5
  <1>6. CASE p = Apply
    BY <1>6
  <1> QED
    BY <1>1, <1>2, <1>3, <1>4, <1>5, <1>6

\* The programs that are begun are not in the middle of START or STOP.
LEMMA Beginnings ==
  /\ {<<>>, Start, Stop, Apply, Tail(Apply)} \cap (Starting \cup Stopping \cup {Flushing}) = {}
  /\ Starting \cap Stopping = {} /\ Flushing \notin Starting \cup Stopping
  /\ {<<>>, Start, Stop, Apply} \subseteq MainPrograms
  /\ {<<>>, Apply} \cap {Start, Stop} = {} /\ Start # Stop
  /\ {<<>>, <<"ask">>, <<"transport">>, Accepting, Refusing, Apply} \subseteq WorkerPrograms
  <1> USE DEF Start, Stop, Apply, Starting, Stopping, Flushing
  <1>1. <<>> \notin Starting \cup Stopping \cup {Flushing}
    OBVIOUS
  <1>2. Start \notin Starting \cup Stopping \cup {Flushing}
    OBVIOUS
  <1>3. Stop \notin Starting \cup Stopping \cup {Flushing}
    OBVIOUS
  <1>4. Apply \notin Starting \cup Stopping \cup {Flushing}
    OBVIOUS
  <1>5. Tail(Apply) \notin Starting \cup Stopping \cup {Flushing}
    OBVIOUS
  <1>6. Starting \cap Stopping = {} /\ Flushing \notin Starting \cup Stopping
    OBVIOUS
  <1>7. {<<>>, Apply} \cap {Start, Stop} = {} /\ Start # Stop
    OBVIOUS
  <1> QED
    BY <1>1, <1>2, <1>3, <1>4, <1>5, <1>6, <1>7 DEF MainPrograms, WorkerPrograms, Applying

-----------------------------------------------------------------------------
(* The always-on VPN and the mode, as it is stored and as the disk has it. *)

\* The main thread is in a STOP that has taken the VPN off.
InStop == asked = "stop" /\ todo["main"] \in Stopping \cup {Flushing}

\* The programs that the threads have
ProgramsType ==
    /\ DOMAIN todo = Threads /\ todo = [t \in Threads |-> todo[t]]
    /\ todo["main"] \in MainPrograms
    /\ \A t \in Threads \ {"main"} : todo[t] \in WorkerPrograms

\* Unless a death has cut a STOP short, the VPN is set while the mode is active, except
\* in the end of STOP; it is set while the disk says that the mode is active, except
\* until STOP is done; and it is set from the first statement of START on.  STOP is not
\* done before the disk has what it stored.
ModeInv ==
    /\ active /\ ~torn /\ todo["main"] \notin Stopping => alwaysOn # "off"
    /\ saved /\ ~torn /\ ~InStop => alwaysOn # "off"
    /\ todo["main"] \in Starting => alwaysOn # "off"
    /\ todo["main"] \in Starting \cup {Start} => asked = "start"
    /\ todo["main"] \in Stopping \cup {Stop} => asked = "stop"
    /\ todo["main"] = Flushing /\ asked = "stop" => ~active

ArmInv == ProgramsType /\ ModeInv

LEMMA InitArm == Init => ArmInv
  BY Beginnings DEF Init, ArmInv, ProgramsType, ModeInv, Threads

\* A thread begins a program.
LEMMA BeginProgram ==
  ASSUME ProgramsType, NEW t \in Threads, NEW p,
         \/ t = "main" /\ p \in {Start, Stop, Apply}
         \/ t # "main" /\ p \in {<<"ask">>, Refusing},
         Idle(t), todo' = [todo EXCEPT ![t] = p]
  PROVE  /\ ProgramsType'
         /\ t = "main" => todo["main"] = <<>> /\ todo'["main"] = p
         /\ t # "main" => todo'["main"] = todo["main"]
  <1>1. todo'[t] = p /\ \A u \in Threads \ {t} : todo'[u] = todo[u]
    BY DEF ProgramsType
  <1>2. DOMAIN todo' = Threads /\ todo' = [u \in Threads |-> todo'[u]]
    BY DEF ProgramsType
  <1>3. "main" \in Threads
    BY DEF Threads
  <1> QED
    BY <1>1, <1>2, <1>3, Beginnings DEF ProgramsType, Idle

LEMMA CommandArm == ArmInv /\ onStartCommand => ArmInv'
  <1> SUFFICES ASSUME ArmInv, onStartCommand PROVE ArmInv'
    OBVIOUS
  <1>1. PICK t \in Threads, p \in {Start, Stop, Apply, <<"ask">>} :
            /\ \/ t = "main" /\ p \in {Start, Stop, Apply}
               \/ t # "main" /\ p = <<"ask">>
            /\ Idle(t) /\ todo' = [todo EXCEPT ![t] = p]
            /\ p = Start => asked' = "start"
            /\ p = Stop => asked' = "stop"
            /\ p \in {Apply, <<"ask">>} => asked' = asked
    <2>1. CASE Head(messages) = "start"
      BY <2>1 DEF onStartCommand, Begin, Threads, Start, Stop, Apply
    <2>2. CASE Head(messages) = "stop"
      BY <2>2 DEF onStartCommand, Begin, Threads, Start, Stop, Apply
    <2>3. CASE Head(messages) = "recheck"
      BY <2>3 DEF onStartCommand, Begin, Threads, Start, Stop, Apply
    <2> QED
      BY <2>1, <2>2, <2>3 DEF onStartCommand
  <1>2. /\ ProgramsType'
        /\ t = "main" => todo["main"] = <<>> /\ todo'["main"] = p
        /\ t # "main" => todo'["main"] = todo["main"]
    BY <1>1, BeginProgram DEF ArmInv
  <1>3. UNCHANGED <<active, alwaysOn, saved, torn>> /\ todo["main"] = <<>>
    BY DEF onStartCommand, stored, Idle
  <1>4. /\ active /\ ~torn => alwaysOn # "off"
        /\ saved /\ ~torn => alwaysOn # "off"
    BY <1>3, Beginnings DEF ArmInv, ModeInv, InStop
  <1>5. CASE t = "main"
    BY <1>1, <1>2, <1>3, <1>4, <1>5, Beginnings DEF ArmInv, ModeInv
  <1>6. CASE t # "main"
    BY <1>1, <1>2, <1>3, <1>4, <1>6, Beginnings DEF ArmInv, ModeInv
  <1> QED
    BY <1>5, <1>6

\* What a statement does to what it is about
LEMMA StatementOf ==
  ASSUME ProgramsType, NEW t \in Threads, Run(t)
  PROVE  LET p == todo[t]
             q == todo'[t]
         IN  /\ p # <<>>
             /\ \/ /\ Head(p) \in {"ask", "transport"}
                   /\ q \in {<<"transport">>, Refusing, Accepting, Apply}
                \/ q = Tail(p)
             /\ DOMAIN todo' = Threads /\ todo' = [u \in Threads |-> todo'[u]]
             /\ \A u \in Threads \ {t} : todo'[u] = todo[u]
             /\ asked' = asked
             /\ \/ /\ Head(p) = "enable" /\ alwaysOn' # "off" /\ ~torn'
                   /\ UNCHANGED <<active, saved>>
                \/ /\ Head(p) = "setAlwaysOn" /\ alwaysOn' # "off"
                   /\ UNCHANGED <<active, saved, torn>>
                \/ Head(p) = "disable" /\ UNCHANGED <<active, saved, torn>>
                \/ Head(p) = "startWatching" /\ active' /\ UNCHANGED <<alwaysOn, saved, torn>>
                \/ Head(p) = "deactivate" /\ ~active' /\ UNCHANGED <<alwaysOn, saved, torn>>
                \/ Head(p) = "flush" /\ saved' = active /\ UNCHANGED <<alwaysOn, active, torn>>
                \/ /\ Head(p) \notin {"enable", "disable", "startWatching", "deactivate", "flush"}
                   /\ UNCHANGED <<active, alwaysOn, saved, torn>>
  <1> USE DEF Run, Enable, Clear, Determine, SetAlwaysOn, StartWatching, Disable,
              StopWatching, Deactivate, Flush, Ask, Transport, Accept, Refuse, Go, At
  <1>1. todo[t] # <<>>
    BY DEF Idle
  <1>2. \/ /\ Head(todo[t]) \in {"ask", "transport"}
           /\ todo'[t] \in {<<"transport">>, Refusing, Accepting, Apply}
        \/ todo'[t] = Tail(todo[t])
    BY DEF Continue, ProgramsType
  <1>3. /\ DOMAIN todo' = Threads /\ todo' = [u \in Threads |-> todo'[u]]
        /\ \A u \in Threads \ {t} : todo'[u] = todo[u]
    <2>1. PICK x : todo' = [todo EXCEPT ![t] = x]
      BY DEF Continue
    <2> QED
      BY <2>1 DEF ProgramsType
  <1>4. /\ asked' = asked
        /\ \/ /\ Head(todo[t]) = "enable" /\ alwaysOn' # "off" /\ ~torn'
              /\ UNCHANGED <<active, saved>>
           \/ /\ Head(todo[t]) = "setAlwaysOn" /\ alwaysOn' # "off"
              /\ UNCHANGED <<active, saved, torn>>
           \/ Head(todo[t]) = "disable" /\ UNCHANGED <<active, saved, torn>>
           \/ Head(todo[t]) = "startWatching" /\ active' /\ UNCHANGED <<alwaysOn, saved, torn>>
           \/ Head(todo[t]) = "deactivate" /\ ~active' /\ UNCHANGED <<alwaysOn, saved, torn>>
           \/ Head(todo[t]) = "flush" /\ saved' = active /\ UNCHANGED <<alwaysOn, active, torn>>
           \/ /\ Head(todo[t]) \notin {"enable", "disable", "startWatching", "deactivate", "flush"}
              /\ UNCHANGED <<active, alwaysOn, saved, torn>>
    BY DEF Approve, stored
  <1> QED
    BY <1>1, <1>2, <1>3, <1>4

\* A statement of any thread
LEMMA RunArm ==
  ASSUME ArmInv, NEW t \in Threads, Run(t)
  PROVE  ArmInv'
  <1> DEFINE p == todo[t]
             q == todo'[t]
  <1>1. /\ p # <<>>
        /\ \/ /\ Head(p) \in {"ask", "transport"}
              /\ q \in {<<"transport">>, Refusing, Accepting, Apply}
           \/ q = Tail(p)
        /\ DOMAIN todo' = Threads /\ todo' = [u \in Threads |-> todo'[u]]
        /\ \A u \in Threads \ {t} : todo'[u] = todo[u]
        /\ asked' = asked
    BY StatementOf DEF ArmInv
  <1>2. \/ /\ Head(p) = "enable" /\ alwaysOn' # "off" /\ ~torn'
           /\ UNCHANGED <<active, saved>>
        \/ /\ Head(p) = "setAlwaysOn" /\ alwaysOn' # "off"
           /\ UNCHANGED <<active, saved, torn>>
        \/ Head(p) = "disable" /\ UNCHANGED <<active, saved, torn>>
        \/ Head(p) = "startWatching" /\ active' /\ UNCHANGED <<alwaysOn, saved, torn>>
        \/ Head(p) = "deactivate" /\ ~active' /\ UNCHANGED <<alwaysOn, saved, torn>>
        \/ Head(p) = "flush" /\ saved' = active /\ UNCHANGED <<alwaysOn, active, torn>>
        \/ /\ Head(p) \notin {"enable", "disable", "startWatching", "deactivate", "flush"}
           /\ UNCHANGED <<active, alwaysOn, saved, torn>>
    BY StatementOf DEF ArmInv
  <1>3. CASE t = "main"
    <2>1. p \in MainPrograms /\ \A u \in Threads \ {"main"} : todo[u] \in WorkerPrograms
      BY <1>3 DEF ArmInv, ProgramsType
    <2>2. /\ Tail(p) \in MainPrograms
          /\ Tail(p) \in Starting => Head(p) = "enable" \/ p \in Starting
          /\ Tail(p) \in Stopping => p = Stop \/ p \in Stopping
          /\ p \in Stopping => Tail(p) \in Stopping \/ Head(p) = "deactivate"
          /\ Tail(p) = Flushing => \/ Head(p) = "startWatching" /\ p \in Starting
                                   \/ Head(p) = "deactivate" /\ p \in Stopping
          /\ Tail(p) \notin {Start, Stop}
      BY <1>1, <2>1, MainStatement
    <2>3. /\ Head(p) = "startWatching" => p \in Starting
          /\ Head(p) = "deactivate" => Tail(p) = Flushing
          /\ Head(p) = "disable" => Tail(p) \in Stopping
          /\ Head(p) = "enable" => p = Start /\ Tail(p) \in Starting
          /\ Head(p) = "flush" <=> p = Flushing
          /\ p = Flushing => Tail(p) = <<>>
          /\ Head(p) \notin {"ask", "transport"}
      BY <1>1, <2>1, MainStatement
    <2>4. q = Tail(p)
      BY <1>1, <2>3
    <2>5. ProgramsType'
      BY <1>1, <1>3, <2>1, <2>2, <2>4 DEF ProgramsType
    <2>6. todo["main"] = p /\ todo'["main"] = q
      BY <1>3
    <2>7. /\ active /\ ~torn /\ p \notin Stopping => alwaysOn # "off"
          /\ saved /\ ~torn /\ ~(asked = "stop" /\ p \in Stopping \cup {Flushing})
             => alwaysOn # "off"
          /\ p \in Starting => alwaysOn # "off"
          /\ p \in Starting \cup {Start} => asked = "start"
          /\ p \in Stopping \cup {Stop} => asked = "stop"
          /\ p = Flushing /\ asked = "stop" => ~active
      BY <2>6 DEF ArmInv, ModeInv, InStop
    <2> HIDE DEF p, q
    <2>8. /\ active' /\ ~torn' /\ q \notin Stopping => alwaysOn' # "off"
          /\ q \in Starting => alwaysOn' # "off"
      BY <1>2, <2>2, <2>3, <2>4, <2>7, Beginnings
    <2>9. /\ q \in Starting \cup {Start} => asked' = "start"
          /\ q \in Stopping \cup {Stop} => asked' = "stop"
          /\ q = Flushing /\ asked' = "stop" => ~active'
      BY <1>1, <1>2, <2>2, <2>3, <2>4, <2>7, Beginnings
    <2>10. saved' /\ ~torn' /\ ~(asked' = "stop" /\ q \in Stopping \cup {Flushing})
           => alwaysOn' # "off"
      <3>1. CASE Head(p) = "flush"
        BY <1>1, <1>2, <2>2, <2>3, <2>4, <2>7, <3>1, Beginnings
      <3>2. CASE Head(p) = "disable"
        BY <1>1, <2>4, <2>3, <2>9, <3>2
      <3>3. CASE Head(p) \notin {"flush", "disable"}
        BY <1>1, <1>2, <2>2, <2>3, <2>4, <2>7, <3>3, Beginnings
      <3> QED
        BY <3>1, <3>2, <3>3
    <2> QED
      BY <2>5, <2>6, <2>8, <2>9, <2>10 DEF ArmInv, ModeInv, InStop
  <1>4. CASE t # "main"
    <2>1. p \in WorkerPrograms
      BY <1>4 DEF ArmInv, ProgramsType
    <2>2. /\ Tail(p) \in WorkerPrograms
          /\ Head(p) \notin {"enable", "disable", "startWatching", "deactivate", "flush"}
      BY <1>1, <2>1, WorkerStatement
    <2>3. q \in WorkerPrograms
      BY <1>1, <2>2, Beginnings
    <2>4. UNCHANGED <<active, saved, torn, asked>> /\ (alwaysOn' # "off" \/ alwaysOn' = alwaysOn)
      BY <1>1, <1>2, <2>2
    <2>5. todo'["main"] = todo["main"]
      BY <1>1, <1>4 DEF Threads
    <2>6. ProgramsType'
      BY <1>1, <2>3, <2>5 DEF ArmInv, ProgramsType
    <2> QED
      BY <2>4, <2>5, <2>6 DEF ArmInv, ModeInv, InStop
  <1> QED
    BY <1>3, <1>4

LEMMA NextArm == ArmInv /\ [Next]_vars => ArmInv'
  <1> SUFFICES ASSUME ArmInv, [Next]_vars PROVE ArmInv'
    OBVIOUS
  <1>1. CASE UNCHANGED <<active, alwaysOn, saved, torn, asked, todo>>
    BY <1>1 DEF ArmInv, ProgramsType, ModeInv, InStop
  <1>2. CASE \E t \in Threads : Run(t)
    BY <1>2, RunArm
  <1>3. CASE onStartCommand
    BY <1>3, CommandArm
  <1>4. CASE Callback
    <2>1. UNCHANGED <<active, alwaysOn, saved, torn, asked>>
      BY <1>4 DEF Callback, stored, history
    <2>2. CASE UNCHANGED todo
      BY <1>1, <2>1, <2>2
    <2>3. CASE ~UNCHANGED todo
      <3>1. PICK t \in Threads, p \in {<<"ask">>, Refusing} :
                t # "main" /\ Idle(t) /\ todo' = [todo EXCEPT ![t] = p]
        BY <1>4, <2>3 DEF Callback, performNetfreeCheck, Begin, Threads
      <3>2. ProgramsType' /\ todo'["main"] = todo["main"]
        BY <3>1, BeginProgram DEF ArmInv
      <3> QED
        BY <2>1, <3>2 DEF ArmInv, ModeInv, InStop
    <2> QED
      BY <2>2, <2>3
  <1>5. CASE WritePreferences
    <2>1. saved' = active /\ UNCHANGED <<active, alwaysOn, torn, asked, todo>>
      BY <1>5 DEF WritePreferences, stored, history
    <2> QED
      BY <2>1 DEF ArmInv, ProgramsType, ModeInv, InStop
  <1>6. CASE ProcessDies
    <2>1. /\ todo' = [t \in Threads |-> <<>>] /\ UNCHANGED <<alwaysOn, saved, asked>>
          /\ active' = saved /\ torn' = (torn \/ Interrupted = <<"stop">>)
      BY <1>6 DEF ProcessDies
    <2>2. InStop => Interrupted = <<"stop">>
      BY Beginnings DEF InStop, Interrupted, Idle
    <2>3. saved /\ ~torn' => alwaysOn # "off"
      BY <2>1, <2>2 DEF ArmInv, ModeInv
    <2>4. ProgramsType' /\ todo'["main"] = <<>>
      BY <2>1, Beginnings DEF ProgramsType, Threads
    <2> QED
      BY <2>1, <2>3, <2>4, Beginnings DEF ArmInv, ModeInv
  <1>7. \/ UNCHANGED <<active, alwaysOn, saved, torn, asked, todo>>
        \/ (\E t \in Threads : Run(t))
        \/ onStartCommand \/ Callback \/ WritePreferences \/ ProcessDies
    BY DEF Next, vars, stored, history, onDestroy, NetworkUp, NetworkDown, User,
           ServiceWatchdogJob, StickyRestart
  <1> QED
    BY <1>1, <1>2, <1>3, <1>4, <1>5, <1>6, <1>7

\* While the mode is stored as active, the always-on VPN is set, whatever the threads
\* and the network callbacks do at once and wherever the process dies, until a death
\* cuts a STOP short.
THEOREM ArmCorrect == Spec => []ArmedWhileActive
  <1>1. ArmInv => ArmedWhileActive
    BY Beginnings DEF ArmInv, ModeInv, ArmedWhileActive, Idle
  <1> QED
    BY <1>1, InitArm, NextArm, PTL DEF Spec
=============================================================================
