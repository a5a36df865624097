----------------------- MODULE CaptureLifecycleProof -----------------------
(***************************************************************************)
(* Proofs about CaptureLifecycle, for every number of instances, of starts *)
(* under way, of reconnection services and of networks.                    *)
(***************************************************************************)
EXTENDS CaptureLifecycle, SequenceTheorems, TLAPS

-----------------------------------------------------------------------------
(* Types, with what they need of each other.                               *)

Svcs == [alive : BOOLEAN, started : BOOLEAN, bound : BOOLEAN, revoked : BOOLEAN]

SvcType == svc \in [Instances -> Svcs]

CaptureType ==
    /\ instance \in 0..MaxInstances
    /\ SvcType
    /\ thread \in [Instances -> Phases]
    /\ running \in BOOLEAN
    /\ posts \subseteq Instances /\ revoking \in 0..MaxInstances
    /\ intents \in 0..MaxIntents
    /\ \A i \in Instances : svc[i].started => svc[i].alive
    /\ \A i \in Instances : svc[i].alive => i = instance
    /\ \A i \in Instances : i > instance => thread[i] = "none"

Rcs == [gen : 0..MaxServices, reg : 0..MaxStarts, alive : BOOLEAN,
        callback : BOOLEAN, intent : BOOLEAN]

Events == {"available", "lost"} \X Networks

ReconnectType ==
    /\ vpn \in Networks \cup {NoNetwork} /\ used \subseteq Networks
    /\ rc \in Rcs
    /\ watched \in [Services -> Networks \cup {NoNetwork}]
    /\ leaked \subseteq Callbacks
    /\ calls \in [Callbacks -> Seq(Events)]
    /\ timers \subseteq {"deadline", "lost"} \X Callbacks
    /\ rc.callback => Own \in Callbacks

MiscType == restart \in BOOLEAN /\ asked \in {"on", "off", "crossed"}

TypeInv == CaptureType /\ ReconnectType /\ MiscType

LEMMA InitType == Init => TypeInv
  <1> SUFFICES ASSUME Init PROVE TypeInv
    OBVIOUS
  <1>1. CaptureType
    <2>1. SvcType
      BY DEF Init, SvcType, Svcs
    <2>2. /\ instance \in 0..MaxInstances /\ intents \in 0..MaxIntents
          /\ revoking \in 0..MaxInstances
      BY LifecycleAssumption DEF Init
    <2>3. \A i \in Instances : ~svc[i].alive /\ ~svc[i].started /\ thread[i] = "none"
      BY DEF Init
    <2>4. thread \in [Instances -> Phases]
      BY DEF Init, Phases
    <2> QED
      BY <2>1, <2>2, <2>3, <2>4 DEF Init, CaptureType
  <1>2. ReconnectType
    <2>1. 0 \in 0..MaxServices /\ 0 \in 0..MaxStarts
      BY LifecycleAssumption
    <2>2. rc \in Rcs
      BY <2>1 DEF Init, Rcs
    <2>3. <<>> \in Seq(Events)
      BY EmptySeq
    <2> QED
      BY <2>2, <2>3 DEF Init, ReconnectType
  <1> QED
    BY <1>1, <1>2 DEF Init, TypeInv, MiscType

\* What a request to stop does to the instances
LEMMA StopSelfType ==
  ASSUME CaptureType
  PROVE  LET s == StopSelf(svc)
         IN  /\ s \in [Instances -> Svcs]
             /\ \A i \in Instances : /\ s[i].alive = svc[i].alive
                                     /\ s[i].bound = svc[i].bound
                                     /\ s[i].started => svc[i].started
  <1>1. CASE instance = 0
    BY <1>1 DEF StopSelf, CaptureType, SvcType
  <1>2. CASE instance # 0
    <2>1. instance \in Instances
      BY <1>2, LifecycleAssumption DEF CaptureType, Instances
    <2>2. StopSelf(svc) = [svc EXCEPT ![instance].started = FALSE]
      BY <1>2 DEF StopSelf
    <2> DEFINE r == [svc[instance] EXCEPT !.started = FALSE]
    <2>3. /\ r \in Svcs /\ ~r.started
          /\ r.alive = svc[instance].alive /\ r.bound = svc[instance].bound
      BY <2>1 DEF CaptureType, SvcType, Svcs
    <2>4. StopSelf(svc) = [svc EXCEPT ![instance] = r]
      BY <2>2
    <2> HIDE DEF r
    <2> QED
      BY <2>1, <2>3, <2>4 DEF CaptureType, SvcType
  <1> QED
    BY <1>1, <1>2

LEMMA StopType ==
  ASSUME CaptureType, stopService,
         UNCHANGED <<instance, posts, revoking>>, intents' \in 0..MaxIntents,
         thread' \in [Instances -> Phases],
         \A i \in Instances : i > instance => thread'[i] = "none"
  PROVE  CaptureType'
  <1>1. svc' = StopSelf(svc) /\ running' \in BOOLEAN
    BY DEF stopService, CaptureType
  <1> QED
    BY <1>1, StopSelfType DEF CaptureType, SvcType

LEMMA StartCommandType == TypeInv /\ onStartCommand => CaptureType'
  <1> SUFFICES ASSUME TypeInv, onStartCommand PROVE CaptureType'
    OBVIOUS
  <1> DEFINE i == IF Living THEN instance ELSE instance + 1
             busy == thread[i] # "none"
  <1>1. /\ intents > 0 /\ i \in Instances
        /\ intents' = intents - 1 /\ instance' = i
    BY DEF onStartCommand
  <1>2. \/ /\ ~busy
           /\ svc' = [svc EXCEPT ![i].alive = TRUE, ![i].started = TRUE,
                                 ![i].bound = TRUE]
           /\ thread' = [thread EXCEPT ![i] = "started"]
           /\ UNCHANGED <<running, posts>>
        \/ /\ svc' = [svc EXCEPT ![i].alive = TRUE, ![i].started = FALSE]
           /\ running' = FALSE
           /\ posts' = posts \cup {i}
           /\ UNCHANGED thread
    BY DEF onStartCommand
  <1>3. instance <= i /\ (\A j \in Instances : svc[j].alive => j = i)
    BY LifecycleAssumption DEF Living, TypeInv, CaptureType, Instances
  <1>4. instance \in Nat /\ i \in Nat
    BY <1>1, LifecycleAssumption DEF TypeInv, CaptureType, Instances
  <1> HIDE DEF i, busy
  <1>5. intents' \in 0..MaxIntents /\ instance' \in 0..MaxInstances
    BY <1>1, <1>4, LifecycleAssumption DEF TypeInv, CaptureType, Instances
  <1>6. /\ SvcType'
        /\ \A j \in Instances : svc'[j].started => svc'[j].alive
        /\ \A j \in Instances : svc'[j].alive => j = i
    <2>1. CASE svc' = [svc EXCEPT ![i].alive = TRUE, ![i].started = TRUE,
                                  ![i].bound = TRUE]
      <3> DEFINE r == [svc[i] EXCEPT !.alive = TRUE, !.started = TRUE, !.bound = TRUE]
      <3>1. r \in Svcs /\ r.alive
        BY <1>1 DEF TypeInv, CaptureType, SvcType, Svcs
      <3>2. svc' = [svc EXCEPT ![i] = r]
        BY <1>1, <2>1 DEF TypeInv, CaptureType, SvcType, Svcs
      <3> HIDE DEF r
      <3> QED
        BY <1>1, <1>3, <3>1, <3>2 DEF TypeInv, CaptureType, SvcType
    <2>2. CASE svc' = [svc EXCEPT ![i].alive = TRUE, ![i].started = FALSE]
      <3> DEFINE r == [svc[i] EXCEPT !.alive = TRUE, !.started = FALSE]
      <3>1. r \in Svcs /\ r.alive
        BY <1>1 DEF TypeInv, CaptureType, SvcType, Svcs
      <3>2. svc' = [svc EXCEPT ![i] = r]
        BY <1>1, <2>2 DEF TypeInv, CaptureType, SvcType, Svcs
      <3> HIDE DEF r
      <3> QED
        BY <1>1, <1>3, <3>1, <3>2 DEF TypeInv, CaptureType, SvcType
    <2> QED
      BY <1>2, <2>1, <2>2
  <1>7. /\ thread' \in [Instances -> Phases] /\ running' \in BOOLEAN
        /\ posts' \subseteq Instances /\ revoking' = revoking
    BY <1>1, <1>2 DEF onStartCommand, TypeInv, CaptureType, Phases
  <1>8. \A j \in Instances : j > i => thread'[j] = "none"
    <2> SUFFICES ASSUME NEW j \in Instances, j > i PROVE thread'[j] = "none"
      OBVIOUS
    <2>1. j \in Nat /\ j > instance /\ j # i
      BY <1>3, <1>4 DEF Instances
    <2>2. thread[j] = "none" /\ thread \in [Instances -> Phases]
      BY <2>1 DEF TypeInv, CaptureType
    <2> QED
      BY <1>2, <2>1, <2>2
  <1> QED
    BY <1>1, <1>5, <1>6, <1>7, <1>8 DEF TypeInv, CaptureType

LEMMA ThreadType == TypeInv /\ CaptureThread => CaptureType'
  <1> SUFFICES ASSUME TypeInv, CaptureThread PROVE CaptureType'
    OBVIOUS
  <1>1. PICK i \in Instances :
            EnterLoop(i) \/ LeaveLoop(i) \/ CloseTunnel(i) \/ StopAfterJoin(i) \/ EndThread(i)
    BY DEF CaptureThread
  <1>2. intents' = intents /\ revoking' = revoking
    BY DEF CaptureThread
  <1>3. PICK from \in Phases \ {"none"}, to \in Phases : Thread(i, from, to)
    BY <1>1 DEF EnterLoop, LeaveLoop, CloseTunnel, StopAfterJoin, EndThread, Phases
  <1>4. /\ thread' \in [Instances -> Phases]
        /\ \A j \in Instances : j > instance => thread'[j] = "none"
    BY <1>3 DEF Thread, TypeInv, CaptureType
  <1>5. CASE EnterLoop(i) \/ LeaveLoop(i) \/ EndThread(i)
    BY <1>2, <1>4, <1>5 DEF EnterLoop, LeaveLoop, EndThread, TypeInv, CaptureType, SvcType
  <1>6. CASE CloseTunnel(i)
    <2> DEFINE r == [svc[i] EXCEPT !.bound = FALSE]
    <2>1. r \in Svcs /\ r.alive = svc[i].alive /\ r.started = svc[i].started
      <3>1. svc[i] \in Svcs
        BY <1>1 DEF TypeInv, CaptureType, SvcType
      <3> QED
        BY <3>1 DEF Svcs
    <2>2. svc' = [svc EXCEPT ![i] = r] /\ UNCHANGED <<instance, running, posts>>
      BY <1>6 DEF CloseTunnel
    <2> HIDE DEF r
    <2> QED
      BY <1>2, <1>4, <2>1, <2>2 DEF TypeInv, CaptureType, SvcType
  <1>7. CASE StopAfterJoin(i)
    BY <1>2, <1>4, <1>7, StopType DEF StopAfterJoin, TypeInv, CaptureType
  <1> QED
    BY <1>1, <1>5, <1>6, <1>7

LEMMA CaptureTypeKept == TypeInv /\ [Next]_vars => CaptureType'
  <1> SUFFICES ASSUME TypeInv, [Next]_vars PROVE CaptureType'
    OBVIOUS
  <1> USE DEF TypeInv
  <1>1. CASE UNCHANGED captureVars /\ intents' \in 0..MaxIntents
    BY <1>1 DEF captureVars, CaptureType, SvcType
  <1>2. \/ intents' \in 0..MaxIntents /\ intents \in 0..MaxIntents
        \/ onStartCommand
    BY LifecycleAssumption
       DEF CaptureType, Next, vars, captureVars, UserStart, UserStop, UserRestart,
           RestartTimer, SystemStart, onDestroy, onRevoke, CaptureThread, HandleStopped,
           VpnUp, VpnDown, Called, onAvailable, onLost, StartReconnect, AbortReconnect,
           DeadlineRings, LostRings
  <1>3. CASE UserStop \/ UserRestart
    BY <1>3, StopType DEF UserStop, UserRestart, CaptureType
  <1>4. CASE onStartCommand
    BY <1>4, StartCommandType
  <1>5. CASE onDestroy
    <2>1. instance \in Instances
      BY <1>5, LifecycleAssumption DEF onDestroy, CaptureType, Instances
    <2> DEFINE r == [svc[instance] EXCEPT !.alive = FALSE]
    <2>2. /\ r \in Svcs /\ ~r.alive
          /\ r.started = svc[instance].started /\ ~svc[instance].started
      BY <1>5, <2>1 DEF onDestroy, CaptureType, SvcType, Svcs
    <2>3. /\ svc' = [svc EXCEPT ![instance] = r]
          /\ UNCHANGED <<instance, thread, running, revoking, posts, intents>>
      BY <1>5 DEF onDestroy
    <2> HIDE DEF r
    <2> QED
      BY <2>1, <2>2, <2>3 DEF CaptureType, SvcType
  <1>6. CASE CaptureThread
    BY <1>6, ThreadType
  <1>7. CASE HandleStopped
    BY <1>7 DEF HandleStopped, CaptureType, SvcType
  <1>8. CASE VpnUp
    <2>1. CASE UNCHANGED captureVars
      BY <1>1, <1>8, <2>1 DEF VpnUp, CaptureType
    <2>2. CASE ~UNCHANGED captureVars
      <3>1. /\ instance # 0 /\ revoking' = instance
            /\ svc' = [svc EXCEPT ![instance].bound = FALSE]
            /\ UNCHANGED <<instance, thread, running, posts, intents>>
        BY <1>8, <2>2 DEF VpnUp, captureVars
      <3>2. instance \in Instances
        BY <3>1, LifecycleAssumption DEF CaptureType, Instances
      <3> DEFINE r == [svc[instance] EXCEPT !.bound = FALSE]
      <3>3. /\ r \in Svcs /\ r.alive = svc[instance].alive
            /\ r.started = svc[instance].started
        BY <3>2 DEF CaptureType, SvcType, Svcs
      <3>4. svc' = [svc EXCEPT ![instance] = r]
        BY <3>1
      <3> HIDE DEF r
      <3> QED
        BY <3>1, <3>2, <3>3, <3>4 DEF CaptureType, SvcType
    <2> QED
      BY <2>1, <2>2
  <1>11. CASE onRevoke
    <2>1. /\ revoking # 0 /\ revoking' = 0 /\ running' = FALSE
          /\ svc' = [StopSelf(svc) EXCEPT ![revoking].revoked = TRUE]
          /\ UNCHANGED <<instance, thread, posts, intents>>
      BY <1>11 DEF onRevoke
    <2>2. revoking \in Instances /\ 0 \in 0..MaxInstances
      BY <2>1, LifecycleAssumption DEF CaptureType, Instances
    <2> DEFINE s == StopSelf(svc)
    <2>3. /\ s \in [Instances -> Svcs]
          /\ \A i \in Instances : /\ s[i].alive = svc[i].alive
                                  /\ s[i].started => svc[i].started
      BY StopSelfType
    <2>4. svc' = [s EXCEPT ![revoking].revoked = TRUE]
      BY <2>1
    <2> HIDE DEF s
    <2> DEFINE r == [s[revoking] EXCEPT !.revoked = TRUE]
    <2>5. r \in Svcs /\ r.alive = s[revoking].alive /\ r.started = s[revoking].started
      BY <2>2, <2>3 DEF Svcs
    <2>6. svc' = [s EXCEPT ![revoking] = r]
      BY <2>4
    <2> HIDE DEF r
    <2>7. /\ svc' \in [Instances -> Svcs]
          /\ \A i \in Instances : /\ svc'[i].alive = svc[i].alive
                                  /\ svc'[i].started => svc[i].started
      BY <2>2, <2>3, <2>5, <2>6
    <2> QED
      BY <2>1, <2>2, <2>7 DEF CaptureType, SvcType
  <1>9. CASE LostRings
    <2>1. CASE UNCHANGED captureVars
      <3>1. intents' \in 0..MaxIntents
        BY <1>9, LifecycleAssumption DEF LostRings, CaptureType
      <3> QED
        BY <1>1, <2>1, <3>1
    <2>2. CASE ~UNCHANGED captureVars
      <3>1. stopService /\ UNCHANGED <<instance, thread, posts, revoking>>
        BY <1>9, <2>2 DEF LostRings, captureVars
      <3>2. intents' \in 0..MaxIntents
        BY <1>9, LifecycleAssumption DEF LostRings, CaptureType
      <3> QED
        BY <3>1, <3>2, StopType DEF CaptureType
    <2> QED
      BY <2>1, <2>2
  <1>10. \/ UNCHANGED captureVars /\ intents' \in 0..MaxIntents
         \/ UserStop \/ UserRestart \/ onStartCommand \/ onDestroy \/ CaptureThread
         \/ onRevoke \/ HandleStopped \/ VpnUp \/ LostRings
    BY <1>2 DEF Next, vars, captureVars, UserStart, RestartTimer, SystemStart, VpnDown,
           Called, onAvailable, onLost, StartReconnect, AbortReconnect, DeadlineRings
  <1> QED
    BY <1>1, <1>3, <1>4, <1>5, <1>6, <1>7, <1>8, <1>9, <1>10, <1>11

\* The elements of a sequence
Elements(s) == {s[n] : n \in 1..Len(s)}

LEMMA SequenceElements ==
  ASSUME NEW S, NEW s \in Seq(S)
  PROVE  /\ Elements(s) \subseteq S
         /\ \A e \in S : Elements(Append(s, e)) = Elements(s) \cup {e}
         /\ s # <<>> => /\ Tail(s) \in Seq(S) /\ Head(s) \in S
                        /\ Elements(s) = Elements(Tail(s)) \cup {Head(s)}
  <1>1. Len(s) \in Nat /\ s \in [1..Len(s) -> S]
    BY LenProperties
  <1>2. \A e \in S : Elements(Append(s, e)) = Elements(s) \cup {e}
    <2> SUFFICES ASSUME NEW e \in S
                 PROVE  Elements(Append(s, e)) = Elements(s) \cup {e}
      OBVIOUS
    <2> DEFINE a == Append(s, e)
    <2>1. /\ Len(a) = Len(s) + 1 /\ a[Len(s) + 1] = e
          /\ \A n \in 1..Len(s) : a[n] = s[n]
      BY <1>1
    <2> HIDE DEF a
    <2>2. 1..Len(a) = (1..Len(s)) \cup {Len(s) + 1}
      BY <1>1, <2>1
    <2>3. Elements(a) = Elements(s) \cup {e}
      BY <2>1, <2>2 DEF Elements
    <2> QED
      BY <2>3 DEF a
  <1>3. ASSUME s # <<>>
        PROVE  /\ Tail(s) \in Seq(S) /\ Head(s) \in S
               /\ Elements(s) = Elements(Tail(s)) \cup {Head(s)}
    <2> DEFINE r == Tail(s)
    <2>1. Len(s) > 0
      BY <1>1, <1>3, EmptySeq
    <2>2. /\ r \in Seq(S) /\ Len(r) = Len(s) - 1 /\ Head(s) = s[1]
          /\ \A n \in 1..Len(r) : r[n] = s[n + 1]
      BY <1>1, <1>3, <2>1
    <2> HIDE DEF r
    <2>3. Head(s) \in S
      BY <1>1, <2>1, <2>2
    <2>4. Elements(s) \subseteq Elements(r) \cup {s[1]}
      <3> SUFFICES ASSUME NEW n \in 1..Len(s), n # 1
                   PROVE  s[n] \in Elements(r)
        BY DEF Elements
      <3>1. n - 1 \in 1..Len(r) /\ (n - 1) + 1 = n
        BY <1>1, <2>2
      <3>2. r[n - 1] = s[n]
        BY <2>2, <3>1
      <3> QED
        BY <3>1, <3>2 DEF Elements
    <2>5. Elements(r) \cup {s[1]} \subseteq Elements(s)
      <3>1. s[1] \in Elements(s)
        BY <1>1, <2>1 DEF Elements
      <3>2. ASSUME NEW n \in 1..Len(r) PROVE r[n] \in Elements(s)
        <4>1. n + 1 \in 1..Len(s)
          BY <1>1, <2>2
        <4> QED
          BY <2>2, <4>1 DEF Elements
      <3> QED
        BY <3>1, <3>2 DEF Elements
    <2> QED
      BY <2>2, <2>3, <2>4, <2>5 DEF r
  <1> QED
    BY <1>1, <1>2, <1>3 DEF Elements

LEMMA StopReconnectType ==
  ASSUME NEW r \in Rcs
  PROVE  LET s == StopReconnect(r)
         IN  s \in Rcs /\ s.gen = r.gen /\ s.reg = r.reg /\ ~s.alive /\ ~s.callback
  BY DEF Rcs, StopReconnect

\* A callback that is not called any more has nothing that waits.
LEMMA DroppedType ==
  ASSUME ReconnectType
  PROVE  /\ Dropped \in [Callbacks -> Seq(Events)]
         /\ \A c \in Callbacks : Elements(Dropped[c]) \subseteq Elements(calls[c])
  <1>1. <<>> \in Seq(Events) /\ Elements(<<>>) = {}
    BY EmptySeq DEF Elements
  <1> QED
    BY <1>1 DEF Dropped, ReconnectType

\* What the callbacks are told is added to what waits for them.
LEMMA ToldType ==
  ASSUME ReconnectType, NEW kind \in {"available", "lost"}, NEW net \in Networks
  PROVE  LET q == Told(kind, net)
         IN  /\ q \in [Callbacks -> Seq(Events)]
             /\ \A c \in Callbacks : Elements(q[c]) \subseteq Elements(calls[c]) \cup {<<kind, net>>}
             /\ rc.callback => Elements(q[Own]) = Elements(calls[Own]) \cup {<<kind, net>>}
  <1> DEFINE q == Told(kind, net)
             e == <<kind, net>>
  <1>1. e \in Events
    BY DEF Events
  <1> HIDE DEF e
  <1>2. ASSUME NEW c \in Callbacks
        PROVE  /\ Append(calls[c], e) \in Seq(Events) /\ calls[c] \in Seq(Events)
               /\ Elements(Append(calls[c], e)) = Elements(calls[c]) \cup {e}
    BY <1>1, SequenceElements DEF ReconnectType
  <1>3. q = [c \in Callbacks |-> IF c \in Registered THEN Append(calls[c], e) ELSE calls[c]]
    BY DEF Told, e
  <1>4. rc.callback => Own \in Registered /\ Own \in Callbacks
    BY DEF Registered, ReconnectType
  <1> HIDE DEF q
  <1>5. /\ q \in [Callbacks -> Seq(Events)]
        /\ \A c \in Callbacks : Elements(q[c]) \subseteq Elements(calls[c]) \cup {e}
        /\ rc.callback => Elements(q[Own]) = Elements(calls[Own]) \cup {e}
    BY <1>2, <1>3, <1>4
  <1> QED
    BY <1>5 DEF q, e

\* A call takes the head of what waits for one callback.
LEMMA CalledType ==
  ASSUME ReconnectType, NEW c \in Callbacks, NEW kind, Called(c, kind)
  PROVE  /\ calls' \in [Callbacks -> Seq(Events)]
         /\ Head(calls[c]) \in Events /\ Head(calls[c])[1] = kind
         /\ Elements(calls[c]) = Elements(calls'[c]) \cup {Head(calls[c])}
         /\ \A d \in Callbacks \ {c} : calls'[d] = calls[d]
         /\ UNCHANGED <<vpn, used, rc, leaked>>
  <1>1. /\ calls[c] # <<>> /\ Head(calls[c])[1] = kind
        /\ calls' = [calls EXCEPT ![c] = Tail(calls[c])]
        /\ UNCHANGED <<vpn, used, rc, leaked>>
    BY DEF Called
  <1>2. calls[c] \in Seq(Events)
    BY DEF ReconnectType
  <1>3. /\ Tail(calls[c]) \in Seq(Events) /\ Head(calls[c]) \in Events
        /\ Elements(calls[c]) = Elements(Tail(calls[c])) \cup {Head(calls[c])}
    BY <1>1, <1>2, SequenceElements
  <1> QED
    BY <1>1, <1>3 DEF ReconnectType

\* Steps that leave the service as it is, or stop it, or forget its callback
Quiet ==
    /\ UNCHANGED <<vpn, used, watched, leaked>> /\ timers' \subseteq timers
    /\ \/ UNCHANGED <<rc, calls>>
       \/ rc' = StopReconnect(rc) /\ calls' = Dropped
       \/ rc' = [rc EXCEPT !.callback = FALSE] /\ calls' = Dropped
       \/ (\E b \in BOOLEAN : rc' = [rc EXCEPT !.intent = b]) /\ UNCHANGED calls

LEMMA QuietSteps ==
  ASSUME [Next]_vars, ReconnectType
  PROVE  \/ Quiet
         \/ VpnUp \/ VpnDown \/ onAvailable \/ onLost \/ StartReconnect
  <1>1. CASE UNCHANGED <<vpn, used, reconnectVars>>
    BY <1>1 DEF Quiet, reconnectVars
  <1>2. CASE onStartCommand
    BY <1>2 DEF Quiet, onStartCommand
  <1>3. CASE HandleStopped
    <2>1. PICK i : rc' = [rc EXCEPT !.intent = @ \/ svc[i].revoked]
      BY <1>3 DEF HandleStopped
    <2>2. (rc.intent \/ svc[i].revoked) \in BOOLEAN
      OBVIOUS
    <2> QED
      BY <1>3, <2>1, <2>2 DEF Quiet, HandleStopped
  <1>4. CASE AbortReconnect \/ DeadlineRings \/ LostRings
    BY <1>4 DEF Quiet, AbortReconnect, DeadlineRings, LostRings
  <1>5. \/ UNCHANGED <<vpn, used, reconnectVars>> \/ onStartCommand \/ HandleStopped
        \/ AbortReconnect \/ DeadlineRings \/ LostRings
        \/ VpnUp \/ VpnDown \/ onAvailable \/ onLost \/ StartReconnect
    BY DEF Next, vars, UserStart, UserStop, UserRestart, RestartTimer, SystemStart,
           onDestroy, onRevoke, CaptureThread
  <1> QED
    BY <1>1, <1>2, <1>3, <1>4, <1>5

\* What a quiet step does to the service
LEMMA QuietService ==
  ASSUME ReconnectType, Quiet
  PROVE  /\ rc' \in Rcs /\ Own' = Own /\ rc'.gen = rc.gen
         /\ calls' \in [Callbacks -> Seq(Events)]
         /\ \A c \in Callbacks : Elements(calls'[c]) \subseteq Elements(calls[c])
         /\ rc'.callback => rc.callback /\ calls' = calls
  <1>1. rc \in Rcs
    BY DEF ReconnectType
  <1>2. CASE UNCHANGED <<rc, calls>>
    BY <1>2 DEF ReconnectType, Own
  <1>3. CASE rc' = StopReconnect(rc) /\ calls' = Dropped
    BY <1>1, <1>3, StopReconnectType, DroppedType DEF Own
  <1>4. CASE rc' = [rc EXCEPT !.callback = FALSE] /\ calls' = Dropped
    <2>1. rc' \in Rcs /\ rc'.gen = rc.gen /\ rc'.reg = rc.reg /\ ~rc'.callback
      BY <1>1, <1>4 DEF Rcs
    <2> QED
      BY <1>4, <2>1, DroppedType DEF Own
  <1>5. CASE (\E b \in BOOLEAN : rc' = [rc EXCEPT !.intent = b]) /\ UNCHANGED calls
    <2>1. /\ rc' \in Rcs /\ rc'.gen = rc.gen /\ rc'.reg = rc.reg
          /\ rc'.callback = rc.callback
      BY <1>1, <1>5 DEF Rcs
    <2> QED
      BY <1>5, <2>1 DEF Own, ReconnectType
  <1> QED
    BY <1>2, <1>3, <1>4, <1>5 DEF Quiet

\* The service that StartReconnect leaves
LEMMA StartedService ==
  ASSUME ReconnectType, StartReconnect
  PROVE  /\ rc' \in Rcs /\ Own' \in Callbacks /\ Own'[1] = rc'.gen
         /\ rc'.gen \in Services
         /\ leaked' \subseteq Callbacks
         /\ UNCHANGED <<vpn, used>>
         /\ calls' \in [Callbacks -> Seq(Events)]
         /\ \A c \in Callbacks :
                Elements(calls'[c]) \subseteq
                    Elements(calls[c]) \cup {<<"available", vpn>>}
         /\ rc'.callback /\ vpn # NoNetwork => <<"available", vpn>> \in Elements(calls'[Own'])
         /\ \/ watched' = watched /\ timers' = timers \cup {<<"deadline", Own'>>}
            \/ /\ watched' = [watched EXCEPT ![rc'.gen] = vpn]
               /\ timers' = Remaining(rc'.gen)
  <1> DEFINE g == IF rc.alive THEN rc.gen ELSE rc.gen + 1
             k == IF rc.alive THEN rc.reg + 1 ELSE 1
             Service(up) == [gen |-> g, reg |-> k, alive |-> up, callback |-> up,
                             intent |-> FALSE]
             told == <<"available", vpn>>
  <1>1. /\ <<g, k>> \in Callbacks /\ UNCHANGED <<vpn, used>>
        /\ leaked' = leaked \cup {c \in {Own} : rc.callback}
        /\ rc' = Service(TRUE) \/ rc' = Service(FALSE)
        /\ \/ watched' = watched /\ timers' = timers \cup {<<"deadline", <<g, k>>>>}
           \/ watched' = [watched EXCEPT ![g] = vpn] /\ timers' = Remaining(g)
        /\ \/ calls' = calls /\ (vpn = NoNetwork \/ rc' = Service(FALSE))
           \/ vpn # NoNetwork /\ calls' = [calls EXCEPT ![<<g, k>>] = <<told>>]
    BY DEF StartReconnect
  <1>2. g \in Services /\ k \in 1..MaxStarts
    BY <1>1 DEF Callbacks
  <1>3. g \in 0..MaxServices /\ k \in 0..MaxStarts
    BY <1>2, LifecycleAssumption DEF Services
  <1> HIDE DEF g, k
  <1>4. rc' \in Rcs /\ rc'.gen = g /\ rc'.reg = k /\ Own' = <<g, k>>
    <2>1. \A b \in BOOLEAN : /\ Service(b) \in Rcs /\ Service(b).gen = g
                             /\ Service(b).reg = k
      BY <1>3 DEF Rcs
    <2> QED
      BY <1>1, <2>1 DEF Own
  <1>5. leaked' \subseteq Callbacks
    BY <1>1 DEF ReconnectType
  <1>6. vpn # NoNetwork => <<told>> \in Seq(Events) /\ Elements(<<told>>) = {told}
    BY DEF ReconnectType, Events, Elements
  <1>7. calls \in [Callbacks -> Seq(Events)]
    BY DEF ReconnectType
  <1>8. /\ calls' \in [Callbacks -> Seq(Events)]
        /\ \A c \in Callbacks : Elements(calls'[c]) \subseteq Elements(calls[c]) \cup {told}
        /\ rc'.callback /\ vpn # NoNetwork => told \in Elements(calls'[<<g, k>>])
    <2> HIDE DEF told
    <2>1. CASE calls' = calls /\ (vpn = NoNetwork \/ rc' = Service(FALSE))
      BY <1>7, <2>1
    <2>2. CASE vpn # NoNetwork /\ calls' = [calls EXCEPT ![<<g, k>>] = <<told>>]
      BY <1>1, <1>6, <1>7, <2>2
    <2> QED
      BY <1>1, <2>1, <2>2
  <1> QED
    BY <1>1, <1>2, <1>4, <1>5, <1>8

LEMMA ReconnectTypeKept == TypeInv /\ [Next]_vars => ReconnectType'
  <1> SUFFICES ASSUME ReconnectType, [Next]_vars PROVE ReconnectType'
    BY DEF TypeInv
  <1>1. CASE Quiet
    <2>1. /\ rc' \in Rcs /\ Own' = Own /\ (rc'.callback => rc.callback)
          /\ calls' \in [Callbacks -> Seq(Events)]
      BY <1>1, QuietService
    <2> QED
      BY <1>1, <2>1 DEF Quiet, ReconnectType
  <1>2. CASE VpnUp
    <2>1. PICK net \in Networks :
              /\ vpn' = net /\ used' = used \cup {net} /\ calls' = Told("available", net)
              /\ UNCHANGED <<rc, watched, leaked, timers>>
      BY <1>2 DEF VpnUp
    <2>2. calls' \in [Callbacks -> Seq(Events)]
      BY <2>1, ToldType
    <2> QED
      BY <2>1, <2>2 DEF ReconnectType, Own
  <1>3. CASE VpnDown
    <2>1. /\ vpn \in Networks /\ vpn' = NoNetwork /\ calls' = Told("lost", vpn)
          /\ UNCHANGED <<used, rc, watched, leaked, timers>>
      BY <1>3 DEF VpnDown, ReconnectType
    <2>2. calls' \in [Callbacks -> Seq(Events)]
      BY <2>1, ToldType
    <2> QED
      BY <2>1, <2>2 DEF ReconnectType, Own
  <1>4. CASE onAvailable \/ onLost
    <2>1. PICK c \in Callbacks, kind \in {"available", "lost"} :
              /\ Called(c, kind)
              /\ watched' \in {watched, [watched EXCEPT ![c[1]] = vpn]}
              /\ timers' \subseteq timers \cup {<<"lost", c>>}
      BY <1>4 DEF onAvailable, onLost, Remaining
    <2>2. calls' \in [Callbacks -> Seq(Events)] /\ UNCHANGED <<vpn, used, rc, leaked>>
      BY <2>1, CalledType
    <2>3. watched' \in [Services -> Networks \cup {NoNetwork}]
      BY <2>1 DEF ReconnectType
    <2> QED
      BY <2>1, <2>2, <2>3 DEF ReconnectType, Own
  <1>5. CASE StartReconnect
    <2>1. /\ rc' \in Rcs /\ Own' \in Callbacks /\ rc'.gen \in Services
          /\ leaked' \subseteq Callbacks /\ UNCHANGED <<vpn, used>>
          /\ calls' \in [Callbacks -> Seq(Events)]
          /\ \/ watched' = watched /\ timers' = timers \cup {<<"deadline", Own'>>}
             \/ /\ watched' = [watched EXCEPT ![rc'.gen] = vpn]
                /\ timers' = Remaining(rc'.gen)
      BY <1>5, StartedService
    <2>2. watched' \in [Services -> Networks \cup {NoNetwork}]
      BY <2>1 DEF ReconnectType
    <2>3. timers' \subseteq timers \cup {<<"deadline", Own'>>}
      BY <2>1 DEF Remaining
    <2>4. timers' \subseteq {"deadline", "lost"} \X Callbacks
      BY <2>1, <2>3 DEF ReconnectType
    <2> QED
      BY <2>1, <2>2, <2>4 DEF ReconnectType
  <1> QED
    BY <1>1, <1>2, <1>3, <1>4, <1>5, QuietSteps

LEMMA NextType == TypeInv /\ [Next]_vars => TypeInv'
  <1>1. TypeInv /\ [Next]_vars => MiscType'
    BY DEF TypeInv, MiscType, Next, vars, UserStart, UserStop, UserRestart, RestartTimer,
           SystemStart, onStartCommand, onDestroy, onRevoke, CaptureThread, HandleStopped,
           VpnUp, VpnDown, Called, onAvailable, onLost, StartReconnect, AbortReconnect,
           DeadlineRings, LostRings
  <1> QED
    BY <1>1, CaptureTypeKept, ReconnectTypeKept DEF TypeInv

\* One instance lives at a time and is the one created last, and every variable has
\* its type.
THEOREM TypeCorrect == Spec => []TypeOK
  <1>1. TypeInv => TypeOK
    BY DEF TypeInv, CaptureType, SvcType, Svcs, ReconnectType, Rcs, Events,
           MiscType, TypeOK
  <1> QED
    BY <1>1, InitType, NextType, PTL DEF Spec

-----------------------------------------------------------------------------
(* One thread in the loop of the engine.                                   *)

Inside == {"started", "loop", "left"}

\* A thread that is to enter the loop, or is in it, or has still to close the tunnel
\* belongs to the current instance.  The tunnel keeps this instance alive; if another
\* application took the VPN it does not, but then the loop has been told to end, or
\* onRevoke is to tell it, and nothing starts a capture before it has ended.
LoopInv ==
    \A i \in Instances :
        thread[i] \in Inside =>
            /\ i = instance
            /\ \/ svc[i].alive /\ svc[i].bound
               \/ intents = 0 /\ thread[i] # "started" /\ (~running \/ revoking # 0)

LEMMA InitLoop == Init => LoopInv
  BY DEF Init, LoopInv, Inside

LEMMA StartCommandLoop == TypeInv /\ LoopInv /\ onStartCommand => LoopInv'
  <1> SUFFICES ASSUME TypeInv, LoopInv, onStartCommand PROVE LoopInv'
    OBVIOUS
  <1> DEFINE i == IF Living THEN instance ELSE instance + 1
             busy == thread[i] # "none"
  <1>1. /\ intents > 0 /\ i \in Instances /\ instance' = i
    BY DEF onStartCommand
  <1>2. \/ /\ ~busy
           /\ svc' = [svc EXCEPT ![i].alive = TRUE, ![i].started = TRUE,
                                 ![i].bound = TRUE]
           /\ thread' = [thread EXCEPT ![i] = "started"]
        \/ /\ svc' = [svc EXCEPT ![i].alive = TRUE, ![i].started = FALSE]
           /\ UNCHANGED thread
    BY DEF onStartCommand
  <1>3. intents # 0
    BY <1>1
  <1>4. \A j \in Instances : thread[j] \in Inside =>
            j = instance /\ svc[j].alive /\ svc[j].bound
    BY <1>3 DEF LoopInv
  <1>5. \A j \in Instances : thread[j] \in Inside => Living /\ j = i
    BY <1>4, LifecycleAssumption DEF Living, Instances
  <1> HIDE DEF i, busy
  <1>6. svc \in [Instances -> Svcs] /\ thread \in [Instances -> Phases]
    BY DEF TypeInv, CaptureType, SvcType
  <1>7. svc'[i].alive /\ (svc'[i].bound = svc[i].bound \/ svc'[i].bound)
    <2>1. svc[i] \in Svcs
      BY <1>1, <1>6
    <2> QED
      BY <1>1, <1>2, <1>6, <2>1 DEF Svcs
  <1>8. ASSUME NEW j \in Instances, thread'[j] \in Inside
        PROVE  j = i /\ svc'[j].alive /\ svc'[j].bound
    <2>1. CASE j # i
      <3>1. thread'[j] = thread[j]
        BY <1>2, <2>1, <1>6
      <3> QED
        BY <3>1, <1>8, <1>5, <2>1
    <2>2. CASE j = i /\ thread[j] \in Inside
      BY <1>4, <1>7, <2>2
    <2>3. CASE j = i /\ thread[j] \notin Inside
      <3>1. svc' = [svc EXCEPT ![i].alive = TRUE, ![i].started = TRUE,
                               ![i].bound = TRUE]
        BY <1>2, <1>8, <2>3
      <3>2. svc[i] \in Svcs
        BY <1>1, <1>6
      <3> QED
        BY <1>1, <1>6, <2>3, <3>1, <3>2 DEF Svcs
    <2> QED
      BY <2>1, <2>2, <2>3
  <1> QED
    BY <1>1, <1>8 DEF LoopInv

LEMMA ThreadLoop == TypeInv /\ LoopInv /\ CaptureThread => LoopInv'
  <1> SUFFICES ASSUME TypeInv, LoopInv, CaptureThread PROVE LoopInv'
    OBVIOUS
  <1>1. PICK i \in Instances :
            EnterLoop(i) \/ LeaveLoop(i) \/ CloseTunnel(i) \/ StopAfterJoin(i) \/ EndThread(i)
    BY DEF CaptureThread
  <1>2. intents' = intents /\ revoking' = revoking /\ thread \in [Instances -> Phases]
    BY DEF CaptureThread, TypeInv, CaptureType
  <1>3. CASE EnterLoop(i)
    <2>1. /\ thread[i] = "started" /\ thread' = [thread EXCEPT ![i] = "loop"]
          /\ UNCHANGED <<instance, svc>>
      BY <1>3 DEF EnterLoop, Thread
    <2>2. i = instance /\ svc[i].alive /\ svc[i].bound
      BY <1>1, <2>1 DEF LoopInv, Inside
    <2>3. \A j \in Instances : thread[j] \in Inside => j = i
      BY <2>2 DEF LoopInv
    <2> QED
      BY <1>1, <1>2, <2>1, <2>2, <2>3 DEF LoopInv, Inside
  <1>4. CASE LeaveLoop(i)
    BY <1>1, <1>2, <1>4 DEF LeaveLoop, Thread, LoopInv, Inside
  <1>5. CASE CloseTunnel(i)
    <2>1. /\ thread[i] = "left" /\ thread' = [thread EXCEPT ![i] = "joining"]
          /\ instance' = instance
      BY <1>5 DEF CloseTunnel, Thread
    <2>2. \A j \in Instances : thread[j] \in Inside => j = i
      BY <1>1, <2>1 DEF LoopInv, Inside
    <2> QED
      BY <1>1, <1>2, <2>1, <2>2 DEF LoopInv, Inside
  <1>6. CASE StopAfterJoin(i)
    <2>1. /\ thread' = [thread EXCEPT ![i] = "ending"] /\ instance' = instance
          /\ svc' = StopSelf(svc) /\ running' \in {running, FALSE}
      BY <1>6 DEF StopAfterJoin, Thread, stopService
    <2>2. \A j \in Instances : svc'[j].alive = svc[j].alive /\ svc'[j].bound = svc[j].bound
      BY <2>1, StopSelfType DEF TypeInv
    <2> QED
      BY <1>1, <1>2, <2>1, <2>2 DEF LoopInv, Inside
  <1>7. CASE EndThread(i)
    BY <1>1, <1>2, <1>7 DEF EndThread, Thread, LoopInv, Inside
  <1> QED
    BY <1>1, <1>3, <1>4, <1>5, <1>6, <1>7

LEMMA NextLoop ==
  ASSUME "early_revoke" \notin Allow, "quick_start" \notin Allow,
         TypeInv, LoopInv, [Next]_vars
  PROVE  LoopInv'
  <1> DEFINE Same == /\ UNCHANGED <<instance, thread>> /\ running' \in {running, FALSE}
                     /\ \A j \in Instances : /\ svc'[j].alive = svc[j].alive
                                              /\ svc'[j].bound = svc[j].bound
  <1>1. CASE Same /\ intents' = intents /\ revoking' = revoking
    BY <1>1 DEF LoopInv
  <1>2. CASE Same /\ LoopIsOut /\ revoking = 0
    <2>1. \A j \in Instances : thread[j] \in Inside => svc[j].alive /\ svc[j].bound
      BY <1>2 DEF LoopInv, LoopIsOut, Inside
    <2> QED
      BY <1>2, <2>1 DEF LoopInv
  <1>3. CASE Same /\ \A j \in Instances : thread[j] \notin Inside
    BY <1>3 DEF LoopInv
  <1>4. ASSUME UNCHANGED <<instance, thread>>, stopService \/ UNCHANGED <<svc, running>>
        PROVE  Same
    BY <1>4, StopSelfType DEF stopService, TypeInv
  <1>5. ASSUME ~isServiceActive
        PROVE  \A j \in Instances : thread[j] \notin Inside
    BY <1>5, LifecycleAssumption DEF isServiceActive, LoopInv, Inside, Instances
  <1>6. CASE UserStart \/ SystemStart
    BY <1>3, <1>4, <1>5, <1>6 DEF UserStart, SystemStart, captureVars, Inside
  <1>7. CASE RestartTimer
    <2>1. Same /\ revoking' = revoking
      BY <1>4, <1>7 DEF RestartTimer, captureVars
    <2>2. intents' = intents \/ ~isServiceActive
      BY <1>7 DEF RestartTimer
    <2> QED
      BY <1>1, <1>3, <1>5, <2>1, <2>2
  <1>8. CASE LostRings
    BY <1>2, <1>4, <1>8 DEF LostRings
  <1>9. CASE UserStop \/ UserRestart
    BY <1>1, <1>4, <1>9 DEF UserStop, UserRestart
  <1>10. CASE onStartCommand
    BY <1>10, StartCommandLoop
  <1>11. CASE CaptureThread
    BY <1>11, ThreadLoop
  <1>12. CASE onDestroy
    <2>1. /\ ~svc[instance].bound /\ svc' = [svc EXCEPT ![instance].alive = FALSE]
          /\ UNCHANGED <<instance, thread, running, revoking, intents>>
      BY <1>12 DEF onDestroy
    <2> QED
      BY <2>1 DEF LoopInv
  <1>13. CASE VpnUp
    <2>1. UNCHANGED <<instance, thread, running, intents>> /\ intents = 0
          /\ \A j \in Instances : thread[j] # "started"
      BY <1>13 DEF VpnUp
    <2>2. UNCHANGED <<svc, revoking>> \/ revoking' # 0
      BY <1>13 DEF VpnUp
    <2> QED
      BY <2>1, <2>2 DEF LoopInv
  <1>14. CASE onRevoke
    <2>1. /\ revoking # 0 /\ running' = FALSE
          /\ svc' = [StopSelf(svc) EXCEPT ![revoking].revoked = TRUE]
          /\ UNCHANGED <<instance, thread, intents>>
      BY <1>14 DEF onRevoke
    <2> DEFINE s == StopSelf(svc)
    <2>2. /\ s \in [Instances -> Svcs]
          /\ \A i \in Instances : s[i].alive = svc[i].alive /\ s[i].bound = svc[i].bound
      BY StopSelfType DEF TypeInv
    <2>3. svc' = [s EXCEPT ![revoking].revoked = TRUE]
      BY <2>1
    <2> HIDE DEF s
    <2>4. \A i \in Instances : svc'[i].alive = svc[i].alive /\ svc'[i].bound = svc[i].bound
      BY <2>2, <2>3 DEF Svcs
    <2> QED
      BY <2>1, <2>4 DEF LoopInv
  <1>15. CASE \/ HandleStopped \/ VpnDown \/ onAvailable \/ onLost \/ StartReconnect
              \/ AbortReconnect \/ DeadlineRings \/ UNCHANGED vars
    BY <1>1, <1>4, <1>15 DEF HandleStopped, VpnDown, Called, onAvailable, onLost,
                             StartReconnect, AbortReconnect, DeadlineRings, vars, captureVars
  <1> QED
    BY <1>6, <1>7, <1>8, <1>9, <1>10, <1>11, <1>12, <1>13, <1>14, <1>15 DEF Next

\* Two threads are never in the loop of the engine at once, whatever starts, stops,
\* restarts and revocations cross, if no VPN is taken over before the loop has begun or
\* while a start is on its way, and the system starts no capture while the last one ends.
THEOREM OneLoopCorrect ==
    ASSUME "early_revoke" \notin Allow, "quick_start" \notin Allow
    PROVE  Spec => []OneLoop
  <1>1. LoopInv => OneLoop
    BY DEF LoopInv, OneLoop, Inside
  <1>2. TypeInv /\ LoopInv /\ [Next]_vars => TypeInv' /\ LoopInv'
    BY NextType, NextLoop
  <1> QED
    BY <1>1, <1>2, InitType, InitLoop, PTL DEF Spec

-----------------------------------------------------------------------------
(* What the service knows of other VPNs.                                   *)

\* A network that is up is watched, or the news of it waits for the callback; a network
\* that is reported lost is down for good; and while a timer of onLost runs, the network
\* that its service watches is down: whatever makes it watch another cancels the timer.
WatchInv ==
    /\ vpn \in used \cup {NoNetwork}
    /\ \A g \in Services : watched[g] \in used \cup {NoNetwork}
    /\ \A c \in Callbacks, net \in Networks :
           <<"lost", net>> \in Elements(calls[c]) => net \in used /\ net # vpn
    /\ rc.callback /\ vpn # NoNetwork =>
           watched[rc.gen] = vpn \/ <<"available", vpn>> \in Elements(calls[Own])
    /\ \A t \in timers :
           t[1] = "lost" /\ vpn # NoNetwork => watched[t[2][1]] # vpn

LEMMA InitWatch == Init => WatchInv
  <1>1. Elements(<<>>) = {}
    BY EmptySeq DEF Elements
  <1> QED
    BY <1>1 DEF Init, WatchInv

LEMMA UpWatch == ReconnectType /\ WatchInv /\ VpnUp => WatchInv'
  <1> SUFFICES ASSUME ReconnectType, WatchInv, VpnUp PROVE WatchInv'
    OBVIOUS
  <1>1. PICK net \in Networks :
            /\ net \notin used /\ vpn' = net /\ used' = used \cup {net}
            /\ calls' = Told("available", net)
            /\ UNCHANGED <<rc, watched, leaked, timers>>
    BY DEF VpnUp
  <1>2. /\ \A c \in Callbacks :
               Elements(calls'[c]) \subseteq Elements(calls[c]) \cup {<<"available", net>>}
        /\ rc.callback => <<"available", net>> \in Elements(calls'[Own])
    BY <1>1, ToldType
  <1>3. \A g \in Services : watched[g] # net
    BY <1>1, LifecycleAssumption DEF WatchInv
  <1>4. \A c \in Callbacks, n \in Networks :
            <<"lost", n>> \in Elements(calls'[c]) => n \in used
    BY <1>2 DEF WatchInv
  <1>5. \A t \in timers : t[2][1] \in Services
    BY DEF ReconnectType, Callbacks
  <1> QED
    BY <1>1, <1>2, <1>3, <1>4, <1>5 DEF WatchInv, Own

LEMMA DownWatch == ReconnectType /\ WatchInv /\ VpnDown => WatchInv'
  <1> SUFFICES ASSUME ReconnectType, WatchInv, VpnDown PROVE WatchInv'
    OBVIOUS
  <1>1. /\ vpn \in Networks /\ vpn \in used /\ vpn' = NoNetwork
        /\ calls' = Told("lost", vpn)
        /\ UNCHANGED <<used, rc, watched, leaked, timers>>
    BY DEF VpnDown, ReconnectType, WatchInv
  <1>2. \A c \in Callbacks : Elements(calls'[c]) \subseteq Elements(calls[c]) \cup {<<"lost", vpn>>}
    BY <1>1, ToldType
  <1>3. \A c \in Callbacks, n \in Networks :
            <<"lost", n>> \in Elements(calls'[c]) => n \in used /\ n # NoNetwork
    BY <1>1, <1>2, LifecycleAssumption DEF WatchInv
  <1> QED
    BY <1>1, <1>3 DEF WatchInv

LEMMA AvailableWatch == ReconnectType /\ WatchInv /\ onAvailable => WatchInv'
  <1> SUFFICES ASSUME ReconnectType, WatchInv, onAvailable PROVE WatchInv'
    OBVIOUS
  <1>1. PICK c \in Callbacks :
            /\ Called(c, "available")
            /\ IF Sees(c[1], Head(calls[c])[2])
               THEN /\ watched' = [watched EXCEPT ![c[1]] = vpn]
                    /\ timers' = Remaining(c[1])
               ELSE UNCHANGED <<watched, timers>>
    BY DEF onAvailable
  <1> DEFINE e == Head(calls[c])
  <1>2. /\ e \in Events /\ e[1] = "available"
        /\ Elements(calls[c]) = Elements(calls'[c]) \cup {e}
        /\ \A d \in Callbacks \ {c} : calls'[d] = calls[d]
        /\ UNCHANGED <<vpn, used, rc, leaked>>
    BY <1>1, CalledType
  <1>3. c[1] \in Services /\ \A t \in timers : t[2][1] \in Services
    BY DEF ReconnectType, Callbacks
  <1>4. \A d \in Callbacks : Elements(calls'[d]) \subseteq Elements(calls[d])
    BY <1>2
  <1>5. CASE Sees(c[1], e[2])
    <2>1. /\ vpn # NoNetwork /\ watched' = [watched EXCEPT ![c[1]] = vpn]
          /\ timers' = Remaining(c[1])
      BY <1>1, <1>5 DEF Sees
    <2>2. /\ watched'[c[1]] = vpn
          /\ \A g \in Services \ {c[1]} : watched'[g] = watched[g]
      BY <1>3, <2>1 DEF ReconnectType
    <2>3. /\ \A g \in Services : watched'[g] \in used \cup {NoNetwork}
          /\ \A t \in timers' : t[1] = "lost" => watched'[t[2][1]] # vpn
      BY <1>3, <2>1, <2>2 DEF WatchInv, Remaining
    <2>4. rc.callback => watched'[rc.gen] = vpn
                         \/ <<"available", vpn>> \in Elements(calls'[Own])
      <3>1. CASE c[1] = rc.gen
        BY <2>2, <3>1
      <3>2. CASE c[1] # rc.gen
        <4>1. rc.callback => Own \in Callbacks \ {c} /\ rc.gen \in Services
          BY <3>2 DEF Own, ReconnectType, Callbacks
        <4> QED
          BY <1>2, <2>1, <2>2, <3>2, <4>1 DEF WatchInv
      <3> QED
        BY <3>1, <3>2
    <2> QED
      BY <1>2, <1>4, <2>3, <2>4 DEF WatchInv, Own
  <1>6. CASE ~Sees(c[1], e[2])
    <2>1. UNCHANGED <<watched, timers>>
      BY <1>1, <1>6
    <2>2. rc.callback /\ vpn # NoNetwork =>
              watched[rc.gen] = vpn \/ <<"available", vpn>> \in Elements(calls'[Own])
      <3>1. CASE c = Own
        <4>1. e = <<"available", vpn>> /\ vpn # NoNetwork => watched[rc.gen] = vpn
          BY <1>6, <3>1 DEF Sees, Own
        <4> QED
          BY <1>2, <3>1, <4>1 DEF WatchInv
      <3>2. CASE c # Own
        BY <1>2, <3>2 DEF WatchInv, ReconnectType
      <3> QED
        BY <3>1, <3>2
    <2> QED
      BY <1>2, <1>4, <2>1, <2>2 DEF WatchInv, Own
  <1> QED
    BY <1>5, <1>6

LEMMA LostWatch == ReconnectType /\ WatchInv /\ onLost => WatchInv'
  <1> SUFFICES ASSUME ReconnectType, WatchInv, onLost PROVE WatchInv'
    OBVIOUS
  <1>1. PICK c \in Callbacks :
            /\ Called(c, "lost") /\ watched' = watched
            /\ timers' = IF Head(calls[c])[2] = watched[c[1]]
                         THEN timers \cup {<<"lost", c>>} ELSE timers
    BY DEF onLost
  <1> DEFINE e == Head(calls[c])
  <1>2. /\ e \in Events /\ e[1] = "lost"
        /\ Elements(calls[c]) = Elements(calls'[c]) \cup {e}
        /\ \A d \in Callbacks \ {c} : calls'[d] = calls[d]
        /\ UNCHANGED <<vpn, used, rc, leaked>>
    BY <1>1, CalledType
  <1>3. e = <<"lost", e[2]>> /\ e[2] \in Networks
    BY <1>2 DEF Events
  <1> HIDE DEF e
  <1>4. e[2] # vpn
    BY <1>2, <1>3 DEF WatchInv
  <1>5. \A d \in Callbacks : Elements(calls'[d]) \subseteq Elements(calls[d])
    BY <1>2
  <1>6. \A t \in timers' : t[1] = "lost" /\ vpn # NoNetwork => watched[t[2][1]] # vpn
    BY <1>1, <1>4 DEF WatchInv, e
  <1>7. rc.callback /\ vpn # NoNetwork =>
            watched[rc.gen] = vpn \/ <<"available", vpn>> \in Elements(calls'[Own])
    <2>1. e # <<"available", vpn>>
      BY <1>2
    <2>2. CASE c = Own
      BY <1>2, <2>1, <2>2 DEF WatchInv
    <2>3. CASE c # Own
      BY <1>2, <2>3 DEF WatchInv, ReconnectType
    <2> QED
      BY <2>2, <2>3
  <1> QED
    BY <1>1, <1>2, <1>5, <1>6, <1>7 DEF WatchInv, Own

LEMMA StartWatch == ReconnectType /\ WatchInv /\ StartReconnect => WatchInv'
  <1> SUFFICES ASSUME ReconnectType, WatchInv, StartReconnect PROVE WatchInv'
    OBVIOUS
  <1>1. /\ Own' \in Callbacks /\ rc'.gen \in Services /\ UNCHANGED <<vpn, used>>
        /\ \A c \in Callbacks : Elements(calls'[c]) \subseteq
                                    Elements(calls[c]) \cup {<<"available", vpn>>}
        /\ rc'.callback /\ vpn # NoNetwork => <<"available", vpn>> \in Elements(calls'[Own'])
        /\ \/ watched' = watched /\ timers' = timers \cup {<<"deadline", Own'>>}
           \/ /\ watched' = [watched EXCEPT ![rc'.gen] = vpn]
              /\ timers' = Remaining(rc'.gen)
    BY StartedService
  <1>2. \A c \in Callbacks, n \in Networks :
            <<"lost", n>> \in Elements(calls'[c]) => n \in used /\ n # vpn
    BY <1>1 DEF WatchInv
  <1>3. \A t \in timers : t[2][1] \in Services
    BY DEF ReconnectType, Callbacks
  <1>4. /\ \A g \in Services : watched'[g] \in used \cup {NoNetwork}
        /\ \A t \in timers' : t[1] = "lost" /\ vpn # NoNetwork => watched'[t[2][1]] # vpn
    <2>1. CASE watched' = watched /\ timers' = timers \cup {<<"deadline", Own'>>}
      BY <2>1 DEF WatchInv
    <2>2. CASE /\ watched' = [watched EXCEPT ![rc'.gen] = vpn]
               /\ timers' = Remaining(rc'.gen)
      BY <1>1, <1>3, <2>2 DEF WatchInv, Remaining, ReconnectType
    <2> QED
      BY <1>1, <2>1, <2>2
  <1> QED
    BY <1>1, <1>2, <1>4 DEF WatchInv

LEMMA NextWatch == TypeInv /\ WatchInv /\ [Next]_vars => WatchInv'
  <1> SUFFICES ASSUME ReconnectType, WatchInv, [Next]_vars PROVE WatchInv'
    BY DEF TypeInv
  <1>1. CASE Quiet
    <2>1. UNCHANGED <<vpn, used, watched>> /\ timers' \subseteq timers
      BY <1>1 DEF Quiet
    <2>2. /\ Own' = Own /\ rc'.gen = rc.gen
          /\ \A c \in Callbacks : Elements(calls'[c]) \subseteq Elements(calls[c])
          /\ rc'.callback => rc.callback /\ calls' = calls
      BY <1>1, QuietService
    <2> QED
      BY <2>1, <2>2 DEF WatchInv
  <1> QED
    BY <1>1, QuietSteps, UpWatch, DownWatch, AvailableWatch, LostWatch, StartWatch

\* The timer of onLost starts the capture only if no other VPN is up or its news still
\* waits for the callback, in whatever order networks, callbacks, starts of the service,
\* deadlines and aborts come, and with callbacks of old starts still registered.
THEOREM ReconnectCorrect == Spec => KnownVpnIsRespected
  <1> DEFINE Step ==
                 \A t \in timers :
                     rc.callback /\ t[2][1] = rc.gen /\ Rings(t) /\ vpn # NoNetwork
                     => \E n \in 1..Len(calls[Own]) : calls[Own][n] = <<"available", vpn>>
  <1>1. TypeInv /\ WatchInv /\ [Next]_vars => TypeInv' /\ WatchInv'
    BY NextType, NextWatch
  <1>2. WatchInv /\ [Next]_vars => [Step]_vars
    BY DEF WatchInv, Rings, Elements
  <1> QED
    BY <1>1, <1>2, InitType, InitWatch, PTL DEF Spec, KnownVpnIsRespected
=============================================================================
