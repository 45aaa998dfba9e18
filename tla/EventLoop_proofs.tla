--------------------------- MODULE EventLoop_proofs ---------------------------
(***************************************************************************)
(* Proofs about the event loop, for every number of timers and sockets and *)
(* every capacity: types, and that the loop, wherever it sleeps, is awake  *)
(* or woken once the main thread waits for it.                             *)
(***************************************************************************)
EXTENDS EventLoop, FiniteSetTheorems, TLAPS

\* The steps of the main thread from ogs_queue_interrupt_all() on come after the
\* queue is terminated: then no push blocks and no pop sends the loop to sleep.
AfterTerm == {"interrupt", "notify", "join", "end"}

Over == main \in AfterTerm => terminated

\* A blocked push knows where the loop goes on.
Resumes == loop = "blocked" => resume # NULL

IInv == TypeOK /\ Resumes /\ Over /\ SignalHeard

\* What a step of the loop keeps that neither goes to sleep nor wakes up.
LEMMA AwakeHeard ==
  ASSUME Over, SignalHeard, main' = main, terminated' = terminated,
         notified' = notified, interrupted' = interrupted,
         loop' \in {"poll", "wait"} => loop \in {"poll", "wait"} \/ ~ terminated,
         loop' = "blocked" => loop = "blocked" \/ ~ terminated
  PROVE  Over' /\ SignalHeard'
<1>1. Over'
  BY DEF Over
<1>2. ASSUME main' \in {"join", "end"}, loop' \in {"poll", "wait"} PROVE notified'
  BY <1>2 DEF Over, SignalHeard, AfterTerm
<1>3. ASSUME main' \in {"notify", "join", "end"}, loop' = "blocked" PROVE interrupted'
  BY <1>3 DEF Over, SignalHeard, AfterTerm
<1> QED
  BY <1>1, <1>2, <1>3 DEF SignalHeard

\* A push leaves the queue within its bound and adds at most one event.
LEMMA PushBounded ==
  ASSUME NEW e \in Events, NEW next \in {"serve", "expire", "drain"},
         IInv, Push(e, next)
  PROVE  /\ queue' \in Seq(Events) /\ Len(queue') <= capacity
         /\ event' \in Events \cup {NULL} /\ resume' \in {"serve", "expire", "drain", NULL}
         /\ loop' \in {next, "blocked"}
         /\ loop' = "blocked" => resume' # NULL /\ ~ terminated
<1>1. capacity \in Nat /\ Len(queue) \in Nat
  BY LoopAssumption DEF IInv, TypeOK
<1>2. next # NULL
  BY LoopAssumption
<1> QED
  BY <1>1, <1>2 DEF Push, Full, IInv, TypeOK

LEMMA InitInv == Init => IInv
<1>1. ASSUME Init PROVE IInv
  <2>1. TypeOK
    <3>1. capacity \in Nat /\ queue \in Seq(Events) /\ Len(queue) = 0
      BY <1>1, LoopAssumption DEF Init
    <3>2. armed \in SUBSET (Timers \cup {Holding}) /\ due \in SUBSET armed
      BY <1>1 DEF Init
    <3>3. ready \in 0..MaxRequests
      BY <1>1, LoopAssumption DEF Init
    <3>4. Len(queue) <= capacity
      BY <3>1
    <3>5. loop = "poll" /\ main = "up" /\ known = {} /\ expired = {}
      BY <1>1 DEF Init
    <3>6. event = NULL /\ resume = NULL /\ aborted = NULL
      BY <1>1 DEF Init
    <3>7. terminated \in BOOLEAN /\ instance \in BOOLEAN /\ notified \in BOOLEAN /\ interrupted \in BOOLEAN
      BY <1>1 DEF Init
    <3>8. capacity \in Capacities
      BY <1>1 DEF Init
    <3> QED
      BY <3>1, <3>2, <3>3, <3>4, <3>5, <3>6, <3>7, <3>8 DEF TypeOK
  <2> QED
    BY <1>1, <2>1 DEF Init, IInv, Resumes, Over, AfterTerm, SignalHeard
<1> QED
  BY <1>1

LEMMA ServeInv == IInv /\ Serve => IInv'
<1>1. ASSUME IInv, Serve PROVE IInv'
  <2>1. PICK e \in FromSockets : Push(e, "serve")
    BY <1>1 DEF Serve
  <2>2. e \in Events
    BY DEF Events
  <2>3. /\ queue' \in Seq(Events) /\ Len(queue') <= capacity
        /\ event' \in Events \cup {NULL} /\ resume' \in {"serve", "expire", "drain", NULL}
        /\ loop' \in {"serve", "blocked"}
        /\ loop' = "blocked" => resume' # NULL /\ ~ terminated
    BY <1>1, <2>1, <2>2, PushBounded
  <2>4. MaxRequests \in Nat /\ Len(queue) \in Nat /\ capacity \in Nat /\ Len(queue') \in Nat
    BY <1>1, <2>3, LoopAssumption DEF IInv, TypeOK
  <2>5. TypeOK'
    BY <1>1, <2>3, <2>4 DEF Serve, IInv, TypeOK
  <2>6. Over' /\ SignalHeard'
    BY <1>1, <2>3, AwakeHeard DEF Serve, IInv
  <2> QED
    BY <2>3, <2>5, <2>6 DEF IInv, Resumes
<1> QED
  BY <1>1

LEMMA ExpireInv == ASSUME NEW t PROVE IInv /\ Expire(t) => IInv'
<1>1. ASSUME IInv, Expire(t) PROVE IInv'
  <2>1. /\ t \in expired /\ expired' = expired \ {t} /\ loop = "expire"
        /\ capacity \in Nat /\ capacity' = capacity /\ Len(queue) \in Nat
    BY <1>1, LoopAssumption DEF Expire, IInv, TypeOK
  <2>2. /\ queue' \in Seq(Events) /\ Len(queue') <= capacity
        /\ event' \in Events \cup {NULL} /\ resume' \in {"serve", "expire", "drain", NULL}
        /\ loop' \in {"expire", "blocked"}
        /\ loop' = "blocked" => resume' # NULL /\ ~ terminated
    <3>1. CASE t = Holding
      BY <1>1, <2>1, <3>1 DEF Expire, IInv, TypeOK
    <3>2. CASE t # Holding
      <4>1. t \in Events
        BY <1>1, <2>1, <3>2 DEF IInv, TypeOK, Events
      <4> QED
        BY <1>1, <3>2, <4>1, PushBounded DEF Expire
    <3> QED
      BY <3>1, <3>2
  <2>3. TypeOK'
    <3>1. aborted' \in {NULL, "timer", "instance"}
      BY <1>1 DEF Expire, Asserts, IInv, TypeOK
    <3> QED
      BY <1>1, <2>1, <2>2, <3>1 DEF Expire, IInv, TypeOK
  <2>4. Over' /\ SignalHeard'
    BY <1>1, <2>2, AwakeHeard DEF Expire, IInv
  <2> QED
    BY <2>2, <2>3, <2>4 DEF IInv, Resumes
<1> QED
  BY <1>1

LEMMA HandleInv == IInv /\ Handle => IInv'
<1>1. ASSUME IInv, Handle PROVE IInv'
  <2>1. /\ loop = "handle" /\ capacity \in Nat /\ capacity' = capacity /\ Len(queue) \in Nat
    BY <1>1, LoopAssumption DEF Handle, IInv, TypeOK
  <2>2. /\ queue' \in Seq(Events) /\ Len(queue') <= capacity
        /\ event' \in Events \cup {NULL} /\ resume' \in {"serve", "expire", "drain", NULL}
        /\ loop' \in {"drain", "blocked"}
        /\ loop' = "blocked" => resume' # NULL /\ ~ terminated
    <3>1. CASE Push("internal", "drain")
      <4>1. "internal" \in Events
        BY DEF Events
      <4> QED
        BY <1>1, <3>1, <4>1, PushBounded
    <3>2. CASE loop' = "drain" /\ UNCHANGED <<queue, event, resume>>
      BY <1>1, <3>2 DEF IInv, TypeOK
    <3> QED
      BY <1>1, <3>1, <3>2 DEF Handle
  <2>3. armed' \in SUBSET (Timers \cup {Holding}) /\ due' \in SUBSET armed'
    <3>1. CASE UNCHANGED <<armed, due>>
      BY <1>1, <3>1 DEF IInv, TypeOK
    <3>2. ASSUME NEW T \in SUBSET Timers, Restart(T)
          PROVE  armed' \in SUBSET (Timers \cup {Holding}) /\ due' \in SUBSET armed'
      BY <1>1, <3>2 DEF Restart, IInv, TypeOK
    <3>3. InstanceTimers \in SUBSET Timers /\ OtherTimers \in SUBSET Timers
      BY DEF Timers
    <3> QED
      BY <1>1, <3>1, <3>2, <3>3 DEF Handle
  <2>4. TypeOK'
    <3>1. aborted' \in {NULL, "timer", "instance"}
      BY <1>1 DEF Handle, Asserts, IInv, TypeOK
    <3> QED
      BY <1>1, <2>2, <2>3, <3>1 DEF Handle, IInv, TypeOK
  <2>5. Over' /\ SignalHeard'
    BY <1>1, <2>2, AwakeHeard DEF Handle, IInv
  <2> QED
    BY <2>2, <2>4, <2>5 DEF IInv, Resumes
<1> QED
  BY <1>1

LEMMA TrypopInv == IInv /\ Trypop => IInv'
<1>1. ASSUME IInv, Trypop PROVE IInv'
  <2>1. capacity \in Nat /\ queue \in Seq(Events) /\ Len(queue) \in Nat /\ Len(queue) <= capacity
    BY <1>1, LoopAssumption DEF IInv, TypeOK
  <2>2. TypeOK'
    <3>1. CASE loop' \in {"done", "poll"} /\ UNCHANGED <<queue, event>>
      BY <1>1, <3>1 DEF Trypop, IInv, TypeOK
    <3>2. CASE /\ queue # <<>> /\ event' = Head(queue) /\ queue' = Tail(queue)
               /\ loop' = "handle"
      <4>1. /\ Head(queue) \in Events /\ Tail(queue) \in Seq(Events)
            /\ Len(Tail(queue)) = Len(queue) - 1 /\ Len(queue) > 0
        BY <2>1, <3>2
      <4> QED
        BY <1>1, <2>1, <3>2, <4>1 DEF Trypop, IInv, TypeOK
    <3> QED
      BY <1>1, <3>1, <3>2 DEF Trypop
  <2>3. /\ loop' \in {"done", "handle", "poll"}
        /\ loop' = "poll" => ~ terminated
    BY <1>1 DEF Trypop
  <2>4. Over' /\ SignalHeard'
    BY <1>1, <2>3, AwakeHeard DEF Trypop, IInv
  <2> QED
    BY <2>2, <2>3, <2>4 DEF IInv, Resumes
<1> QED
  BY <1>1

\* The other steps of the loop push nothing.
LEMMA LoopInv ==
  IInv /\ (Poll \/ WakeByTimeout \/ WakeByNotify \/ WakeBySocket \/ Collect \/ Expired
             \/ Unblock) => IInv'
<1>1. ASSUME IInv, Poll PROVE IInv'
  <2>1. TypeOK' /\ Resumes'
    BY <1>1 DEF Poll, Goes, IInv, TypeOK, Resumes
  <2>2. Over' /\ SignalHeard'
    BY <1>1, AwakeHeard DEF Poll, Goes, IInv
  <2> QED
    BY <2>1, <2>2 DEF IInv
<1>2. ASSUME IInv, NEW n \in 0..MaxRequests, Wakes(n) PROVE IInv'
  <2>1. TypeOK' /\ Resumes'
    BY <1>2 DEF Wakes, Goes, IInv, TypeOK, Resumes
  <2>2. loop' = "serve" /\ main' = main /\ terminated' = terminated
    BY <1>2 DEF Wakes, Goes
  <2> QED
    BY <1>2, <2>1, <2>2 DEF IInv, Over, SignalHeard
<1>3. ASSUME IInv, Collect \/ Expired PROVE IInv'
  <2>1. TypeOK' /\ Resumes'
    BY <1>3 DEF Collect, Expired, Goes, IInv, TypeOK, Resumes
  <2>2. Over' /\ SignalHeard'
    BY <1>3, AwakeHeard DEF Collect, Expired, Goes, IInv
  <2> QED
    BY <2>1, <2>2 DEF IInv
<1>4. ASSUME IInv, Unblock PROVE IInv'
  <2>1. loop = "blocked" /\ loop' = resume /\ resume \in {"serve", "expire", "drain"}
    BY <1>4 DEF Unblock, IInv, TypeOK, Resumes
  <2>2. TypeOK'
    BY <1>4, <2>1 DEF Unblock, IInv, TypeOK
  <2>3. main' = main /\ terminated' = terminated
    BY <1>4 DEF Unblock
  <2> QED
    BY <1>4, <2>1, <2>2, <2>3 DEF IInv, Resumes, Over, SignalHeard
<1>5. 1..MaxRequests \subseteq 0..MaxRequests
  BY LoopAssumption
<1> QED
  BY <1>1, <1>2, <1>3, <1>4, <1>5 DEF WakeByTimeout, WakeByNotify, WakeBySocket

\* Time and the main thread, whose steps come in the order that SignalHeard needs:
\* the flag of the queue, the interruption, the notification.
LEMMA MainInv ==
  IInv /\ (MainSteps \/ Signal \/ \E t \in Timers \cup {Holding} : Elapse(t)) => IInv'
<1>1. ASSUME IInv, MainSteps \/ Signal \/ \E t \in Timers \cup {Holding} : Elapse(t)
      PROVE  UNCHANGED <<loop, resume>> /\ TypeOK' /\ Over' /\ SignalHeard'
  <2>1. CASE Signal
    BY <1>1, <2>1 DEF Signal, Steps, loopVars, IInv, TypeOK, Over, AfterTerm, SignalHeard
  <2>2. CASE FsmFini
    BY <1>1, <2>2, ZenonT(60) DEF FsmFini, Steps, loopVars, Timers, IInv, TypeOK, Over, AfterTerm,
                      SignalHeard
  <2>3. CASE StartHolding
    BY <1>1, <2>3 DEF StartHolding, Steps, loopVars, IInv, TypeOK, Over, AfterTerm, SignalHeard
  <2>4. CASE QueueTerm
    BY <1>1, <2>4 DEF QueueTerm, Steps, loopVars, IInv, TypeOK, Over, AfterTerm, SignalHeard
  <2>5. CASE InterruptAll
    <3>1. TypeOK'
      BY <1>1, <2>5 DEF InterruptAll, Steps, IInv, TypeOK
    <3>2. /\ main' = "notify" /\ main = "interrupt" /\ terminated' = terminated
          /\ interrupted' = (loop = "blocked") /\ UNCHANGED <<loop, resume>>
      BY <2>5 DEF InterruptAll, Steps
    <3> QED
      BY <1>1, <3>1, <3>2 DEF IInv, Over, AfterTerm, SignalHeard
  <2>6. CASE Notify
    BY <1>1, <2>6 DEF Notify, Steps, loopVars, IInv, TypeOK, Over, AfterTerm, SignalHeard
  <2>7. CASE Join
    BY <1>1, <2>7 DEF Join, Steps, loopVars, IInv, TypeOK, Over, AfterTerm, SignalHeard
  <2>8. CASE \E t \in Timers \cup {Holding} : Elapse(t)
    BY <1>1, <2>8 DEF Elapse, loopVars, IInv, TypeOK, Over, SignalHeard
  <2> QED
    BY <1>1, <2>1, <2>2, <2>3, <2>4, <2>5, <2>6, <2>7, <2>8 DEF MainSteps
<1> QED
  BY <1>1 DEF IInv, Resumes

LEMMA StepInv == IInv /\ [Next]_vars => IInv'
<1>1. ASSUME IInv, UNCHANGED vars PROVE IInv'
  BY <1>1 DEF vars, loopVars, IInv, TypeOK, Resumes, Over, SignalHeard
<1>2. ASSUME IInv, LoopSteps PROVE IInv'
  BY <1>2, LoopInv, ServeInv, ExpireInv, TrypopInv, HandleInv DEF LoopSteps, Woken
<1> QED
  BY <1>1, <1>2, LoopInv, MainInv DEF Next

\* The queue stays within its capacity and a timer that is due runs, though two
\* threads start, stop and delete timers.
THEOREM TypeCorrect == Spec => []TypeOK
<1>1. IInv => TypeOK
  BY DEF IInv
<1> QED
  BY <1>1, InitInv, StepInv, PTL DEF Spec

\* Whatever sockets, timers and handlers push, and however often the queue is full: the
\* main thread never waits for a loop that sleeps unnotified in epoll_wait() or
\* uninterrupted in a push to its own queue (src/ausf/init.c, event_termination()).
THEOREM LoopHearsSignal == Spec => []SignalHeard
<1>1. IInv => SignalHeard
  BY DEF IInv
<1> QED
  BY <1>1, InitInv, StepInv, PTL DEF Spec

=============================================================================
