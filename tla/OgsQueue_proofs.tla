--------------------------- MODULE OgsQueue_proofs ---------------------------
(***************************************************************************)
(* Theorems about the event queue, for any numbers of pushers and poppers, *)
(* any capacity and any elements.                                          *)
(***************************************************************************)
EXTENDS OgsQueue, FiniteSetTheorems, TLAPS

LEMMA NoCallType == NoCall \in [timeout : Timeouts, elem : Elements \cup {NULL}]
BY QueueAssumption DEF NoCall

(* Every step of the queue keeps its variables in their domains: the ring  *)
(* indices never leave the ring and nelts never exceeds the capacity.      *)
THEOREM TypeCorrect == Spec => []TypeOK
<1>1. Init => TypeOK
  <2> SUFFICES ASSUME Init PROVE RingType /\ ControlType /\ CallType
    BY DEF TypeOK
  <2>1. RingType BY QueueAssumption DEF Init, RingType
  <2>2. ControlType BY DEF Init, ControlType
  <2>3. CallType BY QueueAssumption DEF Init, CallType, NoCall, Answer
  <2>4. QED BY <2>1, <2>2, <2>3
<1>2. TypeOK /\ [Next]_vars => TypeOK'
  <2> SUFFICES ASSUME RingType, ControlType, CallType, [Next]_vars
               PROVE  RingType' /\ ControlType' /\ CallType'
    BY DEF TypeOK
  <2> USE QueueAssumption DEF ring, waiters
  <2>1. ASSUME NEW t \in Threads, NEW timeout \in Timeouts, NEW d \in Elements \cup {NULL},
               Enter(t, timeout, d)
        PROVE  RingType' /\ ControlType' /\ CallType'
    <3>1. RingType' BY <2>1 DEF Enter, RingType, CallType, SetWaiters, Return
    <3>2. ControlType' BY <2>1 DEF Enter, ControlType, Return
    <3>3. CallType'
      <4>1. CASE terminated
        <5>1. call' = [call EXCEPT ![t] = NoCall] /\ ret' = [ret EXCEPT ![t] = Answer("DONE", NULL)]
          BY <2>1, <4>1 DEF Enter, Return
        <5>2. Answer("DONE", NULL) \in [rv : {"OK", "PENDING", "RETRY", "TIMEUP", "ERROR", "DONE"},
                                       elem : Elements \cup {NULL}]
          BY DEF Answer
        <5>. QED  BY <5>1, <5>2, NoCallType DEF CallType
      <4>2. CASE ~ terminated
        <5>1. [timeout |-> timeout, elem |-> d] \in [timeout : Timeouts, elem : Elements \cup {NULL}]
          BY <2>1
        <5>2. call' = [call EXCEPT ![t] = [timeout |-> timeout, elem |-> d]]
              /\ ret' = [ret EXCEPT ![t] = Answer("PENDING", NULL)]
          BY <2>1, <4>2 DEF Enter
        <5>. QED  BY <5>1, <5>2 DEF CallType, Answer
      <4>. QED  BY <4>1, <4>2
    <3>4. QED BY <3>1, <3>2, <3>3
  <2>2. ASSUME NEW t \in Pushers, PushAtOnce(t)
        PROVE  RingType' /\ ControlType' /\ CallType'
    <3>1. RingType' BY <2>2 DEF PushAtOnce, Enqueue, Advance, Signal, Full, NotEmptyWaiters, Threads, RingType, CallType, SetWaiters, Return
    <3>2. ControlType' BY <2>2 DEF PushAtOnce, Enqueue, Advance, Signal, Full, NotEmptyWaiters, Threads, ControlType, Return
    <3>3. CallType' BY <2>2 DEF PushAtOnce, Enqueue, Advance, Signal, Full, NotEmptyWaiters, Threads, CallType, NoCall, Answer
    <3>4. QED BY <3>1, <3>2, <3>3
  <2>3. ASSUME NEW t \in Pushers, PushBlocked(t)
        PROVE  RingType' /\ ControlType' /\ CallType'
    <3>1. RingType' BY <2>3 DEF PushBlocked, Blocked, Threads, RingType, CallType, SetWaiters, Return
    <3>2. ControlType' BY <2>3 DEF PushBlocked, Blocked, Threads, ControlType, Return
    <3>3. CallType' BY <2>3, SMTT(30) DEF PushBlocked, Blocked, Threads, CallType, Return, NoCall, Answer
    <3>4. QED BY <3>1, <3>2, <3>3
  <2>4. ASSUME NEW t \in Pushers, PushWokenInVain(t)
        PROVE  RingType' /\ ControlType' /\ CallType'
    <3>1. RingType' BY <2>4 DEF PushWokenInVain, WokenInVain, Threads, RingType, CallType, SetWaiters, Return
    <3>2. ControlType' BY <2>4 DEF PushWokenInVain, WokenInVain, Threads, ControlType, Return
    <3>3. CallType' BY <2>4, SMTT(30) DEF PushWokenInVain, WokenInVain, Threads, CallType, Return, NoCall, Answer
    <3>4. QED BY <3>1, <3>2, <3>3
  <2>5. ASSUME NEW t \in Pushers, PushWoken(t)
        PROVE  RingType' /\ ControlType' /\ CallType'
    <3>1. RingType' BY <2>5 DEF PushWoken, Enqueue, Advance, Signal, Full, NotEmptyWaiters, Threads, RingType, CallType, SetWaiters, Return
    <3>2. ControlType' BY <2>5 DEF PushWoken, Enqueue, Advance, Signal, Full, NotEmptyWaiters, Threads, ControlType, Return
    <3>3. CallType' BY <2>5 DEF PushWoken, Enqueue, Advance, Signal, Full, NotEmptyWaiters, Threads, CallType, NoCall, Answer
    <3>4. QED BY <3>1, <3>2, <3>3
  <2>6. ASSUME NEW t \in Poppers, PopAtOnce(t)
        PROVE  RingType' /\ ControlType' /\ CallType'
    <3>1. RingType' BY <2>6 DEF PopAtOnce, Dequeue, Advance, Signal, Empty, NotFullWaiters, Threads, RingType, CallType, SetWaiters, Return
    <3>2. ControlType' BY <2>6 DEF PopAtOnce, Dequeue, Advance, Signal, Empty, NotFullWaiters, Threads, ControlType, Return
    <3>3. CallType' BY <2>6 DEF PopAtOnce, Dequeue, Advance, Signal, Empty, NotFullWaiters, Threads, RingType, CallType, Return, NoCall, Answer
    <3>4. QED BY <3>1, <3>2, <3>3
  <2>7. ASSUME NEW t \in Poppers, PopBlocked(t)
        PROVE  RingType' /\ ControlType' /\ CallType'
    <3>1. RingType' BY <2>7 DEF PopBlocked, Blocked, Threads, RingType, CallType, SetWaiters, Return
    <3>2. ControlType' BY <2>7 DEF PopBlocked, Blocked, Threads, ControlType, Return
    <3>3. CallType' BY <2>7 DEF PopBlocked, Blocked, Threads, CallType, Return, NoCall, Answer
    <3>4. QED BY <3>1, <3>2, <3>3
  <2>8. ASSUME NEW t \in Poppers, PopWokenInVain(t)
        PROVE  RingType' /\ ControlType' /\ CallType'
    <3>1. RingType' BY <2>8 DEF PopWokenInVain, WokenInVain, Threads, RingType, CallType, SetWaiters, Return
    <3>2. ControlType' BY <2>8 DEF PopWokenInVain, WokenInVain, Threads, ControlType, Return
    <3>3. CallType' BY <2>8 DEF PopWokenInVain, WokenInVain, Threads, CallType, Return, NoCall, Answer
    <3>4. QED BY <3>1, <3>2, <3>3
  <2>9. ASSUME NEW t \in Poppers, PopWoken(t)
        PROVE  RingType' /\ ControlType' /\ CallType'
    <3>1. RingType' BY <2>9 DEF PopWoken, Dequeue, Advance, Signal, Empty, NotFullWaiters, Threads, RingType, CallType, SetWaiters, Return
    <3>2. ControlType' BY <2>9 DEF PopWoken, Dequeue, Advance, Signal, Empty, NotFullWaiters, Threads, ControlType, Return
    <3>3. CallType' BY <2>9 DEF PopWoken, Dequeue, Advance, Signal, Empty, NotFullWaiters, Threads, RingType, CallType, Return, NoCall, Answer
    <3>4. QED BY <3>1, <3>2, <3>3
  <2>10. ASSUME NEW t \in Threads, GiveUp(t)
        PROVE  RingType' /\ ControlType' /\ CallType'
    <3>1. RingType' BY <2>10 DEF GiveUp, RingType, CallType, SetWaiters, Return
    <3>2. ControlType' BY <2>10 DEF GiveUp, ControlType, Return
    <3>3. CallType' BY <2>10 DEF GiveUp, CallType, Return, NoCall, Answer
    <3>4. QED BY <3>1, <3>2, <3>3
  <2>11. ASSUME NEW t \in Threads, TimeOut(t) \/ SpuriousWakeup(t)
        PROVE  RingType' /\ ControlType' /\ CallType'
    <3>1. RingType' BY <2>11 DEF TimeOut, SpuriousWakeup, WakeUp, RingType, CallType, SetWaiters, Return
    <3>2. ControlType' BY <2>11 DEF TimeOut, SpuriousWakeup, WakeUp, ControlType, Return
    <3>3. CallType' BY <2>11 DEF TimeOut, SpuriousWakeup, WakeUp, CallType, Return, NoCall, Answer
    <3>4. QED BY <3>1, <3>2, <3>3
  <2>12. ASSUME InterruptAll \/ TermSet \/ TermInterrupt
        PROVE  RingType' /\ ControlType' /\ CallType'
    <3>1. RingType' BY <2>12 DEF InterruptAll, TermSet, TermInterrupt, Broadcast, RingType, CallType, SetWaiters, Return
    <3>2. ControlType' BY <2>12 DEF InterruptAll, TermSet, TermInterrupt, Broadcast, ControlType, Return
    <3>3. CallType' BY <2>12 DEF InterruptAll, TermSet, TermInterrupt, Broadcast, CallType, Return, NoCall, Answer
    <3>4. QED BY <3>1, <3>2, <3>3
  <2>13. ASSUME UNCHANGED vars
        PROVE  RingType' /\ ControlType' /\ CallType'
    <3>1. RingType' BY <2>13 DEF vars, RingType, CallType, SetWaiters, Return
    <3>2. ControlType' BY <2>13 DEF vars, ControlType, Return
    <3>3. CallType' BY <2>13 DEF vars, CallType, Return, NoCall, Answer
    <3>4. QED BY <3>1, <3>2, <3>3
  <2>14. QED
    BY <2>1, <2>2, <2>3, <2>4, <2>5, <2>6, <2>7, <2>8, <2>9, <2>10, <2>11, <2>12, <2>13
       DEF Next, PushEnter, PopEnter, PushStep, PopStep, Threads
<1>3. QED
  BY <1>1, <1>2, PTL DEF Spec

-----------------------------------------------------------------------------
\* The flag and the two critical sections of ogs_queue_term() go together.
TermInv == /\ terminated <=> ctl # "run"
           /\ pc \in [Threads -> {"idle", "lock", "wait", "woken", "unlocked"}]
           /\ NoSleeperAfterTerm

(* A thread falls asleep only in Blocked, which reads terminated under the *)
(* mutex; nothing else makes pc[t] "wait".                                 *)
LEMMA OnlyBlockedSleeps ==
  ASSUME TypeOK, [Next]_vars, NEW t \in Threads, pc'[t] = "wait", pc[t] # "wait"
  PROVE  ~ terminated
  <1>. USE DEF TypeOK, ControlType
  <1>1. ASSUME NEW u \in Threads, NEW timeout \in Timeouts, NEW d, Enter(u, timeout, d)
        PROVE  FALSE
    BY <1>1 DEF Enter, Return
  <1>2. ASSUME NEW u \in Threads, NEW S \in SUBSET Threads, NEW a, Signal(u, S, a)
        PROVE  FALSE
    BY <1>2 DEF Signal
  <1>3. ASSUME NEW u \in Pushers, PushStep(u)
        PROVE  ~ terminated
    <2>1. CASE PushAtOnce(u) \/ PushWoken(u)
      BY <1>2, <2>1 DEF PushAtOnce, PushWoken, Enqueue, NotEmptyWaiters, Threads
    <2>2. CASE PushBlocked(u)
      BY <2>2 DEF PushBlocked, Blocked, Return, Threads
    <2>3. CASE PushWokenInVain(u) \/ GiveUp(u)
      BY <2>3 DEF PushWokenInVain, WokenInVain, GiveUp, Return, Threads
    <2>. QED  BY <1>3, <2>1, <2>2, <2>3 DEF PushStep
  <1>4. ASSUME NEW u \in Poppers, PopStep(u)
        PROVE  ~ terminated
    <2>1. CASE PopAtOnce(u) \/ PopWoken(u)
      BY <1>2, <2>1 DEF PopAtOnce, PopWoken, Dequeue, NotFullWaiters, Threads
    <2>2. CASE PopBlocked(u)
      BY <2>2 DEF PopBlocked, Blocked, Return, Threads
    <2>3. CASE PopWokenInVain(u) \/ GiveUp(u)
      BY <2>3 DEF PopWokenInVain, WokenInVain, GiveUp, Return, Threads
    <2>. QED  BY <1>4, <2>1, <2>2, <2>3 DEF PopStep
  <1>5. ASSUME NEW u \in Threads, TimeOut(u) \/ SpuriousWakeup(u)
        PROVE  FALSE
    BY <1>5 DEF TimeOut, SpuriousWakeup, WakeUp
  <1>6. CASE InterruptAll \/ TermSet \/ TermInterrupt
    BY <1>6 DEF InterruptAll, TermSet, TermInterrupt, Broadcast
  <1>7. CASE UNCHANGED vars
    BY <1>7 DEF vars
  <1>. QED  BY <1>1, <1>3, <1>4, <1>5, <1>6, <1>7 DEF Next, PushEnter, PopEnter, Threads

(* After ogs_queue_term() has returned nobody sleeps on a condition         *)
(* variable and nobody falls asleep: the promise its comment on the mutex  *)
(* makes.                                                                  *)
THEOREM NobodySleepsAfterTerm == Spec => []NoSleeperAfterTerm
<1>1. Init => TermInv
  BY DEF Init, TermInv, NoSleeperAfterTerm
<1>2. TermInv /\ TypeOK /\ TypeOK' /\ [Next]_vars => TermInv'
  <2> SUFFICES ASSUME TermInv, TypeOK, TypeOK', [Next]_vars PROVE TermInv'
    OBVIOUS
  <2>1. CASE UNCHANGED <<terminated, ctl>>
    BY <2>1, OnlyBlockedSleeps DEF TermInv, NoSleeperAfterTerm, TypeOK, ControlType
  <2>2. CASE TermSet
    BY <2>2 DEF TermSet, TermInv, NoSleeperAfterTerm
  <2>3. CASE TermInterrupt
    BY <2>3 DEF TermInterrupt, Broadcast, TermInv, NoSleeperAfterTerm
  <2>4. UNCHANGED <<terminated, ctl>> \/ TermSet \/ TermInterrupt
    <3>1. ASSUME NEW t \in Threads PROVE
             /\ \A timeout, d : Enter(t, timeout, d) => UNCHANGED <<terminated, ctl>>
             /\ PushStep(t) \/ PopStep(t) \/ TimeOut(t) \/ SpuriousWakeup(t)
                  => UNCHANGED <<terminated, ctl>>
      BY DEF Enter, PushStep, PopStep, PushAtOnce, PushBlocked, PushWokenInVain, PushWoken,
             PopAtOnce, PopBlocked, PopWokenInVain, PopWoken, Blocked, WokenInVain, GiveUp,
             TimeOut, SpuriousWakeup, WakeUp
    <3>. QED  BY <3>1 DEF Next, PushEnter, PopEnter, InterruptAll, Threads, vars
  <2>. QED  BY <2>1, <2>2, <2>3, <2>4
<1>. QED
  BY <1>1, <1>2, TypeCorrect, PTL DEF Spec, TermInv


-----------------------------------------------------------------------------
(* Wakeups, one role at a time: R is the pushers or the poppers, p and w    *)
(* are pc and wake, n the counter of that role's waiters, and stock what    *)
(* they wait for: free slots, or elements.                                  *)

Inside(R, p)     == {t \in R : p[t] \in {"wait", "woken"}}
Asleep(R, p)     == {t \in R : p[t] = "wait"}
Coming(R, p, w)  == {t \in R : p[t] = "woken" /\ w[t] # "timeout"}

Attended(R, p, w, n, stock) ==
    /\ n = Cardinality(Inside(R, p))
    /\ Asleep(R, p) # {} => stock <= Cardinality(Coming(R, p, w))

LEMMA FiniteRoles ==
  ASSUME NEW R, IsFiniteSet(R), NEW p, NEW w
  PROVE  /\ IsFiniteSet(Inside(R, p)) /\ Cardinality(Inside(R, p)) \in Nat
         /\ IsFiniteSet(Coming(R, p, w)) /\ Cardinality(Coming(R, p, w)) \in Nat
  <1>1. Inside(R, p) \in SUBSET R /\ Coming(R, p, w) \in SUBSET R
    BY DEF Inside, Coming
  <1>. QED  BY <1>1, FS_Subset, FS_CardinalityType

\* Nobody of R falls asleep or leaves, and either nobody sleeps or nothing comes.
LEMMA AttendedStays ==
  ASSUME NEW R, NEW p, NEW w, NEW n, NEW stock \in Int, NEW p2, NEW w2, NEW stock2 \in Int,
         IsFiniteSet(R), Attended(R, p, w, n, stock),
         Inside(R, p2) = Inside(R, p), Asleep(R, p2) = Asleep(R, p),
         Coming(R, p2, w2) = Coming(R, p, w),
         Asleep(R, p) = {} \/ stock2 <= stock
  PROVE  Attended(R, p2, w2, n, stock2)
  BY FiniteRoles DEF Attended

\* One more falls asleep, and finds nothing.
LEMMA AttendedSleeps ==
  ASSUME NEW R, NEW p, NEW w, NEW n, NEW stock, NEW p2,
         IsFiniteSet(R), Attended(R, p, w, n, stock),
         NEW t \in R, t \notin Inside(R, p), Inside(R, p2) = Inside(R, p) \cup {t},
         stock = 0
  PROVE  Attended(R, p2, w, n + 1, stock)
  <1>1. Cardinality(Inside(R, p2)) = n + 1
    BY FiniteRoles, FS_AddElement DEF Attended
  <1>2. Cardinality(Coming(R, p2, w)) \in Nat
    BY FiniteRoles
  <1>. QED  BY <1>1, <1>2 DEF Attended

\* One who was woken leaves: for nothing, or with one of the stock.
LEMMA AttendedLeaves ==
  ASSUME NEW R, NEW p, NEW w, NEW n, NEW stock \in Nat, NEW p2, NEW w2, NEW stock2 \in Int,
         IsFiniteSet(R), Attended(R, p, w, n, stock),
         NEW t \in Inside(R, p), Inside(R, p2) = Inside(R, p) \ {t},
         Asleep(R, p2) = Asleep(R, p),
         Coming(R, p2, w2) = Coming(R, p, w) \ {t},
         \/ stock2 = stock - 1
         \/ stock2 = stock /\ (stock = 0 \/ t \notin Coming(R, p, w))
  PROVE  Attended(R, p2, w2, n - 1, stock2)
  <1>1. Cardinality(Inside(R, p2)) = n - 1
    BY FiniteRoles, FS_RemoveElement DEF Attended
  <1>2. /\ Cardinality(Coming(R, p, w)) \in Nat /\ Cardinality(Coming(R, p2, w2)) \in Nat
        /\ Cardinality(Coming(R, p2, w2)) = IF t \in Coming(R, p, w)
                                            THEN Cardinality(Coming(R, p, w)) - 1
                                            ELSE Cardinality(Coming(R, p, w))
    BY FiniteRoles, FS_RemoveElement
  <1>. QED  BY <1>1, <1>2 DEF Attended

\* One who sleeps is woken: by a signal, for at most one more of the stock, or not.
LEMMA AttendedWakes ==
  ASSUME NEW R, NEW p, NEW w, NEW n, NEW stock \in Int, NEW p2, NEW w2, NEW stock2 \in Int,
         IsFiniteSet(R), Attended(R, p, w, n, stock),
         NEW t \in Asleep(R, p), Inside(R, p2) = Inside(R, p),
         Asleep(R, p2) \subseteq Asleep(R, p),
         \/ Coming(R, p2, w2) = Coming(R, p, w) \cup {t} /\ stock2 <= stock + 1
         \/ Coming(R, p2, w2) = Coming(R, p, w) /\ stock2 = stock
  PROVE  Attended(R, p2, w2, n, stock2)
  <1>1. t \notin Coming(R, p, w)
    BY DEF Asleep, Coming
  <1>2. /\ Cardinality(Coming(R, p, w)) \in Nat
        /\ Cardinality(Coming(R, p, w) \cup {t}) = Cardinality(Coming(R, p, w)) + 1
    BY <1>1, FiniteRoles, FS_AddElement
  <1>3. stock <= Cardinality(Coming(R, p, w))
    BY DEF Attended
  <1>4. stock2 <= Cardinality(Coming(R, p2, w2))
    BY <1>2, <1>3
  <1>. QED  BY <1>4 DEF Attended

\* Everybody is awake.
LEMMA AttendedAwake ==
  ASSUME NEW R, NEW p, NEW w, NEW n, NEW stock, NEW p2, NEW w2,
         Attended(R, p, w, n, stock), Inside(R, p2) = Inside(R, p), Asleep(R, p2) = {}
  PROVE  Attended(R, p2, w2, n, stock)
  BY DEF Attended

LEMMA BothAttended ==
  NoLostWakeup <=> /\ Attended(Pushers, pc, wake, fullWaiters, Bounds - nelts)
                   /\ Attended(Poppers, pc, wake, emptyWaiters, nelts)
  BY DEF NoLostWakeup, Attended, Inside, Asleep, Coming, Alert, NotFullWaiters, NotEmptyWaiters

\* cond_signal() by t of the other role, which adds one to what R waits for.
LEMMA SignalAttends ==
  ASSUME TypeOK, NEW R \in SUBSET Threads, IsFiniteSet(R), NEW n, NEW stock \in Int,
         Attended(R, pc, wake, n, stock), NEW t \in Threads \ R, NEW a,
         Signal(t, IF n > 0 THEN Asleep(R, pc) ELSE {}, a)
  PROVE  Attended(R, pc', wake', n, stock + 1)
  <1>1. CASE Asleep(R, pc) = {}
    <2>1. \A u \in R : pc'[u] = pc[u] /\ wake'[u] = wake[u]
      BY <1>1 DEF Signal, TypeOK, ControlType
    <2>2. /\ Inside(R, pc') = Inside(R, pc) /\ Asleep(R, pc') = Asleep(R, pc)
          /\ Coming(R, pc', wake') = Coming(R, pc, wake)
      BY <2>1 DEF Inside, Asleep, Coming
    <2>. QED  BY <1>1, <2>2, AttendedStays
  <1>2. CASE Asleep(R, pc) # {}
    <2>1. PICK u : u \in Asleep(R, pc)
      BY <1>2
    <2>2. n \in Nat /\ Inside(R, pc) # {} /\ IsFiniteSet(Inside(R, pc))
      BY <2>1, FiniteRoles DEF Attended, Inside, Asleep
    <2>3. n > 0
      BY <2>2, FS_EmptySet DEF Attended
    <2>4. PICK x \in Asleep(R, pc) :
            /\ pc' = [pc EXCEPT ![t] = "idle", ![x] = "woken"]
            /\ wake' = [wake EXCEPT ![t] = "none", ![x] = "awake"]
      BY <1>2, <2>3 DEF Signal
    <2>5. /\ x \in R /\ x # t /\ pc[x] = "wait"
          /\ pc'[x] = "woken" /\ wake'[x] = "awake"
          /\ \A v \in R : v # x => pc'[v] = pc[v] /\ wake'[v] = wake[v]
      BY <2>4 DEF TypeOK, ControlType, Asleep
    <2>6. Inside(R, pc') = Inside(R, pc) /\ Asleep(R, pc') \subseteq Asleep(R, pc)
      BY <2>5 DEF Inside, Asleep
    <2>7. Coming(R, pc', wake') = Coming(R, pc, wake) \cup {x}
      BY <2>5 DEF Coming
    <2>. QED  BY <2>6, <2>7, AttendedWakes
  <1>. QED  BY <1>1, <1>2

\* t of R, which is not in a wait, returns or moves on without sleeping.
LEMMA ReturnAttends ==
  ASSUME TypeOK, NEW R \in SUBSET Threads, IsFiniteSet(R), NEW n, NEW stock \in Nat,
         Attended(R, pc, wake, n, stock), NEW t \in R, NEW stock2 \in Int, stock2 <= stock,
         pc[t] \notin {"wait", "woken"}, pc'[t] \notin {"wait", "woken"},
         \A u \in R \ {t} : pc'[u] = pc[u] /\ wake'[u] = wake[u]
  PROVE  Attended(R, pc', wake', n, stock2)
  <1>1. /\ Inside(R, pc') = Inside(R, pc) /\ Asleep(R, pc') = Asleep(R, pc)
        /\ Coming(R, pc', wake') = Coming(R, pc, wake)
    BY DEF Inside, Asleep, Coming
  <1>. QED  BY <1>1, AttendedStays

\* t of R, which was woken, leaves: with one of the stock, finding none, or without
\* a look because its time is up.
LEMMA LeaveAttends ==
  ASSUME TypeOK, NEW R \in SUBSET Threads, IsFiniteSet(R), NEW n, NEW stock \in Nat,
         Attended(R, pc, wake, n, stock), NEW t \in R, NEW stock2 \in Int,
         pc[t] = "woken", pc'[t] \notin {"wait", "woken"},
         \A u \in R \ {t} : pc'[u] = pc[u] /\ wake'[u] = wake[u],
         \/ stock2 = stock - 1
         \/ stock2 = stock /\ (stock = 0 \/ wake[t] = "timeout")
  PROVE  Attended(R, pc', wake', n - 1, stock2)
  <1>1. /\ t \in Inside(R, pc) /\ Inside(R, pc') = Inside(R, pc) \ {t}
        /\ Asleep(R, pc') = Asleep(R, pc)
        /\ Coming(R, pc', wake') = Coming(R, pc, wake) \ {t}
        /\ wake[t] = "timeout" => t \notin Coming(R, pc, wake)
    BY DEF Inside, Asleep, Coming
  <1>2. \/ stock2 = stock - 1
        \/ stock2 = stock /\ (stock = 0 \/ t \notin Coming(R, pc, wake))
    BY <1>1
  <1>. QED  BY <1>1, <1>2, AttendedLeaves

\* A step in which nobody of R moves, and which brings nothing more to wait for.
LEMMA StillAttends ==
  ASSUME NEW R, IsFiniteSet(R), NEW n, NEW stock \in Int, Attended(R, pc, wake, n, stock),
         \A u \in R : pc'[u] = pc[u] /\ wake'[u] = wake[u]
  PROVE  Attended(R, pc', wake', n, stock)
  <1>1. /\ Inside(R, pc') = Inside(R, pc) /\ Asleep(R, pc') = Asleep(R, pc)
        /\ Coming(R, pc', wake') = Coming(R, pc, wake)
    BY DEF Inside, Asleep, Coming
  <1>. QED  BY <1>1, AttendedStays

\* t of R finds nothing: it gives up, falls asleep, or leaves as interrupted.
LEMMA BlockedAttends ==
  ASSUME TypeOK, NEW R \in SUBSET Threads, IsFiniteSet(R), NEW n,
         Attended(R, pc, wake, n, 0), NEW t \in R, NEW full, NEW empty,
         Blocked(t, TRUE, full, empty)
  PROVE  \/ pc'[t] = "wait" /\ SetWaiters(full, empty) /\ Attended(R, pc', wake', n + 1, 0)
         \/ UNCHANGED waiters /\ Attended(R, pc', wake', n, 0)
  <1>1. CASE pc' = [pc EXCEPT ![t] = "wait"] /\ SetWaiters(full, empty)
    <2>1. t \notin Inside(R, pc) /\ Inside(R, pc') = Inside(R, pc) \cup {t} /\ wake' = wake
      BY <1>1 DEF Blocked, Inside, TypeOK, ControlType
    <2>2. Attended(R, pc', wake', n + 1, 0)
      BY <2>1, AttendedSleeps
    <2>. QED  BY <1>1, <2>2 DEF TypeOK, ControlType
  <1>2. CASE /\ pc' = [pc EXCEPT ![t] = "idle"] \/ pc' = [pc EXCEPT ![t] = "unlocked"]
             /\ UNCHANGED waiters
    <2>1. /\ pc[t] \notin {"wait", "woken"} /\ pc'[t] \notin {"wait", "woken"}
          /\ \A u \in R \ {t} : pc'[u] = pc[u] /\ wake'[u] = wake[u]
      BY <1>2 DEF Blocked, TypeOK, ControlType
    <2>2. Attended(R, pc', wake', n, 0)
      BY <2>1, ReturnAttends
    <2>. QED  BY <1>2, <2>2
  <1>. QED  BY <1>1, <1>2 DEF Blocked, Return

-----------------------------------------------------------------------------
\* The two roles.
FreeSlots == Bounds - nelts

Pushing == Attended(Pushers, pc, wake, fullWaiters, FreeSlots)
Popping == Attended(Poppers, pc, wake, emptyWaiters, nelts)

LEMMA Roles ==
  ASSUME TypeOK
  PROVE  /\ Pushers \in SUBSET Threads /\ IsFiniteSet(Pushers)
         /\ Poppers \in SUBSET Threads /\ IsFiniteSet(Poppers)
         /\ \A t \in Pushers : t \in Threads \ Poppers
         /\ \A t \in Poppers : t \in Threads \ Pushers
         /\ nelts \in Nat /\ FreeSlots \in Nat
  BY QueueAssumption DEF Threads, TypeOK, RingType, FreeSlots

LEMMA Sleepers ==
  NotFullWaiters = Asleep(Pushers, pc) /\ NotEmptyWaiters = Asleep(Poppers, pc)
  BY DEF NotFullWaiters, NotEmptyWaiters, Asleep

\* What Signal does to its own thread and the threads of its role.
LEMMA SignalReturns ==
  ASSUME TypeOK, NEW t \in Threads, NEW R, NEW S \in SUBSET (Threads \ R), t \in R, NEW a,
         Signal(t, S, a)
  PROVE  /\ pc'[t] = "idle"
         /\ \A u \in R \ {t} : u \in Threads => pc'[u] = pc[u] /\ wake'[u] = wake[u]
  BY DEF Signal, TypeOK, ControlType

LEMMA PushKeepsWakeups ==
  ASSUME TypeOK, Pushing, Popping, NEW t \in Pushers, PushStep(t)
  PROVE  Pushing' /\ Popping'
  <1>. USE Roles
  <1>1. ASSUME Enqueue(t)
        PROVE  /\ FreeSlots' = FreeSlots - 1 /\ nelts' = nelts + 1
               /\ pc'[t] = "idle"
               /\ \A u \in Pushers \ {t} : pc'[u] = pc[u] /\ wake'[u] = wake[u]
               /\ Attended(Poppers, pc', wake', emptyWaiters, nelts')
    <2>1. nelts' = nelts + 1 /\ FreeSlots' = FreeSlots - 1
      BY <1>1, QueueAssumption DEF Enqueue, FreeSlots
    <2>2. Signal(t, IF emptyWaiters > 0 THEN Asleep(Poppers, pc) ELSE {}, Answer("OK", NULL))
      BY <1>1, Sleepers DEF Enqueue
    <2>3. Attended(Poppers, pc', wake', emptyWaiters, nelts + 1)
      BY <2>2, SignalAttends DEF Popping
    <2>4. (IF emptyWaiters > 0 THEN Asleep(Poppers, pc) ELSE {}) \in SUBSET (Threads \ Pushers)
      BY DEF Asleep
    <2>5. /\ pc'[t] = "idle"
          /\ \A u \in Pushers \ {t} : pc'[u] = pc[u] /\ wake'[u] = wake[u]
      BY <2>2, <2>4, SignalReturns
    <2>. QED  BY <2>1, <2>3, <2>5
  <1>2. CASE PushAtOnce(t)
    <2>1. Enqueue(t) /\ UNCHANGED waiters /\ pc[t] = "lock"
      BY <1>2 DEF PushAtOnce
    <2>2. Attended(Pushers, pc', wake', fullWaiters, FreeSlots - 1)
      BY <1>1, <2>1, ReturnAttends DEF Pushing
    <2>. QED  BY <1>1, <2>1, <2>2 DEF Pushing, Popping, waiters
  <1>3. CASE PushWoken(t)
    <2>1. /\ Enqueue(t) /\ fullWaiters' = fullWaiters - 1 /\ emptyWaiters' = emptyWaiters
          /\ pc[t] = "woken"
      BY <1>3 DEF PushWoken, SetWaiters
    <2>2. Attended(Pushers, pc', wake', fullWaiters - 1, FreeSlots - 1)
      BY <1>1, <2>1, LeaveAttends DEF Pushing
    <2>. QED  BY <1>1, <2>1, <2>2 DEF Pushing, Popping
  <1>4. CASE PushBlocked(t)
    <2>1. FreeSlots = 0 /\ FreeSlots' = 0 /\ nelts' = nelts
      BY <1>4, QueueAssumption DEF PushBlocked, Blocked, Full, FreeSlots, ring
    <2>2. Blocked(t, TRUE, fullWaiters + 1, emptyWaiters)
      BY <1>4 DEF PushBlocked, Blocked
    <2>3. Pushing'
      <3>1. Attended(Pushers, pc, wake, fullWaiters, 0)
        BY <2>1 DEF Pushing
      <3>2. \/ /\ SetWaiters(fullWaiters + 1, emptyWaiters)
               /\ Attended(Pushers, pc', wake', fullWaiters + 1, 0)
            \/ UNCHANGED waiters /\ Attended(Pushers, pc', wake', fullWaiters, 0)
        BY <2>2, <3>1, BlockedAttends
      <3>. QED  BY <2>1, <3>2 DEF Pushing, SetWaiters, waiters
    <2>4. /\ \A u \in Poppers : pc'[u] = pc[u] /\ wake'[u] = wake[u]
          /\ emptyWaiters' = emptyWaiters
      BY <2>2 DEF Blocked, Return, TypeOK, ControlType, SetWaiters, waiters
    <2>5. Popping'
      BY <2>1, <2>4, StillAttends DEF Popping
    <2>. QED  BY <2>3, <2>5
  <1>5. CASE PushWokenInVain(t)
    <2>1. /\ pc[t] = "woken" /\ (wake[t] = "timeout" \/ Full)
          /\ fullWaiters' = fullWaiters - 1 /\ emptyWaiters' = emptyWaiters
          /\ nelts' = nelts /\ FreeSlots' = FreeSlots
      BY <1>5 DEF PushWokenInVain, WokenInVain, SetWaiters, ring, FreeSlots
    <2>2. /\ pc'[t] \in {"idle", "unlocked"}
          /\ \A u \in Threads \ {t} : pc'[u] = pc[u] /\ wake'[u] = wake[u]
      BY <1>5 DEF PushWokenInVain, WokenInVain, Return, TypeOK, ControlType
    <2>3. Full => FreeSlots = 0
      BY QueueAssumption DEF Full, FreeSlots
    <2>4. Attended(Pushers, pc', wake', fullWaiters - 1, FreeSlots)
      BY <2>1, <2>2, <2>3, LeaveAttends DEF Pushing
    <2>5. Attended(Poppers, pc', wake', emptyWaiters, nelts)
      BY <2>2, StillAttends DEF Popping
    <2>. QED  BY <2>1, <2>4, <2>5 DEF Pushing, Popping
  <1>6. CASE GiveUp(t)
    <2>1. /\ pc[t] = "unlocked" /\ pc'[t] = "idle"
          /\ \A u \in Threads \ {t} : pc'[u] = pc[u] /\ wake'[u] = wake[u]
          /\ UNCHANGED waiters /\ nelts' = nelts /\ FreeSlots' = FreeSlots
      BY <1>6 DEF GiveUp, Return, TypeOK, ControlType, ring, FreeSlots
    <2>2. Attended(Pushers, pc', wake', fullWaiters, FreeSlots)
      BY <2>1, ReturnAttends DEF Pushing
    <2>3. Attended(Poppers, pc', wake', emptyWaiters, nelts)
      BY <2>1, StillAttends DEF Popping
    <2>. QED  BY <2>1, <2>2, <2>3 DEF Pushing, Popping, waiters
  <1>. QED  BY <1>2, <1>3, <1>4, <1>5, <1>6 DEF PushStep

LEMMA PopKeepsWakeups ==
  ASSUME TypeOK, Pushing, Popping, NEW t \in Poppers, PopStep(t)
  PROVE  Pushing' /\ Popping'
  <1>. USE Roles
  <1>1. ASSUME Dequeue(t)
        PROVE  /\ FreeSlots' = FreeSlots + 1 /\ nelts' = nelts - 1
               /\ pc'[t] = "idle"
               /\ \A u \in Poppers \ {t} : pc'[u] = pc[u] /\ wake'[u] = wake[u]
               /\ Attended(Pushers, pc', wake', fullWaiters, FreeSlots')
    <2>1. nelts' = nelts - 1 /\ FreeSlots' = FreeSlots + 1
      BY <1>1, QueueAssumption DEF Dequeue, FreeSlots
    <2>2. Signal(t, IF fullWaiters > 0 THEN Asleep(Pushers, pc) ELSE {}, Answer("OK", data[out]))
      BY <1>1, Sleepers DEF Dequeue
    <2>3. Attended(Pushers, pc', wake', fullWaiters, FreeSlots + 1)
      BY <2>2, SignalAttends DEF Pushing
    <2>4. (IF fullWaiters > 0 THEN Asleep(Pushers, pc) ELSE {}) \in SUBSET (Threads \ Poppers)
      BY DEF Asleep
    <2>5. /\ pc'[t] = "idle"
          /\ \A u \in Poppers \ {t} : pc'[u] = pc[u] /\ wake'[u] = wake[u]
      BY <2>2, <2>4, SignalReturns
    <2>. QED  BY <2>1, <2>3, <2>5
  <1>2. CASE PopAtOnce(t)
    <2>1. Dequeue(t) /\ UNCHANGED waiters /\ pc[t] = "lock"
      BY <1>2 DEF PopAtOnce
    <2>2. Attended(Poppers, pc', wake', emptyWaiters, nelts - 1)
      BY <1>1, <2>1, ReturnAttends DEF Popping
    <2>. QED  BY <1>1, <2>1, <2>2 DEF Pushing, Popping, waiters
  <1>3. CASE PopWoken(t)
    <2>1. /\ Dequeue(t) /\ fullWaiters' = fullWaiters /\ emptyWaiters' = emptyWaiters - 1
          /\ pc[t] = "woken"
      BY <1>3 DEF PopWoken, SetWaiters
    <2>2. Attended(Poppers, pc', wake', emptyWaiters - 1, nelts - 1)
      BY <1>1, <2>1, LeaveAttends DEF Popping
    <2>. QED  BY <1>1, <2>1, <2>2 DEF Pushing, Popping
  <1>4. CASE PopBlocked(t)
    <2>1. nelts = 0 /\ nelts' = 0 /\ FreeSlots' = FreeSlots
      BY <1>4 DEF PopBlocked, Blocked, Empty, FreeSlots, ring
    <2>2. Blocked(t, TRUE, fullWaiters, emptyWaiters + 1)
      BY <1>4 DEF PopBlocked, Blocked
    <2>3. Popping'
      <3>1. Attended(Poppers, pc, wake, emptyWaiters, 0)
        BY <2>1 DEF Popping
      <3>2. \/ /\ SetWaiters(fullWaiters, emptyWaiters + 1)
               /\ Attended(Poppers, pc', wake', emptyWaiters + 1, 0)
            \/ UNCHANGED waiters /\ Attended(Poppers, pc', wake', emptyWaiters, 0)
        BY <2>2, <3>1, BlockedAttends
      <3>. QED  BY <2>1, <3>2 DEF Popping, SetWaiters, waiters
    <2>4. /\ \A u \in Pushers : pc'[u] = pc[u] /\ wake'[u] = wake[u]
          /\ fullWaiters' = fullWaiters
      BY <2>2 DEF Blocked, Return, TypeOK, ControlType, SetWaiters, waiters
    <2>5. Pushing'
      BY <2>1, <2>4, StillAttends DEF Pushing
    <2>. QED  BY <2>3, <2>5
  <1>5. CASE PopWokenInVain(t)
    <2>1. /\ pc[t] = "woken" /\ (wake[t] = "timeout" \/ Empty)
          /\ fullWaiters' = fullWaiters /\ emptyWaiters' = emptyWaiters - 1
          /\ nelts' = nelts /\ FreeSlots' = FreeSlots
      BY <1>5 DEF PopWokenInVain, WokenInVain, SetWaiters, ring, FreeSlots
    <2>2. /\ pc'[t] \in {"idle", "unlocked"}
          /\ \A u \in Threads \ {t} : pc'[u] = pc[u] /\ wake'[u] = wake[u]
      BY <1>5 DEF PopWokenInVain, WokenInVain, Return, TypeOK, ControlType
    <2>3. Attended(Poppers, pc', wake', emptyWaiters - 1, nelts)
      BY <2>1, <2>2, LeaveAttends DEF Popping, Empty
    <2>4. Attended(Pushers, pc', wake', fullWaiters, FreeSlots)
      BY <2>2, StillAttends DEF Pushing
    <2>. QED  BY <2>1, <2>3, <2>4 DEF Pushing, Popping
  <1>6. CASE GiveUp(t)
    <2>1. /\ pc[t] = "unlocked" /\ pc'[t] = "idle"
          /\ \A u \in Threads \ {t} : pc'[u] = pc[u] /\ wake'[u] = wake[u]
          /\ UNCHANGED waiters /\ nelts' = nelts /\ FreeSlots' = FreeSlots
      BY <1>6 DEF GiveUp, Return, TypeOK, ControlType, ring, FreeSlots
    <2>2. Attended(Poppers, pc', wake', emptyWaiters, nelts)
      BY <2>1, ReturnAttends DEF Popping
    <2>3. Attended(Pushers, pc', wake', fullWaiters, FreeSlots)
      BY <2>1, StillAttends DEF Pushing
    <2>. QED  BY <2>1, <2>2, <2>3 DEF Pushing, Popping, waiters
  <1>. QED  BY <1>2, <1>3, <1>4, <1>5, <1>6 DEF PopStep

\* t of R enters a call, or leaves it at once.
LEMMA EnterKeepsWakeups ==
  ASSUME TypeOK, Pushing, Popping, NEW t \in Threads, NEW timeout, NEW d, Enter(t, timeout, d)
  PROVE  Pushing' /\ Popping'
  <1>1. /\ pc[t] = "idle" /\ pc'[t] \in {"idle", "lock"}
        /\ \A u \in Threads \ {t} : pc'[u] = pc[u] /\ wake'[u] = wake[u]
        /\ UNCHANGED waiters /\ nelts' = nelts /\ FreeSlots' = FreeSlots
    BY DEF Enter, Return, TypeOK, ControlType, ring, FreeSlots
  <1>2. ASSUME NEW R \in SUBSET Threads, IsFiniteSet(R), NEW n, NEW stock \in Nat,
               Attended(R, pc, wake, n, stock)
        PROVE  Attended(R, pc', wake', n, stock)
    <2>1. CASE t \in R
      BY <1>1, <1>2, <2>1, ReturnAttends
    <2>2. CASE t \notin R
      BY <1>1, <1>2, <2>2, StillAttends
    <2>. QED  BY <2>1, <2>2
  <1>. QED  BY <1>1, <1>2, Roles DEF Pushing, Popping, waiters

\* t wakes up by itself or in time, in either role.
LEMMA WakeUpKeepsWakeups ==
  ASSUME TypeOK, Pushing, Popping, NEW t \in Threads, NEW why \in {"timeout", "awake"},
         WakeUp(t, why)
  PROVE  Pushing' /\ Popping'
  <1>1. /\ pc[t] = "wait" /\ pc'[t] = "woken" /\ wake'[t] = why
        /\ \A u \in Threads \ {t} : pc'[u] = pc[u] /\ wake'[u] = wake[u]
        /\ UNCHANGED waiters /\ nelts' = nelts /\ FreeSlots' = FreeSlots
    BY DEF WakeUp, TypeOK, ControlType, ring, FreeSlots
  <1>2. ASSUME NEW R \in SUBSET Threads, IsFiniteSet(R), NEW n, NEW stock \in Nat,
               Attended(R, pc, wake, n, stock)
        PROVE  Attended(R, pc', wake', n, stock)
    <2>1. CASE t \in R
      <3>1. /\ t \in Asleep(R, pc) /\ Inside(R, pc') = Inside(R, pc)
            /\ Asleep(R, pc') \subseteq Asleep(R, pc)
        BY <1>1, <2>1 DEF Asleep, Inside
      <3>2. \/ Coming(R, pc', wake') = Coming(R, pc, wake) \cup {t}
            \/ Coming(R, pc', wake') = Coming(R, pc, wake)
        BY <1>1, <2>1 DEF Coming
      <3>. QED  BY <1>2, <3>1, <3>2, AttendedWakes
    <2>2. CASE t \notin R
      BY <1>1, <1>2, <2>2, StillAttends
    <2>. QED  BY <2>1, <2>2
  <1>. QED  BY <1>1, <1>2, Roles DEF Pushing, Popping, waiters

LEMMA BroadcastKeepsWakeups ==
  ASSUME TypeOK, Pushing, Popping, Broadcast, UNCHANGED waiters, nelts' = nelts
  PROVE  Pushing' /\ Popping'
  <1>1. ASSUME NEW R \in SUBSET Threads, NEW n, NEW stock, Attended(R, pc, wake, n, stock)
        PROVE  Attended(R, pc', wake', n, stock)
    <2>1. Inside(R, pc') = Inside(R, pc) /\ Asleep(R, pc') = {}
      BY DEF Broadcast, TypeOK, ControlType, Inside, Asleep
    <2>. QED  BY <1>1, <2>1, AttendedAwake
  <1>. QED  BY <1>1, Roles DEF Pushing, Popping, waiters, FreeSlots

(* No wakeup is lost, for any numbers of threads and any capacity: the     *)
(* counters that the signals depend on count exactly the threads inside a  *)
(* wait, and while one sleeps, all that there is to take has its taker     *)
(* awake.                                                                  *)
THEOREM WakeupsKept == Spec => []NoLostWakeup
<1>1. Init => Pushing /\ Popping
  <2>. SUFFICES ASSUME Init PROVE Pushing /\ Popping
    OBVIOUS
  <2>1. /\ Inside(Pushers, pc) = {} /\ Asleep(Pushers, pc) = {}
        /\ Inside(Poppers, pc) = {} /\ Asleep(Poppers, pc) = {}
    BY DEF Init, Inside, Asleep, Threads
  <2>. QED  BY <2>1, FS_EmptySet DEF Init, Pushing, Popping, Attended
<1>2. TypeOK /\ Pushing /\ Popping /\ [Next]_vars => Pushing' /\ Popping'
  <2>. SUFFICES ASSUME TypeOK, Pushing, Popping, [Next]_vars PROVE Pushing' /\ Popping'
    OBVIOUS
  <2>1. ASSUME NEW t \in Threads, NEW timeout, NEW d, Enter(t, timeout, d)
        PROVE  Pushing' /\ Popping'
    BY <2>1, EnterKeepsWakeups
  <2>2. ASSUME NEW t \in Pushers, PushStep(t) PROVE Pushing' /\ Popping'
    BY <2>2, PushKeepsWakeups
  <2>3. ASSUME NEW t \in Poppers, PopStep(t) PROVE Pushing' /\ Popping'
    BY <2>3, PopKeepsWakeups
  <2>4. ASSUME NEW t \in Threads, TimeOut(t) \/ SpuriousWakeup(t) PROVE Pushing' /\ Popping'
    BY <2>4, WakeUpKeepsWakeups DEF TimeOut, SpuriousWakeup
  <2>5. CASE InterruptAll \/ TermInterrupt
    BY <2>5, BroadcastKeepsWakeups DEF InterruptAll, TermInterrupt, ring
  <2>6. CASE TermSet \/ UNCHANGED vars
    BY <2>6 DEF TermSet, vars, ring, waiters, Pushing, Popping, FreeSlots
  <2>. QED  BY <2>1, <2>2, <2>3, <2>4, <2>5, <2>6 DEF Next, PushEnter, PopEnter, Threads
<1>3. Pushing /\ Popping => NoLostWakeup
  BY BothAttended DEF Pushing, Popping, FreeSlots
<1>. QED  BY <1>1, <1>2, <1>3, TypeCorrect, PTL DEF Spec

-----------------------------------------------------------------------------
(* The refinement of BoundedFifo: the ring, read from "out" on, and what    *)
(* the calls return.                                                       *)

\* The next element goes where the contents end; a pusher on its way has one.
RingInv == in = Slot(nelts + 1)
ArgsInv == \A t \in Pushers : pc[t] # "idle" => call[t].elem \in Elements

\* n places of a ring, from o on.
Place(o, i)      == IF o + i - 1 >= Bounds THEN o + i - 1 - Bounds ELSE o + i - 1
RingSeq(d, n, o) == [i \in 1 .. n |-> d[Place(o, i)]]

LEMMA RingSeqType ==
  ASSUME NEW d \in [0 .. Bounds - 1 -> Elements \cup {NULL}], NEW n \in 0 .. Bounds,
         NEW o \in 0 .. Bounds - 1
  PROVE  /\ RingSeq(d, n, o) \in Seq(Elements \cup {NULL})
         /\ Len(RingSeq(d, n, o)) = n
  <1>1. Bounds \in Nat /\ n \in Nat /\ n <= Bounds
    BY QueueAssumption
  <1>2. \A i \in 1 .. n : Place(o, i) \in 0 .. Bounds - 1
    BY <1>1 DEF Place
  <1>3. RingSeq(d, n, o) \in [1 .. n -> Elements \cup {NULL}]
    BY <1>2 DEF RingSeq
  <1>. QED  BY <1>1, <1>3

LEMMA ContentsType ==
  ASSUME TypeOK
  PROVE  Contents \in Seq(Elements \cup {NULL}) /\ Len(Contents) = nelts
  <1>1. /\ data \in [0 .. Bounds - 1 -> Elements \cup {NULL}]
        /\ nelts \in 0 .. Bounds /\ out \in 0 .. Bounds - 1
    BY DEF TypeOK, RingType
  <1>2. Contents = RingSeq(data, nelts, out)
    BY DEF Contents, Slot, RingSeq, Place
  <1>. QED  BY <1>1, <1>2, RingSeqType

LEMMA ContentsTypeNext ==
  ASSUME TypeOK'
  PROVE  Contents' \in Seq(Elements \cup {NULL}) /\ Len(Contents') = nelts'
  <1>1. /\ data' \in [0 .. Bounds - 1 -> Elements \cup {NULL}]
        /\ nelts' \in 0 .. Bounds /\ out' \in 0 .. Bounds - 1
    BY DEF TypeOK, RingType
  <1>2. Contents' = RingSeq(data', nelts', out')
    BY DEF Contents, Slot, RingSeq, Place
  <1>. QED  BY <1>1, <1>2, RingSeqType

\* Sequences of one length with the same elements are the same.
LEMMA SameContents ==
  ASSUME NEW S, NEW T, NEW a \in Seq(S), NEW b \in Seq(T), Len(a) = Len(b),
         \A i \in 1 .. Len(a) : a[i] = b[i]
  PROVE  a = b
  OBVIOUS

\* A step that leaves the ring alone.
LEMMA SameRing ==
  ASSUME TypeOK, RingInv, UNCHANGED ring
  PROVE  Contents' = Contents /\ RingInv'
  BY DEF ring, Contents, Slot, RingInv

LEMMA EnqueueAppends ==
  ASSUME TypeOK, TypeOK', RingInv, NEW t \in Threads, ~Full, Enqueue(t)
  PROVE  Contents' = Append(Contents, call[t].elem) /\ RingInv' /\ Len(Contents) < Bounds
  <1>1. /\ nelts \in Nat /\ nelts < Bounds /\ Bounds \in Nat
        /\ in \in 0 .. Bounds - 1 /\ out \in 0 .. Bounds - 1
    BY QueueAssumption DEF TypeOK, RingType, Full
  <1>2. /\ nelts' = nelts + 1 /\ out' = out /\ in' = Advance(in)
        /\ data' = [data EXCEPT ![in] = call[t].elem]
    BY DEF Enqueue
  <1>3. \A i \in 1 .. nelts : Slot(i) # in
    BY <1>1 DEF RingInv, Slot
  <1>4. RingInv'
    BY <1>1, <1>2 DEF RingInv, Slot, Advance
  <1>5. \A i \in 1 .. nelts : Contents'[i] = Contents[i]
    <2>1. SUFFICES ASSUME NEW i \in 1 .. nelts PROVE Contents'[i] = Contents[i]
      OBVIOUS
    <2>2. Contents'[i] = data'[Slot(i)'] /\ Contents[i] = data[Slot(i)]
      BY <1>1, <1>2 DEF Contents
    <2>3. Slot(i)' = Slot(i) /\ Slot(i) # in
      BY <1>2, <1>3 DEF Slot
    <2>. QED  BY <1>2, <2>2, <2>3 DEF TypeOK, RingType
  <1>6. Contents'[nelts + 1] = call[t].elem
    <2>1. SUFFICES ASSUME NEW k, k = nelts + 1 PROVE Contents'[k] = call[t].elem
      OBVIOUS
    <2>2. Contents'[k] = data'[Slot(k)']
      BY <1>1, <1>2, <2>1 DEF Contents
    <2>3. Slot(k)' = in
      BY <1>2, <2>1 DEF Slot, RingInv
    <2>. QED  BY <1>1, <1>2, <2>2, <2>3 DEF TypeOK, RingType
  <1>7. /\ Contents \in Seq(Elements \cup {NULL}) /\ Len(Contents) = nelts
        /\ Contents' \in Seq(Elements \cup {NULL}) /\ Len(Contents') = nelts + 1
    BY <1>2, ContentsType, ContentsTypeNext
  <1>8. Contents' = Append(Contents, call[t].elem)
    <2>. DEFINE e == call[t].elem
    <2>1. /\ Append(Contents, e) \in Seq(Elements \cup {NULL, e})
          /\ Len(Append(Contents, e)) = nelts + 1
          /\ \A i \in 1 .. nelts : Append(Contents, e)[i] = Contents[i]
          /\ Append(Contents, e)[nelts + 1] = e
      BY <1>7
    <2>2. \A i \in 1 .. nelts + 1 : i \in 1 .. nelts \/ i = nelts + 1
      BY <1>1
    <2>3. \A i \in 1 .. nelts + 1 : Contents'[i] = Append(Contents, e)[i]
      BY <1>5, <1>6, <2>1, <2>2
    <2>. QED  BY <1>7, <2>1, <2>3, SameContents
  <1>. QED  BY <1>1, <1>4, <1>7, <1>8

LEMMA DequeueTakes ==
  ASSUME TypeOK, TypeOK', RingInv, NEW t \in Threads, ~Empty, Dequeue(t)
  PROVE  /\ Contents # <<>> /\ Contents' = Tail(Contents) /\ Head(Contents) = data[out]
         /\ RingInv'
  <1>1. /\ nelts \in Nat /\ nelts >= 1 /\ nelts <= Bounds /\ Bounds \in Nat
        /\ in \in 0 .. Bounds - 1 /\ out \in 0 .. Bounds - 1
    BY QueueAssumption DEF TypeOK, RingType, Empty
  <1>2. nelts' = nelts - 1 /\ out' = Advance(out) /\ data' = data /\ in' = in
    BY DEF Dequeue
  <1>3. RingInv'
    BY <1>1, <1>2 DEF RingInv, Slot, Advance
  <1>4. /\ Contents \in Seq(Elements \cup {NULL}) /\ Len(Contents) = nelts
        /\ Contents' \in Seq(Elements \cup {NULL}) /\ Len(Contents') = nelts - 1
    BY <1>2, ContentsType, ContentsTypeNext
  <1>5. \A i \in 1 .. nelts - 1 : Contents'[i] = Contents[i + 1]
    <2>1. SUFFICES ASSUME NEW i \in 1 .. nelts - 1 PROVE Contents'[i] = Contents[i + 1]
      OBVIOUS
    <2>2. Contents'[i] = data[Slot(i)'] /\ Contents[i + 1] = data[Slot(i + 1)]
      BY <1>1, <1>2 DEF Contents
    <2>3. Slot(i)' = Slot(i + 1)
      BY <1>1, <1>2 DEF Slot, Advance
    <2>. QED  BY <2>2, <2>3
  <1>6. Head(Contents) = data[out] /\ Contents # <<>>
    <2>1. Contents[1] = data[Slot(1)] /\ Slot(1) = out
      BY <1>1 DEF Contents, Slot
    <2>. QED  BY <1>1, <1>4, <2>1
  <1>7. Contents' = Tail(Contents)
    <2>1. /\ Tail(Contents) \in Seq(Elements \cup {NULL}) /\ Len(Tail(Contents)) = nelts - 1
          /\ \A i \in 1 .. nelts - 1 : Tail(Contents)[i] = Contents[i + 1]
      BY <1>1, <1>4, <1>6
    <2>. QED  BY <1>4, <1>5, <2>1, SameContents
  <1>. QED  BY <1>3, <1>6, <1>7

-----------------------------------------------------------------------------
\* A call that touches nothing but the answer of its thread.
Told(t, a) == UNCHANGED ring /\ ret' = [ret EXCEPT ![t] = a]

Refused == {Answer(rv, NULL) : rv \in {"RETRY", "TIMEUP", "ERROR", "DONE"}}

LEMMA ToldIsFifo ==
  ASSUME TypeOK, RingInv, NEW t \in Threads, NEW a \in Refused \cup {Answer("PENDING", NULL)},
         Told(t, a)
  PROVE  Fifo!FifoNext /\ RingInv'
  <1>1. Contents' = Contents /\ RingInv'
    BY SameRing DEF Told
  <1>2. CASE a \in Refused
    <2>1. Fifo!Fail(t)
      BY <1>1, <1>2 DEF Told, Refused, Answer, Fifo!Fail, Fifo!Failures, Fifo!Done
    <2>. QED  BY <1>1, <2>1 DEF Fifo!FifoNext
  <1>3. CASE a = Answer("PENDING", NULL)
    <2>1. Fifo!Begin(t)
      BY <1>1, <1>3 DEF Told, Answer, Fifo!Begin, Fifo!Done
    <2>. QED  BY <1>1, <2>1 DEF Fifo!FifoNext
  <1>. QED  BY <1>2, <1>3

\* A step of which the callers see nothing.
LEMMA UnseenIsStutter ==
  ASSUME TypeOK, RingInv, UNCHANGED ring, UNCHANGED ret
  PROVE  UNCHANGED Fifo!fifoVars /\ RingInv'
  BY SameRing DEF Fifo!fifoVars

LEMMA EnqueuePuts ==
  ASSUME TypeOK, TypeOK', RingInv, ArgsInv, NEW t \in Pushers, pc[t] # "idle", ~Full, Enqueue(t)
  PROVE  Fifo!FifoNext /\ RingInv'
  <1>1. call[t].elem \in Elements /\ t \in Threads
    BY DEF ArgsInv, Threads
  <1>2. /\ Contents' = Append(Contents, call[t].elem) /\ Len(Contents) < Bounds
        /\ ret' = [ret EXCEPT ![t] = Answer("OK", NULL)]
    BY <1>1, EnqueueAppends DEF Enqueue, Signal
  <1>3. Fifo!Put(t, call[t].elem)
    BY <1>2 DEF Fifo!Put, Fifo!Done, Answer
  <1>. QED  BY <1>1, <1>3, EnqueueAppends DEF Fifo!FifoNext

LEMMA DequeueIsTake ==
  ASSUME TypeOK, TypeOK', RingInv, NEW t \in Threads, ~Empty, Dequeue(t)
  PROVE  Fifo!FifoNext /\ RingInv'
  <1>1. /\ Contents # <<>> /\ Contents' = Tail(Contents)
        /\ ret' = [ret EXCEPT ![t] = Answer("OK", Head(Contents))]
    BY DequeueTakes DEF Dequeue, Signal
  <1>2. Fifo!Take(t)
    BY <1>1 DEF Fifo!Take, Fifo!Ok, Answer
  <1>. QED  BY <1>2, DequeueTakes DEF Fifo!FifoNext

LEMMA BlockedIsFifo ==
  ASSUME TypeOK, RingInv, NEW t \in Threads, NEW stuck, NEW full, NEW empty,
         Blocked(t, stuck, full, empty)
  PROVE  [Fifo!FifoNext]_(Fifo!fifoVars) /\ RingInv'
  <1>1. UNCHANGED ring
    BY DEF Blocked
  <1>2. CASE Return(t, Answer("RETRY", NULL))
    BY <1>1, <1>2, ToldIsFifo DEF Return, Told, Refused
  <1>3. CASE UNCHANGED ret
    BY <1>1, <1>3, UnseenIsStutter
  <1>. QED  BY <1>2, <1>3 DEF Blocked

LEMMA WokenInVainIsFifo ==
  ASSUME TypeOK, RingInv, NEW t \in Threads, NEW stuck, NEW full, NEW empty,
         WokenInVain(t, stuck, full, empty)
  PROVE  [Fifo!FifoNext]_(Fifo!fifoVars) /\ RingInv'
  <1>1. UNCHANGED ring
    BY DEF WokenInVain
  <1>2. CASE Return(t, Answer("TIMEUP", NULL))
    BY <1>1, <1>2, ToldIsFifo DEF Return, Told, Refused
  <1>3. CASE UNCHANGED ret
    BY <1>1, <1>3, UnseenIsStutter
  <1>. QED  BY <1>2, <1>3 DEF WokenInVain

LEMMA EnterOrGiveUpIsFifo ==
  ASSUME TypeOK, RingInv, NEW t \in Threads,
         GiveUp(t) \/ \E timeout \in Timeouts, d \in Elements \cup {NULL} : Enter(t, timeout, d)
  PROVE  Fifo!FifoNext /\ RingInv'
  <1>1. \E a \in Refused \cup {Answer("PENDING", NULL)} : Told(t, a)
    <2>1. CASE GiveUp(t)
      BY <2>1 DEF GiveUp, Return, Told, Refused
    <2>2. CASE \E timeout \in Timeouts, d \in Elements \cup {NULL} : Enter(t, timeout, d)
      BY <2>2 DEF Enter, Return, Told, Refused
    <2>. QED  BY <2>1, <2>2
  <1>. QED  BY <1>1, ToldIsFifo

LEMMA NextIsFifo ==
  ASSUME TypeOK, TypeOK', RingInv, ArgsInv, [Next]_vars
  PROVE  [Fifo!FifoNext]_(Fifo!fifoVars) /\ RingInv'
  <1>1. ASSUME NEW t \in Pushers, PushEnter(t) \/ PushStep(t)
        PROVE  [Fifo!FifoNext]_(Fifo!fifoVars) /\ RingInv'
    <2>. t \in Threads
      BY DEF Threads
    <2>1. CASE PushEnter(t) \/ GiveUp(t)
      BY <2>1, EnterOrGiveUpIsFifo DEF PushEnter
    <2>2. CASE PushBlocked(t)
      BY <2>2, BlockedIsFifo DEF PushBlocked
    <2>3. CASE PushWokenInVain(t)
      BY <2>3, WokenInVainIsFifo DEF PushWokenInVain
    <2>4. CASE PushAtOnce(t) \/ PushWoken(t)
      BY <2>4, EnqueuePuts DEF PushAtOnce, PushWoken
    <2>. QED  BY <1>1, <2>1, <2>2, <2>3, <2>4 DEF PushStep
  <1>2. ASSUME NEW t \in Poppers, PopEnter(t) \/ PopStep(t)
        PROVE  [Fifo!FifoNext]_(Fifo!fifoVars) /\ RingInv'
    <2>. t \in Threads
      BY DEF Threads
    <2>1. CASE PopEnter(t) \/ GiveUp(t)
      BY <2>1, EnterOrGiveUpIsFifo DEF PopEnter
    <2>2. CASE PopBlocked(t)
      BY <2>2, BlockedIsFifo DEF PopBlocked
    <2>3. CASE PopWokenInVain(t)
      BY <2>3, WokenInVainIsFifo DEF PopWokenInVain
    <2>4. CASE PopAtOnce(t) \/ PopWoken(t)
      BY <2>4, DequeueIsTake DEF PopAtOnce, PopWoken
    <2>. QED  BY <1>2, <2>1, <2>2, <2>3, <2>4 DEF PopStep
  <1>3. CASE \/ \E t \in Threads : TimeOut(t) \/ SpuriousWakeup(t)
             \/ InterruptAll \/ TermSet \/ TermInterrupt \/ UNCHANGED vars
    <2>1. UNCHANGED ring /\ UNCHANGED ret
      BY <1>3 DEF TimeOut, SpuriousWakeup, WakeUp, InterruptAll, TermSet, TermInterrupt, vars, ring
    <2>. QED  BY <2>1, UnseenIsStutter
  <1>. QED  BY <1>1, <1>2, <1>3 DEF Next

\* A pusher has its element from its entry to its return.
LEMMA NextKeepsArgs ==
  ASSUME TypeOK, ArgsInv, [Next]_vars
  PROVE  ArgsInv'
  <1>. SUFFICES ASSUME NEW p \in Pushers, pc'[p] # "idle" PROVE call'[p].elem \in Elements
    BY DEF ArgsInv
  <1>0. p \in Threads
    BY DEF Threads
  <1>1. SUFFICES \/ pc[p] # "idle" /\ call'[p] = call[p]
                 \/ call'[p].elem \in Elements
    BY DEF ArgsInv
  <1>. USE <1>0 DEF TypeOK, ControlType, CallType
  <1>2. ASSUME NEW t \in Threads, NEW a, Return(t, a)
        PROVE  pc[p] # "idle" /\ call'[p] = call[p]
    BY <1>2 DEF Return
  <1>3. ASSUME NEW t \in Threads, NEW S \in SUBSET Threads, NEW a, Signal(t, S, a),
               \A w \in S : pc[w] = "wait"
        PROVE  pc[p] # "idle" /\ call'[p] = call[p]
    <2>1. p # t
      BY <1>3 DEF Signal
    <2>2. call'[p] = call[p]
      BY <1>3, <2>1 DEF Signal
    <2>3. CASE S = {}
      BY <1>3, <2>1, <2>2, <2>3 DEF Signal
    <2>4. CASE S # {}
      BY <1>3, <2>1, <2>2, <2>4 DEF Signal
    <2>. QED  BY <2>3, <2>4
  <1>4. ASSUME NEW t \in Pushers, PushEnter(t) PROVE call'[p].elem \in Elements \/ (pc[p] # "idle" /\ call'[p] = call[p])
    <2>1. PICK timeout \in Timeouts, d \in Elements : Enter(t, timeout, d)
      BY <1>4 DEF PushEnter
    <2>. t \in Threads
      BY DEF Threads
    <2>2. CASE terminated
      BY <1>2, <2>1, <2>2 DEF Enter
    <2>3. CASE ~terminated
      BY <2>1, <2>3 DEF Enter
    <2>. QED  BY <2>2, <2>3
  <1>5. ASSUME NEW t \in Poppers, PopEnter(t) PROVE pc[p] # "idle" /\ call'[p] = call[p]
    <2>1. PICK timeout \in Timeouts : Enter(t, timeout, NULL)
      BY <1>5 DEF PopEnter
    <2>. t \in Threads /\ t # p
      BY QueueAssumption DEF Threads
    <2>. QED  BY <2>1 DEF Enter, Return
  <1>6. ASSUME NEW t \in Threads, Enqueue(t) \/ Dequeue(t)
        PROVE  pc[p] # "idle" /\ call'[p] = call[p]
    BY <1>3, <1>6 DEF Enqueue, Dequeue, NotEmptyWaiters, NotFullWaiters, Threads
  <1>7. ASSUME NEW t \in Threads, NEW stuck, NEW full, NEW empty,
               Blocked(t, stuck, full, empty) \/ WokenInVain(t, stuck, full, empty)
        PROVE  pc[p] # "idle" /\ call'[p] = call[p]
    BY <1>2, <1>7 DEF Blocked, WokenInVain
  <1>8. ASSUME NEW t \in Threads, GiveUp(t) \/ TimeOut(t) \/ SpuriousWakeup(t)
        PROVE  pc[p] # "idle" /\ call'[p] = call[p]
    BY <1>2, <1>8 DEF GiveUp, TimeOut, SpuriousWakeup, WakeUp
  <1>9. CASE InterruptAll \/ TermSet \/ TermInterrupt \/ UNCHANGED vars
    BY <1>9 DEF InterruptAll, TermSet, TermInterrupt, Broadcast, vars
  <1>10. ASSUME NEW t \in Pushers, PushStep(t) PROVE pc[p] # "idle" /\ call'[p] = call[p]
    BY <1>6, <1>7, <1>8, <1>10
    DEF PushStep, PushAtOnce, PushBlocked, PushWokenInVain, PushWoken, Threads
  <1>11. ASSUME NEW t \in Poppers, PopStep(t) PROVE pc[p] # "idle" /\ call'[p] = call[p]
    BY <1>6, <1>7, <1>8, <1>11
    DEF PopStep, PopAtOnce, PopBlocked, PopWokenInVain, PopWoken, Threads
  <1>. QED  BY <1>4, <1>5, <1>8, <1>9, <1>10, <1>11 DEF Next

(* The ring is a FIFO, for any numbers of threads, any elements and any    *)
(* capacity: read from "out" on, it holds what the pushes that returned OK *)
(* appended and the pops that returned OK have not yet taken, in order;    *)
(* every other return left it alone.                                       *)
THEOREM RingIsFifo == Spec => ImplementsFifo
<1>1. Init => Fifo!FifoInit /\ RingInv /\ ArgsInv
  <2>. SUFFICES ASSUME Init PROVE Fifo!FifoInit /\ RingInv /\ ArgsInv
    OBVIOUS
  <2>1. Contents = << >>
    BY DEF Init, Contents
  <2>2. Fifo!FifoInit
    BY <2>1 DEF Init, Fifo!FifoInit, Fifo!Done, Answer
  <2>3. RingInv
    BY QueueAssumption DEF Init, RingInv, Slot
  <2>. QED  BY <2>2, <2>3 DEF Init, ArgsInv, Threads
<1>2. TypeOK /\ TypeOK' /\ RingInv /\ ArgsInv /\ [Next]_vars
        => [Fifo!FifoNext]_(Fifo!fifoVars) /\ RingInv' /\ ArgsInv'
  BY NextIsFifo, NextKeepsArgs
<1>. QED  BY <1>1, <1>2, TypeCorrect, PTL DEF Spec, ImplementsFifo, Fifo!FifoSpec

=============================================================================
