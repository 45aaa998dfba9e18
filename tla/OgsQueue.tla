------------------------------- MODULE OgsQueue -------------------------------
(***************************************************************************)
(* The event queue of every daemon (lib/core/ogs-queue.c): a ring guarded  *)
(* by one_big_mutex with two condition variables.                          *)
(*                                                                         *)
(* A critical section runs under the mutex, so from its lock to its unlock *)
(* (or to the wait that releases it) it is one action.  What the code does *)
(* outside the mutex is a step of its own: the read of "terminated" on     *)
(* entry and the one after the unlock of an unsuccessful wait.  A thread   *)
(* leaves a condition variable by a signal, a broadcast, its timeout or,   *)
(* as POSIX allows, spuriously; it then competes for the mutex again.      *)
(***************************************************************************)
EXTENDS Integers, FiniteSets, Sequences

CONSTANTS Pushers, Poppers,  \* threads that push, threads that pop
          Elements,          \* the pointers that are queued
          Bounds,            \* queue->bounds, the capacity
          Timeouts,          \* the entry points in use: of each operation, those
                             \* with timeout < 0, = 0 and > 0
          Spurious,          \* whether a wait may wake up by itself
          NULL               \* no element

ASSUME QueueAssumption ==
    /\ Bounds \in Nat \ {0}
    /\ Pushers \cap Poppers = {}
    /\ IsFiniteSet(Pushers) /\ IsFiniteSet(Poppers)
    /\ "nowait" \in Timeouts /\ Timeouts \subseteq {"infinite", "nowait", "timed"}
    /\ Spurious \in BOOLEAN
    /\ NULL \notin Elements

Threads == Pushers \cup Poppers

VARIABLES
    data, nelts, in, out,       \* the ring
    fullWaiters, emptyWaiters,  \* the two counters of waiting threads
    terminated,
    pc,       \* where each thread is in queue_push() or queue_pop()
    wake,     \* whether a woken thread left its condition variable by its timeout
    call,     \* the arguments of the call in progress
    ret,      \* what the last call returned
    ctl       \* progress of ogs_queue_term(): "run", "terminating" or "terminated"

ring    == <<data, nelts, in, out>>
waiters == <<fullWaiters, emptyWaiters>>
vars    == <<data, nelts, in, out, fullWaiters, emptyWaiters, terminated,
             pc, wake, call, ret, ctl>>

Full  == nelts = Bounds
Empty == nelts = 0

\* Threads blocked in cond_wait(not_full) and cond_wait(not_empty).
NotFullWaiters  == {t \in Pushers : pc[t] = "wait"}
NotEmptyWaiters == {t \in Poppers : pc[t] = "wait"}

Answer(rv, elem) == [rv |-> rv, elem |-> elem]

NoCall == [timeout |-> "nowait", elem |-> NULL]

Return(t, a) == /\ pc'   = [pc EXCEPT ![t] = "idle"]
                /\ ret'  = [ret EXCEPT ![t] = a]
                /\ call' = [call EXCEPT ![t] = NoCall]

SetWaiters(full, empty) == fullWaiters' = full /\ emptyWaiters' = empty

\* Mutant: the ring wraps one slot too late.
AdvanceLate(i) == IF i + 1 > Bounds THEN i + 1 - Bounds ELSE i + 1

Advance(i) == IF i + 1 >= Bounds THEN i + 1 - Bounds ELSE i + 1

-----------------------------------------------------------------------------
Init ==
    /\ data = [i \in 0 .. Bounds - 1 |-> NULL]
    /\ nelts = 0 /\ in = 0 /\ out = 0
    /\ fullWaiters = 0 /\ emptyWaiters = 0
    /\ terminated = FALSE
    /\ pc   = [t \in Threads |-> "idle"]
    /\ wake = [t \in Threads |-> "none"]
    /\ call = [t \in Threads |-> NoCall]
    /\ ret  = [t \in Threads |-> Answer("OK", NULL)]
    /\ ctl  = "run"

\* cond_signal(): wakes one of the threads S still blocked, if there is any.
\* t is the thread that signals and returns.
Signal(t, S, a) ==
    /\ ret'  = [ret EXCEPT ![t] = a]
    /\ call' = [call EXCEPT ![t] = NoCall]
    /\ IF S = {}
         THEN /\ pc' = [pc EXCEPT ![t] = "idle"]
              /\ wake' = [wake EXCEPT ![t] = "none"]
         ELSE \E w \in S :
                /\ pc' = [pc EXCEPT ![t] = "idle", ![w] = "woken"]
                /\ wake' = [wake EXCEPT ![t] = "none", ![w] = "awake"]

-----------------------------------------------------------------------------
\* Entry: the read of "terminated" before the mutex is taken.
Enter(t, timeout, elem) ==
    /\ pc[t] = "idle"
    /\ IF terminated
         THEN Return(t, Answer("DONE", NULL))
         ELSE /\ pc'   = [pc EXCEPT ![t] = "lock"]
              /\ call' = [call EXCEPT ![t] = [timeout |-> timeout, elem |-> elem]]
              /\ ret'  = [ret EXCEPT ![t] = Answer("PENDING", NULL)]
    /\ UNCHANGED <<ring, waiters, terminated, wake, ctl>>

PushEnter(t) == \E timeout \in Timeouts, d \in Elements : Enter(t, timeout, d)
PopEnter(t)  == \E timeout \in Timeouts : Enter(t, timeout, NULL)

\* Mutant: not_empty is signalled only when the queue was empty.
EnqueueSignalFirst(t) ==
    /\ data' = [data EXCEPT ![in] = call[t].elem]
    /\ in' = Advance(in)
    /\ nelts' = nelts + 1
    /\ out' = out
    /\ Signal(t, IF Empty THEN NotEmptyWaiters ELSE {}, Answer("OK", NULL))

\* The common tail of a push that found room.
Enqueue(t) ==
    /\ data' = [data EXCEPT ![in] = call[t].elem]
    /\ in' = Advance(in)
    /\ nelts' = nelts + 1
    /\ out' = out
    /\ Signal(t, IF emptyWaiters > 0 THEN NotEmptyWaiters ELSE {},
              Answer("OK", NULL))

\* The common tail of a pop that found an element.
Dequeue(t) ==
    /\ nelts' = nelts - 1
    /\ out' = Advance(out)
    /\ UNCHANGED <<data, in>>
    /\ Signal(t, IF fullWaiters > 0 THEN NotFullWaiters ELSE {},
              Answer("OK", data[out]))

\* First critical section, nothing to wait for.
PushAtOnce(t) == /\ pc[t] = "lock" /\ ~Full
                 /\ Enqueue(t)
                 /\ UNCHANGED <<waiters, terminated, ctl>>

PopAtOnce(t) == /\ pc[t] = "lock" /\ ~Empty
                /\ Dequeue(t)
                /\ UNCHANGED <<waiters, terminated, ctl>>

\* Mutant: terminated is not tested again under the mutex before the wait.
BlockedUntested(t, stuck, full, empty) ==
    /\ pc[t] = "lock" /\ stuck
    /\ IF call[t].timeout = "nowait"
         THEN /\ Return(t, Answer("RETRY", NULL))
              /\ UNCHANGED waiters
         ELSE /\ pc' = [pc EXCEPT ![t] = "wait"]
              /\ SetWaiters(full, empty)
              /\ UNCHANGED <<ret, call>>
    /\ UNCHANGED <<ring, terminated, wake, ctl>>

\* First critical section, the queue is full (or empty): give up at once, block,
\* or, on a queue terminated since the entry check, leave as if interrupted.
Blocked(t, stuck, full, empty) ==
    /\ pc[t] = "lock" /\ stuck
    /\ \/ /\ call[t].timeout = "nowait"
          /\ Return(t, Answer("RETRY", NULL))
          /\ UNCHANGED waiters
       \/ /\ call[t].timeout # "nowait" /\ ~terminated
          /\ pc' = [pc EXCEPT ![t] = "wait"]
          /\ SetWaiters(full, empty)
          /\ UNCHANGED <<ret, call>>
       \/ /\ call[t].timeout # "nowait" /\ terminated
          /\ pc' = [pc EXCEPT ![t] = "unlocked"]
          /\ UNCHANGED <<waiters, ret, call>>
    /\ UNCHANGED <<ring, terminated, wake, ctl>>

PushBlocked(t) == Blocked(t, Full,  fullWaiters + 1, emptyWaiters)
PopBlocked(t)  == Blocked(t, Empty, fullWaiters, emptyWaiters + 1)

\* Second critical section, after cond_wait() returned: the timeout is reported
\* whatever the queue holds; a queue still full (or empty) is "interrupted".
WokenInVain(t, stuck, full, empty) ==
    /\ pc[t] = "woken"
    /\ \/ /\ wake[t] = "timeout"
          /\ Return(t, Answer("TIMEUP", NULL))
       \/ /\ wake[t] # "timeout" /\ stuck
          /\ pc' = [pc EXCEPT ![t] = "unlocked"]
          /\ UNCHANGED <<ret, call>>
    /\ SetWaiters(full, empty)
    /\ wake' = IF wake[t] = "timeout" THEN [wake EXCEPT ![t] = "none"] ELSE wake
    /\ UNCHANGED <<ring, terminated, ctl>>

PushWokenInVain(t) == WokenInVain(t, Full,  fullWaiters - 1, emptyWaiters)
PopWokenInVain(t)  == WokenInVain(t, Empty, fullWaiters, emptyWaiters - 1)

PushWoken(t) == /\ pc[t] = "woken" /\ wake[t] # "timeout" /\ ~Full
                /\ Enqueue(t)
                /\ SetWaiters(fullWaiters - 1, emptyWaiters)
                /\ UNCHANGED <<terminated, ctl>>

\* Mutant: a popper that is woken does not look at the queue again.
PopWokenTrusting(t) == /\ pc[t] = "woken" /\ wake[t] # "timeout"
                       /\ Dequeue(t)
                       /\ SetWaiters(fullWaiters, emptyWaiters - 1)
                       /\ UNCHANGED <<terminated, ctl>>

PopWoken(t) == /\ pc[t] = "woken" /\ wake[t] # "timeout" /\ ~Empty
               /\ Dequeue(t)
               /\ SetWaiters(fullWaiters, emptyWaiters - 1)
               /\ UNCHANGED <<terminated, ctl>>

\* After the unlock of an interrupted wait, "terminated" is read once more.
GiveUp(t) ==
    /\ pc[t] = "unlocked"
    /\ Return(t, Answer(IF terminated THEN "DONE" ELSE "ERROR", NULL))
    /\ wake' = [wake EXCEPT ![t] = "none"]
    /\ UNCHANGED <<ring, waiters, terminated, ctl>>

-----------------------------------------------------------------------------
\* The timeout of cond_timedwait() and a spurious wakeup.
WakeUp(t, why) == /\ pc[t] = "wait"
                  /\ pc'   = [pc EXCEPT ![t] = "woken"]
                  /\ wake' = [wake EXCEPT ![t] = why]
                  /\ UNCHANGED <<ring, waiters, terminated, call, ret, ctl>>

TimeOut(t)        == call[t].timeout = "timed" /\ WakeUp(t, "timeout")
SpuriousWakeup(t) == Spurious /\ WakeUp(t, "awake")

Broadcast ==
    /\ pc'   = [t \in Threads |-> IF pc[t] = "wait" THEN "woken" ELSE pc[t]]
    /\ wake' = [t \in Threads |-> IF pc[t] = "wait" THEN "awake" ELSE wake[t]]

\* ogs_queue_interrupt_all() called on its own.
InterruptAll == /\ ctl = "run"
                /\ Broadcast
                /\ UNCHANGED <<ring, waiters, terminated, call, ret, ctl>>

\* ogs_queue_term(): one critical section sets the flag, a second one wakes
\* everybody up.
TermSet == /\ ctl = "run"
           /\ terminated' = TRUE
           /\ ctl' = "terminating"
           /\ UNCHANGED <<ring, waiters, pc, wake, call, ret>>

\* Mutant: ogs_queue_term() wakes the poppers only.
TermInterruptPoppers ==
    /\ ctl = "terminating"
    /\ pc' = [t \in Threads |-> IF t \in NotEmptyWaiters THEN "woken" ELSE pc[t]]
    /\ wake' = [t \in Threads |-> IF t \in NotEmptyWaiters THEN "awake" ELSE wake[t]]
    /\ ctl' = "terminated"
    /\ UNCHANGED <<ring, waiters, terminated, call, ret>>

TermInterrupt == /\ ctl = "terminating"
                 /\ Broadcast
                 /\ ctl' = "terminated"
                 /\ UNCHANGED <<ring, waiters, terminated, call, ret>>

-----------------------------------------------------------------------------
\* A thread inside queue_push() or queue_pop() goes on.
PushStep(t) == PushAtOnce(t) \/ PushBlocked(t) \/ PushWokenInVain(t) \/ PushWoken(t) \/ GiveUp(t)
PopStep(t)  == PopAtOnce(t)  \/ PopBlocked(t)  \/ PopWokenInVain(t)  \/ PopWoken(t)  \/ GiveUp(t)

Next == \/ \E t \in Pushers : PushEnter(t) \/ PushStep(t)
        \/ \E t \in Poppers : PopEnter(t) \/ PopStep(t)
        \/ \E t \in Threads : TimeOut(t) \/ SpuriousWakeup(t)
        \/ InterruptAll \/ TermSet \/ TermInterrupt

Spec == Init /\ [][Next]_vars

-----------------------------------------------------------------------------
RingType ==
    /\ data \in [0 .. Bounds - 1 -> Elements \cup {NULL}]
    /\ nelts \in 0 .. Bounds
    /\ in \in 0 .. Bounds - 1 /\ out \in 0 .. Bounds - 1
    /\ fullWaiters \in Int /\ emptyWaiters \in Int

ControlType ==
    /\ terminated \in BOOLEAN
    /\ pc   \in [Threads -> {"idle", "lock", "wait", "woken", "unlocked"}]
    /\ wake \in [Threads -> {"none", "timeout", "awake"}]
    /\ ctl \in {"run", "terminating", "terminated"}

CallType ==
    /\ call \in [Threads -> [timeout : Timeouts, elem : Elements \cup {NULL}]]
    /\ ret  \in [Threads -> [rv : {"OK", "PENDING", "RETRY", "TIMEUP", "ERROR", "DONE"},
                             elem : Elements \cup {NULL}]]

(* Type invariant: the ring indices stay inside the ring, the counters and *)
(* the program counters in their domains.                                  *)
TypeOK == RingType /\ ControlType /\ CallType

\* Woken by anything but their timeout: these will look at the queue again.
Alert(S) == {t \in S : pc[t] = "woken" /\ wake[t] # "timeout"}

(* No wakeup is lost.  The counters that cond_signal() depends on count    *)
(* exactly the threads between the increment before their wait and the     *)
(* decrement after it, however that wait ended; while a popper sleeps on   *)
(* not_empty, every element in the queue has an awake popper on its way to *)
(* it; while a pusher sleeps on not_full, every free slot has a pusher.    *)
NoLostWakeup ==
    /\ fullWaiters  = Cardinality({t \in Pushers : pc[t] \in {"wait", "woken"}})
    /\ emptyWaiters = Cardinality({t \in Poppers : pc[t] \in {"wait", "woken"}})
    /\ NotEmptyWaiters # {} => nelts <= Cardinality(Alert(Poppers))
    /\ NotFullWaiters  # {} => Bounds - nelts <= Cardinality(Alert(Pushers))

(* ogs_queue_term() leaves nobody asleep, and nobody falls asleep after it *)
(* (what its comment about one_big_mutex is there to guarantee).           *)
NoSleeperAfterTerm == ctl = "terminated" => \A t \in Threads : pc[t] # "wait"

(* The contents are a FIFO: the ring implements BoundedFifo.               *)
Slot(i)  == IF out + i - 1 >= Bounds THEN out + i - 1 - Bounds ELSE out + i - 1
Contents == [i \in 1 .. nelts |-> data[Slot(i)]]

Fifo == INSTANCE BoundedFifo WITH q <- Contents, answer <- ret, Capacity <- Bounds

ImplementsFifo == Fifo!FifoSpec

=============================================================================
