------------------------------- MODULE EventLoop -------------------------------
(***************************************************************************)
(* The event loop of a control plane daemon and its termination by another *)
(* thread (written after the AUSF; the other daemons have the same loop).  *)
(*                                                                         *)
(* The loop waits in ogs_pollset_poll(), calls the socket handlers, then   *)
(* the callbacks of the expired timers, and handles events until its queue *)
(* is empty.  Handlers, callbacks and state machines push to that queue,   *)
(* with a push that blocks while it is full, and nobody else pops.         *)
(*                                                                         *)
(* When a signal arrives, the main thread ends the state machine of the    *)
(* NRF instance, starts a timer, ends the queue, wakes the loop up and     *)
(* joins it, while the loop goes on.  A failed ogs_assert() is aborted.    *)
(*                                                                         *)
(* A push and a pop are atomic, as OgsQueue shows they look to callers.  A *)
(* call into the timer tree is atomic too: nothing in the code makes it so *)
(* across the two threads.                                                 *)
(***************************************************************************)
EXTENDS Naturals, Sequences, FiniteSets

CONSTANTS InstanceTimers, \* the timers of the NRF instance
          OtherTimers,  \* those of transactions and contexts
          Holding,      \* t_termination_holding, which has no callback
          MaxRequests,  \* events that the socket handlers, of one socket or several,
                        \* push in one pass
          Capacities,   \* what pool.event may be configured to
          NULL

\* A request of a peer, a response of the NRF, what a handler sends to the
\* daemon's own state machines, and a timer.
FromSockets == {"request", "response"}
Timers == InstanceTimers \cup OtherTimers
Events == FromSockets \cup {"internal"} \cup Timers

ASSUME LoopAssumption ==
    /\ IsFiniteSet(InstanceTimers) /\ IsFiniteSet(OtherTimers)
    /\ InstanceTimers \cap OtherTimers = {} /\ Holding \notin Timers
    /\ MaxRequests \in Nat /\ Capacities \subseteq Nat \ {0}
    /\ Timers \cap (FromSockets \cup {"internal"}) = {}
    /\ NULL \notin Timers \cup FromSockets \cup {"internal", "timer", "instance"}
    /\ NULL \notin {"serve", "expire", "drain"}

VARIABLES capacity,    \* the bound of the queue
          queue,       \* the events
          terminated,  \* ogs_queue_term() has been called
          armed,       \* the timers that run
          due,         \* those whose time has come
          instance,    \* the NRF instance has its state machine and its timers
          notified,    \* ogs_pollset_notify() has been called and not seen
          loop,        \* where the loop is
          known,       \* the timers epoll_wait()'s timeout was computed from
          ready,       \* events the socket handlers still push in this pass
          expired,     \* ogs_timer_mgr_expire()'s list
          event,       \* the event pushed or handled
          resume,      \* where the loop goes on after a blocked push
          interrupted, \* the blocked push has been woken
          main,        \* where the main thread is
          aborted      \* the assertion that failed

loopVars == <<loop, known, ready, expired, event, resume, interrupted>>
vars == <<capacity, queue, terminated, armed, due, instance, notified, loopVars,
          main, aborted>>

Init == /\ capacity \in Capacities
        /\ queue = <<>> /\ terminated = FALSE
        /\ armed \in SUBSET Timers /\ due = {} /\ instance = TRUE /\ notified = FALSE
        /\ loop = "poll" /\ known = {} /\ ready = 0 /\ expired = {}
        /\ event = NULL /\ resume = NULL /\ interrupted = FALSE
        /\ main = "up" /\ aborted = NULL

Goes(from, to) == aborted = NULL /\ loop = from /\ loop' = to

Asserts(assertion, holds) ==
    IF holds THEN UNCHANGED aborted ELSE aborted' = assertion

-----------------------------------------------------------------------------
(* The loop.                                                               *)

\* Mutant: off by one.
FullLate == Len(queue) > capacity

Full == Len(queue) >= capacity

\* Mutant: a full queue that is over is waited for as well.
PushDeaf(e, next) ==
    \/ /\ ~Full
       /\ queue' = Append(queue, e) /\ loop' = next /\ UNCHANGED <<event, resume>>
    \/ /\ Full
       /\ event' = e /\ resume' = next /\ loop' = "blocked" /\ UNCHANGED queue

\* ogs_queue_push(e): the queue is over, has room, or the loop waits for room.
Push(e, next) ==
    \/ terminated /\ loop' = next /\ UNCHANGED <<queue, event, resume>>
    \/ /\ ~terminated /\ ~Full
       /\ queue' = Append(queue, e) /\ loop' = next /\ UNCHANGED <<event, resume>>
    \/ /\ ~terminated /\ Full
       /\ event' = e /\ resume' = next /\ loop' = "blocked" /\ UNCHANGED queue

\* ogs_timer_mgr_next() and epoll_wait().
Poll == /\ Goes("poll", "wait")
        /\ known' = armed
        /\ UNCHANGED <<capacity, queue, terminated, armed, due, instance, notified, ready,
                       expired, event, resume, interrupted, main>>
        /\ UNCHANGED aborted

Wakes(n) == /\ Goes("wait", "serve")
            /\ ready' = n /\ notified' = FALSE
            /\ UNCHANGED <<capacity, queue, terminated, armed, due, instance, known,
                           expired, event, resume, interrupted, main, aborted>>

\* The timeout of a timer that ran when the wait began.
WakeByTimeout == /\ \E t \in known : t \in due \/ t \notin armed
                 /\ \E n \in 0..MaxRequests : Wakes(n)

WakeByNotify == notified /\ \E n \in 0..MaxRequests : Wakes(n)

WakeBySocket == \E n \in 1..MaxRequests : Wakes(n)

\* A handler of the pollset pushes an event.
Serve == /\ aborted = NULL /\ loop = "serve" /\ ready > 0
         /\ ready' = ready - 1
         /\ \E e \in FromSockets : Push(e, "serve")
         /\ UNCHANGED <<capacity, terminated, armed, due, instance, notified, known,
                        expired, interrupted, main, aborted>>

\* ogs_timer_mgr_expire() collects the expired timers.
Collect == /\ Goes("serve", "expire")
           /\ ready = 0
           /\ expired' = due
           /\ UNCHANGED <<capacity, queue, terminated, armed, due, instance, notified,
                          known, ready, event, resume, interrupted, main, aborted>>

\* It stops each of them, which must exist, and calls it back.
Expire(t) ==
    /\ aborted = NULL /\ loop = "expire" /\ t \in expired
    /\ expired' = expired \ {t}
    /\ armed' = armed \ {t} /\ due' = due \ {t}
    /\ Asserts("timer", t \in InstanceTimers => instance)
    /\ IF t = Holding THEN UNCHANGED <<queue, event, resume, loop>> ELSE Push(t, "expire")
    /\ UNCHANGED <<capacity, terminated, instance, notified, known, ready, interrupted, main>>

Expired == /\ Goes("expire", "drain")
           /\ expired = {}
           /\ UNCHANGED <<capacity, queue, terminated, armed, due, instance, notified,
                          known, ready, expired, event, resume, interrupted, main, aborted>>

\* Mutant: one event is handled in a pass.
TrypopOnce ==
    /\ aborted = NULL /\ loop = "drain"
    /\ \/ terminated /\ loop' = "done" /\ UNCHANGED <<queue, event>>
       \/ ~terminated /\ (queue = <<>> \/ event # NULL) /\ loop' = "poll"
          /\ event' = NULL /\ UNCHANGED queue
       \/ /\ ~terminated /\ queue # <<>> /\ event = NULL
          /\ event' = Head(queue) /\ queue' = Tail(queue) /\ loop' = "handle"
    /\ UNCHANGED <<capacity, terminated, armed, due, instance, notified, known, ready,
                   expired, resume, interrupted, main, aborted>>

\* ogs_queue_trypop(): the queue is over, empty, or gives its oldest event.
Trypop ==
    /\ aborted = NULL /\ loop = "drain"
    /\ \/ terminated /\ loop' = "done" /\ UNCHANGED <<queue, event>>
       \/ ~terminated /\ queue = <<>> /\ loop' = "poll" /\ UNCHANGED <<queue, event>>
       \/ /\ ~terminated /\ queue # <<>>
          /\ event' = Head(queue) /\ queue' = Tail(queue) /\ loop' = "handle"
    /\ UNCHANGED <<capacity, terminated, armed, due, instance, notified, known, ready,
                   expired, resume, interrupted, main, aborted>>

\* What a handler does to the timers of T: it stops and starts some of them.
Restart(T) == /\ \E S \in SUBSET T : armed' = (armed \ T) \cup S
              /\ due' = due \ T

\* ogs_fsm_dispatch(): a request may send one event to another state machine of
\* the daemon (ngap_send_to_nas()); a timer or a response of the NRF needs the
\* instance and its state.
Handle ==
    /\ aborted = NULL /\ loop = "handle"
    /\ Asserts("instance", event \in InstanceTimers \cup {"response"} => instance)
    /\ \/ event = "request" /\ Push("internal", "drain")
       \/ loop' = "drain" /\ UNCHANGED <<queue, event, resume>>
    /\ \/ UNCHANGED <<armed, due>>
       \/ event \in InstanceTimers \cup {"response"} /\ instance /\ Restart(InstanceTimers)
       \/ event \notin InstanceTimers /\ Restart(OtherTimers)
    /\ UNCHANGED <<capacity, terminated, instance, notified, known, ready, expired,
                   interrupted, main>>

\* The blocked push returns, interrupted or woken by nothing: nobody else pops, the
\* queue is still full or over, and the event is freed.
Unblock ==
    /\ aborted = NULL /\ loop = "blocked"
    /\ loop' = resume /\ interrupted' = FALSE
    /\ UNCHANGED <<capacity, queue, terminated, armed, due, instance, notified, known, ready,
                   expired, event, resume, main, aborted>>

Woken == interrupted /\ Unblock

LoopSteps == \/ Poll \/ WakeByTimeout \/ WakeByNotify \/ Serve \/ Collect
             \/ (\E t \in Timers \cup {Holding} : Expire(t))
             \/ Expired \/ Trypop \/ Handle \/ Woken

-----------------------------------------------------------------------------
(* Time, and the main thread: event_termination() and ogs_thread_destroy().  *)

Elapse(t) == /\ aborted = NULL /\ t \in armed \ due
             /\ due' = due \cup {t}
             /\ UNCHANGED <<capacity, queue, terminated, armed, instance, notified,
                            loopVars, main, aborted>>

Steps(from, to) == /\ aborted = NULL /\ main = from /\ main' = to
                   /\ UNCHANGED <<capacity, aborted>>

Signal == /\ Steps("up", "fini")
          /\ UNCHANGED <<queue, terminated, armed, due, instance, notified, loopVars>>

\* ogs_sbi_nf_fsm_fini() deletes the timers and the state.
FsmFini == /\ Steps("fini", "hold")
           /\ instance' = FALSE /\ armed' = armed \ InstanceTimers
           /\ due' = due \ InstanceTimers
           /\ UNCHANGED <<queue, terminated, notified, loopVars>>

StartHolding == /\ Steps("hold", "term")
                /\ armed' = armed \cup {Holding}
                /\ UNCHANGED <<queue, terminated, due, instance, notified, loopVars>>

\* ogs_queue_term(): the flag, then ogs_queue_interrupt_all().
QueueTerm == /\ Steps("term", "interrupt")
             /\ terminated' = TRUE
             /\ UNCHANGED <<queue, armed, due, instance, notified, loopVars>>

\* Mutant: the threads that wait are not woken.
InterruptNobody ==
    /\ Steps("interrupt", "notify")
    /\ UNCHANGED <<queue, terminated, armed, due, instance, notified, loopVars>>

InterruptAll == /\ Steps("interrupt", "notify")
                /\ interrupted' = (loop = "blocked")
                /\ UNCHANGED <<queue, terminated, armed, due, instance, notified, loop,
                               known, ready, expired, event, resume>>

Notify == /\ Steps("notify", "join")
          /\ notified' = TRUE
          /\ UNCHANGED <<queue, terminated, armed, due, instance, loopVars>>

\* The thread is joined, and the holding timer deleted.
Join == /\ Steps("join", "end")
        /\ loop = "done"
        /\ armed' = armed \ {Holding} /\ due' = due \ {Holding}
        /\ UNCHANGED <<queue, terminated, instance, notified, loopVars>>

MainSteps == FsmFini \/ StartHolding \/ QueueTerm \/ InterruptAll \/ Notify \/ Join

Next == \/ LoopSteps \/ WakeBySocket \/ Unblock
        \/ MainSteps \/ Signal
        \/ \E t \in Timers \cup {Holding} : Elapse(t)

Spec == Init /\ [][Next]_vars

\* Both threads are scheduled and time passes; sockets, signals and interruptions
\* come or not.
FairSpec == /\ Spec /\ WF_vars(LoopSteps) /\ WF_vars(MainSteps)
            /\ \A t \in Timers \cup {Holding} : WF_vars(Elapse(t))

-----------------------------------------------------------------------------
\* Types, and a queue within its bound; a timer that is due runs.
TypeOK ==
    /\ capacity \in Capacities
    /\ queue \in Seq(Events) /\ Len(queue) <= capacity
    /\ terminated \in BOOLEAN /\ instance \in BOOLEAN /\ notified \in BOOLEAN
    /\ armed \in SUBSET (Timers \cup {Holding}) /\ due \in SUBSET armed
    /\ loop \in {"poll", "wait", "serve", "expire", "drain", "handle", "blocked", "done"}
    /\ known \in SUBSET (Timers \cup {Holding}) /\ ready \in 0..MaxRequests
    /\ expired \in SUBSET (Timers \cup {Holding})
    /\ event \in Events \cup {NULL} /\ resume \in {"serve", "expire", "drain", NULL}
    /\ interrupted \in BOOLEAN
    /\ main \in {"up", "fini", "hold", "term", "interrupt", "notify", "join", "end"}
    /\ aborted \in {NULL, "timer", "instance"}

\* The loop reaches the end of its queue, whatever sockets, timers and handlers push
\* meanwhile: events are left only while it waits, for ever if no signal comes, for
\* room in the queue that nobody else empties, or by an end of the daemon.
Handled ==
    queue # <<>> ~> queue = <<>> \/ loop = "blocked" \/ terminated \/ aborted # NULL

\* Once the main thread waits for the loop's thread, that is not left asleep: a loop in
\* epoll_wait(), or about to be, has been notified, and one that waits for room in its
\* full queue has been interrupted.
SignalHeard ==
    /\ main \in {"join", "end"} /\ loop \in {"poll", "wait"} => notified
    /\ main \in {"notify", "join", "end"} /\ loop = "blocked" => interrupted

\* A signal ends the daemon, wherever the loop is: asleep without a timeout, blocked
\* on its own queue or in a handler.
Terminates == main = "fini" ~> main = "end" \/ aborted # NULL

=============================================================================
