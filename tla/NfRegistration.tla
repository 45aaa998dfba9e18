--------------------------- MODULE NfRegistration ---------------------------
(***************************************************************************)
(* Registration of network functions with the NRF: the NF's state machine  *)
(* for its NRF (lib/sbi/nf-sm.c), and the NRF's for its NFs (src/nrf/      *)
(* nrf-sm.c, nf-sm.c, nnrf-handler.c).  An NF registers with PUT, sends    *)
(* heartbeats with PATCH, and leaves with DELETE; the NRF forgets an NF    *)
(* without heartbeats.  An NF takes a new id whenever it starts, so a      *)
(* restarted NF is another member of NFs.                                  *)
(*                                                                         *)
(* Both are event loops: in one turn the messages that arrived are queued, *)
(* then the events of all the timers that expired, then all are handled.   *)
(* A timer's event may thus be handled after a message that stopped or     *)
(* restarted the timer.  HTTP answers carry no trace of the method they    *)
(* answer by the time the state machine sees them.  Requests of an NF may  *)
(* travel on several connections and be reordered; what does not arrive    *)
(* before the deadline of its connection is lost.                          *)
(***************************************************************************)
EXTENDS Naturals, FiniteSets

CONSTANTS NFs,           \* network functions
          Slots,         \* places of the NRF's pool of NF instances
          MaxInFlight,   \* bound: requests and answers of one NF in flight
          MaxFailures,   \* bound: crashes of NFs, and of the NRF
          CanHeal,       \* whether the network ever heals: liveness needs it
          NULL

ASSUME RegistrationAssumption ==
    /\ NULL \notin NFs /\ NFs \cap Slots = {}
    /\ MaxInFlight \in Nat \ {0} /\ MaxFailures \in Nat
    /\ CanHeal \in BOOLEAN

Methods  == {"PUT", "PATCH", "DELETE"}
Statuses == {"created", "ok", "no_content", "not_found", "no_space"}
Timers   == {"registration", "heartbeat", "no_heartbeat"}

VARIABLES
    state,      \* n's state machine for the NRF; "off" before n starts, "dead"
                \* after it stopped
    timers,     \* n's timers that run
    due,        \* n's timers whose event is in n's queue
    requests,   \* requests[n][m]: how many of n's requests m are in flight
    answers,    \* answers[n][s]: how many answers s to n are in flight
    slot,       \* the NF registered in a slot of the NRF's pool, or NULL
    armed,      \* slots whose t_no_heartbeat runs
    overdue,    \* slots the event of whose t_no_heartbeat is in the NRF's queue
    up,         \* whether the NRF runs
    healed,     \* no failure and no loss from here on
    fresh,      \* the NFs and slots whose no-heartbeat timer started after that
    failures,
    misused     \* whether the NRF used an instance it had removed

nfVars  == <<state, timers, due>>
netVars == <<requests, answers>>
nrfVars == <<slot, armed, overdue>>
vars    == <<nfVars, netVars, nrfVars, up, healed, fresh, failures, misused>>

Alive(n) == state[n] \notin {"off", "dead"}

SlotsOf(n) == {s \in Slots : slot[s] = n}
Known(n)   == SlotsOf(n) # {}

None(kinds) == [k \in kinds |-> 0]

InFlight(n) ==
    LET r == requests[n]
        a == answers[n]
    IN  r["PUT"] + r["PATCH"] + r["DELETE"] + a["created"] + a["ok"]
          + a["no_content"] + a["not_found"] + a["no_space"]

\* n sends the requests ms, at once.
Send(n, ms) == requests' = [requests EXCEPT ![n] =
                              [m \in Methods |-> @[m] + (IF m \in ms THEN 1 ELSE 0)]]

Room(n, ms) == InFlight(n) + Cardinality(ms) <= MaxInFlight

-----------------------------------------------------------------------------
Init ==
    /\ state    = [n \in NFs |-> "off"]
    /\ timers   = [n \in NFs |-> {}]
    /\ due      = [n \in NFs |-> {}]
    /\ requests = [n \in NFs |-> None(Methods)]
    /\ answers  = [n \in NFs |-> None(Statuses)]
    /\ slot     = [s \in Slots |-> NULL]
    /\ armed    = {}
    /\ overdue  = {}
    /\ up       = TRUE
    /\ healed   = FALSE
    /\ fresh    = {}
    /\ failures = 0
    /\ misused  = FALSE

\* The state machine of n goes to another state: the timers of the state it
\* leaves stop, those of the new one start.
TimersOf(to) == CASE to = "will_register" -> {"registration"}
                  [] to = "registered"    -> {"heartbeat", "no_heartbeat"}
                  [] to = "exception"     -> {"registration"}
                  [] to = "dead"          -> {}

Freshened(x) == IF healed THEN fresh \cup {x} ELSE fresh

\* Mutant: the retry timer of the exception state does not start.
EnterSilently(n, to) ==
    /\ state'  = [state  EXCEPT ![n] = to]
    /\ timers' = [timers EXCEPT ![n] = IF to = "exception" THEN {} ELSE TimersOf(to)]
    /\ fresh'  = IF to = "registered" THEN Freshened(n) ELSE fresh \ {n}

Enter(n, to) ==
    /\ state'  = [state  EXCEPT ![n] = to]
    /\ timers' = [timers EXCEPT ![n] = TimersOf(to)]
    /\ fresh'  = IF to = "registered" THEN Freshened(n) ELSE fresh \ {n}

\* ogs_sbi_nf_fsm_init().
Start(n) ==
    /\ state[n] = "off" /\ ~healed
    /\ Enter(n, "will_register") /\ Send(n, {"PUT"})
    /\ UNCHANGED <<due, answers, nrfVars, up, healed, failures, misused>>

\* event_termination(): ogs_sbi_nf_fsm_fini() leaves the state, which sends a
\* DELETE from "registered"; the queue is not handled to its end.
Stop(n) ==
    /\ Alive(n) /\ ~healed
    /\ Enter(n, "dead")
    /\ due'     = [due EXCEPT ![n] = {}]
    /\ answers' = [answers EXCEPT ![n] = None(Statuses)]
    /\ IF state[n] = "registered"
         THEN Room(n, {"DELETE"}) /\ Send(n, {"DELETE"})
         ELSE requests' = requests
    /\ UNCHANGED <<nrfVars, up, healed, failures, misused>>

Crash(n) ==
    /\ Alive(n) /\ ~healed /\ failures < MaxFailures
    /\ failures' = failures + 1
    /\ Enter(n, "dead")
    /\ due'     = [due EXCEPT ![n] = {}]
    /\ answers' = [answers EXCEPT ![n] = None(Statuses)]
    /\ UNCHANGED <<requests, nrfVars, up, healed, misused>>

-----------------------------------------------------------------------------
\* On a healed network an exchange is over long before the intervals of two seconds
\* and more, and an answered heartbeat comes before no_heartbeat expires, which
\* waits for no_heartbeat_margin longer than the interval of the heartbeats.
MayExpire(n, t) ==
    healed => CASE t = "registration" -> InFlight(n) = 0
                [] t = "heartbeat"    -> InFlight(n) = 0
                [] t = "no_heartbeat" -> n \notin fresh \/ ~up

\* ogs_timer_mgr_expire() in n's loop: the events of the timers that expired are
\* queued, and handled before the next turn.
Expire(n) ==
    /\ Alive(n) /\ due[n] = {}
    /\ \E ts \in SUBSET timers[n] \ {{}} :
         /\ \A t \in ts : MayExpire(n, t)
         /\ due'    = [due    EXCEPT ![n] = ts]
         /\ timers' = [timers EXCEPT ![n] = @ \ ts]
    /\ UNCHANGED <<state, netVars, nrfVars, up, healed, fresh, failures, misused>>

Handled(n, t) == t \in due[n] /\ due' = [due EXCEPT ![n] = @ \ {t}]

\* "Retry to registration with NRF".
RetryRegistration(n) ==
    /\ state[n] \in {"will_register", "exception"}
    /\ Room(n, {"PUT"})
    /\ Handled(n, "registration")
    /\ Enter(n, "will_register") /\ Send(n, {"PUT"})
    /\ UNCHANGED <<answers, nrfVars, up, healed, failures, misused>>

Heartbeat(n) ==
    /\ state[n] = "registered"
    /\ Room(n, {"PATCH"})
    /\ Handled(n, "heartbeat")
    /\ timers' = [timers EXCEPT ![n] = @ \cup {"heartbeat"}]
    /\ Send(n, {"PATCH"})
    /\ UNCHANGED <<state, answers, nrfVars, up, healed, fresh, failures, misused>>

\* "No heartbeat": leaving the state de-registers, entering the next registers.
NoHeartbeat(n) ==
    /\ state[n] = "registered"
    /\ Room(n, {"DELETE", "PUT"})
    /\ Handled(n, "no_heartbeat")
    /\ Enter(n, "will_register") /\ Send(n, {"DELETE", "PUT"})
    /\ UNCHANGED <<answers, nrfVars, up, healed, failures, misused>>

\* "Unknown timer": the event of a timer of another state.
IgnoreTimer(n, t) ==
    /\ Alive(n)
    /\ t = "registration" <=> state[n] = "registered"
    /\ Handled(n, t)
    /\ UNCHANGED <<state, timers, netVars, nrfVars, up, healed, fresh, failures, misused>>

HandleTimer(n) == \/ RetryRegistration(n) \/ Heartbeat(n) \/ NoHeartbeat(n)
                  \/ \E t \in Timers : IgnoreTimer(n, t)

-----------------------------------------------------------------------------
\* An answer reaches n's state machine.
Taken(n, s) == answers[n][s] > 0 /\ answers' = [answers EXCEPT ![n][s] = @ - 1]

AnswerWhileRegistering(n, s) ==
    /\ state[n] = "will_register" /\ Taken(n, s)
    /\ Enter(n, IF s \in {"created", "ok"} THEN "registered" ELSE "exception")
    /\ UNCHANGED <<due, requests, nrfVars, up, healed, failures, misused>>

\* Mutant: any answer shows that the NRF is there.
AnswerWhileRegisteredTrusting(n, s) ==
    /\ state[n] = "registered" /\ Taken(n, s)
    /\ timers' = [timers EXCEPT ![n] = @ \cup {"no_heartbeat"}]
    /\ fresh'  = Freshened(n)
    /\ state' = state
    /\ UNCHANGED <<due, requests, nrfVars, up, healed, failures, misused>>

AnswerWhileRegistered(n, s) ==
    /\ state[n] = "registered" /\ Taken(n, s)
    /\ IF s \in {"no_content", "ok"}
         THEN /\ timers' = [timers EXCEPT ![n] = @ \cup {"no_heartbeat"}]
              /\ fresh'  = Freshened(n)
              /\ state' = state
         ELSE Enter(n, "exception")
    /\ UNCHANGED <<due, requests, nrfVars, up, healed, failures, misused>>

AnswerInException(n, s) ==
    /\ state[n] = "exception" /\ Taken(n, s)
    /\ UNCHANGED <<nfVars, requests, nrfVars, up, healed, fresh, failures, misused>>

Answer(n) == \E s \in Statuses : \/ AnswerWhileRegistering(n, s)
                                 \/ AnswerWhileRegistered(n, s)
                                 \/ AnswerInException(n, s)

-----------------------------------------------------------------------------
\* The NRF takes a request of n; its answer goes nowhere if n is dead.
Received(n, m) == up /\ requests[n][m] > 0 /\ requests' = [requests EXCEPT ![n][m] = @ - 1]

\* Mutant: the handler answers, and so does its caller.
ReplyTwice(n, s) == answers' = IF Alive(n) THEN [answers EXCEPT ![n][s] = @ + 2] ELSE answers

Reply(n, s) == answers' = IF Alive(n) THEN [answers EXCEPT ![n][s] = @ + 1] ELSE answers

RestartTimer(s) == armed' = armed \cup {s} /\ fresh' = Freshened(s)

\* Mutant: an instance is added without its no-heartbeat timer.
RegisterUntimed(n) ==
    /\ Received(n, "PUT") /\ ~Known(n)
    /\ \E s \in Slots :
         /\ slot[s] = NULL /\ slot' = [slot EXCEPT ![s] = n]
         /\ Reply(n, "created")
    /\ UNCHANGED <<nfVars, armed, fresh, overdue, up, healed, failures, misused>>

\* A new NF: an instance is added, unless the pool is exhausted.
Register(n) ==
    /\ Received(n, "PUT") /\ ~Known(n)
    /\ \/ /\ \A s \in Slots : slot[s] # NULL
          /\ Reply(n, "no_space")
          /\ UNCHANGED <<slot, armed, fresh>>
       \/ \E s \in Slots :
            /\ slot[s] = NULL /\ slot' = [slot EXCEPT ![s] = n]
            /\ armed' = armed \cup {s} /\ fresh' = Freshened(s)
            /\ Reply(n, "created")
    /\ UNCHANGED <<nfVars, overdue, up, healed, failures, misused>>

\* A registered NF registers again, or sends a heartbeat.
Update(n, m) ==
    /\ m \in {"PUT", "PATCH"} /\ Received(n, m)
    /\ \E s \in SlotsOf(n) : RestartTimer(s)
    /\ Reply(n, IF m = "PUT" THEN "ok" ELSE "no_content")
    /\ UNCHANGED <<nfVars, slot, overdue, up, healed, failures, misused>>

\* The state machine's fini and ogs_sbi_nf_instance_remove().
Remove(s) == /\ slot'  = [slot EXCEPT ![s] = NULL]
             /\ armed' = armed \ {s}
             /\ fresh' = fresh \ {s}

Deregister(n) ==
    /\ Received(n, "DELETE")
    /\ \E s \in SlotsOf(n) : Remove(s)
    /\ Reply(n, "no_content")
    /\ UNCHANGED <<nfVars, overdue, up, healed, failures, misused>>

NotFound(n, m) ==
    /\ m \in {"PATCH", "DELETE"} /\ Received(n, m) /\ ~Known(n)
    /\ Reply(n, "not_found")
    /\ UNCHANGED <<nfVars, nrfVars, up, healed, fresh, failures, misused>>

Serve(n) == \/ Register(n) \/ Deregister(n)
            \/ \E m \in Methods : Update(n, m) \/ NotFound(n, m)

\* The no-heartbeat timer of an instance: on a healed network an NF that runs is
\* heard of more often, if only with a retry of its registration.
ExpireInstance ==
    /\ up /\ overdue = {}
    /\ \E ss \in SUBSET armed \ {{}} :
         /\ healed => \A s \in ss : ~(s \in fresh /\ Alive(slot[s]))
         /\ overdue' = ss
         /\ armed'   = armed \ ss
    /\ UNCHANGED <<nfVars, netVars, slot, up, healed, fresh, failures, misused>>

\* The NRF stops: its instances, its events and its connections are gone.
NrfGone ==
    /\ up'      = FALSE
    /\ slot'    = [s \in Slots |-> NULL]
    /\ armed'   = {}
    /\ overdue' = {}
    /\ fresh'   = fresh \ Slots

\* NRF_TIMER_NF_INSTANCE_NO_HEARTBEAT: what the pointer in the event points to is
\* removed.  If that is no instance any more it is freed twice, which ends the
\* NRF.
ForgetInstance(s) ==
    /\ s \in overdue
    /\ \/ /\ slot[s] # NULL
          /\ Remove(s) /\ overdue' = overdue \ {s}
          /\ UNCHANGED <<up, misused>>
       \/ /\ slot[s] = NULL
          /\ NrfGone /\ misused' = TRUE
    /\ UNCHANGED <<nfVars, netVars, healed, failures>>

NrfCrash ==
    /\ up /\ ~healed /\ failures < MaxFailures
    /\ failures' = failures + 1
    /\ NrfGone
    /\ UNCHANGED <<nfVars, netVars, healed, misused>>

NrfStart ==
    /\ ~up /\ up' = TRUE
    /\ UNCHANGED <<nfVars, netVars, nrfVars, healed, fresh, failures, misused>>

-----------------------------------------------------------------------------
\* A request is not answered before the deadline of its connection, or it or its
\* answer does not arrive.
LoseRequest(n) ==
    /\ ~healed \/ ~up
    /\ \E m \in Methods : /\ requests[n][m] > 0
                          /\ requests' = [requests EXCEPT ![n][m] = @ - 1]
    /\ UNCHANGED <<nfVars, answers, nrfVars, up, healed, fresh, failures, misused>>

LoseAnswer(n) ==
    /\ ~healed
    /\ \E s \in Statuses : Taken(n, s)
    /\ UNCHANGED <<nfVars, requests, nrfVars, up, healed, fresh, failures, misused>>

Heal ==
    /\ CanHeal /\ ~healed /\ healed' = TRUE
    /\ UNCHANGED <<nfVars, netVars, nrfVars, up, fresh, failures, misused>>

Next ==
    \/ \E n \in NFs : \/ Start(n) \/ Stop(n) \/ Crash(n)
                      \/ Expire(n) \/ HandleTimer(n) \/ Answer(n)
                      \/ Serve(n) \/ LoseRequest(n) \/ LoseAnswer(n)
    \/ ExpireInstance
    \/ \E s \in Slots : ForgetInstance(s)
    \/ NrfCrash \/ NrfStart \/ Heal

Spec == Init /\ [][Next]_vars

\* Loops run, timers fire, and what is in flight arrives or is given up.
Fairness ==
    /\ \A n \in NFs : /\ WF_vars(Expire(n)) /\ WF_vars(HandleTimer(n))
                      /\ WF_vars(Answer(n)) /\ WF_vars(Serve(n)) /\ WF_vars(LoseRequest(n))
    /\ WF_vars(ExpireInstance)
    /\ \A s \in Slots : WF_vars(ForgetInstance(s))

FairSpec == Spec /\ Fairness

-----------------------------------------------------------------------------
TypeOK ==
    /\ state    \in [NFs -> {"off", "will_register", "registered", "exception", "dead"}]
    /\ timers   \in [NFs -> SUBSET Timers]
    /\ due      \in [NFs -> SUBSET Timers]
    /\ requests \in [NFs -> [Methods -> 0 .. MaxInFlight]]
    /\ answers  \in [NFs -> [Statuses -> 0 .. MaxInFlight]]
    /\ slot     \in [Slots -> NFs \cup {NULL}]
    /\ armed \subseteq Slots /\ overdue \subseteq Slots /\ fresh \subseteq NFs \cup Slots
    /\ {up, healed, misused} \subseteq BOOLEAN
    /\ failures \in 0 .. MaxFailures

(* An NF that runs will try again, or ask again whether the NRF is there,  *)
(* and an instance in the NRF is never without the timer that will remove  *)
(* it, its event included.                                                 *)
NeverIdle ==
    /\ \A n \in NFs : Alive(n) =>
        IF state[n] = "registered"
          THEN {"heartbeat", "no_heartbeat"} \subseteq timers[n] \cup due[n]
          ELSE "registration" \in timers[n] \cup due[n]
    /\ \A s \in Slots : slot[s] # NULL => s \in armed \cup overdue

(* The NRF forgets an NF that is dead, for good.                           *)
DeadForgotten == \A n \in NFs : state[n] = "dead" ~> [](~Known(n))

Healthy == healed /\ up

Registered(n) == state[n] = "registered" /\ Known(n)

(* Once the network has healed every NF that runs ends up registered, and  *)
(* the NRF and the NF agree on it for good, whatever requests crossed      *)
(* before.                                                                 *)
Agreement == <>[]Healthy => <>[](\A n \in NFs : Alive(n) => Registered(n))

=============================================================================
