------------------------ MODULE NfRegistration_proofs ------------------------
(***************************************************************************)
(* Nobody waits for ever: NeverIdle is inductive once the parts of the     *)
(* state it reads have their types.  The counts of messages in flight do   *)
(* not matter to it, so it holds for any number of them.  The second half  *)
(* proves the types, for which those counts do matter.                     *)
(***************************************************************************)
EXTENDS NfRegistration, FiniteSetTheorems, TLAPS

States == {"off", "will_register", "registered", "exception", "dead"}

\* The state machines, and the pool of the NRF.
Typed == /\ state \in [NFs -> States] /\ timers \in [NFs -> SUBSET Timers]
         /\ due \in [NFs -> SUBSET Timers]
         /\ slot \in [Slots -> NFs \cup {NULL}]

Needed(n) == IF state[n] = "registered" THEN {"heartbeat", "no_heartbeat"}
                                        ELSE {"registration"}

\* The two halves of NeverIdle.
NfTries(n) == Alive(n) => Needed(n) \subseteq timers[n] \cup due[n]
InstanceTimed(s) == slot[s] # NULL => s \in armed \cup overdue

Tries  == \A n \in NFs : NfTries(n)
Timed  == \A s \in Slots : InstanceTimed(s)

IInv == Typed /\ Tries /\ Timed

\* The two halves are NeverIdle.
LEMMA HalvesAreWhole == IInv => NeverIdle
  BY DEF IInv, Tries, Timed, NfTries, InstanceTimed, Needed, NeverIdle

LEMMA InitInv == Init => IInv
  BY DEF Init, IInv, Typed, States, Tries, Timed, NfTries, InstanceTimed, Alive

-----------------------------------------------------------------------------
\* A step that leaves the machines and timers of the NFs alone.
LEMMA TriesFrame == ASSUME IInv, UNCHANGED nfVars PROVE Tries'
  BY DEF IInv, Tries, NfTries, Needed, Alive, nfVars

\* A step that leaves the NRF's pool and timers alone.
LEMMA TimedFrame == ASSUME IInv, UNCHANGED nrfVars PROVE Timed'
  BY DEF IInv, Timed, InstanceTimed, nrfVars

\* The timers of the state a machine enters are those it needs there.
LEMMA EnterTries ==
    ASSUME IInv, NEW n \in NFs, NEW to \in States \ {"off"}, Enter(n, to),
           due' \in [NFs -> SUBSET Timers],
           \A m \in NFs : m # n => due'[m] = due[m]
    PROVE  /\ state' \in [NFs -> States] /\ timers' \in [NFs -> SUBSET Timers]
           /\ Tries'
<1>1. TimersOf(to) \subseteq Timers
  BY DEF TimersOf, Timers, States
<1>2. state' \in [NFs -> States] /\ timers' \in [NFs -> SUBSET Timers]
  BY <1>1 DEF IInv, Typed, Enter
<1>3. NfTries(n)'
  BY DEF IInv, Typed, Enter, NfTries, Needed, Alive, TimersOf, States
<1>4. ASSUME NEW m \in NFs, m # n PROVE NfTries(m)'
  BY <1>4 DEF IInv, Typed, Enter, Tries, NfTries, Needed, Alive
<1>5. QED
  BY <1>2, <1>3, <1>4 DEF Tries

\* An action of an NF that enters a state and touches nothing of the NRF.
LEMMA EnterInv ==
    ASSUME IInv, NEW n \in NFs, NEW to \in States \ {"off"}, Enter(n, to),
           due' \in [NFs -> SUBSET Timers],
           \A m \in NFs : m # n => due'[m] = due[m], UNCHANGED nrfVars
    PROVE  IInv'
<1>1. state' \in [NFs -> States] /\ timers' \in [NFs -> SUBSET Timers] /\ Tries'
  BY EnterTries
<1>2. Timed' /\ slot' \in [Slots -> NFs \cup {NULL}]
  BY TimedFrame DEF IInv, Typed, nrfVars
<1>3. QED
  BY <1>1, <1>2 DEF IInv, Typed

-----------------------------------------------------------------------------
(* The NF.                                                                 *)

\* What Handled leaves of the queued events.
LEMMA HandledDue ==
    ASSUME IInv, NEW n \in NFs, NEW t, Handled(n, t)
    PROVE  /\ due' \in [NFs -> SUBSET Timers] /\ due'[n] = due[n] \ {t}
           /\ \A m \in NFs : m # n => due'[m] = due[m]
  BY DEF IInv, Typed, Handled

\* Starting, stopping and crashing.
LEMMA LifeInv == ASSUME IInv, NEW n \in NFs, Start(n) \/ Stop(n) \/ Crash(n) PROVE IInv'
<1>1. CASE Start(n)
  <2>1. /\ Enter(n, "will_register") /\ due' = due /\ UNCHANGED nrfVars
    BY <1>1 DEF Start
  <2>2. QED
    BY <2>1, EnterInv DEF States, IInv, Typed
<1>2. CASE Stop(n) \/ Crash(n)
  <2>1. /\ Enter(n, "dead") /\ due' = [due EXCEPT ![n] = {}] /\ UNCHANGED nrfVars
    BY <1>2 DEF Stop, Crash
  <2>2. /\ due' \in [NFs -> SUBSET Timers] /\ \A m \in NFs : m # n => due'[m] = due[m]
    BY <2>1 DEF IInv, Typed
  <2>3. QED
    BY <2>1, <2>2, EnterInv DEF States
<1>3. QED
  BY <1>1, <1>2

\* A timer that expires becomes a queued event.
LEMMA ExpireInv == ASSUME IInv, NEW n \in NFs, Expire(n) PROVE IInv'
<1>1. PICK ts \in SUBSET timers[n] : /\ due' = [due EXCEPT ![n] = ts]
                                     /\ timers' = [timers EXCEPT ![n] = @ \ ts]
  BY DEF Expire
<1>2. state' = state /\ UNCHANGED nrfVars
  BY DEF Expire
<1>3. due[n] = {}
  BY DEF Expire
<1>4. Typed'
  BY <1>1, <1>2 DEF IInv, Typed, nrfVars
<1>5. NfTries(n)'
  BY <1>1, <1>2, <1>3 DEF IInv, Typed, Tries, NfTries, Needed, Alive
<1>6. ASSUME NEW m \in NFs, m # n PROVE NfTries(m)'
  BY <1>1, <1>2, <1>6 DEF IInv, Typed, Tries, NfTries, Needed, Alive
<1>7. QED
  BY <1>2, <1>4, <1>5, <1>6, TimedFrame DEF IInv, Tries

\* A handled timer restarts, makes the machine enter a state, or is one the state
\* does not need.
LEMMA HandleTimerInv == ASSUME IInv, NEW n \in NFs, HandleTimer(n) PROVE IInv'
<1>1. CASE RetryRegistration(n)
  <2>1. /\ Enter(n, "will_register") /\ Handled(n, "registration") /\ UNCHANGED nrfVars
    BY <1>1 DEF RetryRegistration
  <2>2. QED
    BY <2>1, HandledDue, EnterInv DEF States
<1>2. CASE NoHeartbeat(n)
  <2>1. /\ Enter(n, "will_register") /\ Handled(n, "no_heartbeat") /\ UNCHANGED nrfVars
    BY <1>2 DEF NoHeartbeat
  <2>2. QED
    BY <2>1, HandledDue, EnterInv DEF States
<1>3. CASE Heartbeat(n)
  <2>1. /\ state' = state /\ Handled(n, "heartbeat") /\ UNCHANGED nrfVars
        /\ timers' = [timers EXCEPT ![n] = @ \cup {"heartbeat"}] /\ state[n] = "registered"
    BY <1>3 DEF Heartbeat
  <2>2. /\ due' \in [NFs -> SUBSET Timers] /\ due'[n] = due[n] \ {"heartbeat"}
        /\ \A m \in NFs : m # n => due'[m] = due[m]
    BY <2>1, HandledDue
  <2>3. Typed'
    BY <2>1, <2>2 DEF IInv, Typed, nrfVars, Timers
  <2>4. NfTries(n)'
    BY <2>1, <2>2 DEF IInv, Typed, Tries, NfTries, Needed, Alive
  <2>5. ASSUME NEW m \in NFs, m # n PROVE NfTries(m)'
    BY <2>1, <2>2, <2>5 DEF IInv, Typed, Tries, NfTries, Needed, Alive
  <2>6. QED
    BY <2>1, <2>3, <2>4, <2>5, TimedFrame DEF IInv, Tries
<1>4. ASSUME NEW t \in Timers, IgnoreTimer(n, t) PROVE IInv'
  <2>1. /\ UNCHANGED <<state, timers>> /\ Handled(n, t) /\ UNCHANGED nrfVars
        /\ t = "registration" <=> state[n] = "registered"
    BY <1>4 DEF IgnoreTimer
  <2>2. /\ due' \in [NFs -> SUBSET Timers] /\ due'[n] = due[n] \ {t}
        /\ \A m \in NFs : m # n => due'[m] = due[m]
    BY <2>1, HandledDue
  <2>3. Typed'
    BY <2>1, <2>2 DEF IInv, Typed, nrfVars
  <2>4. NfTries(n)'
    BY <2>1, <2>2 DEF IInv, Typed, Tries, NfTries, Needed, Alive
  <2>5. ASSUME NEW m \in NFs, m # n PROVE NfTries(m)'
    BY <2>1, <2>2, <2>5 DEF IInv, Typed, Tries, NfTries, Needed, Alive
  <2>6. QED
    BY <2>1, <2>3, <2>4, <2>5, TimedFrame DEF IInv, Tries
<1>5. QED
  BY <1>1, <1>2, <1>3, <1>4 DEF HandleTimer

\* An answer moves the machine, restarts the no-heartbeat timer or is ignored.
LEMMA AnswerInv == ASSUME IInv, NEW n \in NFs, Answer(n) PROVE IInv'
<1>1. PICK s \in Statuses : \/ AnswerWhileRegistering(n, s)
                            \/ AnswerWhileRegistered(n, s)
                            \/ AnswerInException(n, s)
  BY DEF Answer
<1>2. due' = due /\ UNCHANGED nrfVars
  BY <1>1 DEF AnswerWhileRegistering, AnswerWhileRegistered, AnswerInException, nfVars
<1>3. due' \in [NFs -> SUBSET Timers] /\ \A m \in NFs : m # n => due'[m] = due[m]
  BY <1>2 DEF IInv, Typed
<1>4. CASE Enter(n, "registered") \/ Enter(n, "exception")
  BY <1>2, <1>3, <1>4, EnterInv DEF States
<1>5. CASE state' = state /\ timers' = [timers EXCEPT ![n] = @ \cup {"no_heartbeat"}]
  <2>1. Typed'
    BY <1>2, <1>3, <1>5 DEF IInv, Typed, nrfVars, Timers
  <2>2. ASSUME NEW m \in NFs PROVE NfTries(m)'
    BY <1>2, <1>5 DEF IInv, Typed, Tries, NfTries, Needed, Alive
  <2>3. QED
    BY <1>2, <2>1, <2>2, TimedFrame DEF IInv, Tries
<1>6. CASE UNCHANGED nfVars
  BY <1>2, <1>6, TriesFrame, TimedFrame DEF IInv, Typed, nfVars, nrfVars
<1>7. QED
  BY <1>1, <1>4, <1>5, <1>6
     DEF AnswerWhileRegistering, AnswerWhileRegistered, AnswerInException

-----------------------------------------------------------------------------
(* The NRF.                                                                *)

\* What a removed instance leaves.
LEMMA RemoveTimed ==
    ASSUME IInv, NEW s \in Slots, Remove(s),
           \A r \in Slots : r # s /\ r \in overdue => r \in overdue'
    PROVE  slot' \in [Slots -> NFs \cup {NULL}] /\ Timed'
<1>1. slot' \in [Slots -> NFs \cup {NULL}] /\ slot'[s] = NULL
  BY DEF IInv, Typed, Remove
<1>2. ASSUME NEW r \in Slots, r # s PROVE InstanceTimed(r)'
  BY <1>2 DEF IInv, Typed, Timed, InstanceTimed, Remove
<1>3. QED
  BY <1>1, <1>2 DEF Timed, InstanceTimed

\* An instance is added with its timer, and a request restarts it.
LEMMA ServeInv == ASSUME IInv, NEW n \in NFs, Serve(n) PROVE IInv'
<1>1. UNCHANGED nfVars /\ overdue' = overdue
  BY DEF Serve, Register, Deregister, Update, NotFound, nrfVars
<1>2. slot' \in [Slots -> NFs \cup {NULL}] /\ Timed'
  <2>1. CASE Register(n)
    <3>1. CASE UNCHANGED <<slot, armed>>
      BY <1>1, <3>1, TimedFrame DEF nrfVars, IInv, Typed
    <3>2. CASE \E s \in Slots : slot' = [slot EXCEPT ![s] = n] /\ armed' = armed \cup {s}
      BY <1>1, <3>2 DEF IInv, Typed, Timed, InstanceTimed
    <3>3. QED
      BY <2>1, <3>1, <3>2 DEF Register
  <2>2. CASE Deregister(n)
    <3>1. PICK s \in SlotsOf(n) : Remove(s)
      BY <2>2 DEF Deregister
    <3>2. s \in Slots
      BY DEF SlotsOf
    <3>3. QED
      BY <1>1, <3>1, <3>2, RemoveTimed
  <2>3. ASSUME NEW m \in Methods, Update(n, m)
        PROVE  slot' \in [Slots -> NFs \cup {NULL}] /\ Timed'
    BY <1>1, <2>3 DEF Update, RestartTimer, IInv, Typed, Timed, InstanceTimed
  <2>4. ASSUME NEW m \in Methods, NotFound(n, m)
        PROVE  slot' \in [Slots -> NFs \cup {NULL}] /\ Timed'
    BY <1>1, <2>4, TimedFrame DEF NotFound, nrfVars, IInv, Typed
  <2>5. QED
    BY <2>1, <2>2, <2>3, <2>4 DEF Serve
<1>3. QED
  BY <1>1, <1>2, TriesFrame DEF IInv, Typed, nfVars

\* An expired timer becomes a queued event.
LEMMA ExpireInstanceInv == ASSUME IInv, ExpireInstance PROVE IInv'
<1>1. UNCHANGED nfVars /\ slot' = slot /\ overdue = {}
  BY DEF ExpireInstance
<1>2. PICK ss \in SUBSET armed : overdue' = ss /\ armed' = armed \ ss
  BY DEF ExpireInstance
<1>3. Timed'
  BY <1>1, <1>2 DEF IInv, Timed, InstanceTimed
<1>4. QED
  BY <1>1, <1>3, TriesFrame DEF IInv, Typed, nfVars

\* The NRF forgets everything.
LEMMA GoneInv == ASSUME IInv, NrfGone, UNCHANGED nfVars PROVE IInv'
<1>1. slot' \in [Slots -> NFs \cup {NULL}] /\ Timed'
  BY DEF NrfGone, Timed, InstanceTimed
<1>2. QED
  BY <1>1, TriesFrame DEF IInv, Typed, nfVars

\* The event of an instance removes it, or ends the NRF.
LEMMA ForgetInv == ASSUME IInv, NEW s \in Slots, ForgetInstance(s) PROVE IInv'
<1>1. UNCHANGED nfVars
  BY DEF ForgetInstance
<1>2. CASE Remove(s) /\ overdue' = overdue \ {s}
  <2>1. slot' \in [Slots -> NFs \cup {NULL}] /\ Timed'
    BY <1>2, RemoveTimed
  <2>2. QED
    BY <1>1, <2>1, TriesFrame DEF IInv, Typed, nfVars
<1>3. CASE NrfGone
  BY <1>1, <1>3, GoneInv
<1>4. QED
  BY <1>2, <1>3 DEF ForgetInstance

-----------------------------------------------------------------------------
\* A step that changes neither machines nor pool.
LEMMA FrameInv == ASSUME IInv, UNCHANGED <<nfVars, nrfVars>> PROVE IInv'
  BY TriesFrame, TimedFrame DEF IInv, Typed, nfVars, nrfVars

LEMMA StepInv == IInv /\ [Next]_vars => IInv'
<1>1. ASSUME IInv, Next PROVE IInv'
  <2>1. ASSUME NEW n \in NFs,
               \/ Start(n) \/ Stop(n) \/ Crash(n) \/ Expire(n) \/ HandleTimer(n)
               \/ Answer(n) \/ Serve(n) \/ LoseRequest(n) \/ LoseAnswer(n)
        PROVE  IInv'
    <3>1. CASE LoseRequest(n) \/ LoseAnswer(n)
      BY <1>1, <3>1, FrameInv DEF LoseRequest, LoseAnswer
    <3>2. QED
      BY <1>1, <2>1, <3>1, LifeInv, ExpireInv, HandleTimerInv, AnswerInv, ServeInv
  <2>2. CASE NrfCrash
    BY <1>1, <2>2, GoneInv DEF NrfCrash
  <2>3. CASE NrfStart \/ Heal
    BY <1>1, <2>3, FrameInv DEF NrfStart, Heal
  <2>4. QED
    BY <1>1, <2>1, <2>2, <2>3, ExpireInstanceInv, ForgetInv DEF Next
<1>2. ASSUME IInv, UNCHANGED vars PROVE IInv'
  BY <1>2, FrameInv DEF vars
<1>3. QED
  BY <1>1, <1>2

\* However many NFs compete for however few places of the NRF, and whatever is lost,
\* reordered or crashes: an NF that runs will try or ask again, and the NRF keeps no
\* instance without the timer that will remove it.
THEOREM NobodyIdle == Spec => []NeverIdle
<1>1. Spec => []IInv
  BY InitInv, StepInv, PTL DEF Spec
<1>2. QED
  BY <1>1, HalvesAreWhole, PTL

-----------------------------------------------------------------------------
(* The types.  That no more than MaxInFlight messages of an NF are in      *)
(* flight needs the sum of the counts: the NRF makes an answer of each     *)
(* request it takes, and a machine that has not started has sent nothing.  *)

Asked(n) == LET r == requests[n] IN r["PUT"] + r["PATCH"] + r["DELETE"]
Told(n)  == LET a == answers[n] IN
              a["created"] + a["ok"] + a["no_content"] + a["not_found"] + a["no_space"]

\* n's messages in flight are counted, and not too many.
Counted(n) == /\ requests[n] \in [Methods -> Nat] /\ answers[n] \in [Statuses -> Nat]
              /\ Asked(n) + Told(n) <= MaxInFlight
              /\ state[n] = "off" => Asked(n) + Told(n) = 0

Counts == /\ DOMAIN requests = NFs /\ requests = [n \in NFs |-> requests[n]]
          /\ DOMAIN answers = NFs /\ answers = [n \in NFs |-> answers[n]]
          /\ \A n \in NFs : Counted(n)

\* The sets of the NRF, and the flags.
Rest == /\ armed \subseteq Slots /\ overdue \subseteq Slots /\ fresh \subseteq NFs \cup Slots
        /\ up \in BOOLEAN /\ healed \in BOOLEAN /\ misused \in BOOLEAN
        /\ failures \in 0 .. MaxFailures

TInv == IInv /\ Counts /\ Rest

\* The sum in two parts.
LEMMA SumParts ==
    ASSUME NEW n \in NFs, requests[n] \in [Methods -> Nat], answers[n] \in [Statuses -> Nat]
    PROVE  InFlight(n) = Asked(n) + Told(n) /\ Asked(n) \in Nat /\ Told(n) \in Nat
  BY DEF InFlight, Asked, Told, Methods, Statuses

\* No count is larger than the sum.
LEMMA CountsAreTypes ==
    ASSUME NEW n \in NFs, Counted(n)
    PROVE  requests[n] \in [Methods -> 0 .. MaxInFlight] /\ answers[n] \in [Statuses -> 0 .. MaxInFlight]
<1>1. MaxInFlight \in Nat
  BY RegistrationAssumption
<1>2. ASSUME NEW m \in Methods PROVE requests[n][m] \in 0 .. MaxInFlight
  BY <1>1, <1>2 DEF Counted, Asked, Told, Methods, Statuses
<1>3. ASSUME NEW s \in Statuses PROVE answers[n][s] \in 0 .. MaxInFlight
  BY <1>1, <1>3 DEF Counted, Asked, Told, Methods, Statuses
<1>4. QED
  BY <1>2, <1>3 DEF Counted

LEMMA InvIsTypeOK == TInv => TypeOK
<1>1. ASSUME Counts
      PROVE  /\ requests \in [NFs -> [Methods -> 0 .. MaxInFlight]]
             /\ answers \in [NFs -> [Statuses -> 0 .. MaxInFlight]]
  BY <1>1, CountsAreTypes DEF Counts
<1>2. QED
  BY <1>1 DEF TInv, IInv, Typed, States, Rest, TypeOK

LEMMA InitTInv == Init => TInv
<1>1. SUFFICES ASSUME Init PROVE TInv
  OBVIOUS
<1>2. ASSUME NEW n \in NFs PROVE Counted(n)
  BY <1>1, RegistrationAssumption
     DEF Init, None, Counted, Asked, Told, Methods, Statuses
<1>3. Counts
  BY <1>1, <1>2 DEF Init, Counts
<1>4. Rest
  <2>1. failures \in 0 .. MaxFailures
    BY <1>1, RegistrationAssumption DEF Init
  <2>2. up \in BOOLEAN /\ healed \in BOOLEAN /\ misused \in BOOLEAN
    BY <1>1 DEF Init
  <2>3. QED
    BY <1>1, <2>1, <2>2 DEF Init, Rest
<1>5. QED
  BY <1>1, <1>3, <1>4, InitInv DEF TInv

-----------------------------------------------------------------------------
(* What the operations do to the counts of one NF.                         *)

\* Only the messages of n change.
Only(n) == /\ requests' = [requests EXCEPT ![n] = requests'[n]]
           /\ answers' = [answers EXCEPT ![n] = answers'[n]]
           /\ \A m \in NFs : m # n => state'[m] = state[m]

LEMMA OnlyCounts ==
    ASSUME Counts, NEW n \in NFs, Only(n), Counted(n)'
    PROVE  Counts'
<1>1. ASSUME NEW m \in NFs, m # n PROVE Counted(m)'
  <2>1. requests'[m] = requests[m] /\ answers'[m] = answers[m] /\ state'[m] = state[m]
    BY <1>1 DEF Only, Counts
  <2>2. QED
    BY <2>1, <1>1 DEF Counts, Counted, Asked, Told
<1>2. QED
  BY <1>1 DEF Counts, Only

\* Sending adds to the requests what is sent.
LEMMA SendCounts ==
    ASSUME Counts, NEW n \in NFs, NEW ms, Send(n, ms),
           ms \in {{"PUT"}, {"PATCH"}, {"DELETE"}, {"DELETE", "PUT"}}
    PROVE  /\ requests'[n] \in [Methods -> Nat]
           /\ requests' = [requests EXCEPT ![n] = requests'[n]]
           /\ Asked(n)' = Asked(n) + Cardinality(ms) /\ Cardinality(ms) \in Nat
<1>1. requests[n] \in [Methods -> Nat] /\ n \in DOMAIN requests
  BY DEF Counts, Counted
<1>2. requests'[n] = [m \in Methods |-> requests[n][m] + (IF m \in ms THEN 1 ELSE 0)]
  BY <1>1 DEF Send
<1>3. requests'[n] \in [Methods -> Nat] /\ requests' = [requests EXCEPT ![n] = requests'[n]]
  BY <1>1, <1>2 DEF Send
<1>4. CASE ms \in {{"PUT"}, {"PATCH"}, {"DELETE"}}
  <2>1. Cardinality(ms) = 1
    BY <1>4, FS_Singleton
  <2>2. Asked(n)' = Asked(n) + 1
    BY <1>1, <1>2, <1>4 DEF Asked, Methods
  <2>3. QED
    BY <1>3, <2>1, <2>2
<1>5. CASE ms = {"DELETE", "PUT"}
  <2>1. Cardinality(ms) = 2
    <3>1. IsFiniteSet({"PUT"}) /\ Cardinality({"PUT"}) = 1
      BY FS_Singleton
    <3>2. ms = {"PUT"} \cup {"DELETE"} /\ "DELETE" \notin {"PUT"}
      BY <1>5
    <3>3. QED
      BY <3>1, <3>2, FS_AddElement
  <2>2. Asked(n)' = Asked(n) + 2
    BY <1>1, <1>2, <1>5 DEF Asked, Methods
  <2>3. QED
    BY <1>3, <2>1, <2>2
<1>6. QED
  BY <1>4, <1>5

\* A request that is taken, or lost, is one less.
LEMMA TakenRequest ==
    ASSUME Counts, NEW n \in NFs, NEW m \in Methods, requests[n][m] > 0,
           requests' = [requests EXCEPT ![n][m] = @ - 1]
    PROVE  /\ requests'[n] \in [Methods -> Nat]
           /\ requests' = [requests EXCEPT ![n] = requests'[n]]
           /\ Asked(n)' + 1 = Asked(n)
<1>1. requests[n] \in [Methods -> Nat] /\ n \in DOMAIN requests
  BY DEF Counts, Counted
<1>2. requests'[n] = [requests[n] EXCEPT ![m] = @ - 1]
  BY <1>1
<1>3. requests'[n] \in [Methods -> Nat]
  BY <1>1, <1>2
<1>4. requests' = [requests EXCEPT ![n] = requests'[n]]
  BY <1>1, <1>2
<1>5. Asked(n)' + 1 = Asked(n)
  BY <1>1, <1>2 DEF Asked, Methods
<1>6. QED
  BY <1>3, <1>4, <1>5

\* So is an answer.
LEMMA TakenAnswer ==
    ASSUME Counts, NEW n \in NFs, NEW s \in Statuses, Taken(n, s)
    PROVE  /\ answers'[n] \in [Statuses -> Nat]
           /\ answers' = [answers EXCEPT ![n] = answers'[n]]
           /\ Told(n)' + 1 = Told(n)
<1>1. answers[n] \in [Statuses -> Nat] /\ n \in DOMAIN answers /\ answers[n][s] > 0
  BY DEF Counts, Counted, Taken
<1>2. answers'[n] = [answers[n] EXCEPT ![s] = @ - 1]
  BY <1>1 DEF Taken
<1>3. answers'[n] \in [Statuses -> Nat]
  BY <1>1, <1>2
<1>4. answers' = [answers EXCEPT ![n] = answers'[n]]
  BY <1>1, <1>2 DEF Taken
<1>5. Told(n)' + 1 = Told(n)
  BY <1>1, <1>2 DEF Told, Statuses
<1>6. QED
  BY <1>3, <1>4, <1>5

\* A reply is one more answer at most, and none to a machine that is off.
LEMMA ReplyCounts ==
    ASSUME Counts, NEW n \in NFs, NEW s \in Statuses, Reply(n, s)
    PROVE  /\ answers'[n] \in [Statuses -> Nat]
           /\ answers' = [answers EXCEPT ![n] = answers'[n]]
           /\ Told(n)' = IF Alive(n) THEN Told(n) + 1 ELSE Told(n)
<1>1. answers[n] \in [Statuses -> Nat] /\ n \in DOMAIN answers
  BY DEF Counts, Counted
<1>2. CASE Alive(n)
  <2>1. answers' = [answers EXCEPT ![n][s] = @ + 1]
    BY <1>2 DEF Reply
  <2>2. answers'[n] = [answers[n] EXCEPT ![s] = @ + 1]
    BY <1>1, <2>1
  <2>3. answers'[n] \in [Statuses -> Nat]
    BY <1>1, <2>2
  <2>4. answers' = [answers EXCEPT ![n] = answers'[n]]
    BY <1>1, <2>1, <2>2
  <2>5. Told(n)' = Told(n) + 1
    BY <1>1, <2>2 DEF Told, Statuses
  <2>6. QED
    BY <1>2, <2>3, <2>4, <2>5
<1>3. CASE ~Alive(n)
  <2>1. answers' = answers
    BY <1>3 DEF Reply
  <2>2. QED
    BY <1>1, <1>3, <2>1 DEF Told, Counts
<1>4. QED
  BY <1>2, <1>3

-----------------------------------------------------------------------------
(* Every step keeps the counts.                                            *)

\* A step of n that sends ms with room for it and changes no answer.
LEMMA SendKeeps ==
    ASSUME TInv, NEW n \in NFs, NEW ms, Send(n, ms), Room(n, ms), UNCHANGED answers,
           ms \in {{"PUT"}, {"PATCH"}, {"DELETE"}, {"DELETE", "PUT"}},
           state'[n] # "off", \A m \in NFs : m # n => state'[m] = state[m]
    PROVE  Counts'
<1>1. Counts /\ Counted(n)
  BY DEF TInv, Counts
<1>2. InFlight(n) = Asked(n) + Told(n) /\ Asked(n) \in Nat /\ Told(n) \in Nat
  BY <1>1, SumParts DEF Counted
<1>3. /\ requests'[n] \in [Methods -> Nat]
      /\ requests' = [requests EXCEPT ![n] = requests'[n]]
      /\ Asked(n)' = Asked(n) + Cardinality(ms) /\ Cardinality(ms) \in Nat
  BY <1>1, SendCounts
<1>4. answers' = [answers EXCEPT ![n] = answers'[n]] /\ Told(n)' = Told(n)
  BY <1>1 DEF Counts, Told
<1>5. Counted(n)'
  BY <1>1, <1>2, <1>3, <1>4, RegistrationAssumption DEF Counted, Room
<1>6. QED
  BY <1>1, <1>3, <1>4, <1>5, OnlyCounts DEF Only

\* A step of n after which no more of its messages are in flight.
LEMMA FewerKeeps ==
    ASSUME TInv, NEW n \in NFs, Only(n), state'[n] = "off" => state[n] = "off",
           requests'[n] \in [Methods -> Nat], answers'[n] \in [Statuses -> Nat],
           Asked(n)' + Told(n)' <= Asked(n) + Told(n)
    PROVE  Counts'
<1>1. Counts /\ Counted(n)
  BY DEF TInv, Counts
<1>2. Asked(n) \in Nat /\ Told(n) \in Nat
  BY <1>1, SumParts DEF Counted
<1>3. Asked(n)' \in Nat /\ Told(n)' \in Nat
  BY DEF Asked, Told, Methods, Statuses
<1>4. Counted(n)'
  BY <1>1, <1>2, <1>3, RegistrationAssumption DEF Counted
<1>5. QED
  BY <1>1, <1>4, OnlyCounts

\* A step that leaves messages and machines alone.
LEMMA SameCounts == ASSUME TInv, UNCHANGED <<state, requests, answers>> PROVE Counts'
  BY DEF TInv, Counts, Counted, Asked, Told

\* The counts of n stay when a machine enters a state.
LEMMA EnterOff ==
    ASSUME TInv, NEW n \in NFs, NEW to \in States \ {"off"}, Enter(n, to)
    PROVE  state'[n] # "off" /\ \A m \in NFs : m # n => state'[m] = state[m]
  BY DEF TInv, IInv, Typed, Enter

LEMMA LifeCounts == ASSUME TInv, NEW n \in NFs, Start(n) \/ Stop(n) \/ Crash(n) PROVE Counts'
<1>1. Counts /\ Counted(n)
  BY DEF TInv, Counts
<1>2. InFlight(n) = Asked(n) + Told(n) /\ Asked(n) \in Nat /\ Told(n) \in Nat
  BY <1>1, SumParts DEF Counted
<1>3. CASE Start(n)
  <2>1. /\ Enter(n, "will_register") /\ Send(n, {"PUT"}) /\ UNCHANGED answers /\ state[n] = "off"
    BY <1>3 DEF Start
  <2>2. Cardinality({"PUT"}) = 1
    BY FS_Singleton
  <2>3. Room(n, {"PUT"})
    BY <1>1, <1>2, <2>1, <2>2, RegistrationAssumption DEF Counted, Room
  <2>4. QED
    BY <2>1, <2>3, EnterOff, SendKeeps DEF States
<1>4. CASE Stop(n) \/ Crash(n)
  <2>1. Enter(n, "dead") /\ answers' = [answers EXCEPT ![n] = None(Statuses)]
    BY <1>4 DEF Stop, Crash
  <2>2. state'[n] # "off" /\ \A m \in NFs : m # n => state'[m] = state[m]
    BY <2>1, EnterOff DEF States
  <2>3. /\ answers'[n] \in [Statuses -> Nat] /\ Told(n)' = 0
        /\ answers' = [answers EXCEPT ![n] = answers'[n]]
    BY <1>1, <2>1 DEF Counts, None, Told, Statuses
  <2>4. CASE requests' = requests
    <3>1. /\ requests'[n] \in [Methods -> Nat] /\ Asked(n)' = Asked(n)
          /\ requests' = [requests EXCEPT ![n] = requests'[n]]
      BY <1>1, <2>4 DEF Counts, Counted, Asked
    <3>2. Only(n) /\ Asked(n)' + Told(n)' <= Asked(n) + Told(n)
      BY <1>2, <2>2, <2>3, <3>1 DEF Only
    <3>3. QED
      BY <2>2, <2>3, <3>1, <3>2, FewerKeeps
  <2>5. CASE Room(n, {"DELETE"}) /\ Send(n, {"DELETE"})
    <3>1. /\ requests'[n] \in [Methods -> Nat]
          /\ requests' = [requests EXCEPT ![n] = requests'[n]]
          /\ Asked(n)' = Asked(n) + Cardinality({"DELETE"}) /\ Cardinality({"DELETE"}) \in Nat
      BY <1>1, <2>5, SendCounts
    <3>2. Counted(n)'
      BY <1>1, <1>2, <2>2, <2>3, <2>5, <3>1, RegistrationAssumption DEF Counted, Room
    <3>3. QED
      BY <1>1, <2>2, <2>3, <3>1, <3>2, OnlyCounts DEF Only
  <2>6. QED
    BY <1>4, <2>4, <2>5 DEF Stop, Crash
<1>5. QED
  BY <1>3, <1>4

LEMMA TimerCounts == ASSUME TInv, NEW n \in NFs, Expire(n) \/ HandleTimer(n) PROVE Counts'
<1>1. CASE Expire(n)
  BY <1>1, SameCounts DEF Expire, netVars
<1>2. CASE RetryRegistration(n)
  BY <1>2, EnterOff, SendKeeps DEF RetryRegistration, States
<1>3. CASE NoHeartbeat(n)
  BY <1>3, EnterOff, SendKeeps DEF NoHeartbeat, States
<1>4. CASE Heartbeat(n)
  BY <1>4, SendKeeps DEF Heartbeat
<1>5. ASSUME NEW t \in Timers, IgnoreTimer(n, t) PROVE Counts'
  BY <1>5, SameCounts DEF IgnoreTimer, netVars
<1>6. QED
  BY <1>1, <1>2, <1>3, <1>4, <1>5 DEF HandleTimer

\* An answer taken, by the machine or by the network.
LEMMA AnswerCounts ==
    ASSUME TInv, NEW n \in NFs, Answer(n) \/ LoseAnswer(n) PROVE Counts'
<1>1. PICK s \in Statuses : Taken(n, s)
  BY DEF Answer, LoseAnswer, AnswerWhileRegistering, AnswerWhileRegistered, AnswerInException
<1>2. requests' = requests
  BY DEF Answer, LoseAnswer, AnswerWhileRegistering, AnswerWhileRegistered, AnswerInException
<1>3. /\ state'[n] = "off" => state[n] = "off"
      /\ \A m \in NFs : m # n => state'[m] = state[m]
  <2>1. CASE state' = state
    BY <2>1
  <2>2. CASE \E to \in States \ {"off"} : Enter(n, to)
    BY <2>2, EnterOff
  <2>3. QED
    BY <2>1, <2>2 DEF Answer, LoseAnswer, AnswerWhileRegistering, AnswerWhileRegistered,
                      AnswerInException, States, nfVars
<1>4. Counts /\ Counted(n)
  BY DEF TInv, Counts
<1>5. Asked(n) \in Nat /\ Told(n) \in Nat
  BY <1>4, SumParts DEF Counted
<1>6. /\ answers'[n] \in [Statuses -> Nat] /\ Told(n)' + 1 = Told(n)
      /\ answers' = [answers EXCEPT ![n] = answers'[n]]
  BY <1>1, <1>4, TakenAnswer
<1>7. Told(n)' \in Nat
  BY <1>6 DEF Told, Statuses
<1>8. /\ requests'[n] \in [Methods -> Nat] /\ Asked(n)' = Asked(n)
      /\ requests' = [requests EXCEPT ![n] = requests'[n]]
  BY <1>2, <1>4 DEF Counts, Counted, Asked
<1>9. Asked(n)' + Told(n)' <= Asked(n) + Told(n)
  BY <1>5, <1>6, <1>7, <1>8
<1>10. QED
  BY <1>3, <1>6, <1>8, <1>9, FewerKeeps DEF Only

\* A request taken or lost; taken, it becomes one answer at most.
LEMMA RequestCounts ==
    ASSUME TInv, NEW n \in NFs, Serve(n) \/ LoseRequest(n) PROVE Counts'
<1>1. PICK m \in Methods : /\ requests[n][m] > 0
                           /\ requests' = [requests EXCEPT ![n][m] = @ - 1]
  BY DEF Serve, LoseRequest, Register, Deregister, Update, NotFound, Received, Methods
<1>2. state' = state
  BY DEF Serve, LoseRequest, Register, Deregister, Update, NotFound, nfVars
<1>3. answers' = answers \/ \E s \in Statuses : Reply(n, s)
  BY DEF Serve, LoseRequest, Register, Deregister, Update, NotFound, Statuses
<1>4. Counts /\ Counted(n)
  BY DEF TInv, Counts
<1>5. Asked(n) \in Nat /\ Told(n) \in Nat
  BY <1>4, SumParts DEF Counted
<1>6. /\ requests'[n] \in [Methods -> Nat] /\ Asked(n)' + 1 = Asked(n)
      /\ requests' = [requests EXCEPT ![n] = requests'[n]]
  BY <1>1, <1>4, TakenRequest
<1>7. Asked(n)' \in Nat
  BY <1>6 DEF Asked, Methods
<1>8. /\ answers'[n] \in [Statuses -> Nat]
      /\ answers' = [answers EXCEPT ![n] = answers'[n]]
      /\ Told(n)' = Told(n) \/ Told(n)' = Told(n) + 1
  <2>1. CASE answers' = answers
    BY <1>4, <2>1 DEF Counts, Counted, Told
  <2>2. ASSUME NEW s \in Statuses, Reply(n, s)
        PROVE  /\ answers'[n] \in [Statuses -> Nat]
               /\ answers' = [answers EXCEPT ![n] = answers'[n]]
               /\ Told(n)' = Told(n) \/ Told(n)' = Told(n) + 1
    BY <1>4, <2>2, ReplyCounts
  <2>3. QED
    BY <1>3, <2>1, <2>2
<1>9. Asked(n)' + Told(n)' <= Asked(n) + Told(n)
  BY <1>5, <1>6, <1>7, <1>8
<1>10. Only(n) /\ (state'[n] = "off" => state[n] = "off")
  BY <1>2, <1>6, <1>8 DEF Only
<1>11. QED
  BY <1>6, <1>8, <1>9, <1>10, FewerKeeps

\* The sets and flags keep their types.
LEMMA StepRest == ASSUME TInv, Next PROVE Rest'
<1>1. Rest /\ failures \in Nat /\ MaxFailures \in Nat
  BY RegistrationAssumption DEF TInv, Rest
<1>2. ASSUME NEW n \in NFs, NEW to, Enter(n, to) PROVE fresh' \subseteq NFs \cup Slots
  BY <1>1, <1>2 DEF Rest, Enter, Freshened
<1>3. ASSUME NEW n \in NFs, Start(n) \/ Stop(n) \/ Crash(n) PROVE Rest'
  <2>1. \E to : Enter(n, to)
    BY <1>3 DEF Start, Stop, Crash
  <2>2. UNCHANGED <<armed, overdue, up, healed, misused>>
    BY <1>3 DEF Start, Stop, Crash, nrfVars
  <2>3. failures' \in 0 .. MaxFailures
    BY <1>1, <1>3 DEF Start, Stop, Crash, Rest
  <2>4. QED
    BY <1>1, <1>2, <2>1, <2>2, <2>3 DEF Rest
<1>4. ASSUME NEW n \in NFs, Expire(n) \/ HandleTimer(n) \/ Answer(n) PROVE Rest'
  <2>1. UNCHANGED <<armed, overdue, up, healed, misused, failures>>
    BY <1>4 DEF Expire, HandleTimer, RetryRegistration, Heartbeat, NoHeartbeat, IgnoreTimer,
                Answer, AnswerWhileRegistering, AnswerWhileRegistered, AnswerInException, nrfVars
  <2>2. fresh' = fresh \/ fresh' = Freshened(n) \/ \E to : Enter(n, to)
    BY <1>4 DEF Expire, HandleTimer, RetryRegistration, Heartbeat, NoHeartbeat, IgnoreTimer,
                Answer, AnswerWhileRegistering, AnswerWhileRegistered, AnswerInException
  <2>3. QED
    BY <1>1, <1>2, <2>1, <2>2 DEF Rest, Freshened
<1>5. ASSUME NEW n \in NFs, Serve(n) PROVE Rest'
  <2>1. UNCHANGED <<overdue, up, healed, misused, failures>>
    BY <1>5 DEF Serve, Register, Deregister, Update, NotFound, nrfVars
  <2>2. \/ UNCHANGED <<armed, fresh>>
        \/ \E s \in Slots : armed' = armed \cup {s} /\ fresh' = Freshened(s)
        \/ \E s \in Slots : armed' = armed \ {s} /\ fresh' = fresh \ {s}
    BY <1>5 DEF Serve, Register, Deregister, Update, NotFound, nrfVars, RestartTimer,
                Remove, SlotsOf
  <2>3. QED
    BY <1>1, <2>1, <2>2 DEF Rest, Freshened
<1>6. ASSUME NEW n \in NFs, LoseRequest(n) \/ LoseAnswer(n) PROVE Rest'
  BY <1>1, <1>6 DEF LoseRequest, LoseAnswer, nrfVars, Rest
<1>7. CASE ExpireInstance
  BY <1>1, <1>7 DEF ExpireInstance, Rest
<1>8. ASSUME NEW s \in Slots, ForgetInstance(s) PROVE Rest'
  BY <1>1, <1>8 DEF ForgetInstance, Remove, NrfGone, Rest
<1>9. CASE NrfCrash \/ NrfStart \/ Heal
  <2>1. up' \in BOOLEAN /\ healed' \in BOOLEAN /\ misused' \in BOOLEAN
    BY <1>1, <1>9, ZenonT(30) DEF NrfCrash, NrfGone, NrfStart, Heal, Rest
  <2>2. armed' \subseteq Slots /\ overdue' \subseteq Slots /\ fresh' \subseteq NFs \cup Slots
    BY <1>1, <1>9 DEF NrfCrash, NrfGone, NrfStart, Heal, nrfVars, Rest
  <2>3. failures' \in 0 .. MaxFailures
    BY <1>1, <1>9 DEF NrfCrash, NrfStart, Heal, Rest
  <2>4. QED
    BY <2>1, <2>2, <2>3 DEF Rest
<1>10. QED
  BY <1>3, <1>4, <1>5, <1>6, <1>7, <1>8, <1>9 DEF Next

LEMMA StepTInv == TInv /\ [Next]_vars => TInv'
<1>1. ASSUME TInv, Next PROVE TInv'
  <2>1. Counts'
    <3>1. ASSUME NEW n \in NFs,
                 \/ Start(n) \/ Stop(n) \/ Crash(n) \/ Expire(n) \/ HandleTimer(n)
                 \/ Answer(n) \/ Serve(n) \/ LoseRequest(n) \/ LoseAnswer(n)
          PROVE  Counts'
      BY <1>1, <3>1, LifeCounts, TimerCounts, AnswerCounts, RequestCounts
    <3>2. CASE ExpireInstance \/ (\E s \in Slots : ForgetInstance(s))
      BY <1>1, <3>2, SameCounts DEF ExpireInstance, ForgetInstance, nfVars, netVars
    <3>3. CASE NrfCrash \/ NrfStart \/ Heal
      BY <1>1, <3>3, SameCounts DEF NrfCrash, NrfStart, Heal, nfVars, netVars
    <3>4. QED
      BY <1>1, <3>1, <3>2, <3>3 DEF Next
  <2>2. QED
    BY <1>1, <2>1, StepInv, StepRest DEF TInv
<1>2. ASSUME TInv, UNCHANGED vars PROVE TInv'
  BY <1>2, SameCounts, StepInv DEF TInv, Rest, vars, nfVars, netVars, nrfVars
<1>3. QED
  BY <1>1, <1>2

\* However many NFs there are, and whatever is lost or crashes, what the program
\* keeps has its type, and no more than MaxInFlight messages of an NF are in flight:
\* the NRF makes one answer of a request, and none to an NF that has gone.
THEOREM TypeCorrect == Spec => []TypeOK
<1>1. Spec => []TInv
  BY InitTInv, StepTInv, PTL DEF Spec
<1>2. QED
  BY <1>1, InvIsTypeOK, PTL

=============================================================================
