---------------------------- MODULE PfcpAssociation ----------------------------
(***************************************************************************)
(* The association between two PFCP entities, each keeping a state machine *)
(* for the other: SMF and UPF (src/smf/pfcp-sm.c, src/upf/pfcp-sm.c), and  *)
(* SGW-C and SGW-U, whose files are the same.  A configured peer is asked  *)
(* for an association until it answers; an associated peer is probed with  *)
(* heartbeats, and given up when one stays unanswered.                     *)
(*                                                                         *)
(* The transactions below are seen as RequestReply describes them: at most *)
(* one request of a kind is open at a time, its copies are handled once,   *)
(* and it ends with the answer or with the timeout callback (or, when a    *)
(* retransmission cannot be sent, with nothing: PfcpXact).  A daemon may   *)
(* crash and start again.  Time is not counted; once the network is healed *)
(* requests no longer time out at a peer that answers them.                *)
(***************************************************************************)
EXTENDS Naturals, Sequences

CONSTANTS Peers,        \* the two entities
          Configurations, \* which of them may have a configuration that names
                          \* the other one
          MaxCrashes,     \* bound: crashes of the two together
          SendFailures    \* whether sendto() may fail before the network is healed

ASSUME AssociationAssumption ==
    /\ \E p, q \in Peers : p # q /\ Peers = {p, q}
    /\ Configurations \subseteq SUBSET Peers
    /\ MaxCrashes \in Nat /\ SendFailures \subseteq BOOLEAN

Kinds == {"setup", "heartbeat"}

VARIABLES
    state,     \* p's state machine for its peer; "stopped" when p does not run
               \* and "unknown" when it has no node for the peer
    timers,    \* the timers of that node that run
    events,    \* the node's events in p's event queue, messages apart
    txn,       \* the open request of each kind: "none", "requested",
               \* "answered" or "ignored" (received, but left unanswered)
    orphans,   \* kinds of request in flight whose sender has crashed since
    healed, crashes,
    configured, sendFails    \* the configuration, and the network of this behaviour

world == <<configured, sendFails>>
vars  == <<state, timers, events, txn, orphans, healed, crashes, world>>

Other(p) == CHOOSE q \in Peers : q # p

Running(p) == state[p] # "stopped"

SendOutcomes == IF sendFails /\ ~healed THEN {TRUE, FALSE} ELSE {TRUE}

SetTxn(p, kind, what) == txn' = [txn EXCEPT ![p][kind] = what]
Post(p, event)        == events' = [events EXCEPT ![p] = Append(@, event)]

-----------------------------------------------------------------------------
\* Mutant: configured peers are left for the first datagram to set up.
IdleUnknown(p) == "unknown"

\* A daemon at its start: OGS_SETUP_PFCP_SERVER enters will_associate for the
\* configured peer, and asks it.
Idle(p)    == IF p \in configured THEN "will_associate" ELSE "unknown"
Waiting(p) == IF p \in configured THEN {"association"} ELSE {}

Init ==
    /\ state   = [p \in Peers |-> "stopped"]
    /\ timers  = [p \in Peers |-> {}]
    /\ events  = [p \in Peers |-> <<>>]
    /\ txn     = [p \in Peers |-> [k \in Kinds |-> "none"]]
    /\ orphans = [p \in Peers |-> {}]
    /\ healed  = FALSE
    /\ crashes = 0
    /\ configured \in Configurations
    /\ sendFails \in SendFailures

\* pfcp_node_fsm_init(node, true) and the entry of will_associate: the timer
\* starts, and the request is sent, whether that works or not.
Start(p) ==
    /\ ~Running(p)
    /\ state'  = [state EXCEPT ![p] = Idle(p)]
    /\ timers' = [timers EXCEPT ![p] = Waiting(p)]
    /\ \E sent \in SendOutcomes :
         SetTxn(p, "setup", IF sent /\ p \in configured THEN "requested" ELSE "none")
    /\ UNCHANGED <<events, orphans, healed, crashes, world>>

\* What is left when p stops: its requests in flight, and peers' requests that it
\* had received and whose retransmissions the next p will take for new.
Stop(p) ==
    LET q == Other(p) IN
    /\ state'   = [state  EXCEPT ![p] = "stopped"]
    /\ timers'  = [timers EXCEPT ![p] = {}]
    /\ events'  = [events EXCEPT ![p] = <<>>]
    /\ orphans' = [orphans EXCEPT ![p] = @ \cup {k \in Kinds : txn[p][k] = "requested"}]
    /\ \E again \in SUBSET {k \in Kinds : txn[q][k] \in {"answered", "ignored"}} :
         txn' = [txn EXCEPT ![p] = [k \in Kinds |-> "none"],
                            ![q] = [k \in Kinds |-> IF k \in again THEN "requested" ELSE @[k]]]

Crash(p) ==
    /\ Running(p) /\ ~healed /\ crashes < MaxCrashes
    /\ crashes' = crashes + 1
    /\ Stop(p)
    /\ UNCHANGED <<healed, world>>

\* A failed ogs_assert() ends the daemon.
Abort(p) ==
    /\ Stop(p)
    /\ UNCHANGED <<healed, crashes, world>>

-----------------------------------------------------------------------------
\* Mutant: the entry of associated does not start the heartbeat timer.
EnterAssociatedUntimed(p) ==
    /\ state'  = [state  EXCEPT ![p] = "associated"]
    /\ timers' = [timers EXCEPT ![p] = @ \ {"association"}]

\* OGS_FSM_TRAN(s, associated): exit of will_associate, entry of associated.
EnterAssociated(p) ==
    /\ state'  = [state  EXCEPT ![p] = "associated"]
    /\ timers' = [timers EXCEPT ![p] = (@ \ {"association"}) \cup {"no_heartbeat"}]

\* On a healed network an association is answered long before any of the waits
\* of ten seconds and more: the intervals of the timers, and all the
\* transmissions of a request.
ExchangeOver ==
    healed => \A p \in Peers :
                 ~Running(p) \/ ~Running(Other(p)) \/ txn[p]["setup"] = "none"

\* The association timer expired.  The request it repeats is over: the interval
\* is longer than the life of a transaction.
AssociationTimer(p) ==
    /\ "association" \in timers[p] /\ txn[p]["setup"] = "none"
    /\ timers' = [timers EXCEPT ![p] = @ \ {"association"}]
    /\ Post(p, "association")
    /\ UNCHANGED <<state, txn, orphans, healed, crashes, world>>

NoHeartbeatTimer(p) ==
    /\ "no_heartbeat" \in timers[p] /\ ExchangeOver
    /\ timers' = [timers EXCEPT ![p] = @ \ {"no_heartbeat"}]
    /\ Post(p, "no_heartbeat")
    /\ UNCHANGED <<state, txn, orphans, healed, crashes, world>>

\* will_associate, timer event: the timer and the request again.
Retry(p) ==
    /\ state[p] = "will_associate"
    /\ timers' = [timers EXCEPT ![p] = @ \cup {"association"}]
    /\ \E sent \in SendOutcomes :
         SetTxn(p, "setup", IF sent THEN "requested" ELSE "none")

\* The association timer's event, which may be late: "Unknown timer".
HandleAssociation(p) ==
    /\ events[p] # <<>> /\ Head(events[p]) = "association"
    /\ events' = [events EXCEPT ![p] = Tail(@)]
    /\ \/ Retry(p)
       \/ state[p] = "associated" /\ UNCHANGED <<timers, txn>>
    /\ UNCHANGED <<state, orphans, healed, crashes, world>>

\* associated, timer event: a heartbeat, which ogs_assert() expects to be sent.
HandleNoHeartbeat(p) ==
    /\ events[p] # <<>> /\ Head(events[p]) = "no_heartbeat"
    /\ \/ /\ state[p] = "associated"
          /\ SetTxn(p, "heartbeat", "requested")
          /\ events' = [events EXCEPT ![p] = Tail(@)]
          /\ UNCHANGED <<state, timers, orphans, healed, crashes, world>>
       \/ /\ state[p] = "associated" /\ FALSE \in SendOutcomes
          /\ Abort(p)
       \/ /\ state[p] = "will_associate"
          /\ events' = [events EXCEPT ![p] = Tail(@)]
          /\ UNCHANGED <<state, timers, txn, orphans, healed, crashes, world>>

\* Mutant: the peer is given up but not asked for a new association.
DeassociateSilently(p) ==
    /\ state'  = [state  EXCEPT ![p] = "will_associate"]
    /\ timers' = [timers EXCEPT ![p] = @ \ {"no_heartbeat"}]
    /\ txn' = txn

\* Exit of associated, entry of will_associate.
Deassociate(p) ==
    /\ state'  = [state  EXCEPT ![p] = "will_associate"]
    /\ timers' = [timers EXCEPT ![p] = (@ \ {"no_heartbeat"}) \cup Waiting(p)]
    /\ IF p \in configured
         THEN \E sent \in SendOutcomes :
                SetTxn(p, "setup", IF sent THEN "requested" ELSE "none")
         ELSE txn' = txn

\* The event of an unanswered heartbeat: "No Heartbeat from UPF".
HandleGone(p) ==
    /\ events[p] # <<>> /\ Head(events[p]) = "gone"
    /\ events' = [events EXCEPT ![p] = Tail(@)]
    /\ IF state[p] = "associated"
         THEN Deassociate(p)
         ELSE UNCHANGED <<state, timers, txn>>
    /\ UNCHANGED <<orphans, healed, crashes, world>>

-----------------------------------------------------------------------------
\* q's state machine takes a setup request.
TakeSetup(q) ==
    IF state[q] = "associated" THEN UNCHANGED <<state, timers>> ELSE EnterAssociated(q)

\* pfcp_recv_cb() adds a node for a peer it does not know, without a timer for
\* associations, and its state machine enters will_associate.
TakeNode(q) ==
    /\ state' = [state EXCEPT ![q] = IF @ = "unknown" THEN "will_associate" ELSE @]
    /\ UNCHANGED timers

\* A setup request of p reaches q, which answers it in either state; an answer
\* that cannot be sent leaves the request to be handled again.
ReceiveSetup(p) ==
    LET q == Other(p) IN
    /\ Running(q)
    /\ \/ /\ txn[p]["setup"] = "requested"
          /\ \E sent \in SendOutcomes :
               SetTxn(p, "setup", IF sent THEN "answered" ELSE "requested")
          /\ UNCHANGED orphans
       \/ /\ "setup" \in orphans[p]
          /\ orphans' = [orphans EXCEPT ![p] = @ \ {"setup"}]
          \* Its answer may carry the id of the request p has open now.
          /\ \/ txn' = txn
             \/ txn[p]["setup"] = "requested" /\ SetTxn(p, "setup", "answered")
    /\ TakeSetup(q)
    /\ UNCHANGED <<events, healed, crashes, world>>

\* Mutant: a heartbeat is answered in any state.
ReceiveHeartbeatAlways(p) ==
    LET q == Other(p) IN
    /\ Running(q) /\ txn[p]["heartbeat"] = "requested"
    /\ SetTxn(p, "heartbeat", "answered")
    /\ TakeNode(q)
    /\ UNCHANGED <<events, orphans, healed, crashes, world>>

\* A heartbeat of p reaches q: answered when associated ("cannot handle"
\* otherwise); ogs_assert() expects the answer to be sent.
ReceiveHeartbeat(p) ==
    LET q == Other(p) IN
    /\ Running(q) /\ txn[p]["heartbeat"] = "requested"
    /\ \/ /\ SetTxn(p, "heartbeat", IF state[q] = "associated" THEN "answered" ELSE "ignored")
          /\ TakeNode(q)
          /\ UNCHANGED <<events, orphans, healed, crashes, world>>
       \/ /\ state[q] = "associated" /\ FALSE \in SendOutcomes
          /\ Abort(q)

\* A heartbeat of a former p.
ReceiveOrphanHeartbeat(p) ==
    LET q == Other(p) IN
    /\ Running(q) /\ "heartbeat" \in orphans[p]
    /\ \/ /\ orphans' = [orphans EXCEPT ![p] = @ \ {"heartbeat"}]
          /\ TakeNode(q)
          /\ UNCHANGED <<events, txn, healed, crashes, world>>
       \/ /\ state[q] = "associated" /\ FALSE \in SendOutcomes
          /\ Abort(q)

\* The answer to p's setup request, handled in either state.
ReceiveSetupResponse(p) ==
    /\ Running(p) /\ txn[p]["setup"] = "answered"
    /\ SetTxn(p, "setup", "none")
    /\ TakeSetup(p)
    /\ UNCHANGED <<events, orphans, healed, crashes, world>>

\* The answer to p's heartbeat: committed, and the timer starts again; in
\* will_associate "cannot handle" leaves the transaction.
ReceiveHeartbeatResponse(p) ==
    /\ Running(p) /\ txn[p]["heartbeat"] = "answered"
    /\ SetTxn(p, "heartbeat", "none")
    /\ timers' = IF state[p] = "associated"
                   THEN [timers EXCEPT ![p] = @ \cup {"no_heartbeat"}]
                   ELSE timers
    /\ UNCHANGED <<state, events, orphans, healed, crashes, world>>

\* The datagrams still in flight from a former p are lost.
LoseOrphans(p) ==
    /\ orphans[p] # {}
    /\ orphans' = [orphans EXCEPT ![p] = {}]
    /\ UNCHANGED <<state, timers, events, txn, healed, crashes, world>>

\* When a request of p can time out: its copies or answers are lost, or its peer
\* does not answer.
Unanswerable(p, kind) == \/ ~healed
                         \/ ~Running(Other(p))
                         \/ txn[p][kind] = "ignored" /\ ExchangeOver

\* Mutant: the timeout of a heartbeat is only logged.
RequestTimeoutLogged(p, kind) ==
    /\ Running(p) /\ txn[p][kind] # "none" /\ Unanswerable(p, kind)
    /\ SetTxn(p, kind, "none")
    /\ UNCHANGED <<state, timers, events, orphans, healed, crashes, world>>

\* response_timeout() gives up, and node_timeout() tells the state machine of a
\* heartbeat.
RequestTimeout(p, kind) ==
    /\ Running(p) /\ txn[p][kind] # "none" /\ Unanswerable(p, kind)
    /\ SetTxn(p, kind, "none")
    /\ IF kind = "heartbeat" THEN Post(p, "gone") ELSE events' = events
    /\ UNCHANGED <<state, timers, orphans, healed, crashes, world>>

\* response_timeout() when the retransmission cannot be sent: no callback.
RetransmitFails(p, kind) ==
    /\ Running(p) /\ txn[p][kind] # "none" /\ FALSE \in SendOutcomes
    /\ SetTxn(p, kind, "none")
    /\ UNCHANGED <<state, timers, events, orphans, healed, crashes, world>>

\* The network is healed: no loss and no failure from here on.
Heal ==
    /\ ~healed
    /\ healed' = TRUE
    /\ UNCHANGED <<state, timers, events, txn, orphans, crashes, world>>

Expire(p)  == AssociationTimer(p) \/ NoHeartbeatTimer(p)
Handle(p)  == HandleAssociation(p) \/ HandleNoHeartbeat(p) \/ HandleGone(p)
Receive(p) == \/ ReceiveSetup(p) \/ ReceiveHeartbeat(p) \/ ReceiveOrphanHeartbeat(p)
              \/ ReceiveSetupResponse(p) \/ ReceiveHeartbeatResponse(p)

Next ==
    \/ \E p \in Peers : \/ Start(p) \/ Crash(p) \/ Expire(p) \/ Handle(p) \/ Receive(p)
                        \/ LoseOrphans(p)
                        \/ \E k \in Kinds : RequestTimeout(p, k) \/ RetransmitFails(p, k)
    \/ Heal

Spec == Init /\ [][Next]_vars

\* Loops run: timers fire and events are handled.  A request is received, or
\* times out; what was sent on a healed network arrives.
Fairness ==
    \A p \in Peers :
        /\ WF_vars(AssociationTimer(p)) /\ WF_vars(NoHeartbeatTimer(p))
        /\ WF_vars(Handle(p))
        /\ WF_vars(ReceiveSetup(p)) /\ WF_vars(ReceiveHeartbeat(p))
        /\ WF_vars(ReceiveSetupResponse(p)) /\ WF_vars(ReceiveHeartbeatResponse(p))
        /\ WF_vars(LoseOrphans(p))
        /\ \A k \in Kinds : WF_vars(RequestTimeout(p, k))

FairSpec == Spec /\ Fairness

-----------------------------------------------------------------------------
States == {"stopped", "unknown", "will_associate", "associated"}

\* Bound on the queued events of one node: one of each timer and one "gone".
MaxEvents == 3

(* Type invariant; a configured peer always has a node.                    *)
TypeOK ==
    /\ state   \in [Peers -> States]
    /\ timers  \in [Peers -> SUBSET {"association", "no_heartbeat"}]
    /\ \A p \in Peers : /\ events[p] \in Seq({"association", "no_heartbeat", "gone"})
                        /\ Len(events[p]) <= MaxEvents
                        /\ p \in configured => state[p] # "unknown"
    /\ txn     \in [Peers -> [Kinds -> {"none", "requested", "answered", "ignored"}]]
    /\ orphans \in [Peers -> SUBSET Kinds]
    /\ healed \in BOOLEAN /\ sendFails \in SendFailures
    /\ configured \in Configurations
    /\ crashes \in 0 .. MaxCrashes

Queued(p, event) == \E i \in 1 .. Len(events[p]) : events[p][i] = event

\* What keeps p watching an associated peer.
Watching(p) == {w \in {"timer", "timer_event", "heartbeat", "gone"} :
    \/ w = "timer"       /\ "no_heartbeat" \in timers[p]
    \/ w = "timer_event" /\ Queued(p, "no_heartbeat")
    \/ w = "heartbeat"   /\ txn[p]["heartbeat"] # "none"
    \/ w = "gone"        /\ Queued(p, "gone")}

(* An associated peer is watched by one thing at a time, the timer, its     *)
(* event, an open heartbeat, or the event of an unanswered one, and by one  *)
(* at every moment when datagrams can be sent (RetransmitFails ends the     *)
(* watch).  A peer that is not associated is watched by none, so no late    *)
(* verdict ends an association that was made after it, and a configured one *)
(* will be asked again.                                                     *)
Watched ==
    \A p \in Peers :
        /\ \A v, w \in Watching(p) : v = w
        /\ state[p] = "associated" /\ ~sendFails => Watching(p) # {}
        /\ state[p] # "associated" => Watching(p) = {}
        /\ state[p] = "will_associate" /\ p \in configured
             => "association" \in timers[p] \/ Queued(p, "association")

(* A peer that stays dead is given up, when datagrams can be sent.         *)
DeadPeerNoticed ==
    \A p \in Peers :
        ~sendFails /\ state[p] = "associated" /\ ~Running(Other(p))
            ~> state[p] # "associated" \/ Running(Other(p))

Healthy    == healed /\ \A p \in Peers : Running(p)
Associated == \A p \in Peers : state[p] = "associated"

(* When the network has healed and both run, whatever happened before,     *)
(* they are associated in the end for good, if only one of them asks.      *)
StaysAssociated ==
    ~sendFails /\ configured # Peers /\ <>[]Healthy => <>[]Associated

(* If both ask, the heartbeat of one may meet the other while it asks,     *)
(* again and again; still they are associated again and again.             *)
Reassociated == ~sendFails /\ <>[]Healthy => []<>Associated

=============================================================================
