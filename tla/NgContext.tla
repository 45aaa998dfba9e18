------------------------------- MODULE NgContext -------------------------------
(***************************************************************************)
(* The AMF's view of a UE and of its signalling connection: an amf_ue_t    *)
(* per subscriber, a ran_ue_t (context) per connection of a gNB, and the   *)
(* two pointers between them.                                              *)
(*                                                                         *)
(* A context is taken from a pool by an InitialUEMessage and given back    *)
(* when a gNB completes a release, when its holding timer fires, when the  *)
(* gNB resets or its connection is lost.  The NAS message travels through  *)
(* the AMF's own event queue, so others are handled in between.  Before    *)
(* some releases the sessions of the UE are updated in the SMF, whose      *)
(* answers come when they come.  ran_ue of an amf_ue_t may outlive its     *)
(* context and then the place it points to is another one's.               *)
(*                                                                         *)
(* A first message the AMF cannot use leaves a context without a UE and    *)
(* without a timer: only its gNB can end it.                               *)
(*                                                                         *)
(* Handovers are not modelled.  A failed ogs_assert() stops the AMF:       *)
(* aborted names it.                                                       *)
(***************************************************************************)
EXTENDS Naturals, Sequences, FiniteSets, SequencesExt

CONSTANTS Gnbs, Subs,
          Contexts,    \* the places of ran_ue_pool
          Ues,         \* the places of amf_ue_pool
          MaxQueue,    \* gNBs send while the event queue is shorter
          MaxMessages, \* messages of gNBs
          MaxUpdates,  \* updates in progress at a time
          NULL

ASSUME NgAssumption == /\ MaxQueue \in Nat \ {0} /\ MaxMessages \in Nat /\ MaxUpdates \in Nat
                       /\ IsFiniteSet(Contexts)
                       /\ NULL \notin Gnbs \cup Subs \cup Contexts \cup Ues

\* ue_ctx_rel_action: none, NG_CONTEXT_REMOVE, NG_REMOVE_AND_UNLINK and
\* UE_CONTEXT_REMOVE.
Actions == {"none", "context", "unlink", "ue"}

\* What the AMF awaits of the SMF for the sessions of a UE, of the PCF after it,
\* and of the AUSF, the UDM and the PCF for its registration.
UpdateKinds == {"deactivated", "removed", "released", "deregistered", "registered"}

VARIABLES
    ran,       \* ran[c]: the memory of a place; cut: its gNB was removed
    free,      \* ran_ue_pool: the free places, in the order they are given out
    ue,        \* ue[u]: an amf_ue_t; ran is its raw pointer
    pending,   \* pending[u]: the updates in progress for it
    radio,     \* radio[g][c]: the connection of gNB g with AMF_UE_NGAP_ID c
    queue,     \* the AMF's events
    sent,      \* messages the gNBs have sent
    aborted    \* the assertion that failed

vars == <<ran, free, ue, pending, radio, queue, sent, aborted>>

\* Handlers are written as functions of what they read and change.
Now == [ran |-> ran, free |-> free, ue |-> ue, pending |-> pending, radio |-> radio,
        queue |-> queue]

Becomes(w) == /\ ran' = w.ran /\ free' = w.free /\ ue' = w.ue
              /\ pending' = w.pending /\ radio' = w.radio /\ queue' = w.queue

Commits(w) == Becomes(w) /\ UNCHANGED <<sent, aborted>>

\* The pools of a process that starts; the gNBs have no connection then.
Started == [ran     |-> [c \in Contexts |->
                           [live |-> FALSE, gnb |-> NULL, ue |-> NULL, action |-> "none",
                            holding |-> FALSE, cut |-> FALSE]],
            free    |-> SetToSeq(Contexts),
            ue      |-> [u \in Ues |-> [live |-> FALSE, ran |-> NULL, sub |-> NULL]],
            pending |-> [u \in Ues |-> {}],
            radio   |-> [g \in Gnbs |-> [c \in Contexts |-> "none"]],
            queue   |-> <<>>]

\* A failed assertion: the process is gone, with what it knew.
Abort(assertion) == Becomes(Started) /\ aborted' = assertion /\ UNCHANGED sent

-----------------------------------------------------------------------------
(* The pools and the two pointers.                                         *)

\* ran_ue_add(): the place is cleared.
AddRan(w, c, g) ==
    [w EXCEPT !.ran[c] = [live |-> TRUE, gnb |-> g, ue |-> NULL, action |-> "none",
                          holding |-> FALSE, cut |-> FALSE],
              !.free = Tail(@), !.radio[g][c] = "known"]

\* Mutant: the timer of the context is not deleted.
FreedTimerKept(r) == [r EXCEPT !.live = FALSE, !.gnb = NULL, !.action = "none", !.cut = FALSE]

\* What ran_ue_remove() leaves in a place: its timer is deleted, the pointer to the
\* UE stays (so do other fields nobody reads before the place is cleared).
Freed(r) == [r EXCEPT !.live = FALSE, !.gnb = NULL, !.action = "none",
                     !.holding = FALSE, !.cut = FALSE]

\* ran_ue_remove().
RemoveRan(w, c) == [w EXCEPT !.ran[c] = Freed(@), !.free = Append(@, c)]

\* amf_ue_associate_ran_ue(), ran_ue_deassociate() and amf_ue_deassociate().
Associate(w, u, c) == [w EXCEPT !.ue[u].ran = c, !.ran[c].ue = u]
Detach(w, c)       == [w EXCEPT !.ran[c].ue = NULL]
Unlink(w, u)       == [w EXCEPT !.ue[u].ran = NULL]

\* amf_ue_add() and amf_ue_remove(), which ends the transactions.
AddUe(w, u)    == [w EXCEPT !.ue[u] = [live |-> TRUE, ran |-> NULL, sub |-> NULL]]
RemoveUe(w, u) == [w EXCEPT !.ue[u] = [live |-> FALSE, ran |-> NULL, sub |-> NULL],
                            !.pending[u] = {}]

\* An existing context the gNB uses for a new connection; a command that is under
\* way still reaches the gNB.
ReuseRan(w, c, g) == [w EXCEPT !.radio[g][c] = IF @ = "none" THEN "known" ELSE @]

\* Mutant: a pointer is taken for a connection.
ConnectedOnce(w, u) == w.ue[u].ran # NULL

\* CM_CONNECTED(): the place the pointer names is in use.
Connected(w, u) == w.ue[u].ran # NULL /\ w.ran[w.ue[u].ran].live

\* Mutant: the holding timer is not started.
CommandUntimed(w, c, action) ==
    [w EXCEPT !.ran[c].action = action,
              !.radio[w.ran[c].gnb][c] = IF @ = "none" THEN @ ELSE "released"]

\* ngap_send_ran_ue_context_release_command(): the gNB is told, if it is there
\* and knows the connection, and the holding timer is started.
Command(w, c, action) ==
    [w EXCEPT !.ran[c].action = action, !.ran[c].holding = TRUE,
              !.radio[w.ran[c].gnb][c] =
                  IF @ = "none" \/ w.ran[c].cut THEN @ ELSE "released"]

\* The gNB of c has been removed: the command fails, or it goes to a gNB that was
\* given the same place since and does not know the connection.
Unreachable(w, c) == w.ran[c].cut

\* A command to the context the UE has now is asserted to be sent; next is the state
\* after it.
Asserted(w, u, next, assertion) ==
    \/ Commits(next)
    \/ Connected(w, u) /\ Unreachable(w, w.ue[u].ran) /\ Abort(assertion)

\* ngap_send_amf_ue_context_release_command(): on the context the UE has now.
Release(w, u, action) ==
    IF Connected(w, u) THEN Command(w, w.ue[u].ran, action) ELSE w

\* Mutant: the old context keeps its pointer to the UE.
MoveKeepingOld(w, u, c) ==
    Associate(IF Connected(w, u) THEN Command(w, w.ue[u].ran, "context") ELSE w, u, c)

\* The UE is given the context c; the one it has is left and released.
Move(w, u, c) ==
    LET old  == w.ue[u].ran
        left == IF Connected(w, u) THEN Command(Detach(w, old), old, "context") ELSE w
    IN Associate(left, u, c)

Known(s) == {u \in Ues : ue[u].live /\ ue[u].sub = s /\ s # NULL}

-----------------------------------------------------------------------------
(* Events and the gNBs.                                                    *)

Initial(g, s, tmsi) == [type |-> "initial", gnb |-> g, sub |-> s, tmsi |-> tmsi]
Gmm(c, s)           == [type |-> "5gmm", ran |-> c, sub |-> s]
OfContext(type, c)  == [type |-> type, ran |-> c]
OfGnb(type, g)      == [type |-> type, gnb |-> g]

Pushes(e) == queue' = Append(queue, e)

Sends(e) == /\ aborted = NULL /\ Len(queue) < MaxQueue
            /\ sent < MaxMessages /\ sent' = sent + 1
            /\ Pushes(e)
            /\ UNCHANGED <<ran, free, ue, pending, aborted>>

\* A UE sends its first message on a new connection, naming itself by S-TMSI
\* (in NGAP and NAS), in NAS only, or by an identity unknown to this AMF.
SendInitial(g) ==
    \E s \in Subs \cup {NULL}, tmsi \in BOOLEAN :
        /\ tmsi => s # NULL
        /\ Sends(Initial(g, s, tmsi))
        /\ UNCHANGED radio

SendUplink(g, c) ==
    /\ radio[g][c] \in {"known", "released"}        \* before it reads the command
    /\ \E type \in {"uplink", "setup failure", "release request"} :
           Sends(OfContext(type, c))
    /\ UNCHANGED radio

SendComplete(g, c) ==
    /\ radio[g][c] = "released"
    /\ Sends(OfContext("complete", c))
    /\ radio' = [radio EXCEPT ![g][c] = "none"]

SendPartialReset(g, c) ==
    /\ radio[g][c] \in {"known", "released"}
    /\ Sends(OfContext("partial reset", c))
    /\ radio' = [radio EXCEPT ![g][c] = "none"]

\* The gNB resets the interface, or its SCTP association is lost.
LoseAll(g) ==
    /\ \E type \in {"reset", "refused"} : Sends(OfGnb(type, g))
    /\ radio' = [radio EXCEPT ![g] = [c \in Contexts |-> "none"]]

\* Mutant: the event is dropped when the queue is long.
HoldingDropped(c) ==
    /\ aborted = NULL
    /\ ran[c].holding
    /\ ran' = [ran EXCEPT ![c].holding = FALSE]
    /\ queue' = IF Len(queue) < MaxQueue THEN Append(queue, OfContext("holding", c)) ELSE queue
    /\ UNCHANGED <<free, ue, pending, radio, sent, aborted>>

\* amf_timer_ng_holding_timer_expire(), 30 s after the command: an event of
\* the previous expiry has been handled by then.
HoldingExpires(c) ==
    /\ aborted = NULL
    /\ ran[c].holding
    /\ \A i \in DOMAIN queue : queue[i] # OfContext("holding", c)
    /\ ran' = [ran EXCEPT ![c].holding = FALSE]
    /\ Pushes(OfContext("holding", c))
    /\ UNCHANGED <<free, ue, pending, radio, sent, aborted>>

-----------------------------------------------------------------------------
(* Handlers of the AMF.  What a UE has in the SMF is not modelled: each use *)
(* may find a session there, and starts an update, or none.                *)

Takes(type) == /\ aborted = NULL
               /\ queue # <<>> /\ Head(queue).type = type

Popped == [Now EXCEPT !.queue = Tail(@)]

Pushed(w, e) == [w EXCEPT !.queue = Append(@, e)]

\* The bound on the updates in progress.
Few(w) == Cardinality({p \in Ues \X UpdateKinds : p[2] \in w.pending[p[1]]}) <= MaxUpdates

\* An update of kind update is sent for the UE u.
Updates(w, u, update) ==
    LET w1 == [w EXCEPT !.pending[u] = @ \cup {update}] IN Few(w1) /\ Commits(w1)

\* ngap_send_to_nas(): the message is queued for the state machine of the UE, or it is
\* refused (a location or a NAS PDU is missing, a header or a MAC is wrong).
ToNas(w, c, s) == {w, Pushed(w, Gmm(c, s))}

\* ngap_handle_initial_ue_message(), with ran_ue_add() and ngap_send_to_nas(): the gNB
\* has a context with that RAN-UE-NGAP-ID, the pool is empty, or a context is added.
InitialUeMessage ==
    /\ Takes("initial")
    /\ LET e == Head(queue)
           c == Head(free)
           w == AddRan(Popped, c, e.gnb)
       IN \/ \E d \in Contexts :
                /\ ran[d].live /\ ran[d].gnb = e.gnb /\ ~ran[d].cut
                /\ \E v \in ToNas(ReuseRan(Popped, d, e.gnb), d, e.sub) : Commits(v)
          \/ free = <<>> /\ Commits(Popped)
          \/ /\ free # <<>> /\ (~e.tmsi \/ Known(e.sub) = {})
             /\ \E v \in ToNas(w, c, e.sub) : Commits(v)
          \/ /\ free # <<>> /\ e.tmsi
             /\ \E u \in Known(e.sub), v \in ToNas(w, c, e.sub) :
                   Asserted(v, u, Move(v, u, c), "release command")

\* ngap_handle_uplink_nas_transport().  The message names the UE or not.
UplinkNasTransport ==
    /\ Takes("uplink")
    /\ LET c == Head(queue).ran
           u == ran[c].ue
       IN \/ Commits(Popped)
          \/ /\ ran[c].live /\ u # NULL
             /\ \E s \in {ue[u].sub, NULL} : \E w \in ToNas(Popped, c, s) : Commits(w)

\* amf_ue_set_suci(): the UE turns out to be s.  Another amf_ue_t of s is removed
\* with the context it points to; its sessions are moved, with the updates whose
\* answers do not look at the state of the UE.
SetSuci(w, u, s) ==
    LET others == {v \in Ues \ {u} : w.ue[v].live /\ w.ue[v].sub = s}
        takeover(v) ==
            LET released == IF Connected(w, v) THEN RemoveRan(w, w.ue[v].ran) ELSE w
                moved    == w.pending[v] \cap {"deactivated", "removed"}
            IN RemoveUe([released EXCEPT !.pending[u] = @ \cup moved], v)
        w1 == IF others = {} THEN w ELSE takeover(CHOOSE v \in others : TRUE)
    IN [w1 EXCEPT !.ue[u].sub = s]

\* gmm_state_exception entered: the sessions are released first.
Excepts(w, u) ==
    \/ Updates(w, u, "released")
    \/ Asserted(w, u, Release(w, u, "ue"), "release command")

\* What the state machine of the UE makes of a message: nothing here, a step of its
\* registration, an identity, an exception, a deregistration request with or without sessions, or the end of
\* a deregistration by the network, whose context the UE still points to.
GmmMessage(w, u) ==
    \/ Commits(w)
    \/ Updates(w, u, "registered")
    \/ \E s \in Subs : w.ue[u].sub = NULL /\ Commits(SetSuci(w, u, s))
    \/ Excepts(w, u)
    \/ Updates(w, u, "deregistered")
    \/ Asserted(w, u, Release(w, u, "unlink"), "deregistration accept")
    \/ Asserted(w, u, Command(Detach(w, w.ue[u].ran), w.ue[u].ran, "context"),
                "release command")

\* ogs_fsm_dispatch(): the state machine of a removed UE is in its final state.
Dispatch(w, u) ==
    IF ~w.ue[u].live THEN Commits(w)
    ELSE IF ~Connected(w, u) THEN Abort("5GMM message")
    ELSE GmmMessage(w, u)

\* AMF_EVENT_5GMM_MESSAGE.  The context may have been freed since.  A message that
\* cannot be decoded, or whose MAC is not the one of the UE it names, is dropped.
FivegmmMessage ==
    /\ Takes("5gmm")
    /\ LET e == Head(queue)
           c == e.ran
       IN \/ Commits(Popped)
          \/ ran[c].ue # NULL /\ Dispatch(Popped, ran[c].ue)
          \/ /\ ran[c].ue = NULL
             /\ \E u \in Known(e.sub) : Dispatch(Move(Popped, u, c), u)
          \/ /\ ran[c].ue = NULL /\ Known(e.sub) = {}
             /\ \E u \in Ues : ~ue[u].live /\ Dispatch(Associate(AddUe(Popped, u), u, c), u)
          \/ /\ ran[c].ue = NULL /\ Known(e.sub) = {} /\ \A u \in Ues : ue[u].live
             /\ IF ran[c].live THEN Commits(Command(Popped, c, "context"))
                               ELSE Abort("timer of a freed context")

\* ngap_handle_ue_context_release_action(): a freed place is left alone, and one
\* nobody commanded.
ReleaseAction(c) ==
    LET u == ran[c].ue
        w == RemoveRan(Popped, c)
    IN IF ~ran[c].live \/ ran[c].action = "none" THEN Popped
       ELSE IF u = NULL \/ ran[c].action = "context" THEN w
       ELSE IF ran[c].action = "unlink" THEN Unlink(w, u)
       ELSE RemoveUe(w, u)

ReleaseComplete ==
    /\ Takes("complete") \/ Takes("holding")
    /\ Commits(ReleaseAction(Head(queue).ran))

\* ngap_handle_initial_context_setup_failure().
SetupFailure ==
    /\ Takes("setup failure")
    /\ LET c == Head(queue).ran
       IN \/ ~ran[c].live /\ Commits(Popped)
          \/ ran[c].live /\ ran[c].ue # NULL /\ Updates(Popped, ran[c].ue, "deactivated")
          \/ ran[c].live /\ Commits(Command(Popped, c, "context"))
          \/ ran[c].live /\ Unreachable(Popped, c) /\ Abort("release command")

\* ngap_handle_ue_context_release_request().
ReleaseRequest ==
    /\ Takes("release request")
    /\ LET c == Head(queue).ran
           u == ran[c].ue
       IN \/ ~ran[c].live /\ Commits(Popped)
          \/ ran[c].live /\ u = NULL /\ Commits(Command(Popped, c, "context"))
          \/ ran[c].live /\ u = NULL /\ Unreachable(Popped, c) /\ Abort("release command")
          \/ ran[c].live /\ u # NULL /\ Updates(Popped, u, "deactivated")
          \/ /\ ran[c].live /\ u # NULL
             /\ Asserted(Popped, u, Release(Popped, u, "unlink"), "release command")

\* amf_sbi_send_deactivate_all_ue_in_gnb(): contexts whose UE has sessions wait
\* for the SMF, the others are removed with the pointers of their UEs.
DeactivateAll(g, withSessions) ==
    LET mine    == {c \in Contexts : ran[c].live /\ ran[c].gnb = g /\ ~ran[c].cut}
        waiting == {c \in mine : ran[c].ue \in withSessions}
        owners  == {ran[c].ue : c \in mine \ waiting}
    IN [Popped EXCEPT
          !.ran = [c \in Contexts |-> IF c \in mine \ waiting
                                      THEN Freed(ran[c]) ELSE ran[c]],
          !.free = @ \o SetToSeq(mine \ waiting),
          !.ue = [u \in Ues |-> IF u \in owners THEN [ue[u] EXCEPT !.ran = NULL] ELSE ue[u]],
          !.pending = [u \in Ues |-> IF \E c \in waiting : ran[c].ue = u
                                     THEN pending[u] \cup {"removed"} ELSE pending[u]]]

\* NG Reset of the whole interface.
NgReset ==
    /\ Takes("reset")
    /\ \E sessions \in SUBSET Ues :
          LET w == DeactivateAll(Head(queue).gnb, sessions) IN Few(w) /\ Commits(w)

\* AMF_EVENT_NGAP_LO_CONNREFUSED: the gNB is removed, the contexts that wait keep
\* their pointer to it.
ConnectionRefused ==
    /\ Takes("refused")
    /\ \E sessions \in SUBSET Ues :
          LET g == Head(queue).gnb
              w == DeactivateAll(g, sessions)
          IN Few(w) /\ Commits([w EXCEPT !.ran = [c \in Contexts |->
                        [w.ran[c] EXCEPT !.cut = @ \/ (w.ran[c].live /\ w.ran[c].gnb = g)]]])

\* NG Reset of one connection: its UE must be there, and keeps its pointer to the
\* context unless the SMF is asked.
PartialReset ==
    /\ Takes("partial reset")
    /\ LET c == Head(queue).ran
       IN \/ ~ran[c].live /\ Commits(Popped)
          \/ ran[c].live /\ ran[c].ue = NULL /\ Abort("partial reset")
          \/ ran[c].live /\ ran[c].ue # NULL /\ Updates(Popped, ran[c].ue, "removed")
          \/ ran[c].live /\ ran[c].ue # NULL /\ Commits(RemoveRan(Popped, c))

\* The last update of a kind is answered, and acts on the context the UE has now.  Two
\* of the three procedures behind "removed" then assert that the gNB of that context
\* has a reset acknowledgement that can be sent, which is left open here.
Answered(u, update) ==
    /\ aborted = NULL
    /\ update \in pending[u]
    /\ LET w == [Now EXCEPT !.pending[u] = @ \ {update}]
       IN \/ update = "registered" /\ Commits(w)
          \/ /\ update = "deactivated"
             /\ Asserted(w, u, Release(w, u, "unlink"), "release command")
          \/ update = "released" /\ Asserted(w, u, Release(w, u, "ue"), "release command")
          \/ /\ update = "removed"
             /\ Commits(Unlink(IF Connected(w, u) THEN RemoveRan(w, w.ue[u].ran) ELSE w, u))
          \/ update = "removed" /\ Connected(w, u) /\ Abort("reset acknowledgement")
          \/ /\ update = "deregistered" /\ Connected(w, u)
             /\ Asserted(w, u, Release(w, u, "unlink"), "deregistration accept")
          \/ update = "deregistered" /\ ~Connected(w, u) /\ Abort("deregistration accept")

\* An update is refused, or its client-wait timer expires, where the UE of the
\* session is not looked up before an error indication is sent for it.
Failed(u, update) ==
    /\ aborted = NULL
    /\ update \in pending[u]
    /\ LET w == [Now EXCEPT !.pending[u] = @ \ {update}]
       IN IF update = "registered" THEN Excepts(w, u)
                                   ELSE Commits(w) \/ Abort("error indication")

-----------------------------------------------------------------------------
Init == /\ ran = Started.ran /\ free = Started.free /\ ue = Started.ue
        /\ pending = Started.pending /\ radio = Started.radio /\ queue = Started.queue
        /\ sent = 0 /\ aborted = NULL

Handle == \/ InitialUeMessage \/ UplinkNasTransport \/ FivegmmMessage
          \/ ReleaseComplete \/ SetupFailure \/ ReleaseRequest
          \/ NgReset \/ ConnectionRefused \/ PartialReset

Next == \/ Handle
        \/ \E g \in Gnbs : SendInitial(g) \/ LoseAll(g)
        \/ \E g \in Gnbs, c \in Contexts :
              SendUplink(g, c) \/ SendComplete(g, c) \/ SendPartialReset(g, c)
        \/ \E c \in Contexts : HoldingExpires(c)
        \/ \E u \in Ues, update \in UpdateKinds : Answered(u, update) \/ Failed(u, update)

Spec == Init /\ [][Next]_vars

-----------------------------------------------------------------------------
\* The variables keep their types, and a freed context has no running timer.
TypeOK ==
    /\ ran \in [Contexts -> [live : BOOLEAN, gnb : Gnbs \cup {NULL}, ue : Ues \cup {NULL},
                             action : Actions, holding : BOOLEAN, cut : BOOLEAN]]
    /\ free \in Seq(Contexts)
    /\ ue \in [Ues -> [live : BOOLEAN, ran : Contexts \cup {NULL}, sub : Subs \cup {NULL}]]
    /\ pending \in [Ues -> SUBSET UpdateKinds]
    /\ radio \in [Gnbs -> [Contexts -> {"none", "known", "released"}]]
    /\ \A c \in Contexts : ran[c].holding => ran[c].live

Exact(w) ==
    /\ \A i, j \in DOMAIN w.free : w.free[i] = w.free[j] => i = j
    /\ \A c \in Contexts : w.ran[c].live <=> \A i \in DOMAIN w.free : w.free[i] # c

\* A place is in the pool once when it is free and never when it is in use, whatever
\* order completes, expiries, resets and answers come in.
PlacesExact == Exact(Now)

PointsBack(w) ==
    \A c \in Contexts :
        w.ran[c].live /\ w.ran[c].ue # NULL =>
            w.ue[w.ran[c].ue].live /\ w.ue[w.ran[c].ue].ran = c

\* A context in use never names a removed UE, nor a UE that has another context:
\* at most one connection acts for a UE.
RanPointsBack == PointsBack(Now)

Awaited(w, c, types) ==
    \E i \in DOMAIN w.queue : w.queue[i].type \in types /\ w.queue[i].ran = c

Leaving(w) ==
    \A c \in Contexts : w.ran[c].live /\ w.ran[c].action # "none" =>
        w.ran[c].holding \/ Awaited(w, c, {"holding"})

\* A context the AMF has released is on its way out even when its gNB never answers,
\* and even when it is given to a UE again in the meantime.
CommandedLeaves == Leaving(Now)

Reach(w) ==
    \A c \in Contexts : w.ran[c].live /\ w.ran[c].ue = NULL =>
        \/ ~w.ran[c].cut
        \/ w.ran[c].holding \/ Awaited(w, c, {"holding"})

\* A context that no UE owns is never out of reach of everything that could end it: its
\* gNB is there, whose reset or lost connection removes it, or it is on its way out.
OrphansInReach == Reach(Now)

=============================================================================
