------------------------------ MODULE GtpCommand ------------------------------
(***************************************************************************)
(* A bearer change asked by a UE, over GTPv2-C: the MME sends a Bearer     *)
(* Resource Command to the SGW-C, which sends one to the SMF; the SMF      *)
(* refuses with a Failure Indication, or triggers an Update Bearer Request *)
(* that travels back to the MME, whose response travels to the SMF.        *)
(*                                                                         *)
(* The transactions of lib/gtp/xact.c that carry it: those of the command  *)
(* (Mme, S5c) are local to their sender, those held by its receiver (S11,  *)
(* Smf) are remote.  S11 and an S5c are the legs of the SGW-C, linked by   *)
(* ogs_gtp_xact_associate().  A copy of the command that comes when S11 is *)
(* gone is forwarded again, in another S5c with an id of its own.  When    *)
(* the trigger finds its link gone, the SGW-C sends a request of its own   *)
(* (S11n), which the MME holds in a transaction Mmen.                      *)
(*                                                                         *)
(* Datagrams are lost, repeated, overtaken, or delayed up to MaxDelay      *)
(* ticks.  A timer fires up to Lag ticks late.  A failed ogs_assert()      *)
(* stops its daemon.  One command is followed, of the kind that the SMF    *)
(* answers at once: not the deletion of the last packet filter.            *)
(***************************************************************************)
EXTENDS Integers, FiniteSets

CONSTANTS T3,          \* t3_response_duration
          MaxDelay,    \* lifetime of a datagram
          Lag,         \* how late a timer may fire
          MaxForwards, \* bound on the commands the SGW-C sends
          NULL

\* reply is an Update Bearer Response that accepts, error one that does not.
Messages == {"command", "trigger", "failure", "reply", "error"}
Answers  == {"reply", "error"}

\* Prompt: the last of three copies of a message arrives before the holding
\* time of the first one is over.
ASSUME GtpAssumption ==
    /\ T3 \in Nat /\ MaxDelay \in Nat /\ Lag \in Nat /\ MaxForwards \in Nat
    /\ MaxDelay + 2 * Lag < T3
    /\ NULL \notin [last : Messages, rcount : Int, response : Int, holding : Int]

\* lib/app/ogs-context.c: n3_response_rcount; n3_holding_rcount is 1.
N3ResponseRcount == 3

\* How long a message is sent again.
Patience == N3ResponseRcount * T3

\* Mutant: the holding time covers one transmission only.
T3HoldingOnce == T3

T3Holding == N3ResponseRcount * T3

Off == -Lag - 1      \* a timer that is not running

Forwards == 1 .. MaxForwards

Mme     == <<"mme", 0>>
S11     == <<"s11", 0>>
S5c(g)  == <<"s5c", g>>
Smf(g)  == <<"smf", g>>
S11n(g) == <<"s11n", g>>
Mmen(g) == <<"mmen", g>>
None    == <<"none", 0>>

Xacts == {Mme, S11} \cup ({"s5c", "smf", "s11n", "mmen"} \X Forwards)
Legs  == {S11} \cup {S11n(g) : g \in Forwards}    \* what an S5c may be linked to

Daemons == {"mme", "sgwc", "smf"}

DaemonOf(x) == CASE x[1] \in {"mme", "mmen"}        -> "mme"
                 [] x[1] \in {"s11", "s11n", "s5c"} -> "sgwc"
                 [] x[1] = "smf"                    -> "smf"

\* The transaction with the same id at the other end.
PeerOf(x) == CASE x = Mme       -> S11
               [] x = S11       -> Mme
               [] x[1] = "s5c"  -> Smf(x[2])
               [] x[1] = "smf"  -> S5c(x[2])
               [] x[1] = "s11n" -> Mmen(x[2])
               [] x[1] = "mmen" -> S11n(x[2])

VARIABLES
    xact,       \* xact[x]: the transaction, or NULL; last is seq[step - 1].type,
                \* which tells its step too
    assoc,      \* assoc[g]: assoc_xact of S5c(g), a leg of S11 or None
    forwards,   \* how many S5c the SGW-C made
    net,        \* datagrams in flight; one may arrive any number of times, so
                \* the copies of a message are one, with the life of the last
    outcome,    \* what the MME knows of its command
    answered,   \* an Update Bearer Response answered the trigger
    update,     \* bearer->update.xact of the MME, or None
    asked,      \* NAS requests that the UE has not answered
    accepted,   \* the UE accepted one
    modified,   \* the SMF modified the bearer in the user plane
    down,       \* daemons stopped by an assertion
    age         \* ticks since the command was sent, up to Patience

nas  == <<update, asked, accepted>>
vars == <<xact, assoc, forwards, net, outcome, answered, nas, modified, down, age>>

Running(timer) == timer # Off
Expired(timer) == Running(timer) /\ timer <= 0

Live(x)  == xact[x] # NULL
At(x, S) == Live(x) /\ xact[x].last \in S

\* The network n after x sends m.
Send(n, x, m) == {d \in n : d.from # x \/ d.msg # m}
                     \cup {[from |-> x, msg |-> m, ttl |-> MaxDelay]}

\* ogs_gtp_xact_update_tx() and commit() of a message that waits for an answer,
\* and of one that does not.
Waiting(m, holding) == [last |-> m, rcount |-> N3ResponseRcount,
                        response |-> T3, holding |-> holding]
Held(m, holding)    == [last |-> m, rcount |-> N3ResponseRcount,
                        response |-> Off, holding |-> holding]

\* Mutant: a deleted transaction stays linked to the other one.
StillLinked(X) == assoc

\* assoc after ogs_gtp_xact_delete() of the transactions X.
Unlinked(X) == [g \in Forwards |-> IF S5c(g) \in X \/ assoc[g] \in X THEN None ELSE assoc[g]]

Delete(x) == /\ xact'  = [xact EXCEPT ![x] = NULL]
             /\ assoc' = Unlinked({x})

\* A failed assertion: the process is gone, and its transactions with it.
Abort(d) == LET X == {x \in Xacts : DaemonOf(x) = d} IN
            /\ down'  = down \cup {d}
            /\ xact'  = [x \in Xacts |-> IF x \in X THEN NULL ELSE xact[x]]
            /\ assoc' = Unlinked(X)

-----------------------------------------------------------------------------
Init == /\ xact = [x \in Xacts |-> NULL] /\ assoc = [g \in Forwards |-> None]
        /\ forwards = 0 /\ net = {}
        /\ outcome = "idle" /\ answered = FALSE
        /\ update = None /\ asked = 0 /\ accepted = FALSE
        /\ modified = FALSE
        /\ down = {} /\ age = 0

\* mme_gtp_send_bearer_resource_command().
SendCommand ==
    /\ outcome = "idle"
    /\ outcome' = "pending"
    /\ xact' = [xact EXCEPT ![Mme] = Waiting("command", Off)]
    /\ net' = Send(net, Mme, "command")
    /\ UNCHANGED <<answered, assoc, forwards, nas, modified, down, age>>

\* Mutant: the last copy is sent again.
RetransmitLast(x) ==
    /\ Expired(xact[x].response) /\ xact[x].rcount > 0
    /\ xact' = [xact EXCEPT ![x].rcount = @ - 1, ![x].response = T3]
    /\ net' = Send(net, x, xact[x].last)
    /\ UNCHANGED <<answered, assoc, forwards, outcome, nas, modified, down, age>>

\* response_timeout() while copies are left: the last message is sent again.
Retransmit(x) ==
    /\ Expired(xact[x].response) /\ xact[x].rcount > 1
    /\ xact' = [xact EXCEPT ![x].rcount = @ - 1, ![x].response = T3]
    /\ net' = Send(net, x, xact[x].last)
    /\ UNCHANGED <<answered, assoc, forwards, outcome, nas, modified, down, age>>

\* The first timer is called back and the second one was not collected by the
\* same ogs_timer_mgr_expire(): it is due later and is not past due.
Alone(first, second) ==
    Expired(first) /\ (Running(second) => first <= second /\ second >= 0)

\* response_timeout() of the last copy: the callback, which does nothing but
\* log, and the transaction is deleted.
GiveUp(x) ==
    /\ xact[x].rcount = 1 /\ Alone(xact[x].response, xact[x].holding)
    /\ Delete(x)
    /\ outcome' = IF x = Mme THEN "timeout" ELSE outcome
    /\ UNCHANGED <<answered, forwards, net, nas, modified, down, age>>

\* Mutant: the holding timer is stopped and the transaction stays.
HoldingTimeoutKept(x) ==
    /\ Alone(xact[x].holding, xact[x].response)
    /\ xact' = [xact EXCEPT ![x].holding = Off]
    /\ UNCHANGED <<answered, assoc, forwards, net, outcome, nas, modified, down, age>>

\* holding_timeout(): n3_holding_rcount is 1, the transaction is deleted.
HoldingTimeout(x) ==
    /\ Alone(xact[x].holding, xact[x].response)
    /\ Delete(x)
    /\ UNCHANGED <<answered, forwards, net, outcome, nas, modified, down, age>>

\* ogs_timer_mgr_expire() collected both timers of a transaction and the first
\* callback deletes it: ogs_timer_stop() of the second one finds no timer.
StaleTimer(x) ==
    LET r == xact[x].response  h == xact[x].holding IN
    /\ Expired(r) /\ Expired(h)
    /\ h <= r \/ xact[x].rcount = 1
    /\ Abort(DaemonOf(x))
    /\ UNCHANGED <<answered, forwards, net, outcome, nas, modified, age>>

Expire(x) == Live(x) /\ (Retransmit(x) \/ GiveUp(x) \/ HoldingTimeout(x) \/ StaleTimer(x))

-----------------------------------------------------------------------------
(***************************************************************************)
(* What a message does to the transaction x it is for.  A message that is  *)
(* dropped, or for which a transaction is made and deleted at once, leaves *)
(* no trace and has no action.                                             *)
(***************************************************************************)

\* ogs_gtp_xact_update_rx() of a message this transaction answered: the answer
\* is sent again and held again.
Duplicate(x, answers) ==
    /\ At(x, answers)
    /\ xact' = [xact EXCEPT ![x].holding = T3Holding]
    /\ net' = Send(net, x, xact[x].last)
    /\ UNCHANGED <<answered, assoc, forwards, outcome, nas, modified, down, age>>

\* A message at another step than that of the transaction ("invalid step").
Stray(x) ==
    /\ Live(x) /\ Delete(x)
    /\ UNCHANGED <<answered, forwards, net, outcome, nas, modified, down, age>>

\* Both handlers of the command answer what they cannot do with a Failure
\* Indication.
RefuseCommand(x) ==
    /\ ~Live(x)
    /\ xact' = [xact EXCEPT ![x] = Held("failure", T3Holding)]
    /\ net' = Send(net, x, "failure")
    /\ UNCHANGED <<answered, assoc, forwards, outcome, nas, modified, down, age>>

\* Mutant: the transaction of a copy is not found.
ForwardCommandAgain ==
    LET g == forwards + 1 IN
    /\ forwards < MaxForwards
    /\ forwards' = g
    /\ xact' = [xact EXCEPT ![S11] = Held("command", T3Holding),
                            ![S5c(g)] = Waiting("command", Off)]
    /\ assoc' = [assoc EXCEPT ![g] = S11]
    /\ net' = Send(net, S5c(g), "command")
    /\ UNCHANGED <<answered, outcome, nas, modified, down, age>>

\* sgwc_s11_handle_bearer_resource_command(): the command is forwarded in a
\* transaction with a new id, the two are linked.
ForwardCommand ==
    LET g == forwards + 1 IN
    /\ ~Live(S11) /\ forwards < MaxForwards
    /\ forwards' = g
    /\ xact' = [xact EXCEPT ![S11] = Held("command", T3Holding),
                            ![S5c(g)] = Waiting("command", Off)]
    /\ assoc' = [assoc EXCEPT ![g] = S11]
    /\ net' = Send(net, S5c(g), "command")
    /\ UNCHANGED <<answered, outcome, nas, modified, down, age>>

\* smf_s5c_handle_bearer_resource_command(): an Update Bearer Request.
ExecuteCommand(x) ==
    /\ ~Live(x)
    /\ xact' = [xact EXCEPT ![x] = Waiting("trigger", T3Holding)]
    /\ net' = Send(net, x, "trigger")
    /\ UNCHANGED <<answered, assoc, forwards, outcome, nas, modified, down, age>>

\* The transaction of a command after update_rx(), which stops its response
\* timer, and after m has been received or sent in it.
Stopped(x, m, holding) == [last |-> m, rcount |-> xact[x].rcount,
                           response |-> Off, holding |-> holding]
Triggered(x, m)        == Stopped(x, m, T3Holding)

\* sgwc_s5c_handle_update_bearer_request(): the trigger goes on in the linked
\* transaction; if that is gone, in a request of the SGW-C.
ForwardTrigger(g) ==
    /\ At(S5c(g), {"command"})
    /\ \/ /\ assoc[g] = S11
          /\ xact' = [xact EXCEPT ![S5c(g)] = Triggered(S5c(g), "trigger"),
                                  ![S11].last = "trigger", ![S11].response = T3]
          /\ assoc' = assoc
          /\ net' = Send(net, S11, "trigger")
       \/ /\ assoc[g] = None
          /\ xact' = [xact EXCEPT ![S5c(g)]  = Triggered(S5c(g), "trigger"),
                                  ![S11n(g)] = Waiting("trigger", Off)]
          /\ assoc' = [assoc EXCEPT ![g] = S11n(g)]
          /\ net' = Send(net, S11n(g), "trigger")
    /\ UNCHANGED <<answered, forwards, outcome, nas, modified, down, age>>

\* The same handler when the bearer is not known: the SGW-C answers, and the
\* linked transaction stays as it is.
RejectTrigger(g) ==
    /\ At(S5c(g), {"command"})
    /\ xact' = [xact EXCEPT ![S5c(g)] = Triggered(S5c(g), "error")]
    /\ net' = Send(net, S5c(g), "error")
    /\ answered' = TRUE
    /\ UNCHANGED <<assoc, forwards, outcome, nas, modified, down, age>>

\* sgwc_s5c_handle_bearer_resource_failure_indication(): update_rx stopped
\* tm_response, nobody commits S5c; ogs_assert(s11_xact).
ForwardFailure(g) ==
    /\ At(S5c(g), {"command"})
    /\ \/ /\ assoc[g] = S11
          /\ xact' = [xact EXCEPT ![S5c(g)] = Stopped(S5c(g), "failure", @.holding),
                                  ![S11].last = "failure"]
          /\ net' = Send(net, S11, "failure")
          /\ UNCHANGED <<assoc, down>>
       \/ /\ assoc[g] = None
          /\ Abort("sgwc")
          /\ UNCHANGED net
    /\ UNCHANGED <<answered, forwards, outcome, nas, modified, age>>

\* The MME's transaction for an Update Bearer Request in which m was sent last:
\* the one of its command, or one made for a request of the SGW-C.
Requested(x, m) == IF x = Mme THEN Triggered(x, m) ELSE Held(m, T3Holding)

MayAsk(x) == IF x = Mme THEN At(x, {"command"}) ELSE ~Live(x)

\* Mutant: the MME answers before the UE does.
AskUeAnswered(x) ==
    /\ MayAsk(x)
    /\ xact' = [xact EXCEPT ![x] = Requested(x, "reply")]
    /\ net' = Send(net, x, "reply")
    /\ update' = x
    /\ answered' = TRUE
    /\ UNCHANGED <<assoc, forwards, outcome, asked, accepted, modified, down, age>>

\* mme_s11_handle_update_bearer_request(): the UE is asked, the request having
\* QoS or filters.  An older transaction is no longer pointed to.
AskUe(x) ==
    /\ MayAsk(x)
    /\ xact' = [xact EXCEPT ![x] = Requested(x, "trigger")]
    /\ update' = x
    /\ asked <= MaxForwards /\ asked' = asked + 1
    /\ UNCHANGED <<answered, assoc, forwards, net, outcome, accepted, modified, down, age>>

\* The same handler when the UE or the bearer is not known.
RejectRequest(x) ==
    /\ MayAsk(x)
    /\ xact' = [xact EXCEPT ![x] = Requested(x, "error")]
    /\ net' = Send(net, x, "error")
    /\ answered' = TRUE
    /\ UNCHANGED <<assoc, forwards, outcome, nas, modified, down, age>>

\* mme_s11_handle_bearer_resource_failure_indication(): commit deletes.
Refused ==
    /\ At(Mme, {"command"})
    /\ Delete(Mme)
    /\ outcome' = "refused"
    /\ UNCHANGED <<answered, forwards, net, nas, modified, down, age>>

\* sgwc_s11_handle_update_bearer_response(): ogs_assert(s5c_xact); the S11 leg
\* is committed, which deletes it, and the answer goes on in the other one.
ForwardAnswer(leg, m) ==
    /\ \/ \E g \in Forwards :
            /\ assoc[g] = leg
            /\ xact' = [xact EXCEPT ![leg] = NULL, ![S5c(g)].last = m]
            /\ assoc' = [assoc EXCEPT ![g] = None]
            /\ net' = Send(net, S5c(g), m)
            /\ UNCHANGED down
       \/ /\ \A g \in Forwards : assoc[g] # leg
          /\ Abort("sgwc")
          /\ UNCHANGED net
    /\ UNCHANGED <<answered, forwards, outcome, nas, modified, age>>

\* smf_s5c_handle_update_bearer_response(): ogs_assert(gtp_flags), which only an
\* Update Bearer Request sets; commit deletes, an accepted bearer is modified.
ModifyBearer(g, m) ==
    \/ /\ At(Smf(g), {"trigger"})
       /\ Delete(Smf(g))
       /\ modified' = (modified \/ m = "reply")
       /\ UNCHANGED <<answered, forwards, net, outcome, nas, down, age>>
    \/ /\ At(Smf(g), {"failure"})
       /\ Abort("smf")
       /\ UNCHANGED <<answered, forwards, net, outcome, nas, modified, age>>

\* ogs_gtp_xact_receive() and the handlers of the three daemons.
Handle(x, m) ==
    \/ /\ m = "command"
       /\ \/ Duplicate(x, {"trigger", "failure"})
          \/ RefuseCommand(x)
          \/ x = S11 /\ ForwardCommand
          \/ x[1] = "smf" /\ ExecuteCommand(x)
    \/ /\ m = "trigger"
       /\ \/ Duplicate(x, Answers)
          \/ x[1] = "s5c" /\ (ForwardTrigger(x[2]) \/ RejectTrigger(x[2]))
          \/ x[1] \in {"mme", "mmen"} /\ (AskUe(x) \/ RejectRequest(x))
          \/ At(x, {"failure"}) /\ Stray(x)
    \/ /\ m = "failure"
       /\ \/ x[1] = "s5c" /\ ForwardFailure(x[2])
          \/ x = Mme /\ Refused
          \/ ~At(x, {"command"}) /\ Stray(x)
    \/ /\ m \in Answers
       /\ \/ x = S11 /\ At(x, {"trigger", "failure"}) /\ ForwardAnswer(x, m)
          \/ x[1] = "s11n" /\ Live(x) /\ ForwardAnswer(x, m)
          \/ x[1] = "smf" /\ ModifyBearer(x[2], m)
          \/ At(x, {"command"}) /\ Stray(x)

Receive == \E d \in net : /\ DaemonOf(PeerOf(d.from)) \notin down
                          /\ Handle(PeerOf(d.from), d.msg)

\* esm_state_active(), Modify EPS Bearer Context Accept, and
\* mme_gtp_send_update_bearer_response(): nothing is sent if the transaction is
\* gone; ogs_assert() that update_tx of a live one succeeds.
UeAccepts ==
    /\ asked > 0 /\ "mme" \notin down
    /\ asked' = asked - 1 /\ accepted' = TRUE
    /\ \/ /\ ~Live(update)
          /\ UNCHANGED <<xact, assoc, net, answered, down>>
       \/ /\ At(update, {"trigger"})
          /\ xact' = [xact EXCEPT ![update].last = "reply"]
          /\ net' = Send(net, update, "reply")
          /\ answered' = TRUE
          /\ UNCHANGED <<assoc, down>>
       \/ /\ At(update, Answers)
          /\ Abort("mme")
          /\ UNCHANGED <<net, answered>>
    /\ UNCHANGED <<forwards, outcome, update, modified, age>>

-----------------------------------------------------------------------------
Older(timer) == IF timer = Off THEN Off ELSE timer - 1

\* Time passes, unless a timer is as late as it can be.
Tick ==
    /\ \A x \in Xacts : Live(x) =>
         \A timer \in {xact[x].response, xact[x].holding} : Running(timer) => timer > -Lag
    /\ xact' = [x \in Xacts |->
                  IF ~Live(x) THEN NULL
                  ELSE [xact[x] EXCEPT !.response = Older(@), !.holding = Older(@)]]
    /\ net' = {[d EXCEPT !.ttl = @ - 1] : d \in {d \in net : d.ttl > 0}}
    /\ age' = IF outcome = "idle" \/ age = Patience THEN age ELSE age + 1
    /\ UNCHANGED <<answered, assoc, forwards, outcome, nas, modified, down>>

Next == \/ SendCommand
        \/ \E x \in Xacts : Expire(x)
        \/ Receive
        \/ UeAccepts
        \/ Tick

Spec == Init /\ [][Next]_vars

\* Time goes on: it passes, or the timers it waits for fire.  Network and UE owe
\* nothing.
Fairness == WF_vars(Tick \/ \E x \in Xacts : Expire(x))

FairSpec == Spec /\ Fairness

-----------------------------------------------------------------------------
Transaction == [last : Messages, rcount : 1 .. N3ResponseRcount,
                response : Off .. T3, holding : Off .. T3Holding]

(* Type invariant: no timer is later than Lag, no counter runs below one.  *)
TypeOK ==
    /\ xact \in [Xacts -> Transaction \cup {NULL}]
    /\ assoc \in [Forwards -> Legs \cup {None}]
    /\ forwards \in 0 .. MaxForwards
    /\ net \subseteq [from : Xacts, msg : Messages, ttl : 0 .. MaxDelay]
    /\ outcome \in {"idle", "pending", "timeout", "refused"} /\ answered \in BOOLEAN
    /\ update \in {x \in Xacts : DaemonOf(x) = "mme"} \cup {None}
    /\ asked \in 0 .. (MaxForwards + 1) /\ (asked > 0 => update # None)
    /\ accepted \in BOOLEAN /\ modified \in BOOLEAN
    /\ down \subseteq Daemons /\ age \in 0 .. Patience

(* assoc_xact never dangles, a leg has one partner, and each carries the   *)
(* step the other one is at, whichever copies of the command, the trigger  *)
(* and the answers come in between: what one handler does with the         *)
(* transaction of another message.                                         *)
LegsAgree ==
    \A g \in Forwards :
      /\ assoc[g] # None => Live(S5c(g)) /\ Live(assoc[g])
      /\ assoc[g] = S11 =>
           /\ \/ xact[S11].last = xact[S5c(g)].last
              \/ At(S11, {"command"}) /\ At(S5c(g), {"error"})
           /\ \A h \in Forwards : assoc[h] = S11 => h = g
      /\ assoc[g] # None /\ assoc[g] # S11 =>
           assoc[g] = S11n(g) /\ At(S11n(g), {"trigger"}) /\ At(S5c(g), {"trigger"})

Late == age = Patience

(* Until the MME has answered, or has stopped sending it, a command is     *)
(* forwarded to the SMF once: nothing but the answer makes the SGW-C       *)
(* forget it, whatever is sent again on either interface.                  *)
HeldUntilAnswered == forwards > 1 => answered \/ Late

(* The three ends agree: the user plane is modified only if the UE         *)
(* accepted, and never if the MME was told that the command is refused.    *)
ModifiedIfAccepted ==
    /\ modified => accepted
    /\ outcome = "refused" => ~modified /\ update = None

(* No assertion fails while the command is undecided: what the handlers    *)
(* assert of each other's transactions (assoc_xact # NULL, gtp_flags) and  *)
(* the timers of each other holds while the command can still succeed.     *)
AbortsOnlyLate == down # {} => answered \/ Late

\* The S5 leg of a refused command: tm_response stopped, tm_holding not started.
Abandoned(x) == x[1] = "s5c" /\ ~Running(xact[x].response) /\ ~Running(xact[x].holding)

(* Every daemon forgets the command and what it was answered, except the   *)
(* S5 leg of a command the SMF refused, which nobody commits.              *)
Forgotten == <>[](\A x \in Xacts : Live(x) => Abandoned(x))

=============================================================================
