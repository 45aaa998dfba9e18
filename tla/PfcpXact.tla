------------------------------- MODULE PfcpXact -------------------------------
(***************************************************************************)
(* Request/response transactions over UDP between two PFCP peers           *)
(* (lib/pfcp/xact.c).  A peer retransmits a request every T1 ticks until   *)
(* N1 transmissions went unanswered; the other peer remembers a request    *)
(* for a holding time, to tell a retransmission from a new request and to  *)
(* send the same answer again.                                             *)
(*                                                                         *)
(* The network loses, duplicates and reorders datagrams; none survives     *)
(* MaxDelay ticks.  A timer fires at its expiry or up to Lag ticks later   *)
(* (the loop of the daemon is busy).  A transaction is found by its id in  *)
(* the list of requests this peer made (local) or in the list of requests  *)
(* it received (remote).  The layer above is part of the actions: a        *)
(* request it receives is answered at once or never, an answer it receives *)
(* is committed (which deletes the transaction) or left alone, as the      *)
(* association state machines do with what they do not expect.             *)
(***************************************************************************)
EXTENDS Integers

CONSTANTS Peers,         \* the two ends of the association
          Requesters,    \* those of them that make requests
          Types,         \* kinds of request
          MaxXid,        \* bound: requests of a peer between two restarts
          T1,            \* t1_response_duration
          Delays,        \* durations of ogs_pfcp_xact_delayed_commit() callers
          MaxDelay,      \* lifetime of a datagram
          Lag,           \* how late a timer may fire
          SendFails,     \* whether sendto() may fail
          MaxRestarts,   \* bound: restarts of the two peers together
          NULL

ASSUME XactAssumption ==
    /\ \E p, q \in Peers : p # q /\ Peers = {p, q}
    /\ Requesters \subseteq Peers
    /\ MaxXid \in Nat \ {0} /\ T1 \in Nat \ {0}
    /\ Delays \subseteq Nat \ {0}
    /\ MaxDelay \in Nat /\ Lag \in Nat /\ MaxRestarts \in Nat
    /\ SendFails \in BOOLEAN
    /\ NULL \notin [type : Types, step : Int, rcount : Int, response : Int, delayed : Int]
    /\ NULL \notin [type : Types, step : Int, rcount : Int, holding : Int]

\* The datagrams are short-lived and the loops prompt enough for the retry
\* counts of the code: the last of three copies, two timers late, arrives
\* before the holding time of the first one is over.
Prompt == MaxDelay + 2 * Lag < T1

Xids == 1 .. MaxXid

\* lib/app/ogs-context.c: n1_response_rcount, n1_holding_rcount and
\* t1_holding_duration = n1_response_rcount * t1_response_duration.
ResponseRcount == 3
HoldingRcount  == 1

\* Mutant: the holding time covers one transmission only.
T1HoldingOnce == T1

T1Holding == 3 * T1

Off == -Lag - 1      \* a timer that is not running

VARIABLES
    local,     \* local[p][x]: the transaction of p's request x, or NULL
    remote,    \* remote[p][x]: what p holds of the request x of its peer, or NULL
    lastXid,   \* g_xact_id of each peer
    net,       \* datagrams in flight
    outcome,   \* what the layer above p knows of p's request x
    handled,   \* how often p's peer passed p's request x to its layer above
               \* (2 stands for more than once)
    restarts

vars == <<local, remote, lastXid, net, outcome, handled, restarts>>

Other(p) == CHOOSE q \in Peers : q # p

Request(p, type, x)  == [kind |-> "request",  from |-> p, type |-> type, xid |-> x, ttl |-> MaxDelay]
Response(p, type, x) == [kind |-> "response", from |-> p, type |-> type, xid |-> x, ttl |-> MaxDelay]

Running(timer) == timer # Off
Expired(timer) == timer # Off /\ timer <= 0

SendOutcomes == IF SendFails THEN {TRUE, FALSE} ELSE {TRUE}

\* The transmission of m: the datagram leaves, or sendto() fails.
Transmit(m, sent) == net' = IF sent THEN net \cup {m} ELSE net

SetLocal(p, x, xact)  == local'  = [local  EXCEPT ![p][x] = xact]
SetRemote(p, x, xact) == remote' = [remote EXCEPT ![p][x] = xact]
Tell(p, x, what)      == outcome' = [outcome EXCEPT ![p][x] = what]

-----------------------------------------------------------------------------
Init ==
    /\ local    = [p \in Peers |-> [x \in Xids |-> NULL]]
    /\ remote   = [p \in Peers |-> [x \in Xids |-> NULL]]
    /\ lastXid  = [p \in Peers |-> 0]
    /\ net      = {}
    /\ outcome  = [p \in Peers |-> [x \in Xids |-> "none"]]
    /\ handled  = [p \in Peers |-> [x \in Xids |-> 0]]
    /\ restarts = 0

\* A new local transaction after its update_tx: one step made, no timer running.
Created(type) == [type |-> type, step |-> 1, rcount |-> ResponseRcount,
                  response |-> Off, delayed |-> Off]

\* Mutant: the request leaves but tm_response is not started.
CommitUntimed(p, x, xact, sent) ==
    /\ SetLocal(p, x, IF sent THEN [xact EXCEPT !.delayed = Off] ELSE NULL)
    /\ Transmit(Request(p, xact.type, x), sent)

\* ogs_pfcp_xact_commit() of an initial request: tm_response starts, the
\* request leaves; if it cannot, the transaction is deleted.
CommitRequest(p, x, xact, sent) ==
    /\ SetLocal(p, x, IF sent THEN [xact EXCEPT !.response = T1, !.delayed = Off] ELSE NULL)
    /\ Transmit(Request(p, xact.type, x), sent)

\* A request is created, built and committed; the caller sees a failure.
SendRequest(p, type) ==
    /\ lastXid[p] < MaxXid
    /\ \E sent \in SendOutcomes :
         LET x == lastXid[p] + 1 IN
         /\ lastXid' = [lastXid EXCEPT ![p] = x]
         /\ CommitRequest(p, x, Created(type), sent)
         /\ Tell(p, x, IF sent THEN "pending" ELSE "failed")
    /\ UNCHANGED <<remote, handled, restarts>>

\* smf_pfcp_send_modify_list() with a duration: committed later.
SendDelayed(p, type, duration) ==
    /\ lastXid[p] < MaxXid
    /\ LET x == lastXid[p] + 1 IN
         /\ lastXid' = [lastXid EXCEPT ![p] = x]
         /\ SetLocal(p, x, [Created(type) EXCEPT !.delayed = duration])
         /\ Tell(p, x, "pending")
    /\ UNCHANGED <<remote, net, handled, restarts>>

\* delayed_commit_timeout(): nobody looks at what the commit returns.  If an
\* answer to an earlier request with this id came first, it is that answer that
\* is committed, which deletes the transaction.
DelayedCommitTimeout(p, x) ==
    /\ local[p][x] # NULL /\ Expired(local[p][x].delayed)
    /\ \/ /\ local[p][x].step = 1
          /\ \E sent \in SendOutcomes : CommitRequest(p, x, local[p][x], sent)
       \/ /\ local[p][x].step = 2
          /\ SetLocal(p, x, NULL) /\ net' = net
    /\ UNCHANGED <<remote, lastXid, outcome, handled, restarts>>

\* Mutant: the transaction of an unanswered request is kept, its timer stopped.
GiveUpKept(p, x) ==
    /\ local[p][x] # NULL /\ Expired(local[p][x].response) /\ local[p][x].rcount = 1
    /\ Tell(p, x, "timeout")
    /\ SetLocal(p, x, [local[p][x] EXCEPT !.response = Off])
    /\ UNCHANGED <<remote, lastXid, net, handled, restarts>>

\* Mutant: the callback is not called.
GiveUpUntold(p, x) ==
    /\ local[p][x] # NULL /\ Expired(local[p][x].response) /\ local[p][x].rcount = 1
    /\ SetLocal(p, x, NULL)
    /\ UNCHANGED <<remote, lastXid, net, outcome, handled, restarts>>

\* response_timeout(), all transmissions unanswered: the callback, then delete.
GiveUp(p, x) ==
    /\ local[p][x] # NULL /\ Expired(local[p][x].response) /\ local[p][x].rcount = 1
    /\ Tell(p, x, "timeout")
    /\ SetLocal(p, x, NULL)
    /\ UNCHANGED <<remote, lastXid, net, handled, restarts>>

\* Mutant: one transmission too many, the counter reaches zero.
RetransmitOnce(p, x) ==
    /\ local[p][x] # NULL /\ Expired(local[p][x].response) /\ local[p][x].rcount > 0
    /\ Transmit(Request(p, local[p][x].type, x), TRUE)
    /\ SetLocal(p, x, [local[p][x] EXCEPT !.rcount = @ - 1, !.response = T1])
    /\ UNCHANGED <<remote, lastXid, outcome, handled, restarts>>

\* response_timeout(): the timer starts again and the request is sent again; if
\* sendto() fails the transaction is deleted and the callback is not called.
Retransmit(p, x) ==
    /\ local[p][x] # NULL /\ Expired(local[p][x].response) /\ local[p][x].rcount > 1
    /\ \E sent \in SendOutcomes :
         /\ Transmit(Request(p, local[p][x].type, x), sent)
         /\ SetLocal(p, x, IF sent
                             THEN [local[p][x] EXCEPT !.rcount = @ - 1, !.response = T1]
                             ELSE NULL)
    /\ UNCHANGED <<remote, lastXid, outcome, handled, restarts>>

\* Mutant: the holding timer is restarted without counting.
HoldingTimeoutRestarts(p, x) ==
    /\ remote[p][x] # NULL /\ Expired(remote[p][x].holding)
    /\ SetRemote(p, x, [remote[p][x] EXCEPT !.holding = T1Holding])
    /\ UNCHANGED <<local, lastXid, net, outcome, handled, restarts>>

\* holding_timeout(): the transaction is forgotten at the last expiry.
HoldingTimeout(p, x) ==
    /\ remote[p][x] # NULL /\ Expired(remote[p][x].holding)
    /\ SetRemote(p, x, IF remote[p][x].rcount > 1
                         THEN [remote[p][x] EXCEPT !.rcount = @ - 1, !.holding = T1Holding]
                         ELSE NULL)
    /\ UNCHANGED <<local, lastXid, net, outcome, handled, restarts>>

-----------------------------------------------------------------------------
\* A datagram is taken from the network, or a copy of it is.
Deliveries(m) == {net, net \ {m}}

Held(type, step) == [type |-> type, step |-> step, rcount |-> HoldingRcount,
                     holding |-> T1Holding]

\* The request is new here: ogs_pfcp_xact_remote_create(), update_rx and the
\* layer above, which sends an answer or does not.  An answer that cannot be
\* sent deletes the transaction.
NewRequest(q, m) ==
    LET p == m.from  x == m.xid IN
    /\ m.kind = "request" /\ remote[q][x] = NULL
    /\ handled' = [handled EXCEPT ![p][x] = IF @ = 2 THEN 2 ELSE @ + 1]
    /\ \E rest \in Deliveries(m) :
         \/ /\ SetRemote(q, x, Held(m.type, 1))
            /\ net' = rest
         \/ \E sent \in SendOutcomes :
              /\ SetRemote(q, x, IF sent THEN Held(m.type, 2) ELSE NULL)
              /\ net' = IF sent THEN rest \cup {Response(q, m.type, x)} ELSE rest
    /\ UNCHANGED <<local, lastXid, outcome, restarts>>

\* The same request again: answered again if it was answered, dropped otherwise.
DuplicateRequest(q, m) ==
    LET x == m.xid  r == remote[q][x] IN
    /\ m.kind = "request" /\ r # NULL
    /\ r.type = m.type
    /\ \E rest \in Deliveries(m), sent \in SendOutcomes :
         IF r.step = 2
           THEN /\ SetRemote(q, x, [r EXCEPT !.holding = T1Holding])
                /\ net' = IF sent THEN rest \cup {Response(q, m.type, x)} ELSE rest
           ELSE /\ remote' = remote
                /\ net' = rest
    /\ UNCHANGED <<local, lastXid, outcome, handled, restarts>>

\* Another request with the id of one that is held (its sender restarted):
\* "invalid step", both are dropped.
CollidingRequest(q, m) ==
    LET x == m.xid  r == remote[q][x] IN
    /\ m.kind = "request" /\ r # NULL
    /\ r.type # m.type
    /\ \E rest \in Deliveries(m) : net' = rest
    /\ SetRemote(q, x, NULL)
    /\ UNCHANGED <<local, lastXid, outcome, handled, restarts>>

\* Mutant: tm_response is not stopped when the answer arrives.
AnsweredStillTimed(p, m) ==
    LET x == m.xid  l == local[p][x] IN
    /\ m.kind = "response" /\ l # NULL /\ l.step = 1
    /\ \/ SetLocal(p, x, NULL) /\ Tell(p, x, "answered")
       \/ SetLocal(p, x, [l EXCEPT !.step = 2]) /\ Tell(p, x, "ignored")
    /\ \E rest \in Deliveries(m) : net' = rest
    /\ UNCHANGED <<remote, lastXid, handled, restarts>>

\* The answer to a request of p: tm_response stops, and the layer above commits
\* (the transaction is deleted) or ignores the message (it stays, untimed).
Answered(p, m) ==
    LET x == m.xid  l == local[p][x] IN
    /\ m.kind = "response" /\ l # NULL /\ l.step = 1
    /\ \/ SetLocal(p, x, NULL) /\ Tell(p, x, "answered")
       \/ SetLocal(p, x, [l EXCEPT !.step = 2, !.response = Off]) /\ Tell(p, x, "ignored")
    /\ \E rest \in Deliveries(m) : net' = rest
    /\ UNCHANGED <<remote, lastXid, handled, restarts>>

\* An answer nobody waits for.  With no local transaction a remote one is
\* created and deleted at once; with one that has its answer, "invalid step"
\* deletes it.
StrayResponse(p, m) ==
    LET x == m.xid  l == local[p][x] IN
    /\ m.kind = "response" /\ (l # NULL => l.step = 2)
    /\ SetLocal(p, x, NULL)
    /\ \E rest \in Deliveries(m) : net' = rest
    /\ UNCHANGED <<remote, lastXid, outcome, handled, restarts>>

\* ogs_pfcp_xact_receive().
Receive(m) ==
    LET to == Other(m.from) IN
    \/ NewRequest(to, m) \/ DuplicateRequest(to, m) \/ CollidingRequest(to, m)
    \/ Answered(to, m)   \/ StrayResponse(to, m)

-----------------------------------------------------------------------------
Live(f)   == {x \in Xids : f[x] # NULL}
Timers(p) == {local[p][x].response : x \in Live(local[p])}
             \cup {local[p][x].delayed : x \in Live(local[p])}
             \cup {remote[p][x].holding : x \in Live(remote[p])}

Older(timer) == IF timer = Off THEN Off ELSE timer - 1

\* Time passes, unless a timer is as late as it can be.
Tick ==
    /\ \A p \in Peers : \A timer \in Timers(p) : Running(timer) => timer > -Lag
    /\ local' = [p \in Peers |-> [x \in Xids |->
                    IF local[p][x] = NULL THEN NULL
                    ELSE [local[p][x] EXCEPT !.response = Older(@), !.delayed = Older(@)]]]
    /\ remote' = [p \in Peers |-> [x \in Xids |->
                    IF remote[p][x] = NULL THEN NULL
                    ELSE [remote[p][x] EXCEPT !.holding = Older(@)]]]
    /\ net' = {[m EXCEPT !.ttl = @ - 1] : m \in {n \in net : n.ttl > 0}}
    /\ UNCHANGED <<lastXid, outcome, handled, restarts>>

\* A peer stops and starts again: its lists are empty, its ids start over.
Restart(p) ==
    /\ restarts < MaxRestarts
    /\ restarts' = restarts + 1
    /\ local'   = [local   EXCEPT ![p] = [x \in Xids |-> NULL]]
    /\ remote'  = [remote  EXCEPT ![p] = [x \in Xids |-> NULL]]
    /\ lastXid' = [lastXid EXCEPT ![p] = 0]
    /\ outcome' = [outcome EXCEPT ![p] = [x \in Xids |-> "none"]]
    /\ handled' = [handled EXCEPT ![p] = [x \in Xids |-> 0]]
    /\ UNCHANGED net

Timeout(p, x) == \/ DelayedCommitTimeout(p, x)
                 \/ GiveUp(p, x) \/ Retransmit(p, x)
                 \/ HoldingTimeout(p, x)

Next == \/ \E p \in Requesters, type \in Types : SendRequest(p, type)
        \/ \E p \in Requesters, type \in Types, d \in Delays : SendDelayed(p, type, d)
        \/ \E p \in Peers, x \in Xids : Timeout(p, x)
        \/ \E m \in net : Receive(m)
        \/ Tick
        \/ \E p \in Peers : Restart(p)

Spec == Init /\ [][Next]_vars

\* Time does not stop and an expired timer fires (ogs_timer_mgr_expire() runs
\* in every turn of the loop).  The network owes nothing.
Fairness == /\ WF_vars(Tick)
            /\ \A p \in Peers, x \in Xids : WF_vars(Timeout(p, x))

FairSpec == Spec /\ Fairness

-----------------------------------------------------------------------------
LocalXact  == [type : Types, step : 1 .. 2, rcount : 1 .. ResponseRcount,
               response : Off .. T1, delayed : Int]
RemoteXact == [type : Types, step : 1 .. 2, rcount : 1 .. HoldingRcount,
               holding : Off .. T1Holding]
Datagram   == [kind : {"request", "response"}, from : Peers, type : Types,
               xid : Xids, ttl : 0 .. MaxDelay]
Outcomes   == {"none", "pending", "answered", "ignored", "timeout", "failed"}

LocalType  == local  \in [Peers -> [Xids -> LocalXact \cup {NULL}]]
RemoteType == remote \in [Peers -> [Xids -> RemoteXact \cup {NULL}]]
NetType    == net \in SUBSET Datagram
KnownType  == /\ lastXid \in [Peers -> 0 .. MaxXid]
              /\ outcome \in [Peers -> [Xids -> Outcomes]]
              /\ handled \in [Peers -> [Xids -> 0 .. 2]]
              /\ restarts \in 0 .. MaxRestarts

(* Type invariant: a running timer is never later than Lag, counters never *)
(* run below one in a live transaction.                                    *)
TypeOK == LocalType /\ RemoteType /\ NetType /\ KnownType

(* A request is passed to the layer above at most once, however often it   *)
(* was sent and duplicated: the holding time outlives the last copy.       *)
HandledAtMostOnce == \A p \in Peers, x \in Xids : handled[p][x] <= 1

\* The copies of p's request x in flight.
Copies(p, x) == {m \in net : m.kind = "request" /\ m.from = p /\ m.xid = x}

\* When the last copy of the request of l can arrive: the remaining expiries of
\* its timer, each late, then the longest delay.
LastArrival(l) == l.response + Lag + (IF l.rcount = 3 THEN T1 + Lag ELSE 0) + MaxDelay

\* A request that was not transmitted yet left no trace.
Untransmitted(p, x) == \/ x > lastXid[p]
                       \/ local[p][x] # NULL /\ Running(local[p][x].delayed)

NoTrace(p, x) ==
    Untransmitted(p, x) =>
        /\ handled[p][x] = 0 /\ Copies(p, x) = {}
        /\ local[p][x] # NULL => /\ x <= lastXid[p]
                                /\ ~Running(local[p][x].response)
                                /\ local[p][x].rcount = 3

\* Every trace of a request is of the same type.
OneType(p, x) ==
    /\ \A m, n \in Copies(p, x) : n.type = m.type
    /\ local[p][x] # NULL => \A m \in Copies(p, x) : local[p][x].type = m.type
    /\ remote[Other(p)][x] # NULL => \A m \in Copies(p, x) : remote[Other(p)][x].type = m.type
    /\ local[p][x] # NULL /\ remote[Other(p)][x] # NULL
         => local[p][x].type = remote[Other(p)][x].type

HeldIfHandled(p, x) == handled[p][x] = 0 => remote[Other(p)][x] = NULL

\* The receiver of p's request x remembers it for longer than d.
HeldBeyond(p, x, d) == /\ remote[Other(p)][x] # NULL
                       /\ remote[Other(p)][x].holding > d

CopiesOutlived(p, x) ==
    handled[p][x] # 0 =>
        /\ \A m \in Copies(p, x) : HeldBeyond(p, x, m.ttl)
        /\ local[p][x] # NULL /\ Running(local[p][x].response) /\ local[p][x].rcount > 1
             => HeldBeyond(p, x, LastArrival(local[p][x]))

(* While a copy of a request that was handled is in flight, or can still   *)
(* be sent, its receiver remembers the request, and for longer than that   *)
(* copy can take: the reason why the retry counts and the holding time of  *)
(* the code fit together.                                                  *)
HoldingOutlivesCopies ==
    \A p \in Peers, x \in Xids :
        NoTrace(p, x) /\ OneType(p, x) /\ HeldIfHandled(p, x) /\ CopiesOutlived(p, x)

(* A local transaction does not disappear before the layer above knows how *)
(* its request ended (cb: "Local timer expiration handler").               *)
EndIsTold ==
    \A p \in Peers, x \in Xids : outcome[p][x] = "pending" => local[p][x] # NULL

(* A live transaction of p has a timer that will end it, or has its answer *)
(* and was abandoned by the layer above: nothing else can leak.            *)
OnlyIgnoredLeak ==
    \A p \in Peers : \A x \in Live(local[p]) :
        \/ Running(local[p][x].response) \/ Running(local[p][x].delayed)
        \/ local[p][x].step = 2 /\ outcome[p][x] = "ignored"

(* What a request looks like from above: see RequestReply.                 *)
Abstract == INSTANCE RequestReply

ImplementsRequestReply == Abstract!RRSpec

(* Every request comes to an end: an answer, or the timeout callback.      *)
EveryRequestEnds ==
    \A p \in Peers, x \in Xids : outcome[p][x] = "pending" ~> outcome[p][x] # "pending"

(* Nothing is held forever: what a peer remembers of a request goes away.  *)
HeldIsForgotten ==
    \A p \in Peers, x \in Xids : []<>(remote[p][x] = NULL)

=============================================================================
