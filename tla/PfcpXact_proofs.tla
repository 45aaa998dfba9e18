--------------------------- MODULE PfcpXact_proofs ---------------------------
(***************************************************************************)
(* Theorems about PFCP transactions, for any number of requests, any       *)
(* retransmission interval, any datagram lifetime and any delay of the     *)
(* timers.                                                                 *)
(***************************************************************************)
EXTENDS PfcpXact, TLAPS

LEMMA OtherPeer == \A p \in Peers : /\ Other(p) \in Peers /\ Other(p) # p
                                    /\ Other(Other(p)) = p
                                    /\ \A q \in Peers : q = p \/ q = Other(p)
  BY XactAssumption DEF Other

LEMMA Durations == /\ T1 \in Nat /\ T1 > 0 /\ Lag \in Nat /\ MaxDelay \in Nat
                   /\ Delays \subseteq Int /\ Off \in Int /\ Off < -Lag
  BY XactAssumption DEF Off

-----------------------------------------------------------------------------
(* Type correctness, one lemma for each way a variable is assigned.        *)

LEMMA SetLocalType ==
  ASSUME LocalType, NEW p \in Peers, NEW x \in Xids, NEW xact \in LocalXact \cup {NULL},
         SetLocal(p, x, xact)
  PROVE  LocalType'
  BY DEF LocalType, SetLocal

LEMMA SetRemoteType ==
  ASSUME RemoteType, NEW p \in Peers, NEW x \in Xids, NEW xact \in RemoteXact \cup {NULL},
         SetRemote(p, x, xact)
  PROVE  RemoteType'
  BY DEF RemoteType, SetRemote

LEMMA CreatedType ==
  ASSUME NEW type \in Types
  PROVE  /\ Created(type) \in LocalXact
         /\ \A d \in Int : [Created(type) EXCEPT !.delayed = d] \in LocalXact
  BY Durations DEF Created, LocalXact, ResponseRcount

LEMMA HeldType ==
  ASSUME NEW type \in Types, NEW step \in 1 .. 2
  PROVE  Held(type, step) \in RemoteXact
  BY Durations DEF Held, RemoteXact, HoldingRcount, T1Holding

LEMMA RequestType ==
  ASSUME NEW p \in Peers, NEW type \in Types, NEW x \in Xids
  PROVE  Request(p, type, x) \in Datagram /\ Response(p, type, x) \in Datagram
  BY Durations DEF Request, Response, Datagram

LEMMA RetimedType ==
  ASSUME NEW xact \in LocalXact, NEW response \in Off .. T1, NEW delayed \in Int
  PROVE  [xact EXCEPT !.response = response, !.delayed = delayed] \in LocalXact
  BY DEF LocalXact

LEMMA CountedType ==
  ASSUME NEW xact \in LocalXact, NEW response \in Off .. T1, NEW rcount \in 1 .. ResponseRcount
  PROVE  [xact EXCEPT !.rcount = rcount, !.response = response] \in LocalXact
  BY DEF LocalXact

LEMMA SteppedType ==
  ASSUME NEW xact \in LocalXact, NEW response \in Off .. T1
  PROVE  [xact EXCEPT !.step = 2, !.response = response] \in LocalXact
<1>1. 2 \in 1 .. 2 OBVIOUS
<1> QED BY <1>1 DEF LocalXact

LEMMA TimerValues == Off \in Off .. T1 /\ T1 \in Off .. T1 /\ Off \in Int
  BY Durations

LEMMA CommitRequestType ==
  ASSUME LocalType, NetType, NEW p \in Peers, NEW x \in Xids,
         NEW xact \in LocalXact, NEW sent \in BOOLEAN, CommitRequest(p, x, xact, sent)
  PROVE  LocalType' /\ NetType'
<1>1. [xact EXCEPT !.response = T1, !.delayed = Off] \in LocalXact
  BY RetimedType, TimerValues
<1>2. LocalType' BY <1>1, SetLocalType DEF CommitRequest
<1>3. xact.type \in Types BY DEF LocalXact
<1>4. NetType' BY <1>3, RequestType DEF CommitRequest, Transmit, NetType
<1> QED BY <1>2, <1>4

(* Every step keeps the lists, the datagrams and the counters in their     *)
(* domains: no live transaction has an exhausted retry counter, no timer   *)
(* is later than Lag.                                                      *)
THEOREM TypeCorrect == Spec => []TypeOK
<1> USE OtherPeer
<1>1. Init => TypeOK
  BY XactAssumption DEF Init, TypeOK, LocalType, RemoteType, NetType, KnownType, Outcomes
<1>2. TypeOK /\ [Next]_vars => TypeOK'
  <2> SUFFICES ASSUME LocalType, RemoteType, NetType, KnownType, [Next]_vars
               PROVE  LocalType' /\ RemoteType' /\ NetType' /\ KnownType'
    BY DEF TypeOK
  <2>1. ASSUME NEW p \in Requesters, NEW type \in Types, SendRequest(p, type)
        PROVE  LocalType' /\ RemoteType' /\ NetType' /\ KnownType'
    <3>a. lastXid[p] + 1 \in Xids /\ p \in Peers
      BY <2>1, XactAssumption DEF SendRequest, KnownType, Xids
    <3>b. PICK sent \in BOOLEAN : CommitRequest(p, lastXid[p] + 1, Created(type), sent)
      BY <2>1 DEF SendRequest, SendOutcomes
    <3>1. LocalType' BY <3>a, <3>b, CreatedType, CommitRequestType
    <3>2. RemoteType' BY <2>1 DEF SendRequest, RemoteType
    <3>3. NetType' BY <3>a, <3>b, CreatedType, CommitRequestType
    <3>4. KnownType' BY <2>1, <3>a DEF SendRequest, KnownType, Outcomes, Tell, Xids
    <3> QED BY <3>1, <3>2, <3>3, <3>4
  <2>2. ASSUME NEW p \in Requesters, NEW type \in Types, NEW d \in Delays, SendDelayed(p, type, d)
        PROVE  LocalType' /\ RemoteType' /\ NetType' /\ KnownType'
    <3>a. lastXid[p] + 1 \in Xids /\ p \in Peers
      BY <2>2, XactAssumption DEF SendDelayed, KnownType, Xids
    <3>1. LocalType' BY <2>2, <3>a, Durations, CreatedType, SetLocalType DEF SendDelayed
    <3>2. RemoteType' BY <2>2 DEF SendDelayed, RemoteType
    <3>3. NetType' BY <2>2 DEF SendDelayed, NetType
    <3>4. KnownType' BY <2>2, <3>a DEF SendDelayed, KnownType, Outcomes, Tell, Xids
    <3> QED BY <3>1, <3>2, <3>3, <3>4
  <2>3. ASSUME NEW p \in Peers, NEW x \in Xids, DelayedCommitTimeout(p, x)
        PROVE  LocalType' /\ RemoteType' /\ NetType' /\ KnownType'
    <3>a. \/ \E sent \in BOOLEAN : CommitRequest(p, x, local[p][x], sent)
          \/ SetLocal(p, x, NULL) /\ net' = net
      BY <2>3 DEF DelayedCommitTimeout, SendOutcomes
    <3>b. local[p][x] \in LocalXact
      BY <2>3 DEF DelayedCommitTimeout, LocalType
    <3>1. LocalType' BY <3>a, <3>b, CommitRequestType, SetLocalType
    <3>2. RemoteType' BY <2>3 DEF DelayedCommitTimeout, RemoteType
    <3>3. NetType' BY <3>a, <3>b, CommitRequestType DEF NetType
    <3>4. KnownType' BY <2>3 DEF DelayedCommitTimeout, KnownType
    <3> QED BY <3>1, <3>2, <3>3, <3>4
  <2>4. ASSUME NEW p \in Peers, NEW x \in Xids, GiveUp(p, x)
        PROVE  LocalType' /\ RemoteType' /\ NetType' /\ KnownType'
    <3>1. LocalType' BY <2>4, SetLocalType DEF GiveUp
    <3>2. RemoteType' BY <2>4 DEF GiveUp, RemoteType
    <3>3. NetType' BY <2>4 DEF GiveUp, NetType
    <3>4. KnownType' BY <2>4 DEF GiveUp, KnownType, Outcomes, Tell
    <3> QED BY <3>1, <3>2, <3>3, <3>4
  <2>5. ASSUME NEW p \in Peers, NEW x \in Xids, Retransmit(p, x)
        PROVE  LocalType' /\ RemoteType' /\ NetType' /\ KnownType'
    <3>a. local[p][x] \in LocalXact /\ local[p][x].rcount > 1
      BY <2>5 DEF Retransmit, LocalType
    <3>b. local[p][x].rcount - 1 \in 1 .. ResponseRcount
      BY <3>a DEF LocalXact, ResponseRcount
    <3>d. [local[p][x] EXCEPT !.rcount = @ - 1, !.response = T1] \in LocalXact
      BY <3>a, <3>b, CountedType, TimerValues
    <3>c. local[p][x].type \in Types BY <3>a DEF LocalXact
    <3>1. LocalType' BY <2>5, <3>d, SetLocalType DEF Retransmit
    <3>2. RemoteType' BY <2>5 DEF Retransmit, RemoteType
    <3>3. NetType' BY <2>5, <3>c, RequestType DEF Retransmit, Transmit, NetType
    <3>4. KnownType' BY <2>5 DEF Retransmit, KnownType
    <3> QED BY <3>1, <3>2, <3>3, <3>4
  <2>6. ASSUME NEW p \in Peers, NEW x \in Xids, HoldingTimeout(p, x)
        PROVE  LocalType' /\ RemoteType' /\ NetType' /\ KnownType'
    <3>a. remote[p][x] \in RemoteXact /\ ~(remote[p][x].rcount > 1)
      BY <2>6 DEF HoldingTimeout, RemoteType, RemoteXact, HoldingRcount
    <3>1. LocalType' BY <2>6 DEF HoldingTimeout, LocalType
    <3>2. RemoteType' BY <2>6, <3>a, SetRemoteType DEF HoldingTimeout
    <3>3. NetType' BY <2>6 DEF HoldingTimeout, NetType
    <3>4. KnownType' BY <2>6 DEF HoldingTimeout, KnownType
    <3> QED BY <3>1, <3>2, <3>3, <3>4
  <2>7. ASSUME NEW m \in net, NewRequest(Other(m.from), m)
        PROVE  LocalType' /\ RemoteType' /\ NetType' /\ KnownType'
    <3>a. /\ m \in Datagram /\ m.from \in Peers /\ m.xid \in Xids /\ m.type \in Types
          /\ Other(m.from) \in Peers
      BY DEF NetType, Datagram
    <3>1. LocalType' BY <2>7 DEF NewRequest, LocalType
    <3>2. RemoteType' BY <2>7, <3>a, HeldType, SetRemoteType DEF NewRequest
    <3>3. NetType' BY <2>7, <3>a, RequestType DEF NewRequest, Deliveries, NetType
    <3>4. KnownType'
      <4>1. handled' \in [Peers -> [Xids -> 0 .. 2]]
        <5>1. handled[m.from][m.xid] \in 0 .. 2 BY <3>a DEF KnownType
        <5> QED BY <2>7, <3>a, <5>1 DEF NewRequest, KnownType
      <4> QED BY <2>7, <4>1 DEF NewRequest, KnownType
    <3> QED BY <3>1, <3>2, <3>3, <3>4
  <2>8. ASSUME NEW m \in net, DuplicateRequest(Other(m.from), m)
        PROVE  LocalType' /\ RemoteType' /\ NetType' /\ KnownType'
    <3>a. /\ m \in Datagram /\ m.from \in Peers /\ m.xid \in Xids /\ m.type \in Types
          /\ Other(m.from) \in Peers
      BY DEF NetType, Datagram
    <3>b. [remote[Other(m.from)][m.xid] EXCEPT !.holding = T1Holding] \in RemoteXact
      BY <2>8, <3>a, Durations DEF DuplicateRequest, RemoteType, RemoteXact, T1Holding
    <3>1. LocalType' BY <2>8 DEF DuplicateRequest, LocalType
    <3>2. RemoteType' BY <2>8, <3>a, <3>b, SetRemoteType DEF DuplicateRequest, RemoteType
    <3>3. NetType' BY <2>8, <3>a, RequestType DEF DuplicateRequest, Deliveries, NetType
    <3>4. KnownType' BY <2>8 DEF DuplicateRequest, KnownType
    <3> QED BY <3>1, <3>2, <3>3, <3>4
  <2>9. ASSUME NEW m \in net, CollidingRequest(Other(m.from), m)
        PROVE  LocalType' /\ RemoteType' /\ NetType' /\ KnownType'
    <3>a. /\ m \in Datagram /\ m.from \in Peers /\ m.xid \in Xids /\ m.type \in Types
          /\ Other(m.from) \in Peers
      BY DEF NetType, Datagram
    <3>1. LocalType' BY <2>9 DEF CollidingRequest, LocalType
    <3>2. RemoteType' BY <2>9, <3>a, SetRemoteType DEF CollidingRequest
    <3>3. NetType' BY <2>9 DEF CollidingRequest, Deliveries, NetType
    <3>4. KnownType' BY <2>9 DEF CollidingRequest, KnownType
    <3> QED BY <3>1, <3>2, <3>3, <3>4
  <2>10. ASSUME NEW m \in net, Answered(Other(m.from), m)
        PROVE  LocalType' /\ RemoteType' /\ NetType' /\ KnownType'
    <3>a. /\ m \in Datagram /\ m.from \in Peers /\ m.xid \in Xids /\ m.type \in Types
          /\ Other(m.from) \in Peers
      BY DEF NetType, Datagram
    <3>b. [local[Other(m.from)][m.xid] EXCEPT !.step = 2, !.response = Off] \in LocalXact
      <4>1. local[Other(m.from)][m.xid] \in LocalXact BY <2>10, <3>a DEF Answered, LocalType
      <4> QED BY <4>1, SteppedType, TimerValues
    <3>1. LocalType' BY <2>10, <3>a, <3>b, SetLocalType DEF Answered
    <3>2. RemoteType' BY <2>10 DEF Answered, RemoteType
    <3>3. NetType' BY <2>10 DEF Answered, Deliveries, NetType
    <3>4. KnownType'
      <4>1. outcome' \in [Peers -> [Xids -> Outcomes]]
        <5>1. PICK what \in Outcomes : Tell(Other(m.from), m.xid, what)
          BY <2>10 DEF Answered, Outcomes
        <5> QED BY <3>a, <5>1 DEF KnownType, Tell
      <4> QED BY <2>10, <4>1 DEF Answered, KnownType
    <3> QED BY <3>1, <3>2, <3>3, <3>4
  <2>11. ASSUME NEW m \in net, StrayResponse(Other(m.from), m)
        PROVE  LocalType' /\ RemoteType' /\ NetType' /\ KnownType'
    <3>a. /\ m \in Datagram /\ m.from \in Peers /\ m.xid \in Xids /\ m.type \in Types
          /\ Other(m.from) \in Peers
      BY DEF NetType, Datagram
    <3>1. LocalType' BY <2>11, <3>a, SetLocalType DEF StrayResponse
    <3>2. RemoteType' BY <2>11 DEF StrayResponse, RemoteType
    <3>3. NetType' BY <2>11 DEF StrayResponse, Deliveries, NetType
    <3>4. KnownType' BY <2>11 DEF StrayResponse, KnownType
    <3> QED BY <3>1, <3>2, <3>3, <3>4
  <2>12. ASSUME Tick
        PROVE  LocalType' /\ RemoteType' /\ NetType' /\ KnownType'
    <3>1. LocalType'
      <4> SUFFICES ASSUME NEW p \in Peers, NEW x \in Xids, local[p][x] # NULL
                   PROVE  [local[p][x] EXCEPT !.response = Older(@), !.delayed = Older(@)] \in LocalXact
        BY <2>12 DEF Tick, LocalType
      <4>1. local[p][x] \in LocalXact BY DEF LocalType
      <4>2. local[p][x].response \in Timers(p) BY DEF Timers, Live
      <4>3. Running(local[p][x].response) => local[p][x].response > -Lag
        BY <4>2, <2>12 DEF Tick
      <4>4. Older(local[p][x].response) \in Off .. T1 /\ Older(local[p][x].delayed) \in Int
        BY <4>1, <4>3, Durations DEF LocalXact, Older, Running
      <4> QED BY <4>1, <4>4, RetimedType
    <3>2. RemoteType'
      <4> SUFFICES ASSUME NEW p \in Peers, NEW x \in Xids, remote[p][x] # NULL
                   PROVE  [remote[p][x] EXCEPT !.holding = Older(@)] \in RemoteXact
        BY <2>12 DEF Tick, RemoteType
      <4>1. remote[p][x] \in RemoteXact BY DEF RemoteType
      <4>2. remote[p][x].holding \in Timers(p) BY DEF Timers, Live
      <4>3. Running(remote[p][x].holding) => remote[p][x].holding > -Lag
        BY <4>2, <2>12 DEF Tick
      <4> QED BY <4>1, <4>3, Durations DEF RemoteXact, Older, Running, T1Holding
    <3>3. NetType'
      <4> SUFFICES ASSUME NEW n \in net, n.ttl > 0
                   PROVE  [n EXCEPT !.ttl = @ - 1] \in Datagram
        BY <2>12 DEF Tick, NetType
      <4> QED BY Durations DEF NetType, Datagram
    <3>4. KnownType' BY <2>12 DEF Tick, KnownType
    <3> QED BY <3>1, <3>2, <3>3, <3>4
  <2>13. ASSUME NEW p \in Peers, Restart(p)
        PROVE  LocalType' /\ RemoteType' /\ NetType' /\ KnownType'
    <3>1. LocalType' BY <2>13 DEF Restart, LocalType
    <3>2. RemoteType' BY <2>13 DEF Restart, RemoteType
    <3>3. NetType' BY <2>13 DEF Restart, NetType
    <3>4. KnownType' BY <2>13, XactAssumption DEF Restart, KnownType, Outcomes
    <3> QED BY <3>1, <3>2, <3>3, <3>4
  <2>14. ASSUME UNCHANGED vars
        PROVE  LocalType' /\ RemoteType' /\ NetType' /\ KnownType'
    BY <2>14 DEF vars, LocalType, RemoteType, NetType, KnownType
  <2> QED
    BY <2>1, <2>2, <2>3, <2>4, <2>5, <2>6, <2>7, <2>8, <2>9, <2>10, <2>11, <2>12, <2>13, <2>14
       DEF Next, Timeout, Receive
<1> QED BY <1>1, <1>2, PTL DEF Spec

-----------------------------------------------------------------------------
(* Handled at most once: the induction is on what is known of one request, *)
(* x of p.                                                                 *)

ReqInv(p, x) == /\ NoTrace(p, x) /\ OneType(p, x) /\ HeldIfHandled(p, x)
                /\ CopiesOutlived(p, x) /\ handled[p][x] <= 1

IInv == TypeOK /\ \A p \in Peers, x \in Xids : ReqInv(p, x)

\* What a step that leaves p's request x alone may change.
Untouched(p, x) == /\ local'[p][x] = local[p][x]
                   /\ remote'[Other(p)][x] = remote[Other(p)][x]
                   /\ handled'[p][x] = handled[p][x]
                   /\ Copies(p, x)' \subseteq Copies(p, x)
                   /\ lastXid'[p] >= lastXid[p]

LEMMA Frame ==
  ASSUME NEW p \in Peers, NEW x \in Xids, TypeOK, TypeOK', ReqInv(p, x), Untouched(p, x)
  PROVE  ReqInv(p, x)'
<1>0. lastXid[p] \in Int /\ lastXid'[p] \in Int /\ x \in Int
  BY DEF TypeOK, KnownType, Xids
<1>1. Untransmitted(p, x)' => Untransmitted(p, x)
  BY <1>0 DEF Untransmitted, Untouched
<1>2. NoTrace(p, x)'
  BY <1>0, <1>1 DEF ReqInv, NoTrace, Untouched
<1>3. OneType(p, x)' BY DEF ReqInv, OneType, Untouched
<1>4. HeldIfHandled(p, x)' BY DEF ReqInv, HeldIfHandled, Untouched
<1>5. CopiesOutlived(p, x)'
  BY DEF ReqInv, CopiesOutlived, HeldBeyond, LastArrival, Untouched
<1> QED BY <1>2, <1>3, <1>4, <1>5 DEF ReqInv, Untouched

LEMMA RequestSent ==
  ASSUME NEW p \in Peers, NEW x \in Xids, NEW type, Transmit(Request(p, type, x), TRUE)
  PROVE  /\ Copies(p, x)' = Copies(p, x) \cup {Request(p, type, x)}
         /\ \A q \in Peers, y \in Xids : q # p \/ y # x => Copies(q, y)' = Copies(q, y)
  BY DEF Transmit, Request, Copies

LEMMA ResponseSent ==
  ASSUME NEW m, NEW q, NEW type, NEW y, NEW rest \in Deliveries(m),
         net' = rest \/ net' = rest \cup {Response(q, type, y)}
  PROVE  \A p \in Peers, x \in Xids : Copies(p, x)' \subseteq Copies(p, x)
  BY DEF Deliveries, Response, Copies

LEMMA InvInit == Init => IInv
<1> SUFFICES ASSUME Init PROVE IInv OBVIOUS
<1>1. TypeOK
  BY XactAssumption DEF Init, TypeOK, LocalType, RemoteType, NetType, KnownType, Outcomes
<1>2. ASSUME NEW p \in Peers, NEW x \in Xids PROVE ReqInv(p, x)
  <2>1. /\ local[p][x] = NULL /\ remote[Other(p)][x] = NULL /\ handled[p][x] = 0
        /\ Copies(p, x) = {}
    BY OtherPeer DEF Init, Copies
  <2> QED BY <2>1 DEF ReqInv, NoTrace, OneType, HeldIfHandled, CopiesOutlived
<1> QED BY <1>1, <1>2 DEF IInv

\* The local steps of p0 on its request x0.
LEMMA SendRequestInv ==
  ASSUME IInv, TypeOK', ~SendFails, NEW p0 \in Peers, NEW type \in Types,
         SendRequest(p0, type)
  PROVE  IInv'
<1>0. PICK x0 \in Xids : x0 = lastXid[p0] + 1 /\ lastXid[p0] \in Int
  BY XactAssumption DEF SendRequest, IInv, TypeOK, KnownType, Xids
<1>1. /\ CommitRequest(p0, x0, Created(type), TRUE)
      /\ lastXid' = [lastXid EXCEPT ![p0] = x0]
      /\ UNCHANGED <<remote, handled>>
  BY <1>0 DEF SendRequest, SendOutcomes
<1>2. Created(type).type = type
  BY DEF Created
<1>3. Transmit(Request(p0, type, x0), TRUE)
  BY <1>1, <1>2 DEF CommitRequest
<1>4. SetLocal(p0, x0, [Created(type) EXCEPT !.response = T1, !.delayed = Off])
  BY <1>1 DEF CommitRequest
<1>a. /\ Copies(p0, x0)' = Copies(p0, x0) \cup {Request(p0, type, x0)}
      /\ \A q \in Peers, y \in Xids : q # p0 \/ y # x0 => Copies(q, y)' = Copies(q, y)
  BY <1>0, <1>3, RequestSent
<1> SUFFICES ASSUME NEW p \in Peers, NEW x \in Xids PROVE ReqInv(p, x)'
  BY DEF IInv
<1>5. ReqInv(p, x) /\ TypeOK BY DEF IInv
<1>6. CASE p # p0 \/ x # x0
  <2>1. Copies(p, x)' = Copies(p, x) BY <1>6, <1>a
  <2>2. local'[p][x] = local[p][x]
    BY <1>4, <1>6, <1>5 DEF SetLocal, TypeOK, LocalType
  <2>3. lastXid'[p] >= lastXid[p]
    BY <1>0, <1>1, <1>5 DEF TypeOK, KnownType
  <2>4. Untouched(p, x) BY <1>1, <2>1, <2>2, <2>3 DEF Untouched
  <2> QED BY <2>4, <1>5, Frame
<1>7. CASE p = p0 /\ x = x0
  <2>1. Untransmitted(p, x) BY <1>0, <1>7 DEF Untransmitted
  <2>2. handled[p][x] = 0 /\ Copies(p, x) = {} BY <2>1, <1>5 DEF ReqInv, NoTrace
  <2>3. handled'[p][x] = 0 /\ remote'[Other(p)][x] = NULL
    BY <2>2, <1>1, <1>5 DEF ReqInv, HeldIfHandled
  <2>4. Copies(p, x)' = {Request(p0, type, x0)} BY <2>2, <1>a, <1>7
  <2>5. /\ local'[p][x] # NULL => local'[p][x].type = type
        /\ ~Untransmitted(p, x)'
    <3>1. local'[p][x] = [Created(type) EXCEPT !.response = T1, !.delayed = Off]
      BY <1>0, <1>4, <1>5, <1>7 DEF SetLocal, TypeOK, LocalType
    <3>2. local'[p][x].type = type /\ local'[p][x].delayed = Off
      BY <3>1 DEF Created
    <3>3. lastXid'[p] = x0 BY <1>1, <1>5, <1>7 DEF TypeOK, KnownType
    <3> QED BY <3>2, <3>3, <1>0, <1>7 DEF Untransmitted, Running, Xids
  <2>6. Request(p0, type, x0).type = type BY DEF Request
  <2> QED BY <2>3, <2>4, <2>5, <2>6 DEF ReqInv, NoTrace, OneType, HeldIfHandled, CopiesOutlived
<1> QED BY <1>6, <1>7

LEMMA SendDelayedInv ==
  ASSUME IInv, TypeOK', NEW p0 \in Peers, NEW type \in Types, NEW d \in Delays,
         SendDelayed(p0, type, d)
  PROVE  IInv'
<1>0. PICK x0 \in Xids : x0 = lastXid[p0] + 1 /\ lastXid[p0] \in Int
  BY XactAssumption DEF SendDelayed, IInv, TypeOK, KnownType, Xids
<1>1. /\ SetLocal(p0, x0, [Created(type) EXCEPT !.delayed = d])
      /\ lastXid' = [lastXid EXCEPT ![p0] = x0]
      /\ UNCHANGED <<remote, handled, net>>
  BY <1>0 DEF SendDelayed
<1> SUFFICES ASSUME NEW p \in Peers, NEW x \in Xids PROVE ReqInv(p, x)'
  BY DEF IInv
<1>2. ReqInv(p, x) /\ TypeOK BY DEF IInv
<1>3. Copies(p, x)' = Copies(p, x) BY <1>1 DEF Copies
<1>4. CASE p # p0 \/ x # x0
  <2>1. local'[p][x] = local[p][x]
    BY <1>1, <1>2, <1>4 DEF SetLocal, TypeOK, LocalType
  <2>2. lastXid'[p] >= lastXid[p]
    BY <1>0, <1>1, <1>2 DEF TypeOK, KnownType
  <2>3. Untouched(p, x) BY <1>1, <1>3, <2>1, <2>2 DEF Untouched
  <2> QED BY <2>3, <1>2, Frame
<1>5. CASE p = p0 /\ x = x0
  <2>1. Untransmitted(p, x) BY <1>0, <1>5 DEF Untransmitted, Xids
  <2>2. handled[p][x] = 0 /\ Copies(p, x) = {} BY <2>1, <1>2 DEF ReqInv, NoTrace
  <2>3. handled'[p][x] = 0 /\ remote'[Other(p)][x] = NULL /\ Copies(p, x)' = {}
    BY <2>2, <1>1, <1>2, <1>3 DEF ReqInv, HeldIfHandled
  <2>4. local'[p][x] = [Created(type) EXCEPT !.delayed = d] /\ lastXid'[p] = x
    BY <1>0, <1>1, <1>2, <1>5 DEF SetLocal, TypeOK, LocalType, KnownType
  <2>5. local'[p][x].response = Off /\ local'[p][x].rcount = 3
    BY <2>4 DEF Created, ResponseRcount
  <2>6. x <= lastXid'[p] BY <2>4 DEF Xids
  <2> QED BY <2>3, <2>5, <2>6
          DEF ReqInv, NoTrace, OneType, HeldIfHandled, CopiesOutlived, Running
<1> QED BY <1>4, <1>5

\* A step that changes only the local transaction of p0's request x0, whose
\* request it does not send.
LEMMA LocalStepInv ==
  ASSUME IInv, TypeOK', NEW p0 \in Peers, NEW x0 \in Xids, NEW xact,
         SetLocal(p0, x0, xact), UNCHANGED <<remote, handled, lastXid>>,
         \A p \in Peers, x \in Xids : Copies(p, x)' \subseteq Copies(p, x),
         \/ xact = NULL
         \/ /\ local[p0][x0] # NULL
            /\ xact.type = local[p0][x0].type /\ xact.rcount = local[p0][x0].rcount
            /\ xact.delayed = local[p0][x0].delayed /\ ~Running(xact.response)
  PROVE  IInv'
<1> SUFFICES ASSUME NEW p \in Peers, NEW x \in Xids PROVE ReqInv(p, x)'
  BY DEF IInv
<1>1. ReqInv(p, x) /\ TypeOK BY DEF IInv
<1>2. lastXid'[p] >= lastXid[p] BY <1>1 DEF TypeOK, KnownType
<1>3. CASE p # p0 \/ x # x0
  <2>1. local'[p][x] = local[p][x]
    BY <1>1, <1>3 DEF SetLocal, TypeOK, LocalType
  <2>2. Untouched(p, x) BY <1>2, <2>1 DEF Untouched
  <2> QED BY <2>2, <1>1, Frame
<1>4. CASE p = p0 /\ x = x0
  <2>1. local'[p][x] = xact BY <1>1, <1>4 DEF SetLocal, TypeOK, LocalType
  <2>2. NoTrace(p, x)'
    <3>1. Untransmitted(p, x)' => Untransmitted(p, x)
      BY <2>1, <1>4 DEF Untransmitted
    <3>2. lastXid[p] \in Int /\ x \in Int BY <1>1 DEF TypeOK, KnownType, Xids
    <3> QED BY <3>1, <3>2, <2>1, <1>1, <1>4 DEF ReqInv, NoTrace, Untransmitted
  <2>3. OneType(p, x)' BY <2>1, <1>1, <1>4 DEF ReqInv, OneType
  <2>4. HeldIfHandled(p, x)' BY <1>1 DEF ReqInv, HeldIfHandled
  <2>5. CopiesOutlived(p, x)'
    BY <2>1, <1>1, <1>4 DEF ReqInv, CopiesOutlived, HeldBeyond
  <2> QED BY <2>2, <2>3, <2>4, <2>5, <1>1 DEF ReqInv
<1> QED BY <1>3, <1>4

LEMMA CommitLateInv ==
  ASSUME IInv, TypeOK', NEW p0 \in Peers, NEW x0 \in Xids,
         CommitRequest(p0, x0, local[p0][x0], TRUE),
         local[p0][x0] # NULL, Running(local[p0][x0].delayed),
         UNCHANGED <<remote, handled, lastXid>>
  PROVE  IInv'
<1>1. /\ CommitRequest(p0, x0, local[p0][x0], TRUE)
      /\ local[p0][x0] # NULL /\ Running(local[p0][x0].delayed)
      /\ UNCHANGED <<remote, handled, lastXid>>
  OBVIOUS
<1>2. PICK t : t = local[p0][x0].type OBVIOUS
<1>3. Transmit(Request(p0, t, x0), TRUE)
  BY <1>1, <1>2 DEF CommitRequest
<1>4. SetLocal(p0, x0, [local[p0][x0] EXCEPT !.response = T1, !.delayed = Off])
  BY <1>1 DEF CommitRequest
<1>a. /\ Copies(p0, x0)' = Copies(p0, x0) \cup {Request(p0, t, x0)}
      /\ \A q \in Peers, y \in Xids : q # p0 \/ y # x0 => Copies(q, y)' = Copies(q, y)
  BY <1>3, RequestSent
<1> SUFFICES ASSUME NEW p \in Peers, NEW x \in Xids PROVE ReqInv(p, x)'
  BY DEF IInv
<1>5. ReqInv(p, x) /\ TypeOK BY DEF IInv
<1>6. CASE p # p0 \/ x # x0
  <2>1. local'[p][x] = local[p][x]
    BY <1>4, <1>5, <1>6 DEF SetLocal, TypeOK, LocalType
  <2>2. Copies(p, x)' = Copies(p, x) BY <1>a, <1>6
  <2>3. lastXid'[p] >= lastXid[p] BY <1>1, <1>5 DEF TypeOK, KnownType
  <2>4. Untouched(p, x) BY <1>1, <2>1, <2>2, <2>3 DEF Untouched
  <2> QED BY <2>4, <1>5, Frame
<1>7. CASE p = p0 /\ x = x0
  <2>1. Untransmitted(p, x) BY <1>1, <1>7 DEF Untransmitted
  <2>2. /\ handled[p][x] = 0 /\ Copies(p, x) = {} /\ x <= lastXid[p]
    BY <2>1, <1>1, <1>5, <1>7 DEF ReqInv, NoTrace
  <2>3. handled'[p][x] = 0 /\ remote'[Other(p)][x] = NULL
    BY <2>2, <1>1, <1>5 DEF ReqInv, HeldIfHandled
  <2>4. Copies(p, x)' = {Request(p0, t, x0)} BY <2>2, <1>a, <1>7
  <2>5. local[p0][x0] \in LocalXact BY <1>1, <1>5 DEF TypeOK, LocalType
  <2>6. local'[p][x] = [local[p0][x0] EXCEPT !.response = T1, !.delayed = Off]
    BY <1>4, <1>5, <1>7 DEF SetLocal, TypeOK, LocalType
  <2>7. local'[p][x].type = t /\ local'[p][x].delayed = Off
    BY <2>5, <2>6, <1>2 DEF LocalXact
  <2>8. ~Untransmitted(p, x)'
    <3>1. lastXid'[p] = lastXid[p] /\ lastXid[p] \in Int /\ x \in Int
      BY <1>1, <1>5 DEF TypeOK, KnownType, Xids
    <3> QED BY <3>1, <2>2, <2>7 DEF Untransmitted, Running
  <2>9. Request(p0, t, x0).type = t BY DEF Request
  <2> QED BY <2>3, <2>4, <2>7, <2>8, <2>9
          DEF ReqInv, NoTrace, OneType, HeldIfHandled, CopiesOutlived
<1> QED BY <1>6, <1>7

LEMMA DelayedCommitInv ==
  ASSUME IInv, TypeOK', ~SendFails, NEW p0 \in Peers, NEW x0 \in Xids,
         DelayedCommitTimeout(p0, x0)
  PROVE  IInv'
<1>1. /\ local[p0][x0] # NULL /\ Running(local[p0][x0].delayed)
      /\ UNCHANGED <<remote, handled, lastXid>>
  BY DEF DelayedCommitTimeout, Expired, Running
<1>2. CASE CommitRequest(p0, x0, local[p0][x0], TRUE)
  BY <1>1, <1>2, CommitLateInv
<1>3. CASE SetLocal(p0, x0, NULL) /\ net' = net
  <2>1. \A p \in Peers, x \in Xids : Copies(p, x)' \subseteq Copies(p, x)
    BY <1>3 DEF Copies
  <2> QED BY <2>1, <1>1, <1>3, LocalStepInv
<1> QED BY <1>2, <1>3 DEF DelayedCommitTimeout, SendOutcomes

LEMMA GiveUpInv ==
  ASSUME IInv, TypeOK', NEW p0 \in Peers, NEW x0 \in Xids, GiveUp(p0, x0)
  PROVE  IInv'
<1>1. SetLocal(p0, x0, NULL) /\ UNCHANGED <<remote, handled, lastXid, net>>
  BY DEF GiveUp
<1>2. \A p \in Peers, x \in Xids : Copies(p, x)' \subseteq Copies(p, x)
  BY <1>1 DEF Copies
<1> QED BY <1>1, <1>2, LocalStepInv

LEMMA StrayResponseInv ==
  ASSUME IInv, TypeOK', NEW p0 \in Peers, NEW m \in net, StrayResponse(p0, m)
  PROVE  IInv'
<1>0. m.xid \in Xids BY DEF IInv, TypeOK, NetType, Datagram
<1>1. SetLocal(p0, m.xid, NULL) /\ UNCHANGED <<remote, handled, lastXid>>
  BY DEF StrayResponse
<1>2. \A p \in Peers, x \in Xids : Copies(p, x)' \subseteq Copies(p, x)
  BY DEF StrayResponse, Deliveries, Copies
<1> QED BY <1>0, <1>1, <1>2, LocalStepInv

LEMMA AnsweredInv ==
  ASSUME IInv, TypeOK', NEW p0 \in Peers, NEW m \in net, Answered(p0, m)
  PROVE  IInv'
<1>0. m.xid \in Xids BY DEF IInv, TypeOK, NetType, Datagram
<1>1. /\ UNCHANGED <<remote, handled, lastXid>> /\ local[p0][m.xid] # NULL
      /\ \/ SetLocal(p0, m.xid, NULL)
         \/ SetLocal(p0, m.xid, [local[p0][m.xid] EXCEPT !.step = 2, !.response = Off])
  BY DEF Answered
<1>2. \A p \in Peers, x \in Xids : Copies(p, x)' \subseteq Copies(p, x)
  BY DEF Answered, Deliveries, Copies
<1>3. CASE SetLocal(p0, m.xid, NULL)
  BY <1>0, <1>1, <1>2, <1>3, LocalStepInv
<1>4. CASE SetLocal(p0, m.xid, [local[p0][m.xid] EXCEPT !.step = 2, !.response = Off])
  <2>1. PICK l \in LocalXact : l = local[p0][m.xid]
    BY <1>0, <1>1 DEF IInv, TypeOK, LocalType
  <2>2. PICK xact : xact = [l EXCEPT !.step = 2, !.response = Off] OBVIOUS
  <2>3. /\ xact.type = l.type /\ xact.rcount = l.rcount /\ xact.delayed = l.delayed
        /\ xact.response = Off
    BY <2>2 DEF LocalXact
  <2>4. SetLocal(p0, m.xid, xact) BY <1>4, <2>1, <2>2
  <2> QED BY <1>0, <1>1, <1>2, <2>1, <2>3, <2>4, LocalStepInv DEF Running
<1> QED BY <1>1, <1>3, <1>4

LEMMA RetransmitInv ==
  ASSUME IInv, TypeOK', ~SendFails, NEW p0 \in Peers, NEW x0 \in Xids, Retransmit(p0, x0)
  PROVE  IInv'
<1>0. PICK l \in LocalXact : l = local[p0][x0] /\ Expired(l.response) /\ l.rcount > 1
  BY DEF Retransmit, IInv, TypeOK, LocalType
<1>1. /\ Transmit(Request(p0, l.type, x0), TRUE)
      /\ SetLocal(p0, x0, [l EXCEPT !.rcount = @ - 1, !.response = T1])
      /\ UNCHANGED <<remote, handled, lastXid>> /\ local[p0][x0] # NULL
  BY <1>0 DEF Retransmit, SendOutcomes
<1>2. PICK l2 : l2 = [l EXCEPT !.rcount = @ - 1, !.response = T1] OBVIOUS
<1>3. /\ l2.type = l.type /\ l2.rcount = l.rcount - 1 /\ l2.response = T1
      /\ l2.delayed = l.delayed
  BY <1>2 DEF LocalXact
<1>4. /\ l.response \in Int /\ -Lag <= l.response /\ l.rcount \in {2, 3} /\ Running(l.response)
  BY <1>0, Durations DEF LocalXact, ResponseRcount, Expired, Running, Off
<1>a. /\ Copies(p0, x0)' = Copies(p0, x0) \cup {Request(p0, l.type, x0)}
      /\ \A q \in Peers, y \in Xids : q # p0 \/ y # x0 => Copies(q, y)' = Copies(q, y)
  BY <1>1, RequestSent
<1> SUFFICES ASSUME NEW p \in Peers, NEW x \in Xids PROVE ReqInv(p, x)'
  BY DEF IInv
<1>5. ReqInv(p, x) /\ TypeOK BY DEF IInv
<1>6. CASE p # p0 \/ x # x0
  <2>1. local'[p][x] = local[p][x]
    BY <1>1, <1>5, <1>6 DEF SetLocal, TypeOK, LocalType
  <2>2. Copies(p, x)' = Copies(p, x) BY <1>a, <1>6
  <2>3. lastXid'[p] >= lastXid[p] BY <1>1, <1>5 DEF TypeOK, KnownType
  <2>4. Untouched(p, x) BY <1>1, <2>1, <2>2, <2>3 DEF Untouched
  <2> QED BY <2>4, <1>5, Frame
<1>7. CASE p = p0 /\ x = x0
  <2>1. local'[p][x] = l2
    BY <1>1, <1>2, <1>5, <1>7 DEF SetLocal, TypeOK, LocalType
  <2>2. ~Untransmitted(p, x)
    BY <1>0, <1>1, <1>4, <1>5, <1>7 DEF ReqInv, NoTrace
  <2>3. NoTrace(p, x)'
    BY <2>1, <2>2, <1>0, <1>1, <1>3, <1>7 DEF NoTrace, Untransmitted
  <2>4. Copies(p, x)' = Copies(p, x) \cup {Request(p0, l.type, x0)}
    BY <1>a, <1>7
  <2>5. Request(p0, l.type, x0).type = l.type /\ Request(p0, l.type, x0).ttl = MaxDelay
    BY DEF Request
  <2>6. OneType(p, x)'
    BY <2>1, <2>4, <2>5, <1>0, <1>1, <1>3, <1>5, <1>7 DEF ReqInv, OneType
  <2>7. HeldIfHandled(p, x)' BY <1>1, <1>5 DEF ReqInv, HeldIfHandled
  <2>8. ASSUME handled[p][x] # 0 PROVE CopiesOutlived(p, x)'
    <3>1. HeldBeyond(p, x, LastArrival(l))
      BY <2>8, <1>0, <1>1, <1>4, <1>5, <1>7 DEF ReqInv, CopiesOutlived
    <3>2. remote[Other(p)][x].holding \in Int
      BY <3>1, <1>5, OtherPeer, Durations
      DEF HeldBeyond, TypeOK, RemoteType, RemoteXact, T1Holding
    <3>3. HeldBeyond(p, x, MaxDelay)
      BY <3>1, <3>2, <1>4, Durations DEF HeldBeyond, LastArrival
    <3>4. l2.rcount > 1 => HeldBeyond(p, x, LastArrival(l2))
      BY <3>1, <3>2, <1>3, <1>4, Durations DEF HeldBeyond, LastArrival
    <3>5. \A m \in Copies(p, x)' : HeldBeyond(p, x, m.ttl)
      BY <2>8, <3>3, <2>4, <2>5, <1>5 DEF ReqInv, CopiesOutlived
    <3> QED BY <3>4, <3>5, <2>1, <1>1 DEF CopiesOutlived, HeldBeyond
  <2>9. CopiesOutlived(p, x)' BY <2>8, <1>1 DEF CopiesOutlived
  <2> QED BY <2>3, <2>6, <2>7, <2>9, <1>1, <1>5 DEF ReqInv
<1> QED BY <1>6, <1>7

\* The steps of the receiver q of p0's request x0.
LEMMA HoldingRange ==
  ASSUME TypeOK, NEW q \in Peers, NEW x \in Xids, remote[q][x] # NULL
  PROVE  /\ remote[q][x] \in RemoteXact /\ remote[q][x].rcount = 1
         /\ remote[q][x].holding \in Off .. T1Holding
  BY DEF TypeOK, RemoteType, RemoteXact, HoldingRcount

LEMMA ArrivalRange ==
  ASSUME NEW l \in LocalXact, Running(l.response)
  PROVE  LastArrival(l) \in Int /\ LastArrival(l) >= MaxDelay
  BY Durations DEF LocalXact, Running, LastArrival, Off

LEMMA HoldingTimeoutInv ==
  ASSUME IInv, TypeOK', NEW q0 \in Peers, NEW x0 \in Xids, HoldingTimeout(q0, x0)
  PROVE  IInv'
<1>1. /\ remote[q0][x0] # NULL /\ Expired(remote[q0][x0].holding)
      /\ UNCHANGED <<local, handled, lastXid, net>>
  BY DEF HoldingTimeout
<1>2. TypeOK BY DEF IInv
<1>3. remote[q0][x0].rcount = 1 /\ remote[q0][x0].holding \in Off .. T1Holding
  BY <1>1, <1>2, HoldingRange
<1>4. SetRemote(q0, x0, NULL) BY <1>3 DEF HoldingTimeout
<1> SUFFICES ASSUME NEW p \in Peers, NEW x \in Xids PROVE ReqInv(p, x)'
  BY DEF IInv
<1>5. ReqInv(p, x) BY DEF IInv
<1>6. Copies(p, x)' = Copies(p, x) BY <1>1 DEF Copies
<1>7. lastXid'[p] >= lastXid[p] BY <1>1, <1>2 DEF TypeOK, KnownType
<1>8. CASE Other(p) # q0 \/ x # x0
  <2>1. remote'[Other(p)][x] = remote[Other(p)][x]
    BY <1>4, <1>8, <1>2, OtherPeer DEF SetRemote, TypeOK, RemoteType
  <2>2. Untouched(p, x) BY <1>1, <1>6, <1>7, <2>1 DEF Untouched
  <2> QED BY <2>2, <1>2, <1>5, Frame
<1>9. CASE Other(p) = q0 /\ x = x0
  <2>1. remote'[Other(p)][x] = NULL
    BY <1>4, <1>9, <1>2 DEF SetRemote, TypeOK, RemoteType
  <2>2. \A d \in Int : d >= 0 => ~HeldBeyond(p, x, d)
    BY <1>1, <1>3, <1>9, Durations DEF HeldBeyond, Expired, T1Holding
  <2>3. handled[p][x] # 0 BY <1>1, <1>5, <1>9 DEF ReqInv, HeldIfHandled
  <2>4. \A m \in Copies(p, x) : m.ttl \in Int /\ m.ttl >= 0
    BY <1>2, Durations DEF TypeOK, NetType, Datagram, Copies
  <2>5. Copies(p, x) = {} BY <2>2, <2>3, <2>4, <1>5 DEF ReqInv, CopiesOutlived
  <2>6. ~(local[p][x] # NULL /\ Running(local[p][x].response) /\ local[p][x].rcount > 1)
    <3> SUFFICES ASSUME local[p][x] # NULL, Running(local[p][x].response),
                        local[p][x].rcount > 1
                 PROVE  FALSE
      OBVIOUS
    <3>1. local[p][x] \in LocalXact BY <1>2 DEF TypeOK, LocalType
    <3>2. LastArrival(local[p][x]) \in Int /\ LastArrival(local[p][x]) >= 0
      BY <3>1, ArrivalRange, Durations
    <3> QED BY <3>2, <2>2, <2>3, <1>5 DEF ReqInv, CopiesOutlived
  <2>7. NoTrace(p, x)' BY <1>1, <1>5, <1>6 DEF ReqInv, NoTrace, Untransmitted
  <2>8. OneType(p, x)' BY <1>1, <1>5, <1>6, <2>1 DEF ReqInv, OneType
  <2> QED BY <1>1, <1>5, <1>6, <2>1, <2>5, <2>6, <2>7, <2>8
          DEF ReqInv, HeldIfHandled, CopiesOutlived
<1> QED BY <1>8, <1>9

LEMMA HeldRecord ==
  ASSUME NEW type \in Types, NEW step \in 1 .. 2
  PROVE  /\ Held(type, step) # NULL /\ Held(type, step).type = type
         /\ Held(type, step).holding = T1Holding
  BY XactAssumption, HeldType DEF Held, RemoteXact, HoldingRcount, T1Holding

LEMMA ReheldRecord ==
  ASSUME NEW r \in RemoteXact, NEW holding \in Int
  PROVE  /\ [r EXCEPT !.holding = holding] # NULL
         /\ [r EXCEPT !.holding = holding].type = r.type
         /\ [r EXCEPT !.holding = holding].holding = holding
  BY XactAssumption DEF RemoteXact

\* A step of the receiver of p0's request x0 that adds no copy of a request and
\* does not shorten what it holds.
LEMMA HeldLongerInv ==
  ASSUME IInv, TypeOK', NEW p0 \in Peers, NEW x0 \in Xids, NEW r \in RemoteXact, NEW r2,
         r = remote[Other(p0)][x0], SetRemote(Other(p0), x0, r2),
         r2 # NULL, r2.type = r.type, r2.holding \in Int, r2.holding >= r.holding,
         UNCHANGED <<local, handled, lastXid>>,
         \A p \in Peers, x \in Xids : Copies(p, x)' \subseteq Copies(p, x)
  PROVE  IInv'
<1> SUFFICES ASSUME NEW p \in Peers, NEW x \in Xids PROVE ReqInv(p, x)'
  BY DEF IInv
<1>1. ReqInv(p, x) /\ TypeOK BY DEF IInv
<1>2. lastXid'[p] >= lastXid[p] BY <1>1 DEF TypeOK, KnownType
<1>3. CASE p # p0 \/ x # x0
  <2>1. remote'[Other(p)][x] = remote[Other(p)][x]
    BY <1>1, <1>3, OtherPeer DEF SetRemote, TypeOK, RemoteType
  <2>2. Untouched(p, x) BY <1>2, <2>1 DEF Untouched
  <2> QED BY <2>2, <1>1, Frame
<1>4. CASE p = p0 /\ x = x0
  <2>1. remote'[Other(p)][x] = r2
    BY <1>1, <1>4, OtherPeer DEF SetRemote, TypeOK, RemoteType
  <2>2. r # NULL BY XactAssumption DEF RemoteXact
  <2>3. NoTrace(p, x)' BY <1>1 DEF ReqInv, NoTrace, Untransmitted
  <2>4. OneType(p, x)' BY <2>1, <2>2, <1>1, <1>4 DEF ReqInv, OneType
  <2>5. HeldIfHandled(p, x)' BY <2>2, <1>1, <1>4 DEF ReqInv, HeldIfHandled
  <2>6. CopiesOutlived(p, x)'
    <3>1. \A d \in Int : HeldBeyond(p, x, d) => HeldBeyond(p, x, d)'
      BY <2>1, <1>4 DEF HeldBeyond, RemoteXact
    <3>2. \A m \in Copies(p, x) : m.ttl \in Int
      BY <1>1, Durations DEF TypeOK, NetType, Datagram, Copies
    <3>3. local[p][x] # NULL /\ Running(local[p][x].response)
            => LastArrival(local[p][x]) \in Int
      BY <1>1, ArrivalRange DEF TypeOK, LocalType
    <3> QED BY <3>1, <3>2, <3>3, <1>1
            DEF ReqInv, CopiesOutlived, LastArrival, HeldBeyond
  <2> QED BY <2>3, <2>4, <2>5, <2>6, <1>1 DEF ReqInv
<1> QED BY <1>3, <1>4

LEMMA DuplicateRequestInv ==
  ASSUME IInv, TypeOK', NEW m \in net, DuplicateRequest(Other(m.from), m)
  PROVE  IInv'
<1>1. TypeOK /\ m.from \in Peers /\ m.xid \in Xids
  BY DEF IInv, TypeOK, NetType, Datagram
<1>2. Other(m.from) \in Peers BY <1>1, OtherPeer
<1>3. PICK r \in RemoteXact : r = remote[Other(m.from)][m.xid] /\ r.holding \in Off .. T1Holding
  BY <1>1, <1>2, HoldingRange DEF DuplicateRequest
<1>4. T1Holding \in Int /\ Off \in Int /\ r.holding <= T1Holding /\ r.holding \in Int
  BY <1>3, Durations DEF T1Holding
<1>5. \A p \in Peers, x \in Xids : Copies(p, x)' \subseteq Copies(p, x)
  BY DEF DuplicateRequest, Deliveries, Copies, Response
<1>6. UNCHANGED <<local, handled, lastXid>> BY DEF DuplicateRequest
<1>7. CASE SetRemote(Other(m.from), m.xid, [r EXCEPT !.holding = T1Holding])
  <2>1. PICK r2 : r2 = [r EXCEPT !.holding = T1Holding] OBVIOUS
  <2>2. r2 # NULL /\ r2.type = r.type /\ r2.holding = T1Holding
    BY <2>1, <1>4, ReheldRecord
  <2>3. SetRemote(Other(m.from), m.xid, r2) BY <1>7, <2>1
  <2> QED BY <1>1, <1>3, <1>4, <1>5, <1>6, <2>2, <2>3, HeldLongerInv
<1>8. CASE remote' = remote
  <2>1. ASSUME NEW p \in Peers, NEW x \in Xids PROVE ReqInv(p, x)'
    <3>1. ReqInv(p, x) BY DEF IInv
    <3>2. Untouched(p, x) BY <1>1, <1>5, <1>6, <1>8 DEF Untouched, TypeOK, KnownType
    <3> QED BY <1>1, <3>1, <3>2, Frame
  <2> QED BY <2>1 DEF IInv
<1> QED BY <1>3, <1>7, <1>8 DEF DuplicateRequest

LEMMA NoCollision ==
  ASSUME IInv, NEW m \in net
  PROVE  ~CollidingRequest(Other(m.from), m)
<1> SUFFICES ASSUME CollidingRequest(Other(m.from), m) PROVE FALSE
  OBVIOUS
<1>1. m.from \in Peers /\ m.xid \in Xids /\ m \in Copies(m.from, m.xid)
  BY DEF CollidingRequest, IInv, TypeOK, NetType, Datagram, Copies
<1> QED BY <1>1 DEF CollidingRequest, IInv, ReqInv, OneType

LEMMA NewRequestInv ==
  ASSUME IInv, TypeOK', Prompt, ~SendFails, NEW m \in net, NewRequest(Other(m.from), m)
  PROVE  IInv'
<1>1. TypeOK /\ m.from \in Peers /\ m.xid \in Xids /\ m.type \in Types
  BY DEF IInv, TypeOK, NetType, Datagram
<1>2. Other(m.from) \in Peers BY <1>1, OtherPeer
<1>3. /\ remote[Other(m.from)][m.xid] = NULL /\ UNCHANGED <<local, lastXid>>
      /\ handled' = [handled EXCEPT ![m.from][m.xid] = IF @ = 2 THEN 2 ELSE @ + 1]
      /\ m \in Copies(m.from, m.xid)
  BY DEF NewRequest, Copies
<1>4. PICK r : /\ r # NULL /\ r.type = m.type /\ r.holding = T1Holding
               /\ SetRemote(Other(m.from), m.xid, r)
  <2>1. PICK step \in 1 .. 2 : SetRemote(Other(m.from), m.xid, Held(m.type, step))
    <3>1. \/ SetRemote(Other(m.from), m.xid, Held(m.type, 1))
          \/ SetRemote(Other(m.from), m.xid, Held(m.type, 2))
      BY DEF NewRequest, SendOutcomes
    <3>2. 1 \in 1 .. 2 /\ 2 \in 1 .. 2 OBVIOUS
    <3> QED BY <3>1, <3>2
  <2>2. PICK r : r = Held(m.type, step) OBVIOUS
  <2> QED BY <2>1, <2>2, <1>1, HeldRecord
<1>5. \A p \in Peers, x \in Xids : Copies(p, x)' \subseteq Copies(p, x)
  BY DEF NewRequest, Deliveries, Copies, Response
<1> SUFFICES ASSUME NEW p \in Peers, NEW x \in Xids PROVE ReqInv(p, x)'
  BY DEF IInv
<1>6. ReqInv(p, x) BY DEF IInv
<1>7. CASE p # m.from \/ x # m.xid
  <2>1. remote'[Other(p)][x] = remote[Other(p)][x]
    BY <1>1, <1>2, <1>4, <1>7, OtherPeer DEF SetRemote, TypeOK, RemoteType
  <2>2. handled'[p][x] = handled[p][x] BY <1>1, <1>3, <1>7 DEF TypeOK, KnownType
  <2>3. lastXid'[p] >= lastXid[p] BY <1>1, <1>3 DEF TypeOK, KnownType
  <2>4. Untouched(p, x) BY <1>3, <1>5, <2>1, <2>2, <2>3 DEF Untouched
  <2> QED BY <2>4, <1>1, <1>6, Frame
<1>8. CASE p = m.from /\ x = m.xid
  <2>1. remote'[Other(p)][x] = r
    BY <1>1, <1>2, <1>4, <1>8 DEF SetRemote, TypeOK, RemoteType
  <2>2. handled[p][x] = 0
    BY <1>3, <1>6, <1>8 DEF ReqInv, CopiesOutlived, HeldBeyond
  <2>3. handled'[p][x] = 1 BY <2>2, <1>1, <1>3, <1>8 DEF TypeOK, KnownType
  <2>4. ~Untransmitted(p, x) BY <1>3, <1>6, <1>8 DEF ReqInv, NoTrace
  <2>5. NoTrace(p, x)' BY <2>4, <1>3 DEF NoTrace, Untransmitted
  <2>6. OneType(p, x)' BY <2>1, <1>3, <1>4, <1>5, <1>6, <1>8 DEF ReqInv, OneType
  <2>7. \A d \in Int : d < T1Holding => HeldBeyond(p, x, d)'
    BY <2>1, <1>4, Durations DEF HeldBeyond, T1Holding
  <2>8. \A n \in Copies(p, x) : n.ttl \in Int /\ n.ttl < T1Holding
    BY <1>1, Durations DEF TypeOK, NetType, Datagram, Copies, Prompt, T1Holding
  <2>9. ASSUME local[p][x] # NULL, Running(local[p][x].response), local[p][x].rcount > 1
        PROVE  LastArrival(local[p][x]) \in Int /\ LastArrival(local[p][x]) < T1Holding
    <3>1. PICK l \in LocalXact : l = local[p][x]
      BY <2>9, <1>1 DEF TypeOK, LocalType
    <3>2. l.response \in Int /\ l.response <= T1
      BY Durations DEF LocalXact
    <3> QED BY <3>1, <3>2, Durations DEF LastArrival, Prompt, T1Holding
  <2>10. CopiesOutlived(p, x)'
    BY <2>7, <2>8, <2>9, <1>3, <1>5 DEF CopiesOutlived, LastArrival, HeldBeyond
  <2> QED BY <2>3, <2>5, <2>6, <2>10 DEF ReqInv, HeldIfHandled
<1> QED BY <1>7, <1>8

LEMMA TickInv ==
  ASSUME IInv, TypeOK', Tick
  PROVE  IInv'
<1>1. TypeOK BY DEF IInv
<1>2. UNCHANGED <<lastXid, handled>> BY DEF Tick
<1> SUFFICES ASSUME NEW p \in Peers, NEW x \in Xids PROVE ReqInv(p, x)'
  BY DEF IInv
<1>3. ReqInv(p, x) /\ Other(p) \in Peers BY OtherPeer DEF IInv
<1>4. local'[p][x] # NULL =>
        /\ local[p][x] # NULL /\ local[p][x] \in LocalXact
        /\ local'[p][x] = [local[p][x] EXCEPT !.response = Older(@), !.delayed = Older(@)]
  <2>1. local'[p][x] = IF local[p][x] = NULL THEN NULL
                         ELSE [local[p][x] EXCEPT !.response = Older(@), !.delayed = Older(@)]
    BY DEF Tick
  <2> QED BY <2>1, <1>1 DEF TypeOK, LocalType
<1>5. remote'[Other(p)][x] = IF remote[Other(p)][x] = NULL THEN NULL
                               ELSE [remote[Other(p)][x] EXCEPT !.holding = Older(@)]
  BY <1>3 DEF Tick
<1>6. \A n \in Copies(p, x)' : \E m \in Copies(p, x) :
          m.ttl \in Int /\ m.ttl > 0 /\ n.type = m.type /\ n.ttl = m.ttl - 1
  <2> SUFFICES ASSUME NEW n \in Copies(p, x)'
               PROVE  \E m \in Copies(p, x) :
                        m.ttl \in Int /\ m.ttl > 0 /\ n.type = m.type /\ n.ttl = m.ttl - 1
    OBVIOUS
  <2>1. PICK m \in net : m.ttl > 0 /\ n = [m EXCEPT !.ttl = @ - 1]
    BY DEF Tick, Copies
  <2>2. m \in Datagram BY <1>1 DEF TypeOK, NetType
  <2>3. /\ n.kind = m.kind /\ n.from = m.from /\ n.xid = m.xid /\ n.type = m.type
        /\ n.ttl = m.ttl - 1 /\ m.ttl \in Int
    BY <2>1, <2>2, Durations DEF Datagram
  <2> QED BY <2>1, <2>3 DEF Copies
<1>7. local'[p][x] # NULL =>
        /\ local'[p][x].type = local[p][x].type
        /\ local'[p][x].rcount = local[p][x].rcount
        /\ local'[p][x].response = Older(local[p][x].response)
        /\ local'[p][x].delayed = Older(local[p][x].delayed)
  BY <1>4 DEF LocalXact
<1>8. NoTrace(p, x)'
  BY <1>2, <1>3, <1>4, <1>6, <1>7 DEF ReqInv, NoTrace, Untransmitted, Running, Older
<1>9. remote[Other(p)][x] # NULL =>
        /\ remote[Other(p)][x] \in RemoteXact
        /\ remote'[Other(p)][x] # NULL
        /\ remote'[Other(p)][x].type = remote[Other(p)][x].type
        /\ remote'[Other(p)][x].holding = Older(remote[Other(p)][x].holding)
  <2> SUFFICES ASSUME NEW r \in RemoteXact, r = remote[Other(p)][x], r # NULL
               PROVE  /\ remote'[Other(p)][x] # NULL
                      /\ remote'[Other(p)][x].type = r.type
                      /\ remote'[Other(p)][x].holding = Older(r.holding)
    BY <1>1, <1>3 DEF TypeOK, RemoteType
  <2>1. remote'[Other(p)][x] = [r EXCEPT !.holding = Older(r.holding)] BY <1>5
  <2>2. Older(r.holding) \in Int BY Durations DEF RemoteXact, Older, T1Holding
  <2> QED BY <2>1, <2>2, ReheldRecord
<1>10. OneType(p, x)'
  BY <1>3, <1>4, <1>5, <1>6, <1>7, <1>9 DEF ReqInv, OneType
<1>11. HeldIfHandled(p, x)' BY <1>2, <1>3, <1>5 DEF ReqInv, HeldIfHandled
<1>12. \A d \in Int : d >= 0 /\ HeldBeyond(p, x, d) => HeldBeyond(p, x, d - 1)'
  <2> SUFFICES ASSUME NEW d \in Int, d >= 0, HeldBeyond(p, x, d)
               PROVE  HeldBeyond(p, x, d - 1)'
    OBVIOUS
  <2>1. /\ remote[Other(p)][x].holding \in Int /\ remote[Other(p)][x].holding > d
        /\ remote[Other(p)][x] # NULL
    BY <1>9, Durations DEF HeldBeyond, RemoteXact, T1Holding
  <2>2. remote[Other(p)][x].holding # Off BY <2>1, Durations
  <2> QED BY <2>1, <2>2, <1>9 DEF HeldBeyond, Older
<1>13. ASSUME handled[p][x] # 0, NEW n \in Copies(p, x)' PROVE HeldBeyond(p, x, n.ttl)'
  <2>1. PICK m \in Copies(p, x) : m.ttl \in Int /\ m.ttl > 0 /\ n.ttl = m.ttl - 1
    BY <1>6, <1>13
  <2> QED BY <2>1, <1>3, <1>12, <1>13 DEF ReqInv, CopiesOutlived
<1>14. ASSUME handled[p][x] # 0, local'[p][x] # NULL, Running(local'[p][x].response),
              local'[p][x].rcount > 1
       PROVE  HeldBeyond(p, x, LastArrival(local[p][x]))'
  <2>1. PICK l \in LocalXact : l = local[p][x] /\ local[p][x] # NULL BY <1>4, <1>14
  <2>2. Running(l.response) /\ l.rcount > 1
    BY <2>1, <1>7, <1>14 DEF Running, Older
  <2>3. LastArrival(l) \in Int /\ LastArrival(l) >= 0
    BY <2>2, ArrivalRange, Durations
  <2>4. HeldBeyond(p, x, LastArrival(l))
    BY <2>1, <2>2, <1>3, <1>14 DEF ReqInv, CopiesOutlived
  <2>5. local'[p][x].response = l.response - 1 /\ local'[p][x].rcount = l.rcount
    BY <2>1, <2>2, <1>7, <1>14 DEF Running, Older
  <2>6. l.response \in Int BY Durations DEF LocalXact
  <2>7. PICK d \in Int : d = LastArrival(l) BY <2>3
  <2>8. LastArrival(local[p][x])' = d - 1
    BY <2>5, <2>6, <2>7, Durations DEF LastArrival
  <2>9. HeldBeyond(p, x, d - 1)' BY <2>3, <2>4, <2>7, <1>12
  <2> QED BY <2>8, <2>9 DEF HeldBeyond
<1>15. CopiesOutlived(p, x)'
  BY <1>2, <1>13, <1>14 DEF CopiesOutlived, LastArrival, HeldBeyond
<1> QED BY <1>2, <1>3, <1>8, <1>10, <1>11, <1>15 DEF ReqInv

LEMMA InvStep ==
  ASSUME IInv, TypeOK', Prompt, ~SendFails, MaxRestarts = 0, [Next]_vars
  PROVE  IInv'
<1>1. CASE UNCHANGED vars
  <2>1. TypeOK BY DEF IInv
  <2>2. ASSUME NEW p \in Peers, NEW x \in Xids PROVE ReqInv(p, x)'
    <3>1. ReqInv(p, x) BY DEF IInv
    <3>2. Untouched(p, x) BY <1>1, <2>1 DEF Untouched, vars, TypeOK, KnownType, Copies
    <3> QED BY <2>1, <3>1, <3>2, Frame
  <2> QED BY <2>2 DEF IInv
<1>2. ASSUME NEW p \in Requesters, NEW type \in Types, SendRequest(p, type) PROVE IInv'
  BY <1>2, SendRequestInv, XactAssumption
<1>3. ASSUME NEW p \in Requesters, NEW type \in Types, NEW d \in Delays,
             SendDelayed(p, type, d)
      PROVE  IInv'
  BY <1>3, SendDelayedInv, XactAssumption
<1>4. ASSUME NEW p \in Peers, NEW x \in Xids, Timeout(p, x) PROVE IInv'
  BY <1>4, DelayedCommitInv, GiveUpInv, RetransmitInv, HoldingTimeoutInv DEF Timeout
<1>5. ASSUME NEW m \in net, Receive(m) PROVE IInv'
  <2>1. m.from \in Peers BY DEF IInv, TypeOK, NetType, Datagram
  <2>2. Other(m.from) \in Peers BY <2>1, OtherPeer
  <2> QED BY <1>5, <2>2, NewRequestInv, DuplicateRequestInv, NoCollision, AnsweredInv,
             StrayResponseInv DEF Receive
<1>6. CASE Tick BY <1>6, TickInv
<1>7. ASSUME NEW p \in Peers, Restart(p) PROVE FALSE
  BY <1>7 DEF Restart, IInv, TypeOK, KnownType
<1> QED BY <1>1, <1>2, <1>3, <1>4, <1>5, <1>6, <1>7 DEF Next

(* With short-lived datagrams, prompt loops, and neither a failing sendto() *)
(* nor a restart, a request is passed to the layer above at most once and   *)
(* its receiver remembers it for as long as a copy of it can arrive.        *)
THEOREM AtMostOnce ==
  ASSUME Prompt, ~SendFails, MaxRestarts = 0
  PROVE  Spec => []HandledAtMostOnce /\ []HoldingOutlivesCopies
<1>1. Init => IInv BY InvInit
<1>2. IInv /\ TypeOK' /\ [Next]_vars => IInv' BY InvStep
<1>3. IInv => HandledAtMostOnce /\ HoldingOutlivesCopies
  BY DEF IInv, ReqInv, HandledAtMostOnce, HoldingOutlivesCopies
<1> QED BY <1>1, <1>2, <1>3, TypeCorrect, PTL DEF Spec

-----------------------------------------------------------------------------
(* How a request ends: its transaction, what the layer above knows and the *)
(* counter of ids agree, whatever is lost, restarted or late.              *)

Consistent(xact, what, made) ==
  /\ made <=> what # "none"
  /\ xact # NULL => \/ /\ xact.step = 1 /\ what = "pending"
                       /\ Running(xact.response) \/ Running(xact.delayed)
                    \/ /\ xact.step = 2 /\ what = "ignored"
                       /\ ~Running(xact.response)
  /\ ~SendFails /\ what = "pending" => xact # NULL

EndInv == \A p \in Peers, x \in Xids : Consistent(local[p][x], outcome[p][x], x <= lastXid[p])

\* A step that concerns p0's request x0, new or old.
LEMMA OneRequestEnds ==
  ASSUME TypeOK, EndInv, NEW p0 \in Peers, NEW x0 \in Xids, NEW xact, NEW what,
         SetLocal(p0, x0, xact),
         Tell(p0, x0, what) \/ (outcome' = outcome /\ what = outcome[p0][x0]),
         \/ lastXid' = lastXid /\ Consistent(xact, what, x0 <= lastXid[p0])
         \/ /\ lastXid' = [lastXid EXCEPT ![p0] = x0] /\ x0 = lastXid[p0] + 1
            /\ Consistent(xact, what, TRUE)
  PROVE  EndInv'
<1> SUFFICES ASSUME NEW p \in Peers, NEW x \in Xids
             PROVE  Consistent(local'[p][x], outcome'[p][x], x <= lastXid'[p])
  BY DEF EndInv, Consistent
<1>1. /\ Consistent(local[p][x], outcome[p][x], x <= lastXid[p])
      /\ lastXid[p] \in Int /\ x \in Int
  BY DEF EndInv, TypeOK, KnownType, Xids
<1>2. CASE p # p0 \/ x # x0
  <2>1. local'[p][x] = local[p][x] /\ outcome'[p][x] = outcome[p][x]
    BY <1>2 DEF SetLocal, Tell, TypeOK, LocalType, KnownType
  <2>2. x <= lastXid'[p] <=> x <= lastXid[p]
    <3>1. CASE p # p0
      BY <3>1 DEF TypeOK, KnownType
    <3>2. CASE p = p0 /\ x # x0
      <4>1. \/ lastXid'[p] = lastXid[p]
            \/ lastXid'[p] = x0 /\ x0 = lastXid[p] + 1
        BY <3>2 DEF TypeOK, KnownType
      <4> QED BY <1>1, <3>2, <4>1 DEF Xids
    <3> QED BY <1>2, <3>1, <3>2
  <2> QED BY <1>1, <2>1, <2>2 DEF Consistent
<1>3. CASE p = p0 /\ x = x0
  <2>1. local'[p][x] = xact /\ outcome'[p][x] = what
    BY <1>3 DEF SetLocal, Tell, TypeOK, LocalType, KnownType
  <2>2. \/ Consistent(xact, what, x <= lastXid[p]) /\ lastXid'[p] = lastXid[p]
        \/ Consistent(xact, what, TRUE) /\ lastXid'[p] = x
    BY <1>3 DEF TypeOK, KnownType
  <2> QED BY <1>1, <2>1, <2>2 DEF Consistent
<1> QED BY <1>2, <1>3

\* A transaction that was found is of a request that was made.
LEMMA FoundWasMade ==
  ASSUME TypeOK, EndInv, NEW p \in Peers, NEW x \in Xids, local[p][x] # NULL
  PROVE  /\ local[p][x] \in LocalXact
         /\ x <= lastXid[p]
         /\ local[p][x].step = 1 => outcome[p][x] = "pending"
         /\ local[p][x].step = 2 => outcome[p][x] = "ignored"
  BY DEF TypeOK, LocalType, EndInv, Consistent

LEMMA NotNull ==
  ASSUME NEW l \in [type : Types, step : Int, rcount : Int, response : Int, delayed : Int]
  PROVE  l # NULL
  BY XactAssumption

LEMMA LocalXactInts ==
  LocalXact \subseteq [type : Types, step : Int, rcount : Int, response : Int, delayed : Int]
  BY Durations DEF LocalXact, ResponseRcount

LEMMA RetimedNotNull ==
  ASSUME NEW l \in LocalXact, NEW response \in Int, NEW delayed \in Int
  PROVE  [l EXCEPT !.response = response, !.delayed = delayed] # NULL
<1>1. l \in [type : Types, step : Int, rcount : Int, response : Int, delayed : Int]
  BY LocalXactInts
<1>2. [l EXCEPT !.response = response, !.delayed = delayed]
        \in [type : Types, step : Int, rcount : Int, response : Int, delayed : Int]
  BY <1>1
<1> QED BY <1>2, NotNull

LEMMA CreatedRecord ==
  ASSUME NEW type \in Types, NEW t \in Int
  PROVE  /\ [Created(type) EXCEPT !.delayed = t] # NULL
         /\ [Created(type) EXCEPT !.delayed = t].step = 1
         /\ [Created(type) EXCEPT !.delayed = t].delayed = t
  BY XactAssumption, CreatedType DEF Created, LocalXact

LEMMA TimedRecord ==
  ASSUME NEW l \in LocalXact
  PROVE  /\ [l EXCEPT !.response = T1, !.delayed = Off] # NULL
         /\ [l EXCEPT !.response = T1, !.delayed = Off].step = l.step
         /\ [l EXCEPT !.response = T1, !.delayed = Off].response = T1
<1>1. [l EXCEPT !.response = T1, !.delayed = Off] \in LocalXact
  BY RetimedType, TimerValues
<1>2. [l EXCEPT !.response = T1, !.delayed = Off] # NULL
  BY <1>1, NotNull, LocalXactInts
<1> QED BY <1>2 DEF LocalXact

LEMMA RecountedRecord ==
  ASSUME NEW l \in LocalXact, l.rcount > 1
  PROVE  /\ [l EXCEPT !.rcount = @ - 1, !.response = T1] # NULL
         /\ [l EXCEPT !.rcount = @ - 1, !.response = T1].step = l.step
         /\ [l EXCEPT !.rcount = @ - 1, !.response = T1].response = T1
<1>1. l.rcount - 1 \in 1 .. ResponseRcount
  BY DEF LocalXact, ResponseRcount
<1>2. [l EXCEPT !.rcount = @ - 1, !.response = T1] \in LocalXact
  BY <1>1, CountedType, TimerValues
<1>3. [l EXCEPT !.rcount = @ - 1, !.response = T1] # NULL
  BY <1>2, NotNull, LocalXactInts
<1> QED BY <1>3 DEF LocalXact

LEMMA SteppedRecord ==
  ASSUME NEW l \in LocalXact
  PROVE  /\ [l EXCEPT !.step = 2, !.response = Off] # NULL
         /\ [l EXCEPT !.step = 2, !.response = Off].step = 2
         /\ [l EXCEPT !.step = 2, !.response = Off].response = Off
<1>1. [l EXCEPT !.step = 2, !.response = Off] \in LocalXact
  BY SteppedType, TimerValues
<1>2. [l EXCEPT !.step = 2, !.response = Off] # NULL
  BY <1>1, NotNull, LocalXactInts
<1> QED BY <1>2 DEF LocalXact

LEMMA RunningTimers == Running(T1) /\ \A d \in Delays : Running(d)
  BY XactAssumption, Durations DEF Running, Off

\* The end of a transaction.
LEMMA NoneConsistent ==
  ASSUME NEW what, what \notin {"none", "pending"}
  PROVE  Consistent(NULL, what, TRUE)
  BY DEF Consistent

LEMMA SendRequestEnds ==
  ASSUME TypeOK, EndInv, NEW p \in Peers, NEW type \in Types, SendRequest(p, type)
  PROVE  EndInv'
<1>1. PICK x \in Xids : x = lastXid[p] + 1
  BY XactAssumption DEF SendRequest, TypeOK, KnownType, Xids
<1>2. PICK sent \in SendOutcomes : /\ CommitRequest(p, x, Created(type), sent)
                                   /\ Tell(p, x, IF sent THEN "pending" ELSE "failed")
                                   /\ lastXid' = [lastXid EXCEPT ![p] = x]
  BY <1>1 DEF SendRequest
<1>3. CASE sent
  <2>1. PICK xact : xact = [Created(type) EXCEPT !.response = T1, !.delayed = Off]
    OBVIOUS
  <2>2. xact # NULL /\ xact.step = 1 /\ xact.response = T1
    BY <2>1, CreatedType, TimedRecord DEF Created
  <2>3. SetLocal(p, x, xact) /\ Tell(p, x, "pending")
    BY <1>2, <1>3, <2>1 DEF CommitRequest
  <2>4. Consistent(xact, "pending", TRUE)
    BY <2>2, RunningTimers DEF Consistent
  <2> QED BY <1>1, <1>2, <2>3, <2>4, OneRequestEnds
<1>4. CASE ~sent
  <2>1. SetLocal(p, x, NULL) /\ Tell(p, x, "failed")
    BY <1>2, <1>4 DEF CommitRequest
  <2> QED BY <1>1, <1>2, <2>1, NoneConsistent, OneRequestEnds
<1> QED BY <1>3, <1>4

LEMMA SendDelayedEnds ==
  ASSUME TypeOK, EndInv, NEW p \in Peers, NEW type \in Types, NEW d \in Delays,
         SendDelayed(p, type, d)
  PROVE  EndInv'
<1>1. PICK x \in Xids : x = lastXid[p] + 1
  BY XactAssumption DEF SendDelayed, TypeOK, KnownType, Xids
<1>2. PICK xact : xact = [Created(type) EXCEPT !.delayed = d]
  OBVIOUS
<1>3. SetLocal(p, x, xact) /\ Tell(p, x, "pending") /\ lastXid' = [lastXid EXCEPT ![p] = x]
  BY <1>1, <1>2 DEF SendDelayed
<1>4. xact # NULL /\ xact.step = 1 /\ xact.delayed = d
  BY <1>2, CreatedRecord, Durations
<1>5. Consistent(xact, "pending", TRUE)
  BY <1>4, RunningTimers DEF Consistent
<1> QED BY <1>1, <1>3, <1>5, OneRequestEnds

LEMMA TimeoutEnds ==
  ASSUME TypeOK, EndInv, NEW p \in Peers, NEW x \in Xids,
         DelayedCommitTimeout(p, x) \/ GiveUp(p, x) \/ Retransmit(p, x)
  PROVE  EndInv'
<1>1. PICK l \in LocalXact : l = local[p][x] /\ local[p][x] # NULL
  BY FoundWasMade DEF DelayedCommitTimeout, GiveUp, Retransmit
<1>2. x <= lastXid[p] /\ lastXid' = lastXid
  BY <1>1, FoundWasMade DEF DelayedCommitTimeout, GiveUp, Retransmit
\* An attempt to send that failed.
<1>3. ASSUME SendFails, SetLocal(p, x, NULL), outcome' = outcome
      PROVE  EndInv'
  <2>1. Consistent(local[p][x], outcome[p][x], x <= lastXid[p])
    BY DEF EndInv
  <2>2. Consistent(NULL, outcome[p][x], x <= lastXid[p])
    BY <1>3, <2>1 DEF Consistent
  <2> QED BY <1>2, <1>3, <2>2, OneRequestEnds
<1>4. CASE DelayedCommitTimeout(p, x)
  <2>1. CASE /\ l.step = 1
             /\ SetLocal(p, x, [l EXCEPT !.response = T1, !.delayed = Off])
    <3>1. PICK xact : xact = [l EXCEPT !.response = T1, !.delayed = Off]
      OBVIOUS
    <3>2. Consistent(xact, "pending", x <= lastXid[p])
      BY <1>2, <2>1, <3>1, TimedRecord, RunningTimers DEF Consistent
    <3>3. SetLocal(p, x, xact) /\ outcome' = outcome /\ outcome[p][x] = "pending"
      BY <1>1, <1>4, <2>1, <3>1, FoundWasMade DEF DelayedCommitTimeout
    <3> QED BY <1>2, <3>2, <3>3, OneRequestEnds
  <2>2. CASE SendFails /\ SetLocal(p, x, NULL)
    BY <1>3, <1>4, <2>2 DEF DelayedCommitTimeout
  <2>3. CASE l.step = 2 /\ SetLocal(p, x, NULL)
    <3>1. outcome[p][x] = "ignored" /\ outcome' = outcome
      BY <1>1, <1>4, <2>3, FoundWasMade DEF DelayedCommitTimeout
    <3>2. Consistent(NULL, "ignored", x <= lastXid[p])
      BY <1>2, NoneConsistent DEF Consistent
    <3> QED BY <1>2, <2>3, <3>1, <3>2, OneRequestEnds
  <2> QED
    BY <1>1, <1>4, <2>1, <2>2, <2>3 DEF DelayedCommitTimeout, CommitRequest, SendOutcomes
<1>5. CASE GiveUp(p, x)
  <2>1. Consistent(NULL, "timeout", x <= lastXid[p])
    BY <1>2, NoneConsistent DEF Consistent
  <2> QED BY <1>2, <1>5, <2>1, OneRequestEnds DEF GiveUp
<1>6. CASE Retransmit(p, x)
  <2>1. l.rcount > 1 /\ outcome' = outcome /\ Running(l.response)
    BY <1>1, <1>6 DEF Retransmit, Expired, Running
  <2>2. CASE SetLocal(p, x, [l EXCEPT !.rcount = @ - 1, !.response = T1])
    <3>1. PICK xact : xact = [l EXCEPT !.rcount = @ - 1, !.response = T1]
      OBVIOUS
    <3>2. xact # NULL /\ xact.step = l.step /\ xact.response = T1
      BY <2>1, <3>1, RecountedRecord
    <3>3. Consistent(l, outcome[p][x], x <= lastXid[p])
      BY <1>1 DEF EndInv
    <3>4. Consistent(xact, outcome[p][x], x <= lastXid[p])
      BY <1>1, <2>1, <3>2, <3>3, RunningTimers DEF Consistent
    <3> QED BY <1>2, <2>1, <2>2, <3>1, <3>4, OneRequestEnds
  <2>3. CASE SendFails /\ SetLocal(p, x, NULL)
    BY <1>3, <2>1, <2>3
  <2> QED BY <1>1, <1>6, <2>2, <2>3 DEF Retransmit, SendOutcomes
<1> QED BY <1>4, <1>5, <1>6

LEMMA ResponseEnds ==
  ASSUME TypeOK, EndInv, NEW p \in Peers, NEW m \in net, Answered(p, m) \/ StrayResponse(p, m)
  PROVE  EndInv'
<1>1. PICK x \in Xids : x = m.xid
  BY DEF TypeOK, NetType, Datagram
<1>2. lastXid' = lastXid
  BY DEF Answered, StrayResponse
<1>3. CASE Answered(p, m)
  <2>1. local[p][x] # NULL /\ local[p][x] \in LocalXact /\ x <= lastXid[p]
    BY <1>1, <1>3, FoundWasMade DEF Answered
  <2>2. CASE SetLocal(p, x, NULL) /\ Tell(p, x, "answered")
    <3>1. Consistent(NULL, "answered", x <= lastXid[p])
      BY <2>1, NoneConsistent DEF Consistent
    <3> QED BY <1>2, <2>2, <3>1, OneRequestEnds
  <2>3. CASE /\ SetLocal(p, x, [local[p][x] EXCEPT !.step = 2, !.response = Off])
             /\ Tell(p, x, "ignored")
    <3>1. PICK xact : xact = [local[p][x] EXCEPT !.step = 2, !.response = Off]
      OBVIOUS
    <3>2. Consistent(xact, "ignored", x <= lastXid[p])
      BY <2>1, <3>1, SteppedRecord DEF Consistent, Running
    <3> QED BY <1>2, <2>3, <3>1, <3>2, OneRequestEnds
  <2> QED BY <1>1, <1>3, <2>2, <2>3 DEF Answered
<1>4. CASE StrayResponse(p, m)
  <2>1. SetLocal(p, x, NULL) /\ outcome' = outcome /\ (local[p][x] # NULL => local[p][x].step = 2)
    BY <1>1, <1>4 DEF StrayResponse
  <2>2. Consistent(local[p][x], outcome[p][x], x <= lastXid[p])
    BY DEF EndInv
  <2>3. Consistent(NULL, outcome[p][x], x <= lastXid[p])
    BY <2>1, <2>2 DEF Consistent
  <2> QED BY <1>2, <2>1, <2>3, OneRequestEnds
<1> QED BY <1>3, <1>4

LEMMA TickEnds ==
  ASSUME TypeOK, EndInv, Tick
  PROVE  EndInv'
<1> SUFFICES ASSUME NEW p \in Peers, NEW x \in Xids
             PROVE  Consistent(local'[p][x], outcome'[p][x], x <= lastXid'[p])
  BY DEF EndInv, Consistent
<1>1. /\ Consistent(local[p][x], outcome[p][x], x <= lastXid[p])
      /\ outcome' = outcome /\ lastXid' = lastXid
  BY DEF EndInv, Tick
<1>2. CASE local[p][x] = NULL
  BY <1>1, <1>2 DEF Tick
<1>3. CASE local[p][x] # NULL
  <2>1. PICK l \in LocalXact : l = local[p][x]
    BY <1>3 DEF TypeOK, LocalType
  <2>2. local'[p][x] = [l EXCEPT !.response = Older(l.response), !.delayed = Older(l.delayed)]
    BY <1>3, <2>1 DEF Tick
  <2>3. l.response \in Timers(p) /\ l.delayed \in Timers(p)
    BY <1>3, <2>1 DEF Timers, Live
  <2>4. \A timer \in {l.response, l.delayed} : Running(timer) => timer > -Lag
    BY <2>3 DEF Tick
  <2>5. \A timer \in {l.response, l.delayed} : Running(timer) <=> Running(Older(timer))
    BY <2>4, Durations DEF Running, Older, Off, LocalXact
  <2>6. /\ local'[p][x].step = l.step
        /\ local'[p][x].response = Older(l.response)
        /\ local'[p][x].delayed = Older(l.delayed)
    BY <2>2 DEF LocalXact
  <2>7. local'[p][x] # NULL
    <3>1. Older(l.response) \in Int /\ Older(l.delayed) \in Int
      BY Durations DEF Older, LocalXact
    <3>2. [l EXCEPT !.response = Older(l.response), !.delayed = Older(l.delayed)] # NULL
      BY <3>1, RetimedNotNull
    <3> QED BY <2>2, <3>2
  <2>8. Consistent(l, outcome[p][x], x <= lastXid[p])
    BY <1>1, <2>1
  <2> QED BY <1>1, <1>3, <2>1, <2>5, <2>6, <2>7, <2>8 DEF Consistent
<1> QED BY <1>2, <1>3

LEMMA RestartEnds ==
  ASSUME TypeOK, EndInv, NEW p0 \in Peers, Restart(p0)
  PROVE  EndInv'
<1> SUFFICES ASSUME NEW p \in Peers, NEW x \in Xids
             PROVE  Consistent(local'[p][x], outcome'[p][x], x <= lastXid'[p])
  BY DEF EndInv, Consistent
<1>1. CASE p = p0
  BY <1>1 DEF Restart, Consistent, TypeOK, LocalType, KnownType, Xids
<1>2. CASE p # p0
  BY <1>2 DEF Restart, EndInv, TypeOK, LocalType, KnownType
<1> QED BY <1>1, <1>2

LEMMA NextEnds ==
  ASSUME TypeOK, EndInv, [Next]_vars
  PROVE  EndInv'
<1>1. ASSUME NEW p \in Requesters, NEW type \in Types, SendRequest(p, type) PROVE EndInv'
  BY <1>1, SendRequestEnds, XactAssumption
<1>2. ASSUME NEW p \in Requesters, NEW type \in Types, NEW d \in Delays,
             SendDelayed(p, type, d)
      PROVE  EndInv'
  BY <1>2, SendDelayedEnds, XactAssumption
<1>3. CASE UNCHANGED <<local, outcome, lastXid>>
  BY <1>3 DEF EndInv
<1>4. ASSUME NEW p \in Peers, NEW x \in Xids, Timeout(p, x) PROVE EndInv'
  BY <1>3, <1>4, TimeoutEnds DEF Timeout, HoldingTimeout
<1>5. ASSUME NEW m \in net, Receive(m) PROVE EndInv'
  <2>1. Other(m.from) \in Peers
    BY OtherPeer DEF TypeOK, NetType, Datagram
  <2> QED BY <1>3, <1>5, <2>1, ResponseEnds
          DEF Receive, NewRequest, DuplicateRequest, CollidingRequest
<1> QED BY <1>1, <1>2, <1>3, <1>4, <1>5, TickEnds, RestartEnds DEF Next, vars

LEMMA EndInit == Init => EndInv
  BY DEF Init, EndInv, Consistent, Xids

(* Whatever is lost, late or restarted, a live transaction has a timer     *)
(* that will end it, or its answer came and was ignored.                   *)
THEOREM NothingElseLeaks == Spec => []OnlyIgnoredLeak
<1>1. TypeOK /\ EndInv => OnlyIgnoredLeak
  BY DEF EndInv, Consistent, OnlyIgnoredLeak, Live
<1> QED BY <1>1, EndInit, NextEnds, TypeCorrect, PTL DEF Spec

(* When sendto() does not fail, a transaction does not disappear before    *)
(* the layer above knows how its request ended, restarts included.         *)
THEOREM EndsAreTold ==
  ASSUME ~SendFails
  PROVE  Spec => []EndIsTold
<1>1. EndInv => EndIsTold
  BY DEF EndInv, Consistent, EndIsTold
<1> QED BY <1>1, EndInit, NextEnds, TypeCorrect, PTL DEF Spec

-----------------------------------------------------------------------------
(* The refinement of RequestReply.                                         *)

\* An answer in flight is to a request that was handled.
RepliesInv == \A m \in net : m.kind = "response" => handled[Other(m.from)][m.xid] # 0

\* The datagrams of a step are those in flight, requests, and answers of q to
\* the request x that it has handled.
LEMMA RepliesStay ==
  ASSUME TypeOK, RepliesInv, NEW q \in Peers, NEW x \in Xids,
         \A m \in net' : \/ \E n \in net : m.kind = n.kind /\ m.from = n.from /\ m.xid = n.xid
                         \/ m.kind = "request"
                         \/ m.from = q /\ m.xid = x /\ handled'[Other(q)][x] # 0,
         \A p \in Peers, y \in Xids : handled[p][y] # 0 => handled'[p][y] # 0
  PROVE  RepliesInv'
<1> SUFFICES ASSUME NEW m \in net', m.kind = "response"
             PROVE  handled'[Other(m.from)][m.xid] # 0
  BY DEF RepliesInv
<1>1. CASE \E n \in net : m.kind = n.kind /\ m.from = n.from /\ m.xid = n.xid
  <2>1. PICK n \in net : n.kind = "response" /\ m.from = n.from /\ m.xid = n.xid
    BY <1>1
  <2>2. n.xid \in Xids /\ Other(n.from) \in Peers
    BY OtherPeer DEF TypeOK, NetType, Datagram
  <2>3. handled[Other(n.from)][n.xid] # 0
    BY <2>1 DEF RepliesInv
  <2> QED BY <2>1, <2>2, <2>3
<1>2. CASE m.from = q /\ m.xid = x /\ handled'[Other(q)][x] # 0
  BY <1>2
<1> QED BY <1>1, <1>2

\* A step that neither the requester nor the other end's layer above notices.
LEMMA UnnoticedStep ==
  ASSUME TypeOK, RepliesInv, UNCHANGED <<outcome, handled>>,
         \A m \in net' : \/ \E n \in net : m.kind = n.kind /\ m.from = n.from /\ m.xid = n.xid
                         \/ m.kind = "request"
  PROVE  UNCHANGED Abstract!rrVars /\ RepliesInv'
<1>1. PICK q \in Peers : TRUE
  BY XactAssumption
<1>2. PICK x \in Xids : TRUE
  BY XactAssumption DEF Xids
<1> QED BY <1>1, <1>2, RepliesStay DEF Abstract!rrVars

LEMMA Sent ==
  ASSUME NEW q, NEW type, NEW x
  PROVE  /\ Request(q, type, x).kind = "request"
         /\ Response(q, type, x).from = q /\ Response(q, type, x).xid = x
  BY DEF Request, Response

\* The tick of the clock leaves what the datagrams say.
LEMMA AgedNet ==
  ASSUME TypeOK, Tick
  PROVE  \A m \in net' : \E n \in net : m.kind = n.kind /\ m.from = n.from /\ m.xid = n.xid
<1> SUFFICES ASSUME NEW m \in net'
             PROVE  \E n \in net : m.kind = n.kind /\ m.from = n.from /\ m.xid = n.xid
  OBVIOUS
<1>1. PICK n \in net : m = [n EXCEPT !.ttl = @ - 1]
  BY DEF Tick
<1> QED BY <1>1 DEF TypeOK, NetType, Datagram

LEMMA AskStep ==
  ASSUME TypeOK, EndInv, NEW p \in Peers, NEW x \in Xids, x = lastXid[p] + 1,
         NEW what \in {"pending", "failed"}, Tell(p, x, what), UNCHANGED handled
  PROVE  Abstract!RRNext
<1>1. outcome[p][x] = "none"
  <2>1. ~(x <= lastXid[p])
    BY DEF TypeOK, KnownType, Xids
  <2> QED BY <2>1 DEF EndInv, Consistent
<1>2. Abstract!Ask(p, x)
  BY <1>1 DEF Abstract!Ask, Abstract!Becomes, Tell
<1> QED BY <1>2 DEF Abstract!RRNext

LEMMA NewRequestIsHandle ==
  ASSUME IInv, EndInv, RepliesInv, NEW m \in net, NewRequest(Other(m.from), m)
  PROVE  Abstract!RRNext /\ RepliesInv'
<1>1. TypeOK /\ m.from \in Peers /\ m.xid \in Xids /\ Other(m.from) \in Peers
  BY OtherPeer DEF IInv, TypeOK, NetType, Datagram
<1>2. PICK p \in Peers, x \in Xids : p = m.from /\ x = m.xid
  BY <1>1
<1>3. /\ remote[Other(p)][x] = NULL /\ outcome' = outcome
      /\ handled' = [handled EXCEPT ![p][x] = IF @ = 2 THEN 2 ELSE @ + 1]
      /\ m \in Copies(p, x)
  BY <1>2 DEF NewRequest, Copies
<1>4. handled[p][x] = 0
  BY <1>3 DEF IInv, ReqInv, CopiesOutlived, HeldBeyond
<1>5. outcome[p][x] # "none"
  <2>1. ~Untransmitted(p, x)
    BY <1>3 DEF IInv, ReqInv, NoTrace
  <2>2. x <= lastXid[p]
    BY <2>1, <1>1 DEF Untransmitted, TypeOK, KnownType, Xids
  <2> QED BY <2>2 DEF EndInv, Consistent
<1>6. handled' = [handled EXCEPT ![p][x] = 1]
  BY <1>1, <1>3, <1>4 DEF TypeOK, KnownType
<1>7. Abstract!Handle(p, x)
  BY <1>3, <1>4, <1>5, <1>6 DEF Abstract!Handle
<1>8. RepliesInv'
  <2>1. \A r \in Peers, y \in Xids : handled[r][y] # 0 => handled'[r][y] # 0
    BY <1>1, <1>6 DEF TypeOK, KnownType
  <2>2. handled'[Other(Other(p))][x] # 0
    BY <1>1, <1>6, OtherPeer DEF TypeOK, KnownType
  <2>3. \A n \in net' : n \in net \/ n = Response(Other(p), m.type, x)
    BY <1>2 DEF NewRequest, Deliveries
  <2>4. \A n \in net' : \/ \E o \in net : n.kind = o.kind /\ n.from = o.from /\ n.xid = o.xid
                        \/ n.from = Other(p) /\ n.xid = x /\ handled'[Other(Other(p))][x] # 0
    BY <2>2, <2>3, Sent
  <2> QED BY <1>1, <1>2, <2>1, <2>4, RepliesStay
<1> QED BY <1>7, <1>8 DEF Abstract!RRNext

LEMMA DuplicateIsUnnoticed ==
  ASSUME IInv, RepliesInv, NEW m \in net, DuplicateRequest(Other(m.from), m)
  PROVE  UNCHANGED Abstract!rrVars /\ RepliesInv'
<1>1. TypeOK /\ m.from \in Peers /\ m.xid \in Xids /\ Other(m.from) \in Peers
  BY OtherPeer DEF IInv, TypeOK, NetType, Datagram
<1>2. PICK p \in Peers, x \in Xids : p = m.from /\ x = m.xid
  BY <1>1
<1>3. remote[Other(p)][x] # NULL /\ UNCHANGED <<outcome, handled>>
  BY <1>2 DEF DuplicateRequest
<1>4. handled'[Other(Other(p))][x] # 0
  BY <1>3, OtherPeer DEF IInv, ReqInv, HeldIfHandled
<1>5. \A n \in net' : n \in net \/ n = Response(Other(p), m.type, x)
  BY <1>2 DEF DuplicateRequest, Deliveries
<1>6. \A n \in net' : \/ \E o \in net : n.kind = o.kind /\ n.from = o.from /\ n.xid = o.xid
                      \/ n.from = Other(p) /\ n.xid = x /\ handled'[Other(Other(p))][x] # 0
  BY <1>4, <1>5, Sent
<1> QED BY <1>1, <1>2, <1>3, <1>6, RepliesStay DEF Abstract!rrVars

LEMMA AnsweredIsAnswer ==
  ASSUME IInv, EndInv, RepliesInv, NEW m \in net, Answered(Other(m.from), m)
  PROVE  Abstract!RRNext /\ RepliesInv'
<1>1. TypeOK /\ m.xid \in Xids /\ Other(m.from) \in Peers
  BY OtherPeer DEF IInv, TypeOK, NetType, Datagram
<1>2. PICK p \in Peers, x \in Xids : p = Other(m.from) /\ x = m.xid
  BY <1>1
<1>3. handled[p][x] = 1
  <2>1. handled[p][x] # 0
    BY <1>2 DEF Answered, RepliesInv
  <2>2. handled[p][x] \in 0 .. 2 /\ handled[p][x] <= 1
    BY <1>1 DEF IInv, ReqInv, TypeOK, KnownType
  <2> QED BY <2>1, <2>2
<1>4. outcome[p][x] = "pending"
  BY <1>1, <1>2, FoundWasMade DEF Answered
<1>5. Abstract!Answer(p, x)
  BY <1>2, <1>3, <1>4 DEF Answered, Tell, Abstract!Answer, Abstract!Becomes
<1>6. RepliesInv'
  BY DEF RepliesInv, Answered, Deliveries
<1> QED BY <1>5, <1>6 DEF Abstract!RRNext

LEMMA TimeoutIsGiveUp ==
  ASSUME TypeOK, EndInv, RepliesInv, NEW p \in Peers, NEW x \in Xids, Timeout(p, x)
  PROVE  [Abstract!RRNext]_(Abstract!rrVars) /\ RepliesInv'
<1>1. CASE GiveUp(p, x)
  <2>1. outcome[p][x] = "pending"
    BY <1>1 DEF GiveUp, EndInv, Consistent, Expired, Running
  <2>2. Abstract!GiveUpOn(p, x)
    BY <1>1, <2>1 DEF GiveUp, Tell, Abstract!GiveUpOn, Abstract!Becomes
  <2>3. RepliesInv'
    BY <1>1 DEF GiveUp, RepliesInv
  <2> QED BY <2>2, <2>3 DEF Abstract!RRNext
<1>2. CASE DelayedCommitTimeout(p, x) \/ Retransmit(p, x) \/ HoldingTimeout(p, x)
  <2>1. UNCHANGED <<outcome, handled>>
    BY <1>2 DEF DelayedCommitTimeout, Retransmit, HoldingTimeout
  <2>2. \A m \in net' : m \in net \/ m = Request(p, local[p][x].type, x)
    BY <1>2 DEF DelayedCommitTimeout, CommitRequest, Retransmit, Transmit, HoldingTimeout
  <2>3. \A m \in net' : \/ \E n \in net : m.kind = n.kind /\ m.from = n.from /\ m.xid = n.xid
                        \/ m.kind = "request"
    BY <2>2, Sent
  <2> QED BY <2>1, <2>3, UnnoticedStep
<1> QED BY <1>1, <1>2 DEF Timeout

LEMMA SendIsAsk ==
  ASSUME TypeOK, EndInv, RepliesInv, NEW p \in Peers, NEW type \in Types,
         SendRequest(p, type) \/ \E d \in Delays : SendDelayed(p, type, d)
  PROVE  Abstract!RRNext /\ RepliesInv'
<1>0. lastXid[p] < MaxXid
  BY DEF SendRequest, SendDelayed
<1>1. PICK x \in Xids : x = lastXid[p] + 1
  BY <1>0, XactAssumption DEF TypeOK, KnownType, Xids
<1>2. PICK what \in {"pending", "failed"} : Tell(p, x, what)
  BY <1>1 DEF SendRequest, SendDelayed
<1>3. UNCHANGED handled
  BY DEF SendRequest, SendDelayed
<1>4. \A m \in net' : m \in net \/ m = Request(p, Created(type).type, x)
  BY <1>1 DEF SendRequest, SendDelayed, CommitRequest, Transmit
<1>5. \A m \in net' : m \in net \/ m.kind = "request"
  BY <1>4, Sent
<1>6. RepliesInv'
  BY <1>3, <1>5 DEF RepliesInv
<1> QED BY <1>1, <1>2, <1>3, <1>6, AskStep

LEMMA NextIsRequestReply ==
  ASSUME IInv, EndInv, RepliesInv, MaxRestarts = 0, [Next]_vars
  PROVE  [Abstract!RRNext]_(Abstract!rrVars) /\ RepliesInv'
<1>0. TypeOK
  BY DEF IInv
<1>1. ASSUME NEW p \in Requesters, NEW type \in Types,
             SendRequest(p, type) \/ \E d \in Delays : SendDelayed(p, type, d)
      PROVE  [Abstract!RRNext]_(Abstract!rrVars) /\ RepliesInv'
  BY <1>0, <1>1, SendIsAsk, XactAssumption
<1>2. ASSUME NEW m \in net, Receive(m)
      PROVE  [Abstract!RRNext]_(Abstract!rrVars) /\ RepliesInv'
  <2>1. CASE StrayResponse(Other(m.from), m)
    BY <1>0, <2>1, UnnoticedStep DEF StrayResponse, Deliveries
  <2> QED BY <1>2, <2>1, NoCollision, NewRequestIsHandle, DuplicateIsUnnoticed, AnsweredIsAnswer
          DEF Receive
<1>3. CASE Tick
  BY <1>0, <1>3, AgedNet, UnnoticedStep DEF Tick
<1>4. ASSUME NEW p \in Peers, Restart(p) PROVE FALSE
  BY <1>4 DEF Restart, IInv, TypeOK, KnownType
<1>5. CASE UNCHANGED vars
  BY <1>5 DEF vars, Abstract!rrVars, RepliesInv
<1> QED BY <1>0, <1>1, <1>2, <1>3, <1>4, <1>5, TimeoutIsGiveUp DEF Next

(* Under the conditions of AtMostOnce, the transaction layer is a service  *)
(* on which a request is handled at most once, is answered only if it was  *)
(* handled, and ends for its requester once.                               *)
THEOREM XactsAreRequestReply ==
  ASSUME Prompt, ~SendFails, MaxRestarts = 0
  PROVE  Spec => ImplementsRequestReply
<1>1. Init => Abstract!RRInit /\ RepliesInv
  BY DEF Init, Abstract!RRInit, RepliesInv
<1>2. IInv /\ EndInv /\ RepliesInv /\ [Next]_vars
        => [Abstract!RRNext]_(Abstract!rrVars) /\ RepliesInv'
  BY NextIsRequestReply
<1>3. TypeOK /\ EndInv /\ [Next]_vars => EndInv'
  BY NextEnds
<1>4. IInv /\ TypeOK' /\ [Next]_vars => IInv'
  BY InvStep
<1> QED BY <1>1, <1>2, <1>3, <1>4, InvInit, EndInit, TypeCorrect, PTL
        DEF Spec, ImplementsRequestReply, Abstract!RRSpec

=============================================================================
