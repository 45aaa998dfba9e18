------------------------ MODULE PfcpAssociation_proofs ------------------------
(***************************************************************************)
(* Watched and the types.  All that Watched says is about one peer, so it  *)
(* is proved from a predicate (Good) of what p keeps for its peer: its     *)
(* state, its timers, its queued events and its open heartbeat.  A lemma   *)
(* says what each step of p makes of that; another peer's step does not    *)
(* touch it.                                                               *)
(*                                                                         *)
(* Watched is not inductive.  An event must not be queued twice, for when  *)
(* one copy is handled the other would watch beside what replaced the      *)
(* first; and an event of the association timer must not be behind the     *)
(* one that starts that timer again.                                       *)
(***************************************************************************)
EXTENDS PfcpAssociation, TLAPS

Events == {"association", "no_heartbeat", "gone"}
Txns   == {"none", "requested", "answered", "ignored"}

\* Sequences of events.
In(ev, e)  == \E i \in 1 .. Len(ev) : ev[i] = e
Once(ev)   == \A i, j \in 1 .. Len(ev) : ev[i] = ev[j] => i = j
Sorted(ev) == \A i, j \in 1 .. Len(ev) : i < j /\ ev[i] # "association" => ev[j] # "association"

\* What watches, of the parts of one peer: at most one, and none without need.
WatchedBy(t, ev, h) ==
    \/ "no_heartbeat" \in t \/ In(ev, "no_heartbeat") \/ h # "none" \/ In(ev, "gone")

Apart(t, ev, h) ==
    /\ "no_heartbeat" \in t => ~In(ev, "no_heartbeat") /\ h = "none" /\ ~In(ev, "gone")
    /\ In(ev, "no_heartbeat") => h = "none" /\ ~In(ev, "gone")
    /\ h # "none" => ~In(ev, "gone")

Good(p, s, t, ev, h) ==
    /\ s \in States /\ t \in SUBSET {"association", "no_heartbeat"} /\ h \in Txns
    /\ ev \in Seq(Events) /\ Once(ev) /\ Sorted(ev)
    /\ p \in configured => s # "unknown"
    /\ s = "stopped" => t = {} /\ ev = <<>>
    /\ "association" \in t => s # "associated" /\ ~In(ev, "association")
    /\ Apart(t, ev, h)
    /\ s # "associated" => ~WatchedBy(t, ev, h)
    /\ s = "associated" /\ ~sendFails => WatchedBy(t, ev, h)
    /\ s = "will_associate" /\ p \in configured
         => "association" \in t \/ In(ev, "association")

GoodAt(p) == Good(p, state[p], timers[p], events[p], txn[p]["heartbeat"])

Shape ==
    /\ state   \in [Peers -> States]
    /\ timers  \in [Peers -> SUBSET {"association", "no_heartbeat"}]
    /\ events  \in [Peers -> Seq(Events)]
    /\ txn     \in [Peers -> [Kinds -> Txns]]
    /\ orphans \in [Peers -> SUBSET Kinds]
    /\ healed \in BOOLEAN /\ crashes \in 0 .. MaxCrashes
    /\ sendFails \in SendFailures /\ configured \in Configurations

IInv == Shape /\ \A p \in Peers : GoodAt(p)

-----------------------------------------------------------------------------
(* Sequences.                                                              *)

LEMMA EmptySeq == /\ <<>> \in Seq(Events) /\ Once(<<>>) /\ Sorted(<<>>)
                  /\ \A e : ~In(<<>>, e)
  BY DEF Once, Sorted, In

LEMMA AppendSeq ==
    ASSUME NEW ev \in Seq(Events), NEW e \in Events, Once(ev), Sorted(ev), ~In(ev, e),
           e = "association" => ~In(ev, "no_heartbeat") /\ ~In(ev, "gone")
    PROVE  /\ Append(ev, e) \in Seq(Events) /\ Once(Append(ev, e)) /\ Sorted(Append(ev, e))
           /\ \A x : In(Append(ev, e), x) <=> In(ev, x) \/ x = e
<1> DEFINE new == Append(ev, e)
<1>1. /\ new \in Seq(Events) /\ Len(new) = Len(ev) + 1 /\ new[Len(ev) + 1] = e
      /\ \A i \in 1 .. Len(ev) : new[i] = ev[i]
  OBVIOUS
<1>2. Len(ev) \in Nat
  OBVIOUS
<1> HIDE DEF new
<1>3. \A x : In(new, x) <=> In(ev, x) \/ x = e
  BY <1>1, <1>2 DEF In
<1>4. Once(new)
  BY <1>1, <1>2 DEF Once, In
<1>5. Sorted(new)
  <2>1. \A i \in 1 .. Len(ev) : ev[i] \in Events
    OBVIOUS
  <2>2. e = "association" => \A i \in 1 .. Len(ev) : ev[i] = "association"
    BY <2>1 DEF In, Events
  <2>3. QED
    BY <1>1, <1>2, <2>2 DEF Sorted
<1>6. QED
  BY <1>1, <1>3, <1>4, <1>5 DEF new

LEMMA TailSeq ==
    ASSUME NEW ev \in Seq(Events), ev # <<>>, Once(ev), Sorted(ev)
    PROVE  /\ Tail(ev) \in Seq(Events) /\ Once(Tail(ev)) /\ Sorted(Tail(ev))
           /\ Head(ev) \in Events /\ In(ev, Head(ev))
           /\ \A x : In(Tail(ev), x) <=> In(ev, x) /\ x # Head(ev)
           /\ Head(ev) # "association" => ~In(ev, "association")
<1> DEFINE new == Tail(ev)
<1>1. /\ Len(ev) \in Nat /\ Len(ev) >= 1 /\ Head(ev) = ev[1]
      /\ new \in Seq(Events) /\ Len(new) = Len(ev) - 1
      /\ \A i \in 1 .. Len(ev) - 1 : new[i] = ev[i + 1]
  OBVIOUS
<1> HIDE DEF new
<1>2. Head(ev) \in Events /\ In(ev, Head(ev))
  BY <1>1 DEF In
<1>3. ASSUME NEW x PROVE In(new, x) <=> In(ev, x) /\ x # Head(ev)
  <2>1. ASSUME In(new, x) PROVE In(ev, x) /\ x # Head(ev)
    <3>1. PICK i \in 1 .. Len(ev) - 1 : ev[i + 1] = x
      BY <1>1, <2>1 DEF In
    <3>2. i + 1 \in 1 .. Len(ev) /\ 1 \in 1 .. Len(ev) /\ i + 1 # 1
      BY <1>1
    <3>3. QED
      BY <1>1, <3>1, <3>2 DEF In, Once
  <2>2. ASSUME In(ev, x), x # Head(ev) PROVE In(new, x)
    <3>1. PICK i \in 1 .. Len(ev) : ev[i] = x
      BY <2>2 DEF In
    <3>2. i - 1 \in 1 .. Len(ev) - 1 /\ i = (i - 1) + 1
      BY <1>1, <2>2, <3>1
    <3>3. QED
      BY <1>1, <3>1, <3>2 DEF In
  <2>3. QED
    BY <2>1, <2>2
<1>4. Once(new)
  <2>1. SUFFICES ASSUME NEW i \in 1 .. Len(ev) - 1, NEW j \in 1 .. Len(ev) - 1,
                        ev[i + 1] = ev[j + 1]
                 PROVE  i = j
    BY <1>1 DEF Once
  <2>2. i + 1 \in 1 .. Len(ev) /\ j + 1 \in 1 .. Len(ev)
    BY <1>1
  <2>3. i + 1 = j + 1
    BY <2>1, <2>2 DEF Once
  <2>4. QED
    BY <2>3
<1>5. Sorted(new)
  <2>1. SUFFICES ASSUME NEW i \in 1 .. Len(ev) - 1, NEW j \in 1 .. Len(ev) - 1,
                        i < j, ev[i + 1] # "association"
                 PROVE  ev[j + 1] # "association"
    BY <1>1 DEF Sorted
  <2>2. i + 1 \in 1 .. Len(ev) /\ j + 1 \in 1 .. Len(ev) /\ i + 1 < j + 1
    BY <1>1, <2>1
  <2>3. QED
    BY <2>1, <2>2 DEF Sorted
<1>6. ASSUME Head(ev) # "association" PROVE ~In(ev, "association")
  <2>1. SUFFICES ASSUME NEW i \in 1 .. Len(ev), ev[i] = "association" PROVE FALSE
    BY DEF In
  <2>2. 1 \in 1 .. Len(ev) /\ 1 < i
    BY <1>1, <1>6, <2>1
  <2>3. QED
    BY <1>1, <1>6, <2>1, <2>2 DEF Sorted
<1>7. QED
  BY <1>1, <1>2, <1>3, <1>4, <1>5, <1>6 DEF new

\* Three kinds of event, each once.
LEMMA ShortSeq == ASSUME NEW ev \in Seq(Events), Once(ev) PROVE Len(ev) <= MaxEvents
<1>1. SUFFICES ASSUME Len(ev) > 3 PROVE FALSE
  BY DEF MaxEvents
<1>2. /\ 1 \in 1 .. Len(ev) /\ 2 \in 1 .. Len(ev) /\ 3 \in 1 .. Len(ev) /\ 4 \in 1 .. Len(ev)
  BY <1>1
<1>3. ev[1] \in Events /\ ev[2] \in Events /\ ev[3] \in Events /\ ev[4] \in Events
  BY <1>2
<1>4. /\ ev[1] # ev[2] /\ ev[1] # ev[3] /\ ev[1] # ev[4]
      /\ ev[2] # ev[3] /\ ev[2] # ev[4] /\ ev[3] # ev[4]
  BY <1>2 DEF Once
<1>5. QED
  BY <1>3, <1>4 DEF Events

-----------------------------------------------------------------------------
(* What a step of p makes of its own parts.                                *)

\* p starts.
LEMMA StartGood ==
    ASSUME NEW p, NEW t, NEW ev, NEW h, Good(p, "stopped", t, ev, h)
    PROVE  Good(p, Idle(p), Waiting(p), ev, h)
  BY EmptySeq DEF Good, Idle, Waiting, States, Apart, WatchedBy

\* p stops.
LEMMA StopGood == ASSUME NEW p PROVE Good(p, "stopped", {}, <<>>, "none")
  BY EmptySeq DEF Good, States, Apart, WatchedBy, Txns

\* An open heartbeat of p is on its way, answered or not.
LEMMA FlightGood ==
    ASSUME NEW p, NEW s, NEW t, NEW ev, NEW h, Good(p, s, t, ev, h),
           NEW k \in Txns, h = "none" <=> k = "none"
    PROVE  Good(p, s, t, ev, k)
  BY DEF Good, Apart, WatchedBy

\* p's machine enters "associated".
LEMMA EnterGood ==
    ASSUME NEW p, NEW s, NEW t, NEW ev, NEW h, Good(p, s, t, ev, h),
           s # "associated", s # "stopped"
    PROVE  Good(p, "associated", (t \ {"association"}) \cup {"no_heartbeat"}, ev, h)
  BY DEF Good, States, Apart, WatchedBy

\* p learns of its peer.
LEMMA NodeGood ==
    ASSUME NEW p, NEW s, NEW t, NEW ev, NEW h, Good(p, s, t, ev, h)
    PROVE  Good(p, IF s = "unknown" THEN "will_associate" ELSE s, t, ev, h)
  BY DEF Good, States, Apart, WatchedBy

\* The association timer expires.
LEMMA AssociationTimerGood ==
    ASSUME NEW p, NEW s, NEW t, NEW ev, NEW h, Good(p, s, t, ev, h), "association" \in t
    PROVE  Good(p, s, t \ {"association"}, Append(ev, "association"), h)
<1>1. /\ ev \in Seq(Events) /\ Once(ev) /\ Sorted(ev) /\ ~In(ev, "association")
      /\ ~In(ev, "no_heartbeat") /\ ~In(ev, "gone")
  BY DEF Good, WatchedBy
<1>2. /\ Append(ev, "association") \in Seq(Events)
      /\ Once(Append(ev, "association")) /\ Sorted(Append(ev, "association"))
      /\ \A x : In(Append(ev, "association"), x) <=> In(ev, x) \/ x = "association"
  BY <1>1, AppendSeq DEF Events
<1>3. QED
  BY <1>1, <1>2 DEF Good, Apart, WatchedBy

\* The heartbeat timer expires.
LEMMA NoHeartbeatTimerGood ==
    ASSUME NEW p, NEW s, NEW t, NEW ev, NEW h, Good(p, s, t, ev, h), "no_heartbeat" \in t
    PROVE  Good(p, s, t \ {"no_heartbeat"}, Append(ev, "no_heartbeat"), h)
<1>1. /\ ev \in Seq(Events) /\ Once(ev) /\ Sorted(ev) /\ ~In(ev, "no_heartbeat")
      /\ ~In(ev, "gone") /\ h = "none" /\ s = "associated"
  BY DEF Good, WatchedBy, Apart
<1>2. /\ Append(ev, "no_heartbeat") \in Seq(Events)
      /\ Once(Append(ev, "no_heartbeat")) /\ Sorted(Append(ev, "no_heartbeat"))
      /\ \A x : In(Append(ev, "no_heartbeat"), x) <=> In(ev, x) \/ x = "no_heartbeat"
  BY <1>1, AppendSeq DEF Events
<1>3. QED
  BY <1>1, <1>2 DEF Good, Apart, WatchedBy

\* The heartbeat of p is given up.
LEMMA TimeoutGood ==
    ASSUME NEW p, NEW s, NEW t, NEW ev, NEW h, Good(p, s, t, ev, h), h # "none"
    PROVE  Good(p, s, t, Append(ev, "gone"), "none")
<1>1. /\ ev \in Seq(Events) /\ Once(ev) /\ Sorted(ev) /\ ~In(ev, "no_heartbeat")
      /\ ~In(ev, "gone") /\ "no_heartbeat" \notin t /\ s = "associated"
  BY DEF Good, WatchedBy, Apart
<1>2. /\ Append(ev, "gone") \in Seq(Events)
      /\ Once(Append(ev, "gone")) /\ Sorted(Append(ev, "gone"))
      /\ \A x : In(Append(ev, "gone"), x) <=> In(ev, x) \/ x = "gone"
  BY <1>1, AppendSeq DEF Events
<1>3. QED
  BY <1>1, <1>2 DEF Good, Apart, WatchedBy, Txns

\* The heartbeat of p ends without a word.
LEMMA FailsGood ==
    ASSUME NEW p, NEW s, NEW t, NEW ev, NEW h, Good(p, s, t, ev, h), sendFails
    PROVE  Good(p, s, t, ev, "none")
  BY DEF Good, Apart, WatchedBy, Txns

\* The answer to p's heartbeat starts the timer again.
LEMMA ResponseGood ==
    ASSUME NEW p, NEW s, NEW t, NEW ev, NEW h, Good(p, s, t, ev, h), h # "none"
    PROVE  /\ s = "associated"
           /\ Good(p, s, t \cup {"no_heartbeat"}, ev, "none")
  BY DEF Good, Apart, WatchedBy, Txns

\* p handles the event of the association timer, late or not.
LEMMA RetryGood ==
    ASSUME NEW p, NEW s, NEW t, NEW ev, NEW h, Good(p, s, t, ev, h),
           ev # <<>>, Head(ev) = "association"
    PROVE  /\ s = "will_associate" => Good(p, s, t \cup {"association"}, Tail(ev), h)
           /\ s = "associated" => Good(p, s, t, Tail(ev), h)
<1>1. /\ Tail(ev) \in Seq(Events) /\ Once(Tail(ev)) /\ Sorted(Tail(ev))
      /\ In(ev, "association")
      /\ \A x : In(Tail(ev), x) <=> In(ev, x) /\ x # "association"
  BY TailSeq DEF Good
<1>2. QED
  BY <1>1 DEF Good, Apart, WatchedBy

\* p handles the event of the heartbeat timer.
LEMMA HeartbeatGood ==
    ASSUME NEW p, NEW s, NEW t, NEW ev, NEW h, Good(p, s, t, ev, h),
           ev # <<>>, Head(ev) = "no_heartbeat"
    PROVE  s = "associated" /\ Good(p, s, t, Tail(ev), "requested")
<1>1. /\ Tail(ev) \in Seq(Events) /\ Once(Tail(ev)) /\ Sorted(Tail(ev))
      /\ In(ev, "no_heartbeat")
      /\ \A x : In(Tail(ev), x) <=> In(ev, x) /\ x # "no_heartbeat"
  BY TailSeq DEF Good
<1>2. s = "associated"
  BY <1>1 DEF Good, WatchedBy
<1>3. QED
  BY <1>1, <1>2 DEF Good, Apart, WatchedBy, Txns

\* p handles the event of an unanswered heartbeat.
LEMMA GoneGood ==
    ASSUME NEW p, NEW s, NEW t, NEW ev, NEW h, Good(p, s, t, ev, h),
           ev # <<>>, Head(ev) = "gone"
    PROVE  /\ s = "associated"
           /\ Good(p, "will_associate", (t \ {"no_heartbeat"}) \cup Waiting(p), Tail(ev), h)
<1>1. /\ Tail(ev) \in Seq(Events) /\ Once(Tail(ev)) /\ Sorted(Tail(ev))
      /\ In(ev, "gone") /\ ~In(ev, "association")
      /\ \A x : In(Tail(ev), x) <=> In(ev, x) /\ x # "gone"
  BY TailSeq DEF Good
<1>2. s = "associated"
  BY <1>1 DEF Good, WatchedBy
<1>3. QED
  BY <1>1, <1>2 DEF Good, Apart, WatchedBy, Waiting, States

-----------------------------------------------------------------------------
(* The invariant says what it is for.                                      *)

LEMMA SaysTypes == IInv => TypeOK
<1>1. ASSUME IInv PROVE TypeOK
  <2>1. ASSUME NEW p \in Peers
        PROVE  /\ events[p] \in Seq(Events) /\ Len(events[p]) <= MaxEvents
               /\ p \in configured => state[p] # "unknown"
    BY <1>1, ShortSeq DEF IInv, GoodAt, Good
  <2>2. QED
    BY <1>1, <2>1 DEF IInv, Shape, TypeOK, Events, Txns
<1>2. QED
  BY <1>1

LEMMA SaysWatched == IInv => Watched
<1>1. ASSUME IInv, NEW p \in Peers
      PROVE  /\ \A v, w \in Watching(p) : v = w
             /\ state[p] = "associated" /\ ~sendFails => Watching(p) # {}
             /\ state[p] # "associated" => Watching(p) = {}
             /\ state[p] = "will_associate" /\ p \in configured
                  => "association" \in timers[p] \/ Queued(p, "association")
  <2>1. Good(p, state[p], timers[p], events[p], txn[p]["heartbeat"])
    BY <1>1 DEF IInv, GoodAt
  <2>2. \A e : Queued(p, e) <=> In(events[p], e)
    BY DEF Queued, In
  <2>3. /\ "timer" \in Watching(p)       <=> "no_heartbeat" \in timers[p]
        /\ "timer_event" \in Watching(p) <=> In(events[p], "no_heartbeat")
        /\ "heartbeat" \in Watching(p)   <=> txn[p]["heartbeat"] # "none"
        /\ "gone" \in Watching(p)        <=> In(events[p], "gone")
        /\ Watching(p) \subseteq {"timer", "timer_event", "heartbeat", "gone"}
    BY <2>2 DEF Watching
  <2>4. \A v, w \in Watching(p) : v = w
    BY <2>1, <2>3 DEF Good, Apart
  <2>5. Watching(p) # {} <=> WatchedBy(timers[p], events[p], txn[p]["heartbeat"])
    BY <2>3 DEF WatchedBy
  <2>6. QED
    BY <2>1, <2>2, <2>4, <2>5 DEF Good
<1>2. QED
  BY <1>1 DEF Watched

-----------------------------------------------------------------------------
(* Steps.                                                                  *)

LEMMA OtherPeer == ASSUME NEW p \in Peers PROVE Other(p) \in Peers /\ Other(p) # p
  BY AssociationAssumption DEF Other

LEMMA InitInv == Init => IInv
<1>1. ASSUME Init, NEW p \in Peers PROVE GoodAt(p)
  <2>1. /\ state[p] = "stopped" /\ timers[p] = {} /\ events[p] = <<>>
        /\ txn[p]["heartbeat"] = "none"
    BY <1>1 DEF Init, Kinds
  <2>2. QED
    BY <2>1, StopGood DEF GoodAt
<1>2. ASSUME Init PROVE Shape
  <2>1. [k \in Kinds |-> "none"] \in [Kinds -> Txns]
    BY DEF Txns
  <2>2. state \in [Peers -> States]
    BY <1>2 DEF Init, States
  <2>3. events \in [Peers -> Seq(Events)]
    <3>1. <<>> \in Seq(Events)
      BY EmptySeq
    <3>2. QED
      BY <1>2, <3>1 DEF Init
  <2>4. timers \in [Peers -> SUBSET {"association", "no_heartbeat"}]
    BY <1>2 DEF Init
  <2>5. orphans \in [Peers -> SUBSET Kinds]
    BY <1>2 DEF Init
  <2>6. txn \in [Peers -> [Kinds -> Txns]]
    BY <1>2, <2>1 DEF Init
  <2>7. healed \in BOOLEAN /\ crashes \in 0 .. MaxCrashes
    <3>1. MaxCrashes \in Nat
      BY AssociationAssumption
    <3>2. 0 \in 0 .. MaxCrashes
      BY <3>1
    <3>3. QED
      BY <1>2, <3>2 DEF Init
  <2>8. QED
    BY <1>2, <2>2, <2>3, <2>4, <2>5, <2>6, <2>7 DEF Init, Shape
<1>3. QED
  BY <1>1, <1>2 DEF IInv

\* The configuration does not change.
LEMMA GoodNext ==
    ASSUME NEW m \in Peers, UNCHANGED world,
           Good(m, state'[m], timers'[m], events'[m], txn'[m]["heartbeat"])
    PROVE  GoodAt(m)'
  BY DEF Good, GoodAt, world

\* What another step leaves alone, but for the progress of a heartbeat.
LEMMA SameGood ==
    ASSUME IInv, UNCHANGED world, NEW m \in Peers, state'[m] = state[m],
           timers'[m] = timers[m], events'[m] = events[m],
           txn'[m]["heartbeat"] \in Txns,
           txn[m]["heartbeat"] = "none" <=> txn'[m]["heartbeat"] = "none"
    PROVE  GoodAt(m)'
<1>1. Good(m, state'[m], timers'[m], events'[m], txn'[m]["heartbeat"])
  BY FlightGood DEF IInv, GoodAt
<1>2. QED
  BY <1>1, GoodNext

\* A request of p for an association, sent, answered or over.
LEMMA SetupOnly ==
    ASSUME IInv, NEW p \in Peers, NEW what \in Txns,
           txn' = [txn EXCEPT ![p]["setup"] = what]
    PROVE  /\ txn' \in [Peers -> [Kinds -> Txns]]
           /\ \A m \in Peers : txn'[m]["heartbeat"] = txn[m]["heartbeat"]
           /\ \A m \in Peers : m # p => txn'[m] = txn[m]
  BY DEF IInv, Shape, Kinds

\* A step of p that leaves the other one's parts alone.
LEMMA StepOfOne ==
    ASSUME IInv, UNCHANGED world, NEW p \in Peers, Shape',
           Good(p, state'[p], timers'[p], events'[p], txn'[p]["heartbeat"]),
           \A m \in Peers : m # p => /\ state'[m] = state[m] /\ timers'[m] = timers[m]
                                     /\ events'[m] = events[m] /\ txn'[m] = txn[m]
    PROVE  IInv'
<1>1. GoodAt(p)'
  BY GoodNext
<1>2. ASSUME NEW m \in Peers, m # p PROVE GoodAt(m)'
  <2>1. txn[m]["heartbeat"] \in Txns
    BY DEF IInv, Shape, Kinds
  <2>2. QED
    BY <1>2, <2>1, SameGood
<1>3. QED
  BY <1>1, <1>2 DEF IInv

LEMMA StartInv == ASSUME IInv, NEW p \in Peers, Start(p) PROVE IInv'
<1>1. PICK what \in {"requested", "none"} : txn' = [txn EXCEPT ![p]["setup"] = what]
  BY DEF Start, SetTxn
<1>2. /\ state[p] = "stopped" /\ UNCHANGED <<events, orphans, healed, crashes, world>>
      /\ state' = [state EXCEPT ![p] = Idle(p)]
      /\ timers' = [timers EXCEPT ![p] = Waiting(p)]
  BY DEF Start, Running
<1>3. Shape'
  BY <1>1, <1>2 DEF IInv, Shape, Idle, Waiting, States, Kinds, Txns, world
<1>4. Good(p, state'[p], timers'[p], events'[p], txn'[p]["heartbeat"])
  <2>1. Good(p, "stopped", timers[p], events[p], txn[p]["heartbeat"])
    BY <1>2 DEF IInv, GoodAt
  <2>2. Good(p, Idle(p), Waiting(p), events[p], txn[p]["heartbeat"])
    BY <2>1, StartGood
  <2>3. QED
    BY <1>1, <1>2, <2>2 DEF IInv, Shape, Kinds
<1>5. \A m \in Peers : m # p => /\ state'[m] = state[m] /\ timers'[m] = timers[m]
                                /\ events'[m] = events[m] /\ txn'[m] = txn[m]
  BY <1>1, <1>2 DEF IInv, Shape
<1>6. QED
  BY <1>2, <1>3, <1>4, <1>5, StepOfOne

\* p stops, and its peer's requests are on their way again or not.
LEMMA StopInv ==
    ASSUME IInv, NEW p \in Peers, Stop(p), UNCHANGED <<healed, world>>,
           crashes' \in 0 .. MaxCrashes
    PROVE  IInv'
<1> DEFINE q == Other(p)
<1>1. PICK again \in SUBSET {k \in Kinds : txn[q][k] \in {"answered", "ignored"}} :
         txn' = [txn EXCEPT ![p] = [k \in Kinds |-> "none"],
                            ![q] = [k \in Kinds |-> IF k \in again THEN "requested" ELSE @[k]]]
  BY DEF Stop
<1>2. /\ state'   = [state  EXCEPT ![p] = "stopped"]
      /\ timers'  = [timers EXCEPT ![p] = {}]
      /\ events'  = [events EXCEPT ![p] = <<>>]
      /\ orphans' = [orphans EXCEPT ![p] = @ \cup {k \in Kinds : txn[p][k] = "requested"}]
  BY DEF Stop
<1>3. q \in Peers /\ q # p
  BY OtherPeer
<1> HIDE DEF q
<1>4. Shape'
  <2>1. [k \in Kinds |-> "none"] \in [Kinds -> Txns]
    BY DEF Txns
  <2>2. [k \in Kinds |-> IF k \in again THEN "requested" ELSE txn[q][k]] \in [Kinds -> Txns]
    BY <1>3 DEF IInv, Shape, Txns
  <2>3. txn' \in [Peers -> [Kinds -> Txns]]
    BY <1>1, <1>3, <2>1, <2>2 DEF IInv, Shape
  <2>4. state' \in [Peers -> States] /\ events' \in [Peers -> Seq(Events)]
    BY <1>2, EmptySeq DEF IInv, Shape, States
  <2>5. /\ timers' \in [Peers -> SUBSET {"association", "no_heartbeat"}]
        /\ orphans' \in [Peers -> SUBSET Kinds]
    BY <1>2 DEF IInv, Shape
  <2>6. QED
    BY <2>3, <2>4, <2>5 DEF IInv, Shape, world
<1>5. GoodAt(p)'
  <2>1. /\ state'[p] = "stopped" /\ timers'[p] = {} /\ events'[p] = <<>>
        /\ txn'[p]["heartbeat"] = "none"
    BY <1>1, <1>2, <1>3 DEF IInv, Shape, Kinds
  <2>2. QED
    BY <2>1, StopGood, GoodNext
<1>6. ASSUME NEW m \in Peers, m # p PROVE GoodAt(m)'
  <2>1. /\ state'[m] = state[m] /\ timers'[m] = timers[m] /\ events'[m] = events[m]
    BY <1>2, <1>6 DEF IInv, Shape
  <2>2. txn[m]["heartbeat"] \in Txns /\ txn'[m]["heartbeat"] \in Txns
    BY <1>4 DEF IInv, Shape, Kinds
  <2>3. txn[m]["heartbeat"] = "none" <=> txn'[m]["heartbeat"] = "none"
    BY <1>1, <1>3, <1>6 DEF IInv, Shape, Kinds
  <2>4. QED
    BY <2>1, <2>2, <2>3, SameGood
<1>7. QED
  BY <1>4, <1>5, <1>6 DEF IInv

LEMMA CrashInv == ASSUME IInv, NEW p \in Peers, Crash(p) PROVE IInv'
<1>1. crashes' \in 0 .. MaxCrashes
  BY AssociationAssumption DEF Crash, IInv, Shape
<1>2. QED
  BY <1>1, StopInv DEF Crash

LEMMA AbortInv == ASSUME IInv, NEW p \in Peers, Abort(p) PROVE IInv'
<1>1. crashes' \in 0 .. MaxCrashes
  BY DEF Abort, IInv, Shape
<1>2. QED
  BY <1>1, StopInv DEF Abort

\* The timers.
LEMMA ExpireInv == ASSUME IInv, NEW p \in Peers, Expire(p) PROVE IInv'
<1>1. Good(p, state[p], timers[p], events[p], txn[p]["heartbeat"])
  BY DEF IInv, GoodAt
<1>2. CASE AssociationTimer(p)
  <2>1. /\ "association" \in timers[p]
        /\ timers' = [timers EXCEPT ![p] = @ \ {"association"}]
        /\ events' = [events EXCEPT ![p] = Append(@, "association")]
        /\ UNCHANGED <<state, txn, orphans, healed, crashes, world>>
    BY <1>2 DEF AssociationTimer, Post
  <2>2. Good(p, state[p], timers[p] \ {"association"}, Append(events[p], "association"),
             txn[p]["heartbeat"])
    BY <1>1, <2>1, AssociationTimerGood
  <2>3. Shape'
    BY <2>1 DEF IInv, Shape, Events, world
  <2>4. QED
    BY <2>1, <2>2, <2>3, StepOfOne DEF IInv, Shape
<1>3. CASE NoHeartbeatTimer(p)
  <2>1. /\ "no_heartbeat" \in timers[p]
        /\ timers' = [timers EXCEPT ![p] = @ \ {"no_heartbeat"}]
        /\ events' = [events EXCEPT ![p] = Append(@, "no_heartbeat")]
        /\ UNCHANGED <<state, txn, orphans, healed, crashes, world>>
    BY <1>3 DEF NoHeartbeatTimer, Post
  <2>2. Good(p, state[p], timers[p] \ {"no_heartbeat"}, Append(events[p], "no_heartbeat"),
             txn[p]["heartbeat"])
    BY <1>1, <2>1, NoHeartbeatTimerGood
  <2>3. Shape'
    BY <2>1 DEF IInv, Shape, Events, world
  <2>4. QED
    BY <2>1, <2>2, <2>3, StepOfOne DEF IInv, Shape
<1>4. QED
  BY <1>2, <1>3 DEF Expire

\* The events of the timers, and of a heartbeat given up.
LEMMA HandleInv == ASSUME IInv, NEW p \in Peers, Handle(p) PROVE IInv'
<1>1. Good(p, state[p], timers[p], events[p], txn[p]["heartbeat"])
  BY DEF IInv, GoodAt
<1>2. events[p] \in Seq(Events)
  BY DEF IInv, Shape
<1>3. CASE HandleAssociation(p)
  <2>1. /\ events[p] # <<>> /\ Head(events[p]) = "association"
        /\ events' = [events EXCEPT ![p] = Tail(@)]
        /\ UNCHANGED <<state, orphans, healed, crashes, world>>
    BY <1>3 DEF HandleAssociation
  <2>2. events' \in [Peers -> Seq(Events)]
    BY <1>2, <2>1 DEF IInv, Shape
  <2>3. CASE Retry(p)
    <3>1. PICK what \in {"requested", "none"} : txn' = [txn EXCEPT ![p]["setup"] = what]
      BY <2>3 DEF Retry, SetTxn
    <3>2. state[p] = "will_associate" /\ timers' = [timers EXCEPT ![p] = @ \cup {"association"}]
      BY <2>3 DEF Retry
    <3>3. Shape'
      BY <2>1, <2>2, <3>1, <3>2 DEF IInv, Shape, Kinds, Txns, world
    <3>4. Good(p, state[p], timers[p] \cup {"association"}, Tail(events[p]),
               txn[p]["heartbeat"])
      BY <1>1, <2>1, <3>2, RetryGood
    <3>5. txn'[p]["heartbeat"] = txn[p]["heartbeat"]
      BY <3>1 DEF IInv, Shape, Kinds
    <3>6. QED
      BY <2>1, <3>1, <3>2, <3>3, <3>4, <3>5, StepOfOne DEF IInv, Shape
  <2>4. CASE state[p] = "associated" /\ UNCHANGED <<timers, txn>>
    <3>1. Good(p, state[p], timers[p], Tail(events[p]), txn[p]["heartbeat"])
      BY <1>1, <2>1, <2>4, RetryGood
    <3>2. Shape'
      BY <2>1, <2>2, <2>4 DEF IInv, Shape, world
    <3>3. QED
      BY <2>1, <2>4, <3>1, <3>2, StepOfOne DEF IInv, Shape
  <2>5. QED
    BY <1>3, <2>3, <2>4 DEF HandleAssociation
<1>4. CASE HandleNoHeartbeat(p)
  <2>1. events[p] # <<>> /\ Head(events[p]) = "no_heartbeat"
    BY <1>4 DEF HandleNoHeartbeat
  <2>2. state[p] = "associated"
        /\ Good(p, state[p], timers[p], Tail(events[p]), "requested")
    BY <1>1, <2>1, HeartbeatGood
  <2>3. CASE Abort(p)
    BY <2>3, AbortInv
  <2>4. CASE /\ SetTxn(p, "heartbeat", "requested")
             /\ events' = [events EXCEPT ![p] = Tail(@)]
             /\ UNCHANGED <<state, timers, orphans, healed, crashes, world>>
    <3>1. txn' = [txn EXCEPT ![p]["heartbeat"] = "requested"]
      BY <2>4 DEF SetTxn
    <3>2. Shape'
      BY <1>2, <2>1, <2>4, <3>1 DEF IInv, Shape, Kinds, Txns, world
    <3>3. txn'[p]["heartbeat"] = "requested"
      BY <3>1 DEF IInv, Shape, Kinds
    <3>4. QED
      BY <2>2, <2>4, <3>1, <3>2, <3>3, StepOfOne, ZenonT(60) DEF IInv, Shape
  <2>5. QED
    BY <1>4, <2>2, <2>3, <2>4 DEF HandleNoHeartbeat
<1>5. CASE HandleGone(p)
  <2>1. /\ events[p] # <<>> /\ Head(events[p]) = "gone"
        /\ events' = [events EXCEPT ![p] = Tail(@)]
        /\ UNCHANGED <<orphans, healed, crashes, world>>
    BY <1>5 DEF HandleGone
  <2>2. /\ state[p] = "associated"
        /\ Good(p, "will_associate", (timers[p] \ {"no_heartbeat"}) \cup Waiting(p),
                Tail(events[p]), txn[p]["heartbeat"])
    BY <1>1, <2>1, GoneGood
  <2>3. Deassociate(p)
    BY <1>5, <2>2 DEF HandleGone
  <2>4. /\ state'  = [state  EXCEPT ![p] = "will_associate"]
        /\ timers' = [timers EXCEPT ![p] = (@ \ {"no_heartbeat"}) \cup Waiting(p)]
    BY <2>3 DEF Deassociate
  <2>5. txn' = txn \/ \E what \in {"requested", "none"} : txn' = [txn EXCEPT ![p]["setup"] = what]
    BY <2>3 DEF Deassociate, SetTxn
  <2>6. /\ txn' \in [Peers -> [Kinds -> Txns]] /\ txn'[p]["heartbeat"] = txn[p]["heartbeat"]
        /\ \A m \in Peers : m # p => txn'[m] = txn[m]
    <3>1. CASE txn' = txn
      BY <3>1 DEF IInv, Shape
    <3>2. CASE \E what \in {"requested", "none"} : txn' = [txn EXCEPT ![p]["setup"] = what]
      BY <3>2, SetupOnly DEF Txns
    <3>3. QED
      BY <2>5, <3>1, <3>2
  <2>7. Shape'
    <3>1. state' \in [Peers -> States] /\ events' \in [Peers -> Seq(Events)]
      BY <1>2, <2>1, <2>4 DEF IInv, Shape, States
    <3>2. (timers[p] \ {"no_heartbeat"}) \cup Waiting(p) \in SUBSET {"association", "no_heartbeat"}
      BY DEF IInv, Shape, Waiting
    <3>3. timers' \in [Peers -> SUBSET {"association", "no_heartbeat"}]
      BY <2>4, <3>2 DEF IInv, Shape
    <3>4. QED
      BY <2>1, <2>6, <3>1, <3>3 DEF IInv, Shape, world
  <2>8. /\ state'[p] = "will_associate" /\ events'[p] = Tail(events[p])
        /\ timers'[p] = (timers[p] \ {"no_heartbeat"}) \cup Waiting(p)
        /\ \A m \in Peers : m # p => /\ state'[m] = state[m] /\ timers'[m] = timers[m]
                                      /\ events'[m] = events[m]
    BY <2>1, <2>4 DEF IInv, Shape
  <2>9. QED
    BY <2>1, <2>2, <2>6, <2>7, <2>8, StepOfOne
<1>6. QED
  BY <1>3, <1>4, <1>5 DEF Handle

-----------------------------------------------------------------------------
(* Messages: a step of the sender's transaction, and of the receiver's state.  *)

\* q takes a setup request or the answer to its own.
LEMMA TakeSetupGood ==
    ASSUME IInv, UNCHANGED world, NEW q \in Peers, Running(q), TakeSetup(q),
           events' = events, NEW h \in Txns,
           txn[q]["heartbeat"] = "none" <=> h = "none"
    PROVE  /\ Good(q, state'[q], timers'[q], events'[q], h)
           /\ state' \in [Peers -> States]
           /\ timers' \in [Peers -> SUBSET {"association", "no_heartbeat"}]
           /\ \A m \in Peers : m # q => state'[m] = state[m] /\ timers'[m] = timers[m]
<1>1. Good(q, state[q], timers[q], events[q], h)
  BY FlightGood DEF IInv, GoodAt
<1>2. CASE UNCHANGED <<state, timers>>
  BY <1>1, <1>2 DEF IInv, Shape
<1>3. CASE state[q] # "associated" /\ EnterAssociated(q)
  <2>1. /\ state'  = [state  EXCEPT ![q] = "associated"]
        /\ timers' = [timers EXCEPT ![q] = (@ \ {"association"}) \cup {"no_heartbeat"}]
    BY <1>3 DEF EnterAssociated
  <2>2. Good(q, "associated", (timers[q] \ {"association"}) \cup {"no_heartbeat"},
             events[q], h)
    BY <1>1, <1>3, EnterGood DEF Running
  <2>3. QED
    BY <2>1, <2>2 DEF IInv, Shape, States
<1>4. QED
  BY <1>2, <1>3 DEF TakeSetup

\* q learns of its peer.
LEMMA TakeNodeGood ==
    ASSUME IInv, UNCHANGED world, NEW q \in Peers, TakeNode(q),
           events' = events, NEW h \in Txns,
           txn[q]["heartbeat"] = "none" <=> h = "none"
    PROVE  /\ Good(q, state'[q], timers'[q], events'[q], h)
           /\ state' \in [Peers -> States] /\ timers' = timers
           /\ \A m \in Peers : m # q => state'[m] = state[m]
<1>1. Good(q, state[q], timers[q], events[q], h)
  BY FlightGood DEF IInv, GoodAt
<1>2. /\ state' = [state EXCEPT ![q] = IF @ = "unknown" THEN "will_associate" ELSE @]
      /\ timers' = timers
  BY DEF TakeNode
<1>3. Good(q, IF state[q] = "unknown" THEN "will_associate" ELSE state[q],
           timers[q], events[q], h)
  BY <1>1, NodeGood
<1>4. QED
  BY <1>2, <1>3 DEF IInv, Shape, States

\* A message changes the state of its receiver, and how far heartbeats got.
LEMMA MessageInv ==
    ASSUME IInv, UNCHANGED world, NEW q \in Peers, Shape', events' = events,
           Good(q, state'[q], timers'[q], events'[q], txn'[q]["heartbeat"]),
           \A m \in Peers : m # q => state'[m] = state[m] /\ timers'[m] = timers[m],
           \A m \in Peers : m # q => (txn[m]["heartbeat"] = "none" <=> txn'[m]["heartbeat"] = "none")
    PROVE  IInv'
<1>1. GoodAt(q)'
  BY GoodNext
<1>2. ASSUME NEW m \in Peers, m # q PROVE GoodAt(m)'
  <2>1. txn'[m]["heartbeat"] \in Txns
    BY DEF Shape, Kinds
  <2>2. QED
    BY <1>2, <2>1, SameGood
<1>3. QED
  BY <1>1, <1>2 DEF IInv

LEMMA ReceiveSetupInv == ASSUME IInv, NEW p \in Peers, ReceiveSetup(p) PROVE IInv'
<1> DEFINE q == Other(p)
<1>1. q \in Peers /\ q # p
  BY OtherPeer
<1>2. /\ Running(q) /\ TakeSetup(q)
      /\ UNCHANGED <<events, healed, crashes, world>>
  BY DEF ReceiveSetup
<1>3. txn' = txn \/ \E what \in {"answered", "requested"} : txn' = [txn EXCEPT ![p]["setup"] = what]
  BY DEF ReceiveSetup, SetTxn
<1>4. orphans' = orphans \/ orphans' = [orphans EXCEPT ![p] = @ \ {"setup"}]
  BY DEF ReceiveSetup
<1> HIDE DEF q
<1>5. /\ txn' \in [Peers -> [Kinds -> Txns]]
      /\ \A m \in Peers : txn'[m]["heartbeat"] = txn[m]["heartbeat"]
  <2>1. CASE txn' = txn
    BY <2>1 DEF IInv, Shape
  <2>2. CASE \E what \in {"answered", "requested"} : txn' = [txn EXCEPT ![p]["setup"] = what]
    BY <2>2, SetupOnly DEF Txns
  <2>3. QED
    BY <1>3, <2>1, <2>2
<1>6. orphans' \in [Peers -> SUBSET Kinds]
  BY <1>4 DEF IInv, Shape
<1>7. txn'[q]["heartbeat"] \in Txns
  BY <1>1, <1>5 DEF Kinds
<1>8. /\ Good(q, state'[q], timers'[q], events'[q], txn'[q]["heartbeat"])
      /\ state' \in [Peers -> States]
      /\ timers' \in [Peers -> SUBSET {"association", "no_heartbeat"}]
      /\ \A m \in Peers : m # q => state'[m] = state[m] /\ timers'[m] = timers[m]
  BY <1>1, <1>2, <1>5, <1>7, TakeSetupGood
<1>9. Shape'
  BY <1>2, <1>5, <1>6, <1>8 DEF IInv, Shape, world
<1>10. QED
  BY <1>1, <1>2, <1>5, <1>8, <1>9, MessageInv

LEMMA ReceiveHeartbeatInv == ASSUME IInv, NEW p \in Peers, ReceiveHeartbeat(p) PROVE IInv'
<1> DEFINE q == Other(p)
<1>1. q \in Peers /\ q # p
  BY OtherPeer
<1>2. txn[p]["heartbeat"] = "requested"
  BY DEF ReceiveHeartbeat
<1>3. CASE Abort(q)
  BY <1>1, <1>3, AbortInv
<1>4. CASE /\ SetTxn(p, "heartbeat", IF state[q] = "associated" THEN "answered" ELSE "ignored")
           /\ TakeNode(q)
           /\ UNCHANGED <<events, orphans, healed, crashes, world>>
  <2>1. \E what \in {"answered", "ignored"} : txn' = [txn EXCEPT ![p]["heartbeat"] = what]
    BY <1>4 DEF SetTxn
  <2>2. /\ txn' \in [Peers -> [Kinds -> Txns]]
        /\ txn'[p]["heartbeat"] # "none"
        /\ \A m \in Peers : m # p => txn'[m] = txn[m]
    BY <2>1 DEF IInv, Shape, Kinds, Txns
  <2>3. txn'[q]["heartbeat"] \in Txns /\ txn'[q] = txn[q]
    BY <1>1, <2>2 DEF Kinds
  <2> HIDE DEF q
  <2>4. /\ Good(q, state'[q], timers'[q], events'[q], txn'[q]["heartbeat"])
        /\ state' \in [Peers -> States] /\ timers' = timers
        /\ \A m \in Peers : m # q => state'[m] = state[m]
    BY <1>1, <1>4, <2>3, TakeNodeGood
  <2>5. Shape'
    BY <1>4, <2>2, <2>4 DEF IInv, Shape, world
  <2>6. \A m \in Peers : txn[m]["heartbeat"] = "none" <=> txn'[m]["heartbeat"] = "none"
    BY <1>2, <2>2
  <2>7. QED
    BY <1>1, <1>4, <2>4, <2>5, <2>6, MessageInv
<1>5. QED
  BY <1>3, <1>4 DEF ReceiveHeartbeat

LEMMA ReceiveOrphanInv == ASSUME IInv, NEW p \in Peers, ReceiveOrphanHeartbeat(p) PROVE IInv'
<1> DEFINE q == Other(p)
<1>1. q \in Peers /\ q # p
  BY OtherPeer
<1>2. CASE Abort(q)
  BY <1>1, <1>2, AbortInv
<1>3. CASE /\ orphans' = [orphans EXCEPT ![p] = @ \ {"heartbeat"}]
           /\ TakeNode(q)
           /\ UNCHANGED <<events, txn, healed, crashes, world>>
  <2>1. txn[q]["heartbeat"] \in Txns
    BY <1>1 DEF IInv, Shape, Kinds
  <2> HIDE DEF q
  <2>2. /\ Good(q, state'[q], timers'[q], events'[q], txn[q]["heartbeat"])
        /\ state' \in [Peers -> States] /\ timers' = timers
        /\ \A m \in Peers : m # q => state'[m] = state[m]
    BY <1>1, <1>3, <2>1, TakeNodeGood
  <2>3. orphans' \in [Peers -> SUBSET Kinds]
    BY <1>3 DEF IInv, Shape
  <2>4. Shape'
    BY <1>3, <2>2, <2>3 DEF IInv, Shape, world
  <2>5. QED
    BY <1>1, <1>3, <2>2, <2>4, MessageInv
<1>4. QED
  BY <1>2, <1>3 DEF ReceiveOrphanHeartbeat

LEMMA SetupResponseInv == ASSUME IInv, NEW p \in Peers, ReceiveSetupResponse(p) PROVE IInv'
<1>1. /\ Running(p) /\ TakeSetup(p)
      /\ UNCHANGED <<events, orphans, healed, crashes, world>>
      /\ txn' = [txn EXCEPT ![p]["setup"] = "none"]
  BY DEF ReceiveSetupResponse, SetTxn
<1>2. /\ txn' \in [Peers -> [Kinds -> Txns]]
      /\ \A m \in Peers : txn'[m]["heartbeat"] = txn[m]["heartbeat"]
  BY <1>1 DEF IInv, Shape, Kinds, Txns
<1>3. txn'[p]["heartbeat"] \in Txns
  BY <1>2 DEF Kinds
<1>4. /\ Good(p, state'[p], timers'[p], events'[p], txn'[p]["heartbeat"])
      /\ state' \in [Peers -> States]
      /\ timers' \in [Peers -> SUBSET {"association", "no_heartbeat"}]
      /\ \A m \in Peers : m # p => state'[m] = state[m] /\ timers'[m] = timers[m]
  BY <1>1, <1>2, <1>3, TakeSetupGood
<1>5. Shape'
  BY <1>1, <1>2, <1>4 DEF IInv, Shape, world
<1>6. QED
  BY <1>1, <1>2, <1>4, <1>5, MessageInv

LEMMA HeartbeatResponseInv ==
    ASSUME IInv, NEW p \in Peers, ReceiveHeartbeatResponse(p) PROVE IInv'
<1>1. Good(p, state[p], timers[p], events[p], txn[p]["heartbeat"])
  BY DEF IInv, GoodAt
<1>2. /\ txn[p]["heartbeat"] = "answered"
      /\ txn' = [txn EXCEPT ![p]["heartbeat"] = "none"]
      /\ UNCHANGED <<state, events, orphans, healed, crashes, world>>
  BY DEF ReceiveHeartbeatResponse, SetTxn
<1>3. /\ state[p] = "associated"
      /\ Good(p, state[p], timers[p] \cup {"no_heartbeat"}, events[p], "none")
  BY <1>1, <1>2, ResponseGood
<1>4. timers' = [timers EXCEPT ![p] = @ \cup {"no_heartbeat"}]
  BY <1>3 DEF ReceiveHeartbeatResponse
<1>5. /\ txn' \in [Peers -> [Kinds -> Txns]] /\ txn'[p]["heartbeat"] = "none"
      /\ \A m \in Peers : m # p => txn'[m] = txn[m]
  BY <1>2 DEF IInv, Shape, Kinds, Txns
<1>6. Shape'
  BY <1>2, <1>4, <1>5 DEF IInv, Shape, world
<1>7. /\ timers'[p] = timers[p] \cup {"no_heartbeat"}
      /\ \A m \in Peers : m # p => timers'[m] = timers[m]
  BY <1>4 DEF IInv, Shape
<1>8. QED
  BY <1>2, <1>3, <1>5, <1>6, <1>7, StepOfOne

-----------------------------------------------------------------------------
(* Requests that end without an answer.                                    *)

\* The network of a behaviour in which no datagram fails to be sent.
LEMMA SendsFail == ASSUME IInv, FALSE \in SendOutcomes PROVE sendFails
  BY AssociationAssumption DEF SendOutcomes, IInv, Shape

LEMMA TimeoutInv ==
    ASSUME IInv, NEW p \in Peers, NEW k \in Kinds, RequestTimeout(p, k) PROVE IInv'
<1>1. Good(p, state[p], timers[p], events[p], txn[p]["heartbeat"])
  BY DEF IInv, GoodAt
<1>2. /\ txn[p][k] # "none" /\ txn' = [txn EXCEPT ![p][k] = "none"]
      /\ UNCHANGED <<state, timers, orphans, healed, crashes, world>>
  BY DEF RequestTimeout, SetTxn
<1>3. /\ txn' \in [Peers -> [Kinds -> Txns]] /\ txn'[p][k] = "none"
      /\ \A j \in Kinds : j # k => txn'[p][j] = txn[p][j]
      /\ \A m \in Peers : m # p => txn'[m] = txn[m]
  BY <1>2 DEF IInv, Shape, Txns
<1>4. CASE k = "heartbeat"
  <2>1. events' = [events EXCEPT ![p] = Append(@, "gone")]
    BY <1>4 DEF RequestTimeout, Post
  <2>2. Good(p, state[p], timers[p], Append(events[p], "gone"), "none")
    BY <1>1, <1>2, <1>4, TimeoutGood
  <2>3. /\ events' \in [Peers -> Seq(Events)] /\ events'[p] = Append(events[p], "gone")
        /\ \A m \in Peers : m # p => events'[m] = events[m]
    BY <2>1 DEF IInv, Shape, Events
  <2>4. Shape'
    BY <1>2, <1>3, <2>3 DEF IInv, Shape, world
  <2>5. QED
    <3>1. txn'[p]["heartbeat"] = "none"
      BY <1>3, <1>4
    <3>2. Good(p, state'[p], timers'[p], events'[p], txn'[p]["heartbeat"])
      BY <1>2, <2>2, <2>3, <3>1
    <3>3. QED
      BY <1>2, <1>3, <2>3, <2>4, <3>2, StepOfOne
<1>5. CASE k = "setup"
  <2>1. events' = events
    BY <1>5 DEF RequestTimeout
  <2>2. txn'[p]["heartbeat"] = txn[p]["heartbeat"]
    BY <1>3, <1>5 DEF Kinds
  <2>3. Shape'
    BY <1>2, <1>3, <2>1 DEF IInv, Shape, world
  <2>4. QED
    BY <1>1, <1>2, <1>3, <2>1, <2>2, <2>3, StepOfOne
<1>6. QED
  BY <1>4, <1>5 DEF Kinds

LEMMA RetransmitFailsInv ==
    ASSUME IInv, NEW p \in Peers, NEW k \in Kinds, RetransmitFails(p, k) PROVE IInv'
<1>1. Good(p, state[p], timers[p], events[p], txn[p]["heartbeat"])
  BY DEF IInv, GoodAt
<1>2. /\ FALSE \in SendOutcomes /\ txn' = [txn EXCEPT ![p][k] = "none"]
      /\ UNCHANGED <<state, timers, events, orphans, healed, crashes, world>>
  BY DEF RetransmitFails, SetTxn
<1>3. /\ txn' \in [Peers -> [Kinds -> Txns]]
      /\ txn'[p]["heartbeat"] \in {"none", txn[p]["heartbeat"]}
      /\ \A m \in Peers : m # p => txn'[m] = txn[m]
  BY <1>2 DEF IInv, Shape, Kinds, Txns
<1>4. Good(p, state[p], timers[p], events[p], "none")
  BY <1>1, <1>2, SendsFail, FailsGood
<1>5. Shape'
  BY <1>2, <1>3 DEF IInv, Shape, world
<1>6. QED
  BY <1>1, <1>2, <1>3, <1>4, <1>5, StepOfOne

-----------------------------------------------------------------------------
LEMMA FrameInv ==
    ASSUME IInv, UNCHANGED <<state, timers, events, txn, crashes, world>>,
           healed' \in BOOLEAN, orphans' \in [Peers -> SUBSET Kinds]
    PROVE  IInv'
<1>1. Shape'
  BY DEF IInv, Shape, world
<1>2. ASSUME NEW m \in Peers PROVE GoodAt(m)'
  BY DEF IInv, GoodAt, Good, world
<1>3. QED
  BY <1>1, <1>2 DEF IInv

LEMMA StepInv == IInv /\ [Next]_vars => IInv'
<1> SUFFICES ASSUME IInv, [Next]_vars PROVE IInv'
  OBVIOUS
<1>1. CASE UNCHANGED vars
  BY <1>1, FrameInv DEF vars, IInv, Shape
<1>2. CASE Heal
  BY <1>2, FrameInv DEF Heal, IInv, Shape
<1>3. ASSUME NEW p \in Peers, LoseOrphans(p) PROVE IInv'
  <2>1. orphans' \in [Peers -> SUBSET Kinds]
    BY <1>3 DEF LoseOrphans, IInv, Shape
  <2>2. QED
    BY <1>3, <2>1, FrameInv DEF LoseOrphans, IInv, Shape
<1>4. ASSUME NEW p \in Peers, Start(p) \/ Crash(p) \/ Expire(p) \/ Handle(p) PROVE IInv'
  BY <1>4, StartInv, CrashInv, ExpireInv, HandleInv
<1>5. ASSUME NEW p \in Peers, Receive(p) PROVE IInv'
  BY <1>5, ReceiveSetupInv, ReceiveHeartbeatInv, ReceiveOrphanInv, SetupResponseInv,
     HeartbeatResponseInv DEF Receive
<1>6. ASSUME NEW p \in Peers, NEW k \in Kinds, RequestTimeout(p, k) \/ RetransmitFails(p, k)
      PROVE  IInv'
  BY <1>6, TimeoutInv, RetransmitFailsInv
<1>7. QED
  BY <1>1, <1>2, <1>3, <1>4, <1>5, <1>6 DEF Next

(* The types, for all configurations and any number of crashes; three      *)
(* events in each queue are the most there can be.                         *)
THEOREM TypeCorrect == Spec => []TypeOK
<1>1. QED
  BY InitInv, StepInv, SaysTypes, PTL DEF Spec

(* What Watched says of every association holds whoever is configured,     *)
(* whether datagrams can be sent, and however often the two crash.         *)
THEOREM AlwaysWatched == Spec => []Watched
<1>1. QED
  BY InitInv, StepInv, SaysWatched, PTL DEF Spec

=============================================================================
