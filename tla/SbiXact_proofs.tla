--------------------------- MODULE SbiXact_proofs ---------------------------
(***************************************************************************)
(* Theorems about SBI transactions, for any number of streams, subscribers *)
(* and places in the pool: no request is answered twice and no transaction *)
(* is left without what ends it, even when a pool too small hands a place  *)
(* out again while connections and events still hold it.                   *)
(***************************************************************************)
EXTENDS SbiXact, FiniteSetTheorems, TLAPS

(* The pool: a ring without duplicates stays one.                          *)

LEMMA RingTake ==
  ASSUME NEW f \in Seq(Slots), IsInjective(f), f # <<>>
  PROVE  /\ Tail(f) \in Seq(Slots) /\ IsInjective(Tail(f))
         /\ Head(f) \in Slots /\ Head(f) \in Range(f)
         /\ Range(Tail(f)) = Range(f) \ {Head(f)}
  <1>1. Tail(f) \in Seq(Slots) /\ Head(f) \in Slots /\ Head(f) = f[1]
    OBVIOUS
  <1>2. \A i \in 1 .. Len(f) - 1 : Tail(f)[i] = f[i + 1]
    OBVIOUS
  <1>3. DOMAIN Tail(f) = 1 .. Len(f) - 1 /\ DOMAIN f = 1 .. Len(f) /\ Len(f) \in Nat \ {0}
    OBVIOUS
  <1>4. IsInjective(Tail(f))
    BY <1>2, <1>3 DEF IsInjective
  <1>5. Head(f) \in Range(f)
    BY <1>1, <1>3 DEF Range
  <1>6. Range(Tail(f)) \subseteq Range(f) \ {Head(f)}
    BY <1>1, <1>2, <1>3 DEF Range, IsInjective
  <1>7. ASSUME NEW y \in Range(f), y # Head(f)
        PROVE  y \in Range(Tail(f))
    <2>1. PICK i \in 1 .. Len(f) : y = f[i]
      BY <1>3 DEF Range
    <2>2. i - 1 \in 1 .. Len(f) - 1 /\ Tail(f)[i - 1] = f[i]
      BY <2>1, <1>1, <1>2, <1>3, <1>7
    <2>. QED  BY <2>1, <2>2, <1>3 DEF Range
  <1>. QED  BY <1>1, <1>4, <1>5, <1>6, <1>7

LEMMA RingAppend ==
  ASSUME NEW f \in Seq(Slots), IsInjective(f), NEW x \in Slots, x \notin Range(f)
  PROVE  /\ Append(f, x) \in Seq(Slots) /\ IsInjective(Append(f, x))
         /\ Range(Append(f, x)) = Range(f) \cup {x}
  <1>1. /\ DOMAIN f = 1 .. Len(f) /\ DOMAIN Append(f, x) = 1 .. Len(f) + 1
        /\ Len(f) \in Nat
        /\ \A i \in 1 .. Len(f) : Append(f, x)[i] = f[i]
        /\ Append(f, x)[Len(f) + 1] = x
    OBVIOUS
  <1>2. \A i \in 1 .. Len(f) : f[i] # x
    BY <1>1 DEF Range
  <1>3. IsInjective(Append(f, x))
    BY <1>1, <1>2 DEF IsInjective
  <1>4. ASSUME NEW y
        PROVE  y \in Range(Append(f, x)) <=> y \in Range(f) \cup {x}
    <2>1. y \in Range(Append(f, x)) <=> \E i \in 1 .. Len(f) + 1 : Append(f, x)[i] = y
      BY <1>1 DEF Range
    <2>2. y \in Range(f) <=> \E i \in 1 .. Len(f) : f[i] = y
      BY <1>1 DEF Range
    <2>. QED  BY <1>1, <2>1, <2>2
  <1>. QED  BY <1>3, <1>4

-----------------------------------------------------------------------------
(* Events.                                                                 *)

LEMMA EventFields ==
  ASSUME NEW e \in Events
  PROVE  /\ e.type = "server" => e.stream \in Streams /\ e.ue \in UEs
         /\ e.type = "client" => e.slot \in Slots
         /\ e.type = "wait" => e.slot \in Slots
  BY DEF Events

LEMMA XactFields ==
  ASSUME TypeOK, NEW x \in Slots, Live(x)
  PROVE  /\ xact[x] \in Xacts /\ xact[x].stream \in Streams
         /\ xact[x].ue \in UEs \cup {NULL}
  BY DEF TypeOK, Live, Xacts

LEMMA ConnFields ==
  ASSUME TypeOK, NEW c \in conns
  PROVE  c \in Conns /\ c.slot \in Slots /\ c.for \in Streams
  BY DEF TypeOK, Conns

LEMMA NewXactType ==
  ASSUME NEW s \in Streams, NEW u \in UEs
  PROVE  /\ NewXact(s, u) \in Xacts /\ NewXact(s, u) # NULL
         /\ NewXact(s, u).stream = s
  <1>1. NewXact(s, u) \in Xacts /\ NewXact(s, u).stream = s
    BY DEF NewXact, Xacts
  <1>2. NULL \notin Xacts
    BY XactAssumption DEF Xacts
  <1>. QED  BY <1>1, <1>2

LEMMA Queueing ==
  ASSUME NEW q \in Seq(Events)
  PROVE  /\ q # <<>> => Head(q) \in Events /\ Tail(q) \in Seq(Events)
         /\ \A e \in Events : Append(q, e) \in Seq(Events)
  OBVIOUS

-----------------------------------------------------------------------------
(* Type correctness needs that no place is both free and in use: else a    *)
(* place freed twice would be in the ring twice.                           *)

PoolOK == /\ xact \in [Slots -> Xacts \cup {NULL}]
          /\ free \in Seq(Slots) /\ IsInjective(free)
          /\ PoolExact

LEMMA RemoveXactPool ==
  ASSUME PoolOK, NEW x \in Slots, Live(x), RemoveXact(x)
  PROVE  PoolOK'
  <1>1. x \notin Range(free) /\ xact' = [xact EXCEPT ![x] = NULL] /\ free' = Append(free, x)
    BY DEF PoolOK, PoolExact, RemoveXact, Freed
  <1>2. /\ free' \in Seq(Slots) /\ IsInjective(free') /\ Range(free') = Range(free) \cup {x}
    BY <1>1, RingAppend DEF PoolOK
  <1>3. xact' \in [Slots -> Xacts \cup {NULL}]
    BY <1>1 DEF PoolOK
  <1>4. PoolExact'
    BY <1>1, <1>2 DEF PoolExact, PoolOK, Live
  <1>. QED  BY <1>2, <1>3, <1>4 DEF PoolOK

LEMMA AnswerType ==
  ASSUME TypeOK, NEW s \in Streams, Answer(s)
  PROVE  /\ stream' \in [Streams -> {"idle", "open", "answered", "closed"}]
         /\ answers' \in [Streams -> Nat]
  <1>1. /\ stream \in [Streams -> {"idle", "open", "answered", "closed"}]
        /\ answers \in [Streams -> Nat]
    BY DEF TypeOK
  <1>2. stream' \in [Streams -> {"idle", "open", "answered", "closed"}]
    BY <1>1 DEF Answer
  <1>3. answers' \in [Streams -> Nat]
    BY <1>1 DEF Answer
  <1>. QED  BY <1>2, <1>3

LEMMA TakeType ==
  ASSUME TypeOK, NEW type, Take(type)
  PROVE  /\ queue' \in Seq(Events) /\ Head(queue) \in Events
         /\ Head(queue).type = type
         /\ phase' \in {"poll", "expire", "dispatch"} /\ phase' = phase
  BY Queueing DEF TypeOK, Take

LEMMA FailedType ==
  ASSUME TypeOK, PoolExact, NEW c \in conns, Failed(c)
  PROVE  TypeOK' /\ PoolExact'
  <1>1. PoolOK /\ c.slot \in Slots /\ c \in Conns
    BY ConnFields DEF PoolOK, TypeOK
  <1>2. PoolOK'
    <2>1. CASE c.kind = "scp" /\ Live(c.slot)
      BY <2>1, <1>1, RemoveXactPool DEF Failed
    <2>2. CASE ~(c.kind = "scp" /\ Live(c.slot))
      BY <2>2, <1>1 DEF Failed, PoolOK, PoolExact, Live
    <2>. QED  BY <2>1, <2>2
  <1>. QED  BY <1>2 DEF TypeOK, Failed, PoolOK

LEMMA DiscoverAndSendType ==
  ASSUME TypeOK, PoolOK, NEW s \in Streams, NEW u \in UEs, DiscoverAndSend(s, u)
  PROVE  /\ PoolOK'
         /\ stream' \in [Streams -> {"idle", "open", "answered", "closed"}]
         /\ answers' \in [Streams -> Nat]
         /\ conns' \subseteq Conns
         /\ aborted' \in {"no", "stale wait", "stale discovery", "refused"}
  <1>1. CASE free = <<>>
    BY <1>1, AnswerType DEF DiscoverAndSend, Abort, TypeOK, PoolOK, PoolExact, Live
  <1>2. CASE free # <<>>
    <2>. DEFINE x == Head(free)
    <2>1. /\ x \in Slots /\ x \in Range(free)
          /\ Tail(free) \in Seq(Slots) /\ IsInjective(Tail(free))
          /\ Range(Tail(free)) = Range(free) \ {x}
      BY <1>2, RingTake DEF PoolOK
    <2>. HIDE DEF x
    <2>2. CASE /\ xact' = [xact EXCEPT ![x] = NewXact(s, u)]
               /\ free' = Tail(free)
               /\ \E kind \in Routes :
                      conns' = conns \cup {[slot |-> x, kind |-> kind, for |-> s]}
               /\ UNCHANGED <<stream, answers, aborted>>
      <3>1. conns' \subseteq Conns
        <4>1. PICK kind \in Routes :
                  conns' = conns \cup {[slot |-> x, kind |-> kind, for |-> s]}
          BY <2>2
        <4>2. [slot |-> x, kind |-> kind, for |-> s] \in Conns
          BY <2>1, <4>1, XactAssumption DEF Conns
        <4>. QED  BY <4>1, <4>2 DEF TypeOK
      <3>2. xact' \in [Slots -> Xacts \cup {NULL}]
        BY <2>1, <2>2, NewXactType DEF PoolOK
      <3>3. PoolExact'
        BY <2>1, <2>2, NewXactType DEF PoolOK, PoolExact, Live
      <3>. QED  BY <2>1, <2>2, <3>1, <3>2, <3>3 DEF TypeOK, PoolOK
    <2>3. CASE /\ free' = Append(Tail(free), x)
               /\ Answer(s) /\ Abort("refused")
               /\ UNCHANGED <<xact, conns>>
      <3>1. /\ free' \in Seq(Slots) /\ IsInjective(free')
            /\ Range(free') = Range(Tail(free)) \cup {x}
        BY <2>1, <2>3, RingAppend
      <3>2. PoolOK'
        BY <2>1, <2>3, <3>1 DEF PoolOK, PoolExact, Live
      <3>. QED  BY <2>3, <3>2, AnswerType DEF TypeOK, Abort
    <2>. QED  BY <1>2, <2>2, <2>3 DEF DiscoverAndSend, x
  <1>. QED  BY <1>1, <1>2

LEMMA TypeInit == Init => TypeOK /\ PoolOK
  <1>. SUFFICES ASSUME Init PROVE TypeOK /\ PoolOK
    OBVIOUS
  <1>1. Cardinality(Slots) \in Nat
    BY XactAssumption, FS_CardinalityType
  <1>2. /\ free \in [1 .. Cardinality(Slots) -> Slots] /\ IsInjective(free)
        /\ \A x \in Slots : \E i \in 1 .. Cardinality(Slots) : free[i] = x
    BY DEF Init, Bijection, Injection, Surjection
  <1>3. free \in Seq(Slots)
    BY <1>1, <1>2
  <1>4. \A x \in Slots : x \in Range(free)
    BY <1>2 DEF Range
  <1>. QED  BY <1>2, <1>3, <1>4 DEF Init, TypeOK, PoolOK, PoolExact, Live

LEMMA TypeStep == TypeOK /\ PoolOK /\ [Next]_vars => TypeOK' /\ PoolOK'
  <1>. SUFFICES ASSUME TypeOK, PoolOK, [Next]_vars
                PROVE  TypeOK' /\ PoolOK'
    OBVIOUS
  <1>. USE DEF PoolOK
  <1>1. ASSUME NEW s \in Streams, Receive(s)
        PROVE  TypeOK' /\ PoolOK'
    <2>1. PICK u \in UEs, method \in {"POST", "PUT"}, good \in BOOLEAN :
              /\ stream' = [stream EXCEPT ![s] = "open"]
              /\ queue' = Append(queue, [type |-> "server", stream |-> s, ue |-> u,
                                         method |-> method, good |-> good])
              /\ UNCHANGED <<phase, answers, known, xact, free, conns, aborted>>
      BY <1>1 DEF Receive
    <2>2. queue' \in Seq(Events)
      <3>1. [type |-> "server", stream |-> s, ue |-> u, method |-> method,
             good |-> good] \in Events
        BY DEF Events
      <3>2. queue \in Seq(Events)
        BY DEF TypeOK
      <3>3. Append(queue, [type |-> "server", stream |-> s, ue |-> u, method |-> method,
                           good |-> good]) \in Seq(Events)
        BY <3>1, <3>2, Queueing
      <3>. QED  BY <2>1, <3>3
    <2>. QED  BY <2>1, <2>2 DEF TypeOK, PoolExact, Live
  <1>2. ASSUME NEW s \in Streams, Close(s)
        PROVE  TypeOK' /\ PoolOK'
    BY <1>2 DEF Close, TypeOK, PoolExact, Live
  <1>3. ASSUME NEW c \in conns, Arrive(c)
        PROVE  TypeOK' /\ PoolOK'
    <2>1. PICK good \in BOOLEAN :
              \/ queue' = queue
              \/ queue' = Append(queue, [type |-> "client", slot |-> c.slot,
                                         for |-> c.for, good |-> good,
                                         kind |-> IF c.kind = "nrf" THEN "nrf" ELSE "udm"])
      BY <1>3 DEF Arrive
    <2>2. queue' \in Seq(Events)
      <3>1. ASSUME NEW kind \in {"nrf", "udm"}
            PROVE  [type |-> "client", slot |-> c.slot, for |-> c.for, good |-> good,
                    kind |-> kind] \in Events
        BY ConnFields DEF Events
      <3>2. queue \in Seq(Events)
        BY DEF TypeOK
      <3>3. Append(queue, [type |-> "client", slot |-> c.slot, for |-> c.for, good |-> good,
                           kind |-> IF c.kind = "nrf" THEN "nrf" ELSE "udm"]) \in Seq(Events)
        <4>1. (IF c.kind = "nrf" THEN "nrf" ELSE "udm") \in {"nrf", "udm"}
          OBVIOUS
        <4>. QED  BY <4>1, <3>1, <3>2, Queueing
      <3>. QED  BY <2>1, <3>2, <3>3
    <2>. QED  BY <1>3, <2>2 DEF Arrive, TypeOK, PoolExact, Live
  <1>4. ASSUME NEW c \in conns, Break(c) \/ FireDeadline(c)
        PROVE  TypeOK' /\ PoolOK'
    BY <1>4, FailedType DEF Break, FireDeadline, TypeOK
  <1>5. ASSUME NEW x \in Slots, FireWait(x)
        PROVE  TypeOK' /\ PoolOK'
    <2>1. queue' \in Seq(Events)
      BY <1>5 DEF FireWait, TypeOK, Events
    <2>2. [xact[x] EXCEPT !.timer = FALSE] \in Xacts
      BY <1>5, XactFields DEF FireWait, Xacts
    <2>3. [xact[x] EXCEPT !.timer = FALSE] # NULL
      BY <2>2, XactAssumption DEF Xacts
    <2>. QED  BY <1>5, <2>1, <2>2, <2>3 DEF FireWait, TypeOK, PoolExact, Live
  <1>6. CASE Request
    <2>1. Head(queue) \in Events /\ Head(queue).type = "server" /\ queue' \in Seq(Events)
          /\ phase' = phase
      BY <1>6, TakeType DEF Request
    <2>2. Head(queue).stream \in Streams /\ Head(queue).ue \in UEs
      BY <2>1, EventFields
    <2>3. /\ DiscoverAndSend(Head(queue).stream, Head(queue).ue)
          /\ known' = known \cup {Head(queue).ue}
      BY <1>6 DEF Request
    <2>. QED  BY <2>1, <2>2, <2>3, DiscoverAndSendType DEF TypeOK
  <1>7. CASE RequestUnknown
    <2>1. Head(queue) \in Events /\ Head(queue).type = "server" /\ queue' \in Seq(Events)
          /\ phase' = phase
      BY <1>7, TakeType DEF RequestUnknown
    <2>2. Head(queue).stream \in Streams /\ Answer(Head(queue).stream)
      BY <1>7, <2>1, EventFields DEF RequestUnknown
    <2>. QED  BY <1>7, <2>1, <2>2, AnswerType DEF RequestUnknown, TypeOK, PoolExact, Live
  <1>8. CASE RequestMalformed
    <2>1. Head(queue) \in Events /\ Head(queue).type = "server" /\ queue' \in Seq(Events)
          /\ phase' = phase
      BY <1>8, TakeType DEF RequestMalformed
    <2>2. Head(queue).stream \in Streams /\ Answer(Head(queue).stream)
      BY <1>8, <2>1, EventFields DEF RequestMalformed
    <2>3. ASSUME NEW x \in Slots, Live(x)
          PROVE  [xact[x] EXCEPT !.ue = NULL] \in Xacts /\ [xact[x] EXCEPT !.ue = NULL] # NULL
      BY <2>3, XactFields, XactAssumption DEF Xacts
    <2>4. xact' \in [Slots -> Xacts \cup {NULL}] /\ \A x \in Slots : Live(x)' <=> Live(x)
      BY <1>8, <2>3 DEF RequestMalformed, Live
    <2>. QED  BY <1>8, <2>1, <2>2, <2>4, AnswerType DEF RequestMalformed, TypeOK, PoolExact
  <1>9. CASE Response
    <2>. DEFINE e == Head(queue)
    <2>1. e \in Events /\ e.type = "client" /\ queue' \in Seq(Events) /\ phase' = phase
      BY <1>9, TakeType DEF Response
    <2>2. e.slot \in Slots
      BY <2>1, EventFields
    <2>. HIDE DEF e
    <2>3. CASE e.good /\ Live(e.slot)
      <3>1. RemoveXact(e.slot) /\ UNCHANGED <<known, conns, aborted>>
        BY <1>9, <2>3 DEF Response, e
      <3>2. \/ UNCHANGED <<stream, answers>>
            \/ Answer(xact[e.slot].stream)
        BY <1>9, <2>3 DEF Response, e
      <3>. QED  BY <2>1, <2>2, <2>3, <3>1, <3>2, XactFields, AnswerType, RemoveXactPool DEF TypeOK
    <2>4. CASE ~(e.good /\ Live(e.slot))
      <3>1. UNCHANGED <<xact, free, stream, answers, known, conns, aborted>>
        BY <1>9, <2>4 DEF Response, e
      <3>. QED  BY <2>1, <3>1 DEF TypeOK, PoolExact, Live
    <2>. QED  BY <2>3, <2>4
  <1>10. CASE Discovered
    <2>. DEFINE e == Head(queue)
    <2>1. e \in Events /\ e.type = "client" /\ queue' \in Seq(Events) /\ phase' = phase
      BY <1>10, TakeType DEF Discovered
    <2>2. e.slot \in Slots
      BY <2>1, EventFields
    <2>. HIDE DEF e
    <2>3. UNCHANGED <<known, xact, free, stream, answers>>
      BY <1>10 DEF Discovered
    <2>4. /\ aborted' \in {aborted, "stale discovery"}
          /\ \/ conns' = conns
             \/ /\ Live(e.slot)
                /\ conns' = conns \cup {[slot |-> e.slot, kind |-> "udm",
                                         for |-> xact[e.slot].stream]}
      BY <1>10 DEF Discovered, Abort, e
    <2>5. conns' \subseteq Conns
      <3>1. ASSUME Live(e.slot)
            PROVE  [slot |-> e.slot, kind |-> "udm", for |-> xact[e.slot].stream] \in Conns
        BY <2>2, <3>1, XactFields DEF Conns
      <3>. QED  BY <2>4, <3>1 DEF TypeOK
    <2>. QED  BY <2>1, <2>3, <2>4, <2>5 DEF TypeOK, PoolExact, Live
  <1>11. CASE WaitedTooLong
    <2>. DEFINE x == Head(queue).slot
    <2>1. Head(queue) \in Events /\ Head(queue).type = "wait" /\ queue' \in Seq(Events)
          /\ phase' = phase
      BY <1>11, TakeType DEF WaitedTooLong
    <2>2. x \in Slots
      BY <2>1, EventFields
    <2>. HIDE DEF x
    <2>3. CASE Live(x)
      <3>1. RemoveXact(x) /\ Answer(xact[x].stream) /\ UNCHANGED <<known, conns, aborted>>
        BY <1>11, <2>3 DEF WaitedTooLong, x
      <3>. QED  BY <2>1, <2>2, <2>3, <3>1, XactFields, AnswerType, RemoveXactPool DEF TypeOK
    <2>4. CASE ~Live(x)
      <3>1. /\ aborted' = "stale wait"
            /\ UNCHANGED <<xact, free, stream, answers, known, conns>>
        BY <1>11, <2>4 DEF WaitedTooLong, Abort, x
      <3>. QED  BY <2>1, <3>1 DEF TypeOK, PoolExact, Live
    <2>. QED  BY <2>3, <2>4
  <1>12. CASE NextPart
    <2>1. phase' \in {"poll", "expire", "dispatch"}
      BY <1>12 DEF NextPart, TypeOK
    <2>. QED  BY <1>12, <2>1 DEF NextPart, TypeOK, PoolExact, Live
  <1>13. CASE UNCHANGED vars
    BY <1>13 DEF vars, TypeOK, PoolExact, Live
  <1>. QED
    BY <1>1, <1>2, <1>3, <1>4, <1>5, <1>6, <1>7, <1>8, <1>9, <1>10, <1>11, <1>12, <1>13
       DEF Next, Dispatch

\* The variables keep their types, whatever the events and connections that
\* hold places of the pool: above all the ring of free places never holds a
\* place twice (lib/core/ogs-pool.h).
THEOREM TypeCorrect == Spec => []TypeOK
  <1>1. TypeOK /\ PoolOK /\ [Next]_vars => (TypeOK /\ PoolOK)'
    BY TypeStep
  <1>. QED  BY TypeInit, <1>1, PTL DEF Spec

\* No place of the pool of transactions leaks and none is handed out while it
\* is in use, however small the pool (ogs_sbi_xact_add, ogs_sbi_xact_remove).
THEOREM PoolCorrect == Spec => []PoolExact
  <1>1. TypeOK /\ PoolOK /\ [Next]_vars => (TypeOK /\ PoolOK)'
    BY TypeStep
  <1>2. PoolOK => PoolExact
    BY DEF PoolOK
  <1>. QED  BY TypeInit, <1>1, <1>2, PTL DEF Spec

-----------------------------------------------------------------------------
(* No request is answered twice: whoever is to answer a stream, a request  *)
(* in the queue or a transaction, is the only one, and nobody answered it  *)
(* before.                                                                 *)

InQueue(q, s) == \E i \in 1 .. Len(q) : q[i].type = "server" /\ q[i].stream = s

QueuedOnce(q) ==
    \A i, j \in 1 .. Len(q) :
        /\ q[i].type = "server" /\ q[j].type = "server"
        /\ q[i].stream = q[j].stream
        => i = j

QueuedAlone ==
    \A s \in Streams : InQueue(queue, s) =>
        /\ answers[s] = 0 /\ stream[s] # "idle"
        /\ \A x \in Slots : Live(x) => xact[x].stream # s

XactAlone ==
    \A x \in Slots : Live(x) =>
        /\ answers[xact[x].stream] = 0 /\ stream[xact[x].stream] # "idle"
        /\ \A y \in Slots : Live(y) /\ xact[y].stream = xact[x].stream => y = x

IdleSilent == \A s \in Streams : stream[s] = "idle" => answers[s] = 0

OneDuty ==
    QueuedOnce(queue) /\ QueuedAlone /\ XactAlone /\ IdleSilent /\ AnsweredOnce

LEMMA TailOnce ==
  ASSUME NEW q \in Seq(Events), q # <<>>, QueuedOnce(q)
  PROVE  /\ QueuedOnce(Tail(q))
         /\ \A s \in Streams : InQueue(Tail(q), s) => InQueue(q, s)
         /\ Head(q).type = "server" => /\ InQueue(q, Head(q).stream)
                                       /\ ~ InQueue(Tail(q), Head(q).stream)
  <1>1. /\ Len(q) \in Nat \ {0} /\ Len(Tail(q)) = Len(q) - 1 /\ Head(q) = q[1]
        /\ \A i \in 1 .. Len(q) - 1 : Tail(q)[i] = q[i + 1]
    OBVIOUS
  <1>2. QueuedOnce(Tail(q))
    BY <1>1 DEF QueuedOnce
  <1>3. ASSUME NEW s \in Streams, InQueue(Tail(q), s)
        PROVE  InQueue(q, s)
    <2>1. PICK i \in 1 .. Len(q) - 1 : q[i + 1].type = "server" /\ q[i + 1].stream = s
      BY <1>1, <1>3 DEF InQueue
    <2>2. i + 1 \in 1 .. Len(q)
      BY <1>1
    <2>. QED  BY <2>1, <2>2 DEF InQueue
  <1>4. ASSUME Head(q).type = "server"
        PROVE  /\ InQueue(q, Head(q).stream)
               /\ ~ InQueue(Tail(q), Head(q).stream)
    <2>1. InQueue(q, Head(q).stream)
      BY <1>1, <1>4 DEF InQueue
    <2>2. ASSUME NEW i \in 1 .. Len(q) - 1,
                 q[i + 1].type = "server", q[i + 1].stream = q[1].stream
          PROVE  FALSE
      <3>1. i + 1 \in 1 .. Len(q) /\ 1 \in 1 .. Len(q) /\ i + 1 # 1
        BY <1>1
      <3>. QED  BY <1>1, <1>4, <2>2, <3>1 DEF QueuedOnce
    <2>. QED  BY <1>1, <2>1, <2>2 DEF InQueue
  <1>. QED  BY <1>2, <1>3, <1>4

LEMMA AppendOnce ==
  ASSUME NEW q \in Seq(Events), QueuedOnce(q), NEW e \in Events,
         e.type = "server" => ~ InQueue(q, e.stream)
  PROVE  /\ QueuedOnce(Append(q, e))
         /\ \A s : InQueue(Append(q, e), s) <=>
                       InQueue(q, s) \/ (e.type = "server" /\ e.stream = s)
  <1>1. /\ Len(q) \in Nat /\ Len(Append(q, e)) = Len(q) + 1
        /\ \A i \in 1 .. Len(q) : Append(q, e)[i] = q[i]
        /\ Append(q, e)[Len(q) + 1] = e
    OBVIOUS
  <1>2. ASSUME NEW s
        PROVE  InQueue(Append(q, e), s) <=>
                   InQueue(q, s) \/ (e.type = "server" /\ e.stream = s)
    <2>1. ASSUME InQueue(Append(q, e), s)
          PROVE  InQueue(q, s) \/ (e.type = "server" /\ e.stream = s)
      <3>1. PICK i \in 1 .. Len(q) + 1 : /\ Append(q, e)[i].type = "server"
                                         /\ Append(q, e)[i].stream = s
        BY <1>1, <2>1 DEF InQueue
      <3>2. CASE i = Len(q) + 1
        BY <1>1, <3>1, <3>2
      <3>3. CASE i \in 1 .. Len(q)
        BY <1>1, <3>1, <3>3 DEF InQueue
      <3>. QED  BY <1>1, <3>2, <3>3
    <2>2. ASSUME InQueue(q, s)
          PROVE  InQueue(Append(q, e), s)
      <3>1. PICK i \in 1 .. Len(q) : q[i].type = "server" /\ q[i].stream = s
        BY <2>2 DEF InQueue
      <3>. QED  BY <1>1, <3>1 DEF InQueue
    <2>3. ASSUME e.type = "server", e.stream = s
          PROVE  InQueue(Append(q, e), s)
      BY <1>1, <2>3 DEF InQueue
    <2>. QED  BY <2>1, <2>2, <2>3
  <1>3. ASSUME NEW i \in 1 .. Len(q) + 1, NEW j \in 1 .. Len(q) + 1,
               Append(q, e)[i].type = "server", Append(q, e)[j].type = "server",
               Append(q, e)[i].stream = Append(q, e)[j].stream
        PROVE  i = j
    <2>1. CASE i \in 1 .. Len(q) /\ j \in 1 .. Len(q)
      BY <1>1, <1>3, <2>1 DEF QueuedOnce
    <2>2. CASE i = Len(q) + 1 /\ j \in 1 .. Len(q)
      BY <1>1, <1>3, <2>2 DEF InQueue
    <2>3. CASE j = Len(q) + 1 /\ i \in 1 .. Len(q)
      BY <1>1, <1>3, <2>3 DEF InQueue
    <2>. QED  BY <1>1, <2>1, <2>2, <2>3
  <1>4. QueuedOnce(Append(q, e))
    BY <1>1, <1>3 DEF QueuedOnce
  <1>. QED  BY <1>2, <1>4

LEMMA PrimedQueue == /\ \A s : InQueue(queue, s)' <=> InQueue(queue', s)
                     /\ QueuedOnce(queue)' <=> QueuedOnce(queue')
  BY DEF InQueue, QueuedOnce

\* What a step must do that answers nobody and takes on no duty.
Quietly ==
    /\ QueuedOnce(queue')
    /\ \A s \in Streams : InQueue(queue', s) => InQueue(queue, s)
    /\ \A x \in Slots : Live(x)' => Live(x) /\ xact'[x].stream = xact[x].stream
    /\ \A s \in Streams : stream'[s] = "idle" <=> stream[s] = "idle"

LEMMA Quiet ==
  ASSUME TypeOK, OneDuty, Quietly, answers' = answers
  PROVE  OneDuty'
  <1>1. \A x \in Slots : Live(x) => xact[x].stream \in Streams
    BY XactFields
  <1>2. QueuedOnce(queue)' /\ QueuedAlone'
    BY <1>1, PrimedQueue DEF OneDuty, Quietly, QueuedAlone, Live
  <1>3. XactAlone'
    BY <1>1 DEF OneDuty, Quietly, XactAlone, Live
  <1>4. IdleSilent' /\ AnsweredOnce'
    BY DEF OneDuty, Quietly, IdleSilent, AnsweredOnce
  <1>. QED  BY <1>2, <1>3, <1>4 DEF OneDuty

LEMMA Answering ==
  ASSUME TypeOK, OneDuty, NEW s \in Streams, Answer(s), Quietly,
         answers[s] = 0, stream[s] # "idle", ~ InQueue(queue', s),
         \A x \in Slots : Live(x)' => xact'[x].stream # s
  PROVE  OneDuty'
  <1>1. \A x \in Slots : Live(x) => xact[x].stream \in Streams
    BY XactFields
  <1>2. /\ answers \in [Streams -> Nat] /\ answers' \in [Streams -> Nat]
        /\ answers'[s] = 1 /\ \A r \in Streams \ {s} : answers'[r] = answers[r]
        /\ stream'[s] # "idle"
    <2>1. /\ stream \in [Streams -> {"idle", "open", "answered", "closed"}]
          /\ answers \in [Streams -> Nat] /\ answers' \in [Streams -> Nat]
      BY AnswerType DEF TypeOK
    <2>2. answers'[s] = 1 /\ \A r \in Streams \ {s} : answers'[r] = answers[r]
      BY <2>1 DEF Answer
    <2>3. stream'[s] # "idle"
      BY <2>1 DEF Answer
    <2>. QED  BY <2>1, <2>2, <2>3
  <1>3. QueuedOnce(queue)' /\ QueuedAlone'
    BY <1>1, <1>2, PrimedQueue DEF OneDuty, Quietly, QueuedAlone, Live
  <1>4. XactAlone'
    BY <1>1, <1>2 DEF OneDuty, Quietly, XactAlone, Live
  <1>5. IdleSilent' /\ AnsweredOnce'
    BY <1>2 DEF OneDuty, Quietly, IdleSilent, AnsweredOnce
  <1>. QED  BY <1>3, <1>4, <1>5 DEF OneDuty

\* A step of the dispatcher leaves no other request in the queue for the stream
\* of the one it takes.
LEMMA Taking ==
  ASSUME TypeOK, OneDuty, NEW type, Take(type)
  PROVE  /\ QueuedOnce(queue')
         /\ \A s \in Streams : InQueue(queue', s) => InQueue(queue, s)
         /\ type = "server" =>
                /\ Head(queue).stream \in Streams
                /\ answers[Head(queue).stream] = 0
                /\ stream[Head(queue).stream] # "idle"
                /\ ~ InQueue(queue', Head(queue).stream)
                /\ \A x \in Slots : Live(x) => xact[x].stream # Head(queue).stream
  <1>1. /\ queue \in Seq(Events) /\ queue # <<>> /\ queue' = Tail(queue)
        /\ QueuedOnce(queue)
    BY DEF TypeOK, Take, OneDuty
  <1>2. /\ QueuedOnce(queue')
        /\ \A s \in Streams : InQueue(queue', s) => InQueue(queue, s)
        /\ Head(queue).type = "server" => /\ InQueue(queue, Head(queue).stream)
                                          /\ ~ InQueue(queue', Head(queue).stream)
    BY <1>1, TailOnce
  <1>3. Head(queue) \in Events /\ Head(queue).type = type
    BY TakeType
  <1>4. type = "server" => Head(queue).stream \in Streams
    BY <1>3, EventFields
  <1>. QED  BY <1>2, <1>3, <1>4 DEF OneDuty, QueuedAlone

LEMMA FailedQuietly ==
  ASSUME TypeOK, OneDuty, NEW c \in conns, Failed(c)
  PROVE  OneDuty'
  <1>1. c.slot \in Slots
    BY ConnFields
  <1>2. \A x \in Slots : Live(x)' => Live(x) /\ xact'[x] = xact[x]
    BY <1>1 DEF Failed, RemoveXact, TypeOK, Live
  <1>3. QueuedOnce(queue') /\ queue' = queue /\ stream' = stream /\ answers' = answers
    BY DEF Failed, OneDuty
  <1>. QED  BY <1>2, <1>3, Quiet DEF Quietly

LEMMA SendingOnce ==
  ASSUME TypeOK, PoolOK, OneDuty, Take("server"), Head(queue).ue \in UEs,
         DiscoverAndSend(Head(queue).stream, Head(queue).ue)
  PROVE  OneDuty'
  <1>. DEFINE s == Head(queue).stream
  <1>1. /\ QueuedOnce(queue')
        /\ \A r \in Streams : InQueue(queue', r) => InQueue(queue, r)
        /\ s \in Streams /\ answers[s] = 0 /\ stream[s] # "idle"
        /\ ~ InQueue(queue', s)
        /\ \A x \in Slots : Live(x) => xact[x].stream # s
    BY Taking
  <1>2. DiscoverAndSend(s, Head(queue).ue)
    OBVIOUS
  <1>3. \A x \in Slots : Live(x) => xact[x].stream \in Streams
    BY XactFields
  <1>. HIDE DEF s
  <1>4. CASE Answer(s) /\ xact' = xact
    <2>1. \A r \in Streams : stream'[r] = "idle" <=> stream[r] = "idle"
      BY <1>4 DEF Answer, TypeOK
    <2>2. Quietly
      BY <1>1, <1>4, <2>1 DEF Quietly, Live
    <2>. QED  BY <1>1, <1>4, <2>2, Answering DEF Live
  <1>5. CASE /\ free # <<>>
             /\ xact' = [xact EXCEPT ![Head(free)] = NewXact(s, Head(queue).ue)]
             /\ UNCHANGED <<stream, answers>>
    <2>. DEFINE x == Head(free)
    <2>1. x \in Slots
      BY <1>5, RingTake DEF PoolOK
    <2>2. /\ xact'[x].stream = s /\ \A y \in Slots \ {x} : xact'[y] = xact[y]
      BY <1>1, <1>5, <2>1, NewXactType DEF PoolOK
    <2>3. QueuedOnce(queue)' /\ QueuedAlone'
      BY <1>1, <1>5, <2>1, <2>2, PrimedQueue DEF OneDuty, QueuedAlone, Live
    <2>4. XactAlone'
      BY <1>1, <1>3, <1>5, <2>1, <2>2 DEF OneDuty, XactAlone, Live
    <2>5. IdleSilent' /\ AnsweredOnce'
      BY <1>5 DEF OneDuty, IdleSilent, AnsweredOnce
    <2>. QED  BY <2>3, <2>4, <2>5 DEF OneDuty
  <1>. QED  BY <1>2, <1>4, <1>5 DEF DiscoverAndSend

LEMMA DutyInit == Init => OneDuty
  BY DEF Init, OneDuty, QueuedOnce, QueuedAlone, InQueue, XactAlone, IdleSilent,
         AnsweredOnce, Live

LEMMA DutyStep == TypeOK /\ PoolOK /\ OneDuty /\ [Next]_vars => OneDuty'
  <1>. SUFFICES ASSUME TypeOK, PoolOK, OneDuty, [Next]_vars
                PROVE  OneDuty'
    OBVIOUS
  <1>0. /\ queue \in Seq(Events) /\ QueuedOnce(queue)
        /\ stream \in [Streams -> {"idle", "open", "answered", "closed"}]
        /\ xact \in [Slots -> Xacts \cup {NULL}]
        /\ \A x \in Slots : Live(x) => xact[x].stream \in Streams
    BY XactFields DEF TypeOK, OneDuty
  <1>1. ASSUME NEW s \in Streams, Receive(s)
        PROVE  OneDuty'
    <2>1. PICK u \in UEs, method \in {"POST", "PUT"}, good \in BOOLEAN :
              queue' = Append(queue, [type |-> "server", stream |-> s, ue |-> u,
                                      method |-> method, good |-> good])
      BY <1>1 DEF Receive
    <2>. DEFINE e == [type |-> "server", stream |-> s, ue |-> u, method |-> method,
                      good |-> good]
    <2>2. e \in Events /\ e.type = "server" /\ e.stream = s
      BY DEF Events
    <2>. queue' = Append(queue, e)
      BY <2>1
    <2>. HIDE DEF e
    <2>3. /\ stream[s] = "idle" /\ stream' = [stream EXCEPT ![s] = "open"]
          /\ answers' = answers /\ xact' = xact
      BY <1>1 DEF Receive
    <2>4. ~ InQueue(queue, s) /\ answers[s] = 0
          /\ \A x \in Slots : Live(x) => xact[x].stream # s
      BY <2>3 DEF OneDuty, QueuedAlone, XactAlone, IdleSilent
    <2>5. /\ QueuedOnce(queue')
          /\ \A r : InQueue(queue', r) <=> InQueue(queue, r) \/ r = s
      BY <1>0, <2>2, <2>4, AppendOnce
    <2>6. stream'[s] # "idle" /\ \A r \in Streams \ {s} : stream'[r] = stream[r]
      BY <1>0, <2>3
    <2>7. QueuedOnce(queue)' /\ QueuedAlone'
      BY <2>3, <2>4, <2>5, <2>6, PrimedQueue DEF OneDuty, QueuedAlone, Live
    <2>8. XactAlone' /\ IdleSilent' /\ AnsweredOnce'
      BY <1>0, <2>3, <2>6 DEF OneDuty, XactAlone, IdleSilent, AnsweredOnce, Live
    <2>. QED  BY <2>7, <2>8 DEF OneDuty
  <1>2. ASSUME NEW s \in Streams, Close(s)
        PROVE  OneDuty'
    <2>1. \A r \in Streams : stream'[r] = "idle" <=> stream[r] = "idle"
      BY <1>0, <1>2 DEF Close
    <2>2. queue' = queue /\ answers' = answers /\ xact' = xact
      BY <1>2 DEF Close
    <2>. QED  BY <1>0, <2>1, <2>2, Quiet DEF Quietly, Live
  <1>3. ASSUME NEW c \in conns, Arrive(c)
        PROVE  OneDuty'
    <2>1. PICK good \in BOOLEAN :
              \/ queue' = queue
              \/ queue' = Append(queue, [type |-> "client", slot |-> c.slot,
                                         for |-> c.for, good |-> good,
                                         kind |-> IF c.kind = "nrf" THEN "nrf" ELSE "udm"])
      BY <1>3 DEF Arrive
    <2>. DEFINE e == [type |-> "client", slot |-> c.slot, for |-> c.for, good |-> good,
                      kind |-> IF c.kind = "nrf" THEN "nrf" ELSE "udm"]
    <2>2. e \in Events /\ e.type = "client"
      <3>1. (IF c.kind = "nrf" THEN "nrf" ELSE "udm") \in {"nrf", "udm"}
        OBVIOUS
      <3>2. ASSUME NEW kind \in {"nrf", "udm"}
            PROVE  [type |-> "client", slot |-> c.slot, for |-> c.for, good |-> good,
                    kind |-> kind] \in Events
        BY ConnFields DEF Events
      <3>. QED  BY <3>1, <3>2
    <2>. queue' = queue \/ queue' = Append(queue, e)
      BY <2>1
    <2>. HIDE DEF e
    <2>3. QueuedOnce(queue') /\ \A s \in Streams : InQueue(queue', s) => InQueue(queue, s)
      <3>1. QueuedOnce(Append(queue, e)) /\ \A s : InQueue(Append(queue, e), s) => InQueue(queue, s)
        BY <1>0, <2>2, AppendOnce
      <3>. QED  BY <1>0, <3>1
    <2>4. stream' = stream /\ answers' = answers /\ xact' = xact
      BY <1>3 DEF Arrive
    <2>. QED  BY <2>3, <2>4, Quiet DEF Quietly, Live
  <1>4. ASSUME NEW c \in conns, Break(c) \/ FireDeadline(c)
        PROVE  OneDuty'
    BY <1>4, FailedQuietly DEF Break, FireDeadline
  <1>5. ASSUME NEW x \in Slots, FireWait(x)
        PROVE  OneDuty'
    <2>1. /\ queue' = Append(queue, [type |-> "wait", slot |-> x])
          /\ xact' = [xact EXCEPT ![x].timer = FALSE] /\ Live(x)
          /\ stream' = stream /\ answers' = answers
      BY <1>5 DEF FireWait
    <2>2. [type |-> "wait", slot |-> x] \in Events
      BY DEF Events
    <2>3. QueuedOnce(queue') /\ \A s \in Streams : InQueue(queue', s) => InQueue(queue, s)
      BY <1>0, <2>1, <2>2, AppendOnce
    <2>4. ASSUME NEW y \in Slots, Live(y)'
          PROVE  Live(y) /\ xact'[y].stream = xact[y].stream
      <3>1. CASE y = x
        <4>1. xact[x] \in Xacts /\ xact'[x] = [xact[x] EXCEPT !.timer = FALSE]
          BY <1>0, <2>1, XactFields
        <4>. QED  BY <2>1, <3>1, <4>1 DEF Xacts
      <3>2. CASE y # x
        BY <1>0, <2>1, <2>4, <3>2 DEF Live
      <3>. QED  BY <3>1, <3>2
    <2>. QED  BY <2>1, <2>3, <2>4, Quiet DEF Quietly
  <1>6. CASE Request
    <2>1. Head(queue).ue \in UEs
      BY <1>6, TakeType, EventFields DEF Request
    <2>. QED  BY <1>6, <2>1, SendingOnce DEF Request
  <1>7. CASE RequestUnknown \/ RequestMalformed
    <2>. DEFINE s == Head(queue).stream
    <2>1. Take("server") /\ Answer(s)
      BY <1>7 DEF RequestUnknown, RequestMalformed
    <2>2. \A x \in Slots : Live(x)' => Live(x) /\ xact'[x].stream = xact[x].stream
      <3>1. CASE RequestUnknown
        BY <3>1 DEF RequestUnknown, Live
      <3>2. ASSUME RequestMalformed, NEW x \in Slots, Live(x)'
            PROVE  Live(x) /\ xact'[x].stream = xact[x].stream
        <4>1. xact'[x] = IF Live(x) /\ xact[x].ue = Head(queue).ue
                         THEN [xact[x] EXCEPT !.ue = NULL] ELSE xact[x]
          BY <3>2 DEF RequestMalformed
        <4>2. Live(x) /\ xact[x] \in Xacts
          BY <3>2, <4>1, XactFields DEF Live
        <4>. QED  BY <4>1, <4>2 DEF Xacts
      <3>. QED  BY <1>7, <3>1, <3>2
    <2>3. /\ QueuedOnce(queue')
          /\ \A r \in Streams : InQueue(queue', r) => InQueue(queue, r)
          /\ s \in Streams /\ answers[s] = 0 /\ stream[s] # "idle"
          /\ ~ InQueue(queue', s)
          /\ \A x \in Slots : Live(x) => xact[x].stream # s
      BY <2>1, Taking
    <2>. HIDE DEF s
    <2>4. \A r \in Streams : stream'[r] = "idle" <=> stream[r] = "idle"
      BY <1>0, <2>1 DEF Answer
    <2>. QED  BY <2>1, <2>2, <2>3, <2>4, Answering DEF Quietly
  <1>8. ASSUME NEW x \in Slots, NEW type, Take(type), Live(x), RemoveXact(x),
               UNCHANGED <<stream, answers>> \/ Answer(xact[x].stream)
        PROVE  OneDuty'
    <2>1. xact' = [xact EXCEPT ![x] = NULL]
      BY <1>8 DEF RemoveXact
    <2>2. \A y \in Slots : Live(y)' => y # x /\ Live(y) /\ xact'[y] = xact[y]
      BY <1>0, <2>1 DEF Live
    <2>3. /\ QueuedOnce(queue')
          /\ \A r \in Streams : InQueue(queue', r) => InQueue(queue, r)
      BY <1>8, Taking
    <2>4. /\ xact[x].stream \in Streams /\ answers[xact[x].stream] = 0
          /\ stream[xact[x].stream] # "idle" /\ ~ InQueue(queue, xact[x].stream)
          /\ \A y \in Slots : Live(y)' => xact'[y].stream # xact[x].stream
      BY <1>0, <1>8, <2>2 DEF OneDuty, XactAlone, QueuedAlone
    <2>5. \A r \in Streams : stream'[r] = "idle" <=> stream[r] = "idle"
      BY <1>0, <1>8, <2>4 DEF Answer
    <2>6. Quietly
      BY <2>2, <2>3, <2>5 DEF Quietly
    <2>. QED  BY <1>8, <2>3, <2>4, <2>6, Quiet, Answering
  <1>9. ASSUME NEW type, Take(type), UNCHANGED <<xact, stream, answers>>
        PROVE  OneDuty'
    <2>1. /\ QueuedOnce(queue')
          /\ \A r \in Streams : InQueue(queue', r) => InQueue(queue, r)
      BY <1>9, Taking
    <2>. QED  BY <1>9, <2>1, Quiet DEF Quietly, Live
  <1>10. CASE Response
    <2>1. Head(queue).slot \in Slots
      BY <1>10, TakeType, EventFields DEF Response
    <2>. QED  BY <1>8, <1>9, <1>10, <2>1 DEF Response
  <1>11. CASE Discovered
    BY <1>9, <1>11 DEF Discovered
  <1>12. CASE WaitedTooLong
    <2>1. Head(queue).slot \in Slots
      BY <1>12, TakeType, EventFields DEF WaitedTooLong
    <2>. QED  BY <1>8, <1>9, <1>12, <2>1 DEF WaitedTooLong
  <1>13. CASE NextPart \/ UNCHANGED vars
    <2>1. UNCHANGED <<queue, stream, answers, xact>>
      BY <1>13 DEF NextPart, vars
    <2>. QED  BY <1>0, <2>1, Quiet DEF Quietly, Live
  <1>. QED
    BY <1>1, <1>2, <1>3, <1>4, <1>5, <1>6, <1>7, <1>10, <1>11, <1>12, <1>13
       DEF Next, Dispatch

\* No stream is answered twice, for any pool, also one so small that events and
\* connections hold places that were given to other transactions meanwhile.
THEOREM NeverAnsweredTwice == Spec => []AnsweredOnce
  <1>1. TypeOK /\ PoolOK /\ OneDuty /\ [Next]_vars => (TypeOK /\ PoolOK /\ OneDuty)'
    BY TypeStep, DutyStep
  <1>2. OneDuty => AnsweredOnce
    BY DEF OneDuty
  <1>. QED  BY TypeInit, DutyInit, <1>1, <1>2, PTL DEF Spec


-----------------------------------------------------------------------------
(* Every transaction has its timer or the event of it.                     *)

Waits(q, x) == \E i \in 1 .. Len(q) : q[i].type = "wait" /\ q[i].slot = x

Timed == \A x \in Slots : Live(x) => xact[x].timer \/ Waits(queue, x)

LEMMA WaitsQueued ==
  ASSUME queue \in Seq(Events), NEW x, Waits(queue, x)
  PROVE  \E e \in Queued("wait") : e.slot = x
  <1>1. PICK i \in 1 .. Len(queue) : queue[i].type = "wait" /\ queue[i].slot = x
    BY DEF Waits
  <1>2. i \in DOMAIN queue
    BY <1>1
  <1>3. queue[i] \in Queued("wait")
    BY <1>1, <1>2 DEF Queued, Range
  <1>. QED  BY <1>1, <1>3

\* An event that is queued stays behind the others until it is taken.
LEMMA WaitsStays ==
  ASSUME NEW q \in Seq(Events), NEW x
  PROVE  /\ \A e \in Events : Waits(q, x) => Waits(Append(q, e), x)
         /\ \A e \in Events : e.type = "wait" /\ e.slot = x => Waits(Append(q, e), x)
         /\ q # <<>> /\ Waits(q, x) =>
              Waits(Tail(q), x) \/ (Head(q).type = "wait" /\ Head(q).slot = x)
  <1>1. Len(q) \in Nat
    OBVIOUS
  <1>2. ASSUME NEW e \in Events, Waits(q, x)
        PROVE  Waits(Append(q, e), x)
    <2>1. /\ Len(Append(q, e)) = Len(q) + 1
          /\ \A i \in 1 .. Len(q) : Append(q, e)[i] = q[i]
      OBVIOUS
    <2>2. PICK i \in 1 .. Len(q) : q[i].type = "wait" /\ q[i].slot = x
      BY <1>2 DEF Waits
    <2>3. i \in 1 .. Len(Append(q, e)) /\ Append(q, e)[i] = q[i]
      BY <1>1, <2>1
    <2>. QED  BY <2>2, <2>3 DEF Waits
  <1>3. ASSUME NEW e \in Events, e.type = "wait", e.slot = x
        PROVE  Waits(Append(q, e), x)
    <2>1. Len(Append(q, e)) = Len(q) + 1 /\ Append(q, e)[Len(q) + 1] = e
      OBVIOUS
    <2>2. Len(q) + 1 \in 1 .. Len(Append(q, e))
      BY <1>1, <2>1
    <2>. QED  BY <1>3, <2>1, <2>2 DEF Waits
  <1>4. ASSUME q # <<>>, Waits(q, x), ~ (Head(q).type = "wait" /\ Head(q).slot = x)
        PROVE  Waits(Tail(q), x)
    <2>1. PICK i \in 1 .. Len(q) : q[i].type = "wait" /\ q[i].slot = x
      BY <1>4 DEF Waits
    <2>2. i # 1
      BY <1>4, <2>1
    <2>3. i - 1 \in 1 .. Len(Tail(q)) /\ Tail(q)[i - 1] = q[i]
      BY <1>1, <1>4, <2>2
    <2>. QED  BY <2>1, <2>3 DEF Waits
  <1>. QED  BY <1>2, <1>3, <1>4

\* What a step keeps that adds to the queue or leaves it alone.
LEMMA TimedGrows ==
  ASSUME TypeOK, Timed,
         queue' = queue \/ (\E e \in Events : queue' = Append(queue, e)),
         \A x \in Slots : Live(x)' => (Live(x) /\ xact'[x] = xact[x])
  PROVE  Timed'
  <1>0. queue \in Seq(Events)
    BY DEF TypeOK
  <1>1. ASSUME NEW x, Waits(queue, x)
        PROVE  Waits(queue', x)
    <2>1. ASSUME NEW e \in Events, queue' = Append(queue, e)
          PROVE  Waits(queue', x)
      <3>1. \A f \in Events : Waits(queue, x) => Waits(Append(queue, f), x)
        BY <1>0, WaitsStays
      <3>2. Waits(Append(queue, e), x)
        BY <3>1, <1>1
      <3>. QED  BY <2>1, <3>2
    <2>. QED  BY <1>1, <2>1
  <1>2. \A x \in Slots : Live(x)' /\ ~ xact'[x].timer => Waits(queue', x)
    BY <1>1 DEF Timed
  <1>. QED  BY <1>2 DEF Timed, Waits

\* What a step keeps that takes an event, which may be that of a transaction that
\* the step removes.
LEMMA TimedTakes ==
  ASSUME TypeOK, Timed, NEW type, Take(type),
         \A x \in Slots : Live(x)' =>
            \/ xact'[x].timer
            \/ /\ Live(x) /\ xact'[x].timer = xact[x].timer
               /\ ~ (type = "wait" /\ Head(queue).slot = x)
  PROVE  Timed'
  <1>1. /\ queue \in Seq(Events) /\ queue # <<>> /\ Head(queue).type = type
        /\ queue' = Tail(queue)
    BY DEF TypeOK, Take
  <1>2. ASSUME NEW x \in Slots, Live(x)', ~ xact'[x].timer
        PROVE  Waits(queue', x)
    <2>1. Waits(queue, x) /\ ~ (type = "wait" /\ Head(queue).slot = x)
      BY <1>2 DEF Timed
    <2>. QED  BY <1>1, <2>1, WaitsStays
  <1>. QED  BY <1>2 DEF Timed, Waits

LEMMA RemovedLeaves ==
  ASSUME TypeOK, NEW x \in Slots, RemoveXact(x)
  PROVE  \A y \in Slots : Live(y)' => (y # x /\ Live(y) /\ xact'[y] = xact[y])
  BY DEF TypeOK, RemoveXact, Live

LEMMA TimedStep == TypeOK /\ Timed /\ [Next]_vars => Timed'
  <1>. SUFFICES ASSUME TypeOK, Timed, [Next]_vars
                PROVE  Timed'
    OBVIOUS
  <1>0. queue \in Seq(Events) /\ xact \in [Slots -> Xacts \cup {NULL}]
    BY DEF TypeOK
  <1>1. ASSUME NEW s \in Streams, Receive(s)
        PROVE  Timed'
    <2>1. PICK u \in UEs, method \in {"POST", "PUT"}, good \in BOOLEAN :
              queue' = Append(queue, [type |-> "server", stream |-> s, ue |-> u,
                                      method |-> method, good |-> good])
      BY <1>1 DEF Receive
    <2>2. [type |-> "server", stream |-> s, ue |-> u, method |-> method,
           good |-> good] \in Events
      BY DEF Events
    <2>3. xact' = xact
      BY <1>1 DEF Receive
    <2>. QED  BY <2>1, <2>2, <2>3, TimedGrows DEF Live
  <1>2. ASSUME NEW c \in conns, Arrive(c)
        PROVE  Timed'
    <2>1. PICK good \in BOOLEAN :
              \/ queue' = queue
              \/ queue' = Append(queue, [type |-> "client", slot |-> c.slot,
                                         for |-> c.for, good |-> good,
                                         kind |-> IF c.kind = "nrf" THEN "nrf" ELSE "udm"])
      BY <1>2 DEF Arrive
    <2>2. ASSUME NEW kind \in {"nrf", "udm"}
          PROVE  [type |-> "client", slot |-> c.slot, for |-> c.for, good |-> good,
                  kind |-> kind] \in Events
      BY ConnFields DEF Events
    <2>3. (IF c.kind = "nrf" THEN "nrf" ELSE "udm") \in {"nrf", "udm"}
      OBVIOUS
    <2>4. queue' = queue \/ \E e \in Events : queue' = Append(queue, e)
      BY <2>1, <2>2, <2>3
    <2>5. xact' = xact
      BY <1>2 DEF Arrive
    <2>. QED  BY <2>4, <2>5, TimedGrows DEF Live
  <1>3. ASSUME NEW c \in conns, Break(c) \/ FireDeadline(c)
        PROVE  Timed'
    <2>1. Failed(c) /\ c.slot \in Slots
      BY <1>3, ConnFields DEF Break, FireDeadline
    <2>2. queue' = queue /\ \A x \in Slots : Live(x)' => (Live(x) /\ xact'[x] = xact[x])
      BY <2>1, RemovedLeaves DEF Failed, Live
    <2>. QED  BY <2>2, TimedGrows
  <1>4. ASSUME NEW x \in Slots, FireWait(x)
        PROVE  Timed'
    <2>. DEFINE e == [type |-> "wait", slot |-> x]
    <2>1. e \in Events /\ e.type = "wait" /\ e.slot = x
      BY DEF Events
    <2>2. queue' = Append(queue, e) /\ xact' = [xact EXCEPT ![x].timer = FALSE]
      BY <1>4 DEF FireWait
    <2>. HIDE DEF e
    <2>3. Waits(queue', x) /\ \A y : Waits(queue, y) => Waits(queue', y)
      BY <1>0, <2>1, <2>2, WaitsStays
    <2>4. \A y \in Slots \ {x} : xact'[y] = xact[y]
      BY <1>0, <2>2
    <2>. QED  BY <2>3, <2>4 DEF Timed, Live, Waits
  <1>5. CASE Request
    <2>1. /\ Take("server") /\ Head(queue).stream \in Streams /\ Head(queue).ue \in UEs
          /\ DiscoverAndSend(Head(queue).stream, Head(queue).ue)
      BY <1>5, TakeType, EventFields DEF Request
    <2>2. ASSUME NEW s \in Streams, NEW u \in UEs, DiscoverAndSend(s, u), NEW y \in Slots,
                 Live(y)'
          PROVE  xact'[y].timer \/ (Live(y) /\ xact'[y] = xact[y])
      <3>1. \/ xact' = xact
            \/ free # <<>> /\ xact' = [xact EXCEPT ![Head(free)] = NewXact(s, u)]
        BY <2>2 DEF DiscoverAndSend
      <3>2. NewXact(s, u).timer
        BY DEF NewXact
      <3>. QED  BY <1>0, <2>2, <3>1, <3>2 DEF Live
    <2>. QED  BY <2>1, <2>2, TimedTakes
  <1>6. CASE RequestUnknown
    BY <1>6, TimedTakes DEF RequestUnknown, Live
  <1>7. CASE RequestMalformed
    <2>1. ASSUME NEW x \in Slots, Live(x)'
          PROVE  Live(x) /\ xact'[x].timer = xact[x].timer
      <3>1. xact'[x] = IF Live(x) /\ xact[x].ue = Head(queue).ue
                       THEN [xact[x] EXCEPT !.ue = NULL] ELSE xact[x]
        BY <1>7 DEF RequestMalformed
      <3>2. Live(x) /\ xact[x] \in Xacts
        BY <2>1, <3>1, XactFields DEF Live
      <3>. QED  BY <3>1, <3>2 DEF Xacts
    <2>. QED  BY <1>7, <2>1, TimedTakes DEF RequestMalformed
  <1>8. CASE Response
    <2>1. Take("client") /\ Head(queue).slot \in Slots
      BY <1>8, TakeType, EventFields DEF Response
    <2>2. RemoveXact(Head(queue).slot) \/ xact' = xact
      BY <1>8 DEF Response
    <2>. QED  BY <2>1, <2>2, RemovedLeaves, TimedTakes DEF Live
  <1>9. CASE Discovered
    BY <1>9, TimedTakes DEF Discovered, Live
  <1>10. CASE WaitedTooLong
    <2>1. Take("wait") /\ Head(queue).slot \in Slots
      BY <1>10, TakeType, EventFields DEF WaitedTooLong
    <2>2. \/ RemoveXact(Head(queue).slot)
          \/ ~ Live(Head(queue).slot) /\ xact' = xact
      BY <1>10 DEF WaitedTooLong
    <2>3. \A y \in Slots : Live(y)' =>
             (y # Head(queue).slot /\ Live(y) /\ xact'[y] = xact[y])
      BY <2>1, <2>2, RemovedLeaves DEF Live
    <2>. QED  BY <2>1, <2>3, TimedTakes
  <1>11. CASE (\E s \in Streams : Close(s)) \/ NextPart \/ UNCHANGED vars
    <2>1. UNCHANGED <<queue, xact>>
      BY <1>11 DEF Close, NextPart, vars
    <2>. QED  BY <2>1, TimedGrows DEF Live
  <1>. QED
    BY <1>1, <1>2, <1>3, <1>4, <1>5, <1>6, <1>7, <1>8, <1>9, <1>10, <1>11
       DEF Next, Dispatch

\* Every transaction has what ends it and is alone in owing its stream an answer, for
\* any pool, also one that goes round so fast that late answers and timer events meet
\* a transaction they were not meant for (ogs_sbi_xact_add, ogs_sbi_xact_remove).
THEOREM NoneLeftBehind == Spec => []Pursued
  <1>1. Init => Timed
    BY DEF Init, Timed, Live
  <1>2. TypeOK /\ PoolOK /\ OneDuty /\ Timed /\ [Next]_vars
          => (TypeOK /\ PoolOK /\ OneDuty /\ Timed)'
    BY TypeStep, DutyStep, TimedStep
  <1>3. TypeOK /\ OneDuty /\ Timed => Pursued
    <2>. SUFFICES ASSUME TypeOK, OneDuty, Timed, NEW x \in Slots, Live(x)
                  PROVE  /\ xact[x].timer \/ \E e \in Queued("wait") : e.slot = x
                         /\ answers[xact[x].stream] = 0
                         /\ \A y \in Slots \ {x} : Live(y) => xact[y].stream # xact[x].stream
      BY DEF Pursued
    <2>1. xact[x].timer \/ \E e \in Queued("wait") : e.slot = x
      BY WaitsQueued DEF Timed, TypeOK
    <2>. QED  BY <2>1 DEF OneDuty, XactAlone
  <1>. QED  BY TypeInit, DutyInit, <1>1, <1>2, <1>3, PTL DEF Spec

=============================================================================
