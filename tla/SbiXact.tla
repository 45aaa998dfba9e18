------------------------------ MODULE SbiXact -------------------------------
(***************************************************************************)
(* A network function that asks another one before it answers: the SBI     *)
(* transactions of lib/sbi (context.c, path.c, client.c) as the AUSF uses  *)
(* them (src/ausf).  A request of an AMF arrives on a stream of the HTTP   *)
(* server; the AUSF opens a transaction for it, sends a request of its own *)
(* to the UDM, after asking the NRF where the UDM is or through an SCP,    *)
(* and answers the stream when the UDM's answer comes or when the          *)
(* transaction's timer expires.                                            *)
(*                                                                         *)
(* The AUSF is one loop.  A turn has three parts: what the sockets         *)
(* deliver is queued ("poll"), the timers that expired queue their events  *)
(* ("expire"), and the queue is emptied ("dispatch").  Events, and the     *)
(* connections to the UDM and the NRF, hold a transaction by its place in  *)
(* the pool and nothing else.  The pool is a ring: the place freed longest *)
(* ago is taken first.                                                     *)
(***************************************************************************)
EXTENDS Naturals, Sequences, FiniteSets, Functions

CONSTANTS Streams,      \* requests of AMFs: each uses one stream
          UEs,          \* subscribers
          Slots,        \* places of the pool of transactions
          Routes,       \* how the UDM may be reached: "udm", its address being
                        \* known, "nrf", after asking the NRF, "scp", through an
                        \* SCP that discovers it
          Malformed,    \* whether AMFs leave out what a request must carry
          Unreachable,  \* whether it may be that nobody knows where to send
          NULL

ASSUME XactAssumption ==
    /\ IsFiniteSet(Slots) /\ NULL \notin Slots \cup UEs \cup Streams
    /\ NULL \notin [ue : UEs \cup {NULL}, stream : Streams, timer : BOOLEAN]
    /\ Routes \subseteq {"udm", "nrf", "scp"}
    /\ {Malformed, Unreachable} \subseteq BOOLEAN

VARIABLES
    phase,      \* the part of the turn the loop is in
    queue,      \* the event queue
    stream,     \* "idle", "open", "answered", or "closed" by the AMF
    answers,    \* how many answers the AUSF gave on a stream
    known,      \* the subscribers that have a context (ausf_ue_t)
    xact,       \* the transaction in a place of the pool, or NULL
    free,       \* the free places of the pool, the next to be taken first
    conns,      \* connections of the HTTP client
    aborted     \* why the process aborted, or "no"

vars == <<phase, queue, stream, answers, known, xact, free, conns, aborted>>

\* A transaction: the subscriber whose context it is linked to (NULL once that
\* context is freed), the stream to answer, and whether t_response runs.
Xacts == [ue : UEs \cup {NULL}, stream : Streams, timer : BOOLEAN]

\* What a connection was opened for: discovery at the NRF, the UDM with its
\* address known, the UDM through an SCP that discovers it.  "for" is the
\* stream it was opened for, which the code does not record.
Conns == [slot : Slots, kind : {"nrf", "udm", "scp"}, for : Streams]

Events ==
    [type : {"server"}, stream : Streams, ue : UEs, method : {"POST", "PUT"},
     good : BOOLEAN]
        \cup [type : {"client"}, slot : Slots, for : Streams,
              kind : {"nrf", "udm"}, good : BOOLEAN]
        \cup [type : {"wait"}, slot : Slots]

Live(x) == xact[x] # NULL

TypeOK ==
    /\ phase \in {"poll", "expire", "dispatch"}
    /\ queue \in Seq(Events)
    /\ stream \in [Streams -> {"idle", "open", "answered", "closed"}]
    /\ answers \in [Streams -> Nat]
    /\ known \subseteq UEs
    /\ xact \in [Slots -> Xacts \cup {NULL}]
    /\ free \in Seq(Slots) /\ IsInjective(free)
    /\ conns \subseteq Conns
    /\ aborted \in {"no", "stale wait", "stale discovery", "refused"}

Init ==
    /\ phase = "poll"
    /\ queue = <<>>
    /\ stream = [s \in Streams |-> "idle"]
    /\ answers = [s \in Streams |-> 0]
    /\ known = {}
    /\ xact = [x \in Slots |-> NULL]
    /\ free \in Bijection(1 .. Cardinality(Slots), Slots)
    /\ conns = {}
    /\ aborted = "no"

-----------------------------------------------------------------------------
(* The pool, the server's answers. *)

\* ogs_pool_free: the place goes to the end of the ring.
Freed(x) == free' = Append(free, x)

\* ogs_sbi_xact_remove of a transaction that is in the pool: its timer is
\* deleted with it.  Events that hold its place stay in the queue.
\* Mutants: the transaction stays; its place is not given back.
KeepXact(x) == UNCHANGED <<xact, free>>
LeakXact(x) == xact' = [xact EXCEPT ![x] = NULL] /\ UNCHANGED free
RemoveXact(x) ==
    /\ xact' = [xact EXCEPT ![x] = NULL]
    /\ Freed(x)

\* ogs_sbi_server_send_response and _send_error: nothing if the stream is gone.
Answer(s) ==
    /\ stream' = [stream EXCEPT ![s] = IF @ = "open" THEN "answered" ELSE @]
    /\ answers' = [answers EXCEPT ![s] = @ + 1]

Abort(why) == aborted' = why

-----------------------------------------------------------------------------
(* What the sockets deliver: the first part of a turn. *)

\* A request of an AMF: ogs_sbi_server_handler.
Receive(s) == \E u \in UEs, method \in {"POST", "PUT"}, good \in BOOLEAN :
    /\ phase = "poll" /\ aborted = "no"
    /\ stream[s] = "idle"
    /\ good \/ Malformed
    /\ stream' = [stream EXCEPT ![s] = "open"]
    /\ queue' = Append(queue, [type |-> "server", stream |-> s, ue |-> u,
                               method |-> method, good |-> good])
    /\ UNCHANGED <<phase, answers, known, xact, free, conns, aborted>>

\* The AMF closes the stream: stream_remove.
Close(s) ==
    /\ phase = "poll" /\ aborted = "no"
    /\ stream[s] = "open"
    /\ stream' = [stream EXCEPT ![s] = "closed"]
    /\ UNCHANGED <<phase, queue, answers, known, xact, free, conns, aborted>>

\* An answer arrives (check_multi_info), to ogs_sbi_client_handler, or to
\* client_discover_cb, which drops it when the transaction is gone.  A good
\* answer can be parsed and, from the NRF, is not an error.
Arrive(c) == \E good \in BOOLEAN :
    /\ phase = "poll" /\ aborted = "no"
    /\ c \in conns
    /\ conns' = conns \ {c}
    /\ queue' = IF c.kind = "scp" /\ ~Live(c.slot)
                THEN queue
                ELSE Append(queue, [type |-> "client", slot |-> c.slot,
                                    for |-> c.for, good |-> good,
                                    kind |-> IF c.kind = "nrf" THEN "nrf" ELSE "udm"])
    /\ UNCHANGED <<phase, stream, answers, known, xact, free, aborted>>

\* What both callbacks do with an error: ogs_sbi_client_handler nothing,
\* client_discover_cb removes the transaction, and nobody answers the stream.
Failed(c) ==
    /\ c \in conns
    /\ conns' = conns \ {c}
    /\ IF c.kind = "scp" /\ Live(c.slot)
       THEN RemoveXact(c.slot)
       ELSE UNCHANGED <<xact, free>>
    /\ UNCHANGED <<phase, queue, stream, answers, known, aborted>>

\* The connection breaks.
Break(c) == phase = "poll" /\ aborted = "no" /\ Failed(c)

-----------------------------------------------------------------------------
(* The timers: the second part. *)

\* Mutant: the event of the timer is dropped.
FireWaitInVain(x) ==
    /\ phase = "expire" /\ aborted = "no"
    /\ Live(x) /\ xact[x].timer
    /\ xact' = [xact EXCEPT ![x].timer = FALSE]
    /\ UNCHANGED <<phase, queue, stream, answers, known, free, conns, aborted>>

\* t_response expires: ogs_timer_sbi_client_wait_expire.
FireWait(x) ==
    /\ phase = "expire" /\ aborted = "no"
    /\ Live(x) /\ xact[x].timer
    /\ xact' = [xact EXCEPT ![x].timer = FALSE]
    /\ queue' = Append(queue, [type |-> "wait", slot |-> x])
    /\ UNCHANGED <<phase, stream, answers, known, free, conns, aborted>>

\* A connection's deadline: a second longer than the transaction's, and
\* started no earlier.
Overdue(c) == ~(Live(c.slot) /\ xact[c.slot].stream = c.for /\ xact[c.slot].timer)

FireDeadline(c) ==
    phase = "expire" /\ aborted = "no" /\ c \in conns /\ Overdue(c) /\ Failed(c)

-----------------------------------------------------------------------------
(* The queue: the third part. *)

Take(type) ==
    /\ phase = "dispatch" /\ aborted = "no"
    /\ queue # <<>> /\ Head(queue).type = type
    /\ queue' = Tail(queue)
    /\ UNCHANGED phase

\* Mutant: t_response is not started.
NewUntimed(s, u) == [ue |-> u, stream |-> s, timer |-> FALSE]
NewXact(s, u) == [ue |-> u, stream |-> s, timer |-> TRUE]

\* ausf_sbi_discover_and_send: a transaction, and a request to the UDM, or to
\* find the UDM.  With no place left, or nowhere to send, it answers 504 and
\* returns false; its callers assert that it returned true.
DiscoverAndSend(s, u) ==
    IF free = <<>>
    THEN Answer(s) /\ Abort("refused") /\ UNCHANGED <<xact, free, conns>>
    ELSE LET x == Head(free) IN
         \/ /\ xact' = [xact EXCEPT ![x] = NewXact(s, u)]
            /\ free' = Tail(free)
            /\ \E kind \in Routes :
                    conns' = conns \cup {[slot |-> x, kind |-> kind, for |-> s]}
            /\ UNCHANGED <<stream, answers, aborted>>
         \/ /\ Unreachable
            /\ free' = Append(Tail(free), x)
            /\ Answer(s) /\ Abort("refused")
            /\ UNCHANGED <<xact, conns>>

\* A request that can be handled: a POST adds the context if there is none.
Request ==
    /\ Take("server")
    /\ LET e == Head(queue) IN
       /\ e.good
       /\ e.method = "PUT" => e.ue \in known
       /\ known' = known \cup {e.ue}
       /\ DiscoverAndSend(e.stream, e.ue)

\* A PUT for a context that is not there.
RequestUnknown ==
    /\ Take("server")
    /\ LET e == Head(queue) IN
       /\ e.method = "PUT" /\ e.ue \notin known
       /\ Answer(e.stream)
    /\ UNCHANGED <<known, xact, free, conns, aborted>>

\* A request without what it must carry is answered, and the subscriber's
\* context removed (ausf_ue_remove).  Its transactions are not: they are left
\* with a link to the freed context (ogs_sbi_object_free).
RequestMalformed ==
    /\ Take("server")
    /\ LET e == Head(queue) IN
       /\ ~e.good
       /\ e.method = "PUT" => e.ue \in known
       /\ Answer(e.stream)
       /\ known' = known \ {e.ue}
       /\ xact' = [x \in Slots |-> IF Live(x) /\ xact[x].ue = e.ue
                                  THEN [xact[x] EXCEPT !.ue = NULL]
                                  ELSE xact[x]]
    /\ UNCHANGED <<free, conns, aborted>>

\* The UDM's answer.  The transaction is removed first; when the context is
\* gone nobody answers the stream, unless its place in the pool of contexts is in
\* use again: ausf_ue_cycle cannot tell, and that context's machine answers.
Response ==
    /\ Take("client")
    /\ LET e == Head(queue) IN
       /\ e.kind = "udm"
       /\ IF e.good /\ Live(e.slot)
          THEN /\ RemoveXact(e.slot)
               /\ \/ /\ xact[e.slot].ue # NULL \/ known # {}
                     /\ Answer(xact[e.slot].stream)
                  \/ /\ xact[e.slot].ue = NULL
                     /\ UNCHANGED <<stream, answers>>
          ELSE UNCHANGED <<xact, free, stream, answers>>
    /\ UNCHANGED <<known, conns, aborted>>

\* The NRF's answer (ausf_nnrf_handle_nf_discover).  Nothing checks that the
\* transaction is still there: what it reads then is freed, and what it does is
\* undefined.
Discovered ==
    /\ Take("client")
    /\ LET e == Head(queue) IN
       /\ e.kind = "nrf"
       /\ \/ /\ e.good => Live(e.slot) /\ Unreachable
             /\ UNCHANGED <<conns, aborted>>
          \/ /\ e.good /\ Live(e.slot)
             /\ conns' = conns \cup {[slot |-> e.slot, kind |-> "udm",
                                      for |-> xact[e.slot].stream]}
             /\ UNCHANGED aborted
          \/ /\ e.good /\ ~Live(e.slot)
             /\ Abort("stale discovery") /\ UNCHANGED conns
    /\ UNCHANGED <<known, xact, free, stream, answers>>

\* Mutant: nobody notices that the transaction is removed twice.
WaitedTrusting ==
    /\ Take("wait")
    /\ LET x == Head(queue).slot IN
       /\ RemoveXact(x)
       /\ IF Live(x) THEN Answer(xact[x].stream) ELSE UNCHANGED <<stream, answers>>
    /\ UNCHANGED <<known, conns, aborted>>

\* The transaction waited too long.  Nothing checks that it is still there;
\* removing it twice aborts in ogs_timer_delete.
WaitedTooLong ==
    /\ Take("wait")
    /\ LET x == Head(queue).slot IN
       IF Live(x)
       THEN RemoveXact(x) /\ Answer(xact[x].stream) /\ UNCHANGED aborted
       ELSE Abort("stale wait") /\ UNCHANGED <<xact, free, stream, answers>>
    /\ UNCHANGED <<known, conns>>

\* The next part of the turn.
NextPart ==
    /\ aborted = "no"
    /\ phase = "dispatch" => queue = <<>>
    /\ phase' = CASE phase = "poll" -> "expire"
                  [] phase = "expire" -> "dispatch"
                  [] phase = "dispatch" -> "poll"
    /\ UNCHANGED <<queue, stream, answers, known, xact, free, conns, aborted>>

-----------------------------------------------------------------------------

Dispatch ==
    \/ Request \/ RequestUnknown \/ RequestMalformed
    \/ Response \/ Discovered \/ WaitedTooLong

Next ==
    \/ \E s \in Streams : Receive(s) \/ Close(s)
    \/ \E c \in conns : Arrive(c) \/ Break(c) \/ FireDeadline(c)
    \/ \E x \in Slots : FireWait(x)
    \/ Dispatch
    \/ NextPart

Spec == Init /\ [][Next]_vars

\* The loop runs; a timer that runs expires in some turn.
FairSpec ==
    /\ Spec
    /\ WF_vars(NextPart) /\ WF_vars(Dispatch)
    /\ \A x \in Slots : SF_vars(FireWait(x))

-----------------------------------------------------------------------------
(* Properties. *)

Queued(type) == {e \in Range(queue) : e.type = type}

\* No stream is answered twice, whichever comes first of the UDM's answer, the
\* transaction's timer, a refusal, and a second request of the subscriber.
AnsweredOnce == \A s \in Streams : answers[s] <= 1

\* No place of the pool is lost, and none is free while it is in use.
PoolExact == \A x \in Slots : Live(x) <=> x \notin Range(free)

\* A transaction in the pool has what will end it, its running timer or the event
\* of it, and is the only one that owes its stream an answer: also when its place
\* was given out again while a connection or an event of its former user still
\* names it, so that the answer or the timer of one is taken for the other's.
Pursued ==
    \A x \in Slots : Live(x) =>
        /\ xact[x].timer \/ \E e \in Queued("wait") : e.slot = x
        /\ answers[xact[x].stream] = 0
        /\ \A y \in Slots \ {x} : Live(y) => xact[y].stream # xact[x].stream

\* Every request is answered, unless the AMF gave up or the AUSF aborted.
EveryoneAnswered ==
    \A s \in Streams : stream[s] = "open" ~> (stream[s] # "open" \/ aborted # "no")

-----------------------------------------------------------------------------
(* What assertions and comments of the source say. *)

\* A handler notices that its transaction was removed while its event waited
\* (src/ausf/ausf-sm.c:283-288), and the timer that ogs_sbi_xact_remove deletes
\* is one of the pool's (lib/core/ogs-timer.c:107-111).
RemovedXactNoticed == aborted \notin {"stale wait", "stale discovery"}

=============================================================================
