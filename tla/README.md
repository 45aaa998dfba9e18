# A verification development of Open5GS

Open5GS is a 5G core and EPC written in C: about twenty daemons (AMF, SMF, UPF,
AUSF, UDM, UDR, PCF, BSF, NSSF, NRF, SCP, MME, SGW-C, SGW-U, HSS, PCRF), all
built the same way on the libraries of `src/lib`.  A daemon is one thread that
runs an event loop over state machines; what is hard in it is not parallelism
inside a process but the interleaving of messages, timers, retransmissions,
crashes and answers that come when nobody waits for them any more.  This
directory holds TLA+ models of the parts where that interleaving decides, the
TLC configurations that check them, and proofs that hold for every size.

Paths below are relative to the repository (`src/lib/...` are its libraries,
`src/src/...` its daemons).

Run a check with `tlc -config MC_X_name.cfg MC_X`, a proof with `tlapm X_proofs.tla`.

## 1. Inventory

### 1.1 What every daemon shares

**Event loop** (`src/src/<nf>/init.c`, `lib/core/ogs-poll.c`, `ogs-fsm.c`).  A turn:
`ogs_pollset_poll()` calls the receive callbacks, which queue an event for each
message; `ogs_timer_mgr_expire()` calls back every expired timer, and most
callbacks queue an event too; then the queue is emptied and each event
dispatched to the state machine.  So *the event of a timer is handled after the
messages of its turn*, which may have stopped the timer or freed what the event
points to.  `event_termination()` runs in another thread, and ends the loop
through `ogs_queue_term()`.  Hard: stale events; a queue whose only consumer
also pushes.  Right when: what an event refers to exists, or its handler
notices that it does not.

**Event queue** (`lib/core/ogs-queue.c`).  State: a ring of pointers, two
counters of waiters, `terminated`, under one mutex with two condition
variables.  Operations: push and pop, each blocking, timed or trying;
`interrupt_all`, `term`.  Hard: lost wakeups, wakeups stolen, termination between
check and wait.  Right when: a bounded FIFO, nobody asleep without reason.

**Timers** (`lib/core/ogs-timer.c`): an ordered tree of running timers; add,
start, stop, delete, expire (collects the expired timers, then calls them
back).  Hard: a callback that deletes a timer of the same batch.

**Pools** (`lib/core/ogs-pool.h`): fixed arrays with a ring of free places;
`cycle()` maps a pointer to itself if its place is in use.  Hard: a pointer kept
in an event or a connection to a place that is free, or used again.

**Sequential containers and codecs** (lists, hashes, `pkbuf`, TLV, `lib/nas`,
`lib/asn1c`, `lib/s1ap`, `lib/ngap`, `lib/sbi/openapi`, `lib/crypt`, `lib/ipfw`):
generated, vendored, or pure conversions with unit tests.  Not modelled.

### 1.2 Transports

**PFCP transactions** (`lib/pfcp/xact.c`).  State: per peer a list of local and a
list of remote transactions with id, step, retry counters, a response, a holding
and a delayed-commit timer.  Operations: create, update_tx, update_rx, commit,
delayed_commit, the three timeouts, receive, delete.  Used by SMF/UPF and
SGW-C/SGW-U.  Hard: duplicates after the holding time, failing
retransmissions, ids reused by a restarted peer, answers left uncommitted.
Right when: a request is handled at most once, and its sender learns its end.

**GTP transactions** (`lib/gtp/xact.c`).  The same for GTPv1/v2 on S11, S5 and
Gn, with a third step for commands that trigger a request, and transactions
associated with each other across two interfaces.  Hard: two timers on one
transaction, an association to a transaction that its timer has removed.

**SBI** (`lib/sbi`): an HTTP/2 server (streams) and client (connections with a
deadline), NF instances known from the NRF, and *transactions* that tie the
stream a request came on to the request made for it.  Hard: an answer, a timer
event, a broken connection and a refusal race to end one transaction.  Right
when: each stream is answered once and by its own answer, no place is lost.

**Diameter** (`lib/diameter`, freeDiameter), **SCTP, TUN, MongoDB bindings**: I/O.

### 1.3 Between two daemons

**PFCP association** (`src/src/{smf,upf,sgwc,sgwu}/pfcp-sm.c`).  State: per peer a
state machine (will_associate, associated) and two timers.  Operations: set-up
request and answer, heartbeats, their timeouts.  Hard: crash of one end, both
ends asking, late verdicts.  Right when: a dead peer is noticed, a live one kept.

**NF registration** (`lib/sbi/nf-sm.c`, `src/src/nrf`).  State: in the NF a machine
for its NRF (will_register, registered, exception) with three timers; in the
NRF a pool of instances, each with a no-heartbeat timer.  Operations: PUT,
PATCH, DELETE, their answers and losses, timers, crashes.  Right when: NF and
NRF agree in the end, a dead NF is forgotten.

**NRF subscriptions, notifications and discovery; SCP** (`src/src/nrf/nnrf-handler.c`,
`sbi-path.c`, `src/src/scp`).  State: subscriptions with a validity timer, requests in
transit.  Hard: a lost notification leaves a stale instance at a subscriber.

### 1.4 The network functions

| component | state | hard | right when |
|---|---|---|---|
| AUSF | subscriber contexts with one 5G-AKA vector | two authentications in flight | a confirmation is compared with its own vector |
| UDM, UDR | subscriber contexts, none in the UDR | as the AUSF | every request answered |
| AMF | RAN UEs, UEs, sessions, 5GMM machines, T35xx timers | a UE that appears on a second gNB, handover, paging | one RAN UE per UE, timers match the state |
| SMF | UEs, sessions, bearers, three interfaces per session | session release from three sides at once | every session released once, everywhere |
| UPF, SGW-U | sessions with PDR/FAR/URR/QER tables | reports against removal | tables follow the last modification |
| MME, SGW-C | UEs, bearers, S1AP and S11 contexts | commands against removal, S1 release | associations never dangle |
| PCF, BSF, NSSF | policy associations, bindings, none | as the AUSF | bindings follow sessions |
| HSS, PCRF | one database call per request; Gx/Rx sessions | freeDiameter threads | requests answered |
| web UI, tests, packaging | - | - | out of scope |

`PROJECT.json` lists every component with its files, and under `hazards` what is
hard to test in this code, line by line, with the properties that cover it.

## 2. Plan

Order: what everything else stands on first, then what two daemons agree on,
then single functions.  Every module has its parameters as constants under a named
assumption, one action per handler or step, and no recursive operator, so that it
can be proved about.

1. `OgsQueue`, with `BoundedFifo` as what it promises. *Done; types, both
   sleeping properties and the refinement proved.*
2. `PfcpXact`, with `RequestReply` as what it promises. *Done; all its safety
   properties and the refinement proved.*
3. `PfcpAssociation`, on top of the promises of `RequestReply`. *Done; types and
   `Watched` proved.*
4. `NfRegistration`. *Done; types and `NeverIdle` proved.*
5. `SbiXact`. *Done; types, pool, single answers and pursued transactions proved.*
6. `GtpCommand`. *Done; types and its safety invariants proved, of `ModifiedIfAccepted`
   the first half.*
7. `NgContext`. *Done; types, exact pool, agreeing and leaving contexts, and orphans in
   reach proved.*
8. `EventLoop`. *Done; types and `SignalHeard` proved.*
9. Not begun: `NrfNotify` (subscriptions, notifications and discovery between the
   NRF and two subscribers, with lost notifications), `AusfAka` (two authentications of
   one subscriber), `SmfSession` (SBI, N4 and GTP around one session), `UpfRules`, and
   handover in `NgContext`.

Every safety property that a passing run checks is proved, but for the second half of
`ModifiedIfAccepted`.  Worth proving next: that half, that the operations of `RequestReply` are
enough for what `PfcpAssociation` takes from them, and the safety part of whatever module is
added.

## 3. The modules

### OgsQueue, BoundedFifo
Threads of `Pushers` and `Poppers` are in `idle`, `lock` (past the unlocked
read of `terminated`), `wait` (on their condition variable), `woken`, or
`unlocked` (about to read `terminated` again).  A critical section is one action:
`PushAtOnce`, `PushBlocked`, `PushWoken`, `PushWokenInVain`, and the same for pops;
`Enter` and `GiveUp` are the two reads outside the mutex.  `Signal` wakes one of
the threads asleep; `TimeOut`, `SpuriousWakeup`, `InterruptAll` and the two
critical sections of `ogs_queue_term()` (`TermSet`, `TermInterrupt`) are the rest.
`BoundedFifo` is the promise: atomic put and take, answers included; the
refinement mapping reads the contents off the ring.

### PfcpXact, RequestReply
`local[p][x]` and `remote[p][x]` are p's transactions; timers count down in ticks
and fire up to `Lag` ticks late; `net` is a set of datagrams with a remaining
lifetime, that may be lost, duplicated and reordered.  Creating and committing
is `SendRequest` (`SendDelayed` with a duration); `Retransmit`, `GiveUp`,
`HoldingTimeout`, `DelayedCommitTimeout` are the callbacks of the timers; `Receive`
splits by what `ogs_pfcp_xact_receive` finds: `NewRequest`, `DuplicateRequest`,
`CollidingRequest` (an id reused after a restart), `Answered`, `StrayResponse`.
Retry counts 3 and 1 and a holding time of `3 * T1` are those of
`lib/app/ogs-context.c:99-146`.  `RequestReply` is the promise to the layer above,
and what `PfcpAssociation` is built on.

### PfcpAssociation
Two daemons, each with a state machine for the other.  A request of a kind is
`none`, `requested`, `answered`, or `ignored` ("cannot handle"); `orphans` are requests
in flight whose sender has crashed.  Timer callbacks (`AssociationTimer`,
`NoHeartbeatTimer`) queue events; `HandleX` are the event handlers; `ReceiveX` the
messages; `RequestTimeout` is `node_timeout()`, `RetransmitFails` the path without it;
`Crash`, `Start`, `Abort` (a failed `ogs_assert`) and `Heal` are the environment.
`configured` and `sendFails` are chosen in `Init` and never change.
Time is not counted.  `ExchangeOver` states the one timing fact used: on a healed
network, an exchange is over before an interval of ten seconds or more.

### NfRegistration
`state`, `timers` and `due` (events queued) of each NF; `slot`, `armed` and `overdue` (the
same) of the NRF; counts of requests and answers in flight, unordered.  `Expire`
and `ExpireInstance` are the loops' timer parts, and take all the timers of one
turn at once; `HandleTimer`, `Answer` and `Serve` are the handlers.  `MayExpire` and
the guard of `ExpireInstance` are the timing facts on a healed network: an exchange is
over before the next interval, and a heartbeat comes before the no-heartbeat timer,
which waits a margin longer (`lib/app/ogs-context.c:99-146`).

### SbiXact
The AUSF between AMFs, NRF or SCP, and UDM.  `phase` is the part of the loop's turn;
`queue` the events; `xact` and `free` the pool and its ring; `conns` the connections
of the HTTP client.  `Receive`, `Close`, `Arrive`, `Break` are the poll part,
`FireWait` and `FireDeadline` the expiry part, and `Request`, `RequestUnknown`,
`RequestMalformed`, `Response`, `Discovered`, `WaitedTooLong` the dispatch part.
Connections and events name a place of the pool, not a transaction, and a place is given
out again while they are under way: an answer or a timer event may meet another
transaction than its own, and the handlers of the model take it as those of the code
do.  Field `for` is what the code does not store; only the deadline of a connection depends on
it.  After a failed assertion the process is gone and nothing moves (`aborted`), so these runs
do not check for deadlock.

### GtpCommand
A Bearer Resource Command from the MME over the SGW-C to the SMF, and what it
triggers on the way back.  `xact` holds the transactions.  `Mme` is local to the sender of the
command and `S11` remote; a copy of the command that finds `S11` gone is forwarded again, so
there is an `S5c(g)` and an `Smf(g)` for each forwarding `g`; `S11n(g)` and `Mmen(g)` are those of
the request the SGW-C makes itself when it finds the link `assoc[g]` gone.  `last` is the type of
the last step, from which the stage table of `ogs_gtp2_xact_get_stage()` follows.
`SendCommand`, `Expire` (`Retransmit`, `GiveUp`, `HoldingTimeout`, `StaleTimer`), `Receive`, `UeAccepts`
and `Tick` are the steps; `Receive` splits by what `ogs_gtp_xact_receive()` finds
(`Duplicate`, `Stray`) and by handler (`ForwardCommand`, `ExecuteCommand`, `ForwardTrigger`,
`ForwardFailure`, `AskUe`, `Refused`, `ForwardAnswer`, `ModifyBearer`), each with what it does
when it cannot go on (`RefuseCommand`, `RejectTrigger`, `RejectRequest`).  `net` is a set of
datagrams with a lifetime in ticks: one may be lost, arrive late, arrive more than once, or
overtake another.  `StaleTimer` is the assertion of `ogs_timer_stop()` on a timer that was
collected in one batch and deleted by an earlier callback of it.  `age` counts how long ago the
command was first sent, and a command is *decided* once an Update Bearer Response has answered
the trigger or the MME has stopped sending it (`answered \/ Late`).

### NgContext
The AMF's two pools and what ties them: `ran[c]` is the memory of a place of
`ran_ue_pool`, which stays readable when the place is `free`; `ue[u].ran` is the raw pointer
`amf_ue->ran_ue`, `ran[c].ue` the one back.  `radio` is what the gNBs believe.  `SendX`
are messages of the gNBs, `LoseAll` a reset or a lost association, `HoldingExpires`
the timer; each only queues an event, and the handlers (`InitialUeMessage`,
`UplinkNasTransport`, `FivegmmMessage`, `ReleaseComplete`, `SetupFailure`, `ReleaseRequest`,
`NgReset`, `PartialReset`, `ConnectionRefused`) take them in order.  `ngap_send_to_nas()`
queues a 5GMM event that names the context, which is why other events come
between, or refuses the message (`ToNas`).  A first message may come on a new context or on
one its gNB already has (`ReuseRan`).  If it is refused, by the handler, by `ngap_send_to_nas()` or by the NAS
decoder, its context stays, without a UE and without a timer.  `pending[u]` are the SMF's, PCF's and UDM's answers awaited, taken by `Answered`
or `Failed` in any order.  Handlers are functions from a record of the
state (`Now`) to another (`Becomes`): a handler is a composition of calls, as in the code.

### EventLoop
Written after the AUSF.  `loop` is where the loop's thread is: in `epoll_wait()` (`wait`), calling
the handlers of sockets (`serve`), the callbacks of timers (`expire`), handling events
(`drain`, `handle`), or asleep in a push to its own full queue (`blocked`, with `resume` the
place to go on from).  `main` is where the main thread is in `event_termination()` and
`ogs_thread_destroy()`.  A pass over the sockets may push up to `MaxRequests` events, of one
socket or of several.  `armed` and `due` are the timer tree, `known` the timers the wait's
timeout was computed from, `expired` the batch of `ogs_timer_mgr_expire()`.  A push and a
pop are atomic, which is what `ImplementsFifo` says of `OgsQueue`.

## 4. Runs

Runs that pass:

| run | question | bounds |
|---|---|---|
| `queue` | lost wakeups, sleepers after termination; is it a FIFO, answers included | 2 pushers, 2 poppers, 2 slots, 2 elements, calls with a timeout or none to wait, spurious wakeups |
| `pfcp_xact` | at most once, end told, every request ends, refinement of `RequestReply` | both ends ask once, `T1 = 4`, delay 1, lag 1 |
| `pfcp_xact_restart` | ids reused after a restart, failing sends: what stays, what is forgotten | 1 restart, 2 types of request with one id |
| `pfcp_assoc` | always watched; where sends work: dead peers noticed, association in the end | one end asks or both, sends may fail or not, 2 crashes |
| `nf_registration` | every instance timed, every NF trying | 2 NFs, 1 place, 2 messages in flight per NF |
| `nf_registration_live` | agreement, dead NFs forgotten | 1 NF, 3 in flight, 1 crash in all |
| `sbi_xact` | single answers, no transaction left behind, no loss of places | 3 streams, 2 subscribers, 2 places, all routes, malformed requests |
| `sbi_xact_live` | is every request answered | 2 streams, 2 subscribers, 2 places, no SCP, no malformed requests |
| `gtp_command` | forwarded once until answered, user plane agrees with the UE, legs linked, what stays, when an assertion fails | 1 command, 2 forwardings, `T3 = 1`, datagrams that arrive within their tick in any order, timers on time but in any order |
| `ng_context` | contexts and UEs agree, pool exact, released ones leave, none out of reach | 2 gNBs, 1 subscriber, 2 contexts, 2 UEs, 4 messages of the gNBs, 1 update awaited at a time, gNBs send while fewer than 2 events are queued |
| `event_loop` | does a signal reach the loop wherever it is and end it, when are events left | 1 timer of the NRF instance, 1 other, the holding timer, 2 socket events in a pass, a queue of 2 and one of 4 |

Why these are enough.  Queue: a wakeup is lost or stolen by two threads of one
role against one of the other, and a ring of two slots is full, empty and wraps
around; a call without a timeout does what one does whose timeout never comes, so
`Timeouts` leaves `infinite` out.  PFCP: transactions with different ids do not touch each other, so one id
per peer is enough for one request's copies; two types with that id give the
collision.  `T1 = 4` is the least that lets a datagram and two late timers fit
(`Prompt`).  Association: the configuration and whether sends can fail are chosen in
`Init` and stay (`configured`, `sendFails`); crashes beyond two repeat a state.
Registration: two NFs are needed for a full pool, and three messages in flight let
an old answer meet two newer requests.  SBI: with
fewer places than streams the pool runs out, and a place is given out again while a
connection or an event of its former user is under way; two subscribers let one lose its
context while the other's transactions go on.  GTP: two commands have different transaction
ids and meet in nothing but the bearer, which one command's copies already reach twice;
`T3 = 1` is the least duration `Prompt` allows, and within a tick datagrams come in every order,
before and after the timers of that tick.  A third forwarding does what the second does.
Delays and late timers were checked as well, in instances too large for a run, or smaller in
the rest: delay 1 with `T3 = 2` and one forwarding (184,568 states, all the properties);
`T3 = 2` without delay and two forwardings (1,127,376 states, the invariants); lag 1 with
`T3 = 3` and one forwarding (130,540 states, the invariants).  NG: two places let one be given
out again while a UE still points to it, two gNBs let the UE move, and four messages are a
registration, a move, a release and what crosses it.  Loop: a queue of two is filled by one pass
over the sockets, and blocks the loop in every phase that pushes; one of four holds a pass's
events and those of its timers.

One run TLC refutes, a finding in `PROJECT.json` with the line it contradicts:

| run | what the code does |
|---|---|
| `sbi_xact_stale` | an event is handled with the transaction it names removed: answer and timer event in one turn remove it twice, which aborts, and the NRF's late answer uses a freed place |

Also visible in the models, without a run of their own:

* Queue: a popper whose element was taken by another leaves `queue_pop()` with `ERROR`
  although nobody interrupted it (`GiveUp`).
* PFCP: a retransmission that cannot be sent drops the request without its callback, so
  `EndIsTold` fails with `SendFails = TRUE`; a heartbeat that cannot be sent ends the daemon
  (`Abort`), and a retransmitted one that cannot be sent leaves an association without a
  watch (`RetransmitFails`, which is why `Watched` asks for `~sendFails` there).
* NRF: a heartbeat handled before a queued no-heartbeat event does not save the NF's
  instance (`ForgetInstance`), and the event may meet an instance that a DELETE has
  freed, perhaps given to another NF (`misused`).
* SBI: a request that finds the pool of transactions exhausted is answered 504 and the
  AUSF aborts (`DiscoverAndSend`).  An event of a removed transaction whose place has been given
  out again is taken for the new one's: with three streams and two places a stream gets the
  answer, or the timeout, meant for another.  Nothing in the code but the size of the pool
  stands against that.
* GTP: the S5 transaction of a refused command is never deleted (`Abandoned`: the answer
  stops its timer and the handler does not commit it).  A command that times out ends in
  the MME without telling the UE.  The answer deletes `S11`, so a copy of the command that was
  delayed until then is forwarded and executed once more (`HeldUntilAnswered` is about the time
  before).  The holding timer of a command's receiver and the third expiry of its response
  timer fall in one batch, where the first callback deletes the other's timer and
  `ogs_timer_stop()` aborts (`StaleTimer`); a message that comes once the command is decided may meet
  `ogs_assert(s11_xact)` or the like.  `AbortsOnlyLate` says that neither comes before.
* AMF: a 5GMM event whose context a reset of the same turn removed fails the assertion of
  `src/src/amf/gmm-sm.c:122-127`; so does a partial reset of a connection without UE, an update
  the SMF does not answer in time (`src/src/amf/amf-sm.c:589-640`), and a command for a
  gNB that was lost while the SMF was asked (`src/src/amf/ngap-handler.c:459`).  A late answer of
  the SMF releases the connection the UE has by then.  `amf_ue->ran_ue` may point to a
  place that now is another UE's (`RanPointsBack` is about the other direction, and
  about what the handlers may conclude).  A first message that is refused leaves its context in
  the pool, without UE and timer, until its gNB resets or leaves (`OrphansInReach`).
* Loop: the queue is bounded by `pool.event`, and timers and sockets by as much each
  (`lib/app/ogs-context.c:75-78`), so a burst can fill it and the loop then waits for itself,
  which only a signal ends.  A response of the NRF, or a timer of its instance, that is handled between
  `ogs_sbi_nf_fsm_fini()` and `ogs_queue_term()` of the other thread fails an assertion
  (`src/src/ausf/ausf-sm.c:204`, `:332`); a timer the loop has collected and the main thread
  deletes fails that of `ogs_timer_stop()`.  The holding timer of 300 ms holds
  nothing: the loop stops at the first pop after `ogs_queue_term()`, so the
  de-registration it is meant for may stay unsent, and events left in the queue are lost.

### Fairness
Weak fairness of `Tick` and
of expired timers (every turn calls `ogs_timer_mgr_expire()`), of handlers of queued events
and of delivered messages (every turn empties the queue).  A network owes nothing
until it is healed; from then on a request in flight arrives or is given up.
`SbiXact` has strong fairness for `FireWait`: a timer that runs expires in some turn,
though it can only fire in the second part of one.  Nobody is obliged to send,
stop or crash.  `GtpCommand` has it for time, that is for `Tick` or, where a timer holds time up, any `Expire`,
and none for the network or the UE.
`EventLoop` has it for the loop's thread, for the main thread once a signal came, and
for time; sockets, signals and spurious wakeups owe nothing.  The properties of the queue and
of the NG contexts are safety and need no fairness.  `NgContext`, `EventLoop` and `SbiXact` do
not check for deadlock: their process may end.

## 5. Proofs

All hold for every value of the constants under the named assumption of the module.

* `OgsQueue_proofs!TypeCorrect`: the ring's indices stay in the ring and the number of
  elements within the capacity.
* `OgsQueue_proofs!NobodySleepsAfterTerm`: `NoSleeperAfterTerm`, from `TermInv`: the flag
  is set from the first of the two critical sections of `ogs_queue_term()` on, and a
  thread falls asleep only where it has read the flag unset under the same mutex
  (`OnlyBlockedSleeps`).
* `OgsQueue_proofs!WakeupsKept`: `NoLostWakeup`, from `Attended` for each role: the counter of
  waiters counts the threads inside a wait, awake or not, and while one of them sleeps
  at least as many are woken and on their way as there is to take, not counting those
  whose timeout ended.
* `OgsQueue_proofs!RingIsFifo`: the queue implements `BoundedFifo`.  The mapping reads the
  contents from `out` on; `RingInv` says that `in` is where they end, and `ArgsInv` that a
  pusher on its way has its element.
* `PfcpXact_proofs!AtMostOnce`: under `Prompt` (delay and two lags shorter than `T1`),
  without restarts and send failures, `HandledAtMostOnce`.  It is not inductive:
  that a request is handled once says nothing of the copies still on their way.
  The invariant adds `HoldingOutlivesCopies`: while a copy flies or can still be
  sent, the receiver holds the request, and for longer than that copy needs,
  counting the lags of the expiries to come (`LastArrival`); that a request with
  no trace was not handled; and that all traces of an id have one type.
* `PfcpXact_proofs!TypeCorrect`: a live transaction's counters are at least one, and no
  running timer is later than `Lag`.
* `PfcpXact_proofs!NothingElseLeaks` and `EndsAreTold`: `OnlyIgnoredLeak`, without conditions, and
  `EndIsTold`, where sends do not fail, from one invariant, `Consistent`, of a transaction and
  what its user knows of it: one that is pending has a timer running, and what has ended
  is gone or was ignored.
* `PfcpXact_proofs!XactsAreRequestReply`: under the conditions of `AtMostOnce`, the transactions
  implement `RequestReply`.  Beside those two invariants it needs that an answer in
  flight is to a request that was handled (`RepliesInv`).
* `PfcpAssociation_proofs!TypeCorrect` and `AlwaysWatched`: all that `Watched` says is about one peer,
  so it is proved from a predicate, `Good`, of the state, timers, queued events and
  open heartbeat that a daemon keeps for its peer.  `Watched` is not inductive: an
  event must not be queued twice, or its second copy would watch beside what replaced
  the first, and an event of the association timer must not stand behind the `gone`
  that starts that timer again.  A lemma says what each operation
  makes of a good node; messages change only the receiver's, and how far a
  heartbeat got.
* `NfRegistration_proofs!NobodyIdle`: `NeverIdle` is inductive once the parts of the state it
  reads are typed.  The counts of messages in flight do not matter to it, so it holds
  without the bound on them.
* `NfRegistration_proofs!TypeCorrect`: `TypeOK`, whose bound on the messages of an NF is one on
  their sum: the NRF makes at most one answer of a request it takes, and a machine
  that has not started has nothing in flight (`Counted`).
* `SbiXact_proofs!TypeCorrect` and `PoolCorrect`: the ring of free places is injective
  and holds exactly the places that are not in use.
* `SbiXact_proofs!NeverAnsweredTwice`: `AnsweredOnce` follows from `OneDuty`: an open stream
  that was not answered is in the queue at most once or linked to at most one
  transaction, never both, and a stream in neither place is not answered again.
* `SbiXact_proofs!NoneLeftBehind`: `Pursued` follows from `OneDuty` and `Timed`: a place keeps a timer or its event until a transaction is removed,
  and an event that meets another transaction than its own removes that one and answers
  its stream.  No assumption relates the numbers of streams and places.
* `GtpCommand_proofs`: `TypeCorrect`, `LegsAlwaysAgree`, `CommandHeldUntilAnswered`, `NoEarlyAbort` and
  `ModifiedOnlyIfAccepted`, from the module's assumption that a delay and two lags are less
  than `T3`, and for any number of forwardings.  None of them is inductive; their
  invariant, `IInv`, has four parts.  `XactsFine` says of each transaction what it may have said
  or heard last, and how late its timers are; while the command is undecided, that
  none of them can end before the MME has stopped sending: a retransmission is only made
  after its full time, and a copy holds the transaction again.  `NetFine` says what
  each datagram in flight may be, given what its sender has said.  `Linked` is
  `LegsAgree`, and that the `S5c` of an undecided command is linked to `S11`.  `Rest` says that before the
  decision no daemon is down, at most one forwarding was made, and its `S11` lives.
* `NgContext_proofs`: `TypeCorrect`, `PoolExact`, `ContextsAgree`, `ReleasedLeaves` and
  `OrphansStayInReach`, for any number of gNBs, subscribers and places.  The first four are one
  inductive invariant, `Good(Now)`: each operation on the two pools (`AddRan`, `RemoveRan`,
  `Associate`, `Move`, `Command`, ...) has a lemma that says what it keeps of a good state, and each
  handler's proof follows its calls.  It needs that a freed place has no
  timer running (its pointer to the UE stays in the memory), and that `Move` detaches the
  old context before the new one names the UE.  `OrphansStayInReach` adds
  `NoneIdle`: only contexts with a UE outlive their gNB, and they
  lose that UE by a release that starts their timer.
* `EventLoop_proofs!TypeCorrect` and `LoopHearsSignal`: `SignalHeard` is inductive with `Over`: the main
  thread ends the queue before it interrupts and notifies, so from then on no push falls
  asleep, and a loop that has seen the notification finds its queue over and does not poll
  again.

Only model-checked: the second half of `ModifiedIfAccepted` (a command known as refused neither
asked the UE nor modified a bearer), and everything temporal other than the two refinements, that is the
liveness properties (liveness and its fairness are out of reach of the prover):
`EveryRequestEnds`, `HeldIsForgotten`, `DeadPeerNoticed`, `StaysAssociated`, `Reassociated`,
`DeadForgotten`, `Agreement`, `EveryoneAnswered`, `Forgotten`, `Handled` and `Terminates`.

## 6. What is left out, and why

* Contents of messages: a request is its kind and whatever a property distinguishes.
* Exhaustion of memory and of the pools that are asserted to be large enough;
  `SbiXact` models the one whose exhaustion the code handles.
* The three-step PFCP transactions: no daemon commits a third step.
* A restart takes no time in `PfcpXact`; in `PfcpAssociation` a daemon stays stopped.
* The deadline of an HTTP connection is modelled as "later than the transaction's timer",
  which is what `lib/sbi/client.c` and `context.c` set.
* `GtpCommand` follows one command, which a daemon may refuse but the UE, if it answers,
  accepts.  Left out: a command that deletes the last packet filter (`tft_delete` of
  `src/src/smf/s5c-handler.c:1358-1373`, which goes by N4 and a Delete Bearer Request), a request without
  QoS and TFT, which the MME ignores, a paging that fails, GTPv1, echoes, and the other
  procedures on S11 and S5.
* `NgContext` leaves out handovers, and sends that fail before the association is reported
  lost.  A gNB that reconnects is not given the place of a removed one.  It is untimed.
* `EventLoop` takes a call into the timer tree to be atomic.  The tree has no lock, and two
  threads use it during termination: a race inside a call is not modelled.  Nor is the
  limit of five seconds in `ogs_thread_destroy()`.
* The codecs under `lib/asn1c`, `lib/sbi/openapi`, `lib/nas`, `lib/s1ap` and `lib/ngap`, nine
  tenths of the lines of the repository, are generated and keep no state.
* Everything that section 2 lists as not begun and `PROJECT.json` as not modelled.
