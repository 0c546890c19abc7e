# Verification of nats.ml

nats.ml is a NATS client for OCaml: a pure protocol core (`lib/`), an Eio runtime
that owns a connection (`lib/eio/connection.ml`), and JetStream, key-value, object
store and service clients on top of it (`lib/eio/`). Beside it the repository keeps an
interoperability suite, in which a Go peer (`interop/nats-ocaml-interop-peer`) and
OCaml executables (`test/interop`) meet over real servers that a shell driver
(`scripts/runtest-interop-*.sh`) kills and restarts. This directory holds TLA+
modules translated from that code, the TLC configurations that check them, and
TLAPS proofs.

    tlc -config ClientSession.cfg MCClientSession     # check a run
    tlapm ClientSession_proofs.tla                    # check the proofs of a module

## 1. Inventory

| Component | State | Operations | What is hard | What makes it correct |
|---|---|---|---|---|
| Protocol core, `client.ml` | phase, INFO, subscriptions with quotas, draining sids, FIFO of awaited PONGs, liveness count | commands (connect, publish, subscribe, unsubscribe, auto-unsubscribe, drain, flush, close), received operations, timer, `prepare_reconnect` | answers are matched by position only; quotas and subscriptions are re-based at each reconnect | the PONGs on their way are those the barriers wait for, never one more; the server serves what the core keeps and no more; quotas hold over reconnects |
| Connection owner, `connection.ml` | the core, command queue, barriers, requests, handles, reconnect buffer, deadlines | commands of callers, input batches, timers, recovery | one fiber serves all callers and blocks in writes; a failure can fall between any two writes; reconnects nest | each call is answered once; barriers match the core's queue; accepted publishes keep their order |
| Event stream | bounded queue with reserved slots | push, push_control, terminate, next | a full queue would block the owner | the owner never blocks; the end is last and seen |
| Subscription handle | bounded queue, pending counts, recovery state, drain state | push, detach, attach, drain, unsubscribe, next, await_recovery | five parties share it | exact accounting, the end last, a drain settled once, no missed recovery |
| Endpoint pool, `endpoint.ml` | seeds, discovered, order, preferred | update_discovered, connected, failed | rotation against advertisements | the order is a permutation; no candidate is starved |
| Interoperability suite: Go peer, OCaml executables, drivers | each process's position, two client connections, servers up, the shared stream and consumers, signal files | the modes of `runMode`: publish, request, service, push, ordered, key-value and object exchanges, each with seed, leader, multi-server or management failures | three processes that know of each other only by messages, files and dead servers; retries under new inboxes; kills between a reply and its flush | a correct client always passes; a run always ends; kills fall between validated rounds; acknowledged work and restarted servers are back before recovery is declared |
| Codec and packets | partial input | feed, next | framing over arbitrary chunks | not modelled, section 7 |
| JetStream, key-value, object store, services (`lib/eio`) | consumers, batches, watches, uploads, endpoint fibers | see the `.mli` files | retries, heartbeats, gaps, reconnects | not modelled, section 7 |

The owner fiber is the only one that touches the core and the transport. Callers
queue commands and wait on promises; the owner resolves them. A reader fiber turns
the transport into input batches. Subscription handles and the event stream are
queues the owner fills and application fibers read. All fibers run in one Eio
domain, so they switch only where they wait: an action of a model is a fiber's run
up to its next wait.

## 2. Modules

| Module | Models |
|---|---|
| `Client` | the functions of `client.ml` as operators: a command, operation or tick maps a state to a transition record or an error |
| `ClientSession`, `MCClientSession` | the core driven by a caller over a FIFO transport to a server, with losses and redials |
| `ClientSession_proofs` | theorems about it: types and consistency, barriers and the wire; subscriptions, quotas and drains |
| `Server` | external: the subscriptions a server keeps for one client |
| `Connection`, `MCConnection` | the owner fiber, its callers, the transport and the server |
| `Connection_proofs`, `ConnectionBarriers_proofs` | theorems about it: every call is answered once; barriers and the core |
| `EventStream`, `EventStream_proofs` | `Event_stream` and the owner's use of it |
| `Subscription`, `Subscription_proofs` | one handle and everyone who shares it |
| `EndpointPool`, `MCEndpointPool`, `EndpointPool_proofs` | `Endpoint.Pool` and the dial passes |
| `SequenceLemmas`, `FoldLemmas` | lemmas the proofs share: counting in sequences, totals, order, prefixes; induction over a fold |
| `InteropScripts`, `InteropStreamScripts` | what each process of the interoperability suite does in each mode, as a sequence of calls |
| `InteropSuite` | `runMode`: mode to servers and programs |
| `InteropClient`, `InteropStream` | a client connection and the replicated stream, as far as the suite relies on them (mostly external) |
| `Interop`, `MCInterop` | the three processes, the connections, the servers and the stream together |
| `Rounds` | abstract specification of a failover run |

### Client and ClientSession

The core has no variables of its own: `core` in `ClientSession` is its record. The
subscription list becomes a function on sids (list order is sid order, both are
decreasing); `pending_pings` is the two-list queue as a sequence; `next_ping` keeps
only whether a deadline is set, and `Timer` may fire whenever it is. A subject
stands for a filter with its queue group and is either encodable or not. Messages
keep whether they have headers and whether they exceed the negotiated size.

The caller's actions are what `connection.ml` does with a transition: write the
output, then keep the state. The server is external and is modelled by what the
client relies on: it handles operations in order, answers PING behind what it has
sent, ends a subscription on UNSUB or at the asked maximum. A transport loss drops
both wires and the server's subscriptions.

The PING of a flush made while negotiating is `held` until the replacement's CONNECT and
replay are written; then it is written on its own. `RedialFailed` is a failure up to the
replay, which keeps what is held. `HeldWriteFailed` is a failure of that last write, with the core
already Connected: `flush_reconnect_pending` has emptied the buffer (`connection.ml:1177-1188`)
and `retry_reconnect` keeps the barriers (`1251`, `1650`), so they wait for PONGs nobody
has asked for. `dropped` counts them, until the next loss of a connection forgets all barriers.
`Connect` is the case in which everything is written.

One thing the owner does is outside the session: it drops the output of a drain that it resumes
after a reconnect (`connection.ml:1773-1786`). `NoOrphan` and `DrainLosesNothing` suppose a
caller that writes every output; what happens otherwise is the subject of
`connection_drain_barrier`.

### Connection

`conn` is the record `t` of `connection.ml`; its functions are operators on that record
under their own names, and use the operators of `Client` for every transition. An
action is one turn of `owner_loop`: a command, a batch of input with or without its
end, a failed read, a reconnect or handshake timer, the last branch of `apply_timer`
for any set of calls whose deadline has passed, and the release of the switch. A turn
is atomic because callers can only append to the work queue meanwhile. What the
outside decides is drawn when a turn starts (`Starts`): after how many writes the
transport breaks, whether a dial succeeds, whether a subscriber's queue takes a message.
It is forgotten when the turn ends (`Settled`). A loop over a hash table takes the sids in
order (`OverSids`).
`Issue` is `send` and `Cancel` the clean-up of a caller that is cancelled. `answers` and
`setups` collect what each promise is resolved with, as sequences, so that a second
resolution is visible; `accepted` and `handled` are histories of messages.

When a transport goes, the server may have handled any prefix of what was written.
The reconnect buffer counts operations instead of bytes. The model has one INFO, so
that negotiation is left to `ClientSession`; TLS, authentication and the reader fiber
appear as handshakes and reads that may fail. The event stream never refuses an event
here: that it does so only for a slow reader, and ends the connection, is the subject
of `EventStream`.

### EventStream

An event is its kind. `finish` is one action because it does not wait. A control
event that does not fit ends the connection with the terminal event, as the code's
`finish` with `Slow_consumer` does.

### Subscription

One handle; the rest of the connection is what the handle meets: whether it is in the
table, whether a transport is attached, commands queued about it, and the PONG of its
drain. `signal` counts the resolved recovery promises: a fiber that waits on promise n
is woken when `signal > n`.

### EndpointPool

Endpoints are model values. `skipped` counts the passes begun since a candidate was
last dialled; it is reset when the candidate leaves the order.

### The interoperability suite

The peers are straight-line code: every function `run...Peer` of the Go program, its OCaml
counterpart and the driver's watcher is a sequence of calls, with loops only over the
rounds (unrolled by `Loop`) and around one retried call. So a process is a program, a
sequence of instruction records in the order of the code, and a position in it (`pc`).
An instruction that waits for another one's effect is enabled when the effect is there;
a wrong payload, sequence or counter is a failure of the process. A whole function
reads as its protocol, for example `GoServiceRound`: request, own counter, other's
counter, no errors, round barrier, reply, flush, then the failover.

`Interop` gives the instructions their meaning. `client[p]` is a connection: what was sent and
not read by the server, what the server wrote, the subscriptions on both sides, the
callbacks' queues and results, lifecycle events (one token per kind in Go, an ordered
stream in OCaml), service counters (raised after the reply, as `micro` does). `keyValueControl`
and the plain channels of capacity one are different kinds of subscription. `js` is
the stream: log, leader, which servers hold all of it (`full`) or are reported current
(`cur`), and one consumer per peer. `files` are the signal, ready, leader, survivor,
barrier and failure files. `setting` holds the programs of the mode, chosen in `Init`.

Modelled from how the suite uses it, as the servers and nats.go are not in this
repository:

- a server handles what a client sent in order; when it is killed, what it had written
  is still read (`Lose` waits for it) and what it had not read is lost;
- a client that comes back replays its subscriptions before anything sent meanwhile;
- a stream message is acknowledged when a majority holds it, only a server that holds
  every acknowledged message is elected, the followers catch up together, JetStream
  API calls and deliveries are atomic, a leader steps down on its own only as a fault;
- acknowledgements of a push consumer reach the disk later than their confirmation;
- an ordered consumer lives on one server, and OCaml abandons its own whenever its
  connection is lost.

Time. Timeouts of the suite (10 s to minutes) are long against everything else: `GiveUp`
lets one fire only when another process has failed or nothing else can happen. Only the
short attempts of `await_go_ready` may expire early (`Expire`). A driver's sleep or
readiness wait before a kill is `Pause`: it ends when everything under way has settled;
this is what the push restart depends on (`AcksSurvive` fails without it). The three
seconds Go sleeps after a leader change are not modelled, and not needed. Servers
killed or started in one loop of the driver are killed or started in one step. The
resolver that answers the leader file is the first part of the watcher's program.

`Fault` lets any call on a connection or server fail once for a reason outside the model, so
that the failure paths (marker file, deferred close, the others' timeouts) are run.

`Rounds` is what `docs/plan.md:1214` promises of a failover run: "gates each kill on a round
barrier after both peers have validated their requests and counters". `Interop` implements
it with `round` the reconnections a peer has taken, `validated` that it makes no further
check before the next one, and `killed` the watcher's kills.

## 3. Runs

| Run | Question |
|---|---|
| `session` | over two losses and failed redials: is a subscription with a quota served and bounded, does no server subscription outlive the core's, are as many PONGs on their way as barriers wait (but for held output whose write failed), does a liveness close mean real silence, does a settled drain lose nothing? |
| `event_stream` | can the owner block, the end be lost, a stale event slip into a reconnect? |
| `subscription` | are the counts exact and within the queue at the limits, is the end last and every detachment told? is each drain settled once and by whom? does every caller return? |
| `endpoint_pool` | is the dial order always a permutation, and is nobody starved? |
| `connection_flush` | are publishes sent once and in order over two losses, is every promise resolved once, does a flush cover what came before it, do the owner's barriers stay matched to the core's queue with liveness PINGs between them? |
| `connection_calls` | do requests leave nothing behind, however they end, does an inbox always precede its message, does every call return? |
| `connection_subscription` | do handles, core subscriptions and drains agree? |
| `interop_core` | modes core, service, service-failure, service-parent-close, reconnect and service-reconnect: does a correct client always pass, does every run end also after a fault, are kills gated as `Rounds` says, does a dying connection take only what is repeated? |
| `interop_failover` | fourteen JetStream modes: does a correct client always pass, do confirmed acknowledgements survive, is recovery declared only when restarted servers are current? |
| `interop_management` | a disagreement, see section 6 |
| `connection_lost_ping`, `connection_drain_barrier` | disagreements between the documentation and the code, see section 6 |

Bounds. The session follows one subscription, on a subject that can be encoded or one that
cannot, with a quota of two and two messages per transport: a quota is met before, during
and after a loss. Two losses let a recovery be interrupted and repeated. With two
subscriptions, one loss and one message per transport the same properties hold (2.6 million
states); the run keeps the second loss instead, as the runs of `Connection` have
several subscriptions, requests and drains side by side over the same operators. Three operations in flight let a PONG stand behind a message
and another PONG. The event stream is checked at capacity two, which is both exceeded and
drained within the reserved eight slots, and proved for every capacity. Every bound is a
named constant in a guard.

`Connection` runs with two or three calls, two lost transports (one in
`connection_calls` and `connection_subscription`), two attempts per reconnect, a command queue
and a reconnect buffer of two: a loss can strike the handshake that replaces an earlier
one, a queue can be full, and two barriers and a message can be in flight. A turn
breaks after at most five writes, which is as many as a replay with two requests and a
buffer has. Calls are symmetric; the run with a liveness property does not use that.

The suite runs with three listed servers, so two failovers (`Cycles`), where the shell's
default is also three; a burst of four requests stands for eight, since the endpoint
overflows at the third. Streams and consumers are placed on one of two servers (`Hosts`),
the one that is killed first and another. One early timeout per run (`MaxRetries`) and one
fault. Faults are drawn in the modes of `FaultyModes`, which between them use almost every kind
of call. `ordered_multi` and `kv_multi` have the outage of `object_multi` and are left
out of the run for its size; `ordered_management` is run by `interop_management` only.

Deadlock is not checked where the model may stop: a closed connection with its queues
read takes no further step.

Fairness. `EventStream` assumes only that the application keeps reading.
`Connection` assumes that the owner takes queued commands and that a deadline that has
passed is noticed; it assumes nothing of the server, of dials or of the transport, but
that a write returns or fails. Its fairness is weak fairness with the enabling
conditions written out, which TLC evaluates much faster than ENABLED.
`Subscription` assumes that the owner takes queued commands (its loop waits on the
work queue), that a deadline that has passed is noticed (`schedule_timer`), and that a
woken fiber runs (Eio schedules every runnable fiber). `Interop` assumes that each
process runs, that the servers and each client's read loop do, that each callback has a
goroutine or fiber of its own (so that a counter that is polled over and over starves
nobody), and that what can happen only finitely often happens: one weak fairness condition
covers those together. It does not assume that requests are answered: timeouts end what
is not. The safety properties need none of it.

## 4. Proofs

Every safety property and action property that the runs `session`, `event_stream`,
`subscription` and `endpoint_pool` check is a theorem, and so are `AnsweredOnce` and
`BarriersMatchCore` of `connection_flush`, for every value of the constants: any subjects,
quotas, limits, endpoints, and any of the bounds that keep TLC's state spaces small. What
the proofs assume is what TLC evaluates on every run: the `ASSUME`s of the modules. They give the constants their types, ask that `None` is none of the
values it stands beside, that capacities and `MaxPings` are at least one and that the
seeds are not empty; and the queue's capacity does not exceed the limit on pending messages,
where there is one, because the code bounds the queue by the smaller of the two
(`connection.ml:392`).

### The core and its session

Each invariant below is proved from the earlier ones, in this order, in `ClientSession_proofs`.

- `Inv` is `TypeOK` and `CoreConsistent`. `CoreConsistent` is
  not inductive alone: what a received operation does depends on what the server may
  send (`Env`) and on the types of the core (`Good`). Each function of `client.ml` maps a
  good core to a good core or reports an error with the core unchanged, so that a step
  of the session needs one line.
- `WireInv`: what is on the wire is typed and names allocated
  sids; before CONNECT only INFO, PING and PONG travel and PINGs of flushes are held back;
  nothing is held after it, and nothing is in flight when the transport is down. The
  module first says, by lemmas `...Moves`, what each action does to core and wire, so that
  no later proof opens a function of `client.ml`; `Steps` and `SubscriptionSteps` sort the
  actions by what an invariant can see of them.
- `Barriers` is `BarriersAligned` and that the liveness PINGs counted and the barriers in
  `dropped` are together no more than wait. It needs `WireInv`: a failed redial keeps the
  barriers, and loses none of their PINGs because none is on the wire then; only a failed write
  of what was held loses them, and `dropped` grows by as many. From the second part
  follows `StaleMeansUnanswered`: the PINGs it counts are not those that were lost.
- `QuotaInv` says of each sid that what was received and
  what remains add up to what was granted. `QuotaHonoured` alone says nothing of what remains.
- `AllAccounted`: for each sid the last word on the wire ends it, or it has no word there
  and the server has it with a maximum or not at all, or the core still keeps it without a
  quota and is not about to forget it. Every way in which the core forgets a subscription
  writes the UNSUB first. `NoOrphan` is the case of an empty wire.
- `AllFed`: the server's entry as it will be once the wire is handled, with the messages
  on their way, gives each subscription the core keeps all that remains of its quota, unless a
  drain waits for it. The entry in the future is what makes it inductive: the replay sends the
  remaining number to a server that starts at zero, an auto-unsubscribe the total to one
  that has counted from the start. `SubscriptionServed` is again the empty wire.
- `DrainsCut`: every message to a subscription that the k-th barrier drains is ahead of the
  k-th PONG, and the server has ended the subscription, or will, before it answers the
  k-th PING. That a new barrier is behind every PING and PONG on its way follows from
  `BarriersAligned`, which bounds their number; lost PINGs only make its own PONG come later. A connection drain writes no
  UNSUB for what is being drained already; it relies on those barriers, which are ahead of its
  own, so the invariant also says that what is in `draining` has one. `DrainLosesNothing` is
  the step that reads the first PONG.

Counting messages and PINGs needs induction over the sequences in flight, and the library
offers none that can be used (see below). `SequenceLemmas` does without: a count is the cardinality of a
set of positions, and `CountAppend`, `CountTail` and `CountConcat` follow from bijections
between those sets. `FlattenSeq`, which joins the replay, is a recursive function over the
lists: a set of natural numbers has a least element (`LeastNatural`, from the library's
well-founded order), and the first place at which a claim about prefixes fails
contradicts the definition.

### The owner fiber

`AnsweredOnce`: over any number of calls, losses, failed replays, timeouts and
cancellations, the owner resolves the promise of a call at most once. In the code a second
resolution raises in the one fiber that serves everybody; what prevents it is spread over
five tables and a flag, and no function checks it.

The property is not inductive: that a promise is resolved once says nothing of who still
holds it. The invariant (`Inv` of `Connection_proofs`) is a ledger, `LedgerOf(k, w, b, t)`: the
calls k made so far, the commands w and barriers b that are still to be served, and the
record t. Of each promise that is not resolved it says where it is kept, and that it is
kept in one place:

- `Promises`: nothing has been resolved twice.
- `WorkInv`: a queued command belongs to a call of its kind; no other command, request or
  barrier has that call, and it has not been answered. The command of a drain
  may come up after its handle was closed and the drain was failed; while the handle is open,
  it is the handle's.
- `RequestInv`: a request waits under one sid and has not been answered.
- `BarrierInv`: a flush or drain has one barrier; if it has been answered, as a flush that
  timed out and keeps its place for the PONG, it is marked completed.
- `DrainInv`: a drain that a barrier, a resumption or the table of drains still refers to
  is the waiter of its handle, or has completed. The same drain may be in all three.
- `HandleInv`: the pending drain of a handle has not been resolved; completing it closes the
  handle; while the handle is open, a drain that has not been answered is the waiter or
  has its command in the queue. This is what lets a cancelled drain be failed without
  looking for its command.
- `SidInv`, `IdleInv`: sids in the tables were given by the core; what completed has been
  answered, and nothing is kept of a call not made.

w and b are parameters because the functions of the owner work through queues: the ledger of
`finish` halfway through `fail_pending_commands` is the one for the commands that are left. The
functions are taken in the order of `connection.ml`, one lemma each: it keeps the ledger, and
what it may not touch (`Quiet`, `DrainFrame`, `Appendable` and others). A turn is then the
composition of its functions, errors included, and an action is one turn.

The loops of the owner are folds. A theorem that takes an operator as parameter cannot be
instantiated by the provers, but a module can: `FoldLemmas` proves induction over a fold for
CONSTANT operators `op` and `R`, and `Connection_proofs` instantiates it once for each loop
(closing handles, failing barriers, resuming drains, giving requests up and so on).

`BarriersMatchCore` (`ConnectionBarriers_proofs`): the owner keeps, in `barriers`, whose promise a PONG resolves; the core
keeps, in `pending_pings`, what each PONG is for. The two queues are in different modules and
are joined by an event without a payload (`Flush_completed`): if they ever differ by one
place, every later flush returns for the barrier of another. `Agree` says that they do not: the
origins that are not liveness PINGs have the barriers' kinds and sids in the same order. The
wire is not part of it: that the PING of an origin may be lost is shown by
`connection_lost_ping`. It
is stated as an order-preserving placement, because what is filtered out of a sequence is a
recursive function of it, of which the provers see nothing.

The inductive invariant is `Inv`, the ledger, with `Matched(conn)`: `Agree` and the types of
the origins, unless the connection is closed. The ledger is needed for the types of the
tables, which make the loops finite, and for the kinds and shapes of what is in them. Then:

- Most functions cannot disturb it, and need no more than a frame. `Within(t, u)` is for those
  that only take entries off tables (closing handles, failing requests, a write that fails),
  `Alike(t, u)` for those that may add to them; both leave barriers, origins and `closed` alone.
- A received operation either leaves the match with any barriers (`Keeps`: a liveness PONG at
  the head, a PING, a message that meets its quota) or takes the first origin and reports
  `Flush_completed` (`Settles`); the owner then drops the first barrier.
- `flush`, `drain` and the drain of a subscription put an origin and a barrier at the end of
  both (`AskedMatched`, `DrainWithMatched`). A command that the core refuses, and a PING that
  cannot be written, add to neither.
- A timer answers a flush that is late but leaves its place in the queue (`RetainedAll`),
  since its PONG may still come; a drain that is late ends the connection.
- A loss empties both, in `recover_transport`; an attempt that fails before the replay finds
  them as it left them.

### The other components

`EventStream_proofs`: the inductive invariant relates the length of the queue to what has
been pushed since the loss, so that the eight reserved slots suffice (`NeverBlocks`,
`OneReconnectReserved`); `LastItem` says what the last item may be, which makes a
replacement contiguous.

`Subscription_proofs`: `QueueInv` adds to `PendingExact`, `DoneIsLast` and `DetachmentTold`
who may exceed the capacity (`Room`: one slot for a queued Recovery, one for a Done that
has not been read), that at most one Recovery is queued, and when Done may be in the queue.
`DrainInv` adds to `DrainOwed` whose promise is pending and that it has not been resolved.
Every action is shown to be one of five kinds of `QueueStep` first. The byte count is a
running total over the queue; that taking the head subtracts its size follows from
the uniqueness of running totals.

`EndpointPool_proofs`: `PoolInv` says the order is a permutation, seeds and discovered
endpoints apart. `EveryCandidateTried` is proved by an account: `TurnInv` lets a candidate
have been passed over at most once for every endpoint that does not stand ahead of it in
the order, and pays in advance for the pass under way (`Allowance`). Dialling an endpoint
and moving it to the end gives every other candidate one less ahead of it.

### Only model-checked

- Liveness (`EndIsSeen`, `DrainReturns`, `RecoveryNotMissed`, `CallsReturn`, `RunEnds`): the
  prover does not treat ENABLED and fairness.
- The other properties of `Connection`. `SentInOrder` and `FlushCovers` relate the owner's
  tables to the wire, `InboxFirst` and `InterestAgrees` to the server, `HandlesMatchCore` to the
  core's subscriptions. Each needs, beside the ledger, what every transition of `Client` does to
  the field in question when a write fails in the middle of a turn, and the bytes that are in the
  buffers and on the wire as well.
- The interoperability suite, its refinement of `Rounds` included: the programs are data, a proof
  would be an enumeration of them, which is what TLC does.
- What a recursive definition computes for every input, except by the two ways used here: a
  least counterexample on positions (`SequenceLemmas`) and an instance of a module of lemmas
  about a constant operator (`FoldLemmas`). The library's own induction theorems take an
  operator as parameter, which the installed provers cannot instantiate.

## 5. Plan

1. More proofs about `Connection`, from the ledger: its types, and `HandlesMatchCore`, which
   relates the handles to the core's subscriptions.
2. JetStream's client in `lib/eio`: pull batches, the consume loop with heartbeats, ordered
   consumers with gaps and re-creation, asynchronous publishing with its in-flight bound.
3. `await_reconnect`, `request_msg_retry` and the owner's cancellation inside a turn.

## 6. Findings

Three are shown by a run:

- `connection_lost_ping`: the reconnect buffer is cleared before it is written
  (`connection.ml:1185`). When that write fails, the PING of a flush is lost while the
  flush and its barrier are kept for the next attempt: it times out, or takes the PONG
  of a later flush. `connection.mli:298-300` promises the PING behind the handshake.
- `connection_drain_barrier`: a drain resumed after a reconnect writes neither UNSUB nor
  PING (`connection.ml:1777`), where `connection.mli:150-152` says it reissues its
  barrier. It ends by timeout, or by taking a PONG meant for a flush, and the server
  keeps the replayed subscription.

- `interop_management`: the driver kills and restarts all three servers, the first one
  first (`runtest-interop-jetstream-cluster.sh:827-860`), but the OCaml test accepts only
  the second and third after it (`:1097`). If OCaml comes back to the first, as a correct
  client may, the test waits for a name that never comes and fails. `docs/plan.md:313-316`
  lists the mode as passing; whether it does depends on timing.

Others were met while modelling and follow from the definitions:

- A drain fails when the replacement is lost again before it is resumed
  (`connection.ml:1769`); `connection.mli:150-151` says it stays pending.
- When a replacement's INFO and its end come in one batch, later publishes are checked
  against a state that never was connected and refused (`connection.ml:1525`), where
  `connection.mli:205-206` promises the buffer.
- `docs/design.md:559-560` says a loss fails requests in flight; the code keeps them, as
  `docs/design.md:650-652` asks.
- `client.mli:78-82` says that Connect emits the wire operations of flush barriers
  recorded while negotiating. The code emits the PING at once (`client.ml:651`) and
  `test/test_client.ml:204` expects so.
- A subscription made while reconnecting is not encoded until the replay; one that
  cannot be encoded fails the handshake (`client.ml:530`), where `connection.mli:238-240`
  says its SUB is emitted.
- `endpoint.mli:79-81` says a preferred endpoint that is no longer known is removed
  after it fails; `retain_preferred` has put it back among the discovered ones, so it is
  kept (`endpoint.ml:325`).

Behaviour worth knowing that no document speaks of, and that the properties leave out:
a quota set after a reconnect is sent as the total to a server that counts from the
replay (`client.ml:578`), so that the core ends the subscription first and the server keeps
it until it has sent as many again, which is why `NoOrphan` speaks of subscriptions
without a quota; Go looks at the advertised servers once
(`jetstream_ordered_reconnect.go:536`) and the key-value peer reads the first generation
after it has released OCaml (`jetstream_kv_ordered_reconnect.go:406`), both safe only by the
driver's pause;
an unsubscribe that fails closes the handle and leaves the core's subscription
(`connection.ml:1848`, `2103`); an auto-unsubscribe whose quota is already met leaves
the handle open until another message is delivered (`connection.ml:1142`).

## 7. Not modelled

Bytes, JSON and string validation (`codec`, `packet`, `header`, `subject`, `info`,
`config`) and sockets and TLS (`eio-system`) are not modelled: operations are whole and the
transport is a FIFO that can be lost. The OpenTelemetry adapter only observes.

The JetStream, key-value, object store and service clients of `lib/eio` are seen only from
outside, through the calls the acceptance executables make; see the plan.

Of the Go peer, the single-server modes `jetstream`, `jetstream-admin`, `jetstream-kv` and
`jetstream-object` (`jetstream.go`, `jetstream_admin.go`, `jetstream_kv.go`,
`jetstream_object.go`) are left out. Both sides take turns over one server that never fails;
there is one order of steps, and what they check is what nats-server's stores contain, which
is not in this repository. Credentials and TLS (`connectOptions`), command-line options and
the comparisons of headers, names and metadata are left out too: they do not depend on
the order of events.
