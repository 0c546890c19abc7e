---------------------------- MODULE Subscription ----------------------------
(***************************************************************************)
(* One subscription handle: module Subscription of lib/eio/connection.ml,  *)
(* shared by the owner fiber that fills and ends it, a consumer fiber that *)
(* reads it, fibers that drain or unsubscribe it, and a fiber that waits   *)
(* for its recovery.                                                       *)
(*                                                                         *)
(* Fibers of one Eio domain switch only where they wait, so each action is *)
(* a fiber's run up to its next wait.  The owner's side of the connection  *)
(* is kept to what this handle meets: whether the handle is in its table,  *)
(* whether a transport is attached, the commands queued for the handle and *)
(* the PONG its drain waits for.                                           *)
(***************************************************************************)
EXTENDS Integers, Sequences, FiniteSets, SequencesExt

CONSTANTS
  None,
  Capacity,        \* the queue bound: min(subscription_capacity, limit)
  MessagesLimit,   \* pending_messages_limit, or None
  BytesLimit,      \* pending_bytes_limit, or None
  Sizes,           \* payload sizes
  Drainers,        \* fibers that call drain
  MaxLosses        \* bound: transport losses

ASSUME LimitsAssumption ==
  /\ Capacity \in Nat \ {0} /\ Sizes \subseteq Nat
  /\ MessagesLimit \in Nat \cup {None} /\ BytesLimit \in Nat \cup {None}
  /\ MessagesLimit # None => Capacity <= MessagesLimit
  /\ MaxLosses \in Nat

\* How a handle or a drain ends.
Outcomes == {"Ok", "Closed", "Disconnected", "Not_connected", "Slow_consumer",
             "Command_queue_full", "Timeout", "Io"}

ASSUME NoneAssumption ==
  None \notin Nat /\ None \notin Drainers /\ None \notin Outcomes \cup {"armed"}

VARIABLES
  queue,            \* items: Message, Recovery or Done
  pending_messages, pending_bytes,
  terminal,         \* the error the handle ended with, or None
  done_seen,
  recovery,         \* [kind : {"Attached", "Detached"}, generation]
  recovery_queued,
  signal,           \* number of recovery signals resolved so far
  drain_requested,
  drain_promise,    \* the pending drain's promise (its drainer), or None
  drain_waiter,     \* the armed waiter: None or "armed"
  drain_result,     \* None, "Ok" or the error
  replay_on_reconnect, \* kept across reconnects, or closed by one
  live,             \* the handle is in the owner's table
  attached,         \* a transport is up and the subscription replayed
  work,             \* commands queued for the owner about this handle
  barrier,          \* the drain's PING is unanswered on this transport
  losses,
  drainer,          \* drainer -> "idle", "waiting" or its result
  resolved,         \* history: drainer -> times its promise was resolved
  watcher,          \* a fiber in await_recovery: [waiting, from, signal]
  untold            \* history: a detach the consumer has not been told of

queueVars    == << queue, pending_messages, pending_bytes, done_seen >>
recoveryVars == << recovery, recovery_queued, signal, watcher, untold >>
drainVars    == << drain_requested, drain_promise, drain_waiter, drain_result,
                   drainer, resolved >>
ownerVars    == << replay_on_reconnect, live, attached, work, barrier, losses >>
vars == << queueVars, recoveryVars, drainVars, ownerVars, terminal >>

active == terminal = None

Message(size) == [kind |-> "Message", size |-> size]
Recovery      == [kind |-> "Recovery", size |-> 0]
Done          == [kind |-> "Done", size |-> 0]

Init ==
  /\ queue = <<>> /\ pending_messages = 0 /\ pending_bytes = 0
  /\ terminal = None /\ done_seen = FALSE
  /\ recovery = [kind |-> "Attached", generation |-> 0]
  /\ recovery_queued = FALSE /\ signal = 0
  /\ drain_requested = FALSE /\ drain_promise = None
  /\ drain_waiter = None /\ drain_result = None
  /\ replay_on_reconnect \in BOOLEAN
  /\ live = TRUE /\ attached = TRUE /\ work = <<>> /\ barrier = FALSE
  /\ losses = 0
  /\ drainer = [d \in Drainers |-> "idle"]
  /\ resolved = [d \in Drainers |-> 0]
  /\ watcher = [waiting |-> FALSE, from |-> recovery, signal |-> 0]
  /\ untold = FALSE

-----------------------------------------------------------------------------
(* Ending the handle.                                                      *)

\* Mutant: Done is dropped at a queue that is full.
queue_done_if_room == IF Len(queue) < Capacity THEN Append(queue, Done) ELSE queue

queue_done == Append(queue, Done)

\* Mutant: nobody who waits for a recovery is woken.
signal_recovery_none == signal

signal_recovery == signal + 1

\* terminate and terminate_after_drain: Done goes in once, and whoever waits
\* for a recovery is woken.
End(error) ==
  /\ terminal' = IF active THEN error ELSE terminal
  /\ queue' = IF active THEN queue_done ELSE queue
  /\ signal' = IF active THEN signal_recovery ELSE signal

\* Settle the pending drain, if any, with result.  Every fiber that shares
\* the promise returns.
SettleDrain(result) ==
  /\ drain_waiter' = None
  /\ drain_promise' = None
  /\ drain_requested' = FALSE
  /\ drain_result' = IF drain_promise # None THEN result ELSE drain_result
  /\ resolved' = [d \in Drainers |->
                    resolved[d] + IF d = drain_promise THEN 1 ELSE 0]
  /\ drainer' = [d \in Drainers |->
                   IF drain_promise # None /\ drainer[d] = "waiting"
                   THEN result ELSE drainer[d]]

\* Mutant: the handle ends and its drain is forgotten.
Close_unsettled(error, result) ==
  live' = FALSE /\ End(error) /\ UNCHANGED drainVars

\* The handle leaves the owner's table and ends; a drain under way is settled.
Close(error, result) ==
  /\ live' = FALSE
  /\ End(error)
  /\ SettleDrain(result)

close_subscription(error) == Close(error, error)

\* The on_complete of an armed waiter ends the handle with Closed.
complete_drain(result) == Close("Closed", result)

\* fail_pending_drain: an armed waiter ends the handle, an unarmed promise
\* is only settled.
fail_pending_drain(error) ==
  IF drain_waiter # None THEN complete_drain(error)
  ELSE SettleDrain(error) /\ UNCHANGED << live, terminal, queue, signal >>

-----------------------------------------------------------------------------
(* The owner fiber.                                                        *)

\* Mutant: the size of the message itself is not counted.
Fits_before(size) ==
  /\ MessagesLimit # None => pending_messages < MessagesLimit
  /\ BytesLimit # None => pending_bytes <= BytesLimit
  /\ Len(queue) < Capacity

Fits(size) ==
  /\ MessagesLimit # None => pending_messages < MessagesLimit
  /\ BytesLimit # None => pending_bytes <= BytesLimit - size
  /\ Len(queue) < Capacity

push(size) ==
  /\ live /\ attached
  /\ IF active /\ Fits(size)
     THEN /\ queue' = Append(queue, Message(size))
          /\ pending_messages' = pending_messages + 1
          /\ pending_bytes' = pending_bytes + size
          /\ UNCHANGED << done_seen, terminal, recoveryVars, drainVars,
                          ownerVars >>
     ELSE \* slow consumer
          /\ close_subscription("Slow_consumer")
          /\ UNCHANGED << pending_messages, pending_bytes, done_seen,
                          recovery, recovery_queued, watcher, untold,
                          replay_on_reconnect, attached, work, barrier,
                          losses >>

\* Mutant: a detachment is not queued when the queue is full.
queue_recovery_if_room ==
  IF recovery_queued \/ Len(queue) >= Capacity THEN queue
  ELSE Append(queue, Recovery)

queue_recovery == IF recovery_queued THEN queue ELSE Append(queue, Recovery)

\* detach, from recover_transport: one Recovery item at a time is queued.
detach ==
  /\ recovery' = [recovery EXCEPT !.kind = "Detached"]
  /\ signal' = signal_recovery
  /\ recovery_queued' = TRUE
  /\ queue' = queue_recovery
  /\ untold' = TRUE

\* A transport loss.  A handle that is not replayed is closed; the barrier
\* of a drain is lost with the transport and the drain stays armed.
TransportLost ==
  /\ attached /\ losses < MaxLosses
  /\ attached' = FALSE /\ losses' = losses + 1 /\ barrier' = FALSE
  /\ IF live /\ replay_on_reconnect
     THEN detach /\ UNCHANGED << live, terminal, drainVars, watcher >>
     ELSE IF live
     THEN close_subscription("Disconnected")
          /\ UNCHANGED << recovery, recovery_queued, watcher, untold >>
     ELSE UNCHANGED << live, terminal, drainVars, recoveryVars, queue >>
  /\ UNCHANGED << pending_messages, pending_bytes, done_seen,
                  replay_on_reconnect, work >>

\* A recovery: attach, and a command to resume a drain still armed.
Reconnected ==
  /\ ~attached
  /\ attached' = TRUE
  /\ recovery' = IF live THEN [kind |-> "Attached",
                               generation |-> recovery.generation + 1]
                 ELSE recovery
  /\ signal' = IF live THEN signal_recovery ELSE signal
  /\ work' = IF drain_waiter # None THEN Append(work, "Resume") ELSE work
  /\ UNCHANGED << queueVars, recovery_queued, watcher, untold, drainVars, live,
                  replay_on_reconnect, barrier, losses, terminal >>

\* Drain_subscription: the waiter is armed; connected, UNSUB and PING are
\* written, while reconnecting the barrier waits for the recovery.
OwnerDrain ==
  /\ work # <<>> /\ Head(work) = "Drain"
  /\ work' = Tail(work)
  /\ IF live
     THEN /\ drain_waiter' = "armed"
          /\ barrier' = attached
          /\ UNCHANGED << queue, terminal, signal, live, drain_requested,
                          drain_promise, drain_result, drainer, resolved >>
     ELSE fail_pending_drain("Closed") /\ UNCHANGED barrier
  /\ UNCHANGED << pending_messages, pending_bytes, done_seen, replay_on_reconnect,
                  recovery, recovery_queued, watcher, untold, attached, losses >>

\* The same command when that write fails: the drain armed just now fails,
\* the handle ends, and the transport is lost.
OwnerDrainUnwritten ==
  /\ work # <<>> /\ Head(work) = "Drain"
  /\ work' = Tail(work)
  /\ live /\ attached /\ losses < MaxLosses
  /\ Close("Closed", "Io")
  /\ attached' = FALSE /\ losses' = losses + 1 /\ barrier' = FALSE
  /\ UNCHANGED << pending_messages, pending_bytes, done_seen, replay_on_reconnect,
                  recovery, recovery_queued, watcher, untold >>

\* Resume_subscription_drain: a waiter that has completed is left alone, and
\* without a connected core the drain fails and the handle is closed.
OwnerResume ==
  /\ work # <<>> /\ Head(work) = "Resume"
  /\ work' = Tail(work)
  /\ IF drain_waiter = None
     THEN UNCHANGED << queue, terminal, signal, live, drainVars, barrier >>
     ELSE IF attached
     THEN barrier' = TRUE
          /\ UNCHANGED << queue, terminal, signal, live, drainVars >>
     ELSE close_subscription("Not_connected") /\ UNCHANGED barrier
  /\ UNCHANGED << pending_messages, pending_bytes, done_seen, replay_on_reconnect,
                  recovery, recovery_queued, watcher, untold, attached, losses >>

\* Cancel_subscription_drain, which looks the handle up in the table.
OwnerCancel ==
  /\ work # <<>> /\ Head(work) = "Cancel"
  /\ work' = Tail(work)
  /\ IF live THEN fail_pending_drain("Closed")
     ELSE UNCHANGED << queue, terminal, signal, live, drainVars >>
  /\ UNCHANGED << pending_messages, pending_bytes, done_seen, replay_on_reconnect,
                  recovery, recovery_queued, watcher, untold, attached, losses, barrier >>

\* Unsubscribe: connected or not, the handle is closed.
OwnerUnsubscribe ==
  /\ work # <<>> /\ Head(work) = "Unsubscribe"
  /\ work' = Tail(work)
  /\ IF live THEN close_subscription("Closed")
     ELSE UNCHANGED << queue, terminal, signal, live, drainVars >>
  /\ UNCHANGED << pending_messages, pending_bytes, done_seen, replay_on_reconnect,
                  recovery, recovery_queued, watcher, untold, attached, losses, barrier >>

\* The PONG of the drain: the core has forgotten the subscription, so the
\* drain completes.
DrainFlushed ==
  /\ barrier /\ barrier' = FALSE
  /\ IF drain_waiter # None THEN complete_drain("Ok")
     ELSE UNCHANGED << queue, terminal, signal, live, drainVars >>
  /\ UNCHANGED << pending_messages, pending_bytes, done_seen, replay_on_reconnect,
                  recovery, recovery_queued, watcher, untold, attached, losses, work >>

\* Mutant: deadlines are checked only while a transport is attached.
drain_expires_attached == drain_waiter # None /\ attached

drain_expires == drain_waiter # None

\* The drain's deadline, set when the waiter is armed.
DrainTimeout ==
  /\ drain_expires
  /\ complete_drain("Timeout")
  /\ UNCHANGED << pending_messages, pending_bytes, done_seen, replay_on_reconnect,
                  recovery, recovery_queued, watcher, untold, attached, losses, work,
                  barrier >>

\* finish: the connection ends and takes the handle and the queued commands
\* with it; a command that never ran fails its drain.
Finish ==
  /\ live
  /\ close_subscription("Closed")
  /\ work' = <<>> /\ barrier' = FALSE /\ attached' = FALSE
  /\ losses' = MaxLosses
  /\ UNCHANGED << pending_messages, pending_bytes, done_seen, replay_on_reconnect,
                  recovery, recovery_queued, watcher, untold >>

-----------------------------------------------------------------------------
(* The consumer fiber: next and next_or_recovery differ only in whether a  *)
(* Recovery item is returned or skipped.                                   *)

\* Mutant: every item is taken for a delivery.
consumes_delivery_always(item) == TRUE

consumes_delivery(item) == item.kind = "Message"

next_or_recovery ==
  /\ ~done_seen /\ queue # <<>>
  /\ LET item == Head(queue)
     IN  /\ queue' = Tail(queue)
         /\ pending_messages' = IF consumes_delivery(item)
                                THEN pending_messages - 1
                                ELSE pending_messages
         /\ pending_bytes' = pending_bytes - item.size
         /\ recovery_queued' = (recovery_queued /\ item # Recovery)
         /\ untold' = (untold /\ item # Recovery)
         /\ done_seen' = (item = Done)
  /\ UNCHANGED << terminal, recovery, signal, watcher, drainVars, ownerVars >>

-----------------------------------------------------------------------------
(* Fibers that drain, cancel a drain or unsubscribe.                       *)

\* A first drain makes the promise and queues the command; a later one joins
\* it, or returns the recorded result; an ended handle needs no drain.
drain(d) ==
  /\ drainer[d] = "idle"
  /\ IF drain_promise # None
     THEN /\ drainer' = [drainer EXCEPT ![d] = "waiting"]
          /\ UNCHANGED << drain_requested, drain_promise, work >>
     ELSE IF drain_result # None
     THEN /\ drainer' = [drainer EXCEPT ![d] = drain_result]
          /\ UNCHANGED << drain_requested, drain_promise, work >>
     ELSE IF ~active
     THEN /\ drainer' = [drainer EXCEPT ![d] = "Ok"]
          /\ UNCHANGED << drain_requested, drain_promise, work >>
     ELSE \/ /\ live
             /\ drainer' = [drainer EXCEPT ![d] = "waiting"]
             /\ drain_promise' = d
             /\ drain_requested' = TRUE
             /\ work' = Append(work, "Drain")
          \/ \* the command queue is full: nothing stays requested
             /\ drainer' = [drainer EXCEPT ![d] = "Command_queue_full"]
             /\ UNCHANGED << drain_requested, drain_promise, work >>
  /\ UNCHANGED << queueVars, recoveryVars, terminal, drain_waiter, drain_result,
                  resolved, replay_on_reconnect, live, attached, barrier,
                  losses >>

\* The fiber that owns the promise is cancelled while it waits.
cancel_drain(d) ==
  /\ drainer[d] = "waiting" /\ drain_promise = d
  /\ drainer' = [drainer EXCEPT ![d] = "Cancelled"]
  /\ work' = Append(work, "Cancel")
  /\ UNCHANGED << queueVars, recoveryVars, terminal, drain_requested,
                  drain_promise, drain_waiter, drain_result, resolved,
                  replay_on_reconnect, live, attached, barrier, losses >>

\* An accepted request is a command; a refused one closes the handle at once.
unsubscribe ==
  /\ active /\ ~drain_requested
  /\ ~Contains(work, "Unsubscribe")
  /\ work' = Append(work, "Unsubscribe")
  /\ UNCHANGED << queueVars, recoveryVars, terminal, drainVars,
                  replay_on_reconnect, live, attached, barrier, losses >>

unsubscribe_refused ==
  /\ active /\ ~drain_requested
  /\ close_subscription("Command_queue_full")
  /\ UNCHANGED << pending_messages, pending_bytes, done_seen, replay_on_reconnect,
                  recovery, recovery_queued, watcher, untold, attached, work, barrier,
                  losses >>

-----------------------------------------------------------------------------
(* A fiber in await_recovery.                                              *)

await_recovery ==
  /\ ~watcher.waiting /\ active
  /\ watcher' = [waiting |-> TRUE, from |-> recovery, signal |-> signal]
  /\ UNCHANGED << queueVars, recovery, recovery_queued, signal, untold, terminal,
                  drainVars, ownerVars >>

\* The signal it holds is resolved: return, or wait on the next signal.
recovery_signalled ==
  /\ watcher.waiting /\ watcher.signal < signal
  /\ watcher' = IF ~active \/ recovery # watcher.from
                THEN [watcher EXCEPT !.waiting = FALSE]
                ELSE [watcher EXCEPT !.signal = signal]
  /\ UNCHANGED << queueVars, recovery, recovery_queued, signal, untold, terminal,
                  drainVars, ownerVars >>

-----------------------------------------------------------------------------

OwnerCommand == OwnerDrain \/ OwnerDrainUnwritten \/ OwnerResume \/ OwnerCancel
                \/ OwnerUnsubscribe

Next ==
  \/ \E size \in Sizes : push(size)
  \/ TransportLost
  \/ Reconnected
  \/ OwnerCommand
  \/ DrainFlushed
  \/ DrainTimeout
  \/ Finish
  \/ next_or_recovery
  \/ \E d \in Drainers : drain(d) \/ cancel_drain(d)
  \/ unsubscribe \/ unsubscribe_refused
  \/ await_recovery
  \/ recovery_signalled

\* The owner takes every command, its timer fires, and woken fibers run.
Fairness ==
  /\ WF_vars(OwnerCommand) /\ WF_vars(DrainTimeout)
  /\ WF_vars(recovery_signalled) /\ WF_vars(next_or_recovery)

Spec == Init /\ [][Next]_vars /\ Fairness

-----------------------------------------------------------------------------
(* Properties.                                                             *)

Items(kind) == {i \in DOMAIN queue : queue[i].kind = kind}

\* The bytes of the items up to each place, and of them all.
BytesUpTo(items) ==
  LET upto[n \in 0..Len(items)] ==
        IF n = 0 THEN 0 ELSE upto[n - 1] + items[n].size
  IN  upto

BytesIn(items) == BytesUpTo(items)[Len(items)]

Item == {Message(n) : n \in Sizes} \cup {Recovery, Done}

Recoveries == [kind : {"Attached", "Detached"}, generation : Nat]

\* Types of the handle's fields and of the owner's side.
TypeOK ==
  /\ queue \in Seq(Item)
  /\ pending_messages \in Nat /\ pending_bytes \in Nat
  /\ recovery_queued \in BOOLEAN /\ done_seen \in BOOLEAN
  /\ drain_requested \in BOOLEAN /\ untold \in BOOLEAN
  /\ replay_on_reconnect \in BOOLEAN /\ live \in BOOLEAN
  /\ attached \in BOOLEAN /\ barrier \in BOOLEAN
  /\ terminal \in Outcomes \cup {None}
  /\ recovery \in Recoveries /\ signal \in Nat /\ losses \in 0..MaxLosses
  /\ watcher \in [waiting : BOOLEAN, from : Recoveries, signal : 0..signal]
  /\ drain_waiter \in {None, "armed"}
  /\ drain_promise \in Drainers \cup {None}
  /\ drain_result \in Outcomes \cup {None}
  /\ work \in Seq({"Drain", "Resume", "Cancel", "Unsubscribe"})
  /\ drainer \in [Drainers -> Outcomes \cup {"idle", "waiting", "Cancelled"}]
  /\ resolved \in [Drainers -> Nat]

\* The accounting that push and the readers keep from both sides agrees with
\* the queue, both pending limits hold, and the owner never blocks on a
\* subscription: the two slots over the capacity hold the one Recovery and the
\* one Done that are not counted against it.
PendingExact ==
  /\ Len(queue) <= Capacity + 2
  /\ Cardinality(Items("Recovery")) = IF recovery_queued THEN 1 ELSE 0
  /\ pending_messages = Cardinality(Items("Message"))
  /\ pending_bytes = BytesIn(queue)
  /\ MessagesLimit # None => pending_messages <= MessagesLimit
  /\ BytesLimit # None => pending_bytes <= BytesLimit

\* Done ends the queue, so what was accepted before the end is read first,
\* and the end is never lost.
DoneIsLast ==
  /\ \A i \in 1..Len(queue) : queue[i] = Done => i = Len(queue)
  /\ ~active => done_seen \/ (queue # <<>> /\ queue[Len(queue)] = Done)

\* A consumer is told of every detachment after it happened, even when
\* detachments are coalesced into one item, and a handle the owner no longer
\* knows has ended: nobody waits on a queue that nobody fills.
DetachmentTold ==
  /\ untold => Recovery \in Range(queue)
  /\ live <=> active

\* A drain's promise is resolved once, and a drain that waits is one the
\* owner still knows of: a command or an armed waiter.
DrainOwed ==
  /\ \A d \in Drainers : resolved[d] <= 1
  /\ drain_promise # None => drain_waiter # None \/ Contains(work, "Drain")
  /\ \A d \in Drainers : drainer[d] = "waiting" => drain_promise # None
  /\ terminal # None => drain_promise = None /\ drain_waiter = None

\* Every drain call returns.
DrainReturns ==
  \A d \in Drainers : drainer[d] = "waiting" ~> drainer[d] # "waiting"

\* await_recovery does not sleep through a change of the recovery state.
RecoveryNotMissed ==
  (watcher.waiting /\ (~active \/ recovery # watcher.from))
    ~> (~watcher.waiting \/ (active /\ recovery = watcher.from))
=============================================================================
