----------------------------- MODULE Connection -----------------------------
(***************************************************************************)
(* The owner fiber of lib/eio/connection.ml: the one fiber that touches    *)
(* the protocol core and the transport, and serves every caller.           *)
(*                                                                         *)
(* The owner takes one item of work at a time: a command of a caller, a    *)
(* batch of input, a timer.  Its functions are sequential code, so they    *)
(* are operators here, on the record t of the source; an action is one     *)
(* turn of owner_loop.  Callers only append to the work queue meanwhile,   *)
(* which commutes with the turn.  What the outside decides during a turn   *)
(* is drawn when it starts: how many writes succeed before the transport   *)
(* breaks, whether a dial succeeds, whether a subscriber's queue is full.  *)
(*                                                                         *)
(* Left to other modules: the event stream (EventStream), the queue and    *)
(* readers of a subscription (Subscription), the candidates of a dial      *)
(* (EndpointPool).  TLS and authentication are part of a handshake that    *)
(* may fail.  A deadline is due whenever it is set.                        *)
(***************************************************************************)
EXTENDS Server

CONSTANTS
  Calls,           \* the calls callers make, each at most once
  Kinds,           \* the kinds of call under study
  Inbox,           \* the subject of request inboxes
  CommandCapacity, \* Config.command_capacity
  BufferSize,      \* Config.reconnect_buffer_size, in operations
  MaxAttempts,     \* Config.max_reconnect_attempts, or None
  MaxSent,         \* bound: messages the server sends
  MaxLosses        \* bound: transports that break

AllKinds == {"Publish", "Subscribe", "Ephemeral", "Unsubscribe",
             "Auto_unsubscribe", "Drain_subscription", "Request", "Flush",
             "Drain", "Close"}

ASSUME CallsAssumption ==
  /\ IsFiniteSet(Calls) /\ Kinds \subseteq AllKinds /\ None \notin Calls
  /\ Inbox \in Subjects \ Unencodable
ASSUME LimitsAssumption ==
  /\ {CommandCapacity, BufferSize, MaxSent, MaxLosses} \subseteq Nat
  /\ MaxAttempts \in Nat \cup {None}

VARIABLES
  conn,    \* the connection record
  call,    \* call -> [kind, sid, cancelled], once it has been made
  c2s,     \* operations written and not yet handled by the server
  s2c,     \* operations sent and not yet read
  server,  \* sid -> [max, sent]: the server's subscriptions
  owed,    \* inbox sids of the requests the server has yet to answer
  handled, \* history: calls whose message the server has handled, in order
  sent,    \* messages the server has sent
  losses   \* transports that broke

vars == << conn, call, c2s, s2c, server, owed, handled, sent, losses >>

Idle == [kind |-> "idle", sid |-> 0, cancelled |-> FALSE]

Everything == None   \* writes of a turn on a transport that does not break

\* The record of the source.  A barrier is [kind, call, sid]; a handle's
\* drain is the call whose promise is pending and waiter the one that has
\* been armed; completed holds the waiters with their completed flag set.
\* answers and setups collect what each promise was resolved with.  The
\* fields from writes on belong to the turn.
create ==
  [state |-> v, up |-> TRUE, ready |-> FALSE, closed |-> FALSE,
   reconnecting |-> FALSE, connect_sent |-> FALSE,
   handshake_deadline |-> TRUE, reconnect_deadline |-> FALSE,
   reconnect_attempts |-> 0,
   work |-> <<>>, barriers |-> <<>>, completed |-> {},
   requests |-> <<>>, handles |-> <<>>, subscriptions |-> {},
   subscription_drains |-> <<>>,
   reconnect_pending |-> <<>>, reconnect_publish_state |-> None,
   answers |-> [c \in Calls |-> <<>>], setups |-> [c \in Calls |-> <<>>],
   accepted |-> <<>>,
   writes |-> Everything, dial |-> TRUE, full |-> FALSE,
   out |-> <<>>, broke |-> FALSE, fresh |-> FALSE, error |-> None]

\* An error stops the code that follows it.
Then(t, next(_)) == IF t.error # None THEN t ELSE next(t)
Error(t, error) == [t EXCEPT !.error = error]
Cleared(t) == [t EXCEPT !.error = None]

resolve_unit(t, c, result) == [t EXCEPT !.answers[c] = Append(@, result)]
fail_waiter(t, c) == resolve_unit(t, c, "Error")
fail_waiters(t, cs) ==
  [t EXCEPT !.answers = [c \in Calls |-> IF c \in cs THEN Append(@[c], "Error")
                                         ELSE @[c]]]
resolve_setup(t, c, result) == [t EXCEPT !.setups[c] = Append(@, result)]

\* Where the source walks a hash table, the sids are taken in order.
OverSids(op(_, _), t, sids) ==
  MapThenFoldSet(LAMBDA sid, u : op(u, sid), t, LAMBDA sid : sid,
                 LAMBDA S : Max(S), sids)

With(f, x, y) == [z \in DOMAIN f \cup {x} |-> IF z = x THEN y ELSE f[z]]
Less(f, x) == [z \in DOMAIN f \ {x} |-> f[z]]

drop_request(t, sid) == [t EXCEPT !.requests = Less(@, sid)]

forget(t, sid) == [t EXCEPT !.state = forget_subscription(@, sid)]

-----------------------------------------------------------------------------
(* Writing.                                                                *)

\* One string per operation: a write that fails delivers nothing of it.
write_outputs(t, output) ==
  LET n == IF t.up THEN t.writes ELSE 0
  IN  IF n = Everything THEN [t EXCEPT !.out = @ \o output]
      ELSE IF Len(output) <= n
      THEN [t EXCEPT !.out = @ \o output,
                     !.writes = IF t.up THEN @ - Len(output) ELSE @]
      ELSE [t EXCEPT !.out = @ \o SubSeq(output, 1, n), !.writes = 0,
                     !.error = "Io"]

\* Mutant: the buffer is written and kept.
emptied_not(pending) == pending

emptied(pending) == <<>>

\* The buffer goes out as one string, of which a write that fails may
\* deliver any part.  It is cleared before it is written.
flush_reconnect_pending(t) ==
  LET output  == t.reconnect_pending
      cleared == [t EXCEPT !.reconnect_pending = emptied(@)]
  IN  IF output = <<>> THEN t
      ELSE IF t.writes = Everything
      THEN [cleared EXCEPT !.out = @ \o output]
      ELSE IF t.writes > 0
      THEN [cleared EXCEPT !.out = @ \o output, !.writes = @ - 1]
      ELSE [cleared EXCEPT !.out = @ \o Front(output), !.error = "Io"]

-----------------------------------------------------------------------------
(* Subscription handles and their drains.                                  *)

is_completed(t, c) == c \in t.completed

\* A waiter completes once; its on_complete ends the handle.
complete_drain_waiter(t, c, sid, result) ==
  IF is_completed(t, c) THEN t
  ELSE resolve_unit([forget(t, sid) EXCEPT
                       !.completed = @ \cup {c},
                       !.handles[sid].drain = None,
                       !.subscription_drains = Less(@, sid),
                       !.subscriptions = @ \ {sid}], c, result)

complete_drain(t, c, sid, result) ==
  complete_drain_waiter([t EXCEPT !.handles[sid].waiter = None,
                                  !.handles[sid].drain = None], c, sid, result)

fail_pending_drain(t, sid) ==
  LET h == t.handles[sid]
  IN  IF h.waiter # None THEN complete_drain(t, h.waiter, sid, "Error")
      ELSE IF h.drain # None
      THEN fail_waiter([t EXCEPT !.handles[sid].drain = None], h.drain)
      ELSE t

close_subscription(t, sid) ==
  IF sid \notin t.subscriptions THEN t
  ELSE fail_pending_drain([t EXCEPT !.subscriptions = @ \ {sid}], sid)

close_subscriptions(t, sids) ==
  OverSids(close_subscription, t, sids)

remove_finished_subscriptions(t) ==
  close_subscriptions(t, t.subscriptions
                           \ (DOMAIN t.state.subscriptions
                                \cup DOMAIN t.subscription_drains))

unsubscribe_sid(t, sid) ==
  LET tr == outgoing_unsubscribe(t.state, sid, None)
      w  == write_outputs(t, tr.output)
  IN  IF tr.error = "Unknown_subscription" THEN t
      ELSE IF tr.error # None THEN Error(t, tr.error)
      ELSE Then(w, LAMBDA u : [u EXCEPT !.state = tr.state])

\* Mutant: the server is not told.
unsubscribe_and_forget_locally(t, sid) == forget(t, sid)

unsubscribe_and_forget(t, sid) ==
  LET u == unsubscribe_sid(t, sid)
  IN  IF u.error = None THEN u ELSE forget(u, sid)

-----------------------------------------------------------------------------
(* The end of a connection.                                                *)

\* Mutant: a flush that has timed out is failed again.
still_waits_all(t, barrier) == TRUE

\* A flush that has timed out keeps its place but has been answered.
still_waits(t, barrier) == barrier.call \notin t.completed

\* Fail a barrier; a connection drain is never in the completed set.
fail_barrier(t, barrier) ==
  IF barrier.kind = "Subscription_drain"
  THEN complete_drain_waiter(t, barrier.call, barrier.sid, "Error")
  ELSE IF still_waits(t, barrier) THEN fail_waiter(t, barrier.call) ELSE t

fail_command(t, command) ==
  CASE command.kind = "Request" -> resolve_setup(t, command.call, "Error")
    [] command.kind = "Close" -> resolve_unit(t, command.call, "Ok")
    [] command.kind = "Drain_subscription" -> fail_pending_drain(t, command.sid)
    [] command.kind \in {"Resume", "Cancel_drain", "Cancel_request"} -> t
    [] OTHER -> fail_waiter(t, command.call)

\* Mutant: queued commands are dropped.
fail_pending_commands_not(t) == [t EXCEPT !.work = <<>>]

fail_pending_commands(t) ==
  FoldLeft(fail_command, [t EXCEPT !.work = <<>>], t.work)

fail_requests(t) ==
  fail_waiters([t EXCEPT !.requests = <<>>], Range(t.requests))

fail_subscription_drains(t) ==
  OverSids(LAMBDA u, sid :
             IF sid \in u.subscriptions THEN fail_pending_drain(u, sid)
             ELSE complete_drain_waiter(u, t.subscription_drains[sid], sid,
                                        "Error"),
           t, DOMAIN t.subscription_drains)

finish(t) ==
  LET ended == [t EXCEPT !.closed = TRUE, !.reconnecting = FALSE,
                         !.reconnect_pending = <<>>,
                         !.reconnect_publish_state = None, !.error = None]
      ended2 == fail_subscription_drains(
                  fail_requests(close_subscriptions(ended, ended.subscriptions)))
      ended3 == FoldLeft(fail_barrier, ended2, ended2.barriers)
  IN  IF t.closed THEN Cleared(t)
      ELSE [fail_pending_commands([ended3 EXCEPT !.barriers = <<>>])
              EXCEPT !.up = FALSE]

-----------------------------------------------------------------------------
(* Events and deliveries of a transition.                                  *)

Command(kind, c, sid) == [kind |-> kind, call |-> c, sid |-> sid]

ResumeCommands(t) ==
  OverSids(LAMBDA commands, sid :
             Append(commands, Command("Resume", t.subscription_drains[sid], sid)),
           <<>>, DOMAIN t.subscription_drains)

\* The replacement CONNECT and the replay have just been written.
reconnected(t) ==
  Then(flush_reconnect_pending(t), LAMBDA u :
    [u EXCEPT !.work = @ \o ResumeCommands(u), !.reconnecting = FALSE,
              !.reconnect_publish_state = None])

\* Mutant: a PONG settles the newest barrier.
settles_last(barriers) == Last(barriers)

\* The barrier a PONG settles.
settles(barriers) == Head(barriers)

flush_completed(t) ==
  LET barrier == settles(t.barriers)
      u == [t EXCEPT !.barriers = Tail(@)]
      c == barrier.call
  IN  IF t.barriers = <<>> THEN t
      ELSE CASE barrier.kind = "Flush" ->
                  IF c \in u.completed THEN u
                  ELSE resolve_unit([u EXCEPT !.completed = @ \cup {c}], c, "Ok")
             [] barrier.kind = "Drain" -> finish(resolve_unit(u, c, "Ok"))
             [] barrier.kind = "Subscription_drain" ->
                  IF c \in u.completed THEN u
                  ELSE IF barrier.sid \notin u.subscriptions
                  THEN complete_drain_waiter(u, c, barrier.sid, "Error")
                  ELSE IF barrier.sid \notin DOMAIN u.state.subscriptions
                  THEN complete_drain(u, c, barrier.sid, "Ok")
                  ELSE [u EXCEPT !.subscription_drains = With(@, barrier.sid, c)]

\* A stream that has ended takes no event.
event(t) == IF t.closed THEN Error(t, "Slow_consumer") ELSE t

handle_event(t, ev) ==
  Then(event(t), LAMBDA u :
    CASE ev = "Connected" ->
           LET w == [u EXCEPT !.handshake_deadline = FALSE]
           IN  IF u.reconnecting THEN reconnected(w)
               ELSE [w EXCEPT !.ready = @ \/ u.connect_sent]
      [] ev = "Flush_completed" -> flush_completed(u)
      [] OTHER -> u)

handle_events(t, events) ==
  FoldLeft(LAMBDA u, ev : Then(u, LAMBDA w : handle_event(w, ev)), t, events)

\* A reply ends its request; any other message goes to its handle, and one
\* that its queue cannot take ends the handle.
handle_delivery(t, sid) ==
  IF sid \in DOMAIN t.requests
  THEN unsubscribe_and_forget(
         resolve_unit(drop_request(t, sid), t.requests[sid], "Ok"), sid)
  ELSE IF sid \notin t.subscriptions THEN t
  ELSE IF ~t.full THEN remove_finished_subscriptions(t)
  ELSE Then(event(close_subscription(t, sid)),
            LAMBDA u : unsubscribe_and_forget(u, sid))

handle_deliveries(t, sids) ==
  FoldLeft(LAMBDA u, sid : Then(u, LAMBDA w : handle_delivery(w, sid)), t, sids)

\* Nothing of a transition is kept unless all its output was written.
apply_transition(t, tr) ==
  Then(write_outputs(t, tr.output), LAMBDA u :
    Then(handle_events([u EXCEPT !.state = tr.state], tr.events), LAMBDA w :
      handle_deliveries(w, tr.deliveries)))

-----------------------------------------------------------------------------
(* Input.                                                                  *)

connect_after_info(t) ==
  LET tr == outgoing_connect(t.state)
  IN  IF t.state.phase # "Awaiting_connect" \/ t.connect_sent THEN t
      ELSE IF tr.error # None THEN Error(t, tr.error)
      ELSE apply_transition([t EXCEPT !.connect_sent = TRUE], tr)

incoming(t, op) ==
  LET tr == handle_operation(t.state, op)
  IN  IF tr.error # None THEN Error(t, tr.error)
      ELSE Then(apply_transition(t, tr), connect_after_info)

\* What outgoing_publish looks at.
PublishState(state) == [phase |-> state.phase, info |-> state.info]

\* The end of the input closes the core.  On an established connection that
\* is a loss to recover from, with publishes checked meanwhile against the
\* core as it was before the batch.
end_of_input(t, before) ==
  Then(apply_transition(t, incoming_eof(t.state)), LAMBDA u :
    IF before.ready /\ before.state.phase # "Draining"
    THEN Error([u EXCEPT !.reconnect_publish_state =
                  IF @ = None THEN PublishState(before.state) ELSE @],
               "Disconnected")
    ELSE finish(u))

apply_incoming(t, ops, eof) ==
  LET read == FoldLeft(LAMBDA u, op : Then(u, LAMBDA w : incoming(w, op)), t, ops)
  IN  IF eof THEN Then(read, LAMBDA u : end_of_input(u, t)) ELSE read

-----------------------------------------------------------------------------
(* Losing a transport and replacing it.                                    *)

reset_reconnect_attempt(t, preserve_pending_pings) ==
  [t EXCEPT !.up = FALSE, !.broke = @ \/ t.up, !.connect_sent = FALSE,
            !.handshake_deadline = FALSE, !.reconnect_deadline = FALSE,
            !.state = prepare_reconnect(@, preserve_pending_pings)]

\* Mutant: one attempt too many.
reconnect_limit_reached_late(t) ==
  MaxAttempts # None /\ t.reconnect_attempts > MaxAttempts

reconnect_limit_reached(t) ==
  MaxAttempts # None /\ t.reconnect_attempts >= MaxAttempts

schedule_reconnect(t, error) ==
  IF reconnect_limit_reached(t) THEN Error(t, error)
  ELSE [t EXCEPT !.reconnect_deadline = TRUE]

start_reconnect_attempt(t) ==
  LET u == [t EXCEPT !.reconnect_attempts = IF MaxAttempts = None THEN @ ELSE @ + 1]
  IN  IF t.dial THEN [u EXCEPT !.up = TRUE, !.fresh = TRUE,
                               !.handshake_deadline = TRUE]
      ELSE schedule_reconnect(u, "Io")

retry_reconnect(t, error) ==
  schedule_reconnect(reset_reconnect_attempt(t, TRUE), error)

\* The flushes that wait are failed; a drain of a subscription only loses
\* its barrier.
fail_barriers(t) ==
  LET flushes == {b.call : b \in {c \in Range(t.barriers) :
                                    /\ c.kind # "Subscription_drain"
                                    /\ c.call \notin t.completed}}
  IN  [fail_waiters(t, flushes) EXCEPT !.barriers = <<>>,
                                       !.completed = @ \cup flushes]

recover_transport(t) ==
  LET ephemeral == {sid \in t.subscriptions : ~t.handles[sid].replay}
      u == OverSids(LAMBDA w, sid : forget(close_subscription(w, sid), sid),
                    t, ephemeral)
      reset == reset_reconnect_attempt(fail_barriers(u), FALSE)
  IN  start_reconnect_attempt(
        [reset EXCEPT !.reconnect_attempts = 0, !.reconnecting = TRUE,
                      !.reconnect_publish_state =
                         IF @ = None THEN PublishState(u.state) ELSE @])

may_recover(t) ==
  t.ready /\ ~t.closed /\ ~t.reconnecting /\ MaxAttempts # 0
    /\ t.state.phase # "Draining"

handle_transport_error(t) ==
  IF t.reconnecting /\ t.error \in {"Disconnected", "Io", "Timeout"}
  THEN retry_reconnect(Cleared(t), t.error)
  ELSE IF may_recover(t) /\ t.error \in {"Disconnected", "Io"}
  THEN recover_transport(Cleared(t))
  ELSE t

\* How owner_loop ends a turn.
EndTurn(t) ==
  LET u == IF t.error = None THEN t ELSE handle_transport_error(t)
  IN  IF u.error = None THEN u ELSE finish(u)

-----------------------------------------------------------------------------
(* Commands.                                                               *)

\* Apply a transition for a caller who waits: fail them if it fails, go on
\* with done otherwise.
ApplyFor(t, c, tr, done(_)) ==
  IF tr.error # None THEN fail_waiter(t, c)
  ELSE LET u == apply_transition(t, tr)
       IN  IF u.error # None THEN fail_waiter(u, c) ELSE done(u)

PublishOp(c, reply) == [headers |-> FALSE, size |-> 0, call |-> c, reply |-> reply]

Accept(t, c) == [t EXCEPT !.accepted = Append(@, c)]

apply_publish(t, c) ==
  ApplyFor(t, c, outgoing_publish(t.state, PublishOp(c, 0)),
           LAMBDA u : resolve_unit(Accept(u, c), c, "Ok"))

\* Publishes made while reconnecting are checked against the lost session
\* and kept for the next.
enqueue_reconnect_publish_output(t, message) ==
  LET tr == outgoing_publish(t.reconnect_publish_state, message)
  IN  IF t.reconnect_publish_state = None THEN Error(t, "Disconnected")
      ELSE IF tr.error # None THEN Error(t, tr.error)
      ELSE IF Len(t.reconnect_pending) >= BufferSize
      THEN Error(t, "Reconnect_buffer_exceeded")
      ELSE Accept([t EXCEPT !.reconnect_pending = @ \o tr.output], message.call)

enqueue_reconnect_publish(t, c) ==
  LET u == enqueue_reconnect_publish_output(t, PublishOp(c, 0))
  IN  IF u.error # None THEN fail_waiter(t, c) ELSE resolve_unit(u, c, "Ok")

apply_subscribe(t, c, subject, replay) ==
  LET tr  == outgoing_subscribe(t.state, subject)
      sid == tr.sid
      h   == [replay |-> replay, drain |-> None, waiter |-> None]
      u   == apply_transition([t EXCEPT !.handles = With(@, sid, h),
                                        !.subscriptions = @ \cup {sid}], tr)
  IN  IF tr.error # None THEN fail_waiter(t, c)
      ELSE IF u.error # None THEN fail_waiter(close_subscription(u, sid), c)
      ELSE resolve_unit(u, c, "Ok")

\* Mutant: the handle of a subscription is left open.
unsubscribed_open(t, sid) == t

unsubscribed(t, sid) == close_subscription(t, sid)

apply_unsubscribe(t, c, sid) ==
  LET tr == outgoing_unsubscribe(t.state, sid, None)
      u  == apply_transition(t, tr)
  IN  IF tr.error # None THEN fail_waiter(close_subscription(t, sid), c)
      ELSE IF u.error # None THEN fail_waiter(close_subscription(u, sid), c)
      ELSE resolve_unit(unsubscribed(u, sid), c, "Ok")

apply_auto_unsubscribe(t, c, sid) ==
  LET tr == outgoing_auto_unsubscribe(t.state, sid, 1)
  IN  IF tr.error = "Unknown_subscription" THEN resolve_unit(t, c, "Ok")
      ELSE ApplyFor(t, c, tr, LAMBDA u : resolve_unit(u, c, "Ok"))

arm_subscription_drain(t, c, sid) ==
  [t EXCEPT !.handles[sid].waiter = c,
            !.subscription_drains = With(@, sid, c)]

\* Ask the core to drain; output is what is written of its answer.
DrainWith(t, c, sid, output(_)) ==
  LET tr == outgoing_drain_subscription(t.state, sid)
      u  == apply_transition(t, [tr EXCEPT !.output = output(@)])
  IN  IF tr.error # None THEN close_subscription(forget(t, sid), sid)
      ELSE IF u.error # None THEN complete_drain(forget(u, sid), c, sid, "Error")
      ELSE [u EXCEPT !.barriers =
              Append(@, [kind |-> "Subscription_drain", call |-> c, sid |-> sid])]

apply_drain_subscription(t, c, sid) ==
  IF sid \notin t.subscriptions THEN fail_pending_drain(t, sid)
  ELSE LET armed == arm_subscription_drain(t, c, sid)
       IN  IF t.reconnecting THEN armed
           ELSE DrainWith(armed, c, sid, LAMBDA output : output)

\* After a reconnect the core is told of the drain and nothing is written.
resume_subscription_drain(t, c, sid) ==
  IF c \in t.completed THEN t
  ELSE IF sid \notin t.subscriptions
  THEN complete_drain_waiter(t, c, sid, "Error")
  ELSE DrainWith(t, c, sid, LAMBDA output : <<>>)

cancel_subscription_drain(t, sid) ==
  IF sid \in t.subscriptions THEN fail_pending_drain(t, sid) ELSE t

\* A barrier: its PING has gone out, or into the buffer while reconnecting.
QueueBarrier(t, kind, c) ==
  [Accept(t, c) EXCEPT
     !.barriers = Append(@, [kind |-> kind, call |-> c, sid |-> 0])]

apply_flush(t, c) ==
  ApplyFor(t, c, outgoing_flush(t.state),
           LAMBDA u : QueueBarrier(u, "Flush", c))

apply_reconnect_flush(t, c) ==
  LET tr == outgoing_flush(t.state)
  IN  IF tr.error # None THEN fail_waiter(t, c)
      ELSE QueueBarrier([t EXCEPT !.reconnect_pending = @ \o tr.output,
                                  !.state = tr.state], "Flush", c)

apply_drain(t, c) ==
  ApplyFor(t, c, outgoing_drain(t.state), LAMBDA u :
    fail_requests(close_subscriptions(QueueBarrier(u, "Drain", c),
                                      u.subscriptions)))

apply_close(t, c) ==
  LET tr == outgoing_close(t.state)
  IN  IF tr.error # None THEN finish(resolve_unit(t, c, "Ok"))
      ELSE ApplyFor(t, c, tr, LAMBDA u : finish(resolve_unit(u, c, "Ok")))

\* A request: an inbox subscription that ends with its first message, then
\* the message.  Each step that fails undoes the ones before it.
request_publish(t, c, sid) ==
  LET message == PublishOp(c, sid)
      buffered == enqueue_reconnect_publish_output(t, message)
      tr == outgoing_publish(t.state, message)
      u  == apply_transition(t, tr)
      dropped(w) == resolve_setup(drop_request(w, sid), c, "Error")
  IN  IF t.reconnecting
      THEN IF buffered.error # None THEN forget(dropped(t), sid)
           ELSE resolve_setup(buffered, c, "Ok")
      ELSE IF tr.error # None THEN unsubscribe_and_forget(dropped(t), sid)
      ELSE IF u.error # None THEN forget(dropped(u), sid)
      ELSE resolve_setup(Accept(u, c), c, "Ok")

apply_request(t, c) ==
  LET tr   == outgoing_subscribe(t.state, Inbox)
      sid  == tr.sid
      u    == apply_transition(t, tr)
      auto == outgoing_auto_unsubscribe(u.state, sid, 1)
      w    == apply_transition(u, auto)
  IN  IF tr.error # None THEN resolve_setup(t, c, "Error")
      ELSE IF u.error # None THEN resolve_setup(u, c, "Error")
      ELSE IF auto.error # None
      THEN unsubscribe_and_forget(resolve_setup(u, c, "Error"), sid)
      ELSE IF w.error # None
      THEN unsubscribe_and_forget(resolve_setup(Cleared(w), c, "Error"), sid)
      ELSE request_publish([w EXCEPT !.requests = With(@, sid, c)], c, sid)

\* Give a waiting request up: the server is told unless it is gone.
abandon_request(t, sid) ==
  LET u == fail_waiter(drop_request(t, sid), t.requests[sid])
  IN  IF t.reconnecting THEN forget(u, sid) ELSE unsubscribe_and_forget(u, sid)

RequestSids(t, cs) == {sid \in DOMAIN t.requests : t.requests[sid] \in cs}

abandon_requests(t, cs) ==
  OverSids(LAMBDA u, sid : Then(u, LAMBDA w : abandon_request(w, sid)),
           t, RequestSids(t, cs))

Subject == CHOOSE s \in Subjects \ Unencodable : TRUE

apply_command(t, command) ==
  LET c == command.call
      sid == command.sid
  IN  CASE command.kind = "Publish" ->
             IF t.reconnecting THEN enqueue_reconnect_publish(t, c)
             ELSE apply_publish(t, c)
        [] command.kind = "Subscribe" -> apply_subscribe(t, c, Subject, TRUE)
        [] command.kind = "Ephemeral" -> apply_subscribe(t, c, Subject, FALSE)
        [] command.kind = "Unsubscribe" -> apply_unsubscribe(t, c, sid)
        [] command.kind = "Auto_unsubscribe" -> apply_auto_unsubscribe(t, c, sid)
        [] command.kind = "Drain_subscription" ->
             apply_drain_subscription(t, c, sid)
        [] command.kind = "Resume" -> resume_subscription_drain(t, c, sid)
        [] command.kind = "Cancel_drain" -> cancel_subscription_drain(t, sid)
        [] command.kind = "Request" -> apply_request(t, c)
        [] command.kind = "Cancel_request" -> abandon_requests(t, {c})
        [] command.kind = "Flush" ->
             IF t.reconnecting THEN apply_reconnect_flush(t, c)
             ELSE apply_flush(t, c)
        [] command.kind = "Drain" ->
             IF t.reconnecting THEN finish(fail_waiter(t, c)) ELSE apply_drain(t, c)
        [] command.kind = "Close" ->
             IF t.reconnecting THEN finish(resolve_unit(t, c, "Ok"))
             ELSE apply_close(t, c)

-----------------------------------------------------------------------------
(* Timers: due holds the calls whose deadline has passed.                  *)

expire_subscription_drains(t, due) ==
  OverSids(LAMBDA u, sid :
             IF sid \notin DOMAIN u.subscription_drains THEN u
             ELSE IF sid \in u.subscriptions THEN fail_pending_drain(u, sid)
             ELSE complete_drain_waiter(u, u.subscription_drains[sid], sid,
                                        "Error"),
           t, {sid \in DOMAIN t.subscription_drains :
                 t.subscription_drains[sid] \in due})

\* Mutant: a flush that timed out gives up its place.
keeps_place_not(barrier, due) == barrier.call \notin due

\* A flush that timed out still takes the PONG that comes for it.
keeps_place(barrier, due) == barrier.kind = "Drain" => barrier.call \notin due

retained(barriers, due) ==
  FoldLeft(LAMBDA kept, b : IF keeps_place(b, due) THEN Append(kept, b) ELSE kept,
           <<>>, barriers)

expire_barriers(t, due) ==
  LET late == {b.call : b \in {c \in Range(t.barriers) :
                                 /\ c.kind # "Subscription_drain"
                                 /\ c.call \in due \ t.completed}}
  IN  [fail_waiters(t, late) EXCEPT
         !.barriers = retained(@, due),
         !.completed = @ \cup late]

DrainBarriers(t, due) ==
  {b \in Range(t.barriers) : b.kind = "Drain" /\ b.call \in due}

\* The last branch of apply_timer; every error in it ends the connection.
expire(t, due) ==
  LET u == expire_barriers(expire_subscription_drains(t, due), due)
      w == abandon_requests(u, due)
      x == Then(w, LAMBDA y : apply_transition(y, timer(y.state)))
  IN  IF t.barriers # <<>> /\ Head(t.barriers) \in DrainBarriers(t, due)
      THEN finish(t)
      ELSE IF DrainBarriers(t, due) # {} THEN finish(u)
      ELSE IF x.error # None \/ x.state.phase = "Closed" THEN finish(x)
      ELSE x

-----------------------------------------------------------------------------
(* Turns of the owner.                                                     *)

Messages(ops) ==
  LET pubs == SelectSeq(ops, LAMBDA op : op.op = "PUB")
  IN  [i \in 1..Len(pubs) |-> pubs[i].message.call]

Init ==
  /\ conn = create
  /\ call = [c \in Calls |-> Idle]
  /\ c2s = <<>> /\ server = <<>> /\ owed = {} /\ handled = <<>>
  /\ \E info \in Infos : s2c = << [op |-> "INFO", info |-> info] >>
  /\ sent = 0 /\ losses = 0

MayLose == losses < MaxLosses

\* The records a turn may start from, one for each choice of what the outside
\* does during the turn.
MaxTurnWrites == 5

Start(w, d, f) == [conn EXCEPT !.writes = w, !.dial = d, !.full = f]

WriteBudgets == {Everything} \cup IF MayLose THEN 0..MaxTurnWrites ELSE {}

Fullness == IF MaxSent = 0 THEN {FALSE} ELSE BOOLEAN

Starts == {Start(w, d, f) : w \in WriteBudgets, d \in BOOLEAN, f \in Fullness}

\* Those choices are forgotten, and what the turn wrote is handed over.
Settled(t) ==
  [t EXCEPT !.writes = Everything, !.dial = TRUE, !.full = FALSE,
            !.out = <<>>, !.broke = FALSE, !.fresh = FALSE]

\* The end of a turn, with rest left to read.  A transport that is gone
\* takes what is in flight with it, but the server may have handled any
\* part of what was written.
Commit(t, rest) ==
  LET wire == c2s \o t.out
      gone == t.broke \/ (conn.up /\ ~t.up)
  IN  /\ conn' = Settled(t)
      /\ losses' = IF t.broke THEN losses + 1 ELSE losses
      /\ c2s' = IF gone THEN <<>> ELSE wire
      /\ IF gone
         THEN \E n \in 0..Len(wire) :
                handled' = handled \o Messages(SubSeq(wire, 1, n))
         ELSE UNCHANGED handled
      /\ IF t.fresh
         THEN \E info \in Infos : s2c' = << [op |-> "INFO", info |-> info] >>
         ELSE s2c' = IF gone THEN <<>> ELSE rest
      /\ server' = IF gone THEN <<>> ELSE server
      /\ owed' = IF gone THEN {} ELSE owed
      /\ UNCHANGED << call, sent >>

OwnerCommand ==
  /\ ~conn.closed /\ conn.work # <<>>
  /\ \E t \in Starts :
       Commit(EndTurn(apply_command([t EXCEPT !.work = Tail(@)],
                                    Head(conn.work))), s2c)

\* A batch of input: everything that has arrived, and maybe its end.
OwnerInput(n, eof) ==
  /\ ~conn.closed /\ conn.up
  /\ n <= Len(s2c) /\ (n > 0 \/ eof)
  /\ eof => MayLose
  /\ \E t \in Starts :
       Commit(EndTurn(apply_incoming(t, SubSeq(s2c, 1, n), eof)),
              SubSeq(s2c, n + 1, Len(s2c)))

OwnerReadFails ==
  /\ ~conn.closed /\ conn.up /\ MayLose
  /\ \E t \in Starts : Commit(EndTurn(Error(t, "Io")), s2c)

OrFinish(t) == IF t.error = None THEN t ELSE finish(t)

OwnerReconnect ==
  /\ ~conn.closed /\ conn.reconnect_deadline
  /\ \E t \in Starts :
       Commit(OrFinish(start_reconnect_attempt(
                         [t EXCEPT !.reconnect_deadline = FALSE])), s2c)

OwnerHandshakeTimeout ==
  /\ ~conn.closed /\ conn.handshake_deadline /\ MayLose
  /\ conn.state.phase \in {"Awaiting_info", "Awaiting_connect"}
  /\ Commit(IF conn.reconnecting THEN OrFinish(retry_reconnect(conn, "Timeout"))
            ELSE finish(conn), s2c)

Waiting(t) ==
  Range(t.requests) \cup Range(t.subscription_drains)
    \cup {b.call : b \in Range(t.barriers)}

OwnerExpire(due) ==
  /\ ~conn.closed /\ due \subseteq Waiting(conn)
  /\ due # {} \/ next_timeout(conn.state)
  /\ \E t \in Starts : Commit(expire(t, due), s2c)

\* The switch of the connection is released.
OwnerReleased == ~conn.closed /\ Commit(finish(conn), s2c)

-----------------------------------------------------------------------------
(* Callers.                                                                *)

CallerFrame == UNCHANGED << c2s, s2c, server, owed, handled, sent, losses >>

pending_commands(t) ==
  Len(SelectSeq(t.work, LAMBDA command :
        command.kind \notin {"Cancel_request", "Cancel_drain", "Resume"}))

OfHandle == {"Unsubscribe", "Auto_unsubscribe", "Drain_subscription"}

\* A handle takes calls while it is open and no drain is pending on it.
MayCall(kind, sid) ==
  IF kind \in OfHandle
  THEN sid \in conn.subscriptions /\ conn.handles[sid].drain = None
  ELSE sid = 0

Full(kind) == kind # "Close" /\ pending_commands(conn) >= CommandCapacity

Issue(c, kind, sid) ==
  /\ call[c] = Idle /\ conn.ready /\ ~conn.closed
  /\ MayCall(kind, sid)
  /\ call' = [call EXCEPT ![c] = [kind |-> kind, sid |-> sid, cancelled |-> FALSE]]
  /\ conn' =
       IF Full(kind)
       THEN IF kind = "Request" THEN resolve_setup(conn, c, "Error")
            ELSE fail_waiter(IF kind = "Unsubscribe"
                             THEN close_subscription(conn, sid) ELSE conn, c)
       ELSE LET queued == [conn EXCEPT !.work = Append(@, Command(kind, c, sid))]
            IN  IF kind = "Drain_subscription"
                THEN [queued EXCEPT !.handles[sid].drain = c] ELSE queued
  /\ CallerFrame

\* A request that has been set up, or a drain, is cancelled by its caller.
Cancel(c) ==
  /\ ~conn.closed /\ ~call[c].cancelled
  /\ call' = [call EXCEPT ![c].cancelled = TRUE]
  /\ \/ /\ call[c].kind = "Request" /\ conn.setups[c] = << "Ok" >>
        /\ conn' = [conn EXCEPT !.work = Append(@, Command("Cancel_request", c, 0))]
     \/ /\ call[c].kind = "Drain_subscription" /\ conn.answers[c] = <<>>
        /\ conn' = [conn EXCEPT !.work =
                      Append(@, Command("Cancel_drain", c, call[c].sid))]
  /\ CallerFrame

-----------------------------------------------------------------------------
(* The server (external).                                                  *)

ServerHandle ==
  LET op == Head(c2s)
  IN  /\ conn.up /\ c2s # <<>>
      /\ c2s' = Tail(c2s)
      /\ server' = ServerDoes(server, op)
      /\ s2c' = IF op.op = "PING" THEN Append(s2c, Pong) ELSE s2c
      /\ handled' = handled \o Messages(<< op >>)
      /\ owed' = IF op.op = "PUB" /\ op.message.reply # 0
                 THEN owed \cup {op.message.reply} ELSE owed
      /\ UNCHANGED << conn, call, sent, losses >>

\* A reply to a request, or a message for any other subscription.
ServerSend(sid) ==
  /\ conn.up /\ sid \in DOMAIN server
  /\ \/ sid \in owed /\ UNCHANGED sent
     \/ /\ sid \in DOMAIN conn.handles /\ sent < MaxSent
        /\ sent' = sent + 1
  /\ s2c' = Append(s2c, [op |-> "MSG", sid |-> sid])
  /\ server' = ServerSent(server, sid)
  /\ owed' = owed \ {sid}
  /\ UNCHANGED << conn, call, c2s, handled, losses >>

-----------------------------------------------------------------------------

MaxSid == Cardinality(Calls)

Next ==
  \/ OwnerCommand
  \/ \E n \in 0..Len(s2c), eof \in BOOLEAN : OwnerInput(n, eof)
  \/ OwnerReadFails
  \/ OwnerReconnect
  \/ OwnerHandshakeTimeout
  \/ \E due \in SUBSET Calls : OwnerExpire(due)
  \/ OwnerReleased
  \/ \E c \in Calls, kind \in Kinds, sid \in 0..MaxSid : Issue(c, kind, sid)
  \/ \E c \in Calls : Cancel(c)
  \/ ServerHandle
  \/ \E sid \in 1..MaxSid : ServerSend(sid)

\* The owner takes queued commands and its timer fires for every deadline:
\* weak fairness, with the conditions under which the actions are enabled
\* written out.
Fairness ==
  /\ []<>(conn.closed \/ conn.work = <<>>) \/ []<><< OwnerCommand >>_vars
  /\ \A c \in Calls :
       \/ []<>(conn.closed \/ c \notin Waiting(conn) \ conn.completed)
       \/ []<><< OwnerExpire({c}) >>_vars

Spec == Init /\ [][Next]_vars /\ Fairness

-----------------------------------------------------------------------------
(* Properties.                                                             *)

Answered(c) ==
  \/ conn.answers[c] # <<>>
  \/ call[c].kind = "Request" /\ conn.setups[c] = << "Error" >>

Made == {c \in Calls : call[c] # Idle}

Count(ops, op) == Cardinality({i \in DOMAIN ops : ops[i].op = op})

\* Types of the connection's fields.
TypeOK ==
  /\ conn.state.phase \in Phases
  /\ conn.requests \in [DOMAIN conn.requests -> Calls]
  /\ conn.subscriptions \subseteq DOMAIN conn.handles
  /\ conn.barriers \in Seq([kind : {"Flush", "Drain", "Subscription_drain"},
                            call : Calls, sid : 0..MaxSid])
  /\ conn.answers \in [Calls -> Seq({"Ok", "Error"})]
  /\ losses \in 0..MaxLosses
  /\ conn.reconnect_attempts \in 0..(IF MaxAttempts = None THEN 0 ELSE MaxAttempts)

\* No promise is resolved twice, whatever answers, timeouts, losses and
\* cancellations race: Eio.Promise.resolve would raise in the owner fiber
\* and take every caller of the connection down with it.
AnsweredOnce ==
  \A c \in Calls : Len(conn.answers[c]) <= 1 /\ Len(conn.setups[c]) <= 1

\* Barriers correspond to the origins that are not liveness PINGs, one for
\* one and in order: at[i] is the position of the origin of the i-th.
Agree(barriers, origins) ==
  LET asked == {j \in DOMAIN origins : origins[j].kind # "Liveness"}
  IN  \E at \in [DOMAIN barriers -> asked] :
        /\ \A i, j \in DOMAIN barriers : i < j => at[i] < at[j]
        /\ \A j \in asked : \E i \in DOMAIN barriers : at[i] = j
        /\ \A i \in DOMAIN barriers : /\ barriers[i].kind = origins[at[i]].kind
                                      /\ barriers[i].sid = origins[at[i]].sid

\* The barriers the owner keeps are, one for one and in order, the ones the
\* core waits for, liveness PINGs aside: when the core takes the first of its
\* queue for answered, the owner resolves the call for which it was put there.
\* That its PING was sent is not part of this (see FlushHasPing).
BarriersMatchCore == ~conn.closed => Agree(conn.barriers, conn.state.pending_pings)

\* Flushes waiting for a PONG have a PING or a PONG on the way, or held in
\* the reconnect buffer.
OnTheWay ==
  Count(s2c, "PONG") + Count(c2s, "PING") + Count(conn.reconnect_pending, "PING")

\* The turn in which the owner took up a message or a barrier.
Place(c) == CHOOSE i \in DOMAIN conn.accepted : conn.accepted[i] = c

\* What the server handles, will handle, and what waits in the buffer are
\* messages that were accepted, each at most once and in the order they were
\* accepted, over any number of losses: nothing is sent twice, and nothing
\* accepted later overtakes.
SentInOrder ==
  LET all == handled \o Messages(c2s) \o Messages(conn.reconnect_pending)
  IN  /\ Range(all) \subseteq Range(conn.accepted)
      /\ \A i, j \in DOMAIN all : i < j => Place(all[i]) < Place(all[j])

\* When a flush or a drain of the connection returns Ok, nothing that was
\* accepted before it is still on its way to the server or in the buffer,
\* however many flushes, timeouts and losses came between.
FlushCovers ==
  [][\A c \in Calls :
       /\ call[c].kind \in {"Flush", "Drain"}
       /\ conn.answers[c] = <<>> /\ conn'.answers[c] = << "Ok" >>
       => \A d \in Range(Messages(c2s \o conn.reconnect_pending)) :
            Place(d) > Place(c)]_vars

\* The sids of the calls of a kind, of those that failed only if so asked.
SidsOf(kind, failed) ==
  {call[c].sid : c \in {d \in Made : /\ call[d].kind = kind
                                     /\ failed => conn.answers[d] = << "Error" >>}}

\* Every subscription the core would replay belongs to an open handle or to
\* a request that waits, so that none lives on at the server unseen; and a
\* handle that is open is one the core knows or whose drain is under way.
\* Left out are sids on which an unsubscribe failed, which the code keeps in
\* the core, and sids with a quota, whose handle it closes late.
HandlesMatchCore ==
  ~conn.closed /\ conn.state.phase # "Draining" =>
    LET subs == DOMAIN conn.state.subscriptions
    IN  /\ subs \subseteq DOMAIN conn.requests \cup conn.subscriptions
                            \cup SidsOf("Unsubscribe", TRUE)
        /\ conn.subscriptions \subseteq subs \cup DOMAIN conn.subscription_drains
                                         \cup SidsOf("Auto_unsubscribe", FALSE)
        /\ DOMAIN conn.requests \subseteq subs

\* The server's subscriptions once it has handled the first n operations.
ServerAfter(n) == FoldLeft(ServerDoes, server, SubSeq(c2s, 1, n))

\* A request never reaches the server ahead of its inbox: the reply would go
\* nowhere.  On a replacement transport the replay has to come before the
\* requests that were buffered, and has to include their inboxes.
InboxFirst ==
  \A i \in DOMAIN c2s :
    c2s[i].op = "PUB" /\ c2s[i].message.reply \in DOMAIN conn.requests
      => c2s[i].message.reply \in DOMAIN ServerAfter(i - 1)

\* When nothing is in flight the server has exactly the subscriptions the
\* core has: the replies, timeouts and cancellations of requests and a loss
\* leave nothing behind at the server and lose nothing there.  Left out are
\* sids that were drained, whose UNSUB a resumed drain does not send.
InterestAgrees ==
  /\ conn.up /\ conn.state.phase = "Connected"
  /\ c2s = <<>> /\ s2c = <<>>
  => LET drained == SidsOf("Drain_subscription", FALSE)
     IN  DOMAIN server \ drained = DOMAIN conn.state.subscriptions \ drained

\* Every call returns, however often the transport is lost.
CallsReturn == \A c \in Calls : c \in Made ~> Answered(c)

-----------------------------------------------------------------------------
(* What the repository says of the connection and the code does not do.    *)

\* connection.mli:298: a flush made while reconnecting has its PING queued
\* behind the replacement handshake and waits for the PONG.  So every flush
\* that waits has a PING or a PONG on the way.
FlushHasPing == ~conn.closed => Len(conn.state.pending_pings) <= OnTheWay

\* connection.mli:150: a drain of a subscription reissues its barrier once
\* the replacement subscription is installed.
DrainReissued ==
  ~conn.closed =>
    Len(SelectSeq(conn.barriers, LAMBDA b : b.kind = "Subscription_drain"))
      <= OnTheWay
=============================================================================
