------------------------------- MODULE Client -------------------------------
(***************************************************************************)
(* The pure protocol core of the client: lib/client.ml.                    *)
(*                                                                         *)
(* The source is a pure state machine.  A command, a received operation or *)
(* a timer tick maps a state to a transition (next state, output to write, *)
(* events, deliveries, the sid a subscribe allocated) or to an error, and  *)
(* the caller owns the transport.  The operators below are those functions *)
(* and have no variables of their own; ClientSession and Connection apply  *)
(* them to the state they keep.                                            *)
(*                                                                         *)
(* Data: a subject stands for a subject filter with its queue group; an    *)
(* operation on the wire is a record tagged by its keyword; deadlines are  *)
(* abstracted to whether the liveness timer is armed.  The subscription    *)
(* list of the source is newest first with strictly decreasing sids, so a  *)
(* function on sids keeps all of it: list order is sid order.              *)
(***************************************************************************)
EXTENDS Integers, Sequences, FiniteSets, SequencesExt

CONSTANTS
  None,         \* the OCaml None
  Subjects,     \* subject filters a caller may subscribe to
  Unencodable,  \* those whose SUB line exceeds the packet limit
  Infos,        \* the server INFO records: [headers, max_payload, lame_duck]
  PingInterval, \* TRUE iff Config.ping_interval is set
  MaxPings      \* Config.max_pings_without_pong

\* The errors of lib/client.ml that a caller can meet.
Errors == {"Info_not_received", "Already_connected", "Not_connected",
           "Draining", "Closed", "Codec", "Headers_not_negotiated",
           "Max_payload_exceeded", "Unknown_subscription",
           "Invalid_max_messages", "Unexpected_operation"}

ASSUME NoneAssumption ==
  None \notin Int /\ None \notin Infos /\ None \notin Errors
ASSUME SubjectsAssumption == Unencodable \subseteq Subjects
ASSUME InfosAssumption ==
  Infos \subseteq [headers : BOOLEAN, max_payload : Nat, lame_duck : BOOLEAN]
ASSUME PingAssumption == PingInterval \in BOOLEAN /\ MaxPings \in Nat \ {0}

Phases == {"Awaiting_info", "Awaiting_connect", "Connected", "Draining",
           "Closed"}

\* Who is waiting for a PONG; only a subscription drain carries a sid.
Origin(kind) == [kind |-> kind, sid |-> 0]
SubscriptionDrain(sid) == [kind |-> "Subscription_drain", sid |-> sid]

v == [phase            |-> "Awaiting_info",
      info             |-> None,
      next_sid         |-> 1,
      subscriptions    |-> <<>>,
      draining         |-> {},
      pending_pings    |-> <<>>,
      pending_liveness |-> 0,
      next_ping        |-> FALSE]

-----------------------------------------------------------------------------
(* Results.  An error leaves the caller's state as it is.                  *)

Transition(st, output, events, deliveries, sid) ==
  [error |-> None, state |-> st, output |-> output, events |-> events,
   deliveries |-> deliveries, sid |-> sid]

Failure(st, error) ==
  [error |-> error, state |-> st, output |-> <<>>, events |-> <<>>,
   deliveries |-> <<>>, sid |-> None]

Emit(st, output) == Transition(st, output, <<>>, <<>>, None)

empty_transition(st) == Emit(st, <<>>)

closed_transition(st) ==
  Transition([st EXCEPT !.phase = "Closed", !.next_ping = FALSE],
             <<>>, <<"Closed">>, <<>>, None)

-----------------------------------------------------------------------------
(* Helpers on the state.                                                   *)

touch(st) == [st EXCEPT !.next_ping = PingInterval]

remove_subscription(sid, subs) == [s \in DOMAIN subs \ {sid} |-> subs[s]]

forget_subscription(st, sid) ==
  [st EXCEPT !.subscriptions = remove_subscription(sid, @),
             !.draining = @ \ {sid}]

\* Mutant of the next definition: barriers outlive their transport.
kept_pings_always(pings, preserve) == pings

kept_pings(pings, preserve) == IF preserve THEN pings ELSE <<>>

prepare_reconnect(st, preserve_pending_pings) ==
  [st EXCEPT !.phase            = "Awaiting_info",
             !.info             = None,
             !.draining         = {},
             !.pending_pings    = kept_pings(@, preserve_pending_pings),
             !.pending_liveness = 0,
             !.next_ping        = FALSE]

enqueue_ping(st, origin) == [st EXCEPT !.pending_pings = Append(@, origin)]

\* Every sid allocated so far, oldest first.
Sids(st) == 1..st.next_sid - 1

PhaseError(st) ==
  CASE st.phase = "Draining" -> "Draining"
    [] st.phase = "Closed"   -> "Closed"
    [] OTHER                 -> "Not_connected"

-----------------------------------------------------------------------------
(* Operations on the wire.                                                 *)

Ping == [op |-> "PING"]
Pong == [op |-> "PONG"]
Sub(sid, subject) == [op |-> "SUB", sid |-> sid, subject |-> subject]
Unsub(sid, max_messages) == [op |-> "UNSUB", sid |-> sid, max |-> max_messages]
Pub(message) == [op |-> "PUB", message |-> message]
ConnectOp(st) == [op |-> "CONNECT", no_responders |-> st.info.headers]

-----------------------------------------------------------------------------
(* Commands.                                                               *)

\* The operations that restore one subscription on a new transport.
ReplayOps(sid, sub) ==
  IF sub.remaining = None
  THEN << Sub(sid, sub.subject) >>
  ELSE << Sub(sid, sub.subject), Unsub(sid, sub.remaining) >>

\* Mutant: a subscription with a quota is not restored.
Replay_unlimited(st) ==
  LET subs == st.subscriptions
  IN  FlattenSeq([s \in Sids(st) |->
                    IF s \in DOMAIN subs /\ subs[s].remaining = None
                    THEN << Sub(s, subs[s].subject) >> ELSE <<>>])

Replay(st) ==
  LET subs == st.subscriptions
  IN  FlattenSeq([s \in Sids(st) |-> IF s \in DOMAIN subs
                                     THEN ReplayOps(s, subs[s]) ELSE <<>>])

outgoing_connect(st) ==
  CASE st.phase = "Awaiting_info"    -> Failure(st, "Info_not_received")
    [] st.phase = "Connected"        -> Failure(st, "Already_connected")
    [] st.phase \in {"Draining", "Closed"} -> Failure(st, PhaseError(st))
    [] st.phase = "Awaiting_connect" ->
         IF \E s \in DOMAIN st.subscriptions :
               st.subscriptions[s].subject \in Unencodable
         THEN Failure(st, "Codec")
         ELSE Transition([st EXCEPT !.phase = "Connected"],
                         << ConnectOp(st) >> \o Replay(st),
                         <<"Connected">>, <<>>, None)

outgoing_publish(st, message) ==
  IF st.phase # "Connected" THEN Failure(st, PhaseError(st))
  ELSE IF message.headers /\ ~st.info.headers
       THEN Failure(st, "Headers_not_negotiated")
  ELSE IF message.size > st.info.max_payload
       THEN Failure(st, "Max_payload_exceeded")
  ELSE Emit(st, << Pub(message) >>)

\* The sid is allocated and the intent kept in every phase that accepts a
\* subscription; only a connected core encodes and emits the SUB.
outgoing_subscribe(st, subject) ==
  LET sid == st.next_sid
      new == [subject |-> subject, remaining |-> None, delivered |-> 0]
      subscribed ==
        [st EXCEPT !.next_sid = sid + 1,
                   !.subscriptions =
                      [s \in DOMAIN @ \cup {sid} |-> IF s = sid THEN new
                                                     ELSE @[s]]]
  IN  CASE st.phase \in {"Awaiting_info", "Awaiting_connect"} ->
             Transition(subscribed, <<>>, <<>>, <<>>, sid)
        [] st.phase = "Connected" ->
             IF subject \in Unencodable THEN Failure(st, "Codec")
             ELSE Transition(subscribed, << Sub(sid, subject) >>, <<>>, <<>>,
                             sid)
        [] OTHER -> Failure(st, PhaseError(st))

\* Mutant: the quota counts from the call.
quota_left_from_now(max_messages, delivered) == max_messages

\* A quota counts from the creation of the subscription.
quota_left(max_messages, delivered) == max_messages - delivered

\* max_messages = None is a plain unsubscribe.  A quota already met removes
\* the subscription at once.
outgoing_unsubscribe(st, sid, max_messages) ==
  LET sub  == st.subscriptions[sid]
      ends == max_messages = None \/ sub.delivered >= max_messages
      subs == IF ends THEN remove_subscription(sid, st.subscriptions)
              ELSE [st.subscriptions EXCEPT
                      ![sid].remaining = quota_left(max_messages, sub.delivered)]
      next == [st EXCEPT !.subscriptions = subs, !.draining = @ \ {sid}]
  IN  IF sid \notin DOMAIN st.subscriptions
      THEN Failure(st, "Unknown_subscription")
      ELSE CASE st.phase \in {"Awaiting_info", "Awaiting_connect"} ->
                  empty_transition(next)
             [] st.phase = "Connected" ->
                  Emit(next, << Unsub(sid, IF ends THEN None
                                           ELSE max_messages) >>)
             [] OTHER -> Failure(st, PhaseError(st))

outgoing_auto_unsubscribe(st, sid, max_messages) ==
  IF max_messages <= 0 THEN Failure(st, "Invalid_max_messages")
  ELSE outgoing_unsubscribe(st, sid, max_messages)

\* Mutant: the barrier goes out ahead of the UNSUB.
DrainOps_early(sid) == << Ping, Unsub(sid, None) >>

DrainOps(sid) == << Unsub(sid, None), Ping >>

outgoing_drain_subscription(st, sid) ==
  IF st.phase # "Connected" THEN Failure(st, PhaseError(st))
  ELSE IF sid \in st.draining THEN Failure(st, "Draining")
  ELSE IF sid \notin DOMAIN st.subscriptions
       THEN Failure(st, "Unknown_subscription")
  ELSE Emit(enqueue_ping([st EXCEPT !.draining = @ \cup {sid}],
                         SubscriptionDrain(sid)),
            DrainOps(sid))

outgoing_flush(st) ==
  IF st.phase = "Closed" THEN Failure(st, "Closed")
  ELSE Emit(enqueue_ping(st, Origin("Flush")), << Ping >>)

\* Mutant: the server is not told to end the subscriptions.
DrainUnsubs_none(st) == <<>>

\* One UNSUB for each subscription that is not being drained already.
DrainUnsubs(st) ==
  FlattenSeq([s \in Sids(st) |-> IF s \in DOMAIN st.subscriptions \ st.draining
                                 THEN << Unsub(s, None) >> ELSE <<>>])

outgoing_drain(st) ==
  IF st.phase # "Connected" THEN Failure(st, PhaseError(st))
  ELSE Transition(enqueue_ping([st EXCEPT !.phase = "Draining"],
                               Origin("Drain")),
                  Append(DrainUnsubs(st), Ping), <<"Draining">>, <<>>, None)

outgoing_close(st) ==
  IF st.phase = "Closed" THEN Failure(st, "Closed") ELSE closed_transition(st)

-----------------------------------------------------------------------------
(* Received operations.                                                    *)

\* Mutant: a quota is never seen to end.
last_of_quota_never(remaining) == FALSE

last_of_quota(remaining) == remaining = 1

\* A message for a sid the core no longer knows is dropped silently.
incoming_message(st, sid) ==
  LET sub  == st.subscriptions[sid]
      subs == IF sub.remaining = None
              THEN [st.subscriptions EXCEPT ![sid].delivered = @ + 1]
              ELSE IF last_of_quota(sub.remaining)
              THEN remove_subscription(sid, st.subscriptions)
              ELSE [st.subscriptions EXCEPT
                      ![sid] = [subject   |-> sub.subject,
                                remaining |-> sub.remaining - 1,
                                delivered |-> sub.delivered + 1]]
  IN  IF sid \notin DOMAIN st.subscriptions THEN empty_transition(st)
      ELSE Transition(touch([st EXCEPT !.subscriptions = subs]),
                      <<>>, <<>>, << sid >>, None)

info_events(info) ==
  IF info.lame_duck THEN <<"Info", "Lame_duck_mode">> ELSE <<"Info">>

incoming_info(st, info) ==
  Transition(touch([st EXCEPT !.info = info,
                              !.phase = IF @ = "Awaiting_info"
                                        THEN "Awaiting_connect" ELSE @]),
             <<>>, info_events(info), <<>>, None)

\* Mutant: the count of unanswered liveness PINGs is not cleared.
answered_uncleared(st) == st

answered(st) == [st EXCEPT !.pending_liveness = 0]

incoming_pong(st) ==
  LET popped   == [answered(st) EXCEPT !.pending_pings = Tail(@)]
      origin   == Head(st.pending_pings)
      settled  ==
        CASE origin.kind = "Drain" ->
               [popped EXCEPT !.subscriptions = <<>>, !.draining = {}]
          [] origin.kind = "Subscription_drain" ->
               forget_subscription(popped, origin.sid)
          [] OTHER -> popped
  IN  IF st.pending_pings = <<>>
      THEN Transition(touch(answered(st)), <<>>, <<"Protocol_notice">>, <<>>, None)
      ELSE Transition(touch(settled), <<>>,
                      IF origin.kind = "Liveness" THEN <<>>
                      ELSE <<"Flush_completed">>, <<>>, None)

handle_operation(st, op) ==
  CASE st.phase = "Closed" -> Failure(st, "Closed")
    [] st.phase # "Closed" /\ op.op = "INFO" -> incoming_info(st, op.info)
    [] st.phase # "Closed" /\ op.op = "PING" -> Emit(touch(st), << Pong >>)
    [] st.phase \in {"Connected", "Draining"} /\ op.op = "PONG" ->
         incoming_pong(st)
    [] st.phase \in {"Connected", "Draining"} /\ op.op = "OK" ->
         Transition(touch(st), <<>>, <<"Protocol_notice">>, <<>>, None)
    [] st.phase \in {"Connected", "Draining"} /\ op.op = "ERR" ->
         Transition(touch(st), <<>>, <<"Server_error">>, <<>>, None)
    [] st.phase \in {"Connected", "Draining"} /\ op.op = "MSG" ->
         incoming_message(st, op.sid)
    [] OTHER -> Failure(st, "Unexpected_operation")

\* The end of the input, in any phase.
incoming_eof(st) == closed_transition(st)

-----------------------------------------------------------------------------
(* The liveness timer, called when its deadline has passed.                *)

next_timeout(st) == st.phase = "Connected" /\ st.next_ping

timer(st) ==
  IF ~next_timeout(st) THEN empty_transition(st)
  ELSE IF st.pending_liveness >= MaxPings THEN closed_transition(st)
  ELSE Emit(enqueue_ping([touch(st) EXCEPT !.pending_liveness = @ + 1],
                         Origin("Liveness")),
            << Ping >>)
=============================================================================
