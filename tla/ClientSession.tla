--------------------------- MODULE ClientSession ---------------------------
(***************************************************************************)
(* The protocol core of Client driven by a caller over a byte transport to *)
(* a NATS server, through any number of transport losses.                  *)
(*                                                                         *)
(* The caller writes every output in order, as the owner fiber of          *)
(* lib/eio/connection.ml does (apply_transition), keeps the PING of a      *)
(* flush issued while negotiating until the replacement CONNECT has been   *)
(* written (reconnect_pending), and calls prepare_reconnect after a loss.  *)
(* What was held is written on its own, and that write may fail when the   *)
(* core is Connected already.  A drain that is resumed after a reconnect,  *)
(* whose output the owner drops, is not part of this session: it is        *)
(* modelled in Connection.                                                 *)
(* As test/test_client.ml does, it may subscribe and flush before the      *)
(* first CONNECT as well.                                                  *)
(* The server is external: it is modelled by what the client relies on. It *)
(* handles operations in order, answers PING with PONG behind the messages *)
(* it has already sent, and ends a subscription on UNSUB or when it has    *)
(* sent the maximum the client asked for.                                  *)
(***************************************************************************)
EXTENDS Server

CONSTANTS
  Messages,  \* messages a caller may publish: [headers, size]
  Quotas,    \* the max_messages a caller may ask for
  MaxSid,    \* bound: subscriptions made
  MaxSent,   \* bound: messages the server sends on one transport
  MaxPending,\* bound: unanswered PINGs
  MaxWire,   \* bound: operations in flight in one direction
  MaxLosses  \* bound: transports lost, and redials that fail

ASSUME BoundsAssumption ==
  /\ {MaxSid, MaxSent, MaxPending, MaxWire, MaxLosses} \subseteq Nat
  /\ Quotas \subseteq Int

VARIABLES
  core,     \* the state of the protocol core
  up,       \* a transport is open
  settled,  \* the first CONNECT has been written (ready_promise)
  c2s,      \* operations written and not yet handled by the server
  s2c,      \* operations sent by the server and not yet read
  held,     \* output kept until the next CONNECT (reconnect_pending)
  server,   \* sid -> [max, sent], the subscriptions the server holds
  sent,     \* messages the server has sent on this transport
  losses,   \* transports lost so far
  granted,  \* history: sid -> deliveries allowed in total, None if unlimited
  received, \* history: sid -> deliveries made to the application
  raised,   \* history: sids whose quota was raised after it had been set
  dropped   \* history: barriers kept although their held PING was lost

vars == << core, up, settled, c2s, s2c, held, server, sent, losses, granted,
           received, raised, dropped >>

Zero == [s \in 1..MaxSid |-> 0]

Count(s, op) == Cardinality({i \in DOMAIN s : s[i].op = op})

Init ==
  /\ core = v
  /\ up = FALSE /\ settled = FALSE
  /\ c2s = <<>> /\ s2c = <<>> /\ held = <<>>
  /\ server = <<>> /\ sent = 0 /\ losses = 0
  /\ granted = [s \in 1..MaxSid |-> None]
  /\ received = Zero /\ raised = {} /\ dropped = 0

-----------------------------------------------------------------------------
(* The caller.                                                             *)

\* Take a successful transition: write the output, then keep its state.
ApplyWriting(t, output) ==
  /\ t.error = None
  /\ core' = t.state
  /\ c2s' = c2s \o output
  /\ Len(c2s') <= MaxWire
  /\ Len(core'.pending_pings) <= MaxPending

Apply(t) == ApplyWriting(t, t.output)

\* A transport that goes takes everything in flight with it.
LoseWire ==
  /\ up' = FALSE
  /\ c2s' = <<>> /\ s2c' = <<>> /\ server' = <<>> /\ sent' = 0

\* The caller is done with the core: it closes the transport (finish).
GiveUp(t) ==
  /\ t.state.phase = "Closed"
  /\ core' = t.state
  /\ held' = <<>>
  /\ LoseWire
  /\ UNCHANGED << settled, losses, granted, received, raised, dropped >>

CallerFrame == UNCHANGED << up, settled, s2c, server, sent, losses, dropped >>

Connected == up /\ core.phase = "Connected"

\* CONNECT and the replay, then what was held back during the handshake.
Connect ==
  LET t == outgoing_connect(core)
  IN  /\ up
      /\ ApplyWriting(t, t.output \o held)
      /\ held' = <<>>
      /\ settled' = TRUE
      /\ UNCHANGED << up, s2c, server, sent, losses, granted, received, raised,
                      dropped >>

\* CONNECT and the replay are written and the core is Connected, then the
\* write of what was held fails.  It was taken out of reconnect_pending before
\* it was written, and the failed attempt keeps the barriers.
HeldWriteFailed ==
  LET t == outgoing_connect(core)
  IN  /\ up /\ LoseWire
      /\ t.error = None
      /\ settled /\ held # <<>>
      /\ losses < MaxLosses
      /\ losses' = losses + 1
      /\ core' = prepare_reconnect(t.state, TRUE)
      /\ held' = <<>>
      /\ dropped' = dropped + Count(held, "PING")
      /\ UNCHANGED << settled, granted, received, raised >>

\* A replay the codec refuses is a protocol error: the caller gives up.
ConnectRefused ==
  /\ up /\ core.phase = "Awaiting_connect"
  /\ outgoing_connect(core).error # None
  /\ GiveUp(outgoing_close(core))

Publish(message) ==
  /\ Connected
  /\ Apply(outgoing_publish(core, message))
  /\ CallerFrame /\ UNCHANGED << held, granted, received, raised >>

Subscribe(subject) ==
  /\ core.next_sid <= MaxSid
  /\ Apply(outgoing_subscribe(core, subject))
  /\ CallerFrame /\ UNCHANGED << held, granted, received, raised >>

Unsubscribe(sid) ==
  /\ Apply(outgoing_unsubscribe(core, sid, None))
  /\ granted' = [granted EXCEPT ![sid] = received[sid]]
  /\ CallerFrame /\ UNCHANGED << held, received, raised >>

AutoUnsubscribe(sid, max_messages) ==
  /\ Apply(outgoing_auto_unsubscribe(core, sid, max_messages))
  /\ granted' = [granted EXCEPT ![sid] = IF max_messages > received[sid]
                                         THEN max_messages ELSE received[sid]]
  /\ raised' = IF granted[sid] # None /\ max_messages > granted[sid]
               THEN raised \cup {sid} ELSE raised
  /\ CallerFrame /\ UNCHANGED << held, received >>

DrainSubscription(sid) ==
  /\ Connected
  /\ Apply(outgoing_drain_subscription(core, sid))
  /\ CallerFrame /\ UNCHANGED << held, granted, received, raised >>

\* While negotiating, the PING is held; afterwards it is written at once.
Flush ==
  LET t == outgoing_flush(core)
  IN  /\ IF core.phase \in {"Awaiting_info", "Awaiting_connect"}
         THEN /\ held' = held \o t.output
              /\ ApplyWriting(t, <<>>)
         ELSE Apply(t) /\ UNCHANGED held
      /\ CallerFrame /\ UNCHANGED << granted, received, raised >>

Drain ==
  /\ Connected
  /\ Apply(outgoing_drain(core))
  /\ CallerFrame /\ UNCHANGED << held, granted, received, raised >>

Close ==
  /\ outgoing_close(core).error = None
  /\ GiveUp(outgoing_close(core))

Timer ==
  /\ up /\ next_timeout(core)
  /\ \/ /\ timer(core).state.phase # "Closed"
        /\ Apply(timer(core))
        /\ CallerFrame /\ UNCHANGED << held, granted, received, raised >>
     \/ GiveUp(timer(core))

Read ==
  LET t == handle_operation(core, Head(s2c))
  IN  /\ up /\ s2c # <<>>
      /\ Apply(t)
      /\ s2c' = Tail(s2c)
      /\ received' = [s \in 1..MaxSid |->
                        received[s] + IF t.deliveries = << s >> THEN 1 ELSE 0]
      /\ UNCHANGED << up, settled, held, server, sent, losses, granted, raised,
                      dropped >>

-----------------------------------------------------------------------------
(* The transport.                                                          *)

Dial(info) ==
  /\ ~up /\ core.phase = "Awaiting_info"
  /\ up' = TRUE
  /\ s2c' = << [op |-> "INFO", info |-> info] >>
  /\ UNCHANGED << core, settled, c2s, held, server, sent, losses, granted,
                  received, raised, dropped >>

\* An end of file first closes the core; an I/O error does not.
TransportLost(eof) ==
  /\ up /\ LoseWire
  /\ settled /\ core.phase = "Connected" /\ losses < MaxLosses
  /\ losses' = losses + 1
  /\ core' = prepare_reconnect(IF eof THEN incoming_eof(core).state ELSE core,
                               FALSE)
  /\ dropped' = 0
  /\ UNCHANGED << settled, held, granted, received, raised >>

\* A redial that fails before or in the write of CONNECT and the replay keeps
\* the barriers queued since the loss, and what is held for them.
RedialFailed ==
  /\ up /\ LoseWire
  /\ settled /\ core.phase \in {"Awaiting_info", "Awaiting_connect"}
  /\ losses < MaxLosses
  /\ losses' = losses + 1
  /\ core' = prepare_reconnect(core, TRUE)
  /\ UNCHANGED << settled, held, granted, received, raised, dropped >>

\* A loss that is not recovered from: before the first CONNECT, or draining.
EndOfFile ==
  /\ up
  /\ ~settled \/ core.phase = "Draining"
  /\ GiveUp(incoming_eof(core))

-----------------------------------------------------------------------------
(* The server (external).                                                  *)

ServerFrame ==
  UNCHANGED << core, up, settled, held, losses, granted, received, raised,
               dropped >>

ServerHandle ==
  LET op == Head(c2s)
  IN  /\ up /\ c2s # <<>>
      /\ c2s' = Tail(c2s)
      /\ server' = ServerDoes(server, op)
      /\ s2c' = IF op.op = "PING" THEN Append(s2c, Pong) ELSE s2c
      /\ Len(s2c') <= MaxWire
      /\ UNCHANGED sent
      /\ ServerFrame

ServerSend(sid) ==
  /\ up /\ sid \in DOMAIN server
  /\ sent < MaxSent /\ Len(s2c) < MaxWire
  /\ sent' = sent + 1
  /\ s2c' = Append(s2c, [op |-> "MSG", sid |-> sid])
  /\ server' = ServerSent(server, sid)
  /\ UNCHANGED c2s
  /\ ServerFrame

\* An unsolicited operation: a PING, an error, a notice or a fresh INFO.
ServerNotice(op) ==
  /\ up /\ Len(s2c) < MaxWire /\ sent < MaxSent
  /\ sent' = sent + 1
  /\ core.phase \in {"Connected", "Draining"} \/ op.op \in {"PING", "INFO"}
  /\ s2c' = Append(s2c, op)
  /\ UNCHANGED << c2s, server >>
  /\ ServerFrame

Notices == {[op |-> "PING"], [op |-> "OK"], [op |-> "ERR"]}
             \cup {[op |-> "INFO", info |-> i] : i \in Infos}

-----------------------------------------------------------------------------

Next ==
  \/ Connect
  \/ HeldWriteFailed
  \/ ConnectRefused
  \/ \E m \in Messages : Publish(m)
  \/ \E s \in Subjects : Subscribe(s)
  \/ \E sid \in 1..MaxSid : Unsubscribe(sid)
  \/ \E sid \in 1..MaxSid, n \in Quotas : AutoUnsubscribe(sid, n)
  \/ \E sid \in 1..MaxSid : DrainSubscription(sid)
  \/ Flush
  \/ Drain
  \/ Close
  \/ Timer
  \/ Read
  \/ \E i \in Infos : Dial(i)
  \/ \E eof \in BOOLEAN : TransportLost(eof)
  \/ RedialFailed
  \/ EndOfFile
  \/ ServerHandle
  \/ \E sid \in 1..MaxSid : ServerSend(sid)
  \/ \E op \in Notices : ServerNotice(op)

Spec == Init /\ [][Next]_vars

-----------------------------------------------------------------------------
(* Properties.                                                             *)

InFlight(s, sid) ==
  Cardinality({i \in DOMAIN s : s[i].op = "MSG" /\ s[i].sid = sid})

DrainPending(sid) ==
  \E i \in DOMAIN core.pending_pings :
     core.pending_pings[i] = SubscriptionDrain(sid)

Origins == [kind : {"Liveness", "Flush", "Drain"}, sid : {0}]
             \cup [kind : {"Subscription_drain"}, sid : Nat]

Subscription == [subject : Subjects, remaining : Nat \cup {None},
                 delivered : Nat]

\* A core is a record of exactly these fields.
IsCore(st) ==
  /\ st = [f \in DOMAIN st |-> st[f]]
  /\ DOMAIN st = {"phase", "info", "next_sid", "subscriptions", "draining",
                  "pending_pings", "pending_liveness", "next_ping"}

CoreType(st) ==
  /\ IsCore(st)
  /\ st.phase \in Phases
  /\ st.info \in Infos \cup {None}
  /\ st.next_sid \in Nat
  /\ st.subscriptions = [s \in DOMAIN st.subscriptions |-> st.subscriptions[s]]
  /\ DOMAIN st.subscriptions \subseteq Nat
  /\ \A s \in DOMAIN st.subscriptions : st.subscriptions[s] \in Subscription
  /\ st.draining \subseteq Nat
  /\ st.pending_pings \in Seq(Origins)
  /\ st.pending_liveness \in Nat
  /\ st.next_ping \in BOOLEAN

\* What the server sends.
ServerOps ==
  [op : {"INFO"}, info : Infos] \cup [op : {"MSG"}, sid : 1..MaxSid]
    \cup [op : {"PING", "PONG", "OK", "ERR"}]

\* Types of the core's fields, the input and the histories.
TypeOK ==
  /\ CoreType(core)
  /\ up \in BOOLEAN /\ settled \in BOOLEAN
  /\ sent \in 0..MaxSent /\ losses \in 0..MaxLosses
  /\ s2c \in Seq(ServerOps)
  /\ received \in [1..MaxSid -> Nat]
  /\ granted \in [1..MaxSid -> Nat \cup {None}]

\* In every phase past Awaiting_info there is an INFO; sids are not reused
\* and a quota in progress is at least one; while a handshake is under way
\* nothing is draining and only flushes wait; and a connection drain waits
\* only in a core that takes no more work.
Consistent(st) ==
  /\ st.phase \in {"Awaiting_connect", "Connected", "Draining"} => st.info # None
  /\ \A s \in DOMAIN st.subscriptions :
       /\ s < st.next_sid
       /\ st.subscriptions[s].remaining = None \/ st.subscriptions[s].remaining >= 1
  /\ st.phase \in {"Awaiting_info", "Awaiting_connect"}
       => /\ st.draining = {}
          /\ \A i \in DOMAIN st.pending_pings : st.pending_pings[i].kind = "Flush"
  /\ \A i \in DOMAIN st.pending_pings :
       st.pending_pings[i].kind = "Drain" => st.phase \in {"Draining", "Closed"}

\* What the core's own code takes for granted holds through any sequence of
\* commands, operations, losses and redials: the INFO that outgoing_connect
\* asserts is present ("None -> assert false"), the "Some 1" case that ends a
\* quota in incoming_message, fresh sids, and barriers of the right kinds.
CoreConsistent == Consistent(core)

\* Barriers that the core waits for (pending_pings) are settled by position, so
\* as many PINGs and PONGs must be on their way as barriers wait.  Since the
\* last loss of a connection they are exactly as many, over failed redials and
\* flushes made while negotiating, but for the barriers that outlived the
\* output held for them.  Those leave PONGs too few: each PONG is taken by a
\* barrier that many places ahead of the one whose PING it answers, and the
\* last ones wait.  There is never a PONG too many, so that no flush or drain
\* is settled by the answer to a PING sent before its own.
BarriersAligned ==
  core.phase # "Closed" =>
    Len(core.pending_pings) =
      Count(s2c, "PONG") + Count(c2s, "PING") + Count(held, "PING") + dropped

\* A subscription the core keeps is one the server still serves, or whose
\* remaining messages are on the way, or that is being drained: neither a
\* replay nor an auto-unsubscribe may leave a reader waiting for messages
\* the server will never send.  A quota that is raised is left out: the
\* server may have ended the subscription at the smaller one already.
SubscriptionServed ==
  Connected /\ c2s = <<>> =>
    \A sid \in DOMAIN core.subscriptions \ raised :
      \/ sid \in DOMAIN server
      \/ /\ core.subscriptions[sid].remaining # None
         /\ InFlight(s2c, sid) >= core.subscriptions[sid].remaining
      \/ DrainPending(sid)

\* Conversely the server keeps no unlimited subscription the core has
\* forgotten, and none once a connection drain reached it, over losses and
\* redials.  A limited one may be left: an auto-unsubscribe made after a
\* reconnect sends the total, of which the new server has seen nothing yet.
\* It supposes a caller that writes every output: the owner drops that of a
\* resumed drain, and does leave the server's subscription behind (Connection).
NoOrphan ==
  up /\ c2s = <<>> =>
    \A sid \in DOMAIN server :
      server[sid].max = None =>
        /\ core.phase = "Connected" => sid \in DOMAIN core.subscriptions
        /\ core.phase # "Draining"

\* Unsubscribe and auto-unsubscribe bound what the application receives, in
\* total and over reconnects, whatever was in flight when they were called.
QuotaHonoured ==
  \A sid \in 1..MaxSid : granted[sid] # None => received[sid] <= granted[sid]

\* When the PONG of a drain settles it, nothing that the server sent for the
\* drained subscription (every subscription the core still has, for a
\* connection drain) is unread: UNSUB went ahead of PING and the transport is
\* ordered.  It supposes a caller that writes every output: the owner drops the
\* UNSUB and the PING of a resumed drain (Connection).
DrainLosesNothing ==
  [][\A i \in DOMAIN core.pending_pings :
       LET origin == core.pending_pings[i]
       IN  i = 1 /\ core'.pending_pings = Tail(core.pending_pings)
             => /\ origin.kind = "Drain"
                     => \A sid \in DOMAIN core.subscriptions : InFlight(s2c', sid) = 0
                /\ origin.kind = "Subscription_drain"
                     => InFlight(s2c', origin.sid) = 0]_vars

\* The liveness timer gives up on a server only when that many PINGs really
\* are unanswered, whoever sent them and whatever else arrives.
StaleMeansUnanswered ==
  [][Timer /\ core'.phase = "Closed" =>
       Count(c2s, "PING") + Count(s2c, "PONG") >= MaxPings]_vars
=============================================================================
