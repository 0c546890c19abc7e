------------------------ MODULE ClientSession_proofs ------------------------
(***************************************************************************)
(* For every set of subjects, messages, INFO records, quotas and bounds,   *)
(* and through every loss and redial:                                      *)
(*                                                                         *)
(*  - the core is well typed and consistent, the barriers it waits for     *)
(*    are as many as the PINGs and PONGs on their way and the barriers     *)
(*    that outlived the output held for them, and a server that is given   *)
(*    up for its silence has left as many PINGs unanswered.  The last two  *)
(*    speak of what is written and not yet handled, so the first half of   *)
(*    this module is about the sequences in flight: what the wire holds,   *)
(*    how often, and what each function of client.ml adds to it;           *)
(*                                                                         *)
(*  - no more than its quota is delivered to a subscription, the server    *)
(*    keeps no unlimited one that the core has forgotten and ends none     *)
(*    that the core still has in good standing, and a drain that is        *)
(*    settled has lost no message.  The last word written on a sid is what *)
(*    the server will hold once it has handled it.  These suppose a caller *)
(*    that writes every output, which the owner of lib/eio/connection.ml   *)
(*    does but for a drain that it resumes after a reconnect.              *)
(***************************************************************************)
EXTENDS ClientSession, SequenceLemmas, TLAPS

-----------------------------------------------------------------------------
(* Types and consistency of the core.                                      *)


\* The inductive invariant, as a predicate on core states: each function of
\* lib/client.ml takes a good core to a good core.
Good(st) == CoreType(st) /\ Consistent(st)


\* Subscriptions that are well typed, old enough and have quotas left.
GoodSubs(subs, next_sid) ==
  /\ subs = [s \in DOMAIN subs |-> subs[s]]
  /\ DOMAIN subs \subseteq Nat
  /\ \A s \in DOMAIN subs :
       /\ subs[s] \in Subscription /\ s < next_sid
       /\ subs[s].remaining = None \/ subs[s].remaining >= 1

\* Barriers that may wait in phase p.
GoodPings(pings, p) ==
  /\ pings \in Seq(Origins)
  /\ p \in {"Awaiting_info", "Awaiting_connect"}
       => \A i \in DOMAIN pings : pings[i].kind = "Flush"
  /\ \A i \in DOMAIN pings :
       pings[i].kind = "Drain" => p \in {"Draining", "Closed"}

\* Fields of a good core.
GoodParts(p, i, n, subs, d, pings, l, b) ==
  /\ p \in Phases /\ i \in Infos \cup {None} /\ n \in Nat /\ l \in Nat
  /\ b \in BOOLEAN /\ d \subseteq Nat
  /\ p \in {"Awaiting_connect", "Connected", "Draining"} => i # None
  /\ p \in {"Awaiting_info", "Awaiting_connect"} => d = {}
  /\ GoodSubs(subs, n) /\ GoodPings(pings, p)

Parts(st) == GoodParts(st.phase, st.info, st.next_sid, st.subscriptions,
                       st.draining, st.pending_pings, st.pending_liveness,
                       st.next_ping)

LEMMA GoodByParts == ASSUME NEW st PROVE Good(st) <=> IsCore(st) /\ Parts(st)
<1>1. ASSUME Good(st) PROVE IsCore(st) /\ Parts(st)
  <2>1. GoodSubs(st.subscriptions, st.next_sid)
    BY <1>1 DEF Good, CoreType, Consistent, GoodSubs
  <2>2. GoodPings(st.pending_pings, st.phase)
    BY <1>1 DEF Good, CoreType, Consistent, GoodPings
  <2> QED BY <1>1, <2>1, <2>2 DEF Good, CoreType, Consistent, Parts, GoodParts
<1>2. ASSUME IsCore(st), Parts(st) PROVE Good(st)
  <2>1. CoreType(st) BY <1>2 DEF CoreType, Parts, GoodParts, GoodSubs, GoodPings
  <2>2. Consistent(st) BY <1>2 DEF Consistent, Parts, GoodParts, GoodSubs, GoodPings
  <2> QED BY <2>1, <2>2 DEF Good
<1> QED BY <1>1, <1>2

\* One equation per field: how a new core differs from st.
Fields(st, p, i, n, subs, d, pings, l, b) ==
  /\ IsCore(st)
  /\ st.phase = p /\ st.info = i /\ st.next_sid = n /\ st.subscriptions = subs
  /\ st.draining = d /\ st.pending_pings = pings /\ st.pending_liveness = l
  /\ st.next_ping = b

LEMMA GoodByFields ==
  ASSUME NEW st, NEW p, NEW i, NEW n, NEW subs, NEW d, NEW pings, NEW l, NEW b,
         Fields(st, p, i, n, subs, d, pings, l, b),
         GoodParts(p, i, n, subs, d, pings, l, b)
  PROVE  Good(st)
  BY GoodByParts DEF Fields, Parts

LEMMA VGood == Good(v)
<1>1. GoodParts("Awaiting_info", None, 1, <<>>, {}, <<>>, 0, FALSE)
  BY DEF GoodParts, GoodSubs, GoodPings, Phases
<1>2. Fields(v, "Awaiting_info", None, 1, <<>>, {}, <<>>, 0, FALSE)
  BY DEF v, Fields, IsCore
<1> QED BY <1>1, <1>2, GoodByFields

-----------------------------------------------------------------------------
(* Helpers on the state.                                                   *)

LEMMA TouchGood ==
  ASSUME NEW st, Good(st)
  PROVE  Good(touch(st)) /\ touch(st).phase = st.phase
<1>1. Fields(touch(st), st.phase, st.info, st.next_sid, st.subscriptions,
             st.draining, st.pending_pings, st.pending_liveness, PingInterval)
  BY GoodByParts DEF touch, Fields, IsCore
<1>2. GoodParts(st.phase, st.info, st.next_sid, st.subscriptions, st.draining,
                st.pending_pings, st.pending_liveness, PingInterval)
  BY GoodByParts, PingAssumption DEF GoodParts, Parts
<1> QED BY <1>1, <1>2, GoodByFields DEF Fields

\* Replacing the subscriptions, and the drains that are under way.
LEMMA SetSubsGood ==
  ASSUME NEW st, Good(st), NEW subs, NEW n \in Nat, GoodSubs(subs, n),
         NEW d \in SUBSET Nat,
         st.phase \in {"Awaiting_info", "Awaiting_connect"} => d = {},
         NEW new, Fields(new, st.phase, st.info, n, subs, d, st.pending_pings,
                         st.pending_liveness, st.next_ping)
  PROVE  Good(new)
<1>1. GoodParts(st.phase, st.info, n, subs, d, st.pending_pings,
                st.pending_liveness, st.next_ping)
  BY GoodByParts DEF GoodParts, Parts
<1> QED BY <1>1, GoodByFields

LEMMA RemoveGood ==
  ASSUME NEW subs, NEW n, GoodSubs(subs, n), NEW sid
  PROVE  GoodSubs(remove_subscription(sid, subs), n)
  BY DEF GoodSubs, remove_subscription

LEMMA ForgetGood ==
  ASSUME NEW st, Good(st), NEW sid PROVE Good(forget_subscription(st, sid))
<1> DEFINE subs == remove_subscription(sid, st.subscriptions)
           d    == st.draining \ {sid}
           new  == forget_subscription(st, sid)
<1>1. GoodSubs(subs, st.next_sid)
  BY GoodByParts, RemoveGood DEF Parts, GoodParts
<1>2. /\ st.next_sid \in Nat /\ d \in SUBSET Nat
      /\ st.phase \in {"Awaiting_info", "Awaiting_connect"} => d = {}
  BY GoodByParts DEF Parts, GoodParts
<1>3. Fields(new, st.phase, st.info, st.next_sid, subs, d, st.pending_pings,
             st.pending_liveness, st.next_ping)
  BY GoodByParts DEF forget_subscription, Fields, IsCore
<1> HIDE DEF subs, d, new
<1>4. Good(new) BY <1>1, <1>2, <1>3, SetSubsGood
<1> QED BY <1>4 DEF new

LEMMA ClosedGood ==
  ASSUME NEW st, Good(st)
  PROVE  Good(closed_transition(st).state)
<1>1. Fields(closed_transition(st).state, "Closed", st.info, st.next_sid,
             st.subscriptions, st.draining, st.pending_pings,
             st.pending_liveness, FALSE)
  BY GoodByParts DEF closed_transition, Transition, Fields, IsCore
<1>2. GoodParts("Closed", st.info, st.next_sid, st.subscriptions, st.draining,
                st.pending_pings, st.pending_liveness, FALSE)
  BY GoodByParts DEF Parts, GoodParts, GoodPings, Phases
<1> QED BY <1>1, <1>2, GoodByFields

\* Barriers are kept over a redial only where they are all flushes.
LEMMA ReconnectGood ==
  ASSUME NEW st, Good(st), NEW preserve \in BOOLEAN,
         preserve => st.phase \in {"Awaiting_info", "Awaiting_connect"}
  PROVE  Good(prepare_reconnect(st, preserve))
<1> DEFINE pings == IF preserve THEN st.pending_pings ELSE <<>>
<1>1. Fields(prepare_reconnect(st, preserve), "Awaiting_info", None,
             st.next_sid, st.subscriptions, {}, pings, 0, FALSE)
  BY GoodByParts DEF prepare_reconnect, kept_pings, Fields, IsCore
<1>2. GoodPings(pings, "Awaiting_info")
  <2>1. CASE preserve
    BY <2>1, GoodByParts DEF Parts, GoodParts, GoodPings
  <2>2. CASE ~preserve
    BY <2>2 DEF GoodPings
  <2> QED BY <2>1, <2>2
<1> HIDE DEF pings
<1>3. GoodParts("Awaiting_info", None, st.next_sid, st.subscriptions, {},
                pings, 0, FALSE)
  BY <1>2, GoodByParts DEF Parts, GoodParts, Phases
<1> QED BY <1>1, <1>3, GoodByFields

\* A barrier joins the queue: only a flush while a handshake is under way,
\* and a connection drain only in a draining core.
LEMMA EnqueueGood ==
  ASSUME NEW st, Good(st), NEW origin \in Origins,
         st.phase \in {"Awaiting_info", "Awaiting_connect"}
           => origin.kind = "Flush",
         origin.kind = "Drain" => st.phase \in {"Draining", "Closed"}
  PROVE  Good(enqueue_ping(st, origin))
<1> DEFINE pings == Append(st.pending_pings, origin)
<1>1. Fields(enqueue_ping(st, origin), st.phase, st.info, st.next_sid,
             st.subscriptions, st.draining, pings, st.pending_liveness,
             st.next_ping)
  BY GoodByParts DEF enqueue_ping, Fields, IsCore
<1>2. st.pending_pings \in Seq(Origins) /\ GoodPings(st.pending_pings, st.phase)
  BY GoodByParts DEF Parts, GoodParts, GoodPings
<1>3. /\ pings \in Seq(Origins)
      /\ \A i \in DOMAIN pings :
           \/ i \in DOMAIN st.pending_pings /\ pings[i] = st.pending_pings[i]
           \/ pings[i] = origin
  BY <1>2
<1> HIDE DEF pings
<1>4. GoodPings(pings, st.phase) BY <1>2, <1>3 DEF GoodPings
<1>5. GoodParts(st.phase, st.info, st.next_sid, st.subscriptions, st.draining,
                pings, st.pending_liveness, st.next_ping)
  BY <1>4, GoodByParts DEF Parts, GoodParts
<1> QED BY <1>1, <1>5, GoodByFields

-----------------------------------------------------------------------------
(* Commands: one that succeeds leaves a good core.                         *)

LEMMA PhaseErrorNamed == ASSUME NEW st PROVE PhaseError(st) \in Errors
<1>1. CASE st.phase = "Draining" BY <1>1 DEF PhaseError, Errors
<1>2. CASE st.phase = "Closed" BY <1>2 DEF PhaseError, Errors
<1>3. CASE st.phase # "Draining" /\ st.phase # "Closed" BY <1>3 DEF PhaseError, Errors
<1> QED BY <1>1, <1>2, <1>3

LEMMA ConnectGood ==
  ASSUME NEW st, Good(st), outgoing_connect(st).error = None
  PROVE  Good(outgoing_connect(st).state)
<1>0. None # "Info_not_received" /\ None # "Already_connected"
      /\ None # "Codec" /\ None # PhaseError(st)
  BY NoneAssumption, PhaseErrorNamed DEF Errors
<1>1. st.phase = "Awaiting_connect"
  BY <1>0, GoodByParts DEF Parts, GoodParts, Phases, outgoing_connect, Failure
<1>2. outgoing_connect(st).state = [st EXCEPT !.phase = "Connected"]
  BY <1>0, <1>1 DEF outgoing_connect, Failure, Transition
<1>3. Fields([st EXCEPT !.phase = "Connected"], "Connected", st.info,
             st.next_sid, st.subscriptions, st.draining, st.pending_pings,
             st.pending_liveness, st.next_ping)
  BY GoodByParts DEF Fields, IsCore
<1>4. GoodParts("Connected", st.info, st.next_sid, st.subscriptions,
                st.draining, st.pending_pings, st.pending_liveness,
                st.next_ping)
  BY <1>1, GoodByParts DEF Parts, GoodParts, GoodPings, Phases
<1> QED BY <1>2, <1>3, <1>4, GoodByFields

LEMMA PublishGood ==
  ASSUME NEW st, Good(st), NEW message
  PROVE  Good(outgoing_publish(st, message).state)
  BY DEF outgoing_publish, Failure, Emit, Transition

LEMMA SubscribeGood ==
  ASSUME NEW st, Good(st), NEW subject \in Subjects
  PROVE  Good(outgoing_subscribe(st, subject).state)
<1> DEFINE sid  == st.next_sid
           fresh == [subject |-> subject, remaining |-> None, delivered |-> 0]
           subs == [s \in DOMAIN st.subscriptions \cup {sid} |->
                      IF s = sid THEN fresh ELSE st.subscriptions[s]]
           new  == [st EXCEPT !.next_sid = sid + 1, !.subscriptions = subs]
<1>1. /\ sid \in Nat /\ GoodSubs(st.subscriptions, sid) /\ st.draining \in SUBSET Nat
      /\ st.phase \in {"Awaiting_info", "Awaiting_connect"} => st.draining = {}
  BY GoodByParts DEF Parts, GoodParts
<1>2. fresh \in Subscription /\ fresh.remaining = None BY DEF Subscription
<1>3. Fields(new, st.phase, st.info, sid + 1, subs, st.draining,
             st.pending_pings, st.pending_liveness, st.next_ping)
  <2> HIDE DEF subs, sid
  <2> QED BY GoodByParts DEF Fields, IsCore
<1>4. GoodSubs(subs, sid + 1)
  <2> HIDE DEF fresh, sid
  <2> QED BY <1>1, <1>2 DEF GoodSubs
<1>5. Good(new)
  <2> HIDE DEF new, subs, sid
  <2> QED BY <1>1, <1>3, <1>4, SetSubsGood
<1>6. outgoing_subscribe(st, subject).state \in {new, st}
  <2> HIDE DEF Good
  <2> QED BY DEF outgoing_subscribe, Failure, Transition
<1> HIDE DEF new
<1> QED BY <1>5, <1>6

LEMMA UnsubscribeGood ==
  ASSUME NEW st, Good(st), NEW sid \in Nat, NEW max_messages \in Int \cup {None}
  PROVE  Good(outgoing_unsubscribe(st, sid, max_messages).state)
<1> DEFINE sub  == st.subscriptions[sid]
           ends == max_messages = None \/ sub.delivered >= max_messages
           subs == IF ends THEN remove_subscription(sid, st.subscriptions)
                   ELSE [st.subscriptions EXCEPT
                           ![sid].remaining = max_messages - sub.delivered]
           d    == st.draining \ {sid}
           new  == [st EXCEPT !.subscriptions = subs, !.draining = @ \ {sid}]
<1>1. CASE sid \notin DOMAIN st.subscriptions
  BY <1>1 DEF outgoing_unsubscribe, Failure
<1>2. CASE sid \in DOMAIN st.subscriptions
  <2>1. /\ st.next_sid \in Nat /\ GoodSubs(st.subscriptions, st.next_sid)
        /\ d \in SUBSET Nat
        /\ st.phase \in {"Awaiting_info", "Awaiting_connect"} => d = {}
    BY GoodByParts DEF Parts, GoodParts
  <2>2. GoodSubs(subs, st.next_sid)
    <3>1. CASE ends
      BY <2>1, <3>1, RemoveGood
    <3>2. CASE ~ends
      <4> DEFINE m == max_messages - sub.delivered
      <4>1. sub \in Subscription /\ max_messages \in Int /\ sub.delivered \in Int
        BY <1>2, <2>1, <3>2 DEF GoodSubs, Subscription
      <4>2. m \in Int /\ m >= 1
        <5> HIDE DEF sub
        <5> QED BY <3>2, <4>1
      <4>3. subs = [st.subscriptions EXCEPT ![sid] = [sub EXCEPT !.remaining = m]]
        BY <3>2
      <4> HIDE DEF m, subs, ends
      <4>4. [sub EXCEPT !.remaining = m] \in Subscription
            /\ [sub EXCEPT !.remaining = m].remaining = m
        BY <4>1, <4>2 DEF Subscription
      <4> HIDE DEF sub
      <4> QED BY <1>2, <2>1, <4>2, <4>3, <4>4 DEF GoodSubs
    <3> QED BY <3>1, <3>2
  <2>3. Fields(new, st.phase, st.info, st.next_sid, subs, d, st.pending_pings,
               st.pending_liveness, st.next_ping)
    <3> HIDE DEF subs
    <3> QED BY GoodByParts DEF Fields, IsCore
  <2>4. Good(new)
    <3> HIDE DEF new, subs, d
    <3> QED BY <2>1, <2>2, <2>3, SetSubsGood
  <2>5. outgoing_unsubscribe(st, sid, max_messages).state \in {new, st}
    BY <1>2 DEF outgoing_unsubscribe, quota_left, Failure, Emit, empty_transition,
             Transition
  <2> HIDE DEF new
  <2> QED BY <2>4, <2>5
<1> QED BY <1>1, <1>2

LEMMA AutoUnsubscribeGood ==
  ASSUME NEW st, Good(st), NEW sid \in Nat, NEW n \in Int
  PROVE  Good(outgoing_auto_unsubscribe(st, sid, n).state)
  BY UnsubscribeGood DEF outgoing_auto_unsubscribe, Failure

LEMMA DrainSubscriptionGood ==
  ASSUME NEW st, Good(st), NEW sid \in Nat
  PROVE  Good(outgoing_drain_subscription(st, sid).state)
<1> DEFINE d    == st.draining \cup {sid}
           with == [st EXCEPT !.draining = @ \cup {sid}]
           new  == enqueue_ping(with, SubscriptionDrain(sid))
<1>1. CASE st.phase # "Connected"
  BY <1>1 DEF outgoing_drain_subscription, Failure
<1>2. CASE st.phase = "Connected"
  <2>1. Good(with)
    <3>1. /\ st.next_sid \in Nat /\ GoodSubs(st.subscriptions, st.next_sid)
          /\ d \in SUBSET Nat
      BY GoodByParts DEF Parts, GoodParts
    <3>2. Fields(with, st.phase, st.info, st.next_sid, st.subscriptions, d,
                 st.pending_pings, st.pending_liveness, st.next_ping)
      BY GoodByParts DEF Fields, IsCore
    <3> HIDE DEF with, d
    <3> QED BY <1>2, <3>1, <3>2, SetSubsGood
  <2>2. with.phase = "Connected" BY <1>2, GoodByParts DEF IsCore
  <2>3. SubscriptionDrain(sid) \in Origins
        /\ SubscriptionDrain(sid).kind = "Subscription_drain"
    BY DEF SubscriptionDrain, Origins
  <2>4. Good(new)
    <3> HIDE DEF with
    <3> QED BY <2>1, <2>2, <2>3, EnqueueGood
  <2>5. outgoing_drain_subscription(st, sid).state \in {new, st}
    <3> HIDE DEF with
    <3> QED BY DEF outgoing_drain_subscription, Failure, Emit, Transition, with
  <2> HIDE DEF new
  <2> QED BY <2>4, <2>5
<1> QED BY <1>1, <1>2

LEMMA FlushGood ==
  ASSUME NEW st, Good(st)
  PROVE  Good(outgoing_flush(st).state)
<1>1. Origin("Flush") \in Origins /\ Origin("Flush").kind = "Flush"
  BY DEF Origin, Origins
<1>2. Good(enqueue_ping(st, Origin("Flush"))) BY <1>1, EnqueueGood
<1> QED BY <1>2 DEF outgoing_flush, Failure, Emit, Transition

LEMMA DrainGood ==
  ASSUME NEW st, Good(st)
  PROVE  Good(outgoing_drain(st).state)
<1> DEFINE with == [st EXCEPT !.phase = "Draining"]
           new  == enqueue_ping(with, Origin("Drain"))
<1>1. CASE st.phase # "Connected"
  BY <1>1 DEF outgoing_drain, Failure
<1>2. CASE st.phase = "Connected"
  <2>1. Fields(with, "Draining", st.info, st.next_sid, st.subscriptions,
               st.draining, st.pending_pings, st.pending_liveness, st.next_ping)
    BY GoodByParts DEF Fields, IsCore
  <2>2. GoodParts("Draining", st.info, st.next_sid, st.subscriptions,
                  st.draining, st.pending_pings, st.pending_liveness,
                  st.next_ping)
    BY <1>2, GoodByParts DEF Parts, GoodParts, GoodPings, Phases
  <2>3. Good(with) /\ with.phase = "Draining"
    BY <2>1, <2>2, GoodByFields DEF Fields
  <2>4. Origin("Drain") \in Origins /\ Origin("Drain").kind = "Drain"
    BY DEF Origin, Origins
  <2>5. Good(new)
    <3> HIDE DEF with
    <3> QED BY <2>3, <2>4, EnqueueGood
  <2>6. outgoing_drain(st).state = new
    BY <1>2 DEF outgoing_drain, Transition
  <2> QED BY <2>5, <2>6
<1> QED BY <1>1, <1>2

-----------------------------------------------------------------------------
(* Received operations and the timer.                                      *)

LEMMA MessageGood ==
  ASSUME NEW st, Good(st), NEW sid \in Nat
  PROVE  Good(incoming_message(st, sid).state)
<1> DEFINE sub  == st.subscriptions[sid]
           more == [sub EXCEPT !.delivered = @ + 1]
           less == [subject   |-> sub.subject,
                    remaining |-> sub.remaining - 1,
                    delivered |-> sub.delivered + 1]
           subs == IF sub.remaining = None
                   THEN [st.subscriptions EXCEPT ![sid].delivered = @ + 1]
                   ELSE IF last_of_quota(sub.remaining)
                   THEN remove_subscription(sid, st.subscriptions)
                   ELSE [st.subscriptions EXCEPT ![sid] = less]
           new  == [st EXCEPT !.subscriptions = subs]
<1>1. CASE sid \notin DOMAIN st.subscriptions
  BY <1>1 DEF incoming_message, empty_transition, Emit, Transition
<1>2. CASE sid \in DOMAIN st.subscriptions
  <2>1. /\ st.next_sid \in Nat /\ GoodSubs(st.subscriptions, st.next_sid)
        /\ st.draining \in SUBSET Nat
        /\ st.phase \in {"Awaiting_info", "Awaiting_connect"} => st.draining = {}
    BY GoodByParts DEF Parts, GoodParts
  <2>2. sub \in Subscription /\ (sub.remaining = None \/ sub.remaining >= 1)
    BY <1>2, <2>1 DEF GoodSubs
  <2>3. GoodSubs(subs, st.next_sid)
    <3>1. CASE sub.remaining = None
      <4>1. subs = [st.subscriptions EXCEPT ![sid] = more] BY <3>1
      <4>2. more \in Subscription /\ more.remaining = None
        BY <2>2, <3>1 DEF Subscription
      <4> HIDE DEF more, subs
      <4> QED BY <1>2, <2>1, <4>1, <4>2 DEF GoodSubs
    <3>2. CASE sub.remaining # None /\ sub.remaining = 1
      <4>1. subs = remove_subscription(sid, st.subscriptions)
        BY <3>2 DEF last_of_quota
      <4> HIDE DEF subs
      <4> QED BY <2>1, <4>1, RemoveGood
    <3>3. CASE sub.remaining # None /\ sub.remaining # 1
      <4>1. subs = [st.subscriptions EXCEPT ![sid] = less]
        BY <1>2, <3>3 DEF last_of_quota
      <4>2. /\ sub.remaining \in Nat /\ sub.delivered \in Nat
            /\ sub.subject \in Subjects /\ sub.remaining >= 1
        BY <2>2, <3>3 DEF Subscription
      <4>3. less \in Subscription /\ less.remaining >= 1
        <5> HIDE DEF sub
        <5> QED BY <3>3, <4>2 DEF Subscription
      <4> HIDE DEF less, subs
      <4> QED BY <1>2, <2>1, <4>1, <4>3 DEF GoodSubs
    <3> QED BY <3>1, <3>2, <3>3
  <2>4. Fields(new, st.phase, st.info, st.next_sid, subs, st.draining,
               st.pending_pings, st.pending_liveness, st.next_ping)
    <3> HIDE DEF subs
    <3> QED BY GoodByParts DEF Fields, IsCore
  <2>5. Good(new)
    <3> HIDE DEF new, subs
    <3> QED BY <2>1, <2>3, <2>4, SetSubsGood
  <2>6. incoming_message(st, sid).state = touch(new)
    BY <1>2 DEF incoming_message, Transition
  <2> HIDE DEF new
  <2> QED BY <2>5, <2>6, TouchGood
<1> QED BY <1>1, <1>2

LEMMA InfoGood ==
  ASSUME NEW st, Good(st), NEW info \in Infos
  PROVE  Good(incoming_info(st, info).state)
<1> DEFINE p   == IF st.phase = "Awaiting_info" THEN "Awaiting_connect"
                  ELSE st.phase
           new == [st EXCEPT !.info = info,
                             !.phase = IF @ = "Awaiting_info"
                                       THEN "Awaiting_connect" ELSE @]
<1>1. Fields(new, p, info, st.next_sid, st.subscriptions, st.draining,
             st.pending_pings, st.pending_liveness, st.next_ping)
  BY GoodByParts DEF Fields, IsCore
<1>2. GoodParts(p, info, st.next_sid, st.subscriptions, st.draining,
                st.pending_pings, st.pending_liveness, st.next_ping)
  BY GoodByParts, NoneAssumption DEF Parts, GoodParts, GoodPings, Phases
<1>3. Good(new)
  <2> HIDE DEF new, p
  <2> QED BY <1>1, <1>2, GoodByFields
<1>4. incoming_info(st, info).state = touch(new)
  BY DEF incoming_info, Transition
<1> HIDE DEF new
<1> QED BY <1>3, <1>4, TouchGood

\* A PONG clears the liveness count, and settles the oldest barrier.
LEMMA PongGood ==
  ASSUME NEW st, Good(st), st.phase \in {"Connected", "Draining"}
  PROVE  Good(incoming_pong(st).state)
<1> DEFINE now      == answered(st)
           pings    == Tail(st.pending_pings)
           popped   == [now EXCEPT !.pending_pings = Tail(@)]
           origin   == Head(st.pending_pings)
           emptied  == [popped EXCEPT !.subscriptions = <<>>, !.draining = {}]
<1>1. Fields(now, st.phase, st.info, st.next_sid, st.subscriptions,
             st.draining, st.pending_pings, 0, st.next_ping)
  BY GoodByParts DEF answered, Fields, IsCore
<1>2. GoodParts(st.phase, st.info, st.next_sid, st.subscriptions, st.draining,
                st.pending_pings, 0, st.next_ping)
  BY GoodByParts DEF Parts, GoodParts
<1>3. Good(now) BY <1>1, <1>2, GoodByFields
<1>4. CASE st.pending_pings = <<>>
  <2>1. incoming_pong(st).state = touch(now)
    BY <1>4 DEF incoming_pong, Transition
  <2> HIDE DEF now
  <2> QED BY <1>3, <2>1, TouchGood
<1>5. CASE st.pending_pings # <<>>
  <2>1. st.pending_pings \in Seq(Origins) /\ GoodPings(st.pending_pings, st.phase)
    BY GoodByParts DEF Parts, GoodParts, GoodPings
  <2>2. /\ pings \in Seq(Origins)
        /\ \A i \in DOMAIN pings : i + 1 \in DOMAIN st.pending_pings
                                   /\ pings[i] = st.pending_pings[i + 1]
    BY <1>5, <2>1
  <2>3. GoodPings(pings, st.phase)
    <3> HIDE DEF pings
    <3> QED BY <2>1, <2>2 DEF GoodPings
  <2>4. Fields(popped, st.phase, st.info, st.next_sid, st.subscriptions,
               st.draining, pings, 0, st.next_ping)
    BY <1>1 DEF Fields, IsCore
  <2>5. GoodParts(st.phase, st.info, st.next_sid, st.subscriptions,
                  st.draining, pings, 0, st.next_ping)
    <3> HIDE DEF pings
    <3> QED BY <1>2, <2>3 DEF GoodParts
  <2>6. Good(popped)
    <3> HIDE DEF popped, pings
    <3> QED BY <2>4, <2>5, GoodByFields
  <2>7. CASE origin.kind = "Drain"
    <3>1. Fields(emptied, st.phase, st.info, st.next_sid, <<>>, {}, pings, 0,
                 st.next_ping)
      <4> HIDE DEF popped, pings
      <4> QED BY <2>4 DEF Fields, IsCore
    <3>2. GoodParts(st.phase, st.info, st.next_sid, <<>>, {}, pings, 0,
                    st.next_ping)
      <4> HIDE DEF pings
      <4> QED BY <2>5 DEF GoodParts, GoodSubs
    <3>3. Good(emptied)
      <4> HIDE DEF emptied, pings
      <4> QED BY <3>1, <3>2, GoodByFields
    <3>4. incoming_pong(st).state = touch(emptied)
      BY <1>5, <2>7 DEF incoming_pong, Transition
    <3> HIDE DEF emptied
    <3> QED BY <3>3, <3>4, TouchGood
  <2>8. CASE origin.kind = "Subscription_drain"
    <3>1. incoming_pong(st).state = touch(forget_subscription(popped, origin.sid))
      BY <1>5, <2>8 DEF incoming_pong, Transition
    <3> HIDE DEF popped, origin
    <3> QED BY <2>6, <3>1, ForgetGood, TouchGood
  <2>9. CASE origin.kind # "Drain" /\ origin.kind # "Subscription_drain"
    <3>1. incoming_pong(st).state = touch(popped)
      BY <1>5, <2>9 DEF incoming_pong, Transition
    <3> HIDE DEF popped
    <3> QED BY <2>6, <3>1, TouchGood
  <2> QED BY <2>7, <2>8, <2>9
<1> QED BY <1>4, <1>5

LEMMA OperationGood ==
  ASSUME NEW st, Good(st), NEW op \in ServerOps
  PROVE  Good(handle_operation(st, op).state)
<1>0. MaxSid \in Nat BY BoundsAssumption
<1>1. CASE st.phase = "Closed"
  BY <1>1 DEF handle_operation, Failure
<1>2. CASE st.phase # "Closed" /\ op.op = "INFO"
  <2>1. op.info \in Infos BY <1>2 DEF ServerOps
  <2>2. handle_operation(st, op) = incoming_info(st, op.info)
    BY <1>2 DEF handle_operation
  <2> QED BY <2>1, <2>2, InfoGood
<1>3. CASE st.phase # "Closed" /\ op.op = "PING"
  <2>1. handle_operation(st, op) = Emit(touch(st), << Pong >>)
    BY <1>3 DEF handle_operation
  <2> QED BY <2>1, TouchGood DEF Emit, Transition
<1>4. CASE st.phase \in {"Connected", "Draining"} /\ op.op = "PONG"
  <2>1. handle_operation(st, op) = incoming_pong(st)
    BY <1>4 DEF handle_operation
  <2> QED BY <1>4, <2>1, PongGood
<1>5. CASE st.phase \in {"Connected", "Draining"} /\ op.op = "OK"
  <2>1. handle_operation(st, op).state = touch(st)
    BY <1>5 DEF handle_operation, Transition
  <2> QED BY <2>1, TouchGood
<1>6. CASE st.phase \in {"Connected", "Draining"} /\ op.op = "ERR"
  <2>1. handle_operation(st, op).state = touch(st)
    BY <1>6 DEF handle_operation, Transition
  <2> QED BY <2>1, TouchGood
<1>7. CASE st.phase \in {"Connected", "Draining"} /\ op.op = "MSG"
  <2>1. op.sid \in Nat BY <1>0, <1>7 DEF ServerOps
  <2>2. handle_operation(st, op) = incoming_message(st, op.sid)
    BY <1>7 DEF handle_operation
  <2> QED BY <2>1, <2>2, MessageGood
<1>8. CASE st.phase \notin {"Connected", "Draining", "Closed"}
           /\ op.op \notin {"INFO", "PING"}
  <2>1. handle_operation(st, op).state = st
    BY <1>8 DEF handle_operation, Failure
  <2> QED BY <2>1
<1>9. op.op \in {"INFO", "PING", "PONG", "OK", "ERR", "MSG"} BY DEF ServerOps
<1> QED BY <1>1, <1>2, <1>3, <1>4, <1>5, <1>6, <1>7, <1>8, <1>9

LEMMA TimerGood == ASSUME NEW st, Good(st) PROVE Good(timer(st).state)
<1> DEFINE counted == [touch(st) EXCEPT !.pending_liveness = @ + 1]
<1>1. CASE ~next_timeout(st)
  BY <1>1 DEF timer, empty_transition, Emit, Transition
<1>2. CASE next_timeout(st) /\ st.pending_liveness >= MaxPings
  <2>1. timer(st) = closed_transition(st) BY <1>2 DEF timer
  <2> QED BY <2>1, ClosedGood
<1>3. CASE next_timeout(st) /\ ~(st.pending_liveness >= MaxPings)
  <2> DEFINE t == touch(st)
  <2>1. Good(t) /\ t.phase = "Connected" /\ IsCore(t) /\ Parts(t)
    <3>1. Good(t) /\ t.phase = "Connected" BY <1>3, TouchGood DEF next_timeout
    <3> HIDE DEF t
    <3> QED BY <3>1, GoodByParts
  <2> HIDE DEF t
  <2>2. counted = [t EXCEPT !.pending_liveness = @ + 1] BY DEF t
  <2>3. Fields(counted, t.phase, t.info, t.next_sid, t.subscriptions,
               t.draining, t.pending_pings, t.pending_liveness + 1, t.next_ping)
    <3> HIDE DEF counted
    <3> QED BY <2>1, <2>2 DEF Fields, IsCore
  <2>4. GoodParts(t.phase, t.info, t.next_sid, t.subscriptions, t.draining,
                  t.pending_pings, t.pending_liveness + 1, t.next_ping)
    BY <2>1 DEF Parts, GoodParts
  <2> HIDE DEF counted
  <2>5. Good(counted) /\ counted.phase = "Connected"
    BY <2>1, <2>3, <2>4, GoodByFields DEF Fields
  <2>6. Origin("Liveness") \in Origins /\ Origin("Liveness").kind = "Liveness"
    BY DEF Origin, Origins
  <2>7. Good(enqueue_ping(counted, Origin("Liveness")))
    BY <2>5, <2>6, EnqueueGood
  <2>8. timer(st).state = enqueue_ping(counted, Origin("Liveness"))
    BY <1>3 DEF timer, Emit, Transition, counted
  <2> QED BY <2>7, <2>8
<1> QED BY <1>1, <1>2, <1>3

-----------------------------------------------------------------------------
(* The session.                                                            *)

\* The environment of the core: what arrives, the bounds and the histories.
Env ==
  /\ up \in BOOLEAN /\ settled \in BOOLEAN
  /\ sent \in 0..MaxSent /\ losses \in 0..MaxLosses
  /\ s2c \in Seq(ServerOps)
  /\ received \in [1..MaxSid -> Nat]
  /\ granted \in [1..MaxSid -> Nat \cup {None}]

Inv == Good(core) /\ Env

LEMMA InvIsTyped == Inv <=> TypeOK /\ CoreConsistent
  BY DEF Inv, Env, Good, TypeOK, CoreConsistent

LEMMA Bounds == MaxSid \in Nat /\ MaxSent \in Nat /\ MaxLosses \in Nat
  BY BoundsAssumption

LEMMA InitInv == Init => Inv
<1> SUFFICES ASSUME Init PROVE Inv OBVIOUS
<1>1. Good(core) BY VGood DEF Init
<1>2. sent \in 0..MaxSent /\ losses \in 0..MaxLosses BY Bounds DEF Init
<1>3. s2c \in Seq(ServerOps) BY DEF Init
<1>4. received \in [1..MaxSid -> Nat] /\ granted \in [1..MaxSid -> Nat \cup {None}]
  BY DEF Init, Zero
<1>5. up \in BOOLEAN /\ settled \in BOOLEAN BY DEF Init
<1> QED BY <1>1, <1>2, <1>3, <1>4, <1>5 DEF Inv, Env

\* A step that leaves the core alone or puts a good one in its place, and
\* otherwise moves only what is written, held or remembered of quotas.
LEMMA CallerStep ==
  ASSUME Inv, Good(core'), UNCHANGED << up, s2c, sent, losses, received >>,
         settled' \in BOOLEAN, granted' \in [1..MaxSid -> Nat \cup {None}]
  PROVE  Inv'
  BY DEF Inv, Env

LEMMA GiveUpInv ==
  ASSUME Inv, NEW t, Good(t.state), GiveUp(t) PROVE Inv'
<1>1. Good(core') BY DEF GiveUp
<1>2. sent' \in 0..MaxSent BY Bounds DEF GiveUp, LoseWire
<1>3. s2c' \in Seq(ServerOps) BY DEF GiveUp, LoseWire
<1>4. up' \in BOOLEAN BY DEF GiveUp, LoseWire
<1>5. UNCHANGED << settled, losses, granted, received >> BY DEF GiveUp
<1> QED BY <1>1, <1>2, <1>3, <1>4, <1>5 DEF Inv, Env

LEMMA TransportInv ==
  ASSUME Inv, NEW preserve \in BOOLEAN, NEW st, Good(st),
         preserve => st.phase \in {"Awaiting_info", "Awaiting_connect"},
         core' = prepare_reconnect(st, preserve), LoseWire,
         losses < MaxLosses, losses' = losses + 1,
         UNCHANGED << settled, granted, received >>
  PROVE  Inv'
<1>1. Good(core') BY ReconnectGood
<1>2. sent' \in 0..MaxSent /\ losses' \in 0..MaxLosses
  BY Bounds DEF LoseWire, Inv, Env
<1>3. s2c' \in Seq(ServerOps) BY DEF LoseWire
<1>4. up' \in BOOLEAN BY DEF LoseWire
<1> QED BY <1>1, <1>2, <1>3, <1>4 DEF Inv, Env

LEMMA ServerStep ==
  ASSUME Inv, ServerFrame, s2c' \in Seq(ServerOps), sent' \in 0..MaxSent
  PROVE  Inv'
  BY DEF Inv, Env, ServerFrame

\* Of a handshake that ends in a failed write the core keeps what it had
\* before: the phase is all that CONNECT changes.
LEMMA HeldWriteRedials ==
  ASSUME Good(core), outgoing_connect(core).error = None
  PROVE  /\ core.phase = "Awaiting_connect"
         /\ prepare_reconnect(outgoing_connect(core).state, TRUE)
              = prepare_reconnect(core, TRUE)
<1> DEFINE t == outgoing_connect(core)
           c == [core EXCEPT !.phase = "Connected"]
<1>1. IsCore(core) /\ core.phase \in Phases
  BY DEF Good, CoreType
<1>2. \A e \in Errors : e # None
  BY NoneAssumption
<1>3. core.phase = "Awaiting_connect"
  BY <1>1, <1>2, PhaseErrorNamed, NoneAssumption
     DEF outgoing_connect, Failure, Errors, Phases
<1>4. t.state = c
  BY <1>2, <1>3 DEF outgoing_connect, Failure, Transition, Errors
<1>5. prepare_reconnect(c, TRUE) = prepare_reconnect(core, TRUE)
  BY <1>1 DEF prepare_reconnect, kept_pings, IsCore
<1> QED BY <1>3, <1>4, <1>5

LEMMA NextInv == Inv /\ [Next]_vars => Inv'
<1> SUFFICES ASSUME Inv, [Next]_vars PROVE Inv' OBVIOUS
<1>0. /\ Good(core) /\ settled \in BOOLEAN /\ s2c \in Seq(ServerOps)
      /\ granted \in [1..MaxSid -> Nat \cup {None}]
      /\ received \in [1..MaxSid -> Nat]
      /\ sent \in 0..MaxSent
      /\ 1..MaxSid \subseteq Nat
  BY Bounds DEF Inv, Env
<1>1. CASE Connect
  <2> DEFINE t == outgoing_connect(core)
  <2>1. t.error = None /\ core' = t.state BY <1>1 DEF Connect, ApplyWriting
  <2> QED BY <1>0, <1>1, <2>1, ConnectGood, CallerStep DEF Connect
<1>2. CASE ConnectRefused
  <2>1. Good(outgoing_close(core).state)
    BY <1>0, ClosedGood DEF outgoing_close, Failure
  <2> QED BY <1>2, <2>1, GiveUpInv DEF ConnectRefused
<1>3. ASSUME NEW m \in Messages, Publish(m) PROVE Inv'
  BY <1>0, <1>3, PublishGood, CallerStep DEF Publish, Apply, ApplyWriting, CallerFrame
<1>4. ASSUME NEW s \in Subjects, Subscribe(s) PROVE Inv'
  BY <1>0, <1>4, SubscribeGood, CallerStep DEF Subscribe, Apply, ApplyWriting, CallerFrame
<1>5. ASSUME NEW sid \in 1..MaxSid, Unsubscribe(sid) PROVE Inv'
  <2>1. Good(core') BY <1>0, <1>5, UnsubscribeGood DEF Unsubscribe, Apply, ApplyWriting
  <2>2. granted' \in [1..MaxSid -> Nat \cup {None}]
    BY <1>0, <1>5 DEF Unsubscribe
  <2> QED BY <1>0, <1>5, <2>1, <2>2, CallerStep DEF Unsubscribe, CallerFrame
<1>6. ASSUME NEW sid \in 1..MaxSid, NEW n \in Quotas, AutoUnsubscribe(sid, n)
      PROVE Inv'
  <2>0. n \in Int BY BoundsAssumption
  <2>1. Good(core')
    BY <1>0, <1>6, <2>0, AutoUnsubscribeGood DEF AutoUnsubscribe, Apply, ApplyWriting
  <2>2. granted' \in [1..MaxSid -> Nat \cup {None}]
    BY <1>0, <1>6, <2>0 DEF AutoUnsubscribe
  <2> QED BY <1>0, <1>6, <2>1, <2>2, CallerStep DEF AutoUnsubscribe, CallerFrame
<1>7. ASSUME NEW sid \in 1..MaxSid, DrainSubscription(sid) PROVE Inv'
  BY <1>0, <1>7, DrainSubscriptionGood, CallerStep
     DEF DrainSubscription, Apply, ApplyWriting, CallerFrame
<1>8. CASE Flush
  <2> DEFINE t == outgoing_flush(core)
  <2>1. core' = t.state BY <1>8 DEF Flush, Apply, ApplyWriting
  <2> QED BY <1>0, <1>8, <2>1, FlushGood, CallerStep DEF Flush, CallerFrame
<1>9. CASE Drain
  BY <1>0, <1>9, DrainGood, CallerStep DEF Drain, Apply, ApplyWriting, CallerFrame
<1>10. CASE Close
  <2>1. Good(outgoing_close(core).state)
    BY <1>0, ClosedGood DEF outgoing_close, Failure
  <2> QED BY <1>10, <2>1, GiveUpInv DEF Close
<1>11. CASE Timer
  <2>1. Good(timer(core).state) BY <1>0, TimerGood
  <2>2. CASE GiveUp(timer(core)) BY <2>1, <2>2, GiveUpInv
  <2>3. CASE Apply(timer(core)) /\ CallerFrame /\ UNCHANGED << granted, received >>
    BY <1>0, <2>1, <2>3, CallerStep DEF Apply, ApplyWriting, CallerFrame
  <2> QED BY <1>11, <2>2, <2>3 DEF Timer
<1>12. CASE Read
  <2> DEFINE t == handle_operation(core, Head(s2c))
  <2>1. Head(s2c) \in ServerOps /\ s2c' \in Seq(ServerOps)
    BY <1>0, <1>12 DEF Read
  <2>2. Good(core') BY <1>0, <1>12, <2>1, OperationGood DEF Read, Apply, ApplyWriting
  <2>3. received' \in [1..MaxSid -> Nat]
    <3> HIDE DEF t
    <3>1. received' = [s \in 1..MaxSid |->
                        received[s] + IF t.deliveries = << s >> THEN 1 ELSE 0]
      BY <1>12 DEF Read, t
    <3> QED BY <1>0, <3>1
  <2> QED BY <1>12, <2>1, <2>2, <2>3 DEF Read, Inv, Env
<1>13. ASSUME NEW i \in Infos, Dial(i) PROVE Inv'
  <2>1. s2c' \in Seq(ServerOps)
    <3>1. [op |-> "INFO", info |-> i] \in ServerOps BY <1>13 DEF ServerOps
    <3> QED BY <1>13, <3>1 DEF Dial
  <2>2. up' \in BOOLEAN BY <1>13 DEF Dial
  <2>3. Good(core') BY <1>0, <1>13 DEF Dial
  <2>4. UNCHANGED << settled, sent, losses, granted, received >>
    BY <1>13 DEF Dial
  <2> QED BY <2>1, <2>2, <2>3, <2>4 DEF Inv, Env
<1>14. ASSUME NEW eof \in BOOLEAN, TransportLost(eof) PROVE Inv'
  <2> DEFINE st == IF eof THEN incoming_eof(core).state ELSE core
  <2>1. Good(st) BY <1>0, ClosedGood DEF incoming_eof
  <2>2. core' = prepare_reconnect(st, FALSE) BY <1>14 DEF TransportLost
  <2> HIDE DEF st
  <2> QED BY <1>14, <2>1, <2>2, TransportInv DEF TransportLost
<1>15. CASE RedialFailed
  BY <1>0, <1>15, TransportInv DEF RedialFailed
<1>15a. CASE HeldWriteFailed
  <2>1. core' = prepare_reconnect(core, TRUE) /\ core.phase = "Awaiting_connect"
    BY <1>0, <1>15a, HeldWriteRedials DEF HeldWriteFailed
  <2> QED BY <1>0, <1>15a, <2>1, TransportInv DEF HeldWriteFailed
<1>16. CASE EndOfFile
  BY <1>0, <1>16, ClosedGood, GiveUpInv DEF EndOfFile, incoming_eof
<1>17. CASE ServerHandle
  <2>1. s2c' \in Seq(ServerOps)
    <3>1. Pong \in ServerOps BY DEF Pong, ServerOps
    <3> QED BY <1>0, <1>17, <3>1 DEF ServerHandle
  <2> QED BY <1>0, <1>17, <2>1, ServerStep DEF ServerHandle
<1>18. ASSUME NEW sid \in 1..MaxSid, ServerSend(sid) PROVE Inv'
  <2>1. s2c' \in Seq(ServerOps)
    <3>1. [op |-> "MSG", sid |-> sid] \in ServerOps BY <1>18 DEF ServerOps
    <3> QED BY <1>0, <1>18, <3>1 DEF ServerSend
  <2>2. sent' \in 0..MaxSent BY <1>0, <1>18, Bounds DEF ServerSend
  <2> QED BY <1>18, <2>1, <2>2, ServerStep DEF ServerSend
<1>19. ASSUME NEW op \in Notices, ServerNotice(op) PROVE Inv'
  <2>1. s2c' \in Seq(ServerOps)
    <3>1. op \in ServerOps BY <1>19 DEF Notices, ServerOps
    <3> QED BY <1>0, <1>19, <3>1 DEF ServerNotice
  <2>2. sent' \in 0..MaxSent BY <1>0, <1>19, Bounds DEF ServerNotice
  <2> QED BY <1>19, <2>1, <2>2, ServerStep DEF ServerNotice
<1>20. CASE UNCHANGED vars
  BY <1>20 DEF vars, Inv, Env
<1> QED
  BY <1>1, <1>2, <1>3, <1>4, <1>5, <1>6, <1>7, <1>8, <1>9, <1>10, <1>11, <1>12,
     <1>13, <1>14, <1>15, <1>15a, <1>16, <1>17, <1>18, <1>19, <1>20 DEF Next

LEMMA SessionInv == Spec => []Inv
  BY InitInv, NextInv, PTL DEF Spec

\* The core and the input are well typed in every reachable state.
THEOREM SessionTyped == Spec => []TypeOK
  BY SessionInv, InvIsTyped, PTL

\* No sequence of commands, operations, losses and redials leads the core to
\* a state its own code takes for impossible: an absent INFO once the
\* handshake has begun (outgoing_connect asserts it), a sid to be allocated
\* twice, a quota of zero that the "Some 1" case of incoming_message would
\* step over, or a drain waiting for the PONG of another transport.
THEOREM CoreNeverInconsistent == Spec => []CoreConsistent
  BY SessionInv, InvIsTyped, PTL

-----------------------------------------------------------------------------
(* FlattenSeq.                                                             *)

\* flat[n] is what the first n lists have given.
IsFlattening(flat, lists) ==
  /\ FlattenSeq(lists) = flat[Len(lists)]
  /\ flat[0] = <<>>
  /\ \A n \in 1..Len(lists) : flat[n] = flat[n - 1] \o lists[n]

LEMMA FlattenReads ==
  ASSUME NEW T, NEW lists \in Seq(Seq(T))
  PROVE  \E flat \in [0..Len(lists) -> Seq(T)] : IsFlattening(flat, lists)
<1> DEFINE N == Len(lists)
           V == Seq(T)
           step == [n \in 1..N |-> [k \in V |-> k \o lists[n]]]
           G(f) == [n \in 1..N |-> IF n = 1 THEN lists[n] ELSE f[n - 1] \o lists[n]]
<1>1. N \in Nat /\ <<>> \in V /\ \A n \in 1..N : lists[n] \in V
  OBVIOUS
<1>2. step \in [1..N -> [V -> V]]
  <2>1. ASSUME NEW n \in 1..N, NEW k \in V PROVE k \o lists[n] \in V
    BY <1>1
  <2> QED BY <2>1
<1>3. PICK g \in [0..N -> V] : IsIteration(g, <<>>, step, N)
  <2> HIDE DEF step, V, N
  <2> QED BY <1>1, <1>2, RecursionExists
<1>4. \A n \in 1..N : n - 1 \in 0..N /\ g[n - 1] \in V
  <2> HIDE DEF V, N
  <2> QED BY <1>1
<1>5. g[0] = <<>> /\ \A n \in 1..N : g[n] = g[n - 1] \o lists[n]
  <2>1. g[0] = <<>> /\ \A n \in 1..N : g[n] = step[n][g[n - 1]]
    BY <1>3, Zenon DEF IsIteration
  <2> HIDE DEF V
  <2>2. \A n \in 1..N : step[n][g[n - 1]] = g[n - 1] \o lists[n]
    BY <1>4
  <2> HIDE DEF step
  <2> QED BY <2>1, <2>2
<1>5a. 1 \in 1..N => g[1] = lists[1]
  <2>1. SUFFICES ASSUME 1 \in 1..N PROVE g[1] = lists[1]
    OBVIOUS
  <2>2. g[1] = g[1 - 1] \o lists[1]
    <3> HIDE DEF N
    <3> QED BY <1>5, <2>1
  <2>3. 1 - 1 = 0 /\ g[0] = <<>>
    BY <1>5
  <2>4. g[1] = <<>> \o lists[1]
    BY <2>2, <2>3
  <2>5. lists[1] \in Seq(T)
    BY <1>1, <2>1
  <2> QED BY <2>4, <2>5
<1>6. CASE N = 0
  <2>1. FlattenSeq(lists) = <<>>
    BY <1>1, <1>6 DEF FlattenSeq
  <2> QED BY <1>5, <1>6, <2>1 DEF IsFlattening
<1>7. CASE N > 0
  <2> DEFINE h == [n \in 1..N |-> g[n]]
             k == CHOOSE f : f = G(f)
  <2>1. FlattenSeq(lists) = k[N]
    BY <1>1, <1>7 DEF FlattenSeq
  <2>2. h = G(h)
    <3>1. ASSUME NEW n \in 1..N PROVE h[n] = G(h)[n]
      <4>1. CASE n = 1
        BY <1>5a, <4>1
      <4>2. CASE n # 1
        <5>1. n - 1 \in 1..N
          BY <1>1, <4>2
        <5> QED BY <1>5, <4>2, <5>1
      <4> QED BY <4>1, <4>2
    <3> QED BY <3>1
  <2>3. k = G(k)
    <3> HIDE DEF h, G
    <3> QED BY <2>2
  <2> HIDE DEF k
  <2>4. \A n \in 1..N : k[n] = IF n = 1 THEN lists[n] ELSE k[n - 1] \o lists[n]
    BY <2>3
  <2>5. \A n \in 1..N : k[n] = g[n]
    <3> DEFINE P == {n \in Nat : n >= 1 /\ n <= N => k[n] = g[n]}
    <3>1. 0 \in P
      OBVIOUS
    <3>2. ASSUME NEW n \in Nat, n \in P PROVE n + 1 \in P
      <4>1. SUFFICES ASSUME n + 1 <= N PROVE k[n + 1] = g[n + 1]
        OBVIOUS
      <4>2. n + 1 \in 1..N /\ (n + 1) - 1 = n
        BY <1>1, <4>1
      <4>3. CASE n = 0
        <5>1. 1 \in 1..N
          BY <4>2, <4>3
        <5>2. k[1] = lists[1]
          <6> HIDE DEF N
          <6> QED BY <2>4, <5>1
        <5> QED BY <1>5a, <4>3, <5>1, <5>2
      <4>4. CASE n # 0
        <5>1. k[n] = g[n] /\ n + 1 # 1
          BY <1>1, <3>2, <4>1, <4>4
        <5>2. g[n + 1] = g[n] \o lists[n + 1]
          <6> HIDE DEF N, V
          <6> QED BY <1>5, <4>2, Zenon
        <5>3. k[n + 1] = k[n] \o lists[n + 1]
          <6> HIDE DEF N, V
          <6> QED BY <2>4, <4>2, <5>1, Zenon
        <5> QED BY <5>1, <5>2, <5>3
      <4> QED BY <4>3, <4>4
    <3>3. \A n \in Nat : n \in P
      <4> HIDE DEF P
      <4> QED BY <3>1, <3>2, SetInduction
    <3> QED BY <1>1, <3>3
  <2>6. FlattenSeq(lists) = g[N]
    <3>1. N \in 1..N
      BY <1>1, <1>7
    <3> HIDE DEF N, V
    <3> QED BY <2>1, <2>5, <3>1
  <2> QED BY <1>5, <2>6 DEF IsFlattening
<1> QED BY <1>1, <1>6, <1>7

\* Nothing is added and nothing is lost.
LEMMA FlattenRange ==
  ASSUME NEW T, NEW lists \in Seq(Seq(T))
  PROVE  /\ FlattenSeq(lists) \in Seq(T)
         /\ \A e : e \in Range(FlattenSeq(lists))
                   <=> \E n \in 1..Len(lists) : e \in Range(lists[n])
<1>1. PICK flat \in [0..Len(lists) -> Seq(T)] : IsFlattening(flat, lists)
  BY FlattenReads
<1>2. /\ FlattenSeq(lists) = flat[Len(lists)]
      /\ flat[0] = <<>>
      /\ \A n \in 1..Len(lists) : flat[n] = flat[n - 1] \o lists[n]
  BY <1>1 DEF IsFlattening
<1>3. Len(lists) \in Nat
  OBVIOUS
<1> DEFINE P(n) == \A e : e \in Range(flat[n]) <=> \E m \in 1..n : e \in Range(lists[m])
           Q == {n \in Nat : n <= Len(lists) => P(n)}
<1>4. 0 \in Q
  BY <1>2 DEF Range
<1>5. ASSUME NEW n \in Nat, n \in Q PROVE n + 1 \in Q
  <2>1. SUFFICES ASSUME n + 1 <= Len(lists) PROVE P(n + 1)
    OBVIOUS
  <2>2. /\ n \in 0..Len(lists) /\ n + 1 \in 1..Len(lists) /\ (n + 1) - 1 = n
        /\ \A m \in 1..n + 1 : m \in 1..n \/ m = n + 1
        /\ \A m \in 1..n : m \in 1..n + 1
        /\ n + 1 \in 1..n + 1
    BY <1>3, <2>1
  <2>3. flat[n] \in Seq(T) /\ lists[n + 1] \in Seq(T)
    <3>1. \A m \in 1..Len(lists) : lists[m] \in Seq(T)
      OBVIOUS
    <3> QED BY <2>2, <3>1, Zenon
  <2>3a. flat[n + 1] = flat[n] \o lists[n + 1]
    BY <1>2, <2>2, Zenon
  <2>4. Range(flat[n + 1]) = Range(flat[n]) \cup Range(lists[n + 1])
    BY <2>3, <2>3a, ConcatOrder
  <2>5. P(n)
    BY <1>5, <2>1
  <2> QED BY <2>2, <2>4, <2>5, Zenon
<1>6. \A n \in Nat : n \in Q
  <2> HIDE DEF Q
  <2> QED BY <1>4, <1>5, SetInduction
<1>7. Len(lists) \in 0..Len(lists) /\ P(Len(lists))
  <2>1. Len(lists) \in 0..Len(lists) /\ Len(lists) <= Len(lists)
    BY <1>3
  <2>2. Len(lists) \in Q
    BY <1>3, <1>6, Zenon
  <2> QED BY <2>1, <2>2, Zenon
<1>8. flat[Len(lists)] \in Seq(T)
  BY <1>7
<1> QED BY <1>2, <1>7, <1>8, Zenon

-----------------------------------------------------------------------------
(* What is in flight.                                                      *)

\* What the client writes: encode of lib/client.ml's operations.
ClientOps ==
  [op : {"PING", "PONG"}] \cup [op : {"SUB"}, sid : Nat \ {0}, subject : Subjects]
    \cup [op : {"UNSUB"}, sid : Nat \ {0}, max : Nat \cup {None}]
    \cup [op : {"PUB"}, message : Messages]
    \cup [op : {"CONNECT"}, no_responders : BOOLEAN]

IsSub(o, sid) == o.op = "SUB" /\ o.sid = sid
IsUnsub(o, sid) == o.op = "UNSUB" /\ o.sid = sid

NoSub(ops, sid) == \A i \in DOMAIN ops : ~IsSub(ops[i], sid)

\* The last that ops say of sid is that it ends.
EndsWith(ops, sid) ==
  \E i \in DOMAIN ops : /\ IsUnsub(ops[i], sid)
                        /\ \A j \in DOMAIN ops : j > i => ~IsSub(ops[j], sid)

LEMMA NoSubConcat ==
  ASSUME NEW T, NEW a \in Seq(T), NEW b \in Seq(T), NEW sid
  PROVE  NoSub(a \o b, sid) <=> NoSub(a, sid) /\ NoSub(b, sid)
<1> DEFINE w == a \o b
           m == Len(a)
           n == Len(b)
<1>1. /\ m \in Nat /\ n \in Nat /\ DOMAIN a = 1..m /\ DOMAIN b = 1..n
      /\ DOMAIN w = 1..m + n
      /\ \A i \in 1..m : w[i] = a[i]
      /\ \A i \in 1..n : w[i + m] = b[i]
  OBVIOUS
<1> HIDE DEF w, m, n
<1>2. \A i \in 1..m + n : i \in 1..m \/ (i - m \in 1..n /\ i = (i - m) + m)
  BY <1>1
<1>3. (\A i \in 1..m : i \in 1..m + n) /\ \A i \in 1..n : i + m \in 1..m + n
  BY <1>1
<1>4. ASSUME NoSub(w, sid) PROVE NoSub(a, sid) /\ NoSub(b, sid)
  <2>1. ASSUME NEW i \in 1..m PROVE ~IsSub(a[i], sid)
    BY <1>1, <1>3, <1>4 DEF NoSub
  <2>2. ASSUME NEW i \in 1..n PROVE ~IsSub(b[i], sid)
    <3>1. i + m \in DOMAIN w /\ w[i + m] = b[i]
      BY <1>1, <1>3
    <3> QED BY <1>4, <3>1, Zenon DEF NoSub
  <2> QED BY <1>1, <2>1, <2>2 DEF NoSub
<1>5. ASSUME NoSub(a, sid), NoSub(b, sid) PROVE NoSub(w, sid)
  <2>1. ASSUME NEW i \in 1..m + n PROVE ~IsSub(w[i], sid)
    <3>1. CASE i \in 1..m
      BY <1>1, <1>5, <3>1, Zenon DEF NoSub
    <3>2. CASE i - m \in 1..n /\ i = (i - m) + m
      <4>1. w[i] = b[i - m]
        BY <1>1, <3>2, Zenon
      <4> QED BY <1>1, <1>5, <3>2, <4>1, Zenon DEF NoSub
    <3> QED BY <1>2, <3>1, <3>2
  <2> QED BY <1>1, <2>1 DEF NoSub
<1> QED BY <1>4, <1>5 DEF w

LEMMA EndsWithConcat ==
  ASSUME NEW T, NEW a \in Seq(T), NEW b \in Seq(T), NEW sid,
         EndsWith(b, sid) \/ (EndsWith(a, sid) /\ NoSub(b, sid))
  PROVE  EndsWith(a \o b, sid)
<1> DEFINE w == a \o b
           m == Len(a)
           n == Len(b)
<1>1. /\ m \in Nat /\ n \in Nat /\ DOMAIN a = 1..m /\ DOMAIN b = 1..n
      /\ DOMAIN w = 1..m + n
      /\ \A i \in 1..m : w[i] = a[i]
      /\ \A i \in 1..n : w[i + m] = b[i]
  OBVIOUS
<1> HIDE DEF w, m, n
<1>2. \A i \in 1..m + n : i \in 1..m \/ (i - m \in 1..n /\ i = (i - m) + m)
  BY <1>1
<1>3. CASE EndsWith(b, sid)
  <2>1. PICK i \in 1..n : IsUnsub(b[i], sid) /\ \A j \in 1..n : j > i => ~IsSub(b[j], sid)
    BY <1>1, <1>3 DEF EndsWith
  <2>2. i + m \in 1..m + n /\ w[i + m] = b[i]
    BY <1>1
  <2>3. ASSUME NEW j \in 1..m + n, j > i + m PROVE ~IsSub(w[j], sid)
    <3>1. j - m \in 1..n /\ j - m > i /\ j = (j - m) + m
      BY <1>1, <2>3
    <3>2. w[j] = b[j - m]
      BY <1>1, <3>1, Zenon
    <3> QED BY <2>1, <3>1, <3>2
  <2> QED BY <1>1, <2>1, <2>2, <2>3 DEF EndsWith, w
<1>4. CASE EndsWith(a, sid) /\ NoSub(b, sid)
  <2>1. PICK i \in 1..m : IsUnsub(a[i], sid) /\ \A j \in 1..m : j > i => ~IsSub(a[j], sid)
    BY <1>1, <1>4 DEF EndsWith
  <2>2. i \in 1..m + n /\ w[i] = a[i]
    BY <1>1
  <2>3. ASSUME NEW j \in 1..m + n, j > i PROVE ~IsSub(w[j], sid)
    <3>1. CASE j \in 1..m
      BY <1>1, <2>1, <2>3, <3>1
    <3>2. CASE j - m \in 1..n /\ j = (j - m) + m
      <4>1. w[j] = b[j - m]
        BY <1>1, <3>2, Zenon
      <4> QED BY <1>1, <1>4, <3>2, <4>1, Zenon DEF NoSub
    <3> QED BY <1>2, <3>1, <3>2
  <2> QED BY <1>1, <2>1, <2>2, <2>3 DEF EndsWith, w
<1> QED BY <1>3, <1>4

\* What the tail still says of sid when the head has been handled.
LEMMA EndsWithTail ==
  ASSUME NEW T, NEW ops \in Seq(T), ops # <<>>, NEW sid
  PROVE  /\ NoSub(ops, sid) => ~IsSub(Head(ops), sid) /\ NoSub(Tail(ops), sid)
         /\ EndsWith(ops, sid) => \/ EndsWith(Tail(ops), sid)
                                  \/ IsUnsub(Head(ops), sid) /\ NoSub(Tail(ops), sid)
<1> DEFINE t == Tail(ops)
           n == Len(ops)
<1>1. /\ n \in Nat /\ n > 0 /\ DOMAIN ops = 1..n /\ DOMAIN t = 1..n - 1 /\ Head(ops) = ops[1]
      /\ \A i \in 1..n - 1 : t[i] = ops[i + 1]
  OBVIOUS
<1> HIDE DEF t, n
<1>2. 1 \in 1..n /\ \A i \in 1..n - 1 : i + 1 \in 1..n /\ i + 1 > 1
  BY <1>1
<1>3. ASSUME NoSub(ops, sid) PROVE ~IsSub(Head(ops), sid) /\ NoSub(t, sid)
  BY <1>1, <1>2, <1>3 DEF NoSub
<1>4. ASSUME EndsWith(ops, sid)
      PROVE  EndsWith(t, sid) \/ (IsUnsub(Head(ops), sid) /\ NoSub(t, sid))
  <2>1. PICK i \in 1..n : IsUnsub(ops[i], sid) /\ \A j \in 1..n : j > i => ~IsSub(ops[j], sid)
    BY <1>1, <1>4 DEF EndsWith
  <2>2. CASE i = 1
    BY <1>1, <1>2, <2>1, <2>2 DEF NoSub
  <2>3. CASE i # 1
    <3>1. i - 1 \in 1..n - 1 /\ (i - 1) + 1 = i
      BY <1>1, <2>3
    <3>2. IsUnsub(t[i - 1], sid)
      BY <1>1, <2>1, <3>1
    <3>3. ASSUME NEW j \in 1..n - 1, j > i - 1 PROVE ~IsSub(t[j], sid)
      <4>1. j + 1 \in 1..n /\ j + 1 > i
        BY <1>1, <3>1, <3>3
      <4> QED BY <1>1, <2>1, <4>1
    <3> QED BY <1>1, <3>1, <3>2, <3>3 DEF EndsWith
  <2> QED BY <2>2, <2>3
<1> QED BY <1>3, <1>4 DEF t

\* One of several lists ends a sid that no other list subscribes.
LEMMA EndsWithFlatten ==
  ASSUME NEW T, NEW lists \in Seq(Seq(T)), NEW sid, NEW n \in 1..Len(lists),
         EndsWith(lists[n], sid), \A m \in 1..Len(lists) : m # n => NoSub(lists[m], sid)
  PROVE  EndsWith(FlattenSeq(lists), sid)
<1>1. PICK flat \in [0..Len(lists) -> Seq(T)] : IsFlattening(flat, lists)
  BY FlattenReads
<1>2. /\ FlattenSeq(lists) = flat[Len(lists)]
      /\ flat[0] = <<>>
      /\ \A m \in 1..Len(lists) : flat[m] = flat[m - 1] \o lists[m]
  BY <1>1 DEF IsFlattening
<1>3. Len(lists) \in Nat /\ \A m \in 1..Len(lists) : lists[m] \in Seq(T)
  OBVIOUS
<1> DEFINE Q == {m \in Nat : m <= Len(lists) /\ m >= n => EndsWith(flat[m], sid)}
<1>4. 0 \in Q
  OBVIOUS
<1>5. ASSUME NEW m \in Nat, m \in Q PROVE m + 1 \in Q
  <2>1. SUFFICES ASSUME m + 1 <= Len(lists), m + 1 >= n PROVE EndsWith(flat[m + 1], sid)
    OBVIOUS
  <2>2. m \in 0..Len(lists) /\ m + 1 \in 1..Len(lists) /\ (m + 1) - 1 = m
    BY <1>3, <2>1
  <2>3. flat[m] \in Seq(T) /\ lists[m + 1] \in Seq(T)
    BY <1>3, <2>2, Zenon
  <2>4. flat[m + 1] = flat[m] \o lists[m + 1]
    BY <1>2, <2>2, Zenon
  <2>5. CASE m + 1 = n
    BY <2>3, <2>4, <2>5, EndsWithConcat
  <2>6. CASE m + 1 # n
    <3>1. EndsWith(flat[m], sid)
      BY <1>3, <1>5, <2>1, <2>6
    <3>2. NoSub(lists[m + 1], sid)
      BY <2>2, <2>6
    <3> QED BY <2>3, <2>4, <3>1, <3>2, EndsWithConcat
  <2> QED BY <2>5, <2>6
<1>6. \A m \in Nat : m \in Q
  <2> HIDE DEF Q
  <2> QED BY <1>4, <1>5, SetInduction
<1>7. Len(lists) \in Q
  BY <1>3, <1>6, Zenon
<1> QED BY <1>2, <1>3, <1>7

-----------------------------------------------------------------------------
(* Counting what is in flight.                                             *)

AllOps == ClientOps \cup ServerOps
Named(op) == {o \in AllOps : o.op = op}
MessagesTo(sid) == {o \in AllOps : o.op = "MSG" /\ o.sid = sid}

LEMMA OpsInAll ==
  /\ Seq(ClientOps) \subseteq Seq(AllOps)
  /\ Seq(ServerOps) \subseteq Seq(AllOps)
<1>1. ASSUME NEW s \in Seq(ClientOps) PROVE s \in Seq(AllOps)
  BY DEF AllOps
<1>2. ASSUME NEW s \in Seq(ServerOps) PROVE s \in Seq(AllOps)
  BY DEF AllOps
<1> QED BY <1>1, <1>2

LEMMA CountIs ==
  ASSUME NEW s \in Seq(AllOps)
  PROVE  /\ \A op : Count(s, op) = CountIn(s, Named(op))
         /\ \A sid : InFlight(s, sid) = CountIn(s, MessagesTo(sid))
<1>1. \A i \in DOMAIN s : s[i] \in AllOps
  <2> HIDE DEF AllOps
  <2> QED OBVIOUS
<1>2. ASSUME NEW op PROVE Count(s, op) = CountIn(s, Named(op))
  <2>1. {i \in DOMAIN s : s[i].op = op} = Places(s, Named(op))
    BY <1>1 DEF Places, Named
  <2> QED BY <2>1, Zenon DEF Count, CountIn
<1>3. ASSUME NEW sid PROVE InFlight(s, sid) = CountIn(s, MessagesTo(sid))
  <2>1. {i \in DOMAIN s : s[i].op = "MSG" /\ s[i].sid = sid} = Places(s, MessagesTo(sid))
    BY <1>1 DEF Places, MessagesTo
  <2> QED BY <2>1, Zenon DEF InFlight, CountIn
<1> QED BY <1>2, <1>3

LEMMA CountNat ==
  ASSUME NEW s \in Seq(AllOps)
  PROVE  (\A op : Count(s, op) \in Nat) /\ (\A sid : InFlight(s, sid) \in Nat)
<1> HIDE DEF AllOps
<1>1. \A S : CountIn(s, S) \in Nat
  BY PlacesFinite
<1> QED BY <1>1, CountIs

LEMMA CountNone ==
  (\A op : Count(<<>>, op) = 0) /\ (\A sid : InFlight(<<>>, sid) = 0)
<1>1. <<>> \in Seq(AllOps)
  OBVIOUS
<1>2. \A S : CountIn(<<>>, S) = 0
  BY CountEmpty
<1> QED BY <1>1, <1>2, CountIs

LEMMA CountAppended ==
  ASSUME NEW s \in Seq(AllOps), NEW o \in AllOps
  PROVE  /\ \A op : Count(Append(s, o), op) = Count(s, op) + IF o.op = op THEN 1 ELSE 0
         /\ \A sid : InFlight(Append(s, o), sid)
                     = InFlight(s, sid) + IF o.op = "MSG" /\ o.sid = sid THEN 1 ELSE 0
<1>1. Append(s, o) \in Seq(AllOps)
  <2> HIDE DEF AllOps
  <2> QED OBVIOUS
<1>2. \A S : CountIn(Append(s, o), S) = CountIn(s, S) + IF o \in S THEN 1 ELSE 0
  <2> HIDE DEF AllOps
  <2> QED BY CountAppend
<1>3. \A op : o \in Named(op) <=> o.op = op
  BY DEF Named
<1>4. \A sid : o \in MessagesTo(sid) <=> o.op = "MSG" /\ o.sid = sid
  BY DEF MessagesTo
<1>5. ASSUME NEW op
      PROVE  Count(Append(s, o), op) = Count(s, op) + IF o.op = op THEN 1 ELSE 0
  <2>1. Count(Append(s, o), op) = CountIn(Append(s, o), Named(op))
        /\ Count(s, op) = CountIn(s, Named(op))
    BY <1>1, CountIs, Zenon
  <2> QED BY <1>2, <1>3, <2>1, Zenon
<1>6. ASSUME NEW sid
      PROVE  InFlight(Append(s, o), sid)
             = InFlight(s, sid) + IF o.op = "MSG" /\ o.sid = sid THEN 1 ELSE 0
  <2>1. InFlight(Append(s, o), sid) = CountIn(Append(s, o), MessagesTo(sid))
        /\ InFlight(s, sid) = CountIn(s, MessagesTo(sid))
    BY <1>1, CountIs, Zenon
  <2> QED BY <1>2, <1>4, <2>1, Zenon
<1> QED BY <1>5, <1>6

LEMMA CountConcatenated ==
  ASSUME NEW s \in Seq(AllOps), NEW t \in Seq(AllOps)
  PROVE  \A op : Count(s \o t, op) = Count(s, op) + Count(t, op)
<1> HIDE DEF AllOps
<1>1. s \o t \in Seq(AllOps)
  OBVIOUS
<1>2. \A S : CountIn(s \o t, S) = CountIn(s, S) + CountIn(t, S)
  BY CountConcat
<1> QED BY <1>1, <1>2, CountIs

LEMMA CountRead ==
  ASSUME NEW s \in Seq(AllOps), s # <<>>
  PROVE  /\ \A op : Count(s, op) = Count(Tail(s), op) + IF Head(s).op = op THEN 1 ELSE 0
         /\ \A sid : InFlight(s, sid)
              = InFlight(Tail(s), sid) + IF Head(s).op = "MSG" /\ Head(s).sid = sid THEN 1 ELSE 0
<1>1. Tail(s) \in Seq(AllOps) /\ Head(s) \in AllOps
  <2> HIDE DEF AllOps
  <2> QED OBVIOUS
<1>2. \A S : CountIn(s, S) = CountIn(Tail(s), S) + IF Head(s) \in S THEN 1 ELSE 0
  <2> HIDE DEF AllOps
  <2> QED BY CountTail
<1>3. \A op : Head(s) \in Named(op) <=> Head(s).op = op
  BY <1>1 DEF Named
<1>4. \A sid : Head(s) \in MessagesTo(sid) <=> Head(s).op = "MSG" /\ Head(s).sid = sid
  BY <1>1 DEF MessagesTo
<1>5. ASSUME NEW op
      PROVE  Count(s, op) = Count(Tail(s), op) + IF Head(s).op = op THEN 1 ELSE 0
  <2>1. Count(s, op) = CountIn(s, Named(op))
        /\ Count(Tail(s), op) = CountIn(Tail(s), Named(op))
    BY <1>1, CountIs, Zenon
  <2> QED BY <1>2, <1>3, <2>1, Zenon
<1>6. ASSUME NEW sid
      PROVE  InFlight(s, sid)
             = InFlight(Tail(s), sid) + IF Head(s).op = "MSG" /\ Head(s).sid = sid THEN 1 ELSE 0
  <2>1. InFlight(s, sid) = CountIn(s, MessagesTo(sid))
        /\ InFlight(Tail(s), sid) = CountIn(Tail(s), MessagesTo(sid))
    BY <1>1, CountIs, Zenon
  <2> QED BY <1>2, <1>4, <2>1, Zenon
<1> QED BY <1>5, <1>6

\* None of the operations has the name.
LEMMA CountZero ==
  ASSUME NEW s \in Seq(AllOps), NEW op, \A i \in DOMAIN s : s[i].op # op
  PROVE  Count(s, op) = 0
<1>1. {i \in DOMAIN s : s[i].op = op} = {}
  OBVIOUS
<1> QED BY <1>1, FS_EmptySet DEF Count

-----------------------------------------------------------------------------
(* The replay of CONNECT and the UNSUBs of a drain.                        *)

\* Sids are allocated from one.
GoodSids(st) ==
  st.next_sid \in Nat \ {0} /\ DOMAIN st.subscriptions \subseteq Sids(st)

LEMMA ReplayFacts ==
  ASSUME NEW st, Good(st), GoodSids(st)
  PROVE  LET r == Replay(st)
             subs == st.subscriptions
         IN  /\ r \in Seq(ClientOps)
             /\ \A i \in DOMAIN r : \E s \in DOMAIN subs :
                  \/ r[i] = Sub(s, subs[s].subject)
                  \/ subs[s].remaining # None /\ r[i] = Unsub(s, subs[s].remaining)
             /\ \A s \in DOMAIN subs : \E i \in DOMAIN r : r[i] = Sub(s, subs[s].subject)
             /\ \A s \in DOMAIN subs : subs[s].remaining # None => EndsWith(r, s)
<1> DEFINE subs  == st.subscriptions
           n     == st.next_sid - 1
           lists == [s \in 1..n |-> IF s \in DOMAIN subs THEN ReplayOps(s, subs[s]) ELSE <<>>]
           r     == FlattenSeq(lists)
<1>1. Replay(st) = r
  BY DEF Replay, Sids
<1>2. n \in Nat /\ DOMAIN subs \subseteq 1..n
  BY DEF GoodSids, Sids
<1>3. \A s \in DOMAIN subs : subs[s] \in Subscription /\ s \in Nat \ {0}
  BY <1>2 DEF Good, CoreType
<1> HIDE DEF subs, n
<1>4. ASSUME NEW s \in DOMAIN subs
      PROVE  LET l == ReplayOps(s, subs[s])
             IN  /\ l \in Seq(ClientOps)
                 /\ \A o : o \in Range(l)
                      <=> \/ o = Sub(s, subs[s].subject)
                          \/ subs[s].remaining # None /\ o = Unsub(s, subs[s].remaining)
                 /\ subs[s].remaining # None => EndsWith(l, s)
                 /\ \A sid : sid # s => NoSub(l, sid)
  <2> DEFINE a == Sub(s, subs[s].subject)
             b == Unsub(s, subs[s].remaining)
             l == ReplayOps(s, subs[s])
  <2>1. a \in ClientOps /\ a.op = "SUB" /\ a.sid = s
    BY <1>3 DEF ClientOps, Sub, Subscription
  <2>2. b \in ClientOps /\ b.op = "UNSUB" /\ b.sid = s
    BY <1>3 DEF ClientOps, Unsub, Subscription
  <2>3. CASE subs[s].remaining = None
    <3>1. l = << a >>
      BY <2>3 DEF ReplayOps
    <3> HIDE DEF a, b, l
    <3>2. l \in Seq(ClientOps) /\ DOMAIN l = {1} /\ l[1] = a
      BY <2>1, <3>1
    <3> QED BY <2>1, <2>3, <3>2 DEF Range, NoSub, IsSub, a, b, l
  <2>4. CASE subs[s].remaining # None
    <3>1. l = << a, b >>
      BY <2>4 DEF ReplayOps
    <3> HIDE DEF a, b, l
    <3>2. l \in Seq(ClientOps) /\ DOMAIN l = {1, 2} /\ l[1] = a /\ l[2] = b
      BY <2>1, <2>2, <3>1
    <3>3. EndsWith(l, s)
      BY <2>2, <3>2 DEF EndsWith, IsSub, IsUnsub
    <3>4. \A sid : sid # s => NoSub(l, sid)
      BY <2>1, <2>2, <3>2 DEF NoSub, IsSub
    <3>5. \A o : o \in Range(l) <=> o = a \/ o = b
      BY <3>2 DEF Range
    <3> QED BY <2>4, <3>2, <3>3, <3>4, <3>5 DEF a, b, l
  <2> QED BY <2>3, <2>4
<1>5. /\ lists \in Seq(Seq(ClientOps)) /\ Len(lists) = n /\ DOMAIN lists = 1..n
      /\ \A s \in 1..n : lists[s] = IF s \in DOMAIN subs THEN ReplayOps(s, subs[s]) ELSE <<>>
  <2>1. ASSUME NEW s \in 1..n PROVE lists[s] \in Seq(ClientOps)
    <3>1. CASE s \in DOMAIN subs
      <4>1. ReplayOps(s, subs[s]) \in Seq(ClientOps)
        BY <1>4, <3>1
      <4> QED BY <3>1, <4>1
    <3>2. CASE s \notin DOMAIN subs
      <4>1. <<>> \in Seq(ClientOps)
        OBVIOUS
      <4> QED BY <3>2, <4>1
    <3> QED BY <3>1, <3>2
  <2>2. lists \in [1..n -> Seq(ClientOps)]
    BY <2>1
  <2>3. \A T : [1..n -> T] \subseteq Seq(T)
    BY <1>2
  <2> QED BY <1>2, <2>2, <2>3
<1> HIDE DEF lists
<1>6. /\ r \in Seq(ClientOps)
      /\ \A e : e \in Range(r) <=> \E s \in 1..n : e \in Range(lists[s])
  BY <1>5, FlattenRange
<1>7. Range(<<>>) = {} /\ \A sid : NoSub(<<>>, sid)
  BY DEF Range, NoSub
<1>8. ASSUME NEW i \in DOMAIN r
      PROVE  \E s \in DOMAIN subs :
               \/ r[i] = Sub(s, subs[s].subject)
               \/ subs[s].remaining # None /\ r[i] = Unsub(s, subs[s].remaining)
  <2>1. r[i] \in Range(r)
    BY DEF Range
  <2>2. PICK s \in 1..n : r[i] \in Range(lists[s])
    BY <1>6, <2>1
  <2>3. s \in DOMAIN subs /\ lists[s] = ReplayOps(s, subs[s])
    BY <1>5, <1>7, <2>2
  <2> QED BY <1>4, <2>2, <2>3
<1>9. ASSUME NEW s \in DOMAIN subs
      PROVE  \E i \in DOMAIN r : r[i] = Sub(s, subs[s].subject)
  <2>1. Sub(s, subs[s].subject) \in Range(lists[s])
    BY <1>2, <1>4, <1>5
  <2>2. Sub(s, subs[s].subject) \in Range(r)
    BY <1>2, <1>6, <2>1
  <2> QED BY <2>2 DEF Range
<1>10. ASSUME NEW s \in DOMAIN subs, subs[s].remaining # None
       PROVE  EndsWith(r, s)
  <2>1. s \in 1..Len(lists) /\ EndsWith(lists[s], s)
    BY <1>2, <1>4, <1>5, <1>10
  <2>2. ASSUME NEW m \in 1..Len(lists), m # s PROVE NoSub(lists[m], s)
    BY <1>4, <1>5, <1>7, <2>2
  <2> QED BY <1>5, <2>1, <2>2, EndsWithFlatten
<1> QED BY <1>1, <1>6, <1>8, <1>9, <1>10 DEF subs

LEMMA DrainUnsubsFacts ==
  ASSUME NEW st, Good(st), GoodSids(st)
  PROVE  LET d    == DrainUnsubs(st)
             sids == DOMAIN st.subscriptions \ st.draining
         IN  /\ d \in Seq(ClientOps)
             /\ \A i \in DOMAIN d : \E s \in sids : d[i] = Unsub(s, None)
             /\ \A s \in sids : \E i \in DOMAIN d : d[i] = Unsub(s, None)
<1> DEFINE sids  == DOMAIN st.subscriptions \ st.draining
           n     == st.next_sid - 1
           lists == [s \in 1..n |-> IF s \in sids THEN << Unsub(s, None) >> ELSE <<>>]
           d     == FlattenSeq(lists)
<1>1. DrainUnsubs(st) = d
  BY DEF DrainUnsubs, Sids
<1>2. n \in Nat /\ sids \subseteq 1..n
  BY DEF GoodSids, Sids
<1> HIDE DEF sids, n
<1>3. ASSUME NEW s \in 1..n
      PROVE  << Unsub(s, None) >> \in Seq(ClientOps) /\ Range(<< Unsub(s, None) >>) = {Unsub(s, None)}
  <2>1. Unsub(s, None) \in ClientOps
    BY <1>2 DEF ClientOps, Unsub
  <2> HIDE DEF ClientOps
  <2>2. << Unsub(s, None) >> \in Seq(ClientOps)
        /\ DOMAIN << Unsub(s, None) >> = {1} /\ << Unsub(s, None) >>[1] = Unsub(s, None)
    BY <2>1
  <2> QED BY <2>2, Zenon DEF Range
<1>4. /\ lists \in Seq(Seq(ClientOps)) /\ Len(lists) = n
      /\ \A s \in 1..n : lists[s] = IF s \in sids THEN << Unsub(s, None) >> ELSE <<>>
  <2>1. <<>> \in Seq(ClientOps)
    OBVIOUS
  <2>2. \A s \in 1..n : lists[s] \in Seq(ClientOps)
    BY <1>3, <2>1, Zenon
  <2>3. lists \in [1..n -> Seq(ClientOps)]
    BY <2>2
  <2>4. \A T : [1..n -> T] \subseteq Seq(T)
    BY <1>2
  <2> QED BY <1>2, <2>3, <2>4
<1> HIDE DEF lists
<1>5. /\ d \in Seq(ClientOps)
      /\ \A e : e \in Range(d) <=> \E s \in 1..n : e \in Range(lists[s])
  BY <1>4, FlattenRange
<1>6. Range(<<>>) = {}
  BY DEF Range
<1>7. ASSUME NEW i \in DOMAIN d PROVE \E s \in sids : d[i] = Unsub(s, None)
  <2>1. d[i] \in Range(d)
    BY DEF Range
  <2>2. PICK s \in 1..n : d[i] \in Range(lists[s])
    BY <1>5, <2>1
  <2>3. s \in sids /\ lists[s] = << Unsub(s, None) >>
    BY <1>4, <1>6, <2>2, Zenon
  <2> QED BY <1>3, <2>2, <2>3, Zenon
<1>8. ASSUME NEW s \in sids PROVE \E i \in DOMAIN d : d[i] = Unsub(s, None)
  <2>1. s \in 1..n /\ lists[s] = << Unsub(s, None) >>
    BY <1>2, <1>4, Zenon
  <2>2. Unsub(s, None) \in Range(d)
    BY <1>3, <1>5, <2>1, Zenon
  <2> QED BY <2>2 DEF Range
<1> QED BY <1>1, <1>5, <1>7, <1>8 DEF sids

-----------------------------------------------------------------------------
(* What each step does to the parts of the core the invariants speak of,   *)
(* and what it writes.                                                     *)

Is(st, p, n, subs, d, pings, l) ==
  /\ st.phase = p /\ st.next_sid = n /\ st.subscriptions = subs
  /\ st.draining = d /\ st.pending_pings = pings /\ st.pending_liveness = l

Moves(p, n, subs, d, pings, l, out) ==
  Is(core', p, n, subs, d, pings, l) /\ c2s' = c2s \o out

LEMMA IsByFields ==
  ASSUME NEW st, NEW p, NEW i, NEW n, NEW subs, NEW d, NEW pings, NEW l, NEW b,
         Fields(st, p, i, n, subs, d, pings, l, b)
  PROVE  Is(st, p, n, subs, d, pings, l)
BY Zenon DEF Fields, Is

Negotiating(p) == p \in {"Awaiting_info", "Awaiting_connect"}
Live(p) == p \in {"Connected", "Draining"}

LEMMA ErrorsAreNotNone ==
  /\ \A st : PhaseError(st) # None
  /\ \A e \in Errors : e # None
BY NoneAssumption, PhaseErrorNamed

LEMMA PhaseCases ==
  ASSUME Inv
  PROVE  core.phase \in Phases /\ IsCore(core)
BY GoodByParts DEF Inv, Parts, GoodParts

LEMMA ConnectMoves ==
  ASSUME Inv, Connect
  PROVE  /\ core.phase = "Awaiting_connect"
         /\ Moves("Connected", core.next_sid, core.subscriptions, core.draining,
                  core.pending_pings, core.pending_liveness,
                  (<< ConnectOp(core) >> \o Replay(core)) \o held)
<1> DEFINE t == outgoing_connect(core)
<1>1. t.error = None /\ core' = t.state /\ c2s' = c2s \o (t.output \o held)
  BY DEF Connect, ApplyWriting
<1>2. core.phase = "Awaiting_connect"
  BY <1>1, PhaseCases, ErrorsAreNotNone DEF outgoing_connect, Failure, Errors, Phases
<1>3. /\ t.state = [core EXCEPT !.phase = "Connected"]
      /\ t.output = << ConnectOp(core) >> \o Replay(core)
  BY <1>1, <1>2, ErrorsAreNotNone DEF outgoing_connect, Failure, Transition, Errors
<1>4. Is([core EXCEPT !.phase = "Connected"], "Connected", core.next_sid,
         core.subscriptions, core.draining, core.pending_pings, core.pending_liveness)
  BY PhaseCases DEF Is, IsCore
<1> HIDE DEF t
<1> QED BY <1>1, <1>2, <1>3, <1>4 DEF Moves

LEMMA PublishMoves ==
  ASSUME Inv, NEW m \in Messages, Publish(m)
  PROVE  core.phase = "Connected" /\ core' = core /\ c2s' = c2s \o << Pub(m) >>
BY ErrorsAreNotNone
   DEF Publish, Connected, Apply, ApplyWriting, outgoing_publish, Failure, Emit,
       Transition, Errors

LEMMA SubscribeMoves ==
  ASSUME Inv, NEW subject \in Subjects, Subscribe(subject)
  PROVE  LET sid == core.next_sid
         IN  \E out :
               /\ Moves(core.phase, sid + 1,
                        [s \in DOMAIN core.subscriptions \cup {sid} |->
                           IF s = sid
                           THEN [subject |-> subject, remaining |-> None, delivered |-> 0]
                           ELSE core.subscriptions[s]],
                        core.draining, core.pending_pings, core.pending_liveness, out)
               /\ \/ Negotiating(core.phase) /\ out = <<>>
                  \/ core.phase = "Connected" /\ out = << Sub(sid, subject) >>
<1> DEFINE sid == core.next_sid
           t == outgoing_subscribe(core, subject)
           subs == [s \in DOMAIN core.subscriptions \cup {sid} |->
                      IF s = sid
                      THEN [subject |-> subject, remaining |-> None, delivered |-> 0]
                      ELSE core.subscriptions[s]]
           new == [core EXCEPT !.next_sid = sid + 1, !.subscriptions = subs]
<1>1. t.error = None /\ core' = t.state /\ c2s' = c2s \o t.output
  BY DEF Subscribe, Apply, ApplyWriting
<1>2. Is(new, core.phase, sid + 1, subs, core.draining, core.pending_pings,
         core.pending_liveness)
  <2> HIDE DEF subs
  <2> QED BY PhaseCases DEF Is, IsCore
<1>3. t = CASE core.phase \in {"Awaiting_info", "Awaiting_connect"} ->
                 Transition(new, <<>>, <<>>, <<>>, sid)
            [] core.phase = "Connected" ->
                 IF subject \in Unencodable THEN Failure(core, "Codec")
                 ELSE Transition(new, << Sub(sid, subject) >>, <<>>, <<>>, sid)
            [] OTHER -> Failure(core, PhaseError(core))
  BY Zenon DEF outgoing_subscribe
<1> HIDE DEF t, new, subs, sid
<1>4. \/ Negotiating(core.phase) /\ t.output = <<>> /\ t.state = new
      \/ core.phase = "Connected" /\ t.output = << Sub(sid, subject) >> /\ t.state = new
  <2>1. CASE core.phase \in {"Awaiting_info", "Awaiting_connect"}
    BY <1>3, <2>1 DEF Transition, Negotiating
  <2>2. CASE core.phase = "Connected"
    <3>1. CASE subject \in Unencodable
      <4>1. t = Failure(core, "Codec")
        BY <1>3, <2>2, <3>1
      <4> QED BY <1>1, <4>1, ErrorsAreNotNone DEF Failure, Errors
    <3>2. CASE subject \notin Unencodable
      <4>1. t = Transition(new, << Sub(sid, subject) >>, <<>>, <<>>, sid)
        BY <1>3, <2>2, <3>2
      <4> QED BY <2>2, <4>1 DEF Transition
    <3> QED BY <3>1, <3>2
  <2>3. CASE core.phase \notin {"Awaiting_info", "Awaiting_connect", "Connected"}
    <3>1. t = Failure(core, PhaseError(core))
      BY <1>3, <2>3
    <3> QED BY <1>1, <3>1, ErrorsAreNotNone DEF Failure
  <2> QED BY <2>1, <2>2, <2>3
<1> DEFINE out == t.output
<1>5. /\ Moves(core.phase, sid + 1, subs, core.draining, core.pending_pings,
               core.pending_liveness, out)
      /\ \/ Negotiating(core.phase) /\ out = <<>>
         \/ core.phase = "Connected" /\ out = << Sub(sid, subject) >>
  BY <1>1, <1>2, <1>4 DEF Moves
<1> HIDE DEF out
<1> QED BY <1>5, Zenon DEF subs, sid

\* Unsubscribe and auto-unsubscribe.
UnsubscribeMoves(sid, m) ==
  LET ends == m = None \/ core.subscriptions[sid].delivered >= m
  IN  /\ sid \in DOMAIN core.subscriptions
      /\ \E out :
           /\ Moves(core.phase, core.next_sid,
                    IF ends THEN remove_subscription(sid, core.subscriptions)
                    ELSE [core.subscriptions EXCEPT
                            ![sid].remaining = m - core.subscriptions[sid].delivered],
                    core.draining \ {sid}, core.pending_pings, core.pending_liveness, out)
           /\ \/ Negotiating(core.phase) /\ out = <<>>
              \/ core.phase = "Connected" /\ out = << Unsub(sid, IF ends THEN None ELSE m) >>

LEMMA OutgoingUnsubscribeMoves ==
  ASSUME Inv, NEW sid, NEW m, Apply(outgoing_unsubscribe(core, sid, m))
  PROVE  UnsubscribeMoves(sid, m)
<1> DEFINE t == outgoing_unsubscribe(core, sid, m)
           ends == m = None \/ core.subscriptions[sid].delivered >= m
           subs == IF ends THEN remove_subscription(sid, core.subscriptions)
                   ELSE [core.subscriptions EXCEPT
                           ![sid].remaining = m - core.subscriptions[sid].delivered]
           new == [core EXCEPT !.subscriptions = subs, !.draining = @ \ {sid}]
           out == << Unsub(sid, IF ends THEN None ELSE m) >>
<1>1. t.error = None /\ core' = t.state /\ c2s' = c2s \o t.output
  BY DEF Apply, ApplyWriting
<1>2. sid \in DOMAIN core.subscriptions
  BY <1>1, ErrorsAreNotNone DEF outgoing_unsubscribe, Failure, Errors
<1>3. Is(new, core.phase, core.next_sid, subs, core.draining \ {sid}, core.pending_pings,
         core.pending_liveness)
  <2> HIDE DEF subs
  <2> QED BY PhaseCases DEF Is, IsCore
<1>4. t = CASE core.phase \in {"Awaiting_info", "Awaiting_connect"} -> empty_transition(new)
            [] core.phase = "Connected" -> Emit(new, out)
            [] OTHER -> Failure(core, PhaseError(core))
  BY <1>2 DEF outgoing_unsubscribe, quota_left
<1> HIDE DEF new, out
<1>5. \/ Negotiating(core.phase) /\ t.output = <<>> /\ t.state = new
      \/ core.phase = "Connected" /\ t.output = out /\ t.state = new
  <2> HIDE DEF t
  <2>1. CASE core.phase \in {"Awaiting_info", "Awaiting_connect"}
    BY <1>4, <2>1 DEF empty_transition, Emit, Transition, Negotiating
  <2>2. CASE core.phase = "Connected"
    BY <1>4, <2>2 DEF Emit, Transition
  <2>3. CASE core.phase \notin {"Awaiting_info", "Awaiting_connect", "Connected"}
    <3>1. t = Failure(core, PhaseError(core))
      BY <1>4, <2>3
    <3> QED BY <1>1, <3>1, ErrorsAreNotNone DEF Failure
  <2> QED BY <2>1, <2>2, <2>3
<1> HIDE DEF t, subs
<1> DEFINE written == t.output
<1>6. /\ Moves(core.phase, core.next_sid, subs, core.draining \ {sid}, core.pending_pings,
               core.pending_liveness, written)
      /\ \/ Negotiating(core.phase) /\ written = <<>>
         \/ core.phase = "Connected" /\ written = out
  BY <1>1, <1>3, <1>5 DEF Moves
<1> HIDE DEF written
<1> QED BY <1>2, <1>6, Zenon DEF UnsubscribeMoves, subs, out

LEMMA AutoUnsubscribeMoves ==
  ASSUME Inv, NEW sid, NEW n \in Int, AutoUnsubscribe(sid, n)
  PROVE  n > 0 /\ UnsubscribeMoves(sid, n)
<1>1. Apply(outgoing_auto_unsubscribe(core, sid, n))
  BY DEF AutoUnsubscribe
<1>2. n > 0
  <2>1. outgoing_auto_unsubscribe(core, sid, n).error = None
    BY <1>1 DEF Apply, ApplyWriting
  <2> QED BY <2>1, ErrorsAreNotNone DEF outgoing_auto_unsubscribe, Failure, Errors
<1>3. Apply(outgoing_unsubscribe(core, sid, n))
  BY <1>1, <1>2 DEF outgoing_auto_unsubscribe
<1> QED BY <1>2, <1>3, OutgoingUnsubscribeMoves

LEMMA DrainSubscriptionMoves ==
  ASSUME Inv, NEW sid, DrainSubscription(sid)
  PROVE  /\ core.phase = "Connected" /\ sid \in DOMAIN core.subscriptions
         /\ Moves("Connected", core.next_sid, core.subscriptions,
                  core.draining \cup {sid},
                  Append(core.pending_pings, SubscriptionDrain(sid)),
                  core.pending_liveness, << Unsub(sid, None), Ping >>)
<1> DEFINE t == outgoing_drain_subscription(core, sid)
           with == [core EXCEPT !.draining = @ \cup {sid}]
           new == enqueue_ping(with, SubscriptionDrain(sid))
<1>1. t.error = None /\ core' = t.state /\ c2s' = c2s \o t.output /\ core.phase = "Connected"
  BY DEF DrainSubscription, Apply, ApplyWriting, Connected
<1>2. sid \in DOMAIN core.subscriptions /\ sid \notin core.draining
  BY <1>1, ErrorsAreNotNone DEF outgoing_drain_subscription, Failure, Errors
<1>3. t.state = new /\ t.output = << Unsub(sid, None), Ping >>
  <2>1. t = Emit(new, DrainOps(sid))
    <3> HIDE DEF new
    <3> QED BY <1>1, <1>2 DEF outgoing_drain_subscription, new
  <2> HIDE DEF new, t
  <2> QED BY <2>1 DEF Emit, Transition, DrainOps
<1>4. Is(new, "Connected", core.next_sid, core.subscriptions, core.draining \cup {sid},
         Append(core.pending_pings, SubscriptionDrain(sid)), core.pending_liveness)
  <2> DEFINE o == SubscriptionDrain(sid)
  <2>1. new = [with EXCEPT !.pending_pings = Append(@, o)]
    BY DEF enqueue_ping
  <2> HIDE DEF o
  <2> QED BY <1>1, <2>1, PhaseCases DEF Is, IsCore, o
<1> HIDE DEF t, new
<1> QED BY <1>1, <1>2, <1>3, <1>4 DEF Moves

LEMMA FlushMoves ==
  ASSUME Inv, Flush
  PROVE  \E out :
           /\ Moves(core.phase, core.next_sid, core.subscriptions, core.draining,
                    Append(core.pending_pings, Origin("Flush")), core.pending_liveness, out)
           /\ \/ Negotiating(core.phase) /\ out = <<>> /\ held' = held \o << Ping >>
              \/ Live(core.phase) /\ out = << Ping >> /\ held' = held
<1> DEFINE t == outgoing_flush(core)
           new == enqueue_ping(core, Origin("Flush"))
<1>1. t.error = None /\ core' = t.state
  BY DEF Flush, Apply, ApplyWriting
<1>2. core.phase # "Closed"
  BY <1>1, ErrorsAreNotNone DEF outgoing_flush, Failure, Errors
<1>3. t.state = new /\ t.output = << Ping >>
  <2>1. t = Emit(new, << Ping >>)
    <3> HIDE DEF new
    <3> QED BY <1>2 DEF outgoing_flush, new
  <2> HIDE DEF new, t
  <2> QED BY <2>1 DEF Emit, Transition
<1>4. Is(new, core.phase, core.next_sid, core.subscriptions, core.draining,
         Append(core.pending_pings, Origin("Flush")), core.pending_liveness)
  <2> DEFINE o == Origin("Flush")
  <2>1. new = [core EXCEPT !.pending_pings = Append(@, o)]
    BY DEF enqueue_ping
  <2> HIDE DEF o
  <2> QED BY <2>1, PhaseCases DEF Is, IsCore, o
<1>5. \/ Negotiating(core.phase) /\ c2s' = c2s \o <<>> /\ held' = held \o << Ping >>
      \/ Live(core.phase) /\ c2s' = c2s \o << Ping >> /\ held' = held
  <2>1. CASE core.phase \in {"Awaiting_info", "Awaiting_connect"}
    BY <1>3, <2>1 DEF Flush, ApplyWriting, Negotiating
  <2>2. CASE core.phase \notin {"Awaiting_info", "Awaiting_connect"}
    <3>1. Live(core.phase)
      BY <1>2, <2>2, PhaseCases DEF Live, Phases
    <3> QED BY <1>3, <2>2, <3>1 DEF Flush, Apply, ApplyWriting
  <2> QED BY <2>1, <2>2
<1> HIDE DEF t, new
<1> QED BY <1>1, <1>3, <1>4, <1>5 DEF Moves

LEMMA DrainMoves ==
  ASSUME Inv, Drain
  PROVE  /\ core.phase = "Connected"
         /\ Moves("Draining", core.next_sid, core.subscriptions, core.draining,
                  Append(core.pending_pings, Origin("Drain")), core.pending_liveness,
                  Append(DrainUnsubs(core), Ping))
<1> DEFINE t == outgoing_drain(core)
           with == [core EXCEPT !.phase = "Draining"]
           new == enqueue_ping(with, Origin("Drain"))
           out == Append(DrainUnsubs(core), Ping)
<1>1. core' = t.state /\ c2s' = c2s \o t.output /\ core.phase = "Connected"
  BY DEF Drain, Apply, ApplyWriting, Connected
<1>2. t.state = new /\ t.output = out
  <2>1. t = Transition(new, out, <<"Draining">>, <<>>, None)
    <3> HIDE DEF new, out
    <3> QED BY <1>1 DEF outgoing_drain, new, out
  <2> HIDE DEF new, t, out
  <2> QED BY <2>1 DEF Transition
<1>3. Is(new, "Draining", core.next_sid, core.subscriptions, core.draining,
         Append(core.pending_pings, Origin("Drain")), core.pending_liveness)
  <2> DEFINE o == Origin("Drain")
  <2>1. new = [with EXCEPT !.pending_pings = Append(@, o)]
    BY DEF enqueue_ping
  <2> HIDE DEF o
  <2> QED BY <2>1, PhaseCases DEF Is, IsCore, o
<1> HIDE DEF t, new, out
<1> QED BY <1>1, <1>2, <1>3 DEF Moves, out

LEMMA ClosedPhase ==
  ASSUME Inv
  PROVE  closed_transition(core).state.phase = "Closed"
<1> DEFINE c == [core EXCEPT !.phase = "Closed", !.next_ping = FALSE]
<1>1. closed_transition(core).state = c
  BY DEF closed_transition, Transition
<1>2. c.phase = "Closed"
  BY PhaseCases DEF IsCore
<1> HIDE DEF c
<1> QED BY <1>1, <1>2

\* The liveness timer gives up, or sends one more PING.
LEMMA TimerMoves ==
  ASSUME Inv, Timer
  PROVE  /\ core.phase = "Connected" /\ up
         /\ \/ GiveUp(closed_transition(core)) /\ core.pending_liveness >= MaxPings
            \/ /\ Moves("Connected", core.next_sid, core.subscriptions, core.draining,
                        Append(core.pending_pings, Origin("Liveness")),
                        core.pending_liveness + 1, << Ping >>)
               /\ CallerFrame /\ UNCHANGED << held, granted, received, raised >>
<1>1. core.phase = "Connected" /\ up /\ next_timeout(core)
  BY DEF Timer, next_timeout
<1> DEFINE t == timer(core)
           with == [touch(core) EXCEPT !.pending_liveness = @ + 1]
           new == enqueue_ping(with, Origin("Liveness"))
<1>2. CASE core.pending_liveness >= MaxPings
  <2>1. t = closed_transition(core)
    BY <1>1, <1>2 DEF timer
  <2>2. t.state.phase = "Closed"
    BY <2>1, ClosedPhase
  <2> HIDE DEF t
  <2>3. GiveUp(t)
    BY <2>2 DEF Timer, t
  <2> QED BY <1>1, <1>2, <2>1, <2>3 DEF GiveUp
<1>3. CASE ~(core.pending_liveness >= MaxPings)
  <2>1. t = Emit(new, << Ping >>)
    <3> HIDE DEF new
    <3> QED BY <1>1, <1>3 DEF timer, new
  <2>2. Is(new, "Connected", core.next_sid, core.subscriptions, core.draining,
           Append(core.pending_pings, Origin("Liveness")), core.pending_liveness + 1)
    <3> DEFINE o == Origin("Liveness")
    <3>1. new = [with EXCEPT !.pending_pings = Append(@, o)]
      BY DEF enqueue_ping
    <3> HIDE DEF o
    <3> QED BY <1>1, <3>1, PhaseCases DEF Is, IsCore, o, touch
  <2>3. t.state = new /\ t.output = << Ping >>
    <3> HIDE DEF new, t
    <3> QED BY <2>1 DEF Emit, Transition
  <2>4. t.state.phase # "Closed"
    BY <2>2, <2>3, Zenon DEF Is
  <2> HIDE DEF t, new
  <2>5. Apply(t) /\ CallerFrame /\ UNCHANGED << held, granted, received, raised >>
    BY <2>4 DEF Timer, GiveUp, t
  <2> QED BY <1>1, <2>2, <2>3, <2>5 DEF Apply, ApplyWriting, Moves
<1> QED BY <1>2, <1>3

\* Reading one operation, by what it is.
KeepsCore(out) ==
  /\ Moves(core.phase, core.next_sid, core.subscriptions, core.draining,
           core.pending_pings, core.pending_liveness, out)
  /\ UNCHANGED received

ReadsInfo ==
  /\ Head(s2c).op = "INFO"
  /\ Moves(IF core.phase = "Awaiting_info" THEN "Awaiting_connect" ELSE core.phase,
           core.next_sid, core.subscriptions, core.draining, core.pending_pings,
           core.pending_liveness, <<>>)
  /\ UNCHANGED received

ReadsPing == Head(s2c).op = "PING" /\ KeepsCore(<< Pong >>)

ReadsNotice == /\ Live(core.phase) /\ Head(s2c).op \in {"OK", "ERR"}
               /\ KeepsCore(<<>>)

ReadsPong ==
  /\ Live(core.phase) /\ Head(s2c).op = "PONG"
  /\ IF core.pending_pings = <<>>
     THEN Moves(core.phase, core.next_sid, core.subscriptions, core.draining, <<>>, 0, <<>>)
     ELSE LET origin == Head(core.pending_pings)
          IN  Moves(core.phase, core.next_sid,
                    IF origin.kind = "Drain" THEN <<>>
                    ELSE IF origin.kind = "Subscription_drain"
                    THEN remove_subscription(origin.sid, core.subscriptions)
                    ELSE core.subscriptions,
                    IF origin.kind = "Drain" THEN {}
                    ELSE IF origin.kind = "Subscription_drain"
                    THEN core.draining \ {origin.sid}
                    ELSE core.draining,
                    Tail(core.pending_pings), 0, <<>>)
  /\ UNCHANGED received

\* The subscriptions after a message was delivered to sid.
Delivered(subs, sid) ==
  LET sub == subs[sid]
  IN  IF sub.remaining = None THEN [subs EXCEPT ![sid].delivered = @ + 1]
      ELSE IF sub.remaining = 1 THEN remove_subscription(sid, subs)
      ELSE [subs EXCEPT ![sid] = [subject   |-> sub.subject,
                                  remaining |-> sub.remaining - 1,
                                  delivered |-> sub.delivered + 1]]

ReadsMessage ==
  LET sid == Head(s2c).sid
  IN  /\ Live(core.phase) /\ Head(s2c).op = "MSG" /\ sid \in 1..MaxSid
      /\ \/ sid \notin DOMAIN core.subscriptions /\ KeepsCore(<<>>)
         \/ /\ sid \in DOMAIN core.subscriptions
            /\ Moves(core.phase, core.next_sid, Delivered(core.subscriptions, sid),
                     core.draining, core.pending_pings, core.pending_liveness, <<>>)
            /\ received' = [received EXCEPT ![sid] = @ + 1]

LEMMA NothingReceived ==
  ASSUME Inv, NEW d, d = <<>>,
         received' = [s \in 1..MaxSid |-> received[s] + IF d = << s >> THEN 1 ELSE 0]
  PROVE  received' = received
<1>1. received \in [1..MaxSid -> Nat]
  BY DEF Inv, Env
<1>2. \A s \in 1..MaxSid : d # << s >> /\ received[s] \in Nat
  BY <1>1
<1>3. \A s \in 1..MaxSid : received'[s] = received[s]
  BY <1>2
<1> QED BY <1>1, <1>3

LEMMA OneReceived ==
  ASSUME Inv, NEW sid \in 1..MaxSid, NEW d, d = << sid >>,
         received' = [s \in 1..MaxSid |-> received[s] + IF d = << s >> THEN 1 ELSE 0]
  PROVE  received' = [received EXCEPT ![sid] = @ + 1]
<1>1. received \in [1..MaxSid -> Nat]
  BY DEF Inv, Env
<1>2. \A s \in 1..MaxSid : received[s] \in Nat /\ (d = << s >> <=> s = sid)
  BY <1>1
<1> DEFINE r == [received EXCEPT ![sid] = @ + 1]
<1>3. \A s \in 1..MaxSid : received'[s] = r[s]
  BY <1>1, <1>2
<1> QED BY <1>1, <1>3

LEMMA TouchKeeps ==
  ASSUME NEW st, IsCore(st)
  PROVE  /\ IsCore(touch(st))
         /\ Is(touch(st), st.phase, st.next_sid, st.subscriptions, st.draining,
               st.pending_pings, st.pending_liveness)
BY DEF touch, Is, IsCore

\* A PONG settles the oldest barrier, if there is one.
LEMMA PongSettles ==
  ASSUME Inv
  PROVE  LET t == incoming_pong(core)
             origin == Head(core.pending_pings)
         IN  /\ t.output = <<>> /\ t.deliveries = <<>>
             /\ core.pending_pings = <<>>
                  => Is(t.state, core.phase, core.next_sid, core.subscriptions,
                        core.draining, <<>>, 0)
             /\ core.pending_pings # <<>>
                  => Is(t.state, core.phase, core.next_sid,
                        IF origin.kind = "Drain" THEN <<>>
                        ELSE IF origin.kind = "Subscription_drain"
                        THEN remove_subscription(origin.sid, core.subscriptions)
                        ELSE core.subscriptions,
                        IF origin.kind = "Drain" THEN {}
                        ELSE IF origin.kind = "Subscription_drain"
                        THEN core.draining \ {origin.sid}
                        ELSE core.draining,
                        Tail(core.pending_pings), 0)
<1> DEFINE t == incoming_pong(core)
           origin == Head(core.pending_pings)
           a == [core EXCEPT !.pending_liveness = 0]
           popped == [a EXCEPT !.pending_pings = Tail(@)]
           all == [popped EXCEPT !.subscriptions = <<>>, !.draining = {}]
           one == [popped EXCEPT !.subscriptions = remove_subscription(origin.sid, @),
                                 !.draining = @ \ {origin.sid}]
           settled_ == CASE origin.kind = "Drain" -> all
                         [] origin.kind = "Subscription_drain" -> one
                         [] OTHER -> popped
<1>1. t = IF core.pending_pings = <<>>
          THEN Transition(touch(a), <<>>, <<"Protocol_notice">>, <<>>, None)
          ELSE Transition(touch(settled_), <<>>,
                          IF origin.kind = "Liveness" THEN <<>> ELSE <<"Flush_completed">>,
                          <<>>, None)
  BY Zenon DEF incoming_pong, answered, forget_subscription
<1>2. /\ IsCore(a)
      /\ Is(a, core.phase, core.next_sid, core.subscriptions, core.draining,
            core.pending_pings, 0)
  BY PhaseCases DEF Is, IsCore
<1>3. /\ IsCore(popped)
      /\ Is(popped, core.phase, core.next_sid, core.subscriptions, core.draining,
            Tail(core.pending_pings), 0)
  <2> HIDE DEF a
  <2> QED BY <1>2 DEF Is, IsCore
<1>4. /\ IsCore(all)
      /\ Is(all, core.phase, core.next_sid, <<>>, {}, Tail(core.pending_pings), 0)
  <2> HIDE DEF popped
  <2> QED BY <1>3 DEF Is, IsCore
<1>5. /\ IsCore(one)
      /\ Is(one, core.phase, core.next_sid, remove_subscription(origin.sid, core.subscriptions),
            core.draining \ {origin.sid}, Tail(core.pending_pings), 0)
  <2> DEFINE r == remove_subscription(origin.sid, core.subscriptions)
             d == core.draining \ {origin.sid}
  <2>1. one = [popped EXCEPT !.subscriptions = r, !.draining = d]
    <3>1. popped.subscriptions = core.subscriptions /\ popped.draining = core.draining
      <4> HIDE DEF popped
      <4> QED BY <1>3 DEF Is
    <3> HIDE DEF popped
    <3> QED BY <3>1
  <2> HIDE DEF popped, r, d, one
  <2> QED BY <1>3, <2>1 DEF Is, IsCore, r, d
<1> HIDE DEF t, a, popped, all, one
<1>6. CASE core.pending_pings = <<>>
  <2>1. t.state = touch(a) /\ t.output = <<>> /\ t.deliveries = <<>>
    BY <1>1, <1>6 DEF Transition
  <2> QED BY <1>2, <1>6, <2>1, TouchKeeps DEF Is, t
<1>7. CASE core.pending_pings # <<>>
  <2>1. t.state = touch(settled_) /\ t.output = <<>> /\ t.deliveries = <<>>
    <3> HIDE DEF settled_
    <3> QED BY <1>1, <1>7 DEF Transition
  <2>2. CASE origin.kind = "Drain"
    <3>1. t.state = touch(all)
      BY <2>1, <2>2
    <3> QED BY <1>4, <1>7, <2>1, <2>2, <3>1, TouchKeeps DEF Is, t
  <2>3. CASE origin.kind = "Subscription_drain"
    <3>1. t.state = touch(one)
      BY <2>1, <2>3
    <3>2. Is(touch(one), one.phase, one.next_sid, one.subscriptions, one.draining,
             one.pending_pings, one.pending_liveness)
      BY <1>5, TouchKeeps
    <3>3. origin.kind # "Drain"
      BY <2>3
    <3> QED BY <1>5, <1>7, <2>1, <2>3, <3>1, <3>2, <3>3 DEF Is, t
  <2>4. CASE origin.kind # "Drain" /\ origin.kind # "Subscription_drain"
    <3>1. t.state = touch(popped)
      BY <2>1, <2>4
    <3> QED BY <1>3, <1>7, <2>1, <2>4, <3>1, TouchKeeps DEF Is, t
  <2> QED BY <2>2, <2>3, <2>4
<1> QED BY <1>6, <1>7

LEMMA MessageDelivers ==
  ASSUME Inv, NEW sid \in DOMAIN core.subscriptions
  PROVE  LET t == incoming_message(core, sid)
         IN  /\ t.output = <<>> /\ t.deliveries = << sid >>
             /\ Is(t.state, core.phase, core.next_sid, Delivered(core.subscriptions, sid),
                   core.draining, core.pending_pings, core.pending_liveness)
<1> DEFINE t == incoming_message(core, sid)
           subs == Delivered(core.subscriptions, sid)
           new == [core EXCEPT !.subscriptions = subs]
<1>1. t = Transition(touch(new), <<>>, <<>>, << sid >>, None)
  BY DEF incoming_message, last_of_quota, Delivered
<1>2. /\ IsCore(new)
      /\ Is(new, core.phase, core.next_sid, subs, core.draining, core.pending_pings,
            core.pending_liveness)
  <2> HIDE DEF subs
  <2> QED BY PhaseCases DEF Is, IsCore
<1> HIDE DEF t, new, subs
<1>3. t.state = touch(new) /\ t.output = <<>> /\ t.deliveries = << sid >>
  BY <1>1 DEF Transition
<1> QED BY <1>2, <1>3, TouchKeeps DEF Is, t, subs

LEMMA ReadMoves ==
  ASSUME Inv, Read
  PROVE  /\ up /\ s2c # <<>> /\ s2c' = Tail(s2c) /\ core.phase # "Closed"
         /\ UNCHANGED << up, settled, held, server, sent, losses, granted, raised >>
         /\ Head(s2c) \in ServerOps
         /\ ReadsInfo \/ ReadsPing \/ ReadsNotice \/ ReadsPong \/ ReadsMessage
<1> DEFINE op == Head(s2c)
           t == handle_operation(core, op)
<1>1. /\ up /\ s2c # <<>> /\ s2c' = Tail(s2c)
      /\ UNCHANGED << up, settled, held, server, sent, losses, granted, raised >>
      /\ op \in ServerOps
  BY DEF Read, Inv, Env
<1>2. /\ t.error = None /\ core' = t.state /\ c2s' = c2s \o t.output
      /\ received' = [s \in 1..MaxSid |->
                        received[s] + IF t.deliveries = << s >> THEN 1 ELSE 0]
  BY DEF Read, Apply, ApplyWriting
<1>3. core.phase # "Closed" /\ (core.phase \in {"Connected", "Draining"} \/ op.op \in {"INFO", "PING"})
  <2>1. CASE core.phase = "Closed"
    BY <1>2, <2>1, ErrorsAreNotNone DEF handle_operation, Failure, Errors
  <2>2. CASE core.phase \notin {"Connected", "Draining", "Closed"} /\ op.op \notin {"INFO", "PING"}
    BY <1>2, <2>2, ErrorsAreNotNone DEF handle_operation, Failure, Errors
  <2> QED BY <2>1, <2>2
<1>4. op.op \in {"INFO", "PING", "PONG", "OK", "ERR", "MSG"}
  BY <1>1 DEF ServerOps
<1> HIDE DEF op
<1>5. IsCore(core) /\ core.phase \in Phases
  BY PhaseCases
<1>6. CASE op.op = "INFO"
  <2> DEFINE p == IF core.phase = "Awaiting_info" THEN "Awaiting_connect" ELSE core.phase
             new == [core EXCEPT !.info = op.info, !.phase = p]
  <2>1. t = Transition(touch(new), <<>>, info_events(op.info), <<>>, None)
    BY <1>3, <1>6 DEF handle_operation, incoming_info
  <2>2. /\ IsCore(new)
        /\ Is(new, p, core.next_sid, core.subscriptions, core.draining,
              core.pending_pings, core.pending_liveness)
    <3> HIDE DEF p
    <3> QED BY <1>5 DEF Is, IsCore
  <2> HIDE DEF new, p, t
  <2>3. t.state = touch(new) /\ t.output = <<>> /\ t.deliveries = <<>>
    BY <2>1 DEF Transition
  <2>4. UNCHANGED received
    BY <1>2, <2>3, NothingReceived
  <2>5. ReadsInfo
    BY <1>2, <1>6, <2>2, <2>3, <2>4, TouchKeeps DEF ReadsInfo, Moves, Is, p, op
  <2> QED BY <1>1, <1>3, <2>5 DEF op
<1>7. CASE op.op \in {"PING", "OK", "ERR"}
  <2> DEFINE out == IF op.op = "PING" THEN << Pong >> ELSE <<>>
  <2>1. t.state = touch(core) /\ t.output = out /\ t.deliveries = <<>>
    <3>1. CASE op.op = "PING"
      BY <1>3, <1>7, <3>1 DEF handle_operation, Emit, Transition
    <3>2. CASE op.op \in {"OK", "ERR"}
      BY <1>3, <1>7, <3>2 DEF handle_operation, Transition
    <3> QED BY <1>7, <3>1, <3>2
  <2> HIDE DEF t, out
  <2>2. UNCHANGED received
    BY <1>2, <2>1, NothingReceived
  <2>3. KeepsCore(out)
    BY <1>2, <1>5, <2>1, <2>2, TouchKeeps DEF KeepsCore, Moves
  <2> QED BY <1>1, <1>3, <1>7, <2>3 DEF ReadsPing, ReadsNotice, Live, out, op
<1>8. CASE op.op = "PONG"
  <2>1. t = incoming_pong(core) /\ Live(core.phase)
    BY <1>3, <1>8 DEF handle_operation, Live
  <2> HIDE DEF t
  <2>2. t.output = <<>> /\ t.deliveries = <<>>
    BY <2>1, PongSettles
  <2>3. UNCHANGED received
    BY <1>2, <2>2, NothingReceived
  <2>4. ReadsPong
    BY <1>2, <1>8, <2>1, <2>2, <2>3, PongSettles DEF ReadsPong, Moves, op
  <2> QED BY <1>1, <1>3, <2>4 DEF op
<1>9. CASE op.op = "MSG"
  <2>1. t = incoming_message(core, op.sid) /\ Live(core.phase) /\ op.sid \in 1..MaxSid
    <3>1. op.sid \in 1..MaxSid
      BY <1>1, <1>9 DEF ServerOps
    <3> QED BY <1>3, <1>9, <3>1 DEF handle_operation, Live
  <2> HIDE DEF t
  <2>2. CASE op.sid \notin DOMAIN core.subscriptions
    <3>1. t.state = core /\ t.output = <<>> /\ t.deliveries = <<>>
      BY <2>1, <2>2 DEF incoming_message, empty_transition, Emit, Transition
    <3>2. UNCHANGED received
      BY <1>2, <3>1, NothingReceived
    <3>3. KeepsCore(<<>>)
      BY <1>2, <3>1, <3>2 DEF KeepsCore, Moves, Is
    <3> QED BY <1>1, <1>3, <1>9, <2>1, <2>2, <3>3 DEF ReadsMessage, op
  <2>3. CASE op.sid \in DOMAIN core.subscriptions
    <3>1. /\ t.output = <<>> /\ t.deliveries = << op.sid >>
          /\ Is(t.state, core.phase, core.next_sid, Delivered(core.subscriptions, op.sid),
                core.draining, core.pending_pings, core.pending_liveness)
      BY <2>1, <2>3, MessageDelivers
    <3>2. received' = [received EXCEPT ![op.sid] = @ + 1]
      <4> DEFINE sid == op.sid
                 d == t.deliveries
      <4>1. sid \in 1..MaxSid /\ d = << sid >>
        BY <2>1, <3>1
      <4>2. received' = [s \in 1..MaxSid |-> received[s] + IF d = << s >> THEN 1 ELSE 0]
        BY <1>2
      <4> HIDE DEF sid, d
      <4>3. received' = [received EXCEPT ![sid] = @ + 1]
        BY <4>1, <4>2, OneReceived
      <4> QED BY <4>3 DEF sid
    <3> QED BY <1>1, <1>2, <1>3, <1>9, <2>1, <2>3, <3>1, <3>2 DEF ReadsMessage, Moves, op
  <2> QED BY <2>2, <2>3
<1> QED BY <1>4, <1>6, <1>7, <1>8, <1>9

-----------------------------------------------------------------------------
(* The steps, as the invariants see them.                                  *)

\* The caller gives up: the core is closed and the transport with it.
Closes ==
  /\ Is(core', "Closed", core.next_sid, core.subscriptions, core.draining,
        core.pending_pings, core.pending_liveness)
  /\ held' = <<>> /\ LoseWire
  /\ UNCHANGED << granted, received, raised >>

\* The transport is lost, or a redial failed: barriers go with a transport
\* that had been negotiated, and wait for the next one otherwise, with what
\* is held for them or without it.
Redials ==
  /\ up /\ LoseWire /\ UNCHANGED << granted, received, raised >>
  /\ \E pings :
       /\ Is(core', "Awaiting_info", core.next_sid, core.subscriptions, {}, pings, 0)
       /\ \/ core.phase = "Connected" /\ pings = <<>> /\ held' = held /\ dropped' = 0
          \/ /\ Negotiating(core.phase) /\ pings = core.pending_pings
             /\ \/ held' = held /\ dropped' = dropped
                \/ held' = <<>> /\ dropped' = dropped + Count(held, "PING")

LEMMA GiveUpCloses ==
  ASSUME Inv, GiveUp(closed_transition(core)) PROVE Closes
<1>1. core' = closed_transition(core).state /\ held' = <<>> /\ LoseWire
      /\ UNCHANGED << granted, received, raised >>
  BY DEF GiveUp
<1> DEFINE c == [core EXCEPT !.phase = "Closed", !.next_ping = FALSE]
<1>2. core' = c
  BY <1>1 DEF closed_transition, Transition
<1>3. Is(c, "Closed", core.next_sid, core.subscriptions, core.draining,
         core.pending_pings, core.pending_liveness)
  BY PhaseCases DEF Is, IsCore
<1> HIDE DEF c
<1> QED BY <1>1, <1>2, <1>3 DEF Closes

LEMMA ReconnectIs ==
  ASSUME NEW st, IsCore(st), NEW preserve \in BOOLEAN
  PROVE  Is(prepare_reconnect(st, preserve), "Awaiting_info", st.next_sid, st.subscriptions,
            {}, IF preserve THEN st.pending_pings ELSE <<>>, 0)
<1> DEFINE pings == IF preserve THEN st.pending_pings ELSE <<>>
           new == [st EXCEPT !.phase = "Awaiting_info", !.info = None, !.draining = {},
                             !.pending_pings = pings, !.pending_liveness = 0,
                             !.next_ping = FALSE]
<1>1. prepare_reconnect(st, preserve) = new
  BY DEF prepare_reconnect, kept_pings
<1>2. Is(new, "Awaiting_info", st.next_sid, st.subscriptions, {}, pings, 0)
  <2> HIDE DEF pings
  <2> QED BY DEF Is, IsCore
<1> QED BY <1>1, <1>2

LEMMA LossRedials ==
  ASSUME Inv, NEW eof \in BOOLEAN, TransportLost(eof) PROVE Redials
<1> DEFINE st == IF eof THEN closed_transition(core).state ELSE core
<1>1. /\ core' = prepare_reconnect(st, FALSE) /\ up /\ LoseWire /\ core.phase = "Connected"
      /\ UNCHANGED << held, granted, received, raised >> /\ dropped' = 0
  BY DEF TransportLost, incoming_eof
<1>2. IsCore(st) /\ st.next_sid = core.next_sid /\ st.subscriptions = core.subscriptions
  <2> DEFINE c == [core EXCEPT !.phase = "Closed", !.next_ping = FALSE]
  <2>1. closed_transition(core).state = c
    BY DEF closed_transition, Transition
  <2>2. IsCore(c) /\ c.next_sid = core.next_sid /\ c.subscriptions = core.subscriptions
    BY PhaseCases DEF IsCore
  <2> HIDE DEF c
  <2> QED BY <2>1, <2>2, PhaseCases
<1> HIDE DEF st
<1>3. Is(core', "Awaiting_info", core.next_sid, core.subscriptions, {}, <<>>, 0)
  BY <1>1, <1>2, ReconnectIs
<1> QED BY <1>1, <1>3 DEF Redials

LEMMA FailedRedialRedials ==
  ASSUME Inv, RedialFailed PROVE Redials
<1>1. /\ core' = prepare_reconnect(core, TRUE) /\ up /\ LoseWire
      /\ Negotiating(core.phase)
      /\ UNCHANGED << held, granted, received, raised, dropped >>
  BY DEF RedialFailed, Negotiating
<1>2. Is(core', "Awaiting_info", core.next_sid, core.subscriptions, {}, core.pending_pings, 0)
  BY <1>1, PhaseCases, ReconnectIs
<1> QED BY <1>1, <1>2 DEF Redials

LEMMA HeldWriteFailedRedials ==
  ASSUME Inv, HeldWriteFailed PROVE Redials
<1>1. /\ up /\ LoseWire /\ UNCHANGED << granted, received, raised >>
      /\ held' = <<>> /\ dropped' = dropped + Count(held, "PING")
  BY DEF HeldWriteFailed
<1>2. core' = prepare_reconnect(core, TRUE) /\ Negotiating(core.phase)
  BY HeldWriteRedials DEF HeldWriteFailed, Inv, Negotiating
<1>3. Is(core', "Awaiting_info", core.next_sid, core.subscriptions, {}, core.pending_pings, 0)
  BY <1>2, PhaseCases, ReconnectIs
<1> QED BY <1>1, <1>2, <1>3 DEF Redials

\* A caller's step that leaves the transport open: what it writes is typed and
\* names allocated sids, it writes nothing before CONNECT, and every barrier
\* it makes the core wait for has its PING written or held.
SidsIn(ops, n) == \A i \in DOMAIN ops : ops[i].op \in {"SUB", "UNSUB"} => ops[i].sid < n

Writes ==
  /\ UNCHANGED << up, s2c, server >>
  /\ core.next_sid <= core'.next_sid /\ core'.next_sid <= MaxSid + 1
  /\ core'.next_sid \in Nat
  /\ DOMAIN core'.subscriptions \subseteq Sids(core')
  /\ \E out \in Seq(ClientOps) :
       /\ c2s' = c2s \o out
       /\ SidsIn(out, core'.next_sid)
       /\ \/ /\ Negotiating(core.phase) /\ core'.phase = core.phase /\ out = <<>>
             /\ held' \in Seq({Ping})
          \/ /\ core.phase \in {"Awaiting_connect", "Connected", "Draining"}
             /\ Live(core'.phase) /\ up /\ held' = <<>>
       /\ Len(core'.pending_pings) + Count(held, "PING")
            = Len(core.pending_pings) + Count(out, "PING") + Count(held', "PING")
       /\ core'.pending_liveness + Len(core.pending_pings)
            <= core.pending_liveness + Len(core'.pending_pings)

-----------------------------------------------------------------------------
(* What is on the wire and what it names.                                  *)

ServerSubs == [max : Nat \cup {None}, sent : Nat]

NamedSids ==
  /\ core.next_sid \in 1..MaxSid + 1
  /\ DOMAIN core.subscriptions \subseteq Sids(core)
  /\ c2s \in Seq(ClientOps) /\ SidsIn(c2s, core.next_sid)
  /\ DOMAIN server \subseteq Sids(core)
  /\ server \in [DOMAIN server -> ServerSubs]

\* Nothing is on a transport that is not open, before CONNECT only what a
\* handshake exchanges, and after it nothing is held back.
Handshaking ==
  /\ held \in Seq({Ping})
  /\ ~up => /\ c2s = <<>> /\ s2c = <<>> /\ DOMAIN server = {}
            /\ core.phase \in {"Awaiting_info", "Closed"}
  /\ core.phase = "Closed" => ~up
  /\ Negotiating(core.phase) => /\ \A i \in DOMAIN c2s : c2s[i] = Pong
                                /\ \A i \in DOMAIN s2c : s2c[i].op \in {"INFO", "PING"}
                                /\ DOMAIN server = {}
  /\ Live(core.phase) => held = <<>>

WireInv == NamedSids /\ Handshaking

\* The barriers that lost their held PING and the liveness PINGs counted are
\* different ones of those that wait.
Barriers ==
  /\ BarriersAligned
  /\ dropped \in Nat
  /\ core.phase # "Closed" =>
       core.pending_liveness + dropped <= Len(core.pending_pings)

LEMMA WrittenOps ==
  /\ Ping \in ClientOps /\ Ping.op = "PING" /\ Pong \in ClientOps /\ Pong.op = "PONG"
  /\ \A m \in Messages : Pub(m) \in ClientOps /\ Pub(m).op = "PUB"
  /\ \A sid \in Nat \ {0}, s \in Subjects :
       Sub(sid, s) \in ClientOps /\ Sub(sid, s).op = "SUB" /\ Sub(sid, s).sid = sid
  /\ \A sid \in Nat \ {0}, m \in Nat \cup {None} :
       /\ Unsub(sid, m) \in ClientOps /\ Unsub(sid, m).op = "UNSUB"
       /\ Unsub(sid, m).sid = sid /\ Unsub(sid, m).max = m
BY DEF ClientOps, Ping, Pong, Pub, Sub, Unsub

\* An output of one operation.
LEMMA OneOp ==
  ASSUME NEW o \in ClientOps
  PROVE  /\ << o >> \in Seq(ClientOps)
         /\ \A op : Count(<< o >>, op) = IF o.op = op THEN 1 ELSE 0
         /\ \A n : SidsIn(<< o >>, n) <=> (o.op \in {"SUB", "UNSUB"} => o.sid < n)
<1>1. << o >> \in Seq(ClientOps) /\ DOMAIN << o >> = {1} /\ << o >>[1] = o
  <2> HIDE DEF ClientOps
  <2> QED OBVIOUS
<1>2. << o >> = Append(<<>>, o) /\ <<>> \in Seq(AllOps) /\ o \in AllOps
  BY DEF AllOps
<1>3. ASSUME NEW op PROVE Count(<< o >>, op) = IF o.op = op THEN 1 ELSE 0
  <2> DEFINE none == <<>>
             one == << o >>
             more == Append(none, o)
  <2>1. none \in Seq(AllOps) /\ one = more /\ Count(none, op) = 0
    BY <1>2, CountNone
  <2> HIDE DEF none
  <2>2. Count(more, op) = Count(none, op) + IF o.op = op THEN 1 ELSE 0
    BY <1>2, <2>1, CountAppended, Zenon
  <2> HIDE DEF one, more
  <2>3. Count(one, op) = IF o.op = op THEN 1 ELSE 0
    BY <2>1, <2>2
  <2> QED BY <2>3 DEF one
<1> DEFINE one == << o >>
<1> HIDE DEF ClientOps, one
<1>4. ASSUME NEW n PROVE SidsIn(one, n) <=> (o.op \in {"SUB", "UNSUB"} => o.sid < n)
  <2>1. DOMAIN one = {1} /\ one[1] = o
    BY <1>1 DEF one
  <2> QED BY <2>1 DEF SidsIn
<1> QED BY <1>1, <1>3, <1>4 DEF one

LEMMA NoOps ==
  /\ <<>> \in Seq(ClientOps)
  /\ \A op : Count(<<>>, op) = 0
  /\ \A n : SidsIn(<<>>, n)
BY CountNone DEF SidsIn

LEMMA SidsInConcat ==
  ASSUME NEW T, NEW a \in Seq(T), NEW b \in Seq(T), NEW n, SidsIn(a, n), SidsIn(b, n)
  PROVE  SidsIn(a \o b, n)
<1>1. \A i \in DOMAIN (a \o b) : \/ \E j \in DOMAIN a : (a \o b)[i] = a[j]
                                 \/ \E j \in DOMAIN b : (a \o b)[i] = b[j]
  <2> DEFINE w == a \o b
             l == Len(a)
             k == Len(b)
  <2>1. /\ l \in Nat /\ k \in Nat /\ DOMAIN a = 1..l /\ DOMAIN b = 1..k
        /\ DOMAIN w = 1..l + k
        /\ \A i \in 1..l : w[i] = a[i]
        /\ \A i \in 1..l + k : i > l => w[i] = b[i - l]
    OBVIOUS
  <2> HIDE DEF w, l, k
  <2>2. \A i \in 1..l + k : i \in 1..l \/ (i > l /\ i - l \in 1..k)
    BY <2>1
  <2>3. \A i \in DOMAIN w : (\E j \in DOMAIN a : w[i] = a[j]) \/ \E j \in DOMAIN b : w[i] = b[j]
    BY <2>1, <2>2
  <2> QED BY <2>3 DEF w
<1> QED BY <1>1, Zenon DEF SidsIn

LEMMA SidsGrow ==
  ASSUME NEW T, NEW a \in Seq(T), NEW n, NEW m, n \in Nat, m \in Nat, n <= m, SidsIn(a, n),
         \A i \in DOMAIN a : a[i].op \in {"SUB", "UNSUB"} => a[i].sid \in Nat
  PROVE  SidsIn(a, m)
<1>1. ASSUME NEW i \in DOMAIN a, a[i].op \in {"SUB", "UNSUB"} PROVE a[i].sid < m
  BY <1>1 DEF SidsIn
<1> QED BY <1>1 DEF SidsIn

LEMMA SidsAreNat ==
  ASSUME NEW s \in Seq(ClientOps)
  PROVE  \A i \in DOMAIN s : s[i].op \in {"SUB", "UNSUB"} => s[i].sid \in Nat \ {0}
<1>1. \A i \in DOMAIN s : s[i] \in ClientOps
  <2> HIDE DEF ClientOps
  <2> QED OBVIOUS
<1>2. \A o \in ClientOps : o.op \in {"SUB", "UNSUB"} => o.sid \in Nat \ {0}
  BY DEF ClientOps
<1> HIDE DEF ClientOps
<1> QED BY <1>1, <1>2

\* The types the steps start from.
LEMMA CoreParts ==
  ASSUME Inv
  PROVE  /\ core.phase \in Phases /\ core.next_sid \in Nat /\ core.pending_liveness \in Nat
         /\ core.pending_pings \in Seq(Origins)
         /\ \A s \in DOMAIN core.subscriptions : core.subscriptions[s] \in Subscription
         /\ s2c \in Seq(ServerOps)
BY DEF Inv, Env, Good, CoreType

LEMMA HeldOps ==
  ASSUME NEW h \in Seq({Ping})
  PROVE  h \in Seq(ClientOps) /\ h \in Seq(AllOps) /\ \A n : SidsIn(h, n)
<1>1. Ping \in ClientOps /\ Ping.op = "PING"
  BY WrittenOps
<1>2. \A i \in DOMAIN h : h[i] = Ping
  <2> HIDE DEF Ping
  <2> QED OBVIOUS
<1>3. h \in Seq(ClientOps)
  <2> HIDE DEF Ping, ClientOps
  <2> QED BY <1>1
<1>4. \A n : SidsIn(h, n)
  BY <1>1, <1>2 DEF SidsIn
<1> QED BY <1>3, <1>4, OpsInAll

-----------------------------------------------------------------------------
(* Each caller's step that leaves the transport open is one of Writes.     *)

\* The step was taken with the transport open when it writes.
LEMMA LiveIsUp ==
  ASSUME WireInv, Live(core.phase)
  PROVE  up /\ held = <<>>
BY DEF WireInv, Handshaking, Live

\* A step that leaves the subscriptions or takes some away, and what is held.
LEMMA WritesOne ==
  ASSUME Inv, WireInv, NEW subs, NEW d, NEW pings \in Seq(Origins), NEW l \in Nat, NEW p,
         NEW out \in Seq(ClientOps), SidsIn(out, core.next_sid),
         Moves(p, core.next_sid, subs, d, pings, l, out),
         DOMAIN subs \subseteq DOMAIN core.subscriptions,
         UNCHANGED << up, s2c, server, held >>,
         \/ Negotiating(core.phase) /\ p = core.phase /\ out = <<>>
         \/ Live(core.phase) /\ Live(p),
         Len(pings) = Len(core.pending_pings) + Count(out, "PING"),
         l + Len(core.pending_pings) <= core.pending_liveness + Len(pings)
  PROVE  Writes
<1>1. /\ core.next_sid \in 1..MaxSid + 1 /\ held \in Seq({Ping}) /\ MaxSid \in Nat
      /\ DOMAIN core.subscriptions \subseteq Sids(core)
  BY Bounds DEF WireInv, NamedSids, Handshaking
<1>2. /\ core'.next_sid = core.next_sid /\ core'.subscriptions = subs /\ core'.phase = p
      /\ core'.pending_pings = pings /\ core'.pending_liveness = l /\ c2s' = c2s \o out
  BY DEF Moves, Is
<1>3. core.next_sid \in Nat /\ core.next_sid <= MaxSid + 1
  BY <1>1
<1>4. DOMAIN core'.subscriptions \subseteq Sids(core')
  BY <1>1, <1>2 DEF Sids
<1>5. \/ /\ Negotiating(core.phase) /\ core'.phase = core.phase /\ out = <<>>
         /\ held' \in Seq({Ping})
      \/ /\ core.phase \in {"Awaiting_connect", "Connected", "Draining"}
         /\ Live(core'.phase) /\ up /\ held' = <<>>
  <2>1. CASE Negotiating(core.phase) /\ p = core.phase /\ out = <<>>
    BY <1>1, <1>2, <2>1
  <2>2. CASE Live(core.phase) /\ Live(p)
    BY <1>2, <2>2, LiveIsUp DEF Live
  <2> QED BY <2>1, <2>2
<1>6. Count(held, "PING") \in Nat /\ Count(out, "PING") \in Nat /\ held' = held
  BY <1>1, HeldOps, CountNat, OpsInAll
<1>7. Len(core'.pending_pings) + Count(held, "PING")
        = Len(core.pending_pings) + Count(out, "PING") + Count(held', "PING")
  <2> DEFINE h == Count(held, "PING")
             c == Count(out, "PING")
  <2>1. Count(held', "PING") = h
    BY <1>6
  <2>2. h \in Nat /\ c \in Nat /\ Len(core.pending_pings) \in Nat
    BY <1>6, CoreParts
  <2> HIDE DEF h, c
  <2>3. Len(core'.pending_pings) = Len(core.pending_pings) + c
    BY <1>2 DEF c
  <2>4. Len(core'.pending_pings) + h = Len(core.pending_pings) + c + h
    BY <2>2, <2>3
  <2> QED BY <2>1, <2>4 DEF c, h
<1>8. core'.pending_liveness + Len(core.pending_pings)
        <= core.pending_liveness + Len(core'.pending_pings)
  BY <1>2
<1>9. /\ core.next_sid <= core'.next_sid /\ core'.next_sid <= MaxSid + 1
      /\ core'.next_sid \in Nat /\ SidsIn(out, core'.next_sid)
      /\ c2s' = c2s \o out
  BY <1>2, <1>3
<1> QED BY <1>4, <1>5, <1>7, <1>8, <1>9, Zenon DEF Writes

LEMMA ConnectWrites ==
  ASSUME Inv, WireInv, Connect PROVE Writes
<1> DEFINE r == Replay(core)
           c == << ConnectOp(core) >>
           out == (c \o r) \o held
<1>1. /\ core.phase = "Awaiting_connect" /\ c2s' = c2s \o out
      /\ Is(core', "Connected", core.next_sid, core.subscriptions, core.draining,
            core.pending_pings, core.pending_liveness)
      /\ up /\ held' = <<>> /\ UNCHANGED << up, s2c, server >>
  BY ConnectMoves DEF Connect, Moves
<1>2. /\ core.next_sid \in 1..MaxSid + 1 /\ held \in Seq({Ping}) /\ MaxSid \in Nat
      /\ DOMAIN core.subscriptions \subseteq Sids(core)
  BY Bounds DEF WireInv, NamedSids, Handshaking
<1>3. Good(core) /\ GoodSids(core) /\ core.next_sid \in Nat
  BY <1>2 DEF Inv, GoodSids
<1>4. ConnectOp(core) \in ClientOps /\ ConnectOp(core).op = "CONNECT"
  <2>1. core.info \in Infos
    BY <1>1, <1>3 DEF Good, CoreType, Consistent
  <2>2. core.info.headers \in BOOLEAN
    BY <2>1, InfosAssumption
  <2> QED BY <2>2 DEF ConnectOp, ClientOps
<1>5. r \in Seq(ClientOps) /\ \A i \in DOMAIN r : r[i].op \in {"SUB", "UNSUB"} /\ r[i].sid \in Sids(core)
  <2>1. /\ r \in Seq(ClientOps)
        /\ \A i \in DOMAIN r : \E s \in DOMAIN core.subscriptions :
             \/ r[i] = Sub(s, core.subscriptions[s].subject)
             \/ r[i] = Unsub(s, core.subscriptions[s].remaining)
    BY <1>3, ReplayFacts
  <2>2. \A s, x : Sub(s, x).op = "SUB" /\ Sub(s, x).sid = s
    BY DEF Sub
  <2>3. \A s, x : Unsub(s, x).op = "UNSUB" /\ Unsub(s, x).sid = s
    BY DEF Unsub
  <2> QED BY <1>2, <2>1, <2>2, <2>3
<1>6. SidsIn(r, core.next_sid)
  BY <1>3, <1>5 DEF SidsIn, Sids
<1>7. c \in Seq(ClientOps) /\ SidsIn(c, core.next_sid) /\ Count(c, "PING") = 0
  <2> HIDE DEF ClientOps
  <2> QED BY <1>4, OneOp
<1>8. held \in Seq(ClientOps) /\ SidsIn(held, core.next_sid)
  BY <1>2, HeldOps
<1>9. Count(r, "PING") = 0
  BY <1>5, CountZero, OpsInAll
<1> HIDE DEF r, c
<1>10. c \o r \in Seq(ClientOps) /\ SidsIn(c \o r, core.next_sid) /\ Count(c \o r, "PING") = 0
  <2>1. c \o r \in Seq(ClientOps) /\ SidsIn(c \o r, core.next_sid)
    <3> HIDE DEF ClientOps
    <3> QED BY <1>5, <1>6, <1>7, SidsInConcat
  <2>2. Count(c \o r, "PING") = Count(c, "PING") + Count(r, "PING")
    BY <1>5, <1>7, CountConcatenated, OpsInAll
  <2> QED BY <1>7, <1>9, <2>1, <2>2
<1>11. out \in Seq(ClientOps) /\ SidsIn(out, core.next_sid)
  <2> DEFINE cr == c \o r
  <2>1. cr \in Seq(ClientOps) /\ SidsIn(cr, core.next_sid)
    BY <1>10
  <2> HIDE DEF cr, ClientOps
  <2>2. SidsIn(cr \o held, core.next_sid)
    BY <1>8, <2>1, SidsInConcat
  <2>3. cr \o held \in Seq(ClientOps)
    BY <1>8, <2>1
  <2> QED BY <2>2, <2>3 DEF cr
<1>12. Count(out, "PING") = Count(held, "PING") /\ Count(held, "PING") \in Nat
  <2>1. Count(out, "PING") = Count(c \o r, "PING") + Count(held, "PING")
    BY <1>8, <1>10, CountConcatenated, OpsInAll
  <2>2. Count(held, "PING") \in Nat
    BY <1>8, CountNat, OpsInAll
  <2> QED BY <1>10, <2>1, <2>2
<1> HIDE DEF out
<1>13. Count(held', "PING") = 0
  BY <1>1, CountNone
<1>14. /\ core'.next_sid = core.next_sid /\ core'.subscriptions = core.subscriptions
       /\ core'.phase = "Connected" /\ core'.pending_pings = core.pending_pings
       /\ core'.pending_liveness = core.pending_liveness
  BY <1>1 DEF Is
<1>15. Len(core'.pending_pings) + Count(held, "PING")
         = Len(core.pending_pings) + Count(out, "PING") + Count(held', "PING")
  BY <1>12, <1>13, <1>14, CoreParts
<1>16. core'.pending_liveness + Len(core.pending_pings)
         <= core.pending_liveness + Len(core'.pending_pings)
  BY <1>14, CoreParts
<1>17. DOMAIN core'.subscriptions \subseteq Sids(core')
  BY <1>2, <1>14 DEF Sids
<1>18. core.next_sid <= core'.next_sid /\ core'.next_sid <= MaxSid + 1 /\ core'.next_sid \in Nat
  BY <1>2, <1>14
<1>19. SidsIn(out, core'.next_sid) /\ Live(core'.phase)
  BY <1>11, <1>14 DEF Live
<1> QED BY <1>1, <1>11, <1>15, <1>16, <1>17, <1>18, <1>19 DEF Writes

LEMMA PublishWrites ==
  ASSUME Inv, WireInv, NEW m \in Messages, Publish(m) PROVE Writes
<1> DEFINE out == << Pub(m) >>
<1>1. core.phase = "Connected" /\ core' = core /\ c2s' = c2s \o out
      /\ UNCHANGED << up, s2c, server, held >>
  BY PublishMoves DEF Publish, CallerFrame
<1>2. out \in Seq(ClientOps) /\ SidsIn(out, core.next_sid) /\ Count(out, "PING") = 0
  BY WrittenOps, OneOp
<1> HIDE DEF out
<1>3. Moves("Connected", core.next_sid, core.subscriptions, core.draining,
            core.pending_pings, core.pending_liveness, out)
  BY <1>1 DEF Moves, Is
<1>4. /\ core.pending_pings \in Seq(Origins) /\ core.pending_liveness \in Nat
      /\ Len(core.pending_pings) \in Nat
      /\ Live(core.phase) /\ Live("Connected")
  BY <1>1, CoreParts DEF Live
<1>5. /\ Len(core.pending_pings) = Len(core.pending_pings) + Count(out, "PING")
      /\ core.pending_liveness + Len(core.pending_pings)
           <= core.pending_liveness + Len(core.pending_pings)
  BY <1>2, <1>4
<1> HIDE DEF ClientOps
<1> QED BY <1>1, <1>2, <1>3, <1>4, <1>5, WritesOne

LEMMA SubscribeWrites ==
  ASSUME Inv, WireInv, NEW s \in Subjects, Subscribe(s) PROVE Writes
<1> DEFINE sid == core.next_sid
           subs == [x \in DOMAIN core.subscriptions \cup {sid} |->
                      IF x = sid
                      THEN [subject |-> s, remaining |-> None, delivered |-> 0]
                      ELSE core.subscriptions[x]]
<1>1. PICK out :
        /\ Moves(core.phase, sid + 1, subs, core.draining, core.pending_pings,
                 core.pending_liveness, out)
        /\ \/ Negotiating(core.phase) /\ out = <<>>
           \/ core.phase = "Connected" /\ out = << Sub(sid, s) >>
  BY SubscribeMoves
<1>2. sid <= MaxSid /\ UNCHANGED << up, s2c, server, held >>
  BY DEF Subscribe, CallerFrame
<1>3. /\ sid \in 1..MaxSid + 1 /\ held \in Seq({Ping}) /\ MaxSid \in Nat
      /\ DOMAIN core.subscriptions \subseteq 1..sid - 1
  BY Bounds DEF WireInv, NamedSids, Handshaking, Sids
<1>4. out \in Seq(ClientOps) /\ SidsIn(out, sid + 1) /\ Count(out, "PING") = 0
  <2>1. CASE out = <<>>
    BY <2>1, NoOps
  <2>2. CASE out = << Sub(sid, s) >>
    <3> DEFINE o == Sub(sid, s)
    <3>1. o \in ClientOps /\ o.op = "SUB" /\ o.sid = sid /\ sid < sid + 1
      BY <1>3, WrittenOps
    <3> HIDE DEF o, ClientOps, sid
    <3>2. << o >> \in Seq(ClientOps) /\ SidsIn(<< o >>, sid + 1) /\ Count(<< o >>, "PING") = 0
      BY <3>1, OneOp
    <3> QED BY <2>2, <3>2 DEF o
  <2> QED BY <1>1, <2>1, <2>2
<1> HIDE DEF sid
<1>5. DOMAIN subs \subseteq 1..(sid + 1) - 1
  BY <1>3
<1> HIDE DEF subs
<1>6. /\ core'.phase = core.phase /\ core'.next_sid = sid + 1 /\ core'.subscriptions = subs
      /\ core'.pending_pings = core.pending_pings
      /\ core'.pending_liveness = core.pending_liveness /\ c2s' = c2s \o out
  BY <1>1 DEF Moves, Is
<1>7. Count(held, "PING") \in Nat /\ held' = held /\ Len(core.pending_pings) \in Nat
      /\ core.pending_liveness \in Nat
  <2>1. held \in Seq(AllOps)
    BY <1>3, HeldOps
  <2>2. Count(held, "PING") \in Nat
    BY <2>1, CountNat
  <2> QED BY <1>2, <2>2, CoreParts
<1>8. /\ core.next_sid <= core'.next_sid /\ core'.next_sid <= MaxSid + 1
      /\ core'.next_sid \in Nat /\ SidsIn(out, core'.next_sid)
      /\ DOMAIN core'.subscriptions \subseteq Sids(core')
  BY <1>2, <1>3, <1>4, <1>5, <1>6 DEF Sids, sid
<1>9. \/ /\ Negotiating(core.phase) /\ core'.phase = core.phase /\ out = <<>>
         /\ held' \in Seq({Ping})
      \/ /\ core.phase \in {"Awaiting_connect", "Connected", "Draining"}
         /\ Live(core'.phase) /\ up /\ held' = <<>>
  <2>1. CASE Negotiating(core.phase) /\ out = <<>>
    BY <1>2, <1>3, <1>6, <2>1
  <2>2. CASE core.phase = "Connected"
    BY <1>2, <1>6, <2>2, LiveIsUp DEF Live
  <2> QED BY <1>1, <2>1, <2>2
<1>10. Len(core'.pending_pings) + Count(held, "PING")
         = Len(core.pending_pings) + Count(out, "PING") + Count(held', "PING")
  BY <1>4, <1>6, <1>7
<1>11. core'.pending_liveness + Len(core.pending_pings)
         <= core.pending_liveness + Len(core'.pending_pings)
  BY <1>6, <1>7
<1> HIDE DEF ClientOps
<1> QED BY <1>2, <1>4, <1>6, <1>8, <1>9, <1>10, <1>11 DEF Writes

LEMMA UnsubscribeWrites ==
  ASSUME Inv, WireInv, NEW sid \in Nat \ {0}, NEW m \in Nat \cup {None},
         UnsubscribeMoves(sid, m), UNCHANGED << up, s2c, server, held >>
  PROVE  Writes
<1> DEFINE ends == m = None \/ core.subscriptions[sid].delivered >= m
           subs == IF ends THEN remove_subscription(sid, core.subscriptions)
                   ELSE [core.subscriptions EXCEPT
                           ![sid].remaining = m - core.subscriptions[sid].delivered]
           o == Unsub(sid, IF ends THEN None ELSE m)
<1>1. sid \in DOMAIN core.subscriptions
  BY DEF UnsubscribeMoves
<1>2. PICK out :
        /\ Moves(core.phase, core.next_sid, subs, core.draining \ {sid}, core.pending_pings,
                 core.pending_liveness, out)
        /\ \/ Negotiating(core.phase) /\ out = <<>>
           \/ core.phase = "Connected" /\ out = << o >>
  BY DEF UnsubscribeMoves
<1>3. DOMAIN subs \subseteq DOMAIN core.subscriptions
  BY DEF remove_subscription
<1>4. sid < core.next_sid
  BY <1>1 DEF WireInv, NamedSids, Sids
<1>5. o \in ClientOps /\ o.op = "UNSUB" /\ o.sid = sid
  <2> DEFINE x == IF ends THEN None ELSE m
  <2>1. x \in Nat \cup {None}
    OBVIOUS
  <2> HIDE DEF x, ClientOps
  <2>2. Unsub(sid, x) \in ClientOps /\ Unsub(sid, x).op = "UNSUB" /\ Unsub(sid, x).sid = sid
    BY <2>1, WrittenOps
  <2> QED BY <2>2 DEF x
<1> HIDE DEF subs, o
<1>6. out \in Seq(ClientOps) /\ SidsIn(out, core.next_sid) /\ Count(out, "PING") = 0
  <2>1. CASE out = <<>>
    BY <2>1, NoOps
  <2>2. CASE out = << o >>
    <3> HIDE DEF ClientOps
    <3> QED BY <1>4, <1>5, <2>2, OneOp
  <2> QED BY <1>2, <2>1, <2>2
<1>7. /\ core.pending_pings \in Seq(Origins) /\ core.pending_liveness \in Nat
      /\ Len(core.pending_pings) \in Nat
      /\ (core.phase = "Connected" => Live(core.phase))
  BY CoreParts DEF Live
<1>8. /\ Len(core.pending_pings) = Len(core.pending_pings) + Count(out, "PING")
      /\ core.pending_liveness + Len(core.pending_pings)
           <= core.pending_liveness + Len(core.pending_pings)
  BY <1>6, <1>7
<1> HIDE DEF ClientOps
<1> QED BY <1>2, <1>3, <1>6, <1>7, <1>8, WritesOne

\* One more barrier, with its PING last.
LEMMA AppendsBarrier ==
  ASSUME Inv, NEW origin \in Origins
  PROVE  /\ Append(core.pending_pings, origin) \in Seq(Origins)
         /\ Len(Append(core.pending_pings, origin)) = Len(core.pending_pings) + 1
         /\ Len(core.pending_pings) \in Nat
BY CoreParts

LEMMA EndsInPing ==
  ASSUME NEW ops \in Seq(ClientOps), NEW n, SidsIn(ops, n)
  PROVE  LET out == Append(ops, Ping)
         IN  /\ out \in Seq(ClientOps) /\ SidsIn(out, n)
             /\ Count(out, "PING") = Count(ops, "PING") + 1
<1> DEFINE out == Append(ops, Ping)
<1>1. Ping \in ClientOps /\ Ping.op = "PING" /\ Ping \in AllOps /\ ops \in Seq(AllOps)
  BY WrittenOps, OpsInAll DEF AllOps
<1>2. out \in Seq(ClientOps)
      /\ \A i \in DOMAIN out : out[i] = Ping \/ (i \in DOMAIN ops /\ out[i] = ops[i])
  <2> HIDE DEF ClientOps
  <2> QED BY <1>1
<1>3. SidsIn(out, n)
  <2> HIDE DEF out
  <2> QED BY <1>1, <1>2 DEF SidsIn
<1>4. Count(out, "PING") = Count(ops, "PING") + 1
  BY <1>1, CountAppended
<1> HIDE DEF out
<1> QED BY <1>2, <1>3, <1>4 DEF out

LEMMA DrainSubscriptionWrites ==
  ASSUME Inv, WireInv, NEW sid \in Nat \ {0}, DrainSubscription(sid) PROVE Writes
<1> DEFINE o == Unsub(sid, None)
           out == Append(<< o >>, Ping)
           origin == SubscriptionDrain(sid)
           pings == Append(core.pending_pings, origin)
<1>1. /\ core.phase = "Connected" /\ sid \in DOMAIN core.subscriptions
      /\ Moves("Connected", core.next_sid, core.subscriptions, core.draining \cup {sid},
               pings, core.pending_liveness, << o, Ping >>)
  BY DrainSubscriptionMoves
<1>2. UNCHANGED << up, s2c, server, held >>
  BY DEF DrainSubscription, CallerFrame
<1>3. o \in ClientOps /\ o.op = "UNSUB" /\ o.sid = sid /\ sid < core.next_sid
  BY <1>1, WrittenOps DEF WireInv, NamedSids, Sids
<1>4. << o, Ping >> = out
  OBVIOUS
<1>5. origin \in Origins
  BY DEF SubscriptionDrain, Origins
<1> HIDE DEF o, origin, ClientOps
<1>6. << o >> \in Seq(ClientOps) /\ SidsIn(<< o >>, core.next_sid) /\ Count(<< o >>, "PING") = 0
  BY <1>3, OneOp
<1>7. out \in Seq(ClientOps) /\ SidsIn(out, core.next_sid) /\ Count(out, "PING") = 1
  <2> DEFINE ops == << o >>
  <2>1. ops \in Seq(ClientOps) /\ SidsIn(ops, core.next_sid) /\ Count(ops, "PING") = 0
    BY <1>6
  <2> HIDE DEF ops
  <2>2. LET w == Append(ops, Ping)
        IN  /\ w \in Seq(ClientOps) /\ SidsIn(w, core.next_sid)
            /\ Count(w, "PING") = Count(ops, "PING") + 1
    BY <2>1, EndsInPing
  <2> QED BY <2>1, <2>2 DEF ops
<1>8. /\ pings \in Seq(Origins) /\ Len(pings) = Len(core.pending_pings) + 1
      /\ Len(core.pending_pings) \in Nat /\ core.pending_liveness \in Nat
  BY <1>5, AppendsBarrier, CoreParts
<1> HIDE DEF out, pings
<1>9. /\ Len(pings) = Len(core.pending_pings) + Count(out, "PING")
      /\ core.pending_liveness + Len(core.pending_pings)
           <= core.pending_liveness + Len(pings)
      /\ Live(core.phase) /\ Live("Connected")
  BY <1>1, <1>7, <1>8 DEF Live
<1>10. DOMAIN core.subscriptions \subseteq DOMAIN core.subscriptions
  OBVIOUS
<1>11. Moves("Connected", core.next_sid, core.subscriptions, core.draining \cup {sid},
             pings, core.pending_liveness, out)
  BY <1>1, <1>4
<1> QED BY <1>2, <1>7, <1>8, <1>9, <1>10, <1>11, WritesOne

LEMMA PingWritten ==
  /\ << Ping >> \in Seq(ClientOps) /\ (\A n : SidsIn(<< Ping >>, n))
  /\ Count(<< Ping >>, "PING") = 1
<1>1. Ping \in ClientOps /\ Ping.op = "PING"
  BY WrittenOps
<1> HIDE DEF ClientOps
<1> QED BY <1>1, OneOp

LEMMA FlushWrites ==
  ASSUME Inv, WireInv, Flush PROVE Writes
<1> DEFINE origin == Origin("Flush")
           pings == Append(core.pending_pings, origin)
<1>1. PICK out :
        /\ Moves(core.phase, core.next_sid, core.subscriptions, core.draining, pings,
                 core.pending_liveness, out)
        /\ \/ Negotiating(core.phase) /\ out = <<>> /\ held' = held \o << Ping >>
           \/ Live(core.phase) /\ out = << Ping >> /\ held' = held
  BY FlushMoves
<1>2. UNCHANGED << up, s2c, server >>
  BY DEF Flush, CallerFrame
<1>3. origin \in Origins
  BY DEF Origin, Origins
<1>4. /\ pings \in Seq(Origins) /\ Len(pings) = Len(core.pending_pings) + 1
      /\ Len(core.pending_pings) \in Nat /\ core.pending_liveness \in Nat
  BY <1>3, AppendsBarrier, CoreParts
<1> HIDE DEF pings
<1>5. CASE Live(core.phase) /\ out = << Ping >> /\ held' = held
  <2>1. /\ Len(pings) = Len(core.pending_pings) + Count(out, "PING")
        /\ core.pending_liveness + Len(core.pending_pings)
             <= core.pending_liveness + Len(pings)
        /\ out \in Seq(ClientOps) /\ SidsIn(out, core.next_sid)
    BY <1>4, <1>5, PingWritten
  <2>2. DOMAIN core.subscriptions \subseteq DOMAIN core.subscriptions
    OBVIOUS
  <2> HIDE DEF ClientOps
  <2> QED BY <1>1, <1>2, <1>4, <1>5, <2>1, <2>2, WritesOne
<1>6. CASE Negotiating(core.phase) /\ out = <<>> /\ held' = held \o << Ping >>
  <2>1. /\ held \in Seq({Ping}) /\ core.next_sid \in 1..MaxSid + 1 /\ MaxSid \in Nat
        /\ DOMAIN core.subscriptions \subseteq Sids(core)
    BY Bounds DEF WireInv, NamedSids, Handshaking
  <2>2. held' \in Seq({Ping})
    <3> HIDE DEF Ping
    <3> QED BY <1>6, <2>1
  <2>3. Count(held', "PING") = Count(held, "PING") + 1 /\ Count(held, "PING") \in Nat
    <3>1. held \in Seq(AllOps) /\ << Ping >> \in Seq(AllOps)
      BY <2>1, HeldOps, PingWritten, OpsInAll
    <3> DEFINE p == << Ping >>
    <3>2. p \in Seq(AllOps) /\ Count(p, "PING") = 1 /\ held' = held \o p
      BY <1>6, <3>1, PingWritten
    <3> HIDE DEF p
    <3>3. Count(held \o p, "PING") = Count(held, "PING") + Count(p, "PING")
      BY <3>1, <3>2, CountConcatenated
    <3> QED BY <3>1, <3>2, <3>3, CountNat
  <2>4. /\ core'.phase = core.phase /\ core'.next_sid = core.next_sid
        /\ core'.subscriptions = core.subscriptions /\ core'.pending_pings = pings
        /\ core'.pending_liveness = core.pending_liveness /\ c2s' = c2s \o out
    BY <1>1 DEF Moves, Is
  <2>5. /\ core.next_sid <= core'.next_sid /\ core'.next_sid <= MaxSid + 1
        /\ core'.next_sid \in Nat /\ DOMAIN core'.subscriptions \subseteq Sids(core')
        /\ out \in Seq(ClientOps) /\ SidsIn(out, core'.next_sid) /\ Count(out, "PING") = 0
    BY <1>6, <2>1, <2>4, NoOps DEF Sids
  <2>6. Len(core'.pending_pings) + Count(held, "PING")
          = Len(core.pending_pings) + Count(out, "PING") + Count(held', "PING")
    <3> DEFINE h == Count(held, "PING")
               l == Len(core.pending_pings)
    <3>1. /\ h \in Nat /\ l \in Nat /\ Count(held', "PING") = h + 1
          /\ Len(core'.pending_pings) = l + 1 /\ Count(out, "PING") = 0
      BY <1>4, <2>3, <2>4, <2>5
    <3> HIDE DEF h, l
    <3>2. Len(core'.pending_pings) + h = l + Count(out, "PING") + Count(held', "PING")
      BY <3>1
    <3> QED BY <3>2 DEF h, l
  <2>7. core'.pending_liveness + Len(core.pending_pings)
          <= core.pending_liveness + Len(core'.pending_pings)
    BY <1>4, <2>4
  <2> HIDE DEF ClientOps
  <2> QED BY <1>2, <1>6, <2>2, <2>4, <2>5, <2>6, <2>7 DEF Writes
<1> QED BY <1>1, <1>5, <1>6

LEMMA DrainWrites ==
  ASSUME Inv, WireInv, Drain PROVE Writes
<1> DEFINE origin == Origin("Drain")
           pings == Append(core.pending_pings, origin)
           d == DrainUnsubs(core)
           out == Append(d, Ping)
<1>1. /\ core.phase = "Connected"
      /\ Moves("Draining", core.next_sid, core.subscriptions, core.draining, pings,
               core.pending_liveness, out)
  BY DrainMoves
<1>2. UNCHANGED << up, s2c, server, held >>
  BY DEF Drain, CallerFrame
<1>3. origin \in Origins
  BY DEF Origin, Origins
<1>4. /\ pings \in Seq(Origins) /\ Len(pings) = Len(core.pending_pings) + 1
      /\ Len(core.pending_pings) \in Nat /\ core.pending_liveness \in Nat
  BY <1>3, AppendsBarrier, CoreParts
<1>5. Good(core) /\ GoodSids(core) /\ DOMAIN core.subscriptions \subseteq Sids(core)
      /\ core.next_sid \in Nat
  BY Bounds DEF Inv, GoodSids, WireInv, NamedSids
<1>6. d \in Seq(ClientOps) /\ \A i \in DOMAIN d : d[i].op = "UNSUB" /\ d[i].sid < core.next_sid
  <2>1. /\ d \in Seq(ClientOps)
        /\ \A i \in DOMAIN d : \E s \in DOMAIN core.subscriptions : d[i] = Unsub(s, None)
    BY <1>5, DrainUnsubsFacts
  <2>2. \A s, x : Unsub(s, x).op = "UNSUB" /\ Unsub(s, x).sid = s
    BY DEF Unsub
  <2>3. \A s \in DOMAIN core.subscriptions : s < core.next_sid
    BY <1>5 DEF Sids
  <2> QED BY <2>1, <2>2, <2>3
<1> HIDE DEF d, pings
<1>7. SidsIn(d, core.next_sid) /\ Count(d, "PING") = 0
  BY <1>6, CountZero, OpsInAll DEF SidsIn
<1>8. out \in Seq(ClientOps) /\ SidsIn(out, core.next_sid) /\ Count(out, "PING") = 1
  BY <1>6, <1>7, EndsInPing
<1> HIDE DEF out
<1>9. /\ Len(pings) = Len(core.pending_pings) + Count(out, "PING")
      /\ core.pending_liveness + Len(core.pending_pings)
           <= core.pending_liveness + Len(pings)
      /\ Live(core.phase) /\ Live("Draining")
      /\ DOMAIN core.subscriptions \subseteq DOMAIN core.subscriptions
  BY <1>1, <1>4, <1>8 DEF Live
<1> HIDE DEF ClientOps
<1> QED BY <1>1, <1>2, <1>4, <1>8, <1>9, WritesOne

LEMMA TimerWrites ==
  ASSUME Inv, WireInv,
         Moves("Connected", core.next_sid, core.subscriptions, core.draining,
               Append(core.pending_pings, Origin("Liveness")),
               core.pending_liveness + 1, << Ping >>),
         core.phase = "Connected", UNCHANGED << up, s2c, server, held >>
  PROVE  Writes
<1> DEFINE origin == Origin("Liveness")
           pings == Append(core.pending_pings, origin)
           out == << Ping >>
<1>1. origin \in Origins
  BY DEF Origin, Origins
<1>2. /\ pings \in Seq(Origins) /\ Len(pings) = Len(core.pending_pings) + 1
      /\ Len(core.pending_pings) \in Nat /\ core.pending_liveness \in Nat
  BY <1>1, AppendsBarrier, CoreParts
<1>3. out \in Seq(ClientOps) /\ SidsIn(out, core.next_sid) /\ Count(out, "PING") = 1
  BY PingWritten
<1>4. Moves("Connected", core.next_sid, core.subscriptions, core.draining, pings,
            core.pending_liveness + 1, out)
  OBVIOUS
<1> HIDE DEF pings, out
<1>5. /\ Len(pings) = Len(core.pending_pings) + Count(out, "PING")
      /\ (core.pending_liveness + 1) + Len(core.pending_pings)
           <= core.pending_liveness + Len(pings)
      /\ core.pending_liveness + 1 \in Nat
  <2> DEFINE l == Len(core.pending_pings)
             k == core.pending_liveness
  <2>1. l \in Nat /\ k \in Nat /\ Len(pings) = l + 1 /\ Count(out, "PING") = 1
    BY <1>2, <1>3
  <2> HIDE DEF l, k
  <2>2. (k + 1) + l <= k + Len(pings) /\ Len(pings) = l + Count(out, "PING") /\ k + 1 \in Nat
    BY <2>1
  <2> QED BY <2>2 DEF l, k
<1>6. /\ Live(core.phase) /\ Live("Connected")
      /\ DOMAIN core.subscriptions \subseteq DOMAIN core.subscriptions
  BY DEF Live
<1> HIDE DEF ClientOps
<1> QED BY <1>2, <1>3, <1>4, <1>5, <1>6, WritesOne

-----------------------------------------------------------------------------
(* Every step, as the invariants see it.                                   *)

Steps ==
  \/ Closes \/ Redials \/ Writes \/ Read \/ ServerHandle
  \/ \E i \in Infos : Dial(i)
  \/ \E sid \in 1..MaxSid : ServerSend(sid)
  \/ \E op \in Notices : ServerNotice(op)

LEMMA NextSteps ==
  ASSUME Inv, WireInv, Next PROVE Steps
<1>0. 1..MaxSid \subseteq Nat \ {0} /\ None \in Nat \cup {None}
  BY Bounds
<1>1. CASE Connect
  BY <1>1, ConnectWrites DEF Steps
<1>2. CASE ConnectRefused
  <2>1. outgoing_close(core) = closed_transition(core)
    BY <1>2 DEF ConnectRefused, outgoing_close
  <2>2. GiveUp(closed_transition(core))
    BY <1>2, <2>1 DEF ConnectRefused
  <2> QED BY <2>2, GiveUpCloses DEF Steps
<1>3. ASSUME NEW m \in Messages, Publish(m) PROVE Steps
  BY <1>3, PublishWrites DEF Steps
<1>4. ASSUME NEW s \in Subjects, Subscribe(s) PROVE Steps
  BY <1>4, SubscribeWrites DEF Steps
<1>5. ASSUME NEW sid \in 1..MaxSid, Unsubscribe(sid) PROVE Steps
  <2>1. UnsubscribeMoves(sid, None)
    BY <1>5, OutgoingUnsubscribeMoves DEF Unsubscribe
  <2>2. UNCHANGED << up, s2c, server, held >>
    BY <1>5 DEF Unsubscribe, CallerFrame
  <2>3. Writes
    BY <1>0, <2>1, <2>2, UnsubscribeWrites
  <2> QED BY <2>3 DEF Steps
<1>6. ASSUME NEW sid \in 1..MaxSid, NEW n \in Quotas, AutoUnsubscribe(sid, n)
      PROVE Steps
  <2>1. n \in Int
    BY BoundsAssumption
  <2>2. n > 0 /\ UnsubscribeMoves(sid, n)
    BY <1>6, <2>1, AutoUnsubscribeMoves
  <2>3. UNCHANGED << up, s2c, server, held >>
    BY <1>6 DEF AutoUnsubscribe, CallerFrame
  <2>4. n \in Nat \cup {None} /\ sid \in Nat \ {0}
    BY <1>0, <2>1, <2>2
  <2>5. Writes
    BY <2>2, <2>3, <2>4, UnsubscribeWrites
  <2> QED BY <2>5 DEF Steps
<1>7. ASSUME NEW sid \in 1..MaxSid, DrainSubscription(sid) PROVE Steps
  <2>1. sid \in Nat \ {0}
    BY <1>0
  <2>2. Writes
    BY <1>7, <2>1, DrainSubscriptionWrites
  <2> QED BY <2>2 DEF Steps
<1>8. CASE Flush
  BY <1>8, FlushWrites DEF Steps
<1>9. CASE Drain
  BY <1>9, DrainWrites DEF Steps
<1>10. CASE Close
  <2>1. core.phase # "Closed"
    <3>1. CASE core.phase = "Closed"
      BY <1>10, <3>1, ErrorsAreNotNone DEF Close, outgoing_close, Failure, Errors
    <3> QED BY <3>1
  <2>2. GiveUp(closed_transition(core))
    BY <1>10, <2>1 DEF Close, outgoing_close
  <2> QED BY <2>2, GiveUpCloses DEF Steps
<1>11. CASE Timer
  <2>1. CASE GiveUp(closed_transition(core))
    BY <2>1, GiveUpCloses DEF Steps
  <2>2. CASE /\ Moves("Connected", core.next_sid, core.subscriptions, core.draining,
                      Append(core.pending_pings, Origin("Liveness")),
                      core.pending_liveness + 1, << Ping >>)
             /\ CallerFrame /\ UNCHANGED << held, granted, received, raised >>
    <3>1. core.phase = "Connected" /\ UNCHANGED << up, s2c, server, held >>
      BY <1>11, <2>2, TimerMoves DEF CallerFrame
    <3>2. Writes
      BY <2>2, <3>1, TimerWrites
    <3> QED BY <3>2 DEF Steps
  <2> QED BY <1>11, <2>1, <2>2, TimerMoves
<1>12. CASE Read
  BY <1>12 DEF Steps
<1>13. ASSUME NEW i \in Infos, Dial(i) PROVE Steps
  BY <1>13 DEF Steps
<1>14. ASSUME NEW eof \in BOOLEAN, TransportLost(eof) PROVE Steps
  BY <1>14, LossRedials DEF Steps
<1>15. CASE RedialFailed
  BY <1>15, FailedRedialRedials DEF Steps
<1>15a. CASE HeldWriteFailed
  BY <1>15a, HeldWriteFailedRedials DEF Steps
<1>16. CASE EndOfFile
  <2>1. GiveUp(closed_transition(core))
    BY <1>16 DEF EndOfFile, incoming_eof
  <2> QED BY <2>1, GiveUpCloses DEF Steps
<1>17. CASE ServerHandle
  BY <1>17 DEF Steps
<1>18. ASSUME NEW sid \in 1..MaxSid, ServerSend(sid) PROVE Steps
  BY <1>18 DEF Steps
<1>19. ASSUME NEW op \in Notices, ServerNotice(op) PROVE Steps
  BY <1>19 DEF Steps
<1> QED
  BY <1>1, <1>2, <1>3, <1>4, <1>5, <1>6, <1>7, <1>8, <1>9, <1>10, <1>11, <1>12,
     <1>13, <1>14, <1>15, <1>15a, <1>16, <1>17, <1>18, <1>19 DEF Next

-----------------------------------------------------------------------------
(* The wire invariant.                                                     *)

LEMMA InitWire == ASSUME Init PROVE WireInv
<1>1. NamedSids
  <2>1. core = v /\ c2s = <<>> /\ server = <<>>
    BY DEF Init
  <2>2. core.next_sid = 1 /\ DOMAIN core.subscriptions = {}
    BY <2>1 DEF v
  <2>3. DOMAIN server = {} /\ server \in [DOMAIN server -> ServerSubs]
    BY <2>1
  <2> QED BY <2>1, <2>2, <2>3, NoOps, Bounds DEF NamedSids
<1>2. Handshaking
  <2>1. /\ core.phase = "Awaiting_info" /\ held = <<>> /\ ~up /\ c2s = <<>> /\ s2c = <<>>
        /\ DOMAIN server = {}
    BY DEF Init, v
  <2> QED BY <2>1 DEF Handshaking, Live
<1> QED BY <1>1, <1>2 DEF WireInv

LEMMA WritesWire ==
  ASSUME Inv, WireInv, Writes PROVE WireInv'
<1>1. PICK out \in Seq(ClientOps) :
        /\ c2s' = c2s \o out
        /\ SidsIn(out, core'.next_sid)
        /\ \/ /\ Negotiating(core.phase) /\ core'.phase = core.phase /\ out = <<>>
              /\ held' \in Seq({Ping})
           \/ /\ core.phase \in {"Awaiting_connect", "Connected", "Draining"}
              /\ Live(core'.phase) /\ up /\ held' = <<>>
  BY DEF Writes
<1>2. /\ core.next_sid \in 1..MaxSid + 1 /\ core'.next_sid \in Nat /\ MaxSid \in Nat
      /\ core.next_sid <= core'.next_sid /\ core'.next_sid <= MaxSid + 1
      /\ DOMAIN core'.subscriptions \subseteq Sids(core')
      /\ UNCHANGED << up, s2c, server >>
      /\ c2s \in Seq(ClientOps) /\ SidsIn(c2s, core.next_sid)
      /\ DOMAIN server \subseteq Sids(core)
      /\ server \in [DOMAIN server -> ServerSubs]
  BY Bounds DEF Writes, WireInv, NamedSids
<1>3. core'.next_sid \in 1..MaxSid + 1 /\ core.next_sid \in Nat
  BY <1>2
<1>4. c2s' \in Seq(ClientOps) /\ SidsIn(c2s', core'.next_sid)
  <2>1. SidsIn(c2s, core'.next_sid)
    <3>1. \A i \in DOMAIN c2s : c2s[i].op \in {"SUB", "UNSUB"} => c2s[i].sid \in Nat
      BY <1>2, SidsAreNat
    <3> HIDE DEF ClientOps
    <3> QED BY <1>2, <1>3, <3>1, SidsGrow
  <2> HIDE DEF ClientOps
  <2>2. SidsIn(c2s \o out, core'.next_sid)
    BY <1>1, <1>2, <2>1, SidsInConcat
  <2> QED BY <1>1, <1>2, <2>2
<1>5. DOMAIN server' \subseteq Sids(core') /\ server' \in [DOMAIN server' -> ServerSubs]
  <2>1. Sids(core) \subseteq Sids(core')
    BY <1>2, <1>3 DEF Sids
  <2> QED BY <1>2, <2>1
<1>6. NamedSids'
  BY <1>2, <1>3, <1>4, <1>5 DEF NamedSids
<1>7. Handshaking'
  <2>1. CASE /\ Negotiating(core.phase) /\ core'.phase = core.phase /\ out = <<>>
             /\ held' \in Seq({Ping})
    <3>1. c2s' = c2s
      <4> HIDE DEF ClientOps
      <4> QED BY <1>1, <1>2, <2>1
    <3>2. ~Live(core.phase) /\ core.phase # "Closed"
      BY <2>1 DEF Negotiating, Live
    <3>3. Handshaking
      BY DEF WireInv
    <3> QED BY <1>2, <2>1, <3>1, <3>2, <3>3 DEF Handshaking
  <2>2. CASE Live(core'.phase) /\ up /\ held' = <<>>
    <3>1. ~Negotiating(core'.phase) /\ core'.phase # "Closed" /\ up'
      BY <1>2, <2>2 DEF Negotiating, Live
    <3>2. held' \in Seq({Ping})
      BY <2>2
    <3> QED BY <2>2, <3>1, <3>2 DEF Handshaking
  <2> QED BY <1>1, <2>1, <2>2
<1> QED BY <1>6, <1>7 DEF WireInv

LEMMA LosesWire ==
  ASSUME Inv, WireInv, Closes \/ Redials PROVE WireInv'
<1>1. /\ core'.next_sid = core.next_sid /\ core'.subscriptions = core.subscriptions
      /\ core'.phase \in {"Awaiting_info", "Closed"}
  BY DEF Closes, Redials, Is
<1>2. ~up' /\ c2s' = <<>> /\ s2c' = <<>> /\ server' = <<>>
  BY DEF Closes, Redials, LoseWire
<1>3. held' \in Seq({Ping})
  <2>1. held \in Seq({Ping}) /\ <<>> \in Seq({Ping})
    BY DEF WireInv, Handshaking
  <2> QED BY <2>1 DEF Closes, Redials
<1>4. DOMAIN server' = {} /\ server' \in [DOMAIN server' -> ServerSubs]
  BY <1>2
<1>5. NamedSids'
  BY <1>1, <1>2, <1>4, NoOps DEF WireInv, NamedSids, Sids
<1>6. Handshaking'
  BY <1>1, <1>2, <1>3, <1>4 DEF Handshaking, Negotiating, Live
<1> QED BY <1>5, <1>6 DEF WireInv

\* What every operation read leaves: the allocated sids, and of the barriers
\* all but the oldest, which only a PONG takes.
LEMMA ReadShape ==
  ASSUME Inv, Read
  PROVE  /\ core.phase # "Closed" /\ up /\ s2c # <<>> /\ s2c' = Tail(s2c)
         /\ Head(s2c) \in ServerOps
         /\ UNCHANGED << up, held, server, granted, raised >>
         /\ core'.next_sid = core.next_sid
         /\ DOMAIN core'.subscriptions \subseteq DOMAIN core.subscriptions
         /\ IF Head(s2c).op = "PING" THEN c2s' = c2s \o << Pong >> ELSE c2s' = c2s \o <<>>
         /\ \/ core'.phase = core.phase
            \/ core.phase = "Awaiting_info" /\ core'.phase = "Awaiting_connect"
         /\ IF Head(s2c).op = "PONG"
            THEN /\ Live(core.phase) /\ core'.pending_liveness = 0
                 /\ core'.pending_pings = IF core.pending_pings = <<>> THEN <<>>
                                          ELSE Tail(core.pending_pings)
            ELSE /\ core'.pending_liveness = core.pending_liveness
                 /\ core'.pending_pings = core.pending_pings
<1>1. /\ up /\ s2c # <<>> /\ s2c' = Tail(s2c) /\ core.phase # "Closed"
      /\ UNCHANGED << up, held, server, granted, raised >> /\ Head(s2c) \in ServerOps
      /\ ReadsInfo \/ ReadsPing \/ ReadsNotice \/ ReadsPong \/ ReadsMessage
  BY ReadMoves
<1>2. CASE ReadsInfo
  BY <1>1, <1>2 DEF ReadsInfo, Moves, Is
<1>3. CASE ReadsPing
  BY <1>1, <1>3 DEF ReadsPing, KeepsCore, Moves, Is
<1>4. CASE ReadsNotice
  BY <1>1, <1>4 DEF ReadsNotice, KeepsCore, Moves, Is
<1>5. CASE ReadsPong
  <2>1. CASE core.pending_pings = <<>>
    BY <1>1, <1>5, <2>1 DEF ReadsPong, Moves, Is
  <2>2. CASE core.pending_pings # <<>>
    <3> DEFINE origin == Head(core.pending_pings)
               subs == IF origin.kind = "Drain" THEN <<>>
                       ELSE IF origin.kind = "Subscription_drain"
                       THEN remove_subscription(origin.sid, core.subscriptions)
                       ELSE core.subscriptions
    <3>1. DOMAIN subs \subseteq DOMAIN core.subscriptions
      <4> HIDE DEF origin
      <4> QED BY DEF remove_subscription
    <3>2. /\ core'.phase = core.phase /\ core'.next_sid = core.next_sid
          /\ core'.subscriptions = subs /\ core'.pending_pings = Tail(core.pending_pings)
          /\ core'.pending_liveness = 0 /\ c2s' = c2s \o <<>>
          /\ Live(core.phase) /\ Head(s2c).op = "PONG"
      BY <1>5, <2>2 DEF ReadsPong, Moves, Is
    <3> HIDE DEF subs
    <3> QED BY <1>1, <2>2, <3>1, <3>2
  <2> QED BY <2>1, <2>2
<1>6. CASE ReadsMessage
  <2> DEFINE sid == Head(s2c).sid
  <2>1. CASE KeepsCore(<<>>)
    BY <1>1, <1>6, <2>1 DEF ReadsMessage, KeepsCore, Moves, Is
  <2>2. CASE /\ sid \in DOMAIN core.subscriptions
             /\ Moves(core.phase, core.next_sid, Delivered(core.subscriptions, sid),
                      core.draining, core.pending_pings, core.pending_liveness, <<>>)
    <3>1. DOMAIN Delivered(core.subscriptions, sid) \subseteq DOMAIN core.subscriptions
      <4> HIDE DEF sid
      <4> QED BY DEF Delivered, remove_subscription
    <3>2. Head(s2c).op = "MSG"
      BY <1>6 DEF ReadsMessage
    <3> QED BY <1>1, <2>2, <3>1, <3>2 DEF Moves, Is
  <2> QED BY <1>6, <2>1, <2>2 DEF ReadsMessage
<1> QED BY <1>1, <1>2, <1>3, <1>4, <1>5, <1>6

\* What is written by a step of the core is appended; ops that name no sid
\* may be.
LEMMA PongAppended ==
  ASSUME NEW s \in Seq(ClientOps), NEW n, SidsIn(s, n)
  PROVE  /\ s \o << Pong >> \in Seq(ClientOps) /\ SidsIn(s \o << Pong >>, n)
         /\ s \o <<>> = s
         /\ \A i \in DOMAIN (s \o << Pong >>) :
              (i \in DOMAIN s /\ (s \o << Pong >>)[i] = s[i]) \/ (s \o << Pong >>)[i] = Pong
<1>1. Pong \in ClientOps /\ Pong.op = "PONG"
  BY WrittenOps
<1> DEFINE w == s \o << Pong >>
<1>2. /\ w \in Seq(ClientOps) /\ s \o <<>> = s
      /\ \A i \in DOMAIN w : (i \in DOMAIN s /\ w[i] = s[i]) \/ w[i] = Pong
  <2> HIDE DEF ClientOps, Pong
  <2> QED BY <1>1
<1> HIDE DEF w, ClientOps, Pong
<1>3. SidsIn(w, n)
  BY <1>1, <1>2 DEF SidsIn
<1> QED BY <1>2, <1>3 DEF w

LEMMA ReadWire ==
  ASSUME Inv, WireInv, Read PROVE WireInv'
<1>1. /\ core.phase # "Closed" /\ up /\ s2c # <<>> /\ s2c' = Tail(s2c)
      /\ UNCHANGED << up, held, server >> /\ core'.next_sid = core.next_sid
      /\ DOMAIN core'.subscriptions \subseteq DOMAIN core.subscriptions
      /\ c2s' = c2s \o << Pong >> \/ c2s' = c2s \o <<>>
      /\ \/ core'.phase = core.phase
         \/ core.phase = "Awaiting_info" /\ core'.phase = "Awaiting_connect"
  BY ReadShape
<1>2. c2s \in Seq(ClientOps) /\ SidsIn(c2s, core.next_sid) /\ s2c \in Seq(ServerOps)
  BY CoreParts DEF WireInv, NamedSids
<1>3. /\ c2s' \in Seq(ClientOps) /\ SidsIn(c2s', core.next_sid)
      /\ \A i \in DOMAIN c2s' : (i \in DOMAIN c2s /\ c2s'[i] = c2s[i]) \/ c2s'[i] = Pong
  <2>1. CASE c2s' = c2s \o << Pong >>
    <3> HIDE DEF ClientOps, Pong
    <3> QED BY <1>2, <2>1, PongAppended
  <2>2. CASE c2s' = c2s \o <<>>
    <3>1. c2s' = c2s
      BY <1>2, <2>2, PongAppended
    <3> QED BY <1>2, <3>1
  <2> QED BY <1>1, <2>1, <2>2
<1>4. NamedSids'
  BY <1>1, <1>3 DEF WireInv, NamedSids, Sids
<1>5. /\ s2c' \in Seq(ServerOps)
      /\ \A i \in DOMAIN s2c' : i + 1 \in DOMAIN s2c /\ s2c'[i] = s2c[i + 1]
  <2> HIDE DEF ServerOps
  <2> QED BY <1>1, <1>2
<1>6. Handshaking'
  <2>1. Handshaking
    BY DEF WireInv
  <2>2. Negotiating(core'.phase) => Negotiating(core.phase)
    BY <1>1 DEF Negotiating
  <2>3. Live(core'.phase) => Live(core.phase)
    BY <1>1 DEF Live
  <2>4. core'.phase # "Closed"
    BY <1>1
  <2>5. ASSUME Negotiating(core'.phase)
        PROVE  /\ \A i \in DOMAIN c2s' : c2s'[i] = Pong
               /\ \A i \in DOMAIN s2c' : s2c'[i].op \in {"INFO", "PING"}
               /\ DOMAIN server' = {}
    BY <1>1, <1>3, <1>5, <2>1, <2>2, <2>5 DEF Handshaking
  <2> QED BY <1>1, <2>1, <2>3, <2>4, <2>5 DEF Handshaking
<1> QED BY <1>4, <1>6 DEF WireInv

LEMMA DialWire ==
  ASSUME Inv, WireInv, NEW i \in Infos, Dial(i) PROVE WireInv'
<1>1. /\ ~up /\ core.phase = "Awaiting_info" /\ up'
      /\ s2c' = << [op |-> "INFO", info |-> i] >>
      /\ UNCHANGED << core, c2s, held, server >>
  BY DEF Dial
<1>2. NamedSids'
  BY <1>1 DEF WireInv, NamedSids, Sids
<1>3. \A j \in DOMAIN s2c' : s2c'[j].op = "INFO"
  BY <1>1
<1>4. Handshaking'
  BY <1>1, <1>3 DEF WireInv, Handshaking, Live
<1> QED BY <1>2, <1>4 DEF WireInv

\* The server's table after one operation.
LEMMA ServerDoesTyped ==
  ASSUME NEW subs, subs \in [DOMAIN subs -> ServerSubs], NEW o \in ClientOps
  PROVE  LET new == ServerDoes(subs, o)
         IN  /\ new \in [DOMAIN new -> ServerSubs]
             /\ \A s \in DOMAIN new : s \in DOMAIN subs \/ (o.op = "SUB" /\ s = o.sid)
<1> DEFINE new == ServerDoes(subs, o)
<1>1. CASE o.op = "SUB"
  <2> DEFINE fresh == [max |-> None, sent |-> 0]
             r == [s \in DOMAIN subs \cup {o.sid} |-> IF s = o.sid THEN fresh ELSE subs[s]]
  <2>1. new = r
    BY <1>1 DEF ServerDoes
  <2>2. fresh \in ServerSubs
    BY DEF ServerSubs
  <2> HIDE DEF fresh, new, ServerSubs
  <2>3. r \in [DOMAIN r -> ServerSubs] /\ \A s \in DOMAIN r : s \in DOMAIN subs \/ s = o.sid
    BY <2>2
  <2> QED BY <1>1, <2>1, <2>3 DEF new
<1>2. CASE o.op = "UNSUB"
  <2>1. new = ServerUnsub(subs, o.sid, o.max) /\ o.max \in Nat \cup {None}
    BY <1>2 DEF ServerDoes, ClientOps
  <2>2. CASE o.sid \notin DOMAIN subs
    BY <2>1, <2>2 DEF ServerUnsub
  <2>3. CASE o.sid \in DOMAIN subs /\ (o.max = None \/ subs[o.sid].sent >= o.max)
    <3>1. new = remove_subscription(o.sid, subs)
      BY <2>1, <2>3 DEF ServerUnsub
    <3> HIDE DEF new
    <3> QED BY <3>1 DEF remove_subscription, new
  <2>4. CASE o.sid \in DOMAIN subs /\ ~(o.max = None \/ subs[o.sid].sent >= o.max)
    <3> DEFINE old == subs[o.sid]
               e == [old EXCEPT !.max = o.max]
    <3>1. new = [subs EXCEPT ![o.sid] = e]
      BY <2>1, <2>4 DEF ServerUnsub
    <3>2. old \in ServerSubs
      BY <2>4
    <3> HIDE DEF old
    <3>3. e \in ServerSubs
      BY <2>1, <3>2 DEF ServerSubs
    <3> HIDE DEF new, e
    <3> QED BY <3>1, <3>3 DEF new
  <2> QED BY <2>2, <2>3, <2>4
<1>3. CASE o.op # "SUB" /\ o.op # "UNSUB"
  BY <1>3 DEF ServerDoes
<1> QED BY <1>1, <1>2, <1>3

LEMMA ServerSentTyped ==
  ASSUME NEW subs, subs \in [DOMAIN subs -> ServerSubs], NEW sid \in DOMAIN subs
  PROVE  LET new == ServerSent(subs, sid)
         IN  new \in [DOMAIN new -> ServerSubs] /\ DOMAIN new \subseteq DOMAIN subs
<1> DEFINE new == ServerSent(subs, sid)
           old == subs[sid]
           e == [old EXCEPT !.sent = @ + 1]
<1>1. old \in ServerSubs
  OBVIOUS
<1>2. CASE old.max = old.sent + 1
  <2>1. new = remove_subscription(sid, subs)
    BY <1>2 DEF ServerSent
  <2> HIDE DEF new
  <2> QED BY <2>1 DEF remove_subscription, new
<1>3. CASE ~(old.max = old.sent + 1)
  <2>1. new = [subs EXCEPT ![sid] = e]
    BY <1>3 DEF ServerSent
  <2> HIDE DEF old
  <2>2. e \in ServerSubs
    BY <1>1 DEF ServerSubs
  <2> HIDE DEF new, e
  <2> QED BY <2>1, <2>2 DEF new
<1> QED BY <1>2, <1>3

LEMMA TailOps ==
  ASSUME NEW T, NEW s \in Seq(T), s # <<>>
  PROVE  /\ Head(s) \in T /\ Tail(s) \in Seq(T)
         /\ Head(s) = s[1] /\ 1 \in DOMAIN s
         /\ \A i \in DOMAIN Tail(s) : i + 1 \in DOMAIN s /\ Tail(s)[i] = s[i + 1]
OBVIOUS

LEMMA HandleWire ==
  ASSUME Inv, WireInv, ServerHandle PROVE WireInv'
<1> DEFINE o == Head(c2s)
<1>1. /\ up /\ c2s # <<>> /\ c2s' = Tail(c2s) /\ server' = ServerDoes(server, o)
      /\ s2c' = IF o.op = "PING" THEN Append(s2c, Pong) ELSE s2c
      /\ UNCHANGED << core, up, held >>
  BY DEF ServerHandle, ServerFrame
<1>2. /\ c2s \in Seq(ClientOps) /\ SidsIn(c2s, core.next_sid)
      /\ server \in [DOMAIN server -> ServerSubs] /\ DOMAIN server \subseteq Sids(core)
      /\ core.next_sid \in Nat
  BY CoreParts DEF WireInv, NamedSids
<1>3. /\ o \in ClientOps /\ c2s' \in Seq(ClientOps)
      /\ o = c2s[1] /\ 1 \in DOMAIN c2s
      /\ \A i \in DOMAIN c2s' : i + 1 \in DOMAIN c2s /\ c2s'[i] = c2s[i + 1]
  <2> HIDE DEF ClientOps
  <2> QED BY <1>1, <1>2, TailOps
<1>4. SidsIn(c2s', core.next_sid)
  BY <1>2, <1>3 DEF SidsIn
<1>5. /\ server' \in [DOMAIN server' -> ServerSubs]
      /\ \A s \in DOMAIN server' : s \in DOMAIN server \/ (o.op = "SUB" /\ s = o.sid)
  <2> HIDE DEF o, ServerSubs, ClientOps
  <2> QED BY <1>1, <1>2, <1>3, ServerDoesTyped
<1>6. o.op = "SUB" => o.sid \in Sids(core)
  <2>1. SUFFICES ASSUME o.op = "SUB" PROVE o.sid \in Sids(core)
    OBVIOUS
  <2>2. o.sid < core.next_sid
    BY <1>2, <1>3, <2>1 DEF SidsIn
  <2>3. o.sid \in Nat \ {0}
    BY <2>1, <1>2, <1>3, SidsAreNat
  <2> QED BY <1>2, <2>2, <2>3 DEF Sids
<1>7. DOMAIN server' \subseteq Sids(core)
  BY <1>2, <1>5, <1>6
<1>8. NamedSids'
  BY <1>1, <1>3, <1>4, <1>5, <1>7 DEF WireInv, NamedSids, Sids
<1>9. Handshaking'
  <2>1. Handshaking
    BY DEF WireInv
  <2>2. ASSUME Negotiating(core.phase)
        PROVE  /\ \A i \in DOMAIN c2s' : c2s'[i] = Pong
               /\ \A i \in DOMAIN s2c' : s2c'[i].op \in {"INFO", "PING"}
               /\ DOMAIN server' = {}
    <3>1. o = Pong /\ Pong.op = "PONG"
      BY <1>3, <2>1, <2>2, WrittenOps DEF Handshaking
    <3>2. s2c' = s2c /\ \A s \in DOMAIN server' : s \in DOMAIN server
      BY <1>1, <1>5, <3>1
    <3> QED BY <1>3, <2>1, <2>2, <3>2 DEF Handshaking
  <2> QED BY <1>1, <2>1, <2>2 DEF Handshaking
<1> QED BY <1>8, <1>9 DEF WireInv

LEMMA SendWire ==
  ASSUME Inv, WireInv, NEW sid \in 1..MaxSid, ServerSend(sid) PROVE WireInv'
<1>1. /\ up /\ sid \in DOMAIN server /\ server' = ServerSent(server, sid)
      /\ UNCHANGED << core, up, held, c2s >>
  BY DEF ServerSend, ServerFrame
<1>2. server \in [DOMAIN server -> ServerSubs] /\ DOMAIN server \subseteq Sids(core)
  BY DEF WireInv, NamedSids
<1>3. server' \in [DOMAIN server' -> ServerSubs] /\ DOMAIN server' \subseteq DOMAIN server
  <2> HIDE DEF ServerSubs
  <2> QED BY <1>1, <1>2, ServerSentTyped
<1>4. NamedSids'
  BY <1>1, <1>2, <1>3 DEF WireInv, NamedSids, Sids
<1>5. ~Negotiating(core.phase)
  BY <1>1 DEF WireInv, Handshaking
<1>6. Handshaking'
  BY <1>1, <1>5 DEF WireInv, Handshaking
<1> QED BY <1>4, <1>6 DEF WireInv

LEMMA NoticeWire ==
  ASSUME Inv, WireInv, NEW op \in Notices, ServerNotice(op) PROVE WireInv'
<1>1. /\ up /\ s2c' = Append(s2c, op) /\ UNCHANGED << core, up, held, c2s, server >>
      /\ core.phase \in {"Connected", "Draining"} \/ op.op \in {"PING", "INFO"}
  BY DEF ServerNotice, ServerFrame
<1>2. NamedSids'
  BY <1>1 DEF WireInv, NamedSids, Sids
<1>3. \A i \in DOMAIN s2c' : (i \in DOMAIN s2c /\ s2c'[i] = s2c[i]) \/ s2c'[i] = op
  <2>1. s2c \in Seq(ServerOps)
    BY CoreParts
  <2> HIDE DEF ServerOps
  <2> QED BY <1>1, <2>1
<1>4. Handshaking'
  <2>1. Handshaking
    BY DEF WireInv
  <2>2. ASSUME Negotiating(core.phase)
        PROVE  \A i \in DOMAIN s2c' : s2c'[i].op \in {"INFO", "PING"}
    <3>1. op.op \in {"PING", "INFO"}
      BY <1>1, <2>2 DEF Negotiating
    <3> QED BY <1>3, <2>1, <2>2, <3>1 DEF Handshaking
  <2> QED BY <1>1, <2>1, <2>2 DEF Handshaking
<1> QED BY <1>2, <1>4 DEF WireInv

LEMMA NextWire ==
  ASSUME Inv, WireInv, [Next]_vars PROVE WireInv'
<1>1. CASE Next
  <2>1. Steps
    BY <1>1, NextSteps
  <2>2. CASE Closes \/ Redials
    BY <2>2, LosesWire
  <2>3. CASE Writes
    BY <2>3, WritesWire
  <2>4. CASE Read
    BY <2>4, ReadWire
  <2>5. CASE ServerHandle
    BY <2>5, HandleWire
  <2>6. ASSUME NEW i \in Infos, Dial(i) PROVE WireInv'
    BY <2>6, DialWire
  <2>7. ASSUME NEW sid \in 1..MaxSid, ServerSend(sid) PROVE WireInv'
    BY <2>7, SendWire
  <2>8. ASSUME NEW op \in Notices, ServerNotice(op) PROVE WireInv'
    BY <2>8, NoticeWire
  <2> QED BY <2>1, <2>2, <2>3, <2>4, <2>5, <2>6, <2>7, <2>8 DEF Steps
<1>2. CASE UNCHANGED vars
  BY <1>2 DEF vars, WireInv, NamedSids, Handshaking, Sids
<1> QED BY <1>1, <1>2

-----------------------------------------------------------------------------
(* Barriers.                                                               *)

\* The counts the barriers are about.
LEMMA BarrierCounts ==
  ASSUME Inv, WireInv
  PROVE  /\ Count(s2c, "PONG") \in Nat /\ Count(c2s, "PING") \in Nat
         /\ Count(held, "PING") \in Nat /\ Len(core.pending_pings) \in Nat
         /\ core.pending_liveness \in Nat
         /\ s2c \in Seq(AllOps) /\ c2s \in Seq(AllOps) /\ held \in Seq(AllOps)
         /\ Negotiating(core.phase) => Count(c2s, "PING") = 0 /\ Count(s2c, "PONG") = 0
         /\ Live(core.phase) => Count(held, "PING") = 0
<1>1. /\ s2c \in Seq(ServerOps) /\ c2s \in Seq(ClientOps) /\ held \in Seq({Ping})
      /\ core.pending_pings \in Seq(Origins) /\ core.pending_liveness \in Nat
  BY CoreParts DEF WireInv, NamedSids, Handshaking
<1>2. s2c \in Seq(AllOps) /\ c2s \in Seq(AllOps) /\ held \in Seq(AllOps)
  BY <1>1, OpsInAll, HeldOps
<1>3. Count(s2c, "PONG") \in Nat /\ Count(c2s, "PING") \in Nat /\ Count(held, "PING") \in Nat
  BY <1>2, CountNat
<1>4. Len(core.pending_pings) \in Nat
  BY <1>1
<1>5. ASSUME Negotiating(core.phase)
      PROVE  Count(c2s, "PING") = 0 /\ Count(s2c, "PONG") = 0
  <2>1. /\ \A i \in DOMAIN c2s : c2s[i].op # "PING"
        /\ \A i \in DOMAIN s2c : s2c[i].op # "PONG"
    BY <1>5, WrittenOps DEF WireInv, Handshaking
  <2> QED BY <1>2, <2>1, CountZero
<1>6. Live(core.phase) => Count(held, "PING") = 0
  BY CountNone DEF WireInv, Handshaking
<1> QED BY <1>1, <1>2, <1>3, <1>4, <1>5, <1>6

LEMMA InitBarriers == ASSUME Init PROVE Barriers
<1>1. /\ core.pending_pings = <<>> /\ core.pending_liveness = 0 /\ dropped = 0
      /\ c2s = <<>> /\ s2c = <<>> /\ held = <<>>
  BY DEF Init, v
<1>2. Len(core.pending_pings) = 0
  BY <1>1
<1>3. Count(s2c, "PONG") = 0 /\ Count(c2s, "PING") = 0 /\ Count(held, "PING") = 0
  BY <1>1, CountNone
<1>4. core.pending_liveness + dropped <= Len(core.pending_pings)
  BY <1>1, <1>2
<1> QED BY <1>1, <1>2, <1>3, <1>4 DEF Barriers, BarriersAligned

LEMMA LosesBarriers ==
  ASSUME Inv, WireInv, Barriers, Closes \/ Redials, dropped' = dropped \/ Redials
  PROVE  Barriers'
<1>1. ASSUME Closes, dropped' = dropped PROVE Barriers'
  BY <1>1 DEF Closes, Is, Barriers, BarriersAligned
<1>2. CASE Redials
  <2> DEFINE h == Count(held, "PING")
             h2 == Count(held', "PING")
             l == Len(core.pending_pings)
  <2>1. PICK pings :
          /\ core'.pending_pings = pings /\ core'.pending_liveness = 0
          /\ \/ /\ core.phase = "Connected" /\ pings = <<>> /\ held' = held
                /\ dropped' = 0
             \/ /\ Negotiating(core.phase) /\ pings = core.pending_pings
                /\ \/ held' = held /\ dropped' = dropped
                   \/ held' = <<>> /\ dropped' = dropped + h
    BY <1>2 DEF Redials, Is
  <2>2. Count(s2c', "PONG") = 0 /\ Count(c2s', "PING") = 0
    <3>1. c2s' = <<>> /\ s2c' = <<>>
      BY <1>2 DEF Redials, LoseWire
    <3> QED BY <3>1, CountNone
  <2>3. h \in Nat /\ l \in Nat /\ dropped \in Nat
    BY BarrierCounts DEF Barriers
  <2>4. Len(pings) = h2 + dropped' /\ h2 \in Nat /\ dropped' \in Nat
    <3>1. ASSUME core.phase = "Connected", pings = <<>>, held' = held, dropped' = 0
          PROVE  Len(pings) = h2 + dropped' /\ h2 \in Nat /\ dropped' \in Nat
      <4>1. h2 = 0
        BY <3>1, BarrierCounts DEF Live
      <4>2. Len(pings) = 0
        BY <3>1
      <4> HIDE DEF h2
      <4> QED BY <3>1, <4>1, <4>2
    <3>2. ASSUME Negotiating(core.phase), pings = core.pending_pings
          PROVE  Len(pings) = h + dropped
      <4>1. core.phase # "Closed"
        BY <3>2 DEF Negotiating
      <4>2. l = Count(s2c, "PONG") + Count(c2s, "PING") + h + dropped
        BY <4>1 DEF Barriers, BarriersAligned
      <4>3. Count(s2c, "PONG") = 0 /\ Count(c2s, "PING") = 0
        BY <3>2, BarrierCounts
      <4> HIDE DEF h
      <4> QED BY <2>3, <3>2, <4>2, <4>3
    <3>3. ASSUME Negotiating(core.phase), pings = core.pending_pings, held' = held,
                 dropped' = dropped
          PROVE  Len(pings) = h2 + dropped' /\ h2 \in Nat /\ dropped' \in Nat
      BY <2>3, <3>2, <3>3
    <3>4. ASSUME Negotiating(core.phase), pings = core.pending_pings, held' = <<>>,
                 dropped' = dropped + h
          PROVE  Len(pings) = h2 + dropped' /\ h2 \in Nat /\ dropped' \in Nat
      <4>1. h2 = 0
        BY <3>4, CountNone
      <4> HIDE DEF h, h2
      <4> QED BY <2>3, <3>2, <3>4, <4>1
    <3> QED BY <2>1, <3>1, <3>3, <3>4
  <2>5. Len(core'.pending_pings)
          = Count(s2c', "PONG") + Count(c2s', "PING") + h2 + dropped'
    <3> HIDE DEF h2
    <3> QED BY <2>1, <2>2, <2>4
  <2>6. core'.pending_liveness + dropped' <= Len(core'.pending_pings)
    <3>1. Len(core'.pending_pings) = h2 + dropped' /\ core'.pending_liveness = 0
      BY <2>1, <2>4
    <3>2. \A m, n \in Nat : 0 + n <= m + n
      OBVIOUS
    <3> QED BY <2>4, <3>1, <3>2
  <2> QED BY <2>4, <2>5, <2>6 DEF Barriers, BarriersAligned
<1> QED BY <1>1, <1>2

LEMMA WritesBarriers ==
  ASSUME Inv, WireInv, Barriers, Writes, dropped' = dropped, Inv' PROVE Barriers'
<1> DEFINE a == Count(s2c, "PONG")
           b == Count(c2s, "PING")
           h == Count(held, "PING")
           l == Len(core.pending_pings)
           k == core.pending_liveness
           h2 == Count(held', "PING")
           l2 == Len(core'.pending_pings)
           k2 == core'.pending_liveness
<1>1. PICK out \in Seq(ClientOps) :
        /\ c2s' = c2s \o out
        /\ \/ Negotiating(core.phase) /\ held' \in Seq({Ping})
           \/ Live(core'.phase) /\ core.phase # "Closed" /\ held' = <<>>
        /\ l2 + h = l + Count(out, "PING") + h2
        /\ k2 + l <= k + l2
  BY DEF Writes
<1>2. s2c' = s2c
  BY DEF Writes
<1>3. core.phase # "Closed"
  BY <1>1 DEF Negotiating
<1>4. l = a + b + h + dropped /\ k + dropped <= l /\ dropped \in Nat
  BY <1>3 DEF Barriers, BarriersAligned
<1>5. a \in Nat /\ b \in Nat /\ h \in Nat /\ l \in Nat /\ k \in Nat /\ c2s \in Seq(AllOps)
  BY BarrierCounts
<1>6. out \in Seq(AllOps) /\ held' \in Seq(AllOps)
  <2>1. <<>> \in Seq(AllOps)
    OBVIOUS
  <2> QED BY <1>1, <2>1, OpsInAll, HeldOps
<1>7. Count(out, "PING") \in Nat /\ h2 \in Nat
  BY <1>6, CountNat
<1>8. Count(c2s', "PING") = b + Count(out, "PING")
  BY <1>1, <1>5, <1>6, CountConcatenated
<1>9. Count(s2c', "PONG") = a
  BY <1>2
<1>10. l2 \in Nat /\ k2 \in Nat
  <2>1. core'.pending_pings \in Seq(Origins) /\ core'.pending_liveness \in Nat
    BY DEF Inv, Good, CoreType
  <2> QED BY <2>1
<1> DEFINE c == Count(out, "PING")
<1> HIDE DEF a, b, h, l, k, h2, l2, k2, c
<1>11. l2 = a + (b + c) + h2 + dropped /\ k2 + dropped <= l2
  <2>1. l2 + h = l + c + h2 /\ c \in Nat /\ k2 + l <= k + l2
    BY <1>1, <1>7 DEF c
  <2> QED BY <1>4, <1>5, <1>7, <1>10, <2>1
<1> QED BY <1>4, <1>8, <1>9, <1>11 DEF Barriers, BarriersAligned, h2, l2, k2, c

LEMMA ReadBarriers ==
  ASSUME Inv, WireInv, Barriers, Read PROVE Barriers'
<1> DEFINE a == Count(s2c, "PONG")
           b == Count(c2s, "PING")
           h == Count(held, "PING")
           l == Len(core.pending_pings)
           k == core.pending_liveness
           pong == Head(s2c).op = "PONG"
<1>1. /\ core.phase # "Closed" /\ s2c # <<>> /\ s2c' = Tail(s2c) /\ held' = held
      /\ c2s' = c2s \o << Pong >> \/ c2s' = c2s \o <<>>
      /\ IF pong
         THEN /\ core'.pending_liveness = 0
              /\ core'.pending_pings = IF core.pending_pings = <<>> THEN <<>>
                                       ELSE Tail(core.pending_pings)
         ELSE /\ core'.pending_liveness = core.pending_liveness
              /\ core'.pending_pings = core.pending_pings
  BY ReadShape
<1>2. l = a + b + h + dropped /\ k + dropped <= l /\ dropped \in Nat
  BY <1>1 DEF Barriers, BarriersAligned
<1>3. /\ a \in Nat /\ b \in Nat /\ h \in Nat /\ l \in Nat /\ k \in Nat
      /\ c2s \in Seq(AllOps) /\ s2c \in Seq(AllOps)
  BY BarrierCounts
<1>4. Count(c2s', "PING") = b
  <2>1. CASE c2s' = c2s \o << Pong >>
    <3>1. << Pong >> \in Seq(AllOps) /\ Count(<< Pong >>, "PING") = 0
      <4>1. Pong \in ClientOps /\ Pong.op = "PONG"
        BY WrittenOps
      <4>2. << Pong >> \in Seq(ClientOps) /\ Count(<< Pong >>, "PING") = 0
        BY <4>1, OneOp
      <4> QED BY <4>2, OpsInAll
    <3> DEFINE p == << Pong >>
    <3>2. p \in Seq(AllOps) /\ Count(p, "PING") = 0 /\ c2s' = c2s \o p
      BY <2>1, <3>1
    <3> HIDE DEF p
    <3> QED BY <1>3, <3>2, CountConcatenated
  <2>2. CASE c2s' = c2s \o <<>>
    <3>1. c2s' = c2s
      <4> HIDE DEF AllOps
      <4> QED BY <1>3, <2>2
    <3> QED BY <3>1
  <2> QED BY <1>1, <2>1, <2>2
<1>5. /\ a = Count(s2c', "PONG") + IF pong THEN 1 ELSE 0
      /\ Count(s2c', "PONG") \in Nat
  <2>1. a = Count(Tail(s2c), "PONG") + IF pong THEN 1 ELSE 0
    BY <1>1, <1>3, CountRead
  <2>2. Tail(s2c) \in Seq(AllOps)
    <3> HIDE DEF AllOps
    <3> QED BY <1>1, <1>3
  <2> QED BY <1>1, <2>1, <2>2, CountNat
<1>6. Count(held', "PING") = h
  BY <1>1
<1>7. /\ Len(core'.pending_pings) = IF pong THEN l - 1 ELSE l
      /\ core'.pending_liveness + dropped <= Len(core'.pending_pings)
  <2>1. CASE pong
    <3>1. l >= 1 + dropped
      <4> DEFINE a2 == Count(s2c', "PONG")
      <4>1. a = a2 + 1 /\ a2 \in Nat
        BY <1>5, <2>1
      <4> HIDE DEF a, b, h, l, a2
      <4> QED BY <1>2, <1>3, <4>1
    <3>2. core.pending_pings \in Seq(Origins) /\ core.pending_pings # <<>>
      <4>1. Len(core.pending_pings) # 0
        BY <1>2, <3>1
      <4> QED BY <4>1, CoreParts
    <3>3. core'.pending_pings = Tail(core.pending_pings) /\ core'.pending_liveness = 0
      BY <1>1, <2>1, <3>2
    <3>4. Len(Tail(core.pending_pings)) = l - 1
      BY <3>2
    <3> QED BY <1>2, <1>3, <2>1, <3>1, <3>3, <3>4
  <2>2. CASE ~pong
    BY <1>1, <1>2, <2>2
  <2> QED BY <2>1, <2>2
<1> DEFINE a2 == Count(s2c', "PONG")
           l2 == Len(core'.pending_pings)
<1>8. l2 = a2 + b + h + dropped
  <2>1. a = a2 + (IF pong THEN 1 ELSE 0) /\ a2 \in Nat /\ l2 = IF pong THEN l - 1 ELSE l
    BY <1>5, <1>7
  <2> HIDE DEF a, b, h, l, k, pong, a2, l2
  <2> QED BY <1>2, <1>3, <2>1
<1>9. dropped' = dropped
  BY DEF Read
<1> QED BY <1>2, <1>4, <1>6, <1>7, <1>8, <1>9 DEF Barriers, BarriersAligned

LEMMA HandleBarriers ==
  ASSUME Inv, WireInv, Barriers, ServerHandle PROVE Barriers'
<1> DEFINE a == Count(s2c, "PONG")
           b == Count(c2s, "PING")
           h == Count(held, "PING")
           a2 == Count(s2c', "PONG")
           b2 == Count(c2s', "PING")
           ping == Head(c2s).op = "PING"
<1>1. /\ c2s # <<>> /\ c2s' = Tail(c2s)
      /\ s2c' = IF ping THEN Append(s2c, Pong) ELSE s2c
      /\ UNCHANGED << core, held, dropped >>
  BY DEF ServerHandle, ServerFrame
<1>2. a \in Nat /\ b \in Nat /\ h \in Nat /\ c2s \in Seq(AllOps) /\ s2c \in Seq(AllOps)
  BY BarrierCounts
<1>3. b = b2 + (IF ping THEN 1 ELSE 0) /\ b2 \in Nat
  <2>1. Tail(c2s) \in Seq(AllOps)
    <3> HIDE DEF AllOps
    <3> QED BY <1>1, <1>2
  <2> QED BY <1>1, <1>2, <2>1, CountRead, CountNat
<1>4. a2 = a + (IF ping THEN 1 ELSE 0)
  <2>1. Pong \in AllOps /\ Pong.op = "PONG"
    BY WrittenOps DEF AllOps
  <2>2. Count(Append(s2c, Pong), "PONG") = a + 1
    BY <1>2, <2>1, CountAppended
  <2> QED BY <1>1, <1>2, <2>2
<1>5. a2 + b2 + h + dropped = a + b + h + dropped
  <2> HIDE DEF a, b, h, a2, b2, ping
  <2> QED BY <1>2, <1>3, <1>4
<1> QED BY <1>1, <1>5 DEF Barriers, BarriersAligned

LEMMA ArrivesBarriers ==
  ASSUME Inv, WireInv, Barriers, NEW op \in ServerOps, op.op # "PONG",
         s2c' = Append(s2c, op), UNCHANGED << core, c2s, held, dropped >>
  PROVE  Barriers'
<1>1. s2c \in Seq(AllOps) /\ op \in AllOps /\ Count(s2c, "PONG") \in Nat
  BY BarrierCounts DEF AllOps
<1>2. Count(s2c', "PONG") = Count(s2c, "PONG")
  BY <1>1, CountAppended
<1> QED BY <1>2 DEF Barriers, BarriersAligned

\* Only a loss, a redial that fails and a failed write of what was held touch
\* the count of barriers that lost their PING.
LEMMA NextDropped ==
  ASSUME Inv, Next PROVE dropped' = dropped \/ Redials
<1>1. CASE HeldWriteFailed
  BY <1>1, HeldWriteFailedRedials
<1>2. ASSUME NEW eof \in BOOLEAN, TransportLost(eof) PROVE Redials
  BY <1>2, LossRedials
<1>3. CASE \/ Connect \/ ConnectRefused \/ Flush \/ Drain \/ Close \/ Timer \/ Read
           \/ RedialFailed \/ EndOfFile \/ ServerHandle
  BY <1>3, Zenon DEF Connect, ConnectRefused, Flush, Drain, Close, Timer, Read,
     RedialFailed, EndOfFile, ServerHandle, GiveUp, CallerFrame, ServerFrame
<1>4. CASE \/ \E m \in Messages : Publish(m)
           \/ \E s \in Subjects : Subscribe(s)
           \/ \E i \in Infos : Dial(i)
           \/ \E sid \in 1..MaxSid : ServerSend(sid)
           \/ \E op \in Notices : ServerNotice(op)
  BY <1>4 DEF Publish, Subscribe, Dial, ServerSend, ServerNotice, CallerFrame,
     ServerFrame
<1>5. CASE \/ \E sid \in 1..MaxSid : Unsubscribe(sid)
           \/ \E sid \in 1..MaxSid, n \in Quotas : AutoUnsubscribe(sid, n)
           \/ \E sid \in 1..MaxSid : DrainSubscription(sid)
  BY <1>5 DEF Unsubscribe, AutoUnsubscribe, DrainSubscription, CallerFrame
<1> QED BY <1>1, <1>2, <1>3, <1>4, <1>5 DEF Next

LEMMA NextBarriers ==
  ASSUME Inv, WireInv, Barriers, [Next]_vars, Inv' PROVE Barriers'
<1>1. CASE Next
  <2>1. Steps
    BY <1>1, NextSteps
  <2>1a. dropped' = dropped \/ Redials
    BY <1>1, NextDropped
  <2>2. CASE Closes \/ Redials
    BY <2>1a, <2>2, LosesBarriers
  <2>3. CASE Writes
    BY <2>1a, <2>2, <2>3, WritesBarriers
  <2>4. CASE Read
    BY <2>4, ReadBarriers
  <2>5. CASE ServerHandle
    BY <2>5, HandleBarriers
  <2>6. ASSUME NEW i \in Infos, Dial(i) PROVE Barriers'
    <3> DEFINE op == [op |-> "INFO", info |-> i]
    <3>1. op \in ServerOps /\ op.op # "PONG"
      BY DEF ServerOps
    <3>2. s2c = <<>> /\ s2c' = << op >> /\ UNCHANGED << core, c2s, held, dropped >>
      BY <2>6 DEF Dial, WireInv, Handshaking
    <3> HIDE DEF op
    <3>3. s2c' = Append(s2c, op)
      BY <3>2
    <3> QED BY <3>1, <3>2, <3>3, ArrivesBarriers
  <2>7. ASSUME NEW sid \in 1..MaxSid, ServerSend(sid) PROVE Barriers'
    <3> DEFINE op == [op |-> "MSG", sid |-> sid]
    <3>1. op \in ServerOps /\ op.op # "PONG"
      BY DEF ServerOps
    <3>2. s2c' = Append(s2c, op) /\ UNCHANGED << core, c2s, held, dropped >>
      BY <2>7 DEF ServerSend, ServerFrame
    <3> HIDE DEF op
    <3> QED BY <3>1, <3>2, ArrivesBarriers
  <2>8. ASSUME NEW op \in Notices, ServerNotice(op) PROVE Barriers'
    <3>1. op \in ServerOps /\ op.op # "PONG"
      BY DEF ServerOps, Notices
    <3>2. s2c' = Append(s2c, op) /\ UNCHANGED << core, c2s, held, dropped >>
      BY <2>8 DEF ServerNotice, ServerFrame
    <3> QED BY <3>1, <3>2, ArrivesBarriers
  <2> QED BY <2>1, <2>2, <2>3, <2>4, <2>5, <2>6, <2>7, <2>8 DEF Steps
<1>2. CASE UNCHANGED vars
  BY <1>2 DEF vars, Barriers, BarriersAligned
<1> QED BY <1>1, <1>2

LEMMA BarriersInv == Spec => [](Inv /\ WireInv /\ Barriers)
<1>1. Init => Inv /\ WireInv /\ Barriers
  BY InitInv, InitWire, InitBarriers
<1>2. Inv /\ WireInv /\ Barriers /\ [Next]_vars => (Inv /\ WireInv /\ Barriers)'
  BY NextInv, NextWire, NextBarriers
<1> QED BY <1>1, <1>2, PTL DEF Spec

\* The barriers the core waits for (pending_pings in lib/client.ml) are as many
\* as the PINGs and PONGs on their way and the barriers that outlived the
\* output held for them (flush_reconnect_pending in lib/eio/connection.ml),
\* over losses, redials and flushes made while negotiating: incoming_pong,
\* which pops the oldest, has never a PONG too many to count.
THEOREM BarriersAlwaysAligned == Spec => []BarriersAligned
<1>1. Inv /\ WireInv /\ Barriers => BarriersAligned
  BY DEF Barriers
<1> QED BY <1>1, BarriersInv, PTL

\* When the liveness timer (timer in lib/client.ml) closes the core, as many
\* PINGs as max_pings_without_pong allows really are unanswered: each one
\* counted by pending_liveness is still among the barriers.
THEOREM StaleServersAreSilent == Spec => StaleMeansUnanswered
<1>1. ASSUME Inv, WireInv, Barriers, Timer, core'.phase = "Closed"
      PROVE  Count(c2s, "PING") + Count(s2c, "PONG") >= MaxPings
  <2>1. core.phase = "Connected" /\ core.pending_liveness >= MaxPings
    <3>1. core.phase = "Connected"
      BY <1>1, TimerMoves
    <3>2. CASE Moves("Connected", core.next_sid, core.subscriptions, core.draining,
                     Append(core.pending_pings, Origin("Liveness")),
                     core.pending_liveness + 1, << Ping >>)
      BY <1>1, <3>2 DEF Moves, Is
    <3> QED BY <1>1, <3>1, <3>2, TimerMoves
  <2>2. /\ core.pending_liveness + dropped <= Len(core.pending_pings)
        /\ Len(core.pending_pings)
             = Count(s2c, "PONG") + Count(c2s, "PING") + Count(held, "PING") + dropped
        /\ dropped \in Nat
    BY <1>1, <2>1 DEF Barriers, BarriersAligned
  <2>3. /\ Count(held, "PING") = 0 /\ Count(s2c, "PONG") \in Nat /\ Count(c2s, "PING") \in Nat
        /\ core.pending_liveness \in Nat /\ MaxPings \in Nat
    BY <1>1, <2>1, BarrierCounts, PingAssumption DEF Live
  <2> QED BY <2>1, <2>2, <2>3
<1>2. Inv /\ WireInv /\ Barriers /\ [Next]_vars
        => [Timer /\ core'.phase = "Closed" =>
              Count(c2s, "PING") + Count(s2c, "PONG") >= MaxPings]_vars
  BY <1>1
<1> QED BY <1>2, BarriersInv, PTL DEF Spec, StaleMeansUnanswered

-----------------------------------------------------------------------------
(* The same steps, as the subscriptions see them.                          *)

KeepsSids ==
  /\ core'.next_sid = core.next_sid /\ core'.subscriptions = core.subscriptions
  /\ UNCHANGED << granted, received, raised >>

\* A PONG that a barrier waits for is not read, and none arrives, nor a message.
Hears ==
  \/ s2c' = s2c
  \/ /\ s2c # <<>> /\ s2c' = Tail(s2c)
     /\ Head(s2c).op # "PONG" \/ core.pending_pings = <<>>
  \/ \E o \in ServerOps : o.op \notin {"MSG", "PONG"} /\ s2c' = Append(s2c, o)

\* Nothing is said or learnt of a subscription on an open transport.
Quiet ==
  /\ Live(core.phase) /\ core'.phase = core.phase /\ KeepsSids
  /\ core'.draining = core.draining /\ UNCHANGED << up, server >>
  /\ \/ core'.pending_pings = core.pending_pings
     \/ \E o \in Origins : /\ o.kind # "Subscription_drain" /\ o.kind # "Drain"
                           /\ core'.pending_pings = Append(core.pending_pings, o)
  /\ Hears
  /\ \E out \in Seq(ClientOps) :
       /\ c2s' = c2s \o out
       /\ \A i \in DOMAIN out : out[i].op \notin {"SUB", "UNSUB"}
  /\ \A sid \in DOMAIN core.subscriptions : InFlight(s2c', sid) = InFlight(s2c, sid)

\* The core is not, or no longer, connected.
Dark ==
  /\ ~Live(core'.phase) /\ KeepsSids
  /\ core'.draining \subseteq core.draining
  /\ \/ core'.pending_pings = core.pending_pings
     \/ core'.pending_pings = <<>>
     \/ \E o \in Origins : /\ o.kind # "Subscription_drain"
                           /\ core'.pending_pings = Append(core.pending_pings, o)

\* A PONG settles the oldest barrier, or a message is delivered.
Settles == ReadsPong /\ core.pending_pings # <<>> /\ s2c # <<>> /\ s2c' = Tail(s2c)
             /\ UNCHANGED << up, server, granted, raised >>

Delivers ==
  LET sid == Head(s2c).sid
  IN  /\ Live(core.phase) /\ s2c # <<>> /\ s2c' = Tail(s2c)
      /\ Head(s2c).op = "MSG" /\ sid \in 1..MaxSid /\ sid \in DOMAIN core.subscriptions
      /\ Moves(core.phase, core.next_sid, Delivered(core.subscriptions, sid),
               core.draining, core.pending_pings, core.pending_liveness, <<>>)
      /\ received' = [received EXCEPT ![sid] = @ + 1]
      /\ UNCHANGED << up, server, granted, raised >>

SubscriptionSteps ==
  \/ Quiet \/ Dark \/ Connect \/ Drain \/ Settles \/ Delivers
  \/ \E s \in Subjects : Subscribe(s)
  \/ \E sid \in 1..MaxSid : Unsubscribe(sid) \/ DrainSubscription(sid)
  \/ \E sid \in 1..MaxSid, n \in Quotas : AutoUnsubscribe(sid, n)
  \/ Live(core.phase) /\ ServerHandle
  \/ Live(core.phase) /\ \E sid \in 1..MaxSid : ServerSend(sid)

\* A step of the server while the core is not connected.
LEMMA DarkServer ==
  ASSUME ServerFrame, ~Live(core.phase) PROVE Dark
BY DEF ServerFrame, Dark, KeepsSids

\* Messages in flight to a sid when another operation arrives or is read.
LEMMA FlightKept ==
  ASSUME NEW s \in Seq(ServerOps), NEW sid
  PROVE  /\ \A o \in ServerOps : ~(o.op = "MSG" /\ o.sid = sid)
              => InFlight(Append(s, o), sid) = InFlight(s, sid)
         /\ s # <<>> /\ ~(Head(s).op = "MSG" /\ Head(s).sid = sid)
              => InFlight(Tail(s), sid) = InFlight(s, sid)
<1>1. s \in Seq(AllOps) /\ InFlight(s, sid) \in Nat
  BY OpsInAll, CountNat
<1>2. ASSUME NEW o \in ServerOps, ~(o.op = "MSG" /\ o.sid = sid)
      PROVE  InFlight(Append(s, o), sid) = InFlight(s, sid)
  <2>1. o \in AllOps
    BY DEF AllOps
  <2>2. InFlight(Append(s, o), sid)
          = InFlight(s, sid) + IF o.op = "MSG" /\ o.sid = sid THEN 1 ELSE 0
    BY <1>1, <2>1, CountAppended, Zenon
  <2> QED BY <1>1, <1>2, <2>2
<1>3. ASSUME s # <<>>, ~(Head(s).op = "MSG" /\ Head(s).sid = sid)
      PROVE  InFlight(Tail(s), sid) = InFlight(s, sid)
  <2>1. Tail(s) \in Seq(AllOps)
    <3> HIDE DEF AllOps
    <3> QED BY <1>1, <1>3
  <2>2. InFlight(Tail(s), sid) \in Nat
    BY <2>1, CountNat
  <2>3. InFlight(s, sid) = InFlight(Tail(s), sid)
                             + IF Head(s).op = "MSG" /\ Head(s).sid = sid THEN 1 ELSE 0
    BY <1>1, <1>3, CountRead, Zenon
  <2> QED BY <1>3, <2>2, <2>3
<1> QED BY <1>2, <1>3

LEMMA NamesNoSid ==
  ASSUME NEW o \in ClientOps, o.op \notin {"SUB", "UNSUB"}
  PROVE  << o >> \in Seq(ClientOps)
         /\ \A i \in DOMAIN << o >> : << o >>[i].op \notin {"SUB", "UNSUB"}
<1> HIDE DEF ClientOps
<1> QED OBVIOUS

LEMMA ReadSteps ==
  ASSUME Inv, WireInv, Read PROVE SubscriptionSteps
<1>1. /\ up /\ s2c # <<>> /\ s2c' = Tail(s2c) /\ core.phase # "Closed"
      /\ UNCHANGED << up, server, granted, raised >>
      /\ ReadsInfo \/ ReadsPing \/ ReadsNotice \/ ReadsPong \/ ReadsMessage
  BY ReadMoves
<1>2. s2c \in Seq(ServerOps) /\ core.phase \in Phases
  BY CoreParts
<1>3. <<>> \in Seq(ClientOps) /\ \A i \in DOMAIN <<>> : <<>>[i].op \notin {"SUB", "UNSUB"}
  BY NoOps
<1>4. << Pong >> \in Seq(ClientOps) /\ \A i \in DOMAIN << Pong >> : << Pong >>[i].op \notin {"SUB", "UNSUB"}
  BY WrittenOps, NamesNoSid
<1>5. Head(s2c).op # "MSG" => \A sid : InFlight(s2c', sid) = InFlight(s2c, sid)
  <2> HIDE DEF ServerOps
  <2> QED BY <1>1, <1>2, FlightKept
\* Nothing moves but what is written.
<1>6. ASSUME NEW out, out \in {<<>>, << Pong >>}, Live(core.phase), KeepsCore(out),
             Head(s2c).op # "PONG",
             \A sid \in DOMAIN core.subscriptions : InFlight(s2c', sid) = InFlight(s2c, sid)
      PROVE  Quiet
  <2>1. out \in Seq(ClientOps) /\ \A i \in DOMAIN out : out[i].op \notin {"SUB", "UNSUB"}
    BY <1>3, <1>4, <1>6
  <2>2. KeepsSids
    BY <1>1, <1>6 DEF KeepsCore, KeepsSids, Moves, Is
  <2>3. Hears
    BY <1>1, <1>6 DEF Hears
  <2> HIDE DEF ClientOps
  <2> QED BY <1>1, <1>6, <2>1, <2>2, <2>3 DEF Quiet, KeepsCore, Moves, Is
<1>7. CASE ~Live(core.phase)
  <2>1. ReadsInfo \/ ReadsPing
    BY <1>1, <1>7 DEF ReadsNotice, ReadsPong, ReadsMessage
  <2>2. ~Live(core'.phase) /\ KeepsSids /\ core'.draining = core.draining
        /\ core'.pending_pings = core.pending_pings
    <3>1. CASE ReadsInfo
      BY <1>1, <1>7, <3>1 DEF ReadsInfo, KeepsSids, Moves, Is, Live
    <3>2. CASE ReadsPing
      BY <1>1, <1>7, <3>2 DEF ReadsPing, KeepsCore, KeepsSids, Moves, Is
    <3> QED BY <2>1, <3>1, <3>2
  <2> QED BY <2>2 DEF Dark, SubscriptionSteps
<1>8. CASE Live(core.phase)
  <2>1. CASE ReadsInfo
    <3>1. KeepsCore(<<>>) /\ Head(s2c).op # "MSG" /\ Head(s2c).op # "PONG"
      BY <1>8, <2>1 DEF ReadsInfo, KeepsCore, Live
    <3>2. Quiet
      BY <1>5, <1>6, <1>8, <3>1
    <3> QED BY <3>2 DEF SubscriptionSteps
  <2>2. CASE ReadsPing
    <3>1. KeepsCore(<< Pong >>) /\ Head(s2c).op # "MSG" /\ Head(s2c).op # "PONG"
      BY <2>2 DEF ReadsPing
    <3>2. Quiet
      BY <1>5, <1>6, <1>8, <3>1
    <3> QED BY <3>2 DEF SubscriptionSteps
  <2>3. CASE ReadsNotice
    <3>1. KeepsCore(<<>>) /\ Head(s2c).op # "MSG" /\ Head(s2c).op # "PONG"
      BY <2>3 DEF ReadsNotice
    <3>2. Quiet
      BY <1>5, <1>6, <1>8, <3>1
    <3> QED BY <3>2 DEF SubscriptionSteps
  <2>4. CASE ReadsPong
    <3>1. CASE core.pending_pings # <<>>
      BY <1>1, <2>4, <3>1 DEF Settles, SubscriptionSteps
    <3>2. CASE core.pending_pings = <<>>
      <4>1. /\ Head(s2c).op # "MSG" /\ UNCHANGED received /\ c2s' = c2s \o <<>>
            /\ core'.phase = core.phase /\ core'.next_sid = core.next_sid
            /\ core'.subscriptions = core.subscriptions /\ core'.draining = core.draining
            /\ core'.pending_pings = core.pending_pings
        BY <2>4, <3>2 DEF ReadsPong, Moves, Is
      <4>2. KeepsSids
        BY <1>1, <4>1 DEF KeepsSids
      <4>3. Hears
        BY <1>1, <3>2 DEF Hears
      <4>4. Quiet
        BY <1>1, <1>3, <1>5, <1>8, <4>1, <4>2, <4>3 DEF Quiet
      <4> QED BY <4>4 DEF SubscriptionSteps
    <3> QED BY <3>1, <3>2
  <2>5. CASE ReadsMessage
    <3> DEFINE sid == Head(s2c).sid
    <3>1. CASE sid \notin DOMAIN core.subscriptions
      <4>1. KeepsCore(<<>>) /\ Head(s2c).op # "PONG"
        BY <2>5, <3>1 DEF ReadsMessage
      <4>2. \A x \in DOMAIN core.subscriptions : InFlight(s2c', x) = InFlight(s2c, x)
        <5> HIDE DEF ServerOps
        <5> QED BY <1>1, <1>2, <3>1, FlightKept
      <4>3. Quiet
        BY <1>6, <1>8, <4>1, <4>2
      <4> QED BY <4>3 DEF SubscriptionSteps
    <3>2. CASE sid \in DOMAIN core.subscriptions
      BY <1>1, <1>8, <2>5, <3>2 DEF ReadsMessage, Delivers, SubscriptionSteps
    <3> QED BY <3>1, <3>2
  <2> QED BY <1>1, <2>1, <2>2, <2>3, <2>4, <2>5
<1> QED BY <1>7, <1>8

\* One more barrier that is no subscription's, with its PING or without.
LEMMA PingSteps ==
  ASSUME Inv, WireInv, NEW o \in Origins, o.kind # "Subscription_drain", o.kind # "Drain",
         NEW l, NEW out, out \in {<<>>, << Ping >>},
         Moves(core.phase, core.next_sid, core.subscriptions, core.draining,
               Append(core.pending_pings, o), l, out),
         UNCHANGED << up, s2c, server, granted, received, raised >>
  PROVE  Quiet \/ Dark
<1>1. out \in Seq(ClientOps) /\ \A i \in DOMAIN out : out[i].op \notin {"SUB", "UNSUB"}
  <2>1. << Ping >> \in Seq(ClientOps) /\ \A i \in DOMAIN << Ping >> : << Ping >>[i].op \notin {"SUB", "UNSUB"}
    BY WrittenOps, NamesNoSid
  <2>2. CASE out = <<>>
    BY <2>2, NoOps
  <2>3. CASE out = << Ping >>
    BY <2>1, <2>3
  <2> QED BY <2>2, <2>3
<1>2. /\ core'.phase = core.phase /\ KeepsSids /\ core'.draining = core.draining
      /\ core'.pending_pings = Append(core.pending_pings, o)
      /\ c2s' = c2s \o out
  BY DEF Moves, Is, KeepsSids
<1>3. \A sid \in DOMAIN core.subscriptions : InFlight(s2c', sid) = InFlight(s2c, sid)
  OBVIOUS
<1>4. CASE Live(core.phase)
  <2> HIDE DEF ClientOps
  <2> QED BY <1>1, <1>2, <1>3, <1>4 DEF Quiet, Hears
<1>5. CASE ~Live(core.phase)
  BY <1>2, <1>5 DEF Dark
<1> QED BY <1>4, <1>5

LEMMA MoveSteps ==
  ASSUME Inv, WireInv, Next PROVE SubscriptionSteps
<1>1. CASE Connect
  BY <1>1 DEF SubscriptionSteps
<1>2. ASSUME Closes PROVE SubscriptionSteps
  BY <1>2 DEF Closes, Is, Dark, KeepsSids, Live, SubscriptionSteps
<1>2a. ASSUME GiveUp(closed_transition(core)) PROVE SubscriptionSteps
  BY <1>2, <1>2a, GiveUpCloses
<1>2b. CASE ConnectRefused
  <2>1. outgoing_close(core) = closed_transition(core)
    BY <1>2b DEF ConnectRefused, outgoing_close
  <2> QED BY <1>2a, <1>2b, <2>1 DEF ConnectRefused
<1>3. ASSUME NEW m \in Messages, Publish(m) PROVE SubscriptionSteps
  <2> DEFINE out == << Pub(m) >>
  <2>1. core.phase = "Connected" /\ core' = core /\ c2s' = c2s \o out
        /\ UNCHANGED << up, s2c, server, granted, received, raised >>
    BY <1>3, PublishMoves DEF Publish, CallerFrame
  <2>2. out \in Seq(ClientOps) /\ \A i \in DOMAIN out : out[i].op \notin {"SUB", "UNSUB"}
    BY WrittenOps, NamesNoSid
  <2> HIDE DEF out, ClientOps
  <2>3. Quiet
    BY <2>1, <2>2 DEF Quiet, Hears, KeepsSids, Live
  <2> QED BY <2>3 DEF SubscriptionSteps
<1>4. ASSUME NEW s \in Subjects, Subscribe(s) PROVE SubscriptionSteps
  BY <1>4 DEF SubscriptionSteps
<1>5. ASSUME NEW sid \in 1..MaxSid, Unsubscribe(sid) PROVE SubscriptionSteps
  BY <1>5 DEF SubscriptionSteps
<1>6. ASSUME NEW sid \in 1..MaxSid, NEW n \in Quotas, AutoUnsubscribe(sid, n)
      PROVE  SubscriptionSteps
  BY <1>6 DEF SubscriptionSteps
<1>7. ASSUME NEW sid \in 1..MaxSid, DrainSubscription(sid) PROVE SubscriptionSteps
  BY <1>7 DEF SubscriptionSteps
<1>8. CASE Flush
  <2> DEFINE o == Origin("Flush")
  <2>1. o \in Origins /\ o.kind # "Subscription_drain" /\ o.kind # "Drain"
    BY DEF Origin, Origins
  <2>2. PICK out : /\ Moves(core.phase, core.next_sid, core.subscriptions, core.draining,
                            Append(core.pending_pings, o), core.pending_liveness, out)
                   /\ out = <<>> \/ out = << Ping >>
    BY <1>8, FlushMoves
  <2>3. UNCHANGED << up, s2c, server, granted, received, raised >>
    BY <1>8 DEF Flush, CallerFrame
  <2> HIDE DEF o
  <2>4. Quiet \/ Dark
    BY <2>1, <2>2, <2>3, PingSteps
  <2> QED BY <2>4 DEF SubscriptionSteps
<1>9. CASE Drain
  BY <1>9 DEF SubscriptionSteps
<1>10. CASE Close
  <2>1. core.phase # "Closed"
    <3>1. CASE core.phase = "Closed"
      BY <1>10, <3>1, ErrorsAreNotNone DEF Close, outgoing_close, Failure, Errors
    <3> QED BY <3>1
  <2>2. GiveUp(closed_transition(core))
    BY <1>10, <2>1 DEF Close, outgoing_close
  <2> QED BY <1>2a, <2>2
<1>11. CASE Timer
  <2>1. CASE GiveUp(closed_transition(core))
    BY <1>2a, <2>1
  <2>2. CASE /\ Moves("Connected", core.next_sid, core.subscriptions, core.draining,
                      Append(core.pending_pings, Origin("Liveness")),
                      core.pending_liveness + 1, << Ping >>)
             /\ CallerFrame /\ UNCHANGED << held, granted, received, raised >>
    <3> DEFINE o == Origin("Liveness")
               l == core.pending_liveness + 1
               out == << Ping >>
    <3>1. o \in Origins /\ o.kind # "Subscription_drain" /\ o.kind # "Drain"
      BY DEF Origin, Origins
    <3>2. /\ Moves(core.phase, core.next_sid, core.subscriptions, core.draining,
                   Append(core.pending_pings, o), l, out)
          /\ UNCHANGED << up, s2c, server, granted, received, raised >>
          /\ out \in {<<>>, << Ping >>}
      BY <1>11, <2>2, TimerMoves DEF CallerFrame
    <3> HIDE DEF o, l, out
    <3>3. Quiet \/ Dark
      BY <3>1, <3>2, PingSteps
    <3> QED BY <3>3 DEF SubscriptionSteps
  <2> QED BY <1>11, <2>1, <2>2, TimerMoves
<1>12. CASE Read
  BY <1>12, ReadSteps
<1>13. ASSUME NEW i \in Infos, Dial(i) PROVE SubscriptionSteps
  BY <1>13 DEF Dial, Dark, KeepsSids, Live, SubscriptionSteps
<1>14. ASSUME Redials PROVE SubscriptionSteps
  <2>1. Dark
    BY <1>14 DEF Redials, Is, Dark, KeepsSids, Live
  <2> QED BY <2>1 DEF SubscriptionSteps
<1>14a. ASSUME NEW eof \in BOOLEAN, TransportLost(eof) PROVE SubscriptionSteps
  BY <1>14, <1>14a, LossRedials
<1>15. CASE RedialFailed
  BY <1>14, <1>15, FailedRedialRedials
<1>15a. CASE HeldWriteFailed
  BY <1>14, <1>15a, HeldWriteFailedRedials
<1>16. CASE EndOfFile
  <2>1. GiveUp(closed_transition(core))
    BY <1>16 DEF EndOfFile, incoming_eof
  <2> QED BY <1>2a, <2>1
<1>17. CASE ServerHandle
  BY <1>17, DarkServer DEF ServerHandle, SubscriptionSteps
<1>18. ASSUME NEW sid \in 1..MaxSid, ServerSend(sid) PROVE SubscriptionSteps
  BY <1>18, DarkServer DEF ServerSend, SubscriptionSteps
<1>19. ASSUME NEW op \in Notices, ServerNotice(op) PROVE SubscriptionSteps
  <2>1. CASE ~Live(core.phase)
    BY <1>19, <2>1, DarkServer DEF ServerNotice, SubscriptionSteps
  <2>2. CASE Live(core.phase)
    <3>1. s2c' = Append(s2c, op) /\ UNCHANGED << core, up, c2s, server, granted, received, raised >>
      BY <1>19 DEF ServerNotice, ServerFrame
    <3>2. op \in ServerOps /\ op.op \notin {"MSG", "PONG"} /\ s2c \in Seq(ServerOps)
      BY CoreParts DEF ServerOps, Notices
    <3>3. \A sid : InFlight(s2c', sid) = InFlight(s2c, sid)
      <4> HIDE DEF ServerOps
      <4> QED BY <3>1, <3>2, FlightKept
    <3>4. c2s' = c2s \o <<>> /\ c2s \in Seq(ClientOps)
      <4>1. c2s \in Seq(ClientOps)
        BY DEF WireInv, NamedSids
      <4> HIDE DEF ClientOps
      <4> QED BY <3>1, <4>1
    <3>5. <<>> \in Seq(ClientOps) /\ \A i \in DOMAIN <<>> : <<>>[i].op \notin {"SUB", "UNSUB"}
      BY NoOps
    <3>6. Hears
      BY <3>1, <3>2 DEF Hears
    <3>7. Quiet
      BY <2>2, <3>1, <3>3, <3>4, <3>5, <3>6 DEF Quiet, KeepsSids
    <3> QED BY <3>7 DEF SubscriptionSteps
  <2> QED BY <2>1, <2>2
<1> QED
  BY <1>1, <1>2b, <1>3, <1>4, <1>5, <1>6, <1>7, <1>8, <1>9, <1>10, <1>11, <1>12,
     <1>13, <1>14a, <1>15, <1>15a, <1>16, <1>17, <1>18, <1>19 DEF Next

-----------------------------------------------------------------------------
(* Quotas.                                                                 *)

\* What the core has delivered, what it has left and what was granted agree.
QuotaOf(sid) ==
  /\ sid >= core.next_sid => granted[sid] = None /\ received[sid] = 0
  /\ sid \in DOMAIN core.subscriptions =>
       LET sub == core.subscriptions[sid]
       IN  /\ sub.delivered = received[sid]
           /\ granted[sid] = None <=> sub.remaining = None
           /\ granted[sid] # None => received[sid] + sub.remaining = granted[sid]
  /\ granted[sid] # None => received[sid] <= granted[sid]

QuotaInv == \A sid \in 1..MaxSid : QuotaOf(sid)

LEMMA Histories ==
  ASSUME Inv
  PROVE  /\ received \in [1..MaxSid -> Nat] /\ granted \in [1..MaxSid -> Nat \cup {None}]
         /\ MaxSid \in Nat /\ None \notin Int
BY Bounds, NoneAssumption DEF Inv, Env

LEMMA InitQuota == ASSUME Init PROVE QuotaInv
<1>1. /\ core.next_sid = 1 /\ DOMAIN core.subscriptions = {}
      /\ \A sid \in 1..MaxSid : granted[sid] = None /\ received[sid] = 0
  BY DEF Init, v, Zero
<1> QED BY <1>1 DEF QuotaInv, QuotaOf

\* A sid nothing happened to.
LEMMA QuotaKept ==
  ASSUME Inv, NEW sid \in 1..MaxSid, QuotaOf(sid), core'.next_sid >= core.next_sid,
         core'.next_sid \in Nat,
         granted'[sid] = granted[sid], received'[sid] = received[sid],
         sid \in DOMAIN core'.subscriptions =>
           /\ sid \in DOMAIN core.subscriptions
           /\ core'.subscriptions[sid] = core.subscriptions[sid]
  PROVE  QuotaOf(sid)'
<1>1. core.next_sid \in Nat /\ MaxSid \in Nat
  BY CoreParts, Bounds
<1>2. sid >= core'.next_sid => sid >= core.next_sid
  BY <1>1
<1> QED BY <1>2 DEF QuotaOf

LEMMA SubscribeQuota ==
  ASSUME Inv, WireInv, QuotaInv, NEW s \in Subjects, Subscribe(s) PROVE QuotaInv'
<1> DEFINE new == core.next_sid
           fresh == [subject |-> s, remaining |-> None, delivered |-> 0]
           subs == [x \in DOMAIN core.subscriptions \cup {new} |->
                      IF x = new THEN fresh ELSE core.subscriptions[x]]
<1>1. /\ core'.next_sid = new + 1 /\ core'.subscriptions = subs
  BY SubscribeMoves DEF Moves, Is
<1>2. new <= MaxSid /\ granted' = granted /\ received' = received
  BY DEF Subscribe
<1>3. new \in Nat /\ DOMAIN core.subscriptions \subseteq 1..new - 1
  BY CoreParts DEF WireInv, NamedSids, Sids
<1>4. fresh.remaining = None /\ fresh.delivered = 0
  OBVIOUS
<1> HIDE DEF fresh
<1>5. ASSUME NEW sid \in 1..MaxSid PROVE QuotaOf(sid)'
  <2>0. QuotaOf(sid) /\ None \notin Int
    BY Histories DEF QuotaInv
  <2>1. CASE sid # new
    <3>1. sid \in DOMAIN subs => sid \in DOMAIN core.subscriptions /\ subs[sid] = core.subscriptions[sid]
      BY <2>1
    <3>2. core'.next_sid >= core.next_sid /\ core'.next_sid \in Nat
      BY <1>1, <1>3
    <3> HIDE DEF subs, new
    <3> QED BY <1>1, <1>2, <2>0, <3>1, <3>2, QuotaKept
  <2>2. CASE sid = new
    <3>1. granted[sid] = None /\ received[sid] = 0
      <4>1. sid >= core.next_sid
        BY <1>3, <2>2
      <4> QED BY <2>0, <4>1 DEF QuotaOf
    <3>2. ~(sid >= core'.next_sid)
      BY <1>1, <1>3, <2>2
    <3>3. subs[sid] = fresh
      BY <2>2
    <3> HIDE DEF subs, new
    <3> QED BY <1>1, <1>2, <1>4, <2>0, <3>1, <3>2, <3>3 DEF QuotaOf
  <2> QED BY <2>1, <2>2
<1> QED BY <1>5 DEF QuotaInv

\* Both kinds of unsubscribe: the quota granted is m, or what has been
\* received where that is already as much.
LEMMA UnsubscribeQuota ==
  ASSUME Inv, WireInv, QuotaInv, NEW sid \in 1..MaxSid, NEW m \in Nat \cup {None},
         UnsubscribeMoves(sid, m), received' = received,
         granted' = [granted EXCEPT ![sid] = IF m # None /\ m > received[sid]
                                             THEN m ELSE received[sid]]
  PROVE  QuotaInv'
<1> DEFINE sub == core.subscriptions[sid]
           ends == m = None \/ sub.delivered >= m
           subs == IF ends THEN remove_subscription(sid, core.subscriptions)
                   ELSE [core.subscriptions EXCEPT ![sid].remaining = m - sub.delivered]
<1>1. /\ sid \in DOMAIN core.subscriptions /\ core'.next_sid = core.next_sid
      /\ core'.subscriptions = subs
  BY DEF UnsubscribeMoves, Moves, Is
<1>2. /\ sub \in Subscription /\ sub.delivered \in Nat /\ core.next_sid \in Nat
      /\ sid < core.next_sid
  BY <1>1, CoreParts DEF Subscription, WireInv, NamedSids, Sids
<1>3. received \in [1..MaxSid -> Nat] /\ granted \in [1..MaxSid -> Nat \cup {None}] /\ None \notin Int
  BY Histories
<1>4. received[sid] \in Nat /\ sub.delivered = received[sid]
  BY <1>1, <1>3 DEF QuotaInv, QuotaOf
<1>5. ASSUME NEW x \in 1..MaxSid PROVE QuotaOf(x)'
  <2>1. CASE x # sid
    <3>1. x \in DOMAIN subs => x \in DOMAIN core.subscriptions /\ subs[x] = core.subscriptions[x]
      <4> HIDE DEF sub, ends
      <4> QED BY <2>1 DEF remove_subscription
    <3>2. QuotaOf(x) /\ granted'[x] = granted[x] /\ received'[x] = received[x]
          /\ core'.next_sid >= core.next_sid
      BY <1>1, <1>2, <1>3, <2>1 DEF QuotaInv
    <3> HIDE DEF subs
    <3> QED BY <1>1, <1>2, <3>1, <3>2, QuotaKept
  <2>2. CASE x = sid
    <3>1. ~(x >= core'.next_sid)
      BY <1>1, <1>2, <2>2
    <3>2. CASE ends
      <4>1. x \notin DOMAIN core'.subscriptions
        BY <1>1, <2>2, <3>2 DEF remove_subscription
      <4>2. granted'[x] = received[x] /\ received'[x] = received[x]
        <5>1. ~(m # None /\ m > received[sid])
          <6>1. CASE m = None
            BY <6>1
          <6>2. CASE m # None
            <7>1. m \in Nat /\ sub.delivered >= m
              BY <3>2, <6>2
            <7> HIDE DEF sub
            <7> QED BY <1>4, <7>1
          <6> QED BY <6>1, <6>2
        <5> QED BY <1>3, <2>2, <5>1
      <4> QED BY <1>4, <2>2, <3>1, <4>1, <4>2 DEF QuotaOf
    <3>3. CASE ~ends
      <4>1. m \in Nat /\ m # None /\ m > received[sid]
        <5>1. m \in Nat /\ ~(sub.delivered >= m)
          BY <3>3
        <5> HIDE DEF sub
        <5> QED BY <1>3, <1>4, <5>1
      <4>2. granted'[x] = m /\ received'[x] = received[x]
        BY <1>3, <2>2, <4>1
      <4>3. subs[x].delivered = received[x] /\ subs[x].remaining = m - received[x]
        <5> DEFINE r == m - sub.delivered
                   new == [sub EXCEPT !.remaining = r]
        <5>1. subs = [core.subscriptions EXCEPT ![sid] = new]
          BY <3>3
        <5>2. subs[x] = new
          <6> HIDE DEF new, subs
          <6> QED BY <1>1, <2>2, <5>1
        <5> HIDE DEF r, sub, subs
        <5>3. new.delivered = sub.delivered /\ new.remaining = r
          BY <1>2 DEF Subscription
        <5> HIDE DEF new
        <5> QED BY <1>4, <2>2, <5>2, <5>3 DEF r
      <4>4. m - received[x] # None /\ received[x] + (m - received[x]) = m /\ received[x] <= m
        <5> HIDE DEF sub
        <5>1. m - received[x] \in Int
          BY <1>4, <2>2, <4>1
        <5> QED BY <1>3, <1>4, <2>2, <4>1, <5>1
      <4> HIDE DEF subs, ends, sub
      <4> QED BY <1>1, <3>1, <4>1, <4>2, <4>3, <4>4 DEF QuotaOf
    <3> QED BY <3>2, <3>3
  <2> QED BY <2>1, <2>2
<1> QED BY <1>5 DEF QuotaInv

\* No quota is set and nothing is received: subscriptions stay or go.
LEMMA RestrictedQuota ==
  ASSUME Inv, QuotaInv, core'.next_sid = core.next_sid,
         UNCHANGED << granted, received >>,
         \A sid \in DOMAIN core'.subscriptions :
           /\ sid \in DOMAIN core.subscriptions
           /\ core'.subscriptions[sid] = core.subscriptions[sid]
  PROVE  QuotaInv'
<1>1. core.next_sid \in Nat /\ core'.next_sid >= core.next_sid
  BY CoreParts
<1>2. ASSUME NEW sid \in 1..MaxSid PROVE QuotaOf(sid)'
  BY <1>1, <1>2, QuotaKept DEF QuotaInv
<1> QED BY <1>2 DEF QuotaInv

LEMMA DeliverQuota ==
  ASSUME Inv, WireInv, QuotaInv, Delivers PROVE QuotaInv'
<1>0. PICK sid : sid = Head(s2c).sid
  OBVIOUS
<1> DEFINE sub == core.subscriptions[sid]
           subs == Delivered(core.subscriptions, sid)
<1>1. /\ sid \in 1..MaxSid /\ sid \in DOMAIN core.subscriptions
      /\ core'.next_sid = core.next_sid /\ core'.subscriptions = subs
      /\ granted' = granted /\ received' = [received EXCEPT ![sid] = @ + 1]
  BY <1>0 DEF Delivers, Moves, Is
<1>2. /\ sub \in [subject : Subjects, remaining : Nat \cup {None}, delivered : Nat]
      /\ core.next_sid \in Nat /\ sid < core.next_sid
      /\ sub.remaining = None \/ sub.remaining >= 1
  BY <1>1, CoreParts DEF Subscription, Inv, Good, Consistent
<1>3. /\ received \in [1..MaxSid -> Nat] /\ granted \in [1..MaxSid -> Nat \cup {None}]
      /\ None \notin Int
  BY Histories
<1>4. received'[sid] = received[sid] + 1 /\ received[sid] \in Nat /\ QuotaOf(sid)
  BY <1>1, <1>3 DEF QuotaInv
<1>5. /\ sub.delivered = received[sid] /\ (granted[sid] = None <=> sub.remaining = None)
      /\ granted[sid] # None => received[sid] + sub.remaining = granted[sid]
  BY <1>1, <1>4 DEF QuotaOf
<1>6. ~(sid >= core'.next_sid)
  BY <1>1, <1>2
<1>7. QuotaOf(sid)'
  <2>0. core'.subscriptions = subs /\ granted'[sid] = granted[sid]
    BY <1>1
  <2> HIDE DEF sub
  <2>1. CASE sub.remaining = None
    <3> DEFINE d == sub.delivered + 1
               new == [sub EXCEPT !.delivered = d]
    <3>1. subs = [core.subscriptions EXCEPT ![sid] = new]
      BY <2>1 DEF Delivered, sub
    <3>2. subs[sid] = new
      <4> HIDE DEF new, subs
      <4> QED BY <1>1, <3>1
    <3> HIDE DEF subs, d
    <3>3. new.delivered = d /\ new.remaining = None
      BY <1>2, <2>1
    <3> HIDE DEF new
    <3>4. d = received'[sid]
      BY <1>4, <1>5 DEF d
    <3> QED BY <1>5, <1>6, <2>0, <2>1, <3>2, <3>3, <3>4 DEF QuotaOf
  <2>2. CASE sub.remaining # None
    <3>0. /\ sub.remaining \in Nat /\ sub.remaining >= 1 /\ granted[sid] # None
          /\ granted[sid] = received[sid] + sub.remaining
      BY <1>2, <1>5, <2>2
    <3>1. CASE sub.remaining = 1
      <4>1. sid \notin DOMAIN subs
        BY <2>2, <3>1 DEF Delivered, remove_subscription, sub
      <4>2. received'[sid] = granted[sid]
        BY <1>4, <3>0, <3>1
      <4>3. received'[sid] <= granted'[sid]
        BY <1>1, <1>4, <4>2
      <4> HIDE DEF subs
      <4> QED BY <1>6, <2>0, <4>1, <4>3 DEF QuotaOf
    <3>2. CASE sub.remaining # 1
      <4> DEFINE r == sub.remaining - 1
                 d == sub.delivered + 1
                 new == [subject |-> sub.subject, remaining |-> r, delivered |-> d]
      <4>1. subs = [core.subscriptions EXCEPT ![sid] = new]
        BY <2>2, <3>2 DEF Delivered, sub
      <4>2. subs[sid] = new
        <5> HIDE DEF new, subs
        <5> QED BY <1>1, <4>1
      <4>3. new.delivered = d /\ new.remaining = r
        <5> HIDE DEF r, d
        <5> QED OBVIOUS
      <4>4. d = received'[sid] /\ r \in Nat /\ r # None /\ received'[sid] + r = granted[sid]
            /\ received'[sid] <= granted[sid]
        <5>1. r \in Nat /\ sub.remaining = r + 1
          BY <3>0
        <5>2. r # None
          BY <1>3, <5>1
        <5>3. sub.delivered = received[sid] /\ received'[sid] = received[sid] + 1
          BY <1>4, <1>5
        <5>4. d = received'[sid]
          BY <5>3
        <5> HIDE DEF r
        <5>5. received'[sid] + r = granted[sid] /\ received'[sid] <= granted[sid]
          BY <1>4, <3>0, <5>1, <5>3
        <5> QED BY <5>1, <5>2, <5>4, <5>5
      <4> HIDE DEF subs, r, d, new
      <4> QED BY <1>6, <2>0, <3>0, <4>2, <4>3, <4>4 DEF QuotaOf
    <3> QED BY <3>1, <3>2
  <2> QED BY <2>1, <2>2
<1>8. ASSUME NEW x \in 1..MaxSid, x # sid PROVE QuotaOf(x)'
  <2>1. x \in DOMAIN subs => x \in DOMAIN core.subscriptions /\ subs[x] = core.subscriptions[x]
    <3> HIDE DEF sub
    <3> QED BY <1>8 DEF Delivered, remove_subscription
  <2>2. received'[x] = received[x] /\ granted'[x] = granted[x]
    BY <1>1, <1>3, <1>8
  <2>3. QuotaOf(x) /\ core'.next_sid \in Nat /\ core'.next_sid >= core.next_sid
    BY <1>1, <1>2 DEF QuotaInv
  <2>4. core'.subscriptions = subs
    BY <1>1
  <2> HIDE DEF subs
  <2> QED BY <2>1, <2>2, <2>3, <2>4, QuotaKept
<1> QED BY <1>7, <1>8 DEF QuotaInv

LEMMA NextQuota ==
  ASSUME Inv, WireInv, QuotaInv, [Next]_vars PROVE QuotaInv'
<1>1. CASE KeepsSids
  BY <1>1, RestrictedQuota DEF KeepsSids
<1>2. CASE SubscriptionSteps
  <2>1. CASE Quiet \/ Dark
    BY <1>1, <2>1 DEF Quiet, Dark
  <2>2. CASE Connect
    BY <1>1, <2>2, ConnectMoves DEF Connect, KeepsSids, Moves, Is
  <2>3. CASE Drain
    BY <1>1, <2>3, DrainMoves DEF Drain, KeepsSids, Moves, Is
  <2>4. CASE Settles
    <3>1. core'.next_sid = core.next_sid /\ UNCHANGED << granted, received >>
      BY <2>4 DEF Settles, ReadsPong, Moves, Is
    <3>2. \/ core'.subscriptions = <<>> \/ core'.subscriptions = core.subscriptions
          \/ \E sid : core'.subscriptions = remove_subscription(sid, core.subscriptions)
      BY <2>4 DEF Settles, ReadsPong, Moves, Is
    <3>3. \A sid \in DOMAIN core'.subscriptions :
            /\ sid \in DOMAIN core.subscriptions
            /\ core'.subscriptions[sid] = core.subscriptions[sid]
      <4>1. DOMAIN <<>> = {}
        OBVIOUS
      <4> QED BY <3>2, <4>1 DEF remove_subscription
    <3> QED BY <3>1, <3>3, RestrictedQuota
  <2>5. CASE Delivers
    BY <2>5, DeliverQuota
  <2>6. ASSUME NEW s \in Subjects, Subscribe(s) PROVE QuotaInv'
    BY <2>6, SubscribeQuota
  <2>7. ASSUME NEW sid \in 1..MaxSid, Unsubscribe(sid) PROVE QuotaInv'
    <3> DEFINE m == None
    <3>1. /\ Apply(outgoing_unsubscribe(core, sid, m)) /\ received' = received
          /\ m \in Nat \cup {None}
          /\ granted' = [granted EXCEPT ![sid] = IF m # None /\ m > received[sid]
                                                 THEN m ELSE received[sid]]
      BY <2>7 DEF Unsubscribe
    <3> HIDE DEF m
    <3>2. UnsubscribeMoves(sid, m)
      BY <3>1, OutgoingUnsubscribeMoves
    <3> QED BY <3>1, <3>2, UnsubscribeQuota
  <2>8. ASSUME NEW sid \in 1..MaxSid, DrainSubscription(sid) PROVE QuotaInv'
    BY <1>1, <2>8, DrainSubscriptionMoves DEF DrainSubscription, KeepsSids, Moves, Is
  <2>9. ASSUME NEW sid \in 1..MaxSid, NEW n \in Quotas, AutoUnsubscribe(sid, n) PROVE QuotaInv'
    <3>0. n \in Int
      BY BoundsAssumption
    <3>1. n > 0 /\ UnsubscribeMoves(sid, n)
      BY <2>9, <3>0, AutoUnsubscribeMoves
    <3>2. n \in Nat /\ n # None
      BY <3>0, <3>1, NoneAssumption
    <3>3. /\ received' = received
          /\ granted' = [granted EXCEPT ![sid] = IF n # None /\ n > received[sid]
                                                 THEN n ELSE received[sid]]
      BY <2>9, <3>2 DEF AutoUnsubscribe
    <3> QED BY <3>1, <3>2, <3>3, UnsubscribeQuota
  <2>10. ASSUME ServerFrame PROVE QuotaInv'
    BY <1>1, <2>10 DEF ServerFrame, KeepsSids
  <2>11. CASE ServerHandle
    BY <2>10, <2>11 DEF ServerHandle
  <2>12. ASSUME NEW sid \in 1..MaxSid, ServerSend(sid) PROVE QuotaInv'
    BY <2>10, <2>12 DEF ServerSend
  <2> QED
    BY <1>2, <2>1, <2>2, <2>3, <2>4, <2>5, <2>6, <2>7, <2>8, <2>9, <2>11, <2>12
       DEF SubscriptionSteps
<1>3. CASE UNCHANGED vars
  BY <1>1, <1>3 DEF vars, KeepsSids
<1> QED BY <1>2, <1>3, MoveSteps

LEMMA SubscriptionsInv == Spec => [](Inv /\ WireInv /\ QuotaInv)
<1>1. Init => Inv /\ WireInv /\ QuotaInv
  BY InitInv, InitWire, InitQuota
<1>2. Inv /\ WireInv /\ QuotaInv /\ [Next]_vars => (Inv /\ WireInv /\ QuotaInv)'
  BY NextInv, NextWire, NextQuota
<1> QED BY <1>1, <1>2, PTL DEF Spec

\* outgoing_unsubscribe and outgoing_auto_unsubscribe bound what the
\* application receives, in total and over every reconnect: the deliveries
\* already made and the remaining ones the core allows add up to the quota.
THEOREM QuotaNeverExceeded == Spec => []QuotaHonoured
<1>1. QuotaInv => QuotaHonoured
  BY DEF QuotaInv, QuotaOf, QuotaHonoured
<1> QED BY <1>1, SubscriptionsInv, PTL

-----------------------------------------------------------------------------
(* What the server is left with.                                           *)

Unlimited(sid) == sid \in DOMAIN server /\ server[sid].max = None

\* Once the server has handled what is written, sid is limited or gone.
Ended(sid) == EndsWith(c2s, sid) \/ (NoSub(c2s, sid) /\ ~Unlimited(sid))

Waits(pings, sid) == \E i \in DOMAIN pings : pings[i] = SubscriptionDrain(sid)

\* The core has sid without a quota, and is not about to forget it.
Kept(sid) ==
  /\ sid \in DOMAIN core.subscriptions /\ core.subscriptions[sid].remaining = None
  /\ sid \notin core.draining /\ ~Waits(core.pending_pings, sid)

Accounted(sid) ==
  /\ core.phase = "Connected" => Ended(sid) \/ Kept(sid)
  /\ core.phase = "Draining" => Ended(sid)

\* Only subscriptions that were made are drained.
DrainsNamed ==
  /\ core.draining \subseteq Sids(core)
  /\ \A i \in DOMAIN core.pending_pings :
       core.pending_pings[i].kind = "Subscription_drain"
         => core.pending_pings[i].sid \in Sids(core)

AllAccounted == DrainsNamed /\ \A sid \in 1..MaxSid : Accounted(sid)

LEMMA WaitsAfter ==
  ASSUME NEW pings \in Seq(Origins), NEW sid
  PROVE  /\ \A o \in Origins : Waits(Append(pings, o), sid)
                                 => Waits(pings, sid) \/ o = SubscriptionDrain(sid)
         /\ pings # <<>> /\ Waits(Tail(pings), sid) => Waits(pings, sid)
         /\ pings # <<>> /\ Head(pings) = SubscriptionDrain(sid) => Waits(pings, sid)
<1> DEFINE d == SubscriptionDrain(sid)
<1> HIDE DEF d, Origins
<1>1. ASSUME NEW o \in Origins, NEW i \in DOMAIN Append(pings, o), Append(pings, o)[i] = d
      PROVE  (\E j \in DOMAIN pings : pings[j] = d) \/ o = d
  BY <1>1
<1>2. ASSUME pings # <<>>, NEW i \in DOMAIN Tail(pings), Tail(pings)[i] = d
      PROVE  \E j \in DOMAIN pings : pings[j] = d
  <2>1. i + 1 \in DOMAIN pings /\ pings[i + 1] = d
    BY <1>2
  <2> QED BY <2>1
<1>3. pings # <<>> => 1 \in DOMAIN pings /\ Head(pings) = pings[1]
  OBVIOUS
<1> QED BY <1>1, <1>2, <1>3, Zenon DEF Waits, d

LEMMA NamedAfter ==
  ASSUME Inv, DrainsNamed, core'.next_sid \in Nat, core'.next_sid >= core.next_sid,
         core'.draining \subseteq core.draining \cup Sids(core'),
         \/ core'.pending_pings = core.pending_pings
         \/ core'.pending_pings = <<>>
         \/ core.pending_pings # <<>> /\ core'.pending_pings = Tail(core.pending_pings)
         \/ \E o \in Origins : /\ o.kind = "Subscription_drain" => o.sid \in Sids(core')
                               /\ core'.pending_pings = Append(core.pending_pings, o)
  PROVE  DrainsNamed'
<1> DEFINE Known(o) == o.kind = "Subscription_drain" => o.sid \in Sids(core')
           old == core.pending_pings
           new == core'.pending_pings
<1>1. Sids(core) \subseteq Sids(core')
  BY CoreParts DEF Sids
<1>2. old \in Seq(Origins) /\ \A i \in DOMAIN old : Known(old[i])
  BY <1>1, CoreParts DEF DrainsNamed
<1> HIDE DEF Known, Origins, old, new
<1>3. \A i \in DOMAIN new : Known(new[i])
  <2>1. CASE new = old
    BY <1>2, <2>1
  <2>2. CASE new = <<>>
    BY <2>2
  <2>3. CASE old # <<>> /\ new = Tail(old)
    <3>1. \A i \in DOMAIN new : i + 1 \in DOMAIN old /\ new[i] = old[i + 1]
      BY <1>2, <2>3
    <3> QED BY <1>2, <3>1
  <2>4. ASSUME NEW o \in Origins, Known(o), new = Append(old, o)
        PROVE  \A i \in DOMAIN new : Known(new[i])
    <3>1. \A i \in DOMAIN new : (i \in DOMAIN old /\ new[i] = old[i]) \/ new[i] = o
      BY <1>2, <2>4
    <3> QED BY <1>2, <2>4, <3>1
  <2> QED BY <2>1, <2>2, <2>3, <2>4 DEF Known, old, new
<1>4. core'.draining \subseteq Sids(core')
  BY <1>1 DEF DrainsNamed
<1> QED BY <1>3, <1>4 DEF DrainsNamed, Sids, Known, new

\* What is written is the last word, or says nothing of sid.
LEMMA EndedAfter ==
  ASSUME WireInv, NEW sid, NEW out \in Seq(ClientOps), c2s' = c2s \o out, server' = server,
         EndsWith(out, sid) \/ (Ended(sid) /\ NoSub(out, sid))
  PROVE  Ended(sid)'
<1>1. c2s \in Seq(ClientOps)
  BY DEF WireInv, NamedSids
<1> HIDE DEF ClientOps
<1>2. CASE EndsWith(out, sid)
  <2>1. EndsWith(c2s \o out, sid)
    BY <1>1, <1>2, EndsWithConcat
  <2> QED BY <2>1 DEF Ended, EndsWith
<1>3. CASE EndsWith(c2s, sid) /\ NoSub(out, sid)
  <2>1. EndsWith(c2s \o out, sid)
    BY <1>1, <1>3, EndsWithConcat
  <2> QED BY <2>1 DEF Ended, EndsWith
<1>4. CASE NoSub(c2s, sid) /\ ~Unlimited(sid) /\ NoSub(out, sid)
  <2>1. NoSub(c2s \o out, sid)
    BY <1>1, <1>4, NoSubConcat
  <2> QED BY <1>4, <2>1 DEF Ended, NoSub, Unlimited
<1> QED BY <1>2, <1>3, <1>4 DEF Ended

\* Nothing is written.
LEMMA EndedStays ==
  ASSUME NEW sid, Ended(sid), UNCHANGED << c2s, server >> PROVE Ended(sid)'
BY DEF Ended, EndsWith, NoSub, Unlimited

LEMMA KeptAfter ==
  ASSUME Inv, NEW sid, Kept(sid), sid \in DOMAIN core'.subscriptions,
         core'.subscriptions[sid].remaining = core.subscriptions[sid].remaining,
         sid \notin core'.draining \ core.draining,
         \/ core'.pending_pings = core.pending_pings
         \/ core.pending_pings # <<>> /\ core'.pending_pings = Tail(core.pending_pings)
         \/ \E o \in Origins : /\ o # SubscriptionDrain(sid)
                               /\ core'.pending_pings = Append(core.pending_pings, o)
  PROVE  Kept(sid)'
<1>1. core.pending_pings \in Seq(Origins)
  BY CoreParts
<1> DEFINE new == core'.pending_pings
<1> HIDE DEF Origins
<1>2. ~Waits(new, sid)
  BY <1>1, WaitsAfter DEF Kept
<1>3. ~Waits(core.pending_pings, sid)'
  BY <1>2 DEF Waits
<1> QED BY <1>3 DEF Kept

LEMMA InitAccounted == ASSUME Init PROVE AllAccounted
<1>1. core.phase = "Awaiting_info" /\ core.draining = {} /\ core.pending_pings = <<>>
  BY DEF Init, v
<1> QED BY <1>1 DEF AllAccounted, Accounted, DrainsNamed

\* Operations that name no sid, or end one.
LEMMA SaysNothing ==
  ASSUME NEW out, \A i \in DOMAIN out : out[i].op \notin {"SUB", "UNSUB"}
  PROVE  \A sid : NoSub(out, sid)
BY DEF NoSub, IsSub

LEMMA OneWord ==
  ASSUME NEW o \in ClientOps, NEW sid
  PROVE  /\ ~IsSub(o, sid) => NoSub(<< o >>, sid)
         /\ IsUnsub(o, sid) => EndsWith(<< o >>, sid)
<1>1. DOMAIN << o >> = {1} /\ << o >>[1] = o
  <2> HIDE DEF ClientOps
  <2> QED OBVIOUS
<1> HIDE DEF ClientOps
<1>2. IsUnsub(o, sid) => ~IsSub(o, sid)
  BY DEF IsUnsub, IsSub
<1> QED BY <1>1, <1>2 DEF NoSub, EndsWith

LEMMA QuietAccounted ==
  ASSUME Inv, WireInv, AllAccounted, Quiet PROVE AllAccounted'
<1>1. PICK out \in Seq(ClientOps) : c2s' = c2s \o out /\ \A sid : NoSub(out, sid)
  <2> HIDE DEF ClientOps
  <2> QED BY SaysNothing DEF Quiet
<1>2. /\ core'.phase = core.phase /\ core'.next_sid = core.next_sid /\ server' = server
      /\ core'.subscriptions = core.subscriptions /\ core'.draining = core.draining
      /\ \/ core'.pending_pings = core.pending_pings
         \/ \E o \in Origins : /\ o.kind # "Subscription_drain"
                               /\ core'.pending_pings = Append(core.pending_pings, o)
  BY DEF Quiet, KeepsSids
<1>3. DrainsNamed'
  <2>1. core'.next_sid \in Nat /\ core'.next_sid >= core.next_sid
    BY <1>2, CoreParts
  <2> HIDE DEF Origins
  <2> QED BY <1>2, <2>1, NamedAfter DEF AllAccounted
<1>4. ASSUME NEW sid \in 1..MaxSid PROVE Accounted(sid)'
  <2>1. Ended(sid) => Ended(sid)'
    BY <1>1, <1>2, EndedAfter
  <2>2. Kept(sid) => Kept(sid)'
    <3>1. \A o : o.kind # "Subscription_drain" => o # SubscriptionDrain(sid)
      BY DEF SubscriptionDrain
    <3> HIDE DEF Origins
    <3>2. Kept(sid) => sid \in DOMAIN core.subscriptions
      BY DEF Kept
    <3> QED BY <1>2, <3>1, <3>2, KeptAfter
  <2> QED BY <1>2, <2>1, <2>2 DEF AllAccounted, Accounted
<1> QED BY <1>3, <1>4 DEF AllAccounted

LEMMA DarkAccounted ==
  ASSUME Inv, AllAccounted, Dark PROVE AllAccounted'
<1>1. DrainsNamed'
  <2>1. core'.next_sid \in Nat /\ core'.next_sid >= core.next_sid
    BY CoreParts DEF Dark, KeepsSids
  <2> HIDE DEF Origins
  <2> QED BY <2>1, NamedAfter DEF AllAccounted, Dark
<1>2. \A sid \in 1..MaxSid : Accounted(sid)'
  BY DEF Accounted, Dark, Live
<1> QED BY <1>1, <1>2 DEF AllAccounted

LEMMA ConnectAccounted ==
  ASSUME Inv, WireInv, AllAccounted, Connect PROVE AllAccounted'
<1> DEFINE r == Replay(core)
           out == (<< ConnectOp(core) >> \o r) \o held
           subs == core.subscriptions
<1>1. /\ core.phase = "Awaiting_connect" /\ c2s' = c2s \o out /\ server' = server
      /\ core'.phase = "Connected" /\ core'.next_sid = core.next_sid
      /\ core'.subscriptions = subs /\ core'.draining = core.draining
      /\ core'.pending_pings = core.pending_pings
  BY ConnectMoves DEF Connect, Moves, Is
<1>2. /\ held \in Seq({Ping}) /\ DOMAIN server = {} /\ c2s \in Seq(ClientOps)
      /\ \A i \in DOMAIN c2s : c2s[i] = Pong
      /\ core.draining = {}
      /\ \A i \in DOMAIN core.pending_pings : core.pending_pings[i].kind = "Flush"
  BY <1>1 DEF WireInv, NamedSids, Handshaking, Negotiating, Inv, Good, Consistent
<1>3. Good(core) /\ GoodSids(core)
  BY DEF Inv, WireInv, NamedSids, GoodSids
<1>4. /\ r \in Seq(ClientOps)
      /\ \A i \in DOMAIN r : \E s \in DOMAIN subs :
           \/ r[i] = Sub(s, subs[s].subject)
           \/ subs[s].remaining # None /\ r[i] = Unsub(s, subs[s].remaining)
      /\ \A s \in DOMAIN subs : subs[s].remaining # None => EndsWith(r, s)
  BY <1>3, ReplayFacts
<1>5. << ConnectOp(core) >> \in Seq(ClientOps) /\ \A sid : NoSub(<< ConnectOp(core) >>, sid)
  <2>1. ConnectOp(core) \in ClientOps /\ ConnectOp(core).op = "CONNECT"
    <3>1. core.info # None /\ core.info \in Infos \cup {None}
      BY <1>1 DEF Inv, Good, Consistent, CoreType
    <3>2. core.info.headers \in BOOLEAN
      BY <3>1, InfosAssumption
    <3> QED BY <3>2 DEF ConnectOp, ClientOps
  <2>2. << ConnectOp(core) >> \in Seq(ClientOps)
    <3> HIDE DEF ClientOps
    <3> QED BY <2>1
  <2> QED BY <2>1, <2>2, OneWord DEF IsSub
<1>6. held \in Seq(ClientOps) /\ \A sid : NoSub(held, sid)
  <2>1. \A i \in DOMAIN held : held[i] = Ping
    <3> HIDE DEF Ping
    <3> QED BY <1>2
  <2>2. \A i \in DOMAIN held : held[i].op \notin {"SUB", "UNSUB"}
    BY <2>1, WrittenOps
  <2> QED BY <1>2, <2>2, HeldOps, SaysNothing
<1> HIDE DEF r, ClientOps
<1>7. out \in Seq(ClientOps) /\ << ConnectOp(core) >> \o r \in Seq(ClientOps)
  BY <1>4, <1>5, <1>6
<1>8. ASSUME NEW sid, EndsWith(r, sid) PROVE EndsWith(out, sid)
  <2>1. EndsWith(<< ConnectOp(core) >> \o r, sid)
    BY <1>4, <1>5, <1>8, EndsWithConcat
  <2> QED BY <1>6, <1>7, <2>1, EndsWithConcat
<1>9. ASSUME NEW sid, NoSub(r, sid) PROVE NoSub(out, sid)
  <2>1. NoSub(<< ConnectOp(core) >> \o r, sid)
    BY <1>4, <1>5, <1>9, NoSubConcat
  <2> QED BY <1>6, <1>7, <2>1, NoSubConcat
<1>10. ASSUME NEW sid, sid \notin DOMAIN subs PROVE NoSub(r, sid)
  <2>1. \A s \in DOMAIN subs : Sub(s, subs[s].subject).sid = s /\ Unsub(s, subs[s].remaining).sid = s
    BY DEF Sub, Unsub
  <2>2. \A i \in DOMAIN r : r[i].sid \in DOMAIN subs
    BY <1>4, <2>1
  <2> QED BY <1>10, <2>2 DEF NoSub, IsSub
<1> HIDE DEF out, subs
<1>11. DrainsNamed'
  <2>1. core'.next_sid \in Nat /\ core'.next_sid >= core.next_sid
    BY <1>1, CoreParts
  <2> QED BY <1>1, <2>1, NamedAfter DEF AllAccounted
<1>12. ASSUME NEW sid \in 1..MaxSid PROVE Ended(sid)' \/ Kept(sid)'
  <2>1. CASE sid \notin DOMAIN subs
    <3>1. NoSub(c2s, sid) /\ ~Unlimited(sid)
      BY <1>2, WrittenOps DEF NoSub, IsSub, Unlimited
    <3>2. Ended(sid) /\ NoSub(out, sid)
      BY <1>9, <1>10, <2>1, <3>1 DEF Ended
    <3> QED BY <1>1, <1>7, <3>2, EndedAfter
  <2>2. CASE sid \in DOMAIN subs /\ subs[sid].remaining # None
    BY <1>1, <1>4, <1>7, <1>8, <2>2, EndedAfter
  <2>3. CASE sid \in DOMAIN subs /\ subs[sid].remaining = None
    <3>1. SubscriptionDrain(sid).kind # "Flush"
      BY DEF SubscriptionDrain
    <3>2. Kept(sid)
      BY <1>2, <2>3, <3>1 DEF Kept, Waits, subs
    <3> QED BY <1>1, <2>3, <3>2, KeptAfter DEF subs
  <2> QED BY <2>1, <2>2, <2>3
<1> QED BY <1>1, <1>11, <1>12 DEF AllAccounted, Accounted

LEMMA DrainAccounted ==
  ASSUME Inv, WireInv, AllAccounted, Drain PROVE AllAccounted'
<1> DEFINE d == DrainUnsubs(core)
           out == Append(d, Ping)
           o == Origin("Drain")
           sids == DOMAIN core.subscriptions \ core.draining
<1>1. /\ core.phase = "Connected" /\ c2s' = c2s \o out /\ server' = server
      /\ core'.phase = "Draining" /\ core'.next_sid = core.next_sid
      /\ core'.draining = core.draining
      /\ core'.pending_pings = Append(core.pending_pings, o)
  BY DrainMoves DEF Drain, CallerFrame, Moves, Is
<1>2. Good(core) /\ GoodSids(core)
  BY DEF Inv, WireInv, NamedSids, GoodSids
<1>3. /\ d \in Seq(ClientOps)
      /\ \A i \in DOMAIN d : \E s \in sids : d[i] = Unsub(s, None)
      /\ \A s \in sids : \E i \in DOMAIN d : d[i] = Unsub(s, None)
  BY <1>2, DrainUnsubsFacts
<1>4. << Ping >> \in Seq(ClientOps) /\ out = d \o << Ping >> /\ out \in Seq(ClientOps)
      /\ \A sid : NoSub(<< Ping >>, sid)
  <2>1. Ping \in ClientOps /\ Ping.op = "PING"
    BY WrittenOps
  <2>2. \A sid : NoSub(<< Ping >>, sid)
    BY <2>1, OneWord DEF IsSub
  <2> HIDE DEF d, Ping, ClientOps
  <2> QED BY <1>3, <2>1, <2>2
<1>5. \A s : Unsub(s, None).op = "UNSUB" /\ Unsub(s, None).sid = s
  BY DEF Unsub
<1> HIDE DEF d, ClientOps
<1>6. \A sid : NoSub(d, sid)
  BY <1>3, <1>5 DEF NoSub, IsSub
<1> DEFINE p == << Ping >>
<1> HIDE DEF out, p
<1>7. ASSUME NEW sid PROVE NoSub(out, sid)
  <2>1. NoSub(d, sid) /\ NoSub(p, sid) /\ p \in Seq(ClientOps)
    BY <1>4, <1>6 DEF p
  <2>2. NoSub(d \o p, sid)
    BY <1>3, <2>1, NoSubConcat
  <2> QED BY <1>4, <2>2 DEF p
<1>8. ASSUME NEW sid \in sids PROVE EndsWith(out, sid)
  <2>1. EndsWith(d, sid)
    BY <1>3, <1>5, <1>6 DEF EndsWith, NoSub, IsUnsub
  <2>2. NoSub(p, sid) /\ p \in Seq(ClientOps)
    BY <1>4 DEF p
  <2>3. EndsWith(d \o p, sid)
    BY <1>3, <2>1, <2>2, EndsWithConcat
  <2> QED BY <1>4, <2>3 DEF p
<1> HIDE DEF o
<1>9. DrainsNamed'
  <2>1. core'.next_sid \in Nat /\ core'.next_sid >= core.next_sid
    BY <1>1, CoreParts
  <2>2. o \in Origins /\ o.kind # "Subscription_drain"
    BY DEF o, Origin, Origins
  <2> HIDE DEF Origins
  <2> QED BY <1>1, <2>1, <2>2, NamedAfter DEF AllAccounted
<1>10. ASSUME NEW sid \in 1..MaxSid PROVE Ended(sid)'
  <2>1. CASE sid \in sids
    BY <1>1, <1>4, <1>8, <2>1, EndedAfter
  <2>2. CASE sid \notin sids
    <3>1. Ended(sid)
      BY <1>1, <2>2 DEF AllAccounted, Accounted, Kept
    <3> QED BY <1>1, <1>4, <1>7, <3>1, EndedAfter
  <2> QED BY <2>1, <2>2
<1> QED BY <1>1, <1>9, <1>10 DEF AllAccounted, Accounted

\* Reading writes nothing: what is ended stays ended.
LEMMA SettleAccounted ==
  ASSUME Inv, WireInv, AllAccounted, Settles PROVE AllAccounted'
<1> DEFINE o == Head(core.pending_pings)
<1>1. /\ core.pending_pings # <<>> /\ core'.pending_pings = Tail(core.pending_pings)
      /\ core'.phase = core.phase /\ core'.next_sid = core.next_sid
      /\ c2s' = c2s \o <<>> /\ server' = server /\ Live(core.phase)
      /\ core'.draining \subseteq core.draining
      /\ core'.subscriptions = IF o.kind = "Drain" THEN <<>>
                               ELSE IF o.kind = "Subscription_drain"
                               THEN remove_subscription(o.sid, core.subscriptions)
                               ELSE core.subscriptions
  BY DEF Settles, ReadsPong, Moves, Is
<1>2. c2s' = c2s
  <2>1. c2s \in Seq(ClientOps)
    BY DEF WireInv, NamedSids
  <2> HIDE DEF ClientOps
  <2> QED BY <1>1, <2>1
<1>3. DrainsNamed'
  <2>1. core'.next_sid \in Nat /\ core'.next_sid >= core.next_sid
    BY <1>1, CoreParts
  <2> QED BY <1>1, <2>1, NamedAfter DEF AllAccounted
<1>4. o \in Origins /\ o = core.pending_pings[1] /\ 1 \in DOMAIN core.pending_pings
      /\ core.pending_pings \in Seq(Origins)
  <2>1. core.pending_pings \in Seq(Origins)
    BY CoreParts
  <2> HIDE DEF Origins
  <2> QED BY <1>1, <2>1
<1>5. o.kind = "Drain" => core.phase = "Draining"
  BY <1>1, <1>4 DEF Inv, Good, Consistent, Live
<1> HIDE DEF o
<1>6. ASSUME NEW sid \in 1..MaxSid PROVE Accounted(sid)'
  <2>1. Ended(sid) => Ended(sid)'
    BY <1>1, <1>2, EndedStays
  <2>2. ASSUME Kept(sid), core.phase = "Connected" PROVE Kept(sid)'
    <3>1. o # SubscriptionDrain(sid)
      BY <1>1, <1>4, <2>2, WaitsAfter DEF Kept, o
    <3>2. o.kind = "Subscription_drain" => o.sid # sid
      BY <1>4, <3>1 DEF Origins, SubscriptionDrain
    <3>3. sid \in DOMAIN core'.subscriptions
          /\ core'.subscriptions[sid] = core.subscriptions[sid]
      <4>1. CASE o.kind = "Subscription_drain"
        BY <1>1, <2>2, <3>2, <4>1 DEF Kept, remove_subscription
      <4>2. CASE o.kind # "Subscription_drain"
        BY <1>1, <1>5, <2>2, <4>2 DEF Kept
      <4> QED BY <4>1, <4>2
    <3> QED BY <1>1, <2>2, <3>3, KeptAfter
  <2> QED BY <1>1, <2>1, <2>2 DEF AllAccounted, Accounted
<1> QED BY <1>3, <1>6 DEF AllAccounted

LEMMA DeliverAccounted ==
  ASSUME Inv, WireInv, AllAccounted, Delivers PROVE AllAccounted'
<1> DEFINE subs == Delivered(core.subscriptions, Head(s2c).sid)
<1>1. /\ core'.pending_pings = core.pending_pings /\ core'.phase = core.phase
      /\ core'.next_sid = core.next_sid /\ core'.draining = core.draining
      /\ c2s' = c2s \o <<>> /\ server' = server /\ core'.subscriptions = subs
      /\ Head(s2c).sid \in DOMAIN core.subscriptions
  BY DEF Delivers, Moves, Is
<1>2. c2s' = c2s
  <2>1. c2s \in Seq(ClientOps)
    BY DEF WireInv, NamedSids
  <2> HIDE DEF ClientOps
  <2> QED BY <1>1, <2>1
<1>3. DrainsNamed'
  <2>1. core'.next_sid \in Nat /\ core'.next_sid >= core.next_sid
    BY <1>1, CoreParts
  <2> QED BY <1>1, <2>1, NamedAfter DEF AllAccounted
<1>4. ASSUME NEW sid \in 1..MaxSid PROVE Accounted(sid)'
  <2>1. Ended(sid) => Ended(sid)'
    BY <1>1, <1>2, EndedStays
  <2>2. ASSUME Kept(sid) PROVE Kept(sid)'
    <3> DEFINE sub == core.subscriptions[sid]
    <3>1. sid \in DOMAIN core.subscriptions /\ sub.remaining = None /\ sub \in Subscription
      BY <2>2, CoreParts DEF Kept
    <3>2. sid \in DOMAIN subs /\ subs[sid].remaining = None
      <4>1. CASE sid = Head(s2c).sid
        <5> DEFINE d == sub.delivered + 1
                   new == [sub EXCEPT !.delivered = d]
        <5>1. subs = [core.subscriptions EXCEPT ![sid] = new]
          BY <3>1, <4>1 DEF Delivered
        <5>2. sid \in DOMAIN subs /\ subs[sid] = new
          <6> HIDE DEF new, subs
          <6> QED BY <3>1, <5>1
        <5> HIDE DEF sub, d, subs
        <5>3. new.remaining = None
          BY <3>1 DEF Subscription
        <5> QED BY <5>2, <5>3
      <4>2. CASE sid # Head(s2c).sid
        <5>1. sid \in DOMAIN subs /\ subs[sid] = sub
          BY <3>1, <4>2 DEF Delivered, remove_subscription
        <5> HIDE DEF sub, subs
        <5> QED BY <3>1, <5>1
      <4> QED BY <4>1, <4>2
    <3> HIDE DEF subs
    <3> QED BY <1>1, <2>2, <3>1, <3>2, KeptAfter
  <2> QED BY <1>1, <2>1, <2>2 DEF AllAccounted, Accounted
<1> QED BY <1>3, <1>4 DEF AllAccounted

LEMMA SubscribeAccounted ==
  ASSUME Inv, WireInv, AllAccounted, NEW s \in Subjects, Subscribe(s) PROVE AllAccounted'
<1>0. PICK new : new = core.next_sid
  OBVIOUS
<1> DEFINE fresh == [subject |-> s, remaining |-> None, delivered |-> 0]
           subs == [x \in DOMAIN core.subscriptions \cup {new} |->
                      IF x = new THEN fresh ELSE core.subscriptions[x]]
<1>1. PICK out :
        /\ core'.phase = core.phase /\ core'.next_sid = new + 1 /\ core'.subscriptions = subs
        /\ core'.draining = core.draining /\ core'.pending_pings = core.pending_pings
        /\ c2s' = c2s \o out
        /\ Negotiating(core.phase) \/ (core.phase = "Connected" /\ out = << Sub(new, s) >>)
  BY <1>0, SubscribeMoves DEF Moves, Is
<1>2. server' = server
  BY DEF Subscribe, CallerFrame
<1>3. new \in Nat \ {0} /\ new \notin Sids(core)
  BY <1>0 DEF WireInv, NamedSids, Sids
<1>4. fresh.remaining = None
  OBVIOUS
<1> HIDE DEF fresh
<1>5. new \in DOMAIN subs /\ subs[new] = fresh
  OBVIOUS
<1>6. \A x \in DOMAIN core.subscriptions : x # new => x \in DOMAIN subs /\ subs[x] = core.subscriptions[x]
  OBVIOUS
<1> HIDE DEF subs
<1>7. DrainsNamed'
  <2>1. core'.next_sid \in Nat /\ core'.next_sid >= core.next_sid
    BY <1>0, <1>1, <1>3
  <2> QED BY <1>1, <2>1, NamedAfter DEF AllAccounted
<1>8. ASSUME core.phase = "Connected", NEW sid \in 1..MaxSid PROVE Ended(sid)' \/ Kept(sid)'
  <2>1. CASE sid = new
    <3>1. sid \notin core.draining /\ ~Waits(core.pending_pings, sid)
      <4>1. SubscriptionDrain(sid).kind = "Subscription_drain" /\ SubscriptionDrain(sid).sid = sid
        BY DEF SubscriptionDrain
      <4> QED BY <1>3, <2>1, <4>1 DEF AllAccounted, DrainsNamed, Waits
    <3>2. sid \notin core'.draining /\ ~Waits(core.pending_pings, sid)'
      BY <1>1, <3>1 DEF Waits
    <3> QED BY <1>1, <1>4, <1>5, <2>1, <3>2 DEF Kept
  <2>2. CASE sid # new
    <3>1. Sub(new, s) \in ClientOps /\ ~IsSub(Sub(new, s), sid)
      BY <1>3, <2>2 DEF ClientOps, Sub, IsSub
    <3>2. out = << Sub(new, s) >>
      BY <1>1, <1>8 DEF Negotiating
    <3> HIDE DEF ClientOps
    <3>3. out \in Seq(ClientOps) /\ NoSub(out, sid)
      BY <3>1, <3>2, OneWord
    <3>4. Ended(sid) => Ended(sid)'
      BY <1>1, <1>2, <3>3, EndedAfter
    <3>5. ASSUME Kept(sid) PROVE Kept(sid)'
      <4>1. sid \in DOMAIN core.subscriptions
        BY <3>5 DEF Kept
      <4>2. sid \in DOMAIN core'.subscriptions /\ core'.subscriptions[sid] = core.subscriptions[sid]
        BY <1>1, <1>6, <2>2, <4>1
      <4> QED BY <1>1, <3>5, <4>2, KeptAfter
    <3> QED BY <1>8, <3>4, <3>5 DEF AllAccounted, Accounted
  <2> QED BY <2>1, <2>2
<1>9. core.phase # "Draining"
  BY <1>1 DEF Negotiating
<1> QED BY <1>1, <1>7, <1>8, <1>9 DEF AllAccounted, Accounted

\* What ends sid while connected: an UNSUB, with or without a barrier.
LEMMA EndsOne ==
  ASSUME Inv, WireInv, AllAccounted, NEW sid, NEW out \in Seq(ClientOps),
         c2s' = c2s \o out, server' = server, EndsWith(out, sid),
         \A x : x # sid => NoSub(out, x),
         \A x \in DOMAIN core.subscriptions : x # sid =>
           x \in DOMAIN core'.subscriptions /\ core'.subscriptions[x] = core.subscriptions[x],
         \A x : x # sid => x \notin core'.draining \ core.draining,
         \/ core'.pending_pings = core.pending_pings
         \/ core'.pending_pings = Append(core.pending_pings, SubscriptionDrain(sid)),
         SubscriptionDrain(sid) \in Origins,
         core.phase = "Connected", NEW y \in 1..MaxSid
  PROVE  Ended(y)' \/ Kept(y)'
<1> HIDE DEF ClientOps, Origins
<1>1. CASE y = sid
  BY <1>1, EndedAfter
<1>2. CASE y # sid
  <2>1. Ended(y) => Ended(y)'
    BY <1>2, EndedAfter
  <2>2. ASSUME Kept(y) PROVE Kept(y)'
    <3>1. SubscriptionDrain(sid) # SubscriptionDrain(y)
      BY <1>2 DEF SubscriptionDrain
    <3>2. y \in DOMAIN core'.subscriptions /\ core'.subscriptions[y] = core.subscriptions[y]
      BY <1>2, <2>2 DEF Kept
    <3> QED BY <1>2, <2>2, <3>1, <3>2, KeptAfter
  <2> QED BY <2>1, <2>2 DEF AllAccounted, Accounted
<1> QED BY <1>1, <1>2

LEMMA UnsubscribeAccounted ==
  ASSUME Inv, WireInv, AllAccounted, NEW sid \in 1..MaxSid, NEW m \in Nat \cup {None},
         UnsubscribeMoves(sid, m), server' = server
  PROVE  AllAccounted'
<1> DEFINE sub == core.subscriptions[sid]
           ends == m = None \/ sub.delivered >= m
           subs == IF ends THEN remove_subscription(sid, core.subscriptions)
                   ELSE [core.subscriptions EXCEPT ![sid].remaining = m - sub.delivered]
           w == IF ends THEN None ELSE m
<1>1. PICK out :
        /\ core'.phase = core.phase /\ core'.next_sid = core.next_sid
        /\ core'.subscriptions = subs /\ core'.draining = core.draining \ {sid}
        /\ core'.pending_pings = core.pending_pings /\ c2s' = c2s \o out
        /\ Negotiating(core.phase) \/ (core.phase = "Connected" /\ out = << Unsub(sid, w) >>)
  BY DEF UnsubscribeMoves, Moves, Is
<1>2. w \in Nat \cup {None}
  OBVIOUS
<1>3. \A x \in DOMAIN core.subscriptions : x # sid =>
        x \in DOMAIN subs /\ subs[x] = core.subscriptions[x]
  <2> HIDE DEF ends, sub
  <2> QED BY DEF remove_subscription
<1> HIDE DEF w, subs
<1>4. DrainsNamed'
  <2>1. core'.next_sid \in Nat /\ core'.next_sid >= core.next_sid
    BY <1>1, CoreParts
  <2> QED BY <1>1, <2>1, NamedAfter DEF AllAccounted
<1>5. ASSUME core.phase = "Connected", NEW y \in 1..MaxSid PROVE Ended(y)' \/ Kept(y)'
  <2>1. /\ Unsub(sid, w) \in ClientOps /\ IsUnsub(Unsub(sid, w), sid)
        /\ \A x : ~IsSub(Unsub(sid, w), x)
    BY <1>2 DEF ClientOps, Unsub, IsUnsub, IsSub
  <2>2. out = << Unsub(sid, w) >>
    BY <1>1, <1>5 DEF Negotiating
  <2> HIDE DEF ClientOps
  <2>3. out \in Seq(ClientOps) /\ EndsWith(out, sid) /\ \A x : NoSub(out, x)
    BY <2>1, <2>2, OneWord
  <2>4. SubscriptionDrain(sid) \in Origins
    BY DEF SubscriptionDrain, Origins
  <2> HIDE DEF Origins
  <2> QED BY <1>1, <1>3, <1>5, <2>3, <2>4, EndsOne
<1>6. core.phase # "Draining"
  BY <1>1 DEF Negotiating
<1> QED BY <1>1, <1>4, <1>5, <1>6 DEF AllAccounted, Accounted

LEMMA DrainSubscriptionAccounted ==
  ASSUME Inv, WireInv, AllAccounted, NEW sid \in 1..MaxSid, DrainSubscription(sid)
  PROVE  AllAccounted'
<1> DEFINE a == Unsub(sid, None)
           out == << a, Ping >>
           o == SubscriptionDrain(sid)
<1>1. /\ core.phase = "Connected" /\ sid \in DOMAIN core.subscriptions
      /\ core'.phase = "Connected" /\ core'.next_sid = core.next_sid
      /\ core'.subscriptions = core.subscriptions
      /\ core'.draining = core.draining \cup {sid}
      /\ core'.pending_pings = Append(core.pending_pings, o) /\ c2s' = c2s \o out
      /\ server' = server
  BY DrainSubscriptionMoves DEF DrainSubscription, CallerFrame, Moves, Is
<1>2. a \in ClientOps /\ IsUnsub(a, sid) /\ \A x : ~IsSub(a, x)
  BY DEF ClientOps, Unsub, IsUnsub, IsSub
<1>3. Ping \in ClientOps /\ \A x : ~IsSub(Ping, x)
  BY WrittenOps DEF IsSub
<1>4. o \in Origins /\ o.kind = "Subscription_drain" /\ o.sid = sid
  BY DEF SubscriptionDrain, Origins
<1>5. sid \in Sids(core)
  BY <1>1 DEF WireInv, NamedSids
<1> HIDE DEF a, Ping, ClientOps
<1>6. out \in Seq(ClientOps) /\ DOMAIN out = {1, 2} /\ out[1] = a /\ out[2] = Ping
  BY <1>2, <1>3
<1> HIDE DEF out
<1>7. EndsWith(out, sid) /\ \A x : NoSub(out, x)
  BY <1>2, <1>3, <1>6 DEF EndsWith, NoSub
<1> HIDE DEF Origins
<1>8. DrainsNamed'
  <2>1. core'.next_sid \in Nat /\ core'.next_sid >= core.next_sid
    BY <1>1, CoreParts
  <2>2. Sids(core') = Sids(core)
    BY <1>1 DEF Sids
  <2> HIDE DEF o
  <2> QED BY <1>1, <1>4, <1>5, <2>1, <2>2, NamedAfter DEF AllAccounted
<1>9. ASSUME NEW y \in 1..MaxSid PROVE Ended(y)' \/ Kept(y)'
  BY <1>1, <1>4, <1>6, <1>7, EndsOne
<1> QED BY <1>1, <1>8, <1>9 DEF AllAccounted, Accounted

\* What an operation of the client does to the server's entry of one sid.
LEMMA DoesTo ==
  ASSUME NEW subs, subs \in [DOMAIN subs -> ServerSubs], NEW o \in ClientOps, NEW sid
  PROVE  LET new == ServerDoes(subs, o)
             ends == o.max = None \/ subs[sid].sent >= o.max
         IN  /\ ~IsSub(o, sid) /\ ~IsUnsub(o, sid)
                  => /\ sid \in DOMAIN new <=> sid \in DOMAIN subs
                     /\ sid \in DOMAIN subs => new[sid] = subs[sid]
             /\ IsSub(o, sid) => /\ sid \in DOMAIN new
                                 /\ new[sid].max = None /\ new[sid].sent = 0
             /\ IsUnsub(o, sid) =>
                  /\ sid \notin DOMAIN subs \/ ends => sid \notin DOMAIN new
                  /\ sid \in DOMAIN subs /\ ~ends
                       => /\ sid \in DOMAIN new /\ new[sid].max = o.max
                          /\ new[sid].sent = subs[sid].sent
<1> DEFINE new == ServerDoes(subs, o)
<1>0. ~(IsSub(o, sid) /\ IsUnsub(o, sid))
  BY DEF IsSub, IsUnsub
<1>1. CASE o.op = "SUB"
  <2> DEFINE fresh == [max |-> None, sent |-> 0]
             r == [s \in DOMAIN subs \cup {o.sid} |-> IF s = o.sid THEN fresh ELSE subs[s]]
  <2>1. new = r
    BY <1>1 DEF ServerDoes
  <2>2. fresh.max = None /\ fresh.sent = 0
    OBVIOUS
  <2> HIDE DEF fresh, new
  <2>3. /\ sid # o.sid => /\ sid \in DOMAIN r <=> sid \in DOMAIN subs
                          /\ sid \in DOMAIN subs => r[sid] = subs[sid]
        /\ sid = o.sid => sid \in DOMAIN r /\ r[sid] = fresh
    OBVIOUS
  <2> QED BY <1>0, <1>1, <2>1, <2>2, <2>3 DEF IsSub, IsUnsub, new
<1>2. CASE o.op = "UNSUB"
  <2>1. new = ServerUnsub(subs, o.sid, o.max)
    BY <1>2 DEF ServerDoes
  <2>2. CASE o.sid \notin DOMAIN subs
    BY <1>0, <1>2, <2>1, <2>2 DEF ServerUnsub, IsUnsub, IsSub
  <2>3. CASE o.sid \in DOMAIN subs /\ (o.max = None \/ subs[o.sid].sent >= o.max)
    <3>1. new = remove_subscription(o.sid, subs)
      BY <2>1, <2>3 DEF ServerUnsub
    <3> HIDE DEF new
    <3>2. /\ sid # o.sid => /\ sid \in DOMAIN new <=> sid \in DOMAIN subs
                            /\ sid \in DOMAIN subs => new[sid] = subs[sid]
          /\ sid = o.sid => sid \notin DOMAIN new
      BY <3>1 DEF remove_subscription
    <3> QED BY <1>0, <1>2, <2>3, <3>2 DEF IsUnsub, IsSub, new
  <2>4. CASE o.sid \in DOMAIN subs /\ ~(o.max = None \/ subs[o.sid].sent >= o.max)
    <3> DEFINE old == subs[o.sid]
               e == [old EXCEPT !.max = o.max]
    <3>1. new = [subs EXCEPT ![o.sid] = e]
      BY <2>1, <2>4 DEF ServerUnsub
    <3>2. old \in ServerSubs
      BY <2>4
    <3> HIDE DEF old
    <3>3. e.max = o.max /\ e.sent = old.sent
      BY <3>2 DEF ServerSubs
    <3> HIDE DEF new, e
    <3>4. /\ sid \in DOMAIN new <=> sid \in DOMAIN subs
          /\ sid # o.sid /\ sid \in DOMAIN subs => new[sid] = subs[sid]
          /\ sid = o.sid => new[sid] = e
      BY <2>4, <3>1
    <3> QED BY <1>0, <1>2, <2>4, <3>3, <3>4 DEF IsUnsub, IsSub, new, old
  <2> QED BY <2>2, <2>3, <2>4
<1>3. CASE o.op # "SUB" /\ o.op # "UNSUB"
  BY <1>3 DEF ServerDoes, IsUnsub, IsSub
<1> QED BY <1>1, <1>2, <1>3

\* And what a message that the server sends does.
LEMMA SendsTo ==
  ASSUME NEW subs, subs \in [DOMAIN subs -> ServerSubs], NEW x \in DOMAIN subs, NEW sid
  PROVE  LET new == ServerSent(subs, x)
             last == subs[x].max = subs[x].sent + 1
         IN  /\ sid # x => /\ sid \in DOMAIN new <=> sid \in DOMAIN subs
                           /\ sid \in DOMAIN subs => new[sid] = subs[sid]
             /\ sid = x /\ last => sid \notin DOMAIN new
             /\ sid = x /\ ~last => /\ sid \in DOMAIN new /\ new[sid].max = subs[sid].max
                                    /\ new[sid].sent = subs[sid].sent + 1
<1> DEFINE old == subs[x]
           more == old.sent + 1
           e == [old EXCEPT !.sent = more]
           new == ServerSent(subs, x)
<1>1. CASE old.max = old.sent + 1
  <2>1. new = remove_subscription(x, subs)
    BY <1>1 DEF ServerSent
  <2> HIDE DEF new
  <2> QED BY <1>1, <2>1 DEF remove_subscription, new
<1>2. CASE ~(old.max = old.sent + 1)
  <2>1. new = [subs EXCEPT ![x] = e]
    BY <1>2 DEF ServerSent
  <2> HIDE DEF more
  <2>2. e.max = old.max /\ e.sent = more
    BY DEF ServerSubs
  <2> HIDE DEF new, e
  <2>3. /\ sid \in DOMAIN new <=> sid \in DOMAIN subs
        /\ sid \in DOMAIN subs => new[sid] = IF sid = x THEN e ELSE subs[sid]
    BY <2>1
  <2> QED BY <1>2, <2>2, <2>3 DEF new, more
<1> QED BY <1>1, <1>2

\* The server never makes a limited subscription unlimited but on SUB.
LEMMA DoesLimits ==
  ASSUME NEW subs, subs \in [DOMAIN subs -> ServerSubs], NEW o \in ClientOps, NEW sid
  PROVE  LET new == ServerDoes(subs, o)
             Free(f) == sid \in DOMAIN f /\ f[sid].max = None
         IN  /\ ~IsSub(o, sid) /\ Free(new) => Free(subs)
             /\ IsUnsub(o, sid) => ~Free(new)
<1> HIDE DEF ClientOps, ServerSubs
<1> QED BY DoesTo

LEMMA HandleAccounted ==
  ASSUME Inv, WireInv, AllAccounted, ServerHandle PROVE AllAccounted'
<1> DEFINE o == Head(c2s)
<1>1. c2s # <<>> /\ c2s' = Tail(c2s) /\ server' = ServerDoes(server, o) /\ core' = core
  BY DEF ServerHandle, ServerFrame
<1>2. /\ c2s \in Seq(ClientOps) /\ o \in ClientOps
      /\ server \in [DOMAIN server -> ServerSubs]
  <2>1. c2s \in Seq(ClientOps) /\ server \in [DOMAIN server -> ServerSubs]
    BY DEF WireInv, NamedSids
  <2> HIDE DEF ClientOps, ServerSubs
  <2> QED BY <1>1, <2>1
<1> HIDE DEF o, ClientOps, ServerSubs
<1>3. ASSUME NEW sid, Ended(sid) PROVE Ended(sid)'
  <2>1. /\ NoSub(c2s, sid) => ~IsSub(o, sid) /\ NoSub(Tail(c2s), sid)
        /\ EndsWith(c2s, sid) => \/ EndsWith(Tail(c2s), sid)
                                 \/ IsUnsub(o, sid) /\ NoSub(Tail(c2s), sid)
    BY <1>1, <1>2, EndsWithTail DEF o
  <2>2. /\ ~IsSub(o, sid) /\ Unlimited(sid)' => Unlimited(sid)
        /\ IsUnsub(o, sid) => ~Unlimited(sid)'
    BY <1>1, <1>2, DoesLimits DEF Unlimited
  <2>3. /\ EndsWith(Tail(c2s), sid) => EndsWith(c2s, sid)'
        /\ NoSub(Tail(c2s), sid) => NoSub(c2s, sid)'
    BY <1>1 DEF EndsWith, NoSub
  <2> QED BY <1>3, <2>1, <2>2, <2>3 DEF Ended
<1>4. ASSUME NEW sid \in 1..MaxSid PROVE Accounted(sid)'
  <2>1. Kept(sid) => Kept(sid)'
    BY <1>1 DEF Kept, Waits
  <2> QED BY <1>1, <1>3, <2>1 DEF AllAccounted, Accounted
<1> QED BY <1>1, <1>4 DEF AllAccounted, DrainsNamed, Sids

LEMMA SendAccounted ==
  ASSUME Inv, WireInv, AllAccounted, NEW x \in 1..MaxSid, ServerSend(x) PROVE AllAccounted'
<1>1. /\ x \in DOMAIN server /\ c2s' = c2s /\ server' = ServerSent(server, x) /\ core' = core
  BY DEF ServerSend, ServerFrame
<1>2. server \in [DOMAIN server -> ServerSubs]
  BY DEF WireInv, NamedSids
<1>3. ASSUME NEW sid, Unlimited(sid)' PROVE Unlimited(sid)
  <2> HIDE DEF ServerSubs
  <2> QED BY <1>1, <1>2, <1>3, SendsTo DEF Unlimited
<1>4. ASSUME NEW sid \in 1..MaxSid PROVE Accounted(sid)'
  <2>1. Kept(sid) => Kept(sid)'
    BY <1>1 DEF Kept, Waits
  <2>2. Ended(sid) => Ended(sid)'
    BY <1>1, <1>3 DEF Ended, EndsWith, NoSub
  <2> QED BY <1>1, <2>1, <2>2 DEF AllAccounted, Accounted
<1> QED BY <1>1, <1>4 DEF AllAccounted, DrainsNamed, Sids

LEMMA NextAccounted ==
  ASSUME Inv, WireInv, AllAccounted, [Next]_vars PROVE AllAccounted'
<1>1. CASE SubscriptionSteps
  <2>1. ASSUME NEW sid \in 1..MaxSid, Unsubscribe(sid) PROVE AllAccounted'
    <3> DEFINE m == None
    <3>1. Apply(outgoing_unsubscribe(core, sid, m)) /\ server' = server /\ m \in Nat \cup {None}
      BY <2>1 DEF Unsubscribe, CallerFrame
    <3> HIDE DEF m
    <3>2. UnsubscribeMoves(sid, m)
      BY <3>1, OutgoingUnsubscribeMoves
    <3> QED BY <3>1, <3>2, UnsubscribeAccounted
  <2>2. ASSUME NEW sid \in 1..MaxSid, NEW n \in Quotas, AutoUnsubscribe(sid, n)
        PROVE  AllAccounted'
    <3>1. n \in Int
      BY BoundsAssumption
    <3>2. n > 0 /\ UnsubscribeMoves(sid, n)
      BY <2>2, <3>1, AutoUnsubscribeMoves
    <3>3. n \in Nat /\ server' = server
      BY <2>2, <3>1, <3>2 DEF AutoUnsubscribe, CallerFrame
    <3> QED BY <3>2, <3>3, UnsubscribeAccounted
  <2> QED
    BY <1>1, <2>1, <2>2, QuietAccounted, DarkAccounted, ConnectAccounted, DrainAccounted,
       SettleAccounted, DeliverAccounted, SubscribeAccounted, DrainSubscriptionAccounted,
       HandleAccounted, SendAccounted
       DEF SubscriptionSteps
<1>2. CASE UNCHANGED vars
  BY <1>2 DEF vars, AllAccounted, DrainsNamed, Accounted, Ended, Kept, Waits, EndsWith,
              NoSub, Unlimited, Sids
<1> QED BY <1>1, <1>2, MoveSteps

LEMMA AccountedInv == Spec => [](Inv /\ WireInv /\ AllAccounted)
<1>1. Init => Inv /\ WireInv /\ AllAccounted
  BY InitInv, InitWire, InitAccounted
<1>2. Inv /\ WireInv /\ AllAccounted /\ [Next]_vars => (Inv /\ WireInv /\ AllAccounted)'
  BY NextInv, NextWire, NextAccounted
<1> QED BY <1>1, <1>2, PTL DEF Spec

\* Every way the core forgets a subscription (outgoing_unsubscribe, a quota
\* that ends in incoming_message, a drain settled by incoming_pong, and
\* outgoing_drain for all of them) has an UNSUB on its way first, and the
\* replay of outgoing_connect restores what the core still has: the server is
\* never left with an unlimited subscription that the core does not know, if
\* every output is written.  resume_subscription_drain (lib/eio/connection.ml)
\* drops the output of the drain it resumes and is not part of the session.
THEOREM NobodyOrphaned == Spec => []NoOrphan
<1>1. ASSUME Inv, WireInv, AllAccounted PROVE NoOrphan
  <2>1. SUFFICES ASSUME up, c2s = <<>>, NEW sid \in DOMAIN server, server[sid].max = None
                 PROVE  /\ core.phase = "Connected" => sid \in DOMAIN core.subscriptions
                        /\ core.phase # "Draining"
    BY DEF NoOrphan
  <2>2. sid \in 1..MaxSid
    <3>1. sid \in 1..core.next_sid - 1 /\ core.next_sid \in 1..MaxSid + 1 /\ MaxSid \in Nat
      BY <1>1, <2>1, Bounds DEF WireInv, NamedSids, Sids
    <3> QED BY <3>1
  <2>3. ~Ended(sid)
    BY <2>1 DEF Ended, EndsWith, Unlimited
  <2> QED BY <1>1, <2>2, <2>3 DEF AllAccounted, Accounted, Kept
<1>2. Inv /\ WireInv /\ AllAccounted => NoOrphan
  BY <1>1
<1> QED BY <1>2, AccountedInv, PTL

-----------------------------------------------------------------------------
(* What the server still owes each subscription.                           *)

SentTo(srv, sid) == IF sid \in DOMAIN srv THEN srv[sid].sent ELSE 0

\* A server that stops at max after s messages, n of them in flight, gives
\* sub all that its quota leaves.
Enough(sub, max, n, s) ==
  max # None /\ sub.remaining # None /\ max + n - s >= sub.remaining

\* The subscription sub, with srv at the server, ops on their way to it and n
\* messages on their way back: the server has it, is about to get it, or has
\* sent what is left of the quota; no limit it has or is about to get is too
\* small; and it has sent no more than is delivered or in flight.
Fed(sub, srv, ops, n, sid) ==
  /\ \/ sid \in DOMAIN srv
     \/ \E i \in DOMAIN ops : IsSub(ops[i], sid)
     \/ sub.remaining # None /\ n >= sub.remaining
  /\ sid \in DOMAIN srv /\ srv[sid].max # None
       => Enough(sub, srv[sid].max, n, srv[sid].sent)
  /\ \A i \in DOMAIN ops :
       IsUnsub(ops[i], sid) => Enough(sub, ops[i].max, n, SentTo(srv, sid))
  /\ n + sub.delivered >= SentTo(srv, sid)

FedNow(sid) ==
  Fed(core.subscriptions[sid], server, c2s, InFlight(s2c, sid), sid)

\* A raised quota is left out, and a subscription that is being drained.
AllFed ==
  core.phase = "Connected" =>
    \A sid \in DOMAIN core.subscriptions \ raised :
      Waits(core.pending_pings, sid) \/ FedNow(sid)

LEMMA Joined ==
  ASSUME NEW T, NEW a \in Seq(T), NEW b \in Seq(T)
  PROVE  Range(a \o b) = Range(a) \cup Range(b)
<1> DEFINE w == a \o b
           m == Len(a)
           n == Len(b)
<1>1. /\ m \in Nat /\ n \in Nat /\ DOMAIN a = 1..m /\ DOMAIN b = 1..n
      /\ DOMAIN w = 1..m + n
      /\ \A i \in 1..m : w[i] = a[i]
      /\ \A i \in 1..n : w[i + m] = b[i]
  OBVIOUS
<1> HIDE DEF w, m, n
<1>2. \A i \in 1..m + n : i \in 1..m \/ (i - m \in 1..n /\ i = (i - m) + m)
  BY <1>1
<1>3. (\A i \in 1..m : i \in 1..m + n) /\ \A i \in 1..n : i + m \in 1..m + n
  BY <1>1
<1>4. \A i \in DOMAIN a : \E j \in DOMAIN w : w[j] = a[i]
  BY <1>1, <1>3
<1>5. \A i \in DOMAIN b : \E j \in DOMAIN w : w[j] = b[i]
  BY <1>1, <1>3
<1>6. ASSUME NEW j \in DOMAIN w
      PROVE  (\E i \in DOMAIN a : w[j] = a[i]) \/ \E i \in DOMAIN b : w[j] = b[i]
  <2>1. CASE j \in 1..m
    BY <1>1, <2>1
  <2>2. CASE j - m \in 1..n /\ j = (j - m) + m
    <3>1. w[j] = b[j - m]
      BY <1>1, <2>2, Zenon
    <3> QED BY <1>1, <2>2, <3>1
  <2> QED BY <1>1, <1>2, <2>1, <2>2
<1>7. Range(w) = Range(a) \cup Range(b)
  BY <1>4, <1>5, <1>6 DEF Range
<1> QED BY <1>7 DEF w

\* More is written; what of it limits sid leaves enough.
LEMMA FedWriting ==
  ASSUME NEW sub, NEW srv, NEW ops \in Seq(ClientOps), NEW out \in Seq(ClientOps),
         NEW n, NEW sid, Fed(sub, srv, ops, n, sid),
         \A i \in DOMAIN out :
           IsUnsub(out[i], sid) => Enough(sub, out[i].max, n, SentTo(srv, sid))
  PROVE  Fed(sub, srv, ops \o out, n, sid)
<1> DEFINE w == ops \o out
<1>1. Range(w) = Range(ops) \cup Range(out)
  BY Joined
<1> HIDE DEF w
<1>2. (\E i \in DOMAIN ops : IsSub(ops[i], sid)) => \E i \in DOMAIN w : IsSub(w[i], sid)
  BY <1>1 DEF Range
<1>3. ASSUME NEW j \in DOMAIN w, IsUnsub(w[j], sid)
      PROVE  Enough(sub, w[j].max, n, SentTo(srv, sid))
  <2>1. w[j] \in Range(ops) \/ w[j] \in Range(out)
    BY <1>1 DEF Range
  <2>2. CASE w[j] \in Range(ops)
    BY <1>3, <2>2 DEF Fed, Range
  <2>3. CASE w[j] \in Range(out)
    BY <1>3, <2>3 DEF Range
  <2> QED BY <2>1, <2>2, <2>3
<1> QED BY <1>2, <1>3 DEF Fed, w

\* A smaller quota is still fed.
LEMMA FedSmaller ==
  ASSUME NEW sub \in Subscription, NEW less \in Subscription, NEW srv, NEW ops, NEW n \in Nat,
         NEW sid, Fed(sub, srv, ops, n, sid),
         srv \in [DOMAIN srv -> ServerSubs],
         \A i \in DOMAIN ops : IsUnsub(ops[i], sid) => ops[i].max \in Nat \cup {None},
         less.delivered = sub.delivered, less.remaining # None,
         sub.remaining # None => less.remaining <= sub.remaining
  PROVE  Fed(less, srv, ops, n, sid)
<1>1. /\ sub.remaining \in Nat \cup {None} /\ less.remaining \in Nat
      /\ sub.delivered \in Nat /\ None \notin Int
  BY NoneAssumption DEF Subscription
<1>2. /\ SentTo(srv, sid) \in Nat
      /\ sid \in DOMAIN srv => srv[sid].sent \in Nat /\ srv[sid].max \in Nat \cup {None}
  BY DEF SentTo, ServerSubs
<1>3. ASSUME NEW max \in Nat \cup {None}, NEW s \in Nat, Enough(sub, max, n, s)
      PROVE  Enough(less, max, n, s)
  <2> HIDE DEF Subscription
  <2>1. max \in Nat /\ max # None /\ sub.remaining \in Nat /\ max + n - s >= sub.remaining
    BY <1>1, <1>3 DEF Enough
  <2>2. max + n - s >= less.remaining
    <3> DEFINE a == sub.remaining
               b == less.remaining
    <3>1. a \in Nat /\ b \in Nat /\ b <= a /\ max + n - s >= a
      BY <1>1, <2>1
    <3> HIDE DEF a, b
    <3>2. max + n - s >= b
      BY <2>1, <3>1
    <3> QED BY <3>2 DEF b
  <2> QED BY <2>1, <2>2 DEF Enough
<1>4. sub.remaining # None /\ n >= sub.remaining => n >= less.remaining
  <2> DEFINE a == sub.remaining
             b == less.remaining
  <2>1. a # None => a \in Nat /\ b \in Nat /\ b <= a
    BY <1>1
  <2> HIDE DEF a, b
  <2>2. a # None /\ n >= a => n >= b
    BY <2>1
  <2> QED BY <2>2 DEF a, b
<1> HIDE DEF Enough, Subscription, ServerSubs
<1>5. sid \in DOMAIN srv /\ srv[sid].max # None => Enough(less, srv[sid].max, n, srv[sid].sent)
  BY <1>2, <1>3 DEF Fed
<1>6. ASSUME NEW i \in DOMAIN ops, IsUnsub(ops[i], sid)
      PROVE  Enough(less, ops[i].max, n, SentTo(srv, sid))
  BY <1>2, <1>3, <1>6 DEF Fed
<1>7. n + less.delivered >= SentTo(srv, sid)
  BY DEF Fed
<1>8. \/ sid \in DOMAIN srv \/ \E i \in DOMAIN ops : IsSub(ops[i], sid)
      \/ less.remaining # None /\ n >= less.remaining
  BY <1>4 DEF Fed
<1> QED BY <1>5, <1>6, <1>7, <1>8 DEF Fed

\* The server handles the oldest operation.
LEMMA FedHandling ==
  ASSUME NEW sub \in Subscription, NEW srv, srv \in [DOMAIN srv -> ServerSubs],
         NEW ops \in Seq(ClientOps), ops # <<>>, NEW n \in Nat, NEW sid,
         Fed(sub, srv, ops, n, sid)
  PROVE  Fed(sub, ServerDoes(srv, Head(ops)), Tail(ops), n, sid)
<1> DEFINE o == Head(ops)
           t == Tail(ops)
           new == ServerDoes(srv, o)
<1>1. /\ o \in ClientOps /\ t \in Seq(ClientOps) /\ o = ops[1] /\ 1 \in DOMAIN ops
      /\ \A i \in DOMAIN t : i + 1 \in DOMAIN ops /\ t[i] = ops[i + 1]
      /\ \A i \in DOMAIN ops : i = 1 \/ (i - 1 \in DOMAIN t /\ ops[i] = t[i - 1])
  OBVIOUS
<1>2. /\ sid \in DOMAIN srv => srv[sid].sent \in Nat /\ srv[sid].max \in Nat \cup {None}
      /\ SentTo(srv, sid) \in Nat
  BY DEF ServerSubs, SentTo
<1> HIDE DEF o, t, new
<1>3. \A i \in DOMAIN ops : IsUnsub(ops[i], sid) => ops[i].max \in Nat \cup {None}
  BY DEF IsUnsub, ClientOps
<1>4. /\ ~IsSub(o, sid) /\ ~IsUnsub(o, sid)
           => /\ sid \in DOMAIN new <=> sid \in DOMAIN srv
              /\ sid \in DOMAIN srv => new[sid] = srv[sid]
      /\ IsSub(o, sid) => sid \in DOMAIN new /\ new[sid].max = None /\ new[sid].sent = 0
      /\ IsUnsub(o, sid) =>
           LET ends == o.max = None \/ srv[sid].sent >= o.max
           IN  /\ sid \notin DOMAIN srv \/ ends => sid \notin DOMAIN new
               /\ sid \in DOMAIN srv /\ ~ends
                    => /\ sid \in DOMAIN new /\ new[sid].max = o.max
                       /\ new[sid].sent = srv[sid].sent
  BY <1>1, DoesTo DEF new
<1>5. SentTo(new, sid) \in Nat /\ SentTo(new, sid) <= SentTo(srv, sid)
  BY <1>2, <1>4 DEF SentTo
<1>6. IsUnsub(o, sid) => Enough(sub, o.max, n, SentTo(srv, sid)) /\ o.max \in Nat \cup {None}
  BY <1>1, <1>3 DEF Fed
<1>7. sub.remaining \in Nat \cup {None} /\ sub.delivered \in Nat /\ None \notin Int
  BY NoneAssumption DEF Subscription
\* What has been handled no longer counts; what the server has sent shrinks.
<1>8. ASSUME NEW max \in Nat \cup {None}, Enough(sub, max, n, SentTo(srv, sid))
      PROVE  Enough(sub, max, n, SentTo(new, sid))
  <2> DEFINE r == sub.remaining
             a == SentTo(srv, sid)
             b == SentTo(new, sid)
  <2>1. max \in Nat /\ r \in Nat /\ r # None /\ max # None /\ max + n - a >= r
        /\ a \in Nat /\ b \in Nat /\ b <= a
    BY <1>2, <1>5, <1>7, <1>8 DEF Enough
  <2> HIDE DEF r, a, b
  <2>2. max + n - b >= r
    BY <2>1
  <2> QED BY <2>1, <2>2 DEF Enough, r, a, b
<1>9. ASSUME NEW i \in DOMAIN t, IsUnsub(t[i], sid)
      PROVE  Enough(sub, t[i].max, n, SentTo(new, sid))
  <2>1. i + 1 \in DOMAIN ops /\ t[i] = ops[i + 1]
    BY <1>1
  <2>2. Enough(sub, t[i].max, n, SentTo(srv, sid)) /\ t[i].max \in Nat \cup {None}
    BY <1>3, <1>9, <2>1 DEF Fed
  <2> QED BY <1>8, <2>2
<1>10. n + sub.delivered >= SentTo(new, sid)
  <2>1. n + sub.delivered >= SentTo(srv, sid)
    BY DEF Fed
  <2> DEFINE a == SentTo(srv, sid)
             b == SentTo(new, sid)
             d == sub.delivered
  <2>2. n + d >= a /\ a \in Nat /\ b \in Nat /\ b <= a /\ d \in Nat
    BY <1>2, <1>5, <1>7, <2>1
  <2> HIDE DEF a, b, d
  <2>3. n + d >= b
    BY <2>2
  <2> QED BY <2>3 DEF a, b, d
<1>11. sid \in DOMAIN new /\ new[sid].max # None
         => Enough(sub, new[sid].max, n, new[sid].sent)
  <2>1. CASE IsSub(o, sid)
    BY <1>4, <2>1
  <2>2. CASE IsUnsub(o, sid)
    BY <1>4, <1>6, <2>2 DEF SentTo
  <2>3. CASE ~IsSub(o, sid) /\ ~IsUnsub(o, sid)
    BY <1>4, <2>3 DEF Fed
  <2> QED BY <2>1, <2>2, <2>3
<1>12. \/ sid \in DOMAIN new \/ \E i \in DOMAIN t : IsSub(t[i], sid)
       \/ sub.remaining # None /\ n >= sub.remaining
  <2>1. CASE IsSub(o, sid)
    BY <1>4, <2>1
  <2>2. CASE ~IsSub(o, sid) /\ \E i \in DOMAIN ops : IsSub(ops[i], sid)
    <3>1. PICK i \in DOMAIN ops : IsSub(ops[i], sid)
      BY <2>2
    <3>2. i # 1
      BY <1>1, <2>2, <3>1
    <3>3. i - 1 \in DOMAIN t /\ ops[i] = t[i - 1]
      BY <1>1, <3>2
    <3> QED BY <3>1, <3>3
  <2>3. CASE ~IsSub(o, sid) /\ ~IsUnsub(o, sid) /\ sid \in DOMAIN srv
    BY <1>4, <2>3
  <2>4. CASE IsUnsub(o, sid) /\ sid \in DOMAIN srv
    <3>1. CASE srv[sid].sent >= o.max
      <4> DEFINE r == sub.remaining
                 m == o.max
                 s == srv[sid].sent
      <4>1. m \in Nat /\ r \in Nat /\ r # None /\ m + n - s >= r /\ s \in Nat /\ s >= m
        BY <1>2, <1>6, <1>7, <2>4, <3>1 DEF Enough, SentTo
      <4> HIDE DEF r, m, s
      <4>2. n >= r
        BY <4>1
      <4> QED BY <4>1, <4>2 DEF r
    <3>2. CASE ~(srv[sid].sent >= o.max)
      BY <1>4, <1>6, <2>4, <3>2 DEF Enough
    <3> QED BY <3>1, <3>2
  <2>5. CASE sub.remaining # None /\ n >= sub.remaining
    BY <2>5
  <2> QED BY <2>1, <2>2, <2>3, <2>4, <2>5 DEF Fed
<1> QED BY <1>9, <1>10, <1>11, <1>12 DEF Fed, new, t, o

\* The server sends a message.
LEMMA FedSending ==
  ASSUME NEW sub \in Subscription, NEW srv, srv \in [DOMAIN srv -> ServerSubs],
         NEW ops \in Seq(ClientOps), NEW n \in Nat, NEW sid, NEW x \in DOMAIN srv,
         Fed(sub, srv, ops, n, sid)
  PROVE  Fed(sub, ServerSent(srv, x), ops, n + IF x = sid THEN 1 ELSE 0, sid)
<1> DEFINE new == ServerSent(srv, x)
<1>1. /\ sid \in DOMAIN srv => srv[sid].sent \in Nat /\ srv[sid].max \in Nat \cup {None}
      /\ SentTo(srv, sid) \in Nat
  BY DEF ServerSubs, SentTo
<1>2. \A i \in DOMAIN ops : IsUnsub(ops[i], sid) => ops[i].max \in Nat \cup {None}
  BY DEF IsUnsub, ClientOps
<1>3. sub.remaining \in Nat \cup {None} /\ sub.delivered \in Nat /\ None \notin Int
  BY NoneAssumption DEF Subscription
<1>4. LET last == srv[x].max = srv[x].sent + 1
      IN  /\ sid # x => /\ sid \in DOMAIN new <=> sid \in DOMAIN srv
                        /\ sid \in DOMAIN srv => new[sid] = srv[sid]
          /\ sid = x /\ last => sid \notin DOMAIN new
          /\ sid = x /\ ~last => /\ sid \in DOMAIN new /\ new[sid].max = srv[sid].max
                                 /\ new[sid].sent = srv[sid].sent + 1
  BY SendsTo
<1> HIDE DEF new
<1>5. CASE sid # x
  <2>1. SentTo(new, sid) = SentTo(srv, sid)
    BY <1>4, <1>5 DEF SentTo
  <2>2. n + (IF x = sid THEN 1 ELSE 0) = n
    BY <1>5
  <2>3. Fed(sub, new, ops, n, sid)
    BY <1>4, <1>5, <2>1 DEF Fed
  <2> QED BY <2>2, <2>3 DEF new
<1>6. CASE sid = x
  <2> DEFINE k == n + 1
  <2>1. SentTo(new, sid) \in Nat /\ SentTo(new, sid) <= SentTo(srv, sid) + 1
    BY <1>1, <1>4, <1>6 DEF SentTo
  <2>2. ASSUME NEW max \in Nat \cup {None}, Enough(sub, max, n, SentTo(srv, sid))
        PROVE  Enough(sub, max, k, SentTo(new, sid))
    <3> DEFINE r == sub.remaining
               a == SentTo(srv, sid)
               b == SentTo(new, sid)
    <3>1. max \in Nat /\ r \in Nat /\ r # None /\ max # None /\ max + n - a >= r
          /\ a \in Nat /\ b \in Nat /\ b <= a + 1
      BY <1>1, <1>3, <2>1, <2>2 DEF Enough
    <3> HIDE DEF r, a, b
    <3>2. max + k - b >= r
      BY <3>1
    <3> QED BY <3>1, <3>2 DEF Enough, r, a, b
  <2>3. ASSUME NEW i \in DOMAIN ops, IsUnsub(ops[i], sid)
        PROVE  Enough(sub, ops[i].max, k, SentTo(new, sid))
    <3>1. Enough(sub, ops[i].max, n, SentTo(srv, sid)) /\ ops[i].max \in Nat \cup {None}
      BY <1>2, <2>3 DEF Fed
    <3> HIDE DEF k
    <3> QED BY <2>2, <3>1
  <2>4. k + sub.delivered >= SentTo(new, sid)
    <3>1. n + sub.delivered >= SentTo(srv, sid)
      BY DEF Fed
    <3> DEFINE a == SentTo(srv, sid)
               b == SentTo(new, sid)
               d == sub.delivered
    <3>2. n + d >= a /\ a \in Nat /\ b \in Nat /\ b <= a + 1 /\ d \in Nat
      BY <1>1, <1>3, <2>1, <3>1
    <3> HIDE DEF a, b, d
    <3>3. k + d >= b
      BY <3>2
    <3> QED BY <3>3 DEF a, b, d
  <2>5. sid \in DOMAIN new /\ new[sid].max # None
          => Enough(sub, new[sid].max, k, new[sid].sent)
    <3>1. SUFFICES ASSUME sid \in DOMAIN new, new[sid].max # None
                   PROVE  Enough(sub, new[sid].max, k, new[sid].sent)
      OBVIOUS
    <3>2. new[sid].max = srv[sid].max /\ SentTo(new, sid) = new[sid].sent
      BY <1>4, <1>6, <3>1 DEF SentTo
    <3>3. Enough(sub, srv[sid].max, n, SentTo(srv, sid)) /\ srv[sid].max \in Nat \cup {None}
      BY <1>1, <1>6, <3>1, <3>2 DEF Fed, SentTo
    <3> HIDE DEF k
    <3>4. Enough(sub, srv[sid].max, k, SentTo(new, sid))
      BY <2>2, <3>3
    <3> QED BY <3>2, <3>4
  <2>6. \/ sid \in DOMAIN new
        \/ sub.remaining # None /\ k >= sub.remaining
    <3>1. CASE srv[sid].max = srv[sid].sent + 1
      <4> DEFINE r == sub.remaining
                 m == srv[sid].max
                 s == srv[sid].sent
      <4>1. s \in Nat /\ m = s + 1 /\ sid \in DOMAIN srv
        BY <1>1, <1>6, <3>1
      <4>2. m # None
        <5> HIDE DEF m, s
        <5> QED BY <1>3, <4>1
      <4>3. Enough(sub, m, n, s)
        BY <4>1, <4>2 DEF Fed
      <4>4. r \in Nat /\ r # None /\ m + n - s >= r
        BY <1>3, <4>3 DEF Enough
      <4> HIDE DEF r, m, s
      <4>5. k >= r
        BY <4>1, <4>4
      <4> QED BY <4>4, <4>5 DEF r
    <3>2. CASE ~(srv[sid].max = srv[sid].sent + 1)
      BY <1>4, <1>6, <3>2
    <3> QED BY <3>1, <3>2
  <2>7. n + (IF x = sid THEN 1 ELSE 0) = k
    BY <1>6
  <2> HIDE DEF k
  <2>8. Fed(sub, new, ops, k, sid)
    BY <2>3, <2>4, <2>5, <2>6 DEF Fed
  <2> QED BY <2>7, <2>8 DEF new
<1> QED BY <1>5, <1>6

\* A message is read and counted.
LEMMA FedDelivering ==
  ASSUME NEW sub \in Subscription, NEW next \in Subscription, NEW srv,
         srv \in [DOMAIN srv -> ServerSubs], NEW ops \in Seq(ClientOps),
         NEW n \in Nat, NEW k \in Nat, n = k + 1, NEW sid, Fed(sub, srv, ops, n, sid),
         next.delivered = sub.delivered + 1,
         sub.remaining = None => next.remaining = None,
         sub.remaining # None => next.remaining = sub.remaining - 1
  PROVE  Fed(next, srv, ops, k, sid)
<1>1. /\ sid \in DOMAIN srv => srv[sid].sent \in Nat /\ srv[sid].max \in Nat \cup {None}
      /\ SentTo(srv, sid) \in Nat
  BY DEF ServerSubs, SentTo
<1>2. \A i \in DOMAIN ops : IsUnsub(ops[i], sid) => ops[i].max \in Nat \cup {None}
  BY DEF IsUnsub, ClientOps
<1>3. /\ sub.remaining \in Nat \cup {None} /\ sub.delivered \in Nat /\ None \notin Int
      /\ next.remaining \in Nat \cup {None}
  BY NoneAssumption DEF Subscription
<1>4. ASSUME NEW max \in Nat \cup {None}, NEW s \in Nat, Enough(sub, max, n, s)
      PROVE  Enough(next, max, k, s)
  <2> DEFINE r == sub.remaining
             q == next.remaining
  <2>1. max \in Nat /\ r \in Nat /\ q = r - 1 /\ max # None /\ max + n - s >= r /\ q \in Int
    BY <1>3, <1>4 DEF Enough
  <2> HIDE DEF r, q
  <2>2. max + k - s >= q /\ q # None
    BY <1>3, <2>1
  <2> QED BY <2>1, <2>2 DEF Enough, q
<1>5. sub.remaining # None /\ n >= sub.remaining => next.remaining # None /\ k >= next.remaining
  <2> DEFINE r == sub.remaining
             q == next.remaining
  <2>1. r # None => r \in Nat /\ q = r - 1 /\ q \in Int
    BY <1>3
  <2> HIDE DEF r, q
  <2>2. r # None /\ n >= r => q # None /\ k >= q
    BY <1>3, <2>1
  <2> QED BY <2>2 DEF r, q
<1>6. k + next.delivered >= SentTo(srv, sid)
  <2> DEFINE d == sub.delivered
             e == next.delivered
             a == SentTo(srv, sid)
  <2>1. n + d >= a /\ e = d + 1 /\ d \in Nat /\ a \in Nat
    BY <1>1, <1>3 DEF Fed
  <2> HIDE DEF d, e, a
  <2>2. k + e >= a
    BY <2>1
  <2> QED BY <2>2 DEF e, a
<1>7. sid \in DOMAIN srv /\ srv[sid].max # None => Enough(next, srv[sid].max, k, srv[sid].sent)
  BY <1>1, <1>4 DEF Fed
<1>8. ASSUME NEW i \in DOMAIN ops, IsUnsub(ops[i], sid)
      PROVE  Enough(next, ops[i].max, k, SentTo(srv, sid))
  BY <1>1, <1>2, <1>4, <1>8 DEF Fed
<1>9. \/ sid \in DOMAIN srv \/ \E i \in DOMAIN ops : IsSub(ops[i], sid)
      \/ next.remaining # None /\ k >= next.remaining
  BY <1>5 DEF Fed
<1> QED BY <1>6, <1>7, <1>8, <1>9 DEF Fed

LEMMA FedTypes ==
  ASSUME Inv, WireInv
  PROVE  /\ server \in [DOMAIN server -> ServerSubs] /\ c2s \in Seq(ClientOps)
         /\ s2c \in Seq(ServerOps)
         /\ \A sid : InFlight(s2c, sid) \in Nat
         /\ \A sid \in DOMAIN core.subscriptions : core.subscriptions[sid] \in Subscription
         /\ core.pending_pings \in Seq(Origins)
<1>1. s2c \in Seq(AllOps)
  BY CoreParts, OpsInAll
<1>2. \A sid : InFlight(s2c, sid) \in Nat
  BY <1>1, CountNat
<1> QED BY <1>2, CoreParts DEF WireInv, NamedSids

LEMMA FedNext ==
  ASSUME NEW sid, Fed(core'.subscriptions[sid], server', c2s', InFlight(s2c', sid), sid)
  PROVE  FedNow(sid)'
BY DEF FedNow

LEMMA WaitsKept ==
  ASSUME NEW pings \in Seq(Origins), NEW sid, Waits(pings, sid)
  PROVE  /\ \A o \in Origins : Waits(Append(pings, o), sid)
         /\ pings # <<>> => \/ Head(pings) = SubscriptionDrain(sid)
                            \/ Waits(Tail(pings), sid)
<1> DEFINE d == SubscriptionDrain(sid)
<1>1. PICK i \in DOMAIN pings : pings[i] = d
  BY DEF Waits
<1> HIDE DEF d
<1>2. ASSUME NEW o \in Origins PROVE Waits(Append(pings, o), sid)
  <2>1. i \in DOMAIN Append(pings, o) /\ Append(pings, o)[i] = d
    BY <1>1
  <2> QED BY <2>1 DEF Waits, d
<1>3. ASSUME pings # <<>>, i # 1 PROVE Waits(Tail(pings), sid)
  <2>1. i - 1 \in DOMAIN Tail(pings) /\ Tail(pings)[i - 1] = d
    BY <1>1, <1>3
  <2> QED BY <2>1 DEF Waits, d
<1>4. pings # <<>> /\ i = 1 => Head(pings) = d
  BY <1>1
<1> QED BY <1>2, <1>3, <1>4 DEF d

\* Nothing changes for a subscription but what is written to others.
LEMMA FedApart ==
  ASSUME Inv, WireInv, AllFed, core.phase = "Connected",
         NEW sid \in DOMAIN core.subscriptions, sid \notin raised,
         core'.subscriptions[sid] = core.subscriptions[sid],
         InFlight(s2c', sid) = InFlight(s2c, sid), server' = server,
         NEW out \in Seq(ClientOps), c2s' = c2s \o out,
         \A i \in DOMAIN out : ~IsUnsub(out[i], sid),
         \/ core'.pending_pings = core.pending_pings
         \/ \E o \in Origins : core'.pending_pings = Append(core.pending_pings, o)
  PROVE  Waits(core'.pending_pings, sid) \/ FedNow(sid)'
<1>1. c2s \in Seq(ClientOps) /\ core.pending_pings \in Seq(Origins)
  BY FedTypes
<1>2. CASE Waits(core.pending_pings, sid)
  BY <1>1, <1>2, WaitsKept
<1>3. CASE FedNow(sid)
  <2>1. Fed(core.subscriptions[sid], server, c2s \o out, InFlight(s2c, sid), sid)
    BY <1>1, <1>3, FedWriting DEF FedNow
  <2>2. Fed(core'.subscriptions[sid], server', c2s', InFlight(s2c', sid), sid)
    BY <2>1
  <2> QED BY <2>2, FedNext
<1> QED BY <1>2, <1>3 DEF AllFed

\* The same, said of the next state as a whole.
LEMMA FedAfter ==
  ASSUME core'.phase = "Connected" =>
           \A sid \in DOMAIN core'.subscriptions \ raised' :
             Waits(core'.pending_pings, sid) \/ FedNow(sid)'
  PROVE  AllFed'
<1>1. ASSUME NEW sid PROVE Waits(core'.pending_pings, sid) => Waits(core.pending_pings, sid)'
  BY DEF Waits
<1> QED BY <1>1 DEF AllFed

LEMMA QuietFed ==
  ASSUME Inv, WireInv, AllFed, Quiet PROVE AllFed'
<1>1. PICK out \in Seq(ClientOps) : /\ c2s' = c2s \o out
                                    /\ \A i \in DOMAIN out : out[i].op \notin {"SUB", "UNSUB"}
  BY DEF Quiet
<1>2. \A sid : \A i \in DOMAIN out : ~IsUnsub(out[i], sid)
  BY <1>1 DEF IsUnsub
<1>3. /\ core'.phase = core.phase /\ raised' = raised /\ server' = server
      /\ core'.subscriptions = core.subscriptions
      /\ \/ core'.pending_pings = core.pending_pings
         \/ \E o \in Origins : core'.pending_pings = Append(core.pending_pings, o)
      /\ \A sid \in DOMAIN core.subscriptions : InFlight(s2c', sid) = InFlight(s2c, sid)
  BY DEF Quiet, KeepsSids
<1>4. ASSUME core'.phase = "Connected", NEW sid \in DOMAIN core'.subscriptions \ raised'
      PROVE  Waits(core'.pending_pings, sid) \/ FedNow(sid)'
  BY <1>1, <1>2, <1>3, <1>4, FedApart
<1> QED BY <1>4, FedAfter

LEMMA ConnectFed ==
  ASSUME Inv, WireInv, AllFed, Connect PROVE AllFed'
<1> DEFINE r == Replay(core)
           first == << ConnectOp(core) >>
           head == first \o r
           subs == core.subscriptions
<1>1. /\ core.phase = "Awaiting_connect" /\ c2s' = c2s \o (head \o held)
      /\ server' = server /\ s2c' = s2c /\ core'.subscriptions = subs
  BY ConnectMoves DEF Connect, Moves, Is
<1>2. /\ held \in Seq({Ping}) /\ DOMAIN server = {} /\ c2s \in Seq(ClientOps)
      /\ \A i \in DOMAIN c2s : c2s[i] = Pong
      /\ \A i \in DOMAIN s2c : s2c[i].op \in {"INFO", "PING"}
  BY <1>1 DEF WireInv, NamedSids, Handshaking, Negotiating
<1>3. Good(core) /\ GoodSids(core)
  BY DEF Inv, WireInv, NamedSids, GoodSids
<1>4. /\ r \in Seq(ClientOps)
      /\ \A i \in DOMAIN r : \E s \in DOMAIN subs :
           \/ r[i] = Sub(s, subs[s].subject)
           \/ subs[s].remaining # None /\ r[i] = Unsub(s, subs[s].remaining)
      /\ \A s \in DOMAIN subs : \E i \in DOMAIN r : r[i] = Sub(s, subs[s].subject)
  BY <1>3, ReplayFacts
<1>5. first \in Seq(ClientOps) /\ \A o \in Range(first) : o.op = "CONNECT"
  <2>1. ConnectOp(core) \in ClientOps /\ ConnectOp(core).op = "CONNECT"
    <3>1. core.info # None /\ core.info \in Infos \cup {None}
      BY <1>1 DEF Inv, Good, Consistent, CoreType
    <3>2. core.info.headers \in BOOLEAN
      BY <3>1, InfosAssumption
    <3> QED BY <3>2 DEF ConnectOp, ClientOps
  <2> DEFINE o == ConnectOp(core)
  <2> HIDE DEF o
  <2>2. << o >> \in Seq(ClientOps) /\ \A x \in Range(<< o >>) : x = o
    BY <2>1 DEF Range, o
  <2> QED BY <2>1, <2>2 DEF o
<1>6. held \in Seq(ClientOps) /\ \A o \in Range(held) : o = Ping
  <2>1. \A i \in DOMAIN held : held[i] = Ping
    BY <1>2
  <2> QED BY <1>2, <2>1, HeldOps DEF Range
<1>7. \A o \in Range(c2s) : o = Pong
  BY <1>2 DEF Range
<1> HIDE DEF r, first
<1>8. Range(head) = Range(first) \cup Range(r) /\ head \in Seq(ClientOps)
  BY <1>4, <1>5, Joined
<1> HIDE DEF head
<1> DEFINE rest == head \o held
<1>9. Range(rest) = Range(head) \cup Range(held) /\ rest \in Seq(ClientOps)
  BY <1>6, <1>8, Joined
<1>10. c2s' = c2s \o rest
  BY <1>1
<1> HIDE DEF rest
<1>11. Range(c2s') = Range(c2s) \cup Range(rest)
  BY <1>2, <1>9, <1>10, Joined
<1> HIDE DEF subs
<1>12. ASSUME NEW sid \in DOMAIN subs PROVE FedNow(sid)'
  <2> DEFINE sub == subs[sid]
  <2>1. /\ sub \in Subscription /\ sub.remaining \in Nat \cup {None} /\ sub.delivered \in Nat
    BY CoreParts DEF Subscription, subs
  <2>2. InFlight(s2c, sid) = 0
    <3>1. {i \in DOMAIN s2c : s2c[i].op = "MSG" /\ s2c[i].sid = sid} = {}
      BY <1>2
    <3> QED BY <3>1, FS_EmptySet DEF InFlight
  <2>3. \E i \in DOMAIN c2s' : IsSub(c2s'[i], sid)
    <3>1. PICK i \in DOMAIN r : r[i] = Sub(sid, sub.subject)
      BY <1>4
    <3>2. IsSub(r[i], sid)
      BY <3>1 DEF IsSub, Sub
    <3>3. r[i] \in Range(r)
      BY DEF Range
    <3>4. r[i] \in Range(c2s')
      BY <1>8, <1>9, <1>11, <3>3
    <3> QED BY <3>2, <3>4 DEF Range
  <2>4. ASSUME NEW i \in DOMAIN c2s', IsUnsub(c2s'[i], sid)
        PROVE  Enough(sub, c2s'[i].max, 0, 0)
    <3> DEFINE o == c2s'[i]
    <3>1. o \in Range(c2s')
      BY DEF Range
    <3> HIDE DEF o
    <3>2. o \in Range(r)
      <4>1. Pong.op = "PONG" /\ Ping.op = "PING" /\ o.op = "UNSUB"
        BY <2>4, WrittenOps DEF IsUnsub, o
      <4> QED BY <1>5, <1>6, <1>7, <1>8, <1>9, <1>11, <3>1, <4>1
    <3>3. PICK s \in DOMAIN subs :
            \/ o = Sub(s, subs[s].subject)
            \/ subs[s].remaining # None /\ o = Unsub(s, subs[s].remaining)
      BY <1>4, <3>2 DEF Range
    <3>4. s = sid /\ sub.remaining # None /\ o.max = sub.remaining
      BY <2>4, <3>3 DEF IsUnsub, Sub, Unsub, o
    <3>5. sub.remaining \in Nat
      BY <2>1, <3>4
    <3>6. o.max + 0 - 0 >= sub.remaining
      BY <3>4, <3>5
    <3> QED BY <3>4, <3>6 DEF Enough, o
  <2>5. SentTo(server', sid) = 0
    BY <1>1, <1>2 DEF SentTo
  <2>6. 0 + sub.delivered >= 0
    BY <2>1
  <2>7. sid \notin DOMAIN server'
    BY <1>1, <1>2
  <2> HIDE DEF sub
  <2>8. Fed(sub, server', c2s', 0, sid)
    BY <2>3, <2>4, <2>5, <2>6, <2>7 DEF Fed
  <2>9. Fed(core'.subscriptions[sid], server', c2s', InFlight(s2c', sid), sid)
    BY <1>1, <2>2, <2>8 DEF sub
  <2> QED BY <2>9, FedNext
<1> QED BY <1>1, <1>12, FedAfter

LEMMA SettleFed ==
  ASSUME Inv, WireInv, AllFed, Settles PROVE AllFed'
<1> DEFINE o == Head(core.pending_pings)
<1>1. /\ core.pending_pings # <<>> /\ core'.pending_pings = Tail(core.pending_pings)
      /\ core'.phase = core.phase /\ c2s' = c2s \o <<>> /\ server' = server /\ raised' = raised
      /\ s2c # <<>> /\ s2c' = Tail(s2c) /\ Head(s2c).op = "PONG" /\ Live(core.phase)
      /\ core'.subscriptions = IF o.kind = "Drain" THEN <<>>
                               ELSE IF o.kind = "Subscription_drain"
                               THEN remove_subscription(o.sid, core.subscriptions)
                               ELSE core.subscriptions
  BY DEF Settles, ReadsPong, Moves, Is
<1>2. c2s' = c2s /\ core.pending_pings \in Seq(Origins) /\ s2c \in Seq(ServerOps)
  BY <1>1, FedTypes
<1>3. o = core.pending_pings[1] /\ 1 \in DOMAIN core.pending_pings
  BY <1>1, <1>2
<1>4. o.kind = "Drain" => core.phase = "Draining"
  BY <1>1, <1>3 DEF Inv, Good, Consistent, Live
<1> HIDE DEF o
<1>5. ASSUME core'.phase = "Connected", NEW sid \in DOMAIN core'.subscriptions \ raised'
      PROVE  Waits(core'.pending_pings, sid) \/ FedNow(sid)'
  <2>1. /\ sid \in DOMAIN core.subscriptions \ raised
        /\ core'.subscriptions[sid] = core.subscriptions[sid]
        /\ o.kind = "Subscription_drain" => o.sid # sid
    <3>1. o.kind # "Drain"
      BY <1>1, <1>4, <1>5
    <3>2. CASE o.kind = "Subscription_drain"
      BY <1>1, <1>5, <3>1, <3>2 DEF remove_subscription
    <3>3. CASE o.kind # "Subscription_drain"
      BY <1>1, <1>5, <3>1, <3>3
    <3> QED BY <3>2, <3>3
  <2>2. CASE Waits(core.pending_pings, sid)
    <3>1. o # SubscriptionDrain(sid)
      BY <2>1 DEF SubscriptionDrain
    <3> QED BY <1>1, <1>2, <2>2, <3>1, WaitsKept DEF o
  <2>3. CASE FedNow(sid)
    <3>1. InFlight(s2c', sid) = InFlight(s2c, sid)
      BY <1>1, <1>2, FlightKept
    <3>2. Fed(core'.subscriptions[sid], server', c2s', InFlight(s2c', sid), sid)
      BY <1>1, <1>2, <2>1, <2>3, <3>1 DEF FedNow
    <3> QED BY <3>2, FedNext
  <2> QED BY <1>1, <1>5, <2>1, <2>2, <2>3 DEF AllFed
<1> QED BY <1>5, FedAfter

LEMMA DeliverFed ==
  ASSUME Inv, WireInv, AllFed, Delivers PROVE AllFed'
<1>0. PICK x : x = Head(s2c).sid
  OBVIOUS
<1> DEFINE sub == core.subscriptions[x]
           subs == Delivered(core.subscriptions, x)
<1>1. /\ core'.pending_pings = core.pending_pings /\ core'.phase = core.phase
      /\ c2s' = c2s \o <<>> /\ server' = server /\ raised' = raised /\ core'.subscriptions = subs
      /\ x \in DOMAIN core.subscriptions /\ s2c # <<>> /\ s2c' = Tail(s2c)
      /\ Head(s2c).op = "MSG"
  BY <1>0 DEF Delivers, Moves, Is
<1>2. /\ c2s' = c2s /\ s2c \in Seq(ServerOps) /\ s2c \in Seq(AllOps)
      /\ server \in [DOMAIN server -> ServerSubs] /\ c2s \in Seq(ClientOps)
  BY <1>1, FedTypes, OpsInAll
<1>3. /\ sub \in [subject : Subjects, remaining : Nat \cup {None}, delivered : Nat]
      /\ sub \in Subscription
      /\ sub.remaining = None \/ sub.remaining >= 1
  BY <1>1, CoreParts DEF Subscription, Inv, Good, Consistent
<1>4. Tail(s2c) \in Seq(AllOps)
  BY <1>1, <1>2
\* The subscription the message is for.
<1>5. ASSUME x \in DOMAIN subs
      PROVE  /\ subs[x] \in Subscription /\ subs[x].delivered = sub.delivered + 1
             /\ sub.remaining = None => subs[x].remaining = None
             /\ sub.remaining # None => subs[x].remaining = sub.remaining - 1
  <2> HIDE DEF sub
  <2>1. CASE sub.remaining = None
    <3> DEFINE d == sub.delivered + 1
               new == [sub EXCEPT !.delivered = d]
    <3>1. subs = [core.subscriptions EXCEPT ![x] = new]
      BY <2>1 DEF Delivered, sub
    <3>2. d \in Nat
      BY <1>3
    <3> HIDE DEF subs, d
    <3>3. new.delivered = d /\ new.remaining = None /\ new \in Subscription
      BY <1>3, <2>1, <3>2 DEF Subscription
    <3> HIDE DEF new
    <3>4. subs[x] = new
      BY <1>1, <3>1
    <3> QED BY <2>1, <3>3, <3>4 DEF d
  <2>2. CASE sub.remaining # None
    <3>1. sub.remaining # 1
      BY <1>5, <2>2 DEF Delivered, remove_subscription, sub
    <3> DEFINE r == sub.remaining - 1
               d == sub.delivered + 1
               new == [subject |-> sub.subject, remaining |-> r, delivered |-> d]
    <3>2. subs = [core.subscriptions EXCEPT ![x] = new]
      BY <2>2, <3>1 DEF Delivered, sub
    <3>3. d \in Nat /\ r \in Nat /\ sub.subject \in Subjects
      BY <1>3, <2>2, <3>1
    <3> HIDE DEF subs, d, r
    <3>4. new.delivered = d /\ new.remaining = r /\ new \in Subscription
      BY <3>3 DEF Subscription
    <3> HIDE DEF new
    <3>5. subs[x] = new
      BY <1>1, <3>2
    <3> QED BY <2>2, <3>4, <3>5 DEF d, r
  <2> QED BY <2>1, <2>2
<1>6. ASSUME NEW sid, sid # x, sid \in DOMAIN subs
      PROVE  sid \in DOMAIN core.subscriptions /\ subs[sid] = core.subscriptions[sid]
  <2> HIDE DEF sub
  <2> QED BY <1>6 DEF Delivered, remove_subscription
<1> HIDE DEF sub, subs
<1>7. ASSUME core'.phase = "Connected", NEW sid \in DOMAIN core'.subscriptions \ raised',
             ~Waits(core.pending_pings, sid)
      PROVE  FedNow(sid)'
  <2>1. CASE sid = x
    <3> DEFINE n == InFlight(s2c, sid)
               k == InFlight(Tail(s2c), sid)
               next == subs[sid]
    <3>1. n = k + 1 /\ k \in Nat /\ n \in Nat
      <4>1. k \in Nat /\ n \in Nat
        BY <1>2, <1>4, CountNat
      <4>2. n = k + IF Head(s2c).op = "MSG" /\ Head(s2c).sid = sid THEN 1 ELSE 0
        BY <1>1, <1>2, CountRead, Zenon
      <4> QED BY <1>0, <1>1, <2>1, <4>1, <4>2
    <3>2. Fed(sub, server, c2s, n, sid)
      BY <1>1, <1>7, <2>1 DEF AllFed, FedNow, sub
    <3>3. /\ next \in Subscription /\ next.delivered = sub.delivered + 1
          /\ sub.remaining = None => next.remaining = None
          /\ sub.remaining # None => next.remaining = sub.remaining - 1
      BY <1>1, <1>5, <1>7, <2>1
    <3> HIDE DEF n, k, next
    <3>4. Fed(next, server, c2s, k, sid)
      BY <1>2, <1>3, <3>1, <3>2, <3>3, FedDelivering
    <3>5. Fed(core'.subscriptions[sid], server', c2s', InFlight(s2c', sid), sid)
      BY <1>1, <1>2, <3>4 DEF k, next
    <3> QED BY <3>5, FedNext
  <2>2. CASE sid # x
    <3>1. InFlight(s2c', sid) = InFlight(s2c, sid)
      BY <1>0, <1>1, <1>2, <2>2, FlightKept
    <3>2. sid \in DOMAIN core.subscriptions /\ core'.subscriptions[sid] = core.subscriptions[sid]
      BY <1>1, <1>6, <1>7, <2>2
    <3>3. FedNow(sid)
      BY <1>1, <1>7, <3>2 DEF AllFed
    <3>4. Fed(core'.subscriptions[sid], server', c2s', InFlight(s2c', sid), sid)
      BY <1>1, <1>2, <3>1, <3>2, <3>3 DEF FedNow
    <3> QED BY <3>4, FedNext
  <2> QED BY <2>1, <2>2
<1> QED BY <1>1, <1>7, FedAfter

LEMMA SubscribeFed ==
  ASSUME Inv, WireInv, AllFed, NEW s \in Subjects, Subscribe(s) PROVE AllFed'
<1>0. PICK new : new = core.next_sid
  OBVIOUS
<1> DEFINE fresh == [subject |-> s, remaining |-> None, delivered |-> 0]
           subs == [x \in DOMAIN core.subscriptions \cup {new} |->
                      IF x = new THEN fresh ELSE core.subscriptions[x]]
           o == Sub(new, s)
<1>1. PICK out :
        /\ core'.phase = core.phase /\ core'.subscriptions = subs
        /\ core'.pending_pings = core.pending_pings
        /\ c2s' = c2s \o out
        /\ Negotiating(core.phase) \/ (core.phase = "Connected" /\ out = << o >>)
  BY <1>0, SubscribeMoves DEF Moves, Is
<1>2. server' = server /\ s2c' = s2c /\ raised' = raised
  BY DEF Subscribe, CallerFrame
<1>3. /\ new \in Nat \ {0} /\ new \notin DOMAIN server
      /\ c2s \in Seq(ClientOps) /\ SidsIn(c2s, new)
  BY <1>0 DEF WireInv, NamedSids, Sids
<1>4. fresh.remaining = None /\ fresh.delivered = 0
  OBVIOUS
<1>5. o \in ClientOps /\ o.op = "SUB" /\ o.sid = new
  BY <1>3 DEF ClientOps, Sub
<1> HIDE DEF fresh, o
<1>6. new \in DOMAIN subs /\ subs[new] = fresh
  OBVIOUS
<1>7. \A x \in DOMAIN subs : x # new => x \in DOMAIN core.subscriptions /\ subs[x] = core.subscriptions[x]
  OBVIOUS
<1> HIDE DEF subs
<1>8. ASSUME core'.phase = "Connected", NEW sid \in DOMAIN core'.subscriptions \ raised'
      PROVE  Waits(core'.pending_pings, sid) \/ FedNow(sid)'
  <2>1. core.phase = "Connected" /\ out = << o >>
    BY <1>1, <1>8 DEF Negotiating
  <2>2. out \in Seq(ClientOps) /\ DOMAIN out = {1} /\ out[1] = o
    BY <1>5, <2>1
  <2>3. \A x : \A i \in DOMAIN out : ~IsUnsub(out[i], x)
    BY <1>5, <2>2 DEF IsUnsub
  <2>4. CASE sid = new
    <3> DEFINE n == InFlight(s2c, sid)
    <3>1. n \in Nat
      BY FedTypes
    <3>2. Range(c2s') = Range(c2s) \cup Range(out)
      BY <1>1, <1>3, <2>2, Joined
    <3>3. \A i \in DOMAIN c2s' : ~IsUnsub(c2s'[i], sid)
      <4>1. ASSUME NEW i \in DOMAIN c2s' PROVE ~IsUnsub(c2s'[i], sid)
        <5>1. c2s'[i] \in Range(c2s) \/ c2s'[i] \in Range(out)
          BY <3>2 DEF Range
        <5>2. CASE c2s'[i] \in Range(c2s)
          <6>1. PICK j \in DOMAIN c2s : c2s[j] = c2s'[i]
            BY <5>2 DEF Range
          <6>2. c2s[j].op = "UNSUB" => c2s[j].sid < new /\ c2s[j].sid \in Nat
            BY <1>3, SidsAreNat DEF SidsIn
          <6> QED BY <1>3, <2>4, <6>1, <6>2 DEF IsUnsub
        <5>3. CASE c2s'[i] \in Range(out)
          BY <2>3, <5>3 DEF Range
        <5> QED BY <5>1, <5>2, <5>3
      <4> QED BY <4>1
    <3>4. \E i \in DOMAIN c2s' : IsSub(c2s'[i], sid)
      <4>1. o \in Range(out)
        BY <2>2 DEF Range
      <4>2. IsSub(o, sid) /\ o \in Range(c2s')
        BY <1>5, <2>4, <3>2, <4>1 DEF IsSub
      <4> QED BY <4>2 DEF Range
    <3>5. SentTo(server', sid) = 0 /\ sid \notin DOMAIN server'
      BY <1>2, <1>3, <2>4 DEF SentTo
    <3>6. n + fresh.delivered >= 0
      BY <1>4, <3>1
    <3> HIDE DEF n
    <3>7. Fed(fresh, server', c2s', n, sid)
      BY <3>3, <3>4, <3>5, <3>6 DEF Fed
    <3>8. Fed(core'.subscriptions[sid], server', c2s', InFlight(s2c', sid), sid)
      BY <1>1, <1>2, <1>6, <2>4, <3>7 DEF n
    <3> QED BY <3>8, FedNext
  <2>5. CASE sid # new
    BY <1>1, <1>2, <1>7, <1>8, <2>1, <2>2, <2>3, <2>5, FedApart
  <2> QED BY <2>4, <2>5
<1> QED BY <1>8, FedAfter

\* Both kinds of unsubscribe.  A quota that replaces another is no larger,
\* or the sid is raised.
LEMMA UnsubscribeFed ==
  ASSUME Inv, WireInv, QuotaInv, AllFed, NEW sid \in 1..MaxSid, NEW m \in Nat \cup {None},
         UnsubscribeMoves(sid, m), server' = server, s2c' = s2c, raised \subseteq raised',
         sid \in raised' \/ granted[sid] = None \/ m = None \/ m <= granted[sid]
  PROVE  AllFed'
<1> DEFINE sub == core.subscriptions[sid]
           ends == m = None \/ sub.delivered >= m
           subs == IF ends THEN remove_subscription(sid, core.subscriptions)
                   ELSE [core.subscriptions EXCEPT ![sid].remaining = m - sub.delivered]
           w == IF ends THEN None ELSE m
           o == Unsub(sid, w)
<1>1. PICK out :
        /\ sid \in DOMAIN core.subscriptions
        /\ core'.phase = core.phase /\ core'.subscriptions = subs
        /\ core'.pending_pings = core.pending_pings /\ c2s' = c2s \o out
        /\ Negotiating(core.phase) \/ (core.phase = "Connected" /\ out = << o >>)
  BY DEF UnsubscribeMoves, Moves, Is
<1>2. w \in Nat \cup {None}
  OBVIOUS
<1>3. \A x \in DOMAIN subs : x # sid =>
        x \in DOMAIN core.subscriptions /\ subs[x] = core.subscriptions[x]
  <2> HIDE DEF ends, sub
  <2> QED BY DEF remove_subscription
<1>4. ends => sid \notin DOMAIN subs
  BY DEF remove_subscription
<1>5. /\ sub \in [subject : Subjects, remaining : Nat \cup {None}, delivered : Nat]
      /\ sub \in Subscription
  BY <1>1, CoreParts DEF Subscription
<1>6. /\ server \in [DOMAIN server -> ServerSubs] /\ c2s \in Seq(ClientOps)
      /\ None \notin Int /\ received \in [1..MaxSid -> Nat]
  BY FedTypes, Histories
<1>7. /\ sub.delivered = received[sid] /\ (granted[sid] = None <=> sub.remaining = None)
      /\ granted[sid] # None => received[sid] + sub.remaining = granted[sid]
  BY <1>1 DEF QuotaInv, QuotaOf
<1>8. o \in ClientOps /\ o.op = "UNSUB" /\ o.sid = sid /\ o.max = w
  BY <1>2 DEF ClientOps, Unsub
<1>9. ASSUME ~ends
      PROVE  LET less == subs[sid]
             IN  /\ m \in Nat /\ m # None /\ w = m /\ less \in Subscription
                 /\ less.delivered = sub.delivered /\ less.remaining = m - sub.delivered
                 /\ less.remaining # None
  <2> DEFINE r == m - sub.delivered
             new == [sub EXCEPT !.remaining = r]
  <2>1. m \in Nat /\ m # None /\ ~(sub.delivered >= m) /\ w = m
    BY <1>9
  <2>2. subs = [core.subscriptions EXCEPT ![sid] = new]
    BY <1>9
  <2> HIDE DEF sub, subs, ends, w
  <2>3. r \in Nat /\ r # None
    BY <1>5, <1>6, <2>1
  <2> HIDE DEF r
  <2>4. new \in Subscription /\ new.delivered = sub.delivered /\ new.remaining = r
    BY <1>5, <2>3 DEF Subscription
  <2> HIDE DEF new
  <2>5. subs[sid] = new
    BY <1>1, <2>2
  <2> QED BY <2>1, <2>3, <2>4, <2>5 DEF r
<1> HIDE DEF w, subs, sub, o
<1>10. ASSUME core'.phase = "Connected", NEW x \in DOMAIN core'.subscriptions \ raised'
       PROVE  Waits(core'.pending_pings, x) \/ FedNow(x)'
  <2>1. core.phase = "Connected" /\ out = << o >> /\ x \notin raised
    BY <1>1, <1>10 DEF Negotiating
  <2>2. out \in Seq(ClientOps) /\ DOMAIN out = {1} /\ out[1] = o
    BY <1>8, <2>1
  <2>3. CASE x # sid
    <3>1. \A i \in DOMAIN out : ~IsUnsub(out[i], x)
      BY <1>8, <2>2, <2>3 DEF IsUnsub
    <3> QED BY <1>1, <1>3, <1>10, <2>1, <2>2, <2>3, <3>1, FedApart
  <2>4. CASE x = sid /\ ~Waits(core.pending_pings, sid)
    <3> DEFINE less == subs[sid]
               n == InFlight(s2c, sid)
    <3>0. n \in Nat
      BY FedTypes
    <3>1. ~ends
      BY <1>1, <1>4, <1>10, <2>4
    <3>2. /\ m \in Nat /\ m # None /\ w = m /\ less \in Subscription
          /\ less.delivered = sub.delivered /\ less.remaining = m - sub.delivered
          /\ less.remaining # None
      BY <1>9, <3>1
    <3>3. Fed(sub, server, c2s, n, sid)
      BY <1>1, <2>1, <2>4 DEF AllFed, FedNow, sub
    <3> HIDE DEF less, n, ends
    <3>4. sub.remaining # None => less.remaining <= sub.remaining
      <4>1. SUFFICES ASSUME sub.remaining # None PROVE less.remaining <= sub.remaining
        OBVIOUS
      <4>2. m <= granted[sid] /\ granted[sid] = received[sid] + sub.remaining
        BY <1>7, <1>10, <2>4, <3>2, <4>1
      <4> DEFINE a == sub.remaining
                 b == less.remaining
                 d == sub.delivered
                 g == granted[sid]
      <4>3. a \in Nat /\ d \in Nat /\ m <= g /\ g = d + a /\ b = m - d
        BY <1>5, <1>7, <3>2, <4>1, <4>2
      <4> HIDE DEF a, b, d, g
      <4>4. b <= a
        BY <3>2, <4>3
      <4> QED BY <4>4 DEF a, b
    <3>5. \A i \in DOMAIN c2s : IsUnsub(c2s[i], sid) => c2s[i].max \in Nat \cup {None}
      BY <1>6 DEF IsUnsub, ClientOps
    <3>6. Fed(less, server, c2s, n, sid)
      BY <1>5, <1>6, <3>0, <3>2, <3>3, <3>4, <3>5, FedSmaller
    <3>7. Enough(less, m, n, SentTo(server, sid))
      <4>1. n + sub.delivered >= SentTo(server, sid) /\ SentTo(server, sid) \in Nat
        BY <1>6, <3>3 DEF Fed, SentTo, ServerSubs
      <4> DEFINE s == SentTo(server, sid)
                 b == less.remaining
                 d == sub.delivered
      <4>2. d \in Nat /\ b = m - d /\ s \in Nat /\ n + d >= s
        BY <1>5, <3>2, <4>1
      <4> HIDE DEF s, b, d
      <4>3. m + n - s >= b
        BY <3>0, <3>2, <4>2
      <4> QED BY <3>2, <4>3 DEF Enough, s, b
    <3>8. \A i \in DOMAIN out : IsUnsub(out[i], sid) =>
            Enough(less, out[i].max, n, SentTo(server, sid))
      BY <1>8, <2>2, <3>2, <3>7
    <3>9. Fed(less, server, c2s \o out, n, sid)
      BY <1>6, <2>2, <3>6, <3>8, FedWriting
    <3>10. Fed(core'.subscriptions[x], server', c2s', InFlight(s2c', x), x)
      BY <1>1, <2>4, <3>9 DEF less, n
    <3> QED BY <3>10, FedNext
  <2> QED BY <1>1, <2>3, <2>4
<1> QED BY <1>10, FedAfter

LEMMA DrainSubscriptionFed ==
  ASSUME Inv, WireInv, AllFed, NEW sid \in 1..MaxSid, DrainSubscription(sid) PROVE AllFed'
<1> DEFINE a == Unsub(sid, None)
           out == << a, Ping >>
           o == SubscriptionDrain(sid)
<1>1. /\ core.phase = "Connected" /\ core'.subscriptions = core.subscriptions
      /\ core'.pending_pings = Append(core.pending_pings, o) /\ c2s' = c2s \o out
      /\ server' = server /\ s2c' = s2c /\ raised' = raised
      /\ sid \in DOMAIN core.subscriptions
  BY DrainSubscriptionMoves DEF DrainSubscription, CallerFrame, Moves, Is
<1>2. a \in ClientOps /\ \A x : x # sid => ~IsUnsub(a, x)
  BY DEF ClientOps, Unsub, IsUnsub
<1>3. Ping \in ClientOps /\ \A x : ~IsUnsub(Ping, x)
  BY WrittenOps DEF IsUnsub
<1>4. o \in Origins /\ core.pending_pings \in Seq(Origins)
  <2>1. sid \in Nat
    OBVIOUS
  <2> QED BY <2>1, FedTypes DEF SubscriptionDrain, Origins
<1> HIDE DEF a
<1>5. out \in Seq(ClientOps) /\ DOMAIN out = {1, 2} /\ out[1] = a /\ out[2] = Ping
  BY <1>2, <1>3
<1> HIDE DEF out
<1>6. ASSUME NEW x \in DOMAIN core'.subscriptions \ raised'
      PROVE  Waits(core'.pending_pings, x) \/ FedNow(x)'
  <2>1. CASE x = sid
    <3> DEFINE p == Append(core.pending_pings, o)
               i == Len(core.pending_pings) + 1
    <3>1. i \in DOMAIN p /\ p[i] = o
      BY <1>4
    <3> HIDE DEF p, i
    <3>2. Waits(p, x)
      BY <2>1, <3>1 DEF Waits
    <3> QED BY <1>1, <3>2 DEF p
  <2>2. CASE x # sid
    <3>1. \A i \in DOMAIN out : ~IsUnsub(out[i], x)
      BY <1>2, <1>3, <1>5, <2>2
    <3> HIDE DEF o
    <3> QED BY <1>1, <1>4, <1>5, <1>6, <3>1, FedApart
  <2> QED BY <2>1, <2>2
<1> QED BY <1>6, FedAfter

LEMMA HandleFed ==
  ASSUME Inv, WireInv, AllFed, ServerHandle PROVE AllFed'
<1> DEFINE o == Head(c2s)
<1>1. /\ c2s # <<>> /\ c2s' = Tail(c2s) /\ server' = ServerDoes(server, o)
      /\ s2c' = IF o.op = "PING" THEN Append(s2c, Pong) ELSE s2c
      /\ UNCHANGED << core, raised >>
  BY DEF ServerHandle, ServerFrame
<1>2. /\ server \in [DOMAIN server -> ServerSubs] /\ c2s \in Seq(ClientOps)
      /\ s2c \in Seq(ServerOps)
  BY FedTypes
<1>3. \A sid : InFlight(s2c', sid) = InFlight(s2c, sid)
  <2>1. Pong \in ServerOps /\ Pong.op # "MSG"
    BY DEF ServerOps, Pong
  <2> HIDE DEF o
  <2> QED BY <1>1, <1>2, <2>1, FlightKept
<1>4. ASSUME core.phase = "Connected", NEW sid \in DOMAIN core.subscriptions \ raised,
             ~Waits(core.pending_pings, sid)
      PROVE  FedNow(sid)'
  <2> DEFINE sub == core.subscriptions[sid]
             n == InFlight(s2c, sid)
  <2>1. sub \in Subscription /\ n \in Nat /\ Fed(sub, server, c2s, n, sid)
    BY <1>4, FedTypes DEF AllFed, FedNow
  <2> HIDE DEF sub, n
  <2>2. Fed(sub, ServerDoes(server, Head(c2s)), Tail(c2s), n, sid)
    BY <1>1, <1>2, <2>1, FedHandling
  <2>3. Fed(core'.subscriptions[sid], server', c2s', InFlight(s2c', sid), sid)
    BY <1>1, <1>3, <2>2 DEF sub, n
  <2> QED BY <2>3, FedNext
<1> QED BY <1>1, <1>4, FedAfter

LEMMA SendFed ==
  ASSUME Inv, WireInv, AllFed, NEW x \in 1..MaxSid, ServerSend(x) PROVE AllFed'
<1> DEFINE msg == [op |-> "MSG", sid |-> x]
<1>1. /\ x \in DOMAIN server /\ server' = ServerSent(server, x) /\ c2s' = c2s
      /\ s2c' = Append(s2c, msg) /\ UNCHANGED << core, raised >>
  BY DEF ServerSend, ServerFrame
<1>2. /\ server \in [DOMAIN server -> ServerSubs] /\ c2s \in Seq(ClientOps)
      /\ s2c \in Seq(AllOps)
  BY FedTypes, OpsInAll
<1>3. msg \in AllOps /\ msg.op = "MSG" /\ msg.sid = x
  BY DEF AllOps, ServerOps
<1> HIDE DEF msg
<1>4. ASSUME core.phase = "Connected", NEW sid \in DOMAIN core.subscriptions \ raised,
             ~Waits(core.pending_pings, sid)
      PROVE  FedNow(sid)'
  <2> DEFINE sub == core.subscriptions[sid]
             n == InFlight(s2c, sid)
             k == n + IF x = sid THEN 1 ELSE 0
  <2>1. sub \in Subscription /\ n \in Nat /\ Fed(sub, server, c2s, n, sid)
    BY <1>4, FedTypes DEF AllFed, FedNow
  <2>2. InFlight(s2c', sid) = k
    <3>1. InFlight(Append(s2c, msg), sid)
            = InFlight(s2c, sid) + IF msg.op = "MSG" /\ msg.sid = sid THEN 1 ELSE 0
      BY <1>2, <1>3, CountAppended, Zenon
    <3> QED BY <1>1, <1>3, <3>1
  <2> HIDE DEF sub, n
  <2>3. Fed(sub, ServerSent(server, x), c2s, k, sid)
    BY <1>1, <1>2, <2>1, FedSending
  <2>4. Fed(core'.subscriptions[sid], server', c2s', InFlight(s2c', sid), sid)
    <3> HIDE DEF k
    <3> QED BY <1>1, <2>2, <2>3 DEF sub
  <2> QED BY <2>4, FedNext
<1> QED BY <1>1, <1>4, FedAfter

LEMMA NextFed ==
  ASSUME Inv, WireInv, QuotaInv, AllFed, [Next]_vars PROVE AllFed'
<1>1. CASE SubscriptionSteps
  <2>1. ASSUME NEW sid \in 1..MaxSid, Unsubscribe(sid) PROVE AllFed'
    <3> DEFINE m == None
    <3>1. /\ Apply(outgoing_unsubscribe(core, sid, m)) /\ server' = server /\ s2c' = s2c
          /\ raised' = raised /\ m = None
      BY <2>1 DEF Unsubscribe, CallerFrame
    <3> HIDE DEF m
    <3>2. UnsubscribeMoves(sid, m)
      BY <3>1, OutgoingUnsubscribeMoves
    <3> QED BY <3>1, <3>2, UnsubscribeFed
  <2>2. ASSUME NEW sid \in 1..MaxSid, NEW n \in Quotas, AutoUnsubscribe(sid, n)
        PROVE  AllFed'
    <3>1. n \in Int
      BY BoundsAssumption
    <3>2. n > 0 /\ UnsubscribeMoves(sid, n)
      BY <2>2, <3>1, AutoUnsubscribeMoves
    <3>3. /\ n \in Nat /\ server' = server /\ s2c' = s2c
          /\ raised' = IF granted[sid] # None /\ n > granted[sid]
                       THEN raised \cup {sid} ELSE raised
      BY <2>2, <3>1, <3>2 DEF AutoUnsubscribe, CallerFrame
    <3>4. granted[sid] = None \/ granted[sid] \in Nat
      BY Histories
    <3>5. raised \subseteq raised' /\ (sid \in raised' \/ granted[sid] = None \/ n <= granted[sid])
      BY <3>3, <3>4
    <3> QED BY <3>2, <3>3, <3>5, UnsubscribeFed
  <2>3. ASSUME ~Live(core'.phase) \/ core'.phase = "Draining" PROVE AllFed'
    BY <2>3 DEF AllFed, Live
  <2>4. CASE Dark
    BY <2>3, <2>4 DEF Dark
  <2>5. CASE Drain
    BY <2>3, <2>5, DrainMoves DEF Moves, Is
  <2> QED
    BY <1>1, <2>1, <2>2, <2>4, <2>5, QuietFed, ConnectFed, SettleFed, DeliverFed,
       SubscribeFed, DrainSubscriptionFed, HandleFed, SendFed
       DEF SubscriptionSteps
<1>2. CASE UNCHANGED vars
  <2>1. UNCHANGED << core, server, c2s, s2c, raised >>
    BY <1>2 DEF vars
  <2>2. ASSUME core.phase = "Connected", NEW sid \in DOMAIN core.subscriptions \ raised,
               ~Waits(core.pending_pings, sid)
        PROVE  FedNow(sid)'
    <3>1. Fed(core'.subscriptions[sid], server', c2s', InFlight(s2c', sid), sid)
      BY <2>1, <2>2 DEF AllFed, FedNow
    <3> QED BY <3>1, FedNext
  <2> QED BY <2>1, <2>2, FedAfter
<1> QED BY <1>1, <1>2, MoveSteps

LEMMA FedInv == Spec => [](Inv /\ WireInv /\ QuotaInv /\ AllFed)
<1>1. Init => Inv /\ WireInv /\ QuotaInv /\ AllFed
  <2>1. Init => AllFed
    BY DEF Init, v, AllFed
  <2> QED BY <2>1, InitInv, InitWire, InitQuota
<1>2. Inv /\ WireInv /\ QuotaInv /\ AllFed /\ [Next]_vars
        => (Inv /\ WireInv /\ QuotaInv /\ AllFed)'
  BY NextInv, NextWire, NextQuota, NextFed
<1> QED BY <1>1, <1>2, PTL DEF Spec

\* Neither the replay of outgoing_connect, which asks a new server for the
\* remaining messages only, nor outgoing_auto_unsubscribe, which asks for the
\* total, leaves a reader waiting for messages that the server will never
\* send, whatever was in flight when the quota was set.
THEOREM EveryoneServed == Spec => []SubscriptionServed
<1>1. ASSUME Inv, WireInv, AllFed PROVE SubscriptionServed
  <2>1. SUFFICES ASSUME Connected, c2s = <<>>, NEW sid \in DOMAIN core.subscriptions \ raised
                 PROVE  \/ sid \in DOMAIN server
                        \/ /\ core.subscriptions[sid].remaining # None
                           /\ InFlight(s2c, sid) >= core.subscriptions[sid].remaining
                        \/ DrainPending(sid)
    BY DEF SubscriptionServed
  <2>2. Waits(core.pending_pings, sid) \/ FedNow(sid)
    BY <1>1, <2>1 DEF AllFed, Connected
  <2>3. Waits(core.pending_pings, sid) => DrainPending(sid)
    BY DEF Waits, DrainPending
  <2>4. DOMAIN c2s = {}
    BY <2>1
  <2> QED BY <2>2, <2>3, <2>4 DEF FedNow, Fed
<1>2. Inv /\ WireInv /\ QuotaInv /\ AllFed => SubscriptionServed
  BY <1>1
<1> QED BY <1>2, FedInv, PTL

-----------------------------------------------------------------------------
(* What a drain waits for.                                                 *)

\* Every message to sid on its way is ahead of the k-th PONG.
ReadBefore(in, k, sid) ==
  \A m \in 1..Len(in) : in[m].op = "MSG" /\ in[m].sid = sid
                          => Count(Upto(in, m), "PONG") < k

\* The server has ended sid for good by the time it answers the k-th PING.
EndedBefore(in, ops, srv, k, sid) ==
  \/ sid \notin DOMAIN srv /\ NoSub(ops, sid)
  \/ \E u \in 1..Len(ops) :
       /\ ops[u] = Unsub(sid, None)
       /\ \A j \in 1..Len(ops) : j > u => ~IsSub(ops[j], sid)
       /\ Count(in, "PONG") + Count(Upto(ops, u), "PING") < k

Cut(in, ops, srv, k, sid) ==
  ReadBefore(in, k, sid) /\ EndedBefore(in, ops, srv, k, sid)

\* The subscriptions a barrier speaks for.
Covers(origin, subs, sid) ==
  \/ origin.kind = "Subscription_drain" /\ sid = origin.sid
  \/ origin.kind = "Drain" /\ sid \in DOMAIN subs

\* Each subscription that the k-th barrier drains is cut off before the k-th
\* PONG, and one that is being drained has its barrier.
DrainsCut ==
  /\ \A k \in DOMAIN core.pending_pings, sid \in 1..MaxSid :
       Covers(core.pending_pings[k], core.subscriptions, sid)
         => Cut(s2c, c2s, server, k, sid)
  /\ Live(core.phase) => \A sid \in core.draining : Waits(core.pending_pings, sid)

LEMMA CountUpto ==
  ASSUME NEW s \in Seq(AllOps), NEW n \in 0..Len(s), NEW op
  PROVE  /\ Upto(s, n) \in Seq(AllOps)
         /\ Count(Upto(s, n), op) \in Nat /\ Count(s, op) \in Nat
         /\ Count(Upto(s, n), op) <= Count(s, op)
         /\ n = Len(s) => Count(Upto(s, n), op) = Count(s, op)
         /\ n > 0 => Count(Upto(s, n), op) = Count(Upto(Tail(s), n - 1), op)
                                             + IF Head(s).op = op THEN 1 ELSE 0
<1> DEFINE T == AllOps
<1> HIDE DEF T
<1>0. s \in Seq(T)
  BY DEF T
<1>1. Upto(s, n) \in Seq(T) /\ (n = Len(s) => Upto(s, n) = s)
  BY <1>0, UptoIs
<1>2. CountIn(Upto(s, n), Named(op)) <= CountIn(s, Named(op))
  BY <1>0, UptoCounts
<1>3. Upto(s, n) \in Seq(AllOps)
  BY <1>1 DEF T
<1>4. Count(Upto(s, n), op) = CountIn(Upto(s, n), Named(op)) /\ Count(s, op) = CountIn(s, Named(op))
  BY <1>3, CountIs, Zenon
<1>5. Count(Upto(s, n), op) \in Nat /\ Count(s, op) \in Nat
  BY <1>3, CountNat, Zenon
<1>6. ASSUME n > 0
      PROVE  Count(Upto(s, n), op) = Count(Upto(Tail(s), n - 1), op)
                                     + IF Head(s).op = op THEN 1 ELSE 0
  <2> DEFINE u == Upto(s, n)
  <2>1. n \in 1..Len(s)
    BY <1>0, <1>6
  <2>2. u # <<>> /\ Head(u) = Head(s) /\ Tail(u) = Upto(Tail(s), n - 1)
    BY <1>0, <2>1, UptoTail
  <2>3. Count(u, op) = Count(Tail(u), op) + IF Head(u).op = op THEN 1 ELSE 0
    BY <1>3, <2>2, CountRead, Zenon
  <2> HIDE DEF u
  <2>4. Count(u, op) = Count(Upto(Tail(s), n - 1), op) + IF Head(s).op = op THEN 1 ELSE 0
    BY <2>2, <2>3
  <2> QED BY <2>4 DEF u
<1> QED BY <1>1, <1>2, <1>3, <1>4, <1>5, <1>6

\* A later barrier covers all that an earlier one does.
LEMMA CutLater ==
  ASSUME NEW in \in Seq(ServerOps), NEW ops \in Seq(ClientOps), NEW srv, NEW sid,
         NEW j \in Nat, NEW k \in Nat, j <= k, Cut(in, ops, srv, j, sid)
  PROVE  Cut(in, ops, srv, k, sid)
<1>1. in \in Seq(AllOps) /\ ops \in Seq(AllOps)
  BY OpsInAll
<1>2. Count(in, "PONG") \in Nat
  BY <1>1, CountNat
<1>3. ASSUME NEW m \in 1..Len(in), Count(Upto(in, m), "PONG") < j
      PROVE  Count(Upto(in, m), "PONG") < k
  <2>1. m \in 0..Len(in)
    OBVIOUS
  <2>2. Count(Upto(in, m), "PONG") \in Nat
    BY <1>1, <2>1, CountUpto
  <2> QED BY <1>3, <2>2
<1>4. ASSUME NEW u \in 1..Len(ops), Count(in, "PONG") + Count(Upto(ops, u), "PING") < j
      PROVE  Count(in, "PONG") + Count(Upto(ops, u), "PING") < k
  <2>1. u \in 0..Len(ops)
    OBVIOUS
  <2>2. Count(Upto(ops, u), "PING") \in Nat
    BY <1>1, <2>1, CountUpto
  <2> QED BY <1>2, <1>4, <2>2
<1>5. ReadBefore(in, k, sid)
  BY <1>3 DEF Cut, ReadBefore
<1>6. EndedBefore(in, ops, srv, k, sid)
  BY <1>4 DEF Cut, EndedBefore
<1> QED BY <1>5, <1>6 DEF Cut

\* Something is read: the barriers behind a PONG move up by one.
LEMMA CutReads ==
  ASSUME NEW in \in Seq(ServerOps), NEW ops \in Seq(ClientOps), NEW srv, NEW sid,
         NEW k \in Nat, in # <<>>, Cut(in, ops, srv, k, sid)
  PROVE  Cut(Tail(in), ops, srv, IF Head(in).op = "PONG" THEN k - 1 ELSE k, sid)
<1> DEFINE l == IF Head(in).op = "PONG" THEN k - 1 ELSE k
           t == Tail(in)
<1>1. in \in Seq(AllOps) /\ ops \in Seq(AllOps)
  BY OpsInAll
<1>2. Count(in, "PONG") = Count(t, "PONG") + IF Head(in).op = "PONG" THEN 1 ELSE 0
  BY <1>1, CountRead, Zenon
<1>3. Len(t) \in Nat /\ \A m \in 1..Len(t) : /\ m + 1 \in 1..Len(in) /\ m + 1 \in 0..Len(in)
                                             /\ t[m] = in[m + 1] /\ m \in 0..Len(t)
  <2> HIDE DEF ServerOps
  <2> QED OBVIOUS
<1>4. t \in Seq(AllOps)
  <2> HIDE DEF AllOps
  <2> QED BY <1>1
<1>5. Count(t, "PONG") \in Nat
  BY <1>4, CountNat
<1> HIDE DEF t
<1>6. ReadBefore(t, l, sid)
  <2>1. SUFFICES ASSUME NEW m \in 1..Len(t), t[m].op = "MSG", t[m].sid = sid
                 PROVE  Count(Upto(t, m), "PONG") < l
    BY DEF ReadBefore
  <2>2. Count(Upto(in, m + 1), "PONG") < k
    BY <1>3, <2>1 DEF Cut, ReadBefore
  <2>3. Count(Upto(in, m + 1), "PONG") = Count(Upto(t, m), "PONG")
                                         + IF Head(in).op = "PONG" THEN 1 ELSE 0
    <3>1. m + 1 \in 0..Len(in) /\ m + 1 > 0 /\ (m + 1) - 1 = m
      BY <1>3
    <3> QED BY <1>1, <3>1, CountUpto DEF t
  <2>4. Count(Upto(t, m), "PONG") \in Nat
    BY <1>3, <1>4, CountUpto
  <2> QED BY <2>2, <2>3, <2>4
<1>7. EndedBefore(t, ops, srv, l, sid)
  <2>1. CASE sid \notin DOMAIN srv /\ NoSub(ops, sid)
    BY <2>1 DEF EndedBefore
  <2>2. ASSUME NEW u \in 1..Len(ops), ops[u] = Unsub(sid, None),
               \A j \in 1..Len(ops) : j > u => ~IsSub(ops[j], sid),
               Count(in, "PONG") + Count(Upto(ops, u), "PING") < k
        PROVE  EndedBefore(t, ops, srv, l, sid)
    <3>1. u \in 0..Len(ops)
      OBVIOUS
    <3>2. Count(Upto(ops, u), "PING") \in Nat
      BY <1>1, <3>1, CountUpto
    <3>3. Count(t, "PONG") + Count(Upto(ops, u), "PING") < l
      BY <1>2, <1>5, <2>2, <3>2
    <3> HIDE DEF l
    <3> QED BY <2>2, <3>3, Zenon DEF EndedBefore
  <2> QED BY <2>1, <2>2 DEF Cut, EndedBefore
<1> QED BY <1>6, <1>7 DEF Cut, t

\* Something arrives that is no PONG, and a message only from a subscription
\* the server still has.
LEMMA CutArrives ==
  ASSUME NEW in \in Seq(ServerOps), NEW ops \in Seq(ClientOps), NEW srv, NEW srv2, NEW sid,
         NEW k \in Nat, Cut(in, ops, srv, k, sid), NEW o \in ServerOps, o.op # "PONG",
         o.op = "MSG" /\ o.sid = sid => sid \in DOMAIN srv, DOMAIN srv2 \subseteq DOMAIN srv
  PROVE  Cut(Append(in, o), ops, srv2, k, sid)
<1> DEFINE w == Append(in, o)
           n == Len(in)
<1>1. in \in Seq(AllOps) /\ ops \in Seq(AllOps) /\ o \in AllOps
  BY OpsInAll DEF AllOps
<1>2. w \in Seq(AllOps)
  <2> HIDE DEF AllOps
  <2> QED BY <1>1
<1>3. Count(w, "PONG") = Count(in, "PONG") /\ Count(in, "PONG") \in Nat
  <2>1. Count(w, "PONG") = Count(in, "PONG") + IF o.op = "PONG" THEN 1 ELSE 0
    BY <1>1, CountAppended, Zenon
  <2> QED BY <1>1, <2>1, CountNat
<1>4. n \in Nat /\ Len(w) = n + 1 /\ w[n + 1] = o /\ \A m \in 1..n : w[m] = in[m]
  <2> HIDE DEF ServerOps
  <2> QED OBVIOUS
<1>5. \A m \in 1..n : m \in 0..n /\ Upto(w, m) = Upto(in, m)
  <2> DEFINE T == AllOps
  <2> HIDE DEF T
  <2>1. in \in Seq(T) /\ o \in T
    BY <1>1 DEF T
  <2> QED BY <2>1, UptoGrows
<1>6. Count(Upto(w, n + 1), "PONG") = Count(in, "PONG")
  <2>1. n + 1 \in 0..Len(w)
    BY <1>4
  <2> HIDE DEF w
  <2> QED BY <1>2, <1>3, <1>4, <2>1, CountUpto
<1> HIDE DEF w, n
<1>7. EndedBefore(w, ops, srv2, k, sid)
  BY <1>3 DEF Cut, EndedBefore
<1>8. ASSUME sid \in DOMAIN srv PROVE Count(in, "PONG") < k
  <2>1. PICK u \in 1..Len(ops) : Count(in, "PONG") + Count(Upto(ops, u), "PING") < k
    BY <1>8 DEF Cut, EndedBefore
  <2>2. u \in 0..Len(ops)
    OBVIOUS
  <2>3. Count(Upto(ops, u), "PING") \in Nat
    BY <1>1, <2>2, CountUpto
  <2> QED BY <1>3, <2>1, <2>3
<1>9. ReadBefore(w, k, sid)
  <2>1. SUFFICES ASSUME NEW m \in 1..Len(w), w[m].op = "MSG", w[m].sid = sid
                 PROVE  Count(Upto(w, m), "PONG") < k
    BY DEF ReadBefore
  <2>2. CASE m \in 1..n
    BY <1>4, <1>5, <2>1, <2>2 DEF Cut, ReadBefore, n
  <2>3. CASE m = n + 1
    BY <1>4, <1>6, <1>8, <2>1, <2>3
  <2> QED BY <1>4, <2>2, <2>3
<1> QED BY <1>7, <1>9 DEF Cut, w

\* Something is written that does not subscribe sid again.
LEMMA CutWrites ==
  ASSUME NEW in \in Seq(ServerOps), NEW ops \in Seq(ClientOps), NEW srv, NEW sid,
         NEW k \in Nat, Cut(in, ops, srv, k, sid), NEW out \in Seq(ClientOps), NoSub(out, sid)
  PROVE  Cut(in, ops \o out, srv, k, sid)
<1> DEFINE w == ops \o out
           T == ClientOps
<1> HIDE DEF T
<1>1. ops \in Seq(T) /\ out \in Seq(T)
  BY DEF T
<1>2. /\ Len(w) = Len(ops) + Len(out) /\ Len(ops) \in Nat /\ Len(out) \in Nat
      /\ DOMAIN out = 1..Len(out)
      /\ \A u \in 1..Len(ops) : u \in 1..Len(w) /\ w[u] = ops[u] /\ u \in 0..Len(ops)
      /\ \A u \in 1..Len(w) : u \in 1..Len(ops)
           \/ (u - Len(ops) \in 1..Len(out) /\ w[u] = out[u - Len(ops)])
  BY <1>1
<1>3. \A u \in 1..Len(ops) : Upto(w, u) = Upto(ops, u)
  BY <1>1, <1>2, UptoGrows
<1>4. CASE sid \notin DOMAIN srv /\ NoSub(ops, sid)
  <2>1. NoSub(w, sid)
    BY <1>1, <1>4, NoSubConcat
  <2> QED BY <1>4, <2>1 DEF Cut, EndedBefore
<1>5. ASSUME NEW u \in 1..Len(ops), ops[u] = Unsub(sid, None),
             \A j \in 1..Len(ops) : j > u => ~IsSub(ops[j], sid),
             Count(in, "PONG") + Count(Upto(ops, u), "PING") < k
      PROVE  EndedBefore(in, w, srv, k, sid)
  <2> HIDE DEF w
  <2>1. ASSUME NEW j \in 1..Len(w), j > u PROVE ~IsSub(w[j], sid)
    <3>1. CASE j \in 1..Len(ops)
      BY <1>2, <1>5, <2>1, <3>1
    <3>2. CASE j - Len(ops) \in 1..Len(out) /\ w[j] = out[j - Len(ops)]
      BY <1>2, <3>2 DEF NoSub
    <3> QED BY <1>2, <3>1, <3>2
  <2>2. u \in 1..Len(w) /\ w[u] = Unsub(sid, None) /\ Upto(w, u) = Upto(ops, u)
    BY <1>2, <1>3, <1>5
  <2> QED BY <1>5, <2>1, <2>2 DEF EndedBefore
<1> QED BY <1>4, <1>5 DEF Cut, EndedBefore

\* The server handles the oldest operation: a PING turns into its PONG.
LEMMA CutHandles ==
  ASSUME NEW in \in Seq(ServerOps), NEW ops \in Seq(ClientOps), ops # <<>>,
         NEW srv, srv \in [DOMAIN srv -> ServerSubs], NEW sid, NEW k \in Nat,
         Cut(in, ops, srv, k, sid)
  PROVE  Cut(IF Head(ops).op = "PING" THEN Append(in, Pong) ELSE in, Tail(ops),
             ServerDoes(srv, Head(ops)), k, sid)
<1> DEFINE o == Head(ops)
           t == Tail(ops)
           w == IF o.op = "PING" THEN Append(in, Pong) ELSE in
           new == ServerDoes(srv, o)
           one == IF o.op = "PING" THEN 1 ELSE 0
<1>1. in \in Seq(AllOps) /\ ops \in Seq(AllOps) /\ Pong \in AllOps /\ Pong.op = "PONG"
  BY OpsInAll, WrittenOps DEF AllOps
<1>2. /\ o \in ClientOps /\ Len(t) \in Nat /\ Len(ops) = Len(t) + 1 /\ o = ops[1]
      /\ DOMAIN t = 1..Len(t) /\ \A j \in 1..Len(t) : j + 1 \in 1..Len(ops) /\ t[j] = ops[j + 1]
  <2> HIDE DEF ClientOps
  <2> QED OBVIOUS
<1>3. Count(in, "PONG") \in Nat /\ Count(w, "PONG") = Count(in, "PONG") + one
  <2>1. Count(Append(in, Pong), "PONG")
          = Count(in, "PONG") + IF Pong.op = "PONG" THEN 1 ELSE 0
    BY <1>1, CountAppended, Zenon
  <2>2. Count(in, "PONG") \in Nat
    BY <1>1, CountNat
  <2>3. CASE o.op = "PING"
    BY <1>1, <2>1, <2>2, <2>3
  <2>4. CASE o.op # "PING"
    BY <2>2, <2>4
  <2> QED BY <2>2, <2>3, <2>4
<1>4. ReadBefore(w, k, sid)
  <2>1. CASE o.op # "PING"
    BY <2>1 DEF Cut
  <2>2. CASE o.op = "PING"
    <3> DEFINE x == Append(in, Pong)
               n == Len(in)
               T == AllOps
    <3> HIDE DEF T
    <3>1. in \in Seq(T) /\ Pong \in T
      BY <1>1 DEF T
    <3>2. n \in Nat /\ Len(x) = n + 1 /\ x[n + 1] = Pong /\ \A m \in 1..n : x[m] = in[m]
      BY <3>1
    <3>3. \A m \in 1..n : m \in 0..n /\ Upto(x, m) = Upto(in, m)
      BY <3>1, UptoGrows
    <3> HIDE DEF x
    <3>4. ReadBefore(x, k, sid)
      <4>1. SUFFICES ASSUME NEW m \in 1..Len(x), x[m].op = "MSG", x[m].sid = sid
                     PROVE  Count(Upto(x, m), "PONG") < k
        BY DEF ReadBefore
      <4>2. m \in 1..n
        BY <1>1, <3>2, <4>1
      <4> QED BY <3>2, <3>3, <4>1, <4>2 DEF Cut, ReadBefore
    <3>5. w = x
      BY <2>2 DEF x
    <3> QED BY <3>4, <3>5
  <2> QED BY <2>1, <2>2
<1> HIDE DEF w, o, t, new, ClientOps, ServerSubs
<1>5. ASSUME sid \notin DOMAIN srv, NoSub(ops, sid)
      PROVE  sid \notin DOMAIN new /\ NoSub(t, sid)
  <2>1. ~IsSub(o, sid) /\ NoSub(t, sid)
    BY <1>5, EndsWithTail DEF o, t
  <2>2. \A s \in DOMAIN new : s \in DOMAIN srv \/ (o.op = "SUB" /\ s = o.sid)
    BY <1>2, ServerDoesTyped DEF new
  <2> QED BY <1>5, <2>1, <2>2 DEF IsSub
<1>6. ASSUME NEW u \in 1..Len(ops), ops[u] = Unsub(sid, None),
             \A j \in 1..Len(ops) : j > u => ~IsSub(ops[j], sid),
             Count(in, "PONG") + Count(Upto(ops, u), "PING") < k
      PROVE  EndedBefore(w, t, new, k, sid)
  <2>1. CASE u = 1
    <3>1. IsUnsub(o, sid) /\ o.max = None
      BY <1>2, <1>6, <2>1 DEF IsUnsub, Unsub
    <3>2. sid \notin DOMAIN new
      BY <1>2, <3>1, DoesTo DEF new
    <3>3. NoSub(t, sid)
      BY <1>2, <1>6, <2>1 DEF NoSub
    <3> QED BY <3>2, <3>3 DEF EndedBefore
  <2>2. CASE u # 1
    <3>1. u - 1 \in 1..Len(t) /\ u - 1 \in 0..Len(t) /\ u \in 0..Len(ops) /\ u > 0
      BY <1>2, <2>2
    <3>2. t[u - 1] = Unsub(sid, None)
      <4>1. t[u - 1] = ops[(u - 1) + 1] /\ (u - 1) + 1 = u
        BY <1>2, <3>1
      <4> QED BY <1>6, <4>1
    <3>3. ASSUME NEW j \in 1..Len(t), j > u - 1 PROVE ~IsSub(t[j], sid)
      <4>1. j + 1 > u /\ j + 1 \in 1..Len(ops) /\ t[j] = ops[j + 1]
        BY <1>2, <3>3
      <4> QED BY <1>6, <4>1
    <3>4. Count(Upto(ops, u), "PING") = Count(Upto(t, u - 1), "PING") + one
      BY <1>1, <3>1, CountUpto DEF o, t
    <3>5. t \in Seq(AllOps)
      <4> HIDE DEF AllOps
      <4> QED BY <1>1 DEF t
    <3>6. Count(Upto(t, u - 1), "PING") \in Nat
      BY <3>1, <3>5, CountUpto
    <3>7. Count(w, "PONG") + Count(Upto(t, u - 1), "PING") < k
      BY <1>3, <1>6, <3>4, <3>6
    <3> HIDE DEF one
    <3> QED BY <3>1, <3>2, <3>3, <3>7 DEF EndedBefore
  <2> QED BY <2>1, <2>2
<1>7. EndedBefore(w, t, new, k, sid)
  BY <1>5, <1>6 DEF Cut, EndedBefore
<1> QED BY <1>4, <1>7 DEF Cut, w, o, t, new

\* A barrier is made behind everything in flight, its UNSUB ahead of its PING.
LEMMA CutNew ==
  ASSUME NEW in \in Seq(ServerOps), NEW ops \in Seq(ClientOps), NEW srv, NEW sid,
         NEW k \in Nat, Count(in, "PONG") + Count(ops, "PING") < k,
         NEW out \in Seq(ClientOps), NoSub(out, sid), NEW x \in 1..Len(out),
         out[x] = Unsub(sid, None), \A i \in 1..x : out[i].op # "PING"
  PROVE  Cut(in, ops \o out, srv, k, sid)
<1> DEFINE w == ops \o out
           n == Len(ops)
           T == AllOps
<1>1. in \in Seq(AllOps) /\ ops \in Seq(AllOps) /\ out \in Seq(AllOps)
  BY OpsInAll
<1>2. Count(in, "PONG") \in Nat /\ Count(ops, "PING") \in Nat
  BY <1>1, CountNat
<1>3. ReadBefore(in, k, sid)
  <2>1. ASSUME NEW m \in 1..Len(in) PROVE Count(Upto(in, m), "PONG") < k
    <3>1. m \in 0..Len(in)
      OBVIOUS
    <3>2. Count(Upto(in, m), "PONG") \in Nat /\ Count(Upto(in, m), "PONG") <= Count(in, "PONG")
      BY <1>1, <3>1, CountUpto
    <3> DEFINE a == Count(in, "PONG")
               b == Count(ops, "PING")
               c == Count(Upto(in, m), "PONG")
    <3>3. a \in Nat /\ b \in Nat /\ c \in Nat /\ c <= a /\ a + b < k
      BY <1>2, <3>2
    <3> HIDE DEF a, b, c
    <3>4. c < k
      BY <3>3
    <3> QED BY <3>4 DEF c
  <2> QED BY <2>1 DEF ReadBefore
<1>4. Count(Upto(w, n + x), "PING") = Count(ops, "PING")
  <2> HIDE DEF T
  <2>0. ops \in Seq(T) /\ out \in Seq(T)
    BY <1>1 DEF T
  <2>1. x \in 0..Len(out)
    OBVIOUS
  <2>2. Upto(out, x) \in Seq(T) /\ Len(Upto(out, x)) = x /\ DOMAIN Upto(out, x) = 1..x
        /\ \A i \in 1..x : Upto(out, x)[i] = out[i]
    BY <2>0, <2>1, UptoIs
  <2>3. Count(Upto(out, x), "PING") = 0
    <3>1. \A i \in DOMAIN Upto(out, x) : Upto(out, x)[i].op # "PING"
      BY <2>2
    <3> QED BY <2>2, <3>1, CountZero DEF T
  <2>4. Upto(w, n + x) = ops \o Upto(out, x)
    <3> DEFINE a == Upto(w, n + x)
               b == ops \o Upto(out, x)
    <3>1. /\ w \in Seq(T) /\ n + x \in 0..Len(w) /\ n \in Nat
          /\ \A i \in 1..n : w[i] = ops[i]
          /\ \A i \in 1..x : w[i + n] = out[i]
      BY <2>0
    <3>2. a \in Seq(T) /\ Len(a) = n + x /\ \A i \in 1..n + x : a[i] = w[i]
      <4> HIDE DEF w
      <4> QED BY <3>1, UptoIs
    <3>3. /\ b \in Seq(T) /\ Len(b) = n + x /\ (\A i \in 1..n : b[i] = ops[i])
          /\ \A i \in 1..x : b[i + n] = out[i]
      BY <2>0, <2>2
    <3> HIDE DEF a, b, w, n
    <3>4. \A i \in 1..n + x : i \in 1..n \/ (i - n \in 1..x /\ i = (i - n) + n)
      BY <3>1
    <3>5. ASSUME NEW i \in 1..n + x PROVE a[i] = b[i]
      <4>1. CASE i \in 1..n
        BY <3>1, <3>2, <3>3, <4>1
      <4>2. CASE i - n \in 1..x /\ i = (i - n) + n
        <5>1. w[i] = out[i - n]
          BY <3>1, <4>2, Zenon
        <5>2. b[i] = out[i - n]
          BY <3>3, <4>2, Zenon
        <5> QED BY <3>2, <5>1, <5>2
      <4> QED BY <3>4, <4>1, <4>2
    <3>6. a = b
      BY <3>2, <3>3, <3>5
    <3> QED BY <3>6 DEF a, b
  <2>5. Count(ops \o Upto(out, x), "PING") = Count(ops, "PING") + Count(Upto(out, x), "PING")
    BY <1>1, <2>2, CountConcatenated, Zenon DEF T
  <2> HIDE DEF w
  <2>6. Count(Upto(w, n + x), "PING") = Count(ops, "PING") + 0
    BY <2>3, <2>4, <2>5
  <2> QED BY <1>2, <2>6
<1>5. EndedBefore(in, w, srv, k, sid)
  <2> DEFINE C == ClientOps
  <2> HIDE DEF C
  <2>0. ops \in Seq(C) /\ out \in Seq(C)
    BY DEF C
  <2>1. /\ n + x \in 1..Len(w) /\ w[n + x] = out[x]
        /\ \A j \in 1..Len(w) : j > n + x => j - n \in DOMAIN out /\ w[j] = out[j - n]
    <3>1. /\ n \in Nat /\ Len(w) = n + Len(out) /\ Len(out) \in Nat /\ DOMAIN out = 1..Len(out)
          /\ \A i \in 1..Len(out) : w[i + n] = out[i]
      BY <2>0, ConcatIs
    <3> HIDE DEF w, n
    <3>2. n + x \in 1..Len(w) /\ n + x = x + n
      BY <3>1
    <3>3. w[n + x] = out[x]
      BY <3>1, <3>2
    <3>4. ASSUME NEW j \in 1..Len(w), j > n + x PROVE j - n \in DOMAIN out /\ w[j] = out[j - n]
      <4>1. j - n \in 1..Len(out) /\ j = (j - n) + n
        BY <3>1, <3>4
      <4>2. w[j] = out[j - n]
        BY <3>1, <4>1, Zenon
      <4> QED BY <3>1, <4>1, <4>2
    <3> QED BY <3>2, <3>3, <3>4
  <2> HIDE DEF w, n
  <2>2. \A j \in 1..Len(w) : j > n + x => ~IsSub(w[j], sid)
    BY <2>1 DEF NoSub
  <2> QED BY <1>4, <2>1, <2>2 DEF EndedBefore
<1> QED BY <1>3, <1>5 DEF Cut

LEMMA CutTypes ==
  ASSUME Inv, WireInv
  PROVE  /\ s2c \in Seq(ServerOps) /\ c2s \in Seq(ClientOps)
         /\ server \in [DOMAIN server -> ServerSubs]
         /\ core.pending_pings \in Seq(Origins)
         /\ DOMAIN core.pending_pings = 1..Len(core.pending_pings)
         /\ Len(core.pending_pings) \in Nat
<1>1. core.pending_pings \in Seq(Origins)
  BY CoreParts
<1>2. DOMAIN core.pending_pings = 1..Len(core.pending_pings) /\ Len(core.pending_pings) \in Nat
  <2> HIDE DEF Origins
  <2> QED BY <1>1
<1> QED BY <1>1, <1>2, CoreParts DEF WireInv, NamedSids

\* DrainsCut, said of the next state as a whole.
LEMMA CutAfter ==
  ASSUME \A k \in DOMAIN core'.pending_pings, sid \in 1..MaxSid :
           Covers(core'.pending_pings[k], core'.subscriptions, sid)
             => Cut(s2c', c2s', server', k, sid),
         Live(core'.phase) =>
           \A sid \in core'.draining : Waits(core'.pending_pings, sid)
  PROVE  DrainsCut'
<1>1. ASSUME NEW k, NEW sid PROVE Cut(s2c', c2s', server', k, sid) => Cut(s2c, c2s, server, k, sid)'
  BY DEF Cut, ReadBefore, EndedBefore, NoSub
<1>2. ASSUME NEW k, NEW sid
      PROVE  Covers(core.pending_pings[k], core.subscriptions, sid)'
               => Covers(core'.pending_pings[k], core'.subscriptions, sid)
  BY DEF Covers
<1>3. ASSUME NEW sid PROVE Waits(core'.pending_pings, sid) => Waits(core.pending_pings, sid)'
  BY DEF Waits
<1> QED BY <1>1, <1>2, <1>3 DEF DrainsCut

\* Before CONNECT only flushes wait, and a closed core has nothing in flight.
LEMMA DarkIsCut == Inv /\ WireInv /\ ~Live(core.phase) => DrainsCut
<1> SUFFICES ASSUME Inv, WireInv, ~Live(core.phase) PROVE DrainsCut
  OBVIOUS
<1>1. core.phase \in Phases /\ ~Live(core.phase)
  BY CoreParts
<1>2. ASSUME NEW k \in DOMAIN core.pending_pings, NEW sid,
             Covers(core.pending_pings[k], core.subscriptions, sid)
      PROVE  Cut(s2c, c2s, server, k, sid)
  <2>1. core.phase = "Closed"
    BY <1>1, <1>2 DEF Phases, Live, Inv, Good, Consistent, Covers
  <2>2. c2s = <<>> /\ s2c = <<>> /\ DOMAIN server = {}
    BY <2>1 DEF WireInv, Handshaking
  <2> QED BY <2>2 DEF Cut, ReadBefore, EndedBefore, NoSub
<1> QED BY <1>1, <1>2 DEF DrainsCut

LEMMA DarkIsCutNext == (Inv /\ WireInv /\ ~Live(core.phase))' => DrainsCut'
BY DarkIsCut, PTL

\* A step on an open transport that leaves every barrier where it is and adds
\* none that drains.
LEMMA BarriersStay ==
  ASSUME Inv, WireInv, AllAccounted, DrainsCut, Live(core.phase),
         core'.draining \subseteq core.draining,
         \/ DOMAIN core'.subscriptions \subseteq DOMAIN core.subscriptions
         \/ core.phase = "Connected",
         \/ core'.pending_pings = core.pending_pings
         \/ \E o \in Origins : /\ o.kind # "Subscription_drain" /\ o.kind # "Drain"
                               /\ core'.pending_pings = Append(core.pending_pings, o),
         \A k \in DOMAIN core.pending_pings, sid \in 1..MaxSid :
           /\ Covers(core.pending_pings[k], core.subscriptions, sid)
           /\ Cut(s2c, c2s, server, k, sid)
           => Cut(s2c', c2s', server', k, sid)
  PROVE  DrainsCut'
<1> DEFINE old == core.pending_pings
           new == core'.pending_pings
<1>1. old \in Seq(Origins)
  BY CutTypes
<1>2. ASSUME NEW k \in DOMAIN old, NEW sid, Covers(old[k], core'.subscriptions, sid)
      PROVE  Covers(old[k], core.subscriptions, sid)
  BY <1>2 DEF Covers, Inv, Good, Consistent
<1>3. \A k \in DOMAIN new : \/ k \in DOMAIN old /\ new[k] = old[k]
                            \/ new[k].kind # "Subscription_drain" /\ new[k].kind # "Drain"
  <2>1. CASE new = old
    BY <2>1
  <2>2. ASSUME NEW o \in Origins, o.kind # "Subscription_drain" /\ o.kind # "Drain",
               new = Append(old, o)
        PROVE  \A k \in DOMAIN new : \/ k \in DOMAIN old /\ new[k] = old[k]
                                     \/ new[k].kind # "Subscription_drain" /\ new[k].kind # "Drain"
    <3> HIDE DEF Origins, old, new
    <3>1. \A k \in DOMAIN new : (k \in DOMAIN old /\ new[k] = old[k]) \/ new[k] = o
      BY <1>1, <2>2
    <3> QED BY <2>2, <3>1
  <2> QED BY <2>1, <2>2
<1>4. ASSUME NEW k \in DOMAIN new, NEW sid \in 1..MaxSid,
             Covers(new[k], core'.subscriptions, sid)
      PROVE  Cut(s2c', c2s', server', k, sid)
  <2>1. k \in DOMAIN old /\ new[k] = old[k]
    BY <1>3, <1>4 DEF Covers
  <2>2. Covers(old[k], core.subscriptions, sid)
    BY <1>2, <1>4, <2>1
  <2> QED BY <2>1, <2>2 DEF DrainsCut
<1>5. ASSUME NEW sid \in core.draining PROVE Waits(new, sid)
  <2>1. Waits(old, sid)
    BY <1>5 DEF DrainsCut
  <2> HIDE DEF Origins
  <2> QED BY <1>1, <2>1, WaitsKept
<1> QED BY <1>4, <1>5, CutAfter

LEMMA QuietCut ==
  ASSUME Inv, WireInv, AllAccounted, DrainsCut, Quiet PROVE DrainsCut'
<1>1. PICK out \in Seq(ClientOps) : c2s' = c2s \o out /\ \A sid : NoSub(out, sid)
  <2> HIDE DEF ClientOps
  <2> QED BY SaysNothing DEF Quiet
<1>2. /\ Live(core.phase) /\ core'.draining \subseteq core.draining /\ server' = server
      /\ DOMAIN core'.subscriptions \subseteq DOMAIN core.subscriptions
      /\ \/ core'.pending_pings = core.pending_pings
         \/ \E o \in Origins : /\ o.kind # "Subscription_drain" /\ o.kind # "Drain"
                               /\ core'.pending_pings = Append(core.pending_pings, o)
      /\ Hears
  BY DEF Quiet, KeepsSids
<1>3. s2c \in Seq(ServerOps) /\ c2s \in Seq(ClientOps)
  BY CutTypes
<1> HIDE DEF ClientOps, ServerOps, Origins
<1>4. ASSUME NEW k \in DOMAIN core.pending_pings, NEW sid \in 1..MaxSid,
             Cut(s2c, c2s, server, k, sid)
      PROVE  Cut(s2c', c2s', server', k, sid)
  <2>0. k \in Nat
    BY CutTypes
  <2>1. Cut(s2c', c2s, server, k, sid) /\ s2c' \in Seq(ServerOps)
    <3>1. CASE s2c' = s2c
      BY <1>3, <1>4, <3>1
    <3>2. CASE s2c # <<>> /\ s2c' = Tail(s2c) /\ Head(s2c).op # "PONG"
      <4>1. Cut(Tail(s2c), c2s, server, k, sid)
        BY <1>3, <1>4, <2>0, <3>2, CutReads
      <4> QED BY <1>3, <3>2, <4>1
    <3>3. CASE core.pending_pings = <<>>
      BY <1>4, <3>3
    <3>4. ASSUME NEW o \in ServerOps, o.op \notin {"MSG", "PONG"}, s2c' = Append(s2c, o)
          PROVE  Cut(s2c', c2s, server, k, sid) /\ s2c' \in Seq(ServerOps)
      <4>1. Cut(Append(s2c, o), c2s, server, k, sid)
        BY <1>3, <1>4, <2>0, <3>4, CutArrives
      <4> QED BY <1>3, <3>4, <4>1
    <3> QED BY <1>2, <3>1, <3>2, <3>3, <3>4 DEF Hears
  <2>2. Cut(s2c', c2s \o out, server, k, sid)
    BY <1>1, <1>3, <2>0, <2>1, CutWrites
  <2> QED BY <1>1, <1>2, <2>2
<1> QED BY <1>2, <1>4, BarriersStay

LEMMA DeliverCut ==
  ASSUME Inv, WireInv, AllAccounted, DrainsCut, Delivers PROVE DrainsCut'
<1>1. /\ Live(core.phase) /\ core'.draining = core.draining /\ server' = server
      /\ core'.pending_pings = core.pending_pings
      /\ core'.subscriptions = Delivered(core.subscriptions, Head(s2c).sid)
      /\ c2s' = c2s \o <<>>
      /\ s2c # <<>> /\ s2c' = Tail(s2c) /\ Head(s2c).op = "MSG"
  BY DEF Delivers, Moves, Is
<1>2. s2c \in Seq(ServerOps) /\ c2s \in Seq(ClientOps)
  BY CutTypes
<1>3. c2s' = c2s
  <2> HIDE DEF ClientOps
  <2> QED BY <1>1, <1>2
<1>4. DOMAIN core'.subscriptions \subseteq DOMAIN core.subscriptions
  BY <1>1 DEF Delivered, remove_subscription
<1>5. ASSUME NEW k \in DOMAIN core.pending_pings, NEW sid \in 1..MaxSid,
             Cut(s2c, c2s, server, k, sid)
      PROVE  Cut(s2c', c2s', server', k, sid)
  <2>1. k \in Nat
    BY CutTypes
  <2>2. Cut(Tail(s2c), c2s, server, k, sid)
    BY <1>1, <1>2, <1>5, <2>1, CutReads
  <2> QED BY <1>1, <1>3, <2>2
<1> QED BY <1>1, <1>4, <1>5, BarriersStay

\* A fresh sid is not being drained.
LEMMA SubscribeCut ==
  ASSUME Inv, WireInv, AllAccounted, DrainsCut, NEW s \in Subjects, Subscribe(s),
         Live(core'.phase)
  PROVE  DrainsCut'
<1> DEFINE new == core.next_sid
<1>1. /\ core'.phase = core.phase /\ core'.draining = core.draining
      /\ core'.pending_pings = core.pending_pings
      /\ \/ Negotiating(core.phase)
         \/ core.phase = "Connected" /\ c2s' = c2s \o << Sub(new, s) >>
  BY SubscribeMoves DEF Moves, Is
<1>2. core.phase = "Connected" /\ c2s' = c2s \o << Sub(new, s) >>
  BY <1>1 DEF Negotiating, Live
<1>3. UNCHANGED << s2c, server >>
  BY DEF Subscribe, CallerFrame
<1>4. s2c \in Seq(ServerOps) /\ c2s \in Seq(ClientOps)
  BY CutTypes
<1>5. new \in Nat \ {0}
  BY CoreParts DEF WireInv, NamedSids
<1>6. Sub(new, s) \in ClientOps /\ \A sid : sid # new => ~IsSub(Sub(new, s), sid)
  BY <1>5, WrittenOps DEF IsSub
<1>7. << Sub(new, s) >> \in Seq(ClientOps)
  BY <1>6, OneOp
<1>8. ASSUME NEW k \in DOMAIN core.pending_pings, NEW sid \in 1..MaxSid,
             Covers(core.pending_pings[k], core.subscriptions, sid),
             Cut(s2c, c2s, server, k, sid)
      PROVE  Cut(s2c', c2s', server', k, sid)
  <2>1. k \in Nat
    BY CutTypes
  <2>2. sid \in Sids(core)
    BY <1>2, <1>8 DEF Covers, Inv, Good, Consistent, AllAccounted, DrainsNamed
  <2>3. sid # new
    BY <1>5, <2>2 DEF Sids
  <2>4. NoSub(<< Sub(new, s) >>, sid)
    BY <1>6, <2>3, OneWord
  <2>5. Cut(s2c, c2s \o << Sub(new, s) >>, server, k, sid)
    BY <1>4, <1>7, <1>8, <2>1, <2>4, CutWrites
  <2> QED BY <1>2, <1>3, <2>5
<1>9. Live(core.phase)
  BY <1>2 DEF Live
<1> QED BY <1>1, <1>2, <1>8, <1>9, BarriersStay

LEMMA UnsubscribeCut ==
  ASSUME Inv, WireInv, AllAccounted, DrainsCut, NEW sid \in 1..MaxSid,
         NEW m \in Nat \cup {None}, UnsubscribeMoves(sid, m), UNCHANGED << s2c, server >>,
         Live(core'.phase)
  PROVE  DrainsCut'
<1>1. PICK a \in Nat \cup {None} :
        /\ core'.phase = core.phase /\ core'.draining = core.draining \ {sid}
        /\ core'.pending_pings = core.pending_pings
        /\ DOMAIN core'.subscriptions \subseteq DOMAIN core.subscriptions
        /\ \/ Negotiating(core.phase)
           \/ core.phase = "Connected" /\ c2s' = c2s \o << Unsub(sid, a) >>
  <2> DEFINE ends == m = None \/ core.subscriptions[sid].delivered >= m
             a == IF ends THEN None ELSE m
  <2>1. a \in Nat \cup {None}
    OBVIOUS
  <2>2. DOMAIN core'.subscriptions \subseteq DOMAIN core.subscriptions
    BY DEF UnsubscribeMoves, Moves, Is, remove_subscription
  <2>3. /\ core'.phase = core.phase /\ core'.draining = core.draining \ {sid}
        /\ core'.pending_pings = core.pending_pings
        /\ \/ Negotiating(core.phase)
           \/ core.phase = "Connected" /\ c2s' = c2s \o << Unsub(sid, a) >>
    BY DEF UnsubscribeMoves, Moves, Is
  <2> HIDE DEF a
  <2> QED BY <2>1, <2>2, <2>3
<1>2. core.phase = "Connected" /\ c2s' = c2s \o << Unsub(sid, a) >>
  BY <1>1 DEF Negotiating, Live
<1>3. s2c \in Seq(ServerOps) /\ c2s \in Seq(ClientOps)
  BY CutTypes
<1>4. Unsub(sid, a) \in ClientOps /\ \A x : ~IsSub(Unsub(sid, a), x)
  BY WrittenOps DEF IsSub
<1>5. << Unsub(sid, a) >> \in Seq(ClientOps) /\ \A x : NoSub(<< Unsub(sid, a) >>, x)
  BY <1>4, OneOp, OneWord
<1>6. ASSUME NEW k \in DOMAIN core.pending_pings, NEW x \in 1..MaxSid,
             Cut(s2c, c2s, server, k, x)
      PROVE  Cut(s2c', c2s', server', k, x)
  <2>1. k \in Nat
    BY CutTypes
  <2>2. Cut(s2c, c2s \o << Unsub(sid, a) >>, server, k, x)
    BY <1>3, <1>5, <1>6, <2>1, CutWrites
  <2> QED BY <1>2, <2>2
<1>7. Live(core.phase)
  BY <1>2 DEF Live
<1> QED BY <1>1, <1>6, <1>7, BarriersStay

LEMMA HandleCut ==
  ASSUME Inv, WireInv, AllAccounted, DrainsCut, Live(core.phase), ServerHandle
  PROVE  DrainsCut'
<1>1. /\ c2s # <<>> /\ c2s' = Tail(c2s) /\ server' = ServerDoes(server, Head(c2s))
      /\ s2c' = IF Head(c2s).op = "PING" THEN Append(s2c, Pong) ELSE s2c
      /\ core' = core
  BY DEF ServerHandle, ServerFrame
<1>2. ASSUME NEW k \in DOMAIN core.pending_pings, NEW sid \in 1..MaxSid,
             Cut(s2c, c2s, server, k, sid)
      PROVE  Cut(s2c', c2s', server', k, sid)
  <2>1. k \in Nat
    BY CutTypes
  <2> HIDE DEF ClientOps, ServerOps, ServerSubs
  <2> QED BY <1>1, <1>2, <2>1, CutTypes, CutHandles
<1> QED BY <1>1, <1>2, BarriersStay

LEMMA SendCut ==
  ASSUME Inv, WireInv, AllAccounted, DrainsCut, Live(core.phase),
         NEW x \in 1..MaxSid, ServerSend(x)
  PROVE  DrainsCut'
<1> DEFINE o == [op |-> "MSG", sid |-> x]
<1>1. /\ x \in DOMAIN server /\ s2c' = Append(s2c, o) /\ server' = ServerSent(server, x)
      /\ c2s' = c2s /\ core' = core
  BY DEF ServerSend, ServerFrame
<1>2. o \in ServerOps /\ o.op = "MSG" /\ o.sid = x
  BY DEF ServerOps
<1> HIDE DEF o
<1>3. DOMAIN server' \subseteq DOMAIN server
  BY <1>1, CutTypes, ServerSentTyped
<1>4. ASSUME NEW k \in DOMAIN core.pending_pings, NEW sid \in 1..MaxSid,
             Cut(s2c, c2s, server, k, sid)
      PROVE  Cut(s2c', c2s', server', k, sid)
  <2>1. k \in Nat
    BY CutTypes
  <2>2. Cut(Append(s2c, o), c2s, server', k, sid)
    BY <1>1, <1>2, <1>3, <1>4, <2>1, CutTypes, CutArrives
  <2> QED BY <1>1, <2>2
<1> QED BY <1>1, <1>4, BarriersStay

LEMMA ConnectCut ==
  ASSUME Inv, WireInv, Connect PROVE DrainsCut'
<1>1. /\ core'.draining = {} /\ core'.pending_pings = core.pending_pings
      /\ \A k \in DOMAIN core.pending_pings : core.pending_pings[k].kind = "Flush"
  BY ConnectMoves DEF Moves, Is, Inv, Good, Consistent
<1> QED BY <1>1, CutAfter DEF Covers

\* Where the next barrier is put: behind all that is in flight.
LEMMA NextBarrier ==
  ASSUME Inv, WireInv, Barriers, core.phase = "Connected", NEW o \in Origins
  PROVE  LET n == Len(core.pending_pings)
             new == Append(core.pending_pings, o)
         IN  /\ n \in Nat /\ Count(s2c, "PONG") + Count(c2s, "PING") < n + 1
             /\ n + 1 \in DOMAIN new /\ new[n + 1] = o
             /\ \A k \in DOMAIN new : \/ k \in DOMAIN core.pending_pings
                                         /\ new[k] = core.pending_pings[k]
                                      \/ k = n + 1
             /\ \A k \in DOMAIN core.pending_pings : k \in Nat /\ k <= n + 1
<1> DEFINE n == Len(core.pending_pings)
           new == Append(core.pending_pings, o)
<1>1. core.pending_pings \in Seq(Origins)
  BY CutTypes
<1>2. /\ n \in Nat /\ n + 1 \in DOMAIN new /\ new[n + 1] = o
      /\ \A k \in DOMAIN new : \/ k \in DOMAIN core.pending_pings
                                  /\ new[k] = core.pending_pings[k]
                               \/ k = n + 1
      /\ \A k \in DOMAIN core.pending_pings : k \in Nat /\ k <= n + 1
  <2> HIDE DEF Origins
  <2> QED BY <1>1
<1>3. /\ n = Count(s2c, "PONG") + Count(c2s, "PING") + Count(held, "PING") + dropped
      /\ dropped \in Nat
  BY DEF Barriers, BarriersAligned
<1>4. /\ Count(held, "PING") = 0 /\ Count(s2c, "PONG") \in Nat /\ Count(c2s, "PING") \in Nat
  BY BarrierCounts DEF Live
<1> HIDE DEF n, new
<1>5. Count(s2c, "PONG") + Count(c2s, "PING") < n + 1
  BY <1>2, <1>3, <1>4
<1> QED BY <1>2, <1>5 DEF n, new

LEMMA DrainSubscriptionCut ==
  ASSUME Inv, WireInv, Barriers, AllAccounted, DrainsCut,
         NEW sid \in 1..MaxSid, DrainSubscription(sid)
  PROVE  DrainsCut'
<1> DEFINE a == Unsub(sid, None)
           out == << a, Ping >>
           o == SubscriptionDrain(sid)
           old == core.pending_pings
           new == Append(old, o)
           n == Len(old)
<1>1. /\ core.phase = "Connected" /\ core'.subscriptions = core.subscriptions
      /\ core'.draining = core.draining \cup {sid} /\ core'.pending_pings = new
      /\ c2s' = c2s \o out /\ UNCHANGED << s2c, server >>
  BY DrainSubscriptionMoves DEF DrainSubscription, CallerFrame, Moves, Is
<1>2. a \in ClientOps /\ a.op # "PING" /\ \A x : ~IsSub(a, x)
  BY DEF ClientOps, Unsub, IsSub
<1>3. Ping \in ClientOps /\ \A x : ~IsSub(Ping, x)
  BY WrittenOps DEF IsSub
<1>4. /\ out \in Seq(ClientOps) /\ 1 \in 1..Len(out) /\ out[1] = a
      /\ (\A i \in 1..1 : out[i].op # "PING") /\ \A x : NoSub(out, x)
  <2> HIDE DEF a, Ping, ClientOps
  <2>1. out \in Seq(ClientOps) /\ DOMAIN out = {1, 2} /\ out[1] = a /\ out[2] = Ping /\ Len(out) = 2
    BY <1>2, <1>3
  <2>2. \A x : NoSub(out, x)
    BY <1>2, <1>3, <2>1 DEF NoSub
  <2> QED BY <1>2, <2>1, <2>2
<1>5. o \in Origins /\ o.kind = "Subscription_drain" /\ o.sid = sid
  BY DEF SubscriptionDrain, Origins
<1>6. /\ n \in Nat /\ Count(s2c, "PONG") + Count(c2s, "PING") < n + 1
      /\ n + 1 \in DOMAIN new /\ new[n + 1] = o
      /\ \A k \in DOMAIN new : (k \in DOMAIN old /\ new[k] = old[k]) \/ k = n + 1
      /\ \A k \in DOMAIN old : k \in Nat
  BY <1>1, <1>5, NextBarrier
<1>7. s2c \in Seq(ServerOps) /\ c2s \in Seq(ClientOps) /\ old \in Seq(Origins)
  BY CutTypes
<1> HIDE DEF out, new, old, n, a
<1>8. ASSUME NEW k \in DOMAIN new, NEW x \in 1..MaxSid, Covers(new[k], core.subscriptions, x)
      PROVE  Cut(s2c, c2s \o out, server, k, x)
  <2>1. CASE k \in DOMAIN old /\ new[k] = old[k]
    <3>1. Cut(s2c, c2s, server, k, x)
      BY <1>8, <2>1 DEF DrainsCut, old
    <3> QED BY <1>4, <1>6, <1>7, <2>1, <3>1, CutWrites
  <2>2. CASE k = n + 1
    <3>1. x = sid
      BY <1>5, <1>6, <1>8, <2>2 DEF Covers
    <3>2. k \in Nat
      BY <1>6, <2>2
    <3> QED BY <1>4, <1>6, <1>7, <2>2, <3>1, <3>2, CutNew DEF a
  <2> QED BY <1>6, <2>1, <2>2
<1>9. ASSUME NEW x \in core.draining \cup {sid} PROVE Waits(new, x)
  <2>1. CASE x = sid
    BY <1>6, <2>1 DEF Waits
  <2>2. CASE x \in core.draining
    <3>1. Waits(old, x)
      BY <1>1, <2>2 DEF DrainsCut, Live, old
    <3> HIDE DEF o, Origins
    <3> QED BY <1>5, <1>7, <3>1, WaitsKept DEF new
  <2> QED BY <2>1, <2>2
<1> HIDE DEF o
<1> QED BY <1>1, <1>8, <1>9, CutAfter

LEMMA DrainCut ==
  ASSUME Inv, WireInv, Barriers, AllAccounted, DrainsCut, Drain PROVE DrainsCut'
<1> DEFINE d == DrainUnsubs(core)
           out == Append(d, Ping)
           o == Origin("Drain")
           old == core.pending_pings
           new == Append(old, o)
           n == Len(old)
           sids == DOMAIN core.subscriptions \ core.draining
<1>1. /\ core.phase = "Connected" /\ core'.subscriptions = core.subscriptions
      /\ core'.draining = core.draining /\ core'.pending_pings = new
      /\ c2s' = c2s \o out /\ UNCHANGED << s2c, server >>
  BY DrainMoves DEF Drain, CallerFrame, Moves, Is
<1>2. Good(core) /\ GoodSids(core)
  BY DEF Inv, WireInv, NamedSids, GoodSids
<1>3. /\ d \in Seq(ClientOps)
      /\ \A i \in DOMAIN d : \E s \in sids : d[i] = Unsub(s, None)
      /\ \A s \in sids : \E i \in DOMAIN d : d[i] = Unsub(s, None)
  BY <1>2, DrainUnsubsFacts
<1>4. \A s : Unsub(s, None).op = "UNSUB"
  BY DEF Unsub
<1>5. Ping \in ClientOps /\ Ping.op = "PING"
  BY WrittenOps
<1> HIDE DEF d, Ping, ClientOps
<1>6. /\ out \in Seq(ClientOps) /\ DOMAIN d \subseteq DOMAIN out /\ DOMAIN out = 1..Len(out)
      /\ \A i \in DOMAIN d : out[i] = d[i] /\ \A j \in 1..i : j \in DOMAIN d /\ out[j] = d[j]
      /\ \A i \in DOMAIN out : (i \in DOMAIN d /\ out[i] = d[i]) \/ out[i] = Ping
  BY <1>3, <1>5
<1> HIDE DEF out, sids
<1>7. \A i \in DOMAIN d : d[i].op = "UNSUB"
  BY <1>3, <1>4
<1>8. \A x : NoSub(out, x)
  BY <1>5, <1>6, <1>7 DEF NoSub, IsSub
<1>9. o \in Origins /\ o.kind = "Drain"
  BY DEF Origin, Origins
<1>10. /\ n \in Nat /\ Count(s2c, "PONG") + Count(c2s, "PING") < n + 1
       /\ n + 1 \in DOMAIN new /\ new[n + 1] = o
       /\ \A k \in DOMAIN new : (k \in DOMAIN old /\ new[k] = old[k]) \/ k = n + 1
       /\ \A k \in DOMAIN old : k \in Nat /\ k <= n + 1
  BY <1>1, <1>9, NextBarrier
<1>11. s2c \in Seq(ServerOps) /\ c2s \in Seq(ClientOps) /\ old \in Seq(Origins)
  BY CutTypes
<1> HIDE DEF new, old, n, o
<1>12. ASSUME NEW k \in DOMAIN old, NEW x \in 1..MaxSid, Covers(old[k], core.subscriptions, x)
       PROVE  Cut(s2c, c2s \o out, server, k, x)
  <2>1. Cut(s2c, c2s, server, k, x)
    BY <1>12 DEF DrainsCut, old
  <2> QED BY <1>6, <1>8, <1>10, <1>11, <2>1, CutWrites
<1>13. ASSUME NEW x \in 1..MaxSid, x \in DOMAIN core.subscriptions
       PROVE  Cut(s2c, c2s \o out, server, n + 1, x)
  <2>0. n + 1 \in Nat
    BY <1>10
  <2>1. CASE x \in core.draining
    <3>1. PICK j \in DOMAIN old : old[j] = SubscriptionDrain(x)
      BY <1>1, <2>1 DEF DrainsCut, Live, Waits, old
    <3>2. Covers(old[j], core.subscriptions, x)
      BY <3>1 DEF Covers, SubscriptionDrain
    <3>3. Cut(s2c, c2s \o out, server, j, x)
      BY <1>12, <3>2
    <3>4. c2s \o out \in Seq(ClientOps)
      BY <1>6, <1>11
    <3> QED BY <1>10, <1>11, <2>0, <3>3, <3>4, CutLater
  <2>2. CASE x \notin core.draining
    <3>1. PICK i \in DOMAIN d : d[i] = Unsub(x, None)
      BY <1>3, <1>13, <2>2 DEF sids
    <3>2. i \in 1..Len(out) /\ out[i] = Unsub(x, None) /\ \A j \in 1..i : out[j].op # "PING"
      BY <1>6, <1>7, <3>1
    <3> QED BY <1>6, <1>8, <1>10, <1>11, <2>0, <3>2, CutNew
  <2> QED BY <2>1, <2>2
<1>14. ASSUME NEW k \in DOMAIN new, NEW x \in 1..MaxSid, Covers(new[k], core.subscriptions, x)
       PROVE  Cut(s2c, c2s \o out, server, k, x)
  <2>1. CASE k \in DOMAIN old /\ new[k] = old[k]
    BY <1>12, <1>14, <2>1
  <2>2. CASE k = n + 1
    <3>1. x \in DOMAIN core.subscriptions
      BY <1>9, <1>10, <1>14, <2>2 DEF Covers
    <3> QED BY <1>13, <2>2, <3>1
  <2> QED BY <1>10, <2>1, <2>2
<1>15. ASSUME NEW x \in core.draining PROVE Waits(new, x)
  <2>1. Waits(old, x)
    BY <1>1, <1>15 DEF DrainsCut, Live, old
  <2> HIDE DEF Origins
  <2> QED BY <1>9, <1>11, <2>1, WaitsKept DEF new
<1> QED BY <1>1, <1>14, <1>15, CutAfter

\* A PONG settles the oldest barrier: each other one is one PONG nearer.
LEMMA SettleCut ==
  ASSUME Inv, WireInv, AllAccounted, DrainsCut, Settles PROVE DrainsCut'
<1> DEFINE o == Head(core.pending_pings)
           old == core.pending_pings
           new == Tail(old)
<1>1. /\ old # <<>> /\ core'.pending_pings = new /\ Live(core.phase)
      /\ c2s' = c2s \o <<>> /\ server' = server
      /\ s2c # <<>> /\ s2c' = Tail(s2c) /\ Head(s2c).op = "PONG"
      /\ core'.draining = IF o.kind = "Drain" THEN {}
                          ELSE IF o.kind = "Subscription_drain"
                          THEN core.draining \ {o.sid} ELSE core.draining
      /\ core'.subscriptions = IF o.kind = "Drain" THEN <<>>
                               ELSE IF o.kind = "Subscription_drain"
                               THEN remove_subscription(o.sid, core.subscriptions)
                               ELSE core.subscriptions
  BY DEF Settles, ReadsPong, Moves, Is
<1>2. s2c \in Seq(ServerOps) /\ c2s \in Seq(ClientOps) /\ old \in Seq(Origins)
  BY CutTypes
<1>3. c2s' = c2s
  <2> HIDE DEF ClientOps
  <2> QED BY <1>1, <1>2
<1>4. DOMAIN core'.subscriptions \subseteq DOMAIN core.subscriptions
  BY <1>1 DEF remove_subscription
<1>5. ASSUME NEW k \in DOMAIN new
      PROVE  k + 1 \in DOMAIN old /\ new[k] = old[k + 1] /\ k + 1 \in Nat /\ (k + 1) - 1 = k
  <2> HIDE DEF Origins, old
  <2>1. k \in 1..Len(new) /\ Len(old) = Len(new) + 1 /\ Len(new) \in Nat
    BY <1>1, <1>2, <1>5
  <2>2. new[k] = old[k + 1]
    BY <1>1, <1>2, <2>1
  <2>3. k + 1 \in DOMAIN old
    BY <1>2, <2>1
  <2> QED BY <2>1, <2>2, <2>3
<1> HIDE DEF o, old, new
<1>6. ASSUME NEW k \in DOMAIN new, NEW sid \in 1..MaxSid,
             Covers(new[k], core'.subscriptions, sid)
      PROVE  Cut(s2c', c2s', server', k, sid)
  <2>1. k + 1 \in DOMAIN old /\ new[k] = old[k + 1] /\ k + 1 \in Nat /\ (k + 1) - 1 = k
    BY <1>5
  <2>2. Covers(old[k + 1], core.subscriptions, sid)
    BY <1>4, <1>6, <2>1 DEF Covers
  <2>3. Cut(s2c, c2s, server, k + 1, sid)
    BY <2>1, <2>2 DEF DrainsCut, old
  <2>4. Cut(Tail(s2c), c2s, server, (k + 1) - 1, sid)
    BY <1>1, <1>2, <2>1, <2>3, CutReads
  <2> QED BY <1>1, <1>3, <2>1, <2>4
<1>7. ASSUME NEW sid \in core'.draining PROVE Waits(new, sid)
  <2>1. sid \in core.draining /\ o # SubscriptionDrain(sid)
    BY <1>1, <1>7 DEF SubscriptionDrain
  <2>2. Waits(old, sid)
    BY <1>1, <2>1 DEF DrainsCut, old
  <2> HIDE DEF Origins
  <2> QED BY <1>1, <1>2, <2>1, <2>2, WaitsKept DEF o, old, new
<1> QED BY <1>1, <1>6, <1>7, CutAfter

LEMMA NextCut ==
  ASSUME Inv, WireInv, Barriers, AllAccounted, DrainsCut, [Next]_vars, Inv', WireInv'
  PROVE  DrainsCut'
<1>0. CASE ~Live(core'.phase)
  <2>1. (Inv /\ WireInv /\ ~Live(core.phase))'
    BY <1>0 DEF Live
  <2> QED BY <2>1, DarkIsCutNext
<1>1. CASE SubscriptionSteps /\ Live(core'.phase)
  <2>1. ASSUME NEW sid \in 1..MaxSid, Unsubscribe(sid) PROVE DrainsCut'
    <3> DEFINE m == None
    <3>1. /\ Apply(outgoing_unsubscribe(core, sid, m)) /\ UNCHANGED << s2c, server >>
          /\ m \in Nat \cup {None}
      BY <2>1 DEF Unsubscribe, CallerFrame
    <3> HIDE DEF m
    <3>2. UnsubscribeMoves(sid, m)
      BY <3>1, OutgoingUnsubscribeMoves
    <3> QED BY <1>1, <3>1, <3>2, UnsubscribeCut
  <2>2. ASSUME NEW sid \in 1..MaxSid, NEW n \in Quotas, AutoUnsubscribe(sid, n)
        PROVE  DrainsCut'
    <3>1. n \in Int
      BY BoundsAssumption
    <3>2. n > 0 /\ UnsubscribeMoves(sid, n)
      BY <2>2, <3>1, AutoUnsubscribeMoves
    <3>3. n \in Nat /\ UNCHANGED << s2c, server >>
      BY <2>2, <3>1, <3>2 DEF AutoUnsubscribe, CallerFrame
    <3> QED BY <1>1, <3>2, <3>3, UnsubscribeCut
  <2>3. CASE Dark
    BY <1>1, <2>3 DEF Dark
  <2> QED
    BY <1>1, <2>1, <2>2, <2>3, QuietCut, ConnectCut, DrainCut, SettleCut, DeliverCut,
       SubscribeCut, DrainSubscriptionCut, HandleCut, SendCut
       DEF SubscriptionSteps
<1>2. CASE UNCHANGED vars
  <2>1. UNCHANGED << core, server, c2s, s2c >>
    BY <1>2 DEF vars
  <2>2. \A k \in DOMAIN core'.pending_pings, sid \in 1..MaxSid :
          Covers(core'.pending_pings[k], core'.subscriptions, sid)
            => Cut(s2c', c2s', server', k, sid)
    BY <2>1 DEF DrainsCut
  <2>3. Live(core'.phase) => \A sid \in core'.draining : Waits(core'.pending_pings, sid)
    BY <2>1 DEF DrainsCut
  <2> QED BY <2>2, <2>3, CutAfter
<1> QED BY <1>0, <1>1, <1>2, MoveSteps

LEMMA CutInv == Spec => [](Inv /\ WireInv /\ Barriers /\ AllAccounted /\ DrainsCut)
<1>1. Init => Inv /\ WireInv /\ Barriers /\ AllAccounted /\ DrainsCut
  <2>1. Init => core.pending_pings = <<>> /\ core.draining = {}
    BY DEF Init, v
  <2>2. Init => DrainsCut
    BY <2>1 DEF DrainsCut
  <2> QED BY <2>2, InitInv, InitWire, InitBarriers, InitAccounted
<1>2. Inv /\ WireInv /\ Barriers /\ AllAccounted /\ DrainsCut /\ [Next]_vars
        => (Inv /\ WireInv /\ Barriers /\ AllAccounted /\ DrainsCut)'
  <2> SUFFICES ASSUME Inv, WireInv, Barriers, AllAccounted, DrainsCut, [Next]_vars
               PROVE  (Inv /\ WireInv /\ Barriers /\ AllAccounted /\ DrainsCut)'
    OBVIOUS
  <2>1. Inv' /\ WireInv' /\ Barriers' /\ AllAccounted'
    BY NextInv, NextWire, NextBarriers, NextAccounted
  <2>2. DrainsCut'
    BY <2>1, NextCut
  <2> QED BY <2>1, <2>2
<1> QED BY <1>1, <1>2, PTL DEF Spec

\* What is read behind a PONG is behind the first PONG.
LEMMA BehindPong ==
  ASSUME NEW in \in Seq(ServerOps), in # <<>>, Head(in).op = "PONG", NEW sid,
         ReadBefore(in, 1, sid)
  PROVE  InFlight(Tail(in), sid) = 0
<1>1. in \in Seq(AllOps)
  BY OpsInAll
<1>2. ASSUME NEW m \in DOMAIN in PROVE ~(in[m].op = "MSG" /\ in[m].sid = sid)
  <2>1. m \in 1..Len(in) /\ m \in 0..Len(in) /\ m > 0 /\ m - 1 \in 0..Len(Tail(in))
    <3> HIDE DEF ServerOps
    <3> QED BY <1>2
  <2>2. Tail(in) \in Seq(AllOps)
    <3> HIDE DEF AllOps
    <3> QED BY <1>1
  <2>3. Count(Upto(in, m), "PONG") = Count(Upto(Tail(in), m - 1), "PONG") + 1
    BY <1>1, <2>1, CountUpto
  <2>4. Count(Upto(Tail(in), m - 1), "PONG") \in Nat
    BY <2>1, <2>2, CountUpto
  <2>5. ~(Count(Upto(in, m), "PONG") < 1)
    BY <2>3, <2>4
  <2> QED BY <2>1, <2>5 DEF ReadBefore
<1>3. \A m \in DOMAIN Tail(in) : m + 1 \in DOMAIN in /\ Tail(in)[m] = in[m + 1]
  <2> HIDE DEF ServerOps
  <2> QED OBVIOUS
<1>4. {i \in DOMAIN Tail(in) : Tail(in)[i].op = "MSG" /\ Tail(in)[i].sid = sid} = {}
  BY <1>2, <1>3
<1> QED BY <1>4, FS_EmptySet DEF InFlight

\* Only a PONG, or the loss of the transport, takes a barrier away.
LEMMA OnlyPongs ==
  ASSUME Inv, WireInv, Next, core.pending_pings # <<>>,
         core'.pending_pings = Tail(core.pending_pings)
  PROVE  Settles \/ ~Live(core'.phase)
<1> DEFINE old == core.pending_pings
           new == core'.pending_pings
<1>1. old \in Seq(Origins) /\ old # <<>> /\ new = Tail(old)
  BY CutTypes
<1> HIDE DEF Origins, old, new
<1>2. new # old /\ \A o \in Origins : new # Append(old, o)
  <2>1. Len(new) = Len(old) - 1 /\ Len(old) \in Nat /\ \A o \in Origins : Len(Append(old, o)) = Len(old) + 1
    BY <1>1
  <2>2. Len(new) # Len(old) /\ \A o \in Origins : Len(new) # Len(Append(old, o))
    BY <2>1
  <2> QED BY <2>2
<1>3. CASE Quiet
  BY <1>2, <1>3 DEF Quiet, old, new
<1>4. CASE Dark
  BY <1>4 DEF Dark
<1>5. CASE Connect
  BY <1>2, <1>5, ConnectMoves DEF Moves, Is, old, new
<1>6. CASE Drain
  <2>1. Origin("Drain") \in Origins
    BY DEF Origin, Origins
  <2> QED BY <1>2, <1>6, <2>1, DrainMoves DEF Moves, Is, old, new
<1>7. CASE Delivers
  BY <1>2, <1>7 DEF Delivers, Moves, Is, old, new
<1>8. ASSUME NEW s \in Subjects, Subscribe(s) PROVE FALSE
  BY <1>2, <1>8, SubscribeMoves DEF Moves, Is, old, new
<1>9. ASSUME NEW sid \in 1..MaxSid, DrainSubscription(sid) PROVE FALSE
  <2>1. SubscriptionDrain(sid) \in Origins
    BY DEF SubscriptionDrain, Origins
  <2> QED BY <1>2, <1>9, <2>1, DrainSubscriptionMoves DEF Moves, Is, old, new
<1>10. ASSUME NEW sid, NEW m, UnsubscribeMoves(sid, m) PROVE FALSE
  BY <1>2, <1>10 DEF UnsubscribeMoves, Moves, Is, old, new
<1>11. ASSUME NEW sid \in 1..MaxSid, Unsubscribe(sid) PROVE FALSE
  <2> DEFINE m == None
  <2>1. Apply(outgoing_unsubscribe(core, sid, m))
    BY <1>11 DEF Unsubscribe
  <2> HIDE DEF m
  <2> QED BY <1>10, <2>1, OutgoingUnsubscribeMoves
<1>12. ASSUME NEW sid \in 1..MaxSid, NEW n \in Quotas, AutoUnsubscribe(sid, n) PROVE FALSE
  <2>1. n \in Int
    BY BoundsAssumption
  <2> QED BY <1>10, <1>12, <2>1, AutoUnsubscribeMoves
<1>13. CASE ServerHandle
  BY <1>2, <1>13 DEF ServerHandle, ServerFrame, old, new
<1>14. ASSUME NEW sid \in 1..MaxSid, ServerSend(sid) PROVE FALSE
  BY <1>2, <1>14 DEF ServerSend, ServerFrame, old, new
<1> QED
  BY <1>3, <1>4, <1>5, <1>6, <1>7, <1>8, <1>9, <1>11, <1>12, <1>13, <1>14, MoveSteps
     DEF SubscriptionSteps

\* Nothing is in flight to a subscription when there is no live core to read.
LEMMA DarkIsSilent == Inv /\ WireInv /\ ~Live(core.phase) => \A sid : InFlight(s2c, sid) = 0
<1> SUFFICES ASSUME Inv, WireInv, ~Live(core.phase), NEW sid PROVE InFlight(s2c, sid) = 0
  OBVIOUS
<1>1. core.phase \in Phases
  BY CoreParts
<1>2. \A i \in DOMAIN s2c : s2c[i].op # "MSG"
  BY <1>1 DEF Phases, Live, Negotiating, WireInv, Handshaking
<1>3. {i \in DOMAIN s2c : s2c[i].op = "MSG" /\ s2c[i].sid = sid} = {}
  BY <1>2
<1> QED BY <1>3, FS_EmptySet DEF InFlight

LEMMA DarkIsSilentNext ==
  (Inv /\ WireInv /\ ~Live(core.phase))' => (\A sid : InFlight(s2c, sid) = 0)'
BY DarkIsSilent, PTL

\* incoming_pong settles a drain only when everything the server sent before
\* it ended the subscriptions has been read: the UNSUB of
\* outgoing_drain_subscription and those of outgoing_drain, or of the drains
\* under way, are ahead of the PING, and a loss takes the barriers with it.
\* Here too every output is written: for the drains that
\* resume_subscription_drain resumes, neither UNSUB nor PING is.
THEOREM DrainsLoseNothing == Spec => DrainLosesNothing
<1>1. ASSUME Inv, WireInv, AllAccounted, DrainsCut, Next, Inv', WireInv',
             1 \in DOMAIN core.pending_pings,
             core'.pending_pings = Tail(core.pending_pings), NEW sid \in 1..MaxSid,
             Covers(core.pending_pings[1], core.subscriptions, sid)
      PROVE  InFlight(s2c', sid) = 0
  <2>1. core.pending_pings # <<>>
    BY <1>1
  <2>2. CASE ~Live(core'.phase)
    <3>1. (Inv /\ WireInv /\ ~Live(core.phase))'
      BY <1>1, <2>2 DEF Live
    <3>2. (\A x : InFlight(s2c, x) = 0)'
      BY <3>1, DarkIsSilentNext
    <3> QED BY <3>2 DEF InFlight
  <2>3. CASE Settles
    <3>1. s2c \in Seq(ServerOps) /\ s2c # <<>> /\ Head(s2c).op = "PONG" /\ s2c' = Tail(s2c)
      BY <1>1, <2>3, CutTypes DEF Settles, ReadsPong
    <3>2. ReadBefore(s2c, 1, sid)
      BY <1>1 DEF DrainsCut, Cut
    <3> QED BY <3>1, <3>2, BehindPong
  <2> QED BY <1>1, <2>1, <2>2, <2>3, OnlyPongs
<1>2. ASSUME Inv, WireInv, AllAccounted PROVE Sids(core) \subseteq 1..MaxSid
  <2>1. core.next_sid \in 1..MaxSid + 1 /\ MaxSid \in Nat
    BY <1>2, Bounds DEF WireInv, NamedSids
  <2> QED BY <2>1 DEF Sids
<1> DEFINE LosesNothing ==
             \A i \in DOMAIN core.pending_pings :
               LET origin == core.pending_pings[i]
               IN  i = 1 /\ core'.pending_pings = Tail(core.pending_pings)
                     => /\ origin.kind = "Drain"
                             => \A sid \in DOMAIN core.subscriptions : InFlight(s2c', sid) = 0
                        /\ origin.kind = "Subscription_drain"
                             => InFlight(s2c', origin.sid) = 0
<1>3. ASSUME Inv, WireInv, AllAccounted, DrainsCut, Next, Inv', WireInv' PROVE LosesNothing
  <2>1. SUFFICES ASSUME 1 \in DOMAIN core.pending_pings,
                        core'.pending_pings = Tail(core.pending_pings)
                 PROVE  LET origin == core.pending_pings[1]
                        IN  /\ origin.kind = "Drain"
                                 => \A sid \in DOMAIN core.subscriptions : InFlight(s2c', sid) = 0
                            /\ origin.kind = "Subscription_drain"
                                 => InFlight(s2c', origin.sid) = 0
    OBVIOUS
  <2> DEFINE origin == core.pending_pings[1]
  <2>2. ASSUME origin.kind = "Drain", NEW sid \in DOMAIN core.subscriptions
        PROVE  InFlight(s2c', sid) = 0
    <3>1. sid \in 1..MaxSid
      BY <1>2, <1>3 DEF WireInv, NamedSids
    <3>2. Covers(core.pending_pings[1], core.subscriptions, sid)
      BY <2>2 DEF Covers
    <3> QED BY <1>1, <1>3, <2>1, <3>1, <3>2
  <2>3. ASSUME origin.kind = "Subscription_drain" PROVE InFlight(s2c', origin.sid) = 0
    <3>1. origin.sid \in 1..MaxSid
      BY <1>2, <1>3, <2>1, <2>3 DEF AllAccounted, DrainsNamed
    <3>2. Covers(core.pending_pings[1], core.subscriptions, origin.sid)
      BY <2>3 DEF Covers
    <3> QED BY <1>1, <1>3, <2>1, <3>1, <3>2
  <2> QED BY <2>2, <2>3
<1>4. Inv /\ WireInv /\ Barriers /\ AllAccounted /\ DrainsCut /\ [Next]_vars /\ (Inv /\ WireInv)'
        => [LosesNothing]_vars
  BY <1>3
<1> QED BY <1>4, CutInv, PTL DEF Spec, DrainLosesNothing

=============================================================================
