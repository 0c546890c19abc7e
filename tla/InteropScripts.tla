--------------------------- MODULE InteropScripts ---------------------------
(***************************************************************************)
(* What the two sides of the interoperability suite do, mode by mode: the  *)
(* Go peer (src/interop/nats-ocaml-interop-peer), the OCaml acceptance     *)
(* executable it meets (src/test/interop) and the shell driver's watcher   *)
(* (src/scripts).  A program is the sequence of its externally visible     *)
(* calls, in the order the code makes them; module Interop gives each kind *)
(* of call its meaning.  Connecting, credentials, header and metadata      *)
(* checks are not instructions; a payload check is part of the call whose  *)
(* payload it checks.                                                      *)
(*                                                                         *)
(* Subjects and payloads are tuples: a name, or a name and a round.        *)
(***************************************************************************)
EXTENDS Naturals, Sequences, TLC

CONSTANTS Cycles,      \* reconnect cycles: servers listed minus one
          BurstSize    \* serviceFailureBurstSize

ASSUME InteropAssumption == Cycles \in Nat /\ BurstSize \in Nat \ {0}

-----------------------------------------------------------------------------
(* Instructions.                                                           *)

Sub(s, h)     == [op |-> "Sub", s |-> s, h |-> h]       \* subscribe, callback h
Unsub(ss)     == [op |-> "Unsub", ss |-> ss]
Flush         == [op |-> "Flush"]                       \* PING, await its PONG
Pub(s, m)     == [op |-> "Pub", s |-> s, m |-> m]
Recv(s, m)    == [op |-> "Recv", s |-> s, m |-> m]      \* next message on s must be m
Reply(m)      == [op |-> "Reply", m |-> m]              \* answer the last one received
Req(s, m, r)  == [op |-> "Req", s |-> s, m |-> m, want |-> {r}]
Retry(s, m, r) == [op |-> "Retry", s |-> s, m |-> m, want |-> {r}]
Until(s, m, r) == [op |-> "Until", s |-> s, m |-> m, want |-> {r}]
Poll(s, rs)   == [op |-> "Poll", s |-> s, m |-> <<"poll">>, want |-> rs]
NoResp(s, m, rs) == [op |-> "NoResp", s |-> s, m |-> m, want |-> rs]
Result(s, v)  == [op |-> "Result", s |-> s, m |-> v]    \* what the callback of s reports
Own(e, n)     == [op |-> "Own", e |-> e, n |-> n]       \* own counter reaches n
NoErrors      == [op |-> "NoErrors"]
Event(e)      == [op |-> "Event", e |-> e, not |-> {}]
Back(ns)      == [op |-> "Event", e |-> "R", not |-> ns] \* reconnected, to none of ns
Touch(f)      == [op |-> "Touch", f |-> f]
Await(f)      == [op |-> "Await", f |-> f]
Kill(ns)      == [op |-> "Kill", ns |-> ns]
KillLeader    == [op |-> "Kill", ns |-> {0}]            \* the server the leader file names
Start(ns)     == [op |-> "Start", ns |-> ns]
Replace(n)    == [op |-> "Replace", n |-> n]            \* start n under a new client URL
Pause         == [op |-> "Pause"]                       \* long enough for all else to settle
Close         == [op |-> "Close"]
Connect       == [op |-> "Connect"]                     \* anew, to a survivor of the leader
Discovered    == [op |-> "Discovered"]                  \* the new URL has been advertised
Respond(s, m) == [op |-> "Respond", s |-> s, m |-> m]   \* complete the control of s

(* Calls of the stream.  A call that finds no leader fails; a retried one  *)
(* waits for a leader; a polled one waits until what it asks for holds; a  *)
(* denied one must fail.                                                   *)
Jet(k, how, x) == [op |-> "Jet", k |-> k, how |-> how, x |-> x]

MakeStream      == Jet("stream", "retry", <<>>)
Store(s, n, to) == Jet("store", "call", <<s, n, to>>)   \* n messages, the last has sequence to
Holds(n)        == Jet("holds", "retry", <<n>>)
HoldsSoon(n)    == Jet("holds", "poll", <<n>>)
Quorum(n)       == Jet("quorum", "poll", <<n>>)
Get(s)          == Jet("get", "call", <<s>>)
GetSoon(s)      == Jet("get", "poll", <<s>>)
NameLeader      == Jet("name", "retry", <<>>)
LeaderStands    == Jet("stands", "retry", <<>>)
\* Mutant: the new leader is looked for once.
LeaderMoved_once == Jet("moved", "call", <<>>)
LeaderMoved     == Jet("moved", "poll", <<>>)
OpenOrdered(s)  == Jet("ordered", "call", <<s>>)
OrderedReady    == Jet("ready", "poll", <<>>)
FirstGeneration == Jet("generation", "poll", <<0>>)
NextGeneration(b) == Jet("recreated", "poll", <<b>>)    \* b: after the one seen first
MakePush(q, s)  == Jet("push", "call", <<q, s>>)
Bind            == Jet("bind", "call", <<>>)
AckSync         == Jet("ack", "call", <<>>)
Floor(q, n, k)  == Jet("floor", "call", <<q, n, k>>)
FloorSoon(q, n, k) == Jet("floor", "retry", <<q, n, k>>)
CloseConsumer   == Jet("close", "call", <<>>)
DeleteStream    == Jet("delete", "retry", <<>>)
Denied          == Jet("info", "denied", <<>>)          \* a management call must fail
Take(n, ks)     == [op |-> "Take", n |-> n, ks |-> ks]  \* message n, consumer sequence in ks

(* Callbacks.  Queue hands the message to whoever waits for it.  An        *)
(* answering callback replies to the payloads it accepts, posts a result   *)
(* when note is set and, as a service endpoint, counts the request after   *)
(* it has replied.  Stats replies with the counters of the endpoints es.   *)
Queue              == [kind |-> "queue"]
Slot               == [kind |-> "slot"]     \* a channel of one, filled with a default
Answer(reply)      == [kind |-> "answer", reply |-> reply, note |-> TRUE, count |-> FALSE]
Endpoint(reply)    == [kind |-> "answer", reply |-> reply, note |-> FALSE, count |-> TRUE]
Control            == [kind |-> "control"]  \* keyValueControl
Monitor(es)        == [kind |-> "stats", es |-> es]
Limited(n)         == [kind |-> "limited", n |-> n]

\* body[0] \o body[1] \o ... \o body[n], the unrolled loop over rounds
Loop(body, n) ==
  LET upto[i \in 0..n] == IF i = 0 THEN body[0] ELSE upto[i - 1] \o body[i]
  IN  upto[n]

-----------------------------------------------------------------------------
(* core: runPeer, and interop_acceptance.ml.                               *)

GoCore == <<
  Sub(<<"start">>, Queue), Sub(<<"to-go">>, Queue),
  Sub(<<"go-request">>, Answer(<<"request-from-ocaml">> :> <<"response-from-go">>)),
  Flush, Touch(<<"ready">>),
  Recv(<<"start">>, <<"start">>), Reply(<<"started">>),
  Pub(<<"from-go">>, <<"from-go">>), Flush,
  Recv(<<"to-go">>, <<"to-go">>),
  Req(<<"ocaml-request">>, <<"request-from-go">>, <<"response-from-ocaml">>),
  Result(<<"go-request">>, <<"ok">>),
  NoResp(<<"no-responder">>, <<"missing">>, {<<"503">>}), Flush >>

OcamlCore == <<
  Await(<<"ready">>),
  Sub(<<"from-go">>, Queue),
  Sub(<<"ocaml-request">>, Answer(<<"request-from-go">> :> <<"response-from-ocaml">>)),
  Flush,
  Req(<<"start">>, <<"start">>, <<"started">>),
  Recv(<<"from-go">>, <<"from-go">>),
  Pub(<<"to-go">>, <<"to-go">>), Flush,
  Req(<<"go-request">>, <<"request-from-ocaml">>, <<"response-from-go">>),
  Result(<<"ocaml-request">>, <<"ok">>),
  NoResp(<<"no-responder">>, <<"missing">>, {<<"503">>}), Flush >>

-----------------------------------------------------------------------------
(* reconnect: runReconnectPeer, interop_reconnect_acceptance.ml and the    *)
(* watcher of runtest-interop-reconnect.sh, which kills one server per     *)
(* signal file the Go peer writes.                                         *)

\* awaitRecoveryBarrierWithTimeout
GoBarrier(n) == <<
  Sub(<<"reconnect-ready", n>>, Answer(<<"ocaml-ready", n>> :> <<"go-ready", n>>)),
  Flush, Result(<<"reconnect-ready", n>>, <<"ok">>), Flush >>

\* await_go_ready
OcamlBarrier(n) == <<
  Retry(<<"reconnect-ready", n>>, <<"ocaml-ready", n>>, <<"go-ready", n>>) >>

\* write the round's signal, wait for the connection to come back
GoFailover(n) == <<Touch(<<"signal", n>>), Event("R"), Flush>> \o GoBarrier(n)

\* Mutant: the server may be killed before the round's messages have come.
GoReconnectRound_early(r) ==
  << Pub(<<"from-go">>, <<"round", r>>), Flush, Touch(<<"signal", r + 1>>),
     Recv(<<"to-go">>, <<"round", r>>),
     Recv(<<"to-go">>, <<"flushed", r>>) >>
  \o (IF r = Cycles THEN <<>> ELSE GoFailover(r + 1))

GoReconnectRound(r) ==
  << Pub(<<"from-go">>, <<"round", r>>), Flush,
     Recv(<<"to-go">>, <<"round", r>>),
     Recv(<<"to-go">>, <<"flushed", r>>) >>
  \o (IF r = Cycles THEN <<>> ELSE GoFailover(r + 1))

GoReconnect ==
  << Sub(<<"start">>, Queue), Sub(<<"to-go">>, Queue), Flush, Touch(<<"ready">>),
     Recv(<<"start">>, <<"start">>), Reply(<<"started">>) >>
  \o Loop([r \in 0..Cycles |-> GoReconnectRound(r)], Cycles)

OcamlReconnectRound(r) ==
  << Recv(<<"from-go">>, <<"round", r>>),
     Pub(<<"to-go">>, <<"round", r>>), Flush,
     Pub(<<"to-go">>, <<"flushed", r>>) >>
  \o (IF r = Cycles THEN <<>>
      ELSE <<Event("D"), Event("R")>> \o OcamlBarrier(r + 1))

OcamlReconnect ==
  << Await(<<"ready">>), Sub(<<"from-go">>, Queue), Flush,
     Req(<<"start">>, <<"start">>, <<"started">>) >>
  \o Loop([r \in 0..Cycles |-> OcamlReconnectRound(r)], Cycles)
  \o <<Flush>>

\* one server per signal file, in the order the servers are listed
WatchReconnect ==
  Loop([r \in 0..Cycles |->
          IF r = 0 THEN <<>> ELSE <<Await(<<"signal", r>>), Kill({r})>>], Cycles)

-----------------------------------------------------------------------------
(* service: runServicePeer, interop_service_acceptance.ml.  Both sides     *)
(* register endpoints and monitoring subjects, and read each other's       *)
(* counters.                                                               *)

\* the two endpoints and the monitoring subjects micro.AddService registers
GoServiceSetup == <<
  Sub(<<"INFO", "go">>, Monitor(<<>>)),
  Sub(<<"STATS", "go">>, Monitor(<<<<"go.echo">>, <<"go.error">>>>)),
  Sub(<<"go.echo">>, Endpoint(<<"from-ocaml">> :> <<"go-service-response">>)),
  Sub(<<"go.error">>, Endpoint(<<"error-request">> :> <<"go-service-error">>)),
  Sub(<<"start">>, Slot), Flush, Touch(<<"ready">>) >>

\* Mutant: the error handler's counter is not waited for.
GoServiceExchange_uncounted == <<
  Recv(<<"start">>, <<"start">>), Reply(<<"started">>),
  Req(<<"ocaml.echo">>, <<"from-go">>, <<"ocaml-service-response">>),
  Req(<<"INFO", "ocaml">>, <<"info">>, <<"stats">>),
  Poll(<<"STATS", "ocaml">>, {<<"stats", n>> : n \in 1..3}),
  Flush,
  Own(<<"go.echo">>, 1), NoErrors,
  Req(<<"done">>, <<"go-finished">>, <<"ocaml-validated">>),
  Unsub({<<"INFO", "go">>, <<"STATS", "go">>, <<"go.echo">>, <<"go.error">>}) >>

GoServiceExchange == <<
  Recv(<<"start">>, <<"start">>), Reply(<<"started">>),
  Req(<<"ocaml.echo">>, <<"from-go">>, <<"ocaml-service-response">>),
  Req(<<"INFO", "ocaml">>, <<"info">>, <<"stats">>),
  Poll(<<"STATS", "ocaml">>, {<<"stats", n>> : n \in 1..3}),
  Flush,
  Own(<<"go.echo">>, 1), Own(<<"go.error">>, 1), NoErrors,
  Req(<<"done">>, <<"go-finished">>, <<"ocaml-validated">>),
  Unsub({<<"INFO", "go">>, <<"STATS", "go">>, <<"go.echo">>, <<"go.error">>}) >>

GoService == GoServiceSetup \o GoServiceExchange

OcamlService == <<
  Await(<<"ready">>),
  Sub(<<"INFO", "ocaml">>, Monitor(<<>>)),
  Sub(<<"STATS", "ocaml">>, Monitor(<<<<"ocaml.echo">>>>)),
  Sub(<<"ocaml.echo">>, Endpoint(<<"from-go">> :> <<"ocaml-service-response">>)),
  Sub(<<"done">>, Queue), Flush,
  Req(<<"start">>, <<"start">>, <<"started">>),
  Req(<<"go.echo">>, <<"from-ocaml">>, <<"go-service-response">>),
  Req(<<"go.error">>, <<"error-request">>, <<"go-service-error">>),
  Req(<<"INFO", "go">>, <<"info">>, <<"stats">>),
  Recv(<<"done">>, <<"go-finished">>),
  Req(<<"STATS", "go">>, <<"stats">>, <<"stats", 1, 1>>),
  Reply(<<"ocaml-validated">>), Flush,
  NoErrors, Flush >>

-----------------------------------------------------------------------------
(* service-failure: the Go peer overflows an OCaml endpoint whose pending  *)
(* queue holds one request while its handler is blocked.                   *)

GoServiceFailure == <<
  Sub(<<"start">>, Slot), Sub(<<"first-started">>, Slot), Flush, Touch(<<"ready">>),
  Recv(<<"start">>, <<"start">>), Reply(<<"started">>), Flush,
  Pub(<<"ocaml.limited">>, <<"first">>), Flush,
  Recv(<<"first-started">>, <<"started">>), Reply(<<"first-started">>), Flush >>
  \o [i \in 1..(BurstSize - 1) |-> Pub(<<"ocaml.limited">>, <<"overflow", i>>)]
  \o << Flush,
  Req(<<"release">>, <<"release">>, <<"released">>),
  Req(<<"parent-check">>, <<"usable">>, <<"parent-usable">>),
  Req(<<"done">>, <<"go-finished">>, <<"ocaml-validated">>) >>

OcamlServiceFailure == <<
  Await(<<"ready">>),
  Sub(<<"ocaml.limited">>, Limited(1)),
  Sub(<<"release">>, Queue), Sub(<<"parent-check">>, Queue), Sub(<<"done">>, Queue), Flush,
  Req(<<"start">>, <<"start">>, <<"started">>),
  Result(<<"ocaml.limited">>, <<"entered">>),
  Req(<<"first-started">>, <<"started">>, <<"first-started">>),
  Recv(<<"release">>, <<"release">>), Reply(<<"released">>), Flush,
  Result(<<"ocaml.limited">>, <<"slow-consumer">>),
  Recv(<<"parent-check">>, <<"usable">>), Reply(<<"parent-usable">>), Flush,
  Recv(<<"done">>, <<"go-finished">>), Reply(<<"ocaml-validated">>), Flush >>

-----------------------------------------------------------------------------
(* service-parent-close: the OCaml side closes the connection under its    *)
(* service; the Go peer may then see no responder, or no answer at all     *)
(* when its request overtakes the server's notice of the close.            *)

GoServiceParentClose == <<
  Sub(<<"start">>, Slot), Flush, Touch(<<"ready">>),
  Recv(<<"start">>, <<"start">>), Reply(<<"started">>), Flush,
  Req(<<"ocaml.echo">>, <<"before-close">>, <<"before-close-response">>),
  Req(<<"close">>, <<"close">>, <<"closing">>),
  Await(<<"closed">>),
  NoResp(<<"ocaml.echo">>, <<"after-close">>, {<<"503">>, <<"timeout">>}) >>

OcamlServiceParentClose == <<
  Await(<<"ready">>),
  Sub(<<"ocaml.echo">>, Endpoint(<<"before-close">> :> <<"before-close-response">>)),
  Sub(<<"close">>, Queue), Flush,
  Req(<<"start">>, <<"start">>, <<"started">>),
  Recv(<<"close">>, <<"close">>), Reply(<<"closing">>), Flush,
  Close, Touch(<<"closed">>) >>

-----------------------------------------------------------------------------
(* service-reconnect: runServiceReconnectPeer and its OCaml counterpart.   *)
(* Every round both sides wait for both counters to be exactly the number  *)
(* of rounds, then meet, and only then is a server killed.                 *)

Echoed(from, prefix) ==
  [m \in {<<from, r>> : r \in 0..Cycles} |-> <<prefix>> \o m]

GoServiceReconnectSetup == <<
  Sub(<<"INFO", "go">>, Monitor(<<>>)),
  Sub(<<"STATS", "go">>, Monitor(<<<<"go.echo">>>>)),
  Sub(<<"go.echo">>, Endpoint(Echoed("ocaml-to-go", "go-response-for"))),
  Sub(<<"start">>, Slot), Sub(<<"round-ready">>, Slot), Flush, Touch(<<"ready">>),
  Recv(<<"start">>, <<"start">>), Reply(<<"started">>),
  Req(<<"INFO", "ocaml">>, <<"info">>, <<"stats">>) >>

\* Mutant: the acceptance of the round is not flushed before the signal.
GoServiceRound_unflushed(r) ==
  << Req(<<"ocaml.echo">>, <<"go-to-ocaml", r>>, <<"ocaml-response-for", "go-to-ocaml", r>>),
     Own(<<"go.echo">>, r + 1),
     Poll(<<"STATS", "ocaml">>, {<<"stats", r + 1>>}),
     NoErrors,
     Recv(<<"round-ready">>, <<"round", r>>), Reply(<<"accepted">>) >>
  \o (IF r = Cycles THEN <<>>
      ELSE GoFailover(r + 1) \o <<Req(<<"INFO", "ocaml">>, <<"info">>, <<"stats">>)>>)

GoServiceRound(r) ==
  << Req(<<"ocaml.echo">>, <<"go-to-ocaml", r>>, <<"ocaml-response-for", "go-to-ocaml", r>>),
     Own(<<"go.echo">>, r + 1),
     Poll(<<"STATS", "ocaml">>, {<<"stats", r + 1>>}),
     NoErrors,
     Recv(<<"round-ready">>, <<"round", r>>), Reply(<<"accepted">>), Flush >>
  \o (IF r = Cycles THEN <<>>
      ELSE GoFailover(r + 1) \o <<Req(<<"INFO", "ocaml">>, <<"info">>, <<"stats">>)>>)

GoServiceReconnect ==
  GoServiceReconnectSetup
  \o Loop([r \in 0..Cycles |-> GoServiceRound(r)], Cycles)
  \o << Req(<<"done">>, <<"go-finished">>, <<"ocaml-validated">>),
        Unsub({<<"INFO", "go">>, <<"STATS", "go">>, <<"go.echo">>}) >>

OcamlServiceRound(r) ==
  << Req(<<"go.echo">>, <<"ocaml-to-go", r>>, <<"go-response-for", "ocaml-to-go", r>>),
     Poll(<<"STATS", "go">>, {<<"stats", r + 1>>}),
     Poll(<<"STATS", "ocaml">>, {<<"stats", r + 1>>}),
     Req(<<"round-ready">>, <<"round", r>>, <<"accepted">>) >>
  \o (IF r = Cycles THEN <<>>
      ELSE <<Event("D"), Event("R")>> \o OcamlBarrier(r + 1)
           \o << Req(<<"INFO", "go">>, <<"info">>, <<"stats">>),
                 Req(<<"INFO", "ocaml">>, <<"info">>, <<"stats">>) >>)

OcamlServiceReconnect ==
  << Await(<<"ready">>),
     Sub(<<"INFO", "ocaml">>, Monitor(<<>>)),
     Sub(<<"STATS", "ocaml">>, Monitor(<<<<"ocaml.echo">>>>)),
     Sub(<<"ocaml.echo">>, Endpoint(Echoed("go-to-ocaml", "ocaml-response-for"))),
     Sub(<<"done">>, Queue), Flush,
     Req(<<"start">>, <<"start">>, <<"started">>),
     Req(<<"INFO", "go">>, <<"info">>, <<"stats">>) >>
  \o Loop([r \in 0..Cycles |-> OcamlServiceRound(r)], Cycles)
  \o << Recv(<<"done">>, <<"go-finished">>), Reply(<<"ocaml-validated">>), Flush >>
=============================================================================
