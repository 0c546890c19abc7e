------------------------ MODULE InteropStreamScripts ------------------------
(***************************************************************************)
(* The JetStream programs of the interoperability suite, in the notation   *)
(* of InteropScripts.  The parameter kind of a failover program is what    *)
(* its watcher does to the servers:                                        *)
(*   reconnect   kill the first one                                        *)
(*   restart     ... and start it again once both clients are back         *)
(*   multi       ... and kill a second one before that                     *)
(*   management  ... kill all, so that a management request must fail      *)
(*   changed     ... replace it by one with another client URL             *)
(*   leader      kill the server that leads the stream                     *)
(***************************************************************************)
EXTENDS InteropScripts

Fail1 == <<"signal", 1>>

Subs(ss, h) == [i \in 1..Len(ss) |-> Sub(<<ss[i]>>, h)]

-----------------------------------------------------------------------------
(* jetstream-push: runJetStreamPushPeer.                                   *)

GoPushSetup == <<
  MakeStream, MakePush("go", <<"ocaml">>), MakePush("ocaml", <<"go">>), Bind >>

GoPush == GoPushSetup \o Subs(<<"start", "go-push-acked">>, Queue) \o <<
  Flush, Touch(<<"ready">>),
  Recv(<<"start">>, <<"start">>), Reply(<<"started">>),
  Store(<<"go">>, 1, 1),
  Recv(<<"go-push-acked">>, <<"acked">>), Floor("ocaml", 1, 1), Reply(<<"acknowledged">>),
  Take(2, {1}), AckSync, Floor("go", 2, 1),
  CloseConsumer, Flush, Pub(<<"done">>, <<"acked">>), Flush >>

OcamlPush == <<
  Await(<<"ready">>), Floor("ocaml", 0, 0), Floor("go", 0, 0), Bind, Sub(<<"done">>, Queue), Flush,
  Req(<<"start">>, <<"start">>, <<"started">>),
  Take(1, {1}), AckSync,
  Req(<<"go-push-acked">>, <<"acked">>, <<"acknowledged">>),
  Store(<<"ocaml">>, 1, 2),
  Recv(<<"done">>, <<"acked">>),
  CloseConsumer, Flush, DeleteStream >>

-----------------------------------------------------------------------------
(* jetstream-ordered: runJetStreamOrderedPeer.                             *)

GoOrderedSetup == <<MakeStream, OpenOrdered(<<"match">>), Flush, OrderedReady>>

GoOrdered == GoOrderedSetup
  \o Subs(<<"start", "batch2", "ordered-closed", "cleanup">>, Queue) \o <<
  Flush, Touch(<<"ready">>),
  Recv(<<"start">>, <<"start">>), Reply(<<"started">>),
  Store(<<"match">>, 1, 1), Store(<<"gap">>, 1, 2), Store(<<"match">>, 1, 3),
  Store(<<"gap">>, 1, 4), Store(<<"match">>, 1, 5),
  Take(1, {1}), Take(3, {2}), Take(5, {3}),
  Recv(<<"batch2">>, <<"batch2">>), Reply(<<"batch2-ready">>),
  Take(6, {4}), Take(8, {5}),
  Recv(<<"ordered-closed">>, <<"closed">>), CloseConsumer, Flush,
  Reply(<<"unsubscribe">>), Flush,
  Pub(<<"go-done">>, <<"unsubscribed">>), Flush,
  Recv(<<"cleanup">>, <<"cleanup">>), Reply(<<"cleaned">>), Flush >>

OcamlOrdered == <<
  Await(<<"ready">>), Sub(<<"go-done">>, Queue), OpenOrdered(<<"match">>), Flush,
  Req(<<"start">>, <<"start">>, <<"started">>),
  Take(1, {1}), Take(3, {2}), Take(5, {3}),
  Req(<<"batch2">>, <<"batch2">>, <<"batch2-ready">>),
  Store(<<"match">>, 1, 6), Store(<<"gap">>, 1, 7), Store(<<"match">>, 1, 8),
  Take(6, {4}), Take(8, {5}),
  CloseConsumer, Flush,
  Req(<<"ordered-closed">>, <<"closed">>, <<"unsubscribe">>),
  Recv(<<"go-done">>, <<"unsubscribed">>),
  DeleteStream,
  Req(<<"cleanup">>, <<"cleanup">>, <<"cleaned">>) >>

-----------------------------------------------------------------------------
(* jetstream-push-reconnect: runJetStreamPushReconnectPeer.  The only      *)
(* server is killed and started again; both durable consumers must come    *)
(* back with what was acknowledged.                                        *)

GoPushBaseline == <<
  Recv(<<"start">>, <<"start">>), Reply(<<"started">>),
  Store(<<"go">>, 1, 1),
  Recv(<<"go-acked">>, <<"before">>), Floor("ocaml", 1, 1), Reply(<<"acknowledged">>),
  Take(2, {1}), AckSync, Floor("go", 2, 1),
  Pub(<<"before-done">>, <<"baseline">>), Flush >>

GoPushRecovery == <<
  Await(Fail1), Event("R"), Flush,
  Holds(2), FloorSoon("go", 2, 1), FloorSoon("ocaml", 1, 1) >>
  \o GoBarrier(1)
  \o << Recv(<<"recovery-verified">>, <<"verified">>), Reply(<<"go-verified">>) >>

GoPushAfter == <<
  Store(<<"go">>, 1, 3),
  Recv(<<"go-acked">>, <<"after">>), Floor("ocaml", 3, 2), Reply(<<"acknowledged">>),
  Take(4, {2}), AckSync, Floor("go", 4, 2),
  CloseConsumer, Flush, Pub(<<"go-done">>, <<"complete">>), Flush,
  Recv(<<"cleanup">>, <<"cleanup">>), Reply(<<"cleaned">>) >>

GoPushReconnect ==
  GoPushSetup \o Subs(<<"start", "go-acked", "recovery-verified", "cleanup">>, Queue)
  \o <<Flush, Touch(<<"ready">>)>>
  \o GoPushBaseline \o GoPushRecovery \o GoPushAfter

OcamlPushReconnect == <<
  Await(<<"ready">>), Holds(0), Floor("ocaml", 0, 0), Floor("go", 0, 0), Bind,
  Sub(<<"before-done">>, Queue), Sub(<<"go-done">>, Queue), Flush,
  Req(<<"start">>, <<"start">>, <<"started">>),
  Take(1, {1}), AckSync,
  Req(<<"go-acked">>, <<"before">>, <<"acknowledged">>),
  Store(<<"ocaml">>, 1, 2),
  Recv(<<"before-done">>, <<"baseline">>),
  Touch(Fail1), Event("D"), Event("R") >>
  \o OcamlBarrier(1)
  \o << Holds(2), FloorSoon("ocaml", 1, 1), FloorSoon("go", 2, 1),
  Req(<<"recovery-verified">>, <<"verified">>, <<"go-verified">>),
  Take(3, {2}), AckSync,
  Req(<<"go-acked">>, <<"after">>, <<"acknowledged">>),
  Store(<<"ocaml">>, 1, 4),
  Recv(<<"go-done">>, <<"complete">>), Floor("ocaml", 3, 2),
  CloseConsumer, Flush, DeleteStream,
  Req(<<"cleanup">>, <<"cleanup">>, <<"cleaned">>) >>

\* Mutant: the server is killed as soon as the acknowledgements are confirmed.
WatchPush_unpaused == << Await(Fail1), Kill({1}), Start({1}) >>

\* runtest-interop-jetstream-reconnect.sh: the pause outlasts a batch of acknowledgements
WatchPush == << Await(Fail1), Pause, Kill({1}), Start({1}) >>

-----------------------------------------------------------------------------
(* What the cluster programs share.                                        *)

\* report the leader, move to a server that is not it, see that it still leads
GoLeaderSetup(kind) ==
  IF kind # "leader" THEN <<>>
  ELSE << NameLeader, Touch(<<"leader">>), Await(<<"survivor">>), Connect, LeaderStands >>

GoDisconnect(kind) ==
  IF kind \notin {"changed", "management"} THEN <<>>
  ELSE << Event("D"), Touch(<<"go", "disconnected">>) >>

GoManagement(kind) ==
  IF kind # "management" THEN <<>>
  ELSE << Await(<<"management-window-ready">>), Denied, Touch(<<"go", "management-failed">>),
          Await(<<"management-recovered">>) >>

\* through the outage the watcher makes
GoOutage(kind) ==
  << Await(Fail1) >> \o
  CASE kind = "leader" ->
         << LeaderStands, Touch(<<"kill-ready">>), Await(<<"killed">>), LeaderMoved >>
    [] kind = "restart" -> << Event("R"), Touch(<<"go", "reconnected">>) >>
    [] kind = "multi" ->
         << Event("R"), Touch(<<"go", "reconnected">>), Await(<<"multi-node-recovered">>) >>
    [] kind = "changed" ->
         << Event("R"), Await(<<"changed-replacement-ready">>), Discovered,
            Touch(<<"go", "advertised">>), Event("R"), Touch(<<"go", "second-reconnected">>),
            Await(<<"changed-recovered">>) >>
    [] OTHER -> << Event("R") >>

\* Mutant: one look at the stream is enough.
GoRecovered_once(kind, n) == << Holds(n) >>

\* every replica is current again before recovery is declared, where one was restarted
GoRecovered(kind, n) ==
  IF kind \in {"restart", "multi", "changed"} THEN << Quorum(n) >> ELSE << Holds(n) >>

OcamlOutage(kind) ==
  << Touch(Fail1) >> \o
  CASE kind = "leader" -> << Await(<<"killed">>) >>
    [] kind = "restart" -> << Event("D"), Back({1}), Touch(<<"ocaml", "reconnected">>) >>
    [] kind = "multi" ->
         << Event("D"), Back({1}), Touch(<<"ocaml", "reconnected">>),
            Await(<<"multi-node-recovered">>) >>
    [] kind = "management" ->
         << Event("D"), Touch(<<"ocaml", "disconnected">>), Await(<<"management-window-ready">>),
            Denied, Touch(<<"ocaml", "management-failed">>), Await(<<"management-recovered">>),
            Back({1}) >>
    [] kind = "changed" ->
         << Event("D"), Touch(<<"ocaml", "disconnected">>), Back({1}),
            Await(<<"changed-replacement-ready">>), Discovered, Touch(<<"ocaml", "advertised">>),
            Event("D"), Back({2, 3}), Touch(<<"ocaml", "second-reconnected">>),
            Await(<<"changed-recovered">>) >>
    [] OTHER -> << Event("D"), Back({1}) >>

RecoveryPayload(kind) == IF kind = "leader" THEN <<"leader-failover">> ELSE <<"reconnected">>

OcamlRecovered(kind) ==
  << Until(<<"recovery-ready">>, RecoveryPayload(kind), <<"go-recovery-ready">>) >>

\* runtest-interop-jetstream-cluster.sh
BothDid(f) == << Await(<<"go", f>>), Await(<<"ocaml", f>>) >>

WatchCluster(kind) ==
  (IF kind = "leader" THEN << Await(<<"leader">>), Touch(<<"survivor">>) >> ELSE <<>>)
  \o << Await(Fail1), Pause >> \o
  CASE kind = "leader" -> << Await(<<"kill-ready">>), KillLeader, Touch(<<"killed">>) >>
    [] kind = "restart" -> << Kill({1}) >> \o BothDid("reconnected") \o << Start({1}) >>
    [] kind = "multi" ->
         << Kill({1}) >> \o BothDid("reconnected")
         \o << Kill({2}), Start({1, 2}), Touch(<<"multi-node-recovered">>) >>
    [] kind = "management" ->
         << Kill({1}) >> \o BothDid("disconnected")
         \o << Kill({2, 3}), Touch(<<"management-window-ready">>) >>
         \o BothDid("management-failed")
         \o << Start({1, 2, 3}), Touch(<<"management-recovered">>) >>
    [] kind = "changed" ->
         << Kill({1}) >> \o BothDid("disconnected")
         \o << Replace(1), Pause, Touch(<<"changed-replacement-ready">>) >>
         \o BothDid("advertised") \o << Kill({2, 3}) >>
         \o BothDid("second-reconnected")
         \o << Start({2, 3}), Touch(<<"changed-recovered">>) >>
    [] OTHER -> << Kill({1}) >>

OcamlLeader(kind) == IF kind = "leader" THEN << Connect >> ELSE <<>>

-----------------------------------------------------------------------------
(* jetstream-ordered-*: runJetStreamOrderedReconnectPeer.                  *)

GoOrderedReconnectSetup(kind) ==
  << MakeStream >> \o GoLeaderSetup(kind)
  \o << OpenOrdered(<<"match">>), Flush, OrderedReady >>
  \o Subs(<<"start", "baseline", "recovery-ready", "close", "cleanup">>, Queue)
  \o << Flush, Touch(<<"ready">>) >>

GoOrderedBaseline == <<
  Recv(<<"start">>, <<"start">>), Reply(<<"started">>),
  Store(<<"match">>, 1, 1), Store(<<"gap">>, 1, 2), Store(<<"match">>, 1, 3),
  Take(1, {1}), Take(3, {2}),
  Recv(<<"baseline">>, <<"complete">>), Quorum(3), Reply(<<"baseline-ready">>) >>

GoOrderedAfter(kind) == <<
  Recv(<<"recovery-ready">>, RecoveryPayload(kind)), OrderedReady, Reply(<<"go-recovery-ready">>),
  Store(<<"match">>, 1, 4), Take(4, {3}),
  Recv(<<"close">>, <<"close">>), Reply(<<"go-closed">>), Flush,
  Recv(<<"cleanup">>, <<"cleanup">>), Reply(<<"cleaned">>) >>

GoOrderedReconnect(kind) ==
  GoOrderedReconnectSetup(kind) \o GoOrderedBaseline
  \o GoDisconnect(kind) \o GoManagement(kind) \o GoOutage(kind) \o GoRecovered(kind, 3)
  \o GoOrderedAfter(kind)

OcamlOrderedReconnect(kind) ==
  << Await(<<"ready">>) >> \o OcamlLeader(kind) \o
  << OpenOrdered(<<"match">>), Flush,
     Req(<<"start">>, <<"start">>, <<"started">>),
     Take(1, {1}), Take(3, {2}),
     Req(<<"baseline">>, <<"complete">>, <<"baseline-ready">>) >>
  \o OcamlOutage(kind) \o OcamlRecovered(kind) \o
  << Take(4, {3}),
     Req(<<"close">>, <<"close">>, <<"go-closed">>),
     CloseConsumer, Flush, DeleteStream,
     Req(<<"cleanup">>, <<"cleanup">>, <<"cleaned">>) >>

-----------------------------------------------------------------------------
(* jetstream-kv-*: runJetStreamKeyValueOrderedReconnectPeer.  The OCaml    *)
(* watch is an ordered consumer whose generation the Go peer reads from    *)
(* its name.                                                               *)

GoKeyValueSetup(kind) ==
  << MakeStream, Holds(0), Store(<<"watch">>, 1, 1), Quorum(1) >> \o GoLeaderSetup(kind)
  \o Subs(<<"start", "baseline", "recovery-ready", "entry-seen", "close", "cleanup">>, Control)
  \o << Flush, Touch(<<"ready">>) >>

GoKeyValueBaseline == <<
  Recv(<<"start">>, <<"start">>), Respond(<<"start">>, <<"started">>), Flush,
  Recv(<<"baseline">>, <<"complete">>), Holds(1), Quorum(1),
  Respond(<<"baseline">>, <<"baseline-ready">>), Flush, FirstGeneration >>

GoKeyValueAfter(kind) == <<
  Recv(<<"recovery-ready">>, RecoveryPayload(kind)), NextGeneration(kind # "leader"),
  Store(<<"watch">>, 1, 2), Respond(<<"recovery-ready">>, <<"go-recovery-ready">>), Flush,
  Recv(<<"entry-seen">>, <<"seen">>), Respond(<<"entry-seen">>, <<"validated">>), Flush,
  Recv(<<"close">>, <<"close">>), Respond(<<"close">>, <<"go-closed">>), Flush,
  Recv(<<"cleanup">>, <<"cleanup">>), DeleteStream, Respond(<<"cleanup">>, <<"cleaned">>), Flush >>

GoKeyValueReconnect(kind) ==
  GoKeyValueSetup(kind) \o GoKeyValueBaseline
  \o GoOutage(kind) \o GoRecovered(kind, 1) \o GoKeyValueAfter(kind)

OcamlKeyValueReconnect(kind) ==
  << Await(<<"ready">>) >> \o OcamlLeader(kind) \o
  << Holds(1), OpenOrdered(<<"watch">>), Take(1, {1}), Flush,
     Req(<<"start">>, <<"start">>, <<"started">>),
     Req(<<"baseline">>, <<"complete">>, <<"baseline-ready">>) >>
  \o OcamlOutage(kind) \o OcamlRecovered(kind) \o
  << Take(2, {2}),
     Req(<<"entry-seen">>, <<"seen">>, <<"validated">>),
     Req(<<"close">>, <<"close">>, <<"go-closed">>),
     CloseConsumer, Flush,
     Req(<<"cleanup">>, <<"cleanup">>, <<"cleaned">>) >>

-----------------------------------------------------------------------------
(* jetstream-object-*: runJetStreamObjectReconnectPeer.  An object is as   *)
(* many messages of its name as it has chunks, and one for its metadata.   *)

GoObjectSetup(kind) ==
  << MakeStream, Holds(0) >> \o GoLeaderSetup(kind)
  \o Subs(<<"start", "baseline", "recovery-ready", "after-seen", "cleanup">>, Control)
  \o << Flush, Touch(<<"ready">>) >>

GoObjectBaseline == <<
  Recv(<<"start">>, <<"start">>), Store(<<"go-before">>, 2, 2),
  Respond(<<"start">>, <<"started">>), Flush,
  Recv(<<"baseline">>, <<"complete">>), Get(<<"ocaml-before">>), Quorum(8), Holds(8),
  Respond(<<"baseline">>, <<"baseline-ready">>), Flush >>

GoObjectRecovered(kind) ==
  (IF kind \in {"restart", "multi"} THEN << Quorum(8) >> ELSE <<>>)
  \o << HoldsSoon(8), GetSoon(<<"go-before">>) >>

GoObjectAfter(kind) == <<
  Recv(<<"recovery-ready">>, RecoveryPayload(kind)),
  Store(<<"go-after">>, 2, 10), GetSoon(<<"go-after">>),
  Respond(<<"recovery-ready">>, <<"go-recovery-ready">>), Flush,
  Recv(<<"after-seen">>, <<"seen">>), GetSoon(<<"ocaml-after">>),
  Respond(<<"after-seen">>, <<"validated">>), Flush,
  Recv(<<"cleanup">>, <<"cleanup">>), DeleteStream, Respond(<<"cleanup">>, <<"cleaned">>), Flush >>

GoObjectReconnect(kind) ==
  GoObjectSetup(kind) \o GoObjectBaseline
  \o GoOutage(kind) \o GoObjectRecovered(kind) \o GoObjectAfter(kind)

OcamlObjectReconnect(kind) ==
  << Await(<<"ready">>) >> \o OcamlLeader(kind) \o
  << Holds(0),
     Req(<<"start">>, <<"start">>, <<"started">>),
     Get(<<"go-before">>), Store(<<"ocaml-before">>, 6, 8),
     Req(<<"baseline">>, <<"complete">>, <<"baseline-ready">>) >>
  \o OcamlOutage(kind) \o OcamlRecovered(kind) \o
  << Get(<<"go-after">>), Store(<<"ocaml-after">>, 5, 15),
     Req(<<"after-seen">>, <<"seen">>, <<"validated">>),
     Req(<<"cleanup">>, <<"cleanup">>, <<"cleaned">>) >>
=============================================================================
