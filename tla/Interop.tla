------------------------------- MODULE Interop -------------------------------
(***************************************************************************)
(* The interoperability suite: the Go peer and the OCaml acceptance        *)
(* executable exchange messages over nats-server while the driver's        *)
(* watcher kills and restarts servers on their request.  The processes run *)
(* the programs of Suite; this module gives their calls a meaning          *)
(* over two client connections, the servers, the stream and the files the  *)
(* processes signal each other with.                                       *)
(***************************************************************************)
EXTENDS InteropClient, InteropStream

CONSTANTS Suite,        \* mode -> its setting and programs, see InteropSuite
          Modes,        \* the modes this instance runs
          Hosts,        \* servers a stream or an ordered consumer is placed on
          FaultyModes,  \* the modes in which a call may fail for a reason outside the model
          MaxRetries    \* attempts of a retried request that time out early

ASSUME ModesAssumption ==
  /\ Modes \subseteq DOMAIN Suite
  /\ Hosts \subseteq Nat
  /\ FaultyModes \subseteq Modes
  /\ MaxRetries \in Nat

VARIABLES
  mode,      \* the mode the driver was started in
  setting,   \* its servers and programs
  pc,        \* process -> position in its program
  st,        \* process -> "run", "ok" or "failed"
  client,    \* peer -> its connection, see InteropClient
  up,        \* servers that are running
  fresh,     \* servers running under a client URL that was not configured
  js,        \* the stream and its consumers, see InteropStream
  files,     \* files the processes have written
  faults,    \* calls failed so far, at most one
  retries    \* early timeouts so far

vars == <<client, pc, st, up, fresh, js, files, faults, retries, mode, setting>>

fixed   == <<mode, setting>>
control == <<mode, setting, pc, st>>
servers == <<up, fresh>>
budget  == <<faults, retries>>

Peers == {"go", "ocaml"}
Procs == Peers \cup {"watcher"}

Servers == setting.servers
Program(p) == setting.program[p]
Running(p) == st[p] = "run"
Instr(p) == Program(p)[pc[p]]
At(p, ops) == Running(p) /\ pc[p] <= Len(Program(p)) /\ Instr(p).op \in ops
Goto(p) == pc' = [pc EXCEPT ![p] = @ + 1] /\ UNCHANGED <<fixed, st, budget>>

Init ==
  /\ mode \in Modes
  /\ setting = Suite[mode]
  /\ pc = [p \in Procs |-> 1]
  /\ st = [p \in Procs |-> "run"]
  /\ client = [p \in Peers |-> Connected(1)]
  /\ up = Servers
  /\ fresh = {}
  /\ js = NoStream(Peers)
  /\ files = {}
  /\ faults = 0
  /\ retries = 0

-----------------------------------------------------------------------------
(* Ends of a process.                                                      *)

\* the deferred Close of a peer that returns
Exit(p) == IF p \in Peers /\ client[p].open
           THEN [client EXCEPT ![p] = Closing(@)] ELSE client

\* the function returned nil: drain and exit
Finish(p) ==
  /\ Running(p) /\ pc[p] > Len(Program(p))
  /\ st' = [st EXCEPT ![p] = "ok"]
  /\ client' = Exit(p)
  /\ UNCHANGED <<fixed, pc, servers, js, files, budget>>

\* the function returned an error: main writes the failure marker, the
\* deferred Close runs and the process exits
Failed(p) ==
  /\ st' = [st EXCEPT ![p] = "failed"]
  /\ client' = Exit(p)
  /\ files' = IF p # "ocaml" /\ setting.signal THEN files \cup {<<"failed">>} ELSE files
  /\ UNCHANGED <<fixed, pc, servers, js, retries>>

Fail(p) == Failed(p) /\ UNCHANGED faults

Asking == {"Req", "Retry", "Until", "Poll", "NoResp"}
Waits  == Asking \cup {"Flush", "Recv", "Result", "Own", "Event", "Await", "Discovered", "Take", "Jet"}

\* the calls on a connection or on a server that can fail by themselves
Fallible == Asking \cup {"Flush", "Sub", "Pub", "Reply", "Jet", "Kill", "Start", "Replace"}

Fault(p) ==
  /\ At(p, Fallible)
  /\ mode \in FaultyModes /\ faults = 0 /\ faults' = 1
  /\ Failed(p)

\* the driver's cleanup kills a watcher still at work when the peers are done
Reap ==
  /\ Running("watcher") /\ \A p \in Peers : ~Running(p)
  /\ pc["watcher"] <= Len(Program("watcher"))
  /\ st' = [st EXCEPT !["watcher"] = "ok"]
  /\ UNCHANGED <<fixed, pc, client, servers, js, files, budget>>

-----------------------------------------------------------------------------
(* Calls of a peer that complete at once, and waits for what is local.     *)

Local(p) ==
  /\ \/ At(p, {"Sub"})   /\ client' = [client EXCEPT ![p] = Subscribed(@, Instr(p).s, Instr(p).h)]
     \/ At(p, {"Unsub"}) /\ client' = [client EXCEPT ![p] = Unsubscribed(@, Instr(p).ss)]
     \/ At(p, {"Pub"})   /\ client' = [client EXCEPT ![p] =
                              Send(@, Wire("PUB", Instr(p).s, Instr(p).m, <<>>))]
     \/ At(p, {"Reply"}) /\ client' = [client EXCEPT ![p] =
                              Send(@, Wire("ANS", <<>>, Instr(p).m, @.held))]
     \/ At(p, {"Respond"}) /\ client' = [client EXCEPT ![p] = Responded(@, Instr(p).s, Instr(p).m)]
     \/ At(p, {"Close"}) /\ client' = [client EXCEPT ![p] = Closing(@)]
     \/ At(p, {"Connect"}) /\ \E n \in up \ {js.named} : client' = [client EXCEPT ![p] = Connected(n)]
     \/ At(p, {"NoErrors"}) /\ Clean(client[p]) /\ UNCHANGED client
  /\ Goto(p)
  /\ UNCHANGED <<servers, js, files>>

TouchFile(p) ==
  /\ At(p, {"Touch"})
  /\ files' = files \cup {Instr(p).f}
  /\ Goto(p)
  /\ UNCHANGED <<client, servers, js>>

AwaitFile(p) ==
  /\ At(p, {"Await"}) /\ Instr(p).f \in files
  /\ Goto(p)
  /\ UNCHANGED <<client, servers, js, files>>

\* waitMessage: the next message of the subscription, which must be the one expected
TakeMessage(p) ==
  /\ At(p, {"Recv"})
  /\ LET q == Pending(client[p], Instr(p).s)
     IN /\ q # <<>>
        /\ IF Head(q).m = Instr(p).m
           THEN /\ client' = [client EXCEPT ![p].box[Instr(p).s] = Tail(q), ![p].held = Head(q).to]
                /\ Goto(p)
                /\ UNCHANGED <<servers, js, files>>
           ELSE Fail(p)

\* waitResult: what the callback of the subject posted
TakeResult(p) ==
  /\ At(p, {"Result"})
  /\ LET note == <<Instr(p).s, Instr(p).m>>
     IN IF <<Instr(p).s, <<"bad">>>> \in client[p].notes THEN Fail(p)
        ELSE /\ note \in client[p].notes
             /\ client' = [client EXCEPT ![p].notes = @ \ {note}]
             /\ Goto(p)
             /\ UNCHANGED <<servers, js, files>>

\* the peer's own service: poll until the counter is n
ReadOwn(p) ==
  /\ At(p, {"Own"}) /\ client[p].cnt[Instr(p).e] = Instr(p).n
  /\ Goto(p)
  /\ UNCHANGED <<client, servers, js, files>>

\* waitReconnect: Go takes its token of that kind, OCaml reads its event
\* stream in order and skips what it does not wait for
TakeEvent(p) ==
  /\ At(p, {"Event"})
  /\ LET ev == client[p].ev
         is == {i \in 1..Len(ev) : ev[i][1] = Instr(p).e /\ (p = "go" \/ ev[i][2] \notin Instr(p).not)}
         i  == CHOOSE i \in is : \A k \in is : i <= k
     IN /\ is # {}
        /\ client' = [client EXCEPT ![p].ev =
                        IF p = "go" THEN RemoveAt(ev, i) ELSE SubSeq(ev, i + 1, Len(ev))]
  /\ Goto(p)
  /\ UNCHANGED <<servers, js, files>>

\* the advertised servers: Go looks once, OCaml until it is there
SeeDiscovered(p) ==
  /\ At(p, {"Discovered"})
  /\ IF client[p].known
     THEN Goto(p) /\ UNCHANGED <<client, servers, js, files>>
     ELSE p = "go" /\ Fail(p)

-----------------------------------------------------------------------------
(* Calls that wait for the server or the other peer.                       *)

\* send the PING, or the request under this attempt's inbox
Ask(p) ==
  /\ At(p, Asking \cup {"Flush"}) /\ ~client[p].waits
  /\ LET w == IF Instr(p).op = "Flush" THEN Ping
              ELSE Wire("PUB", Instr(p).s, Instr(p).m, <<p, client[p].att>>)
     IN client' = [client EXCEPT ![p] = [Send(@, w) EXCEPT !.waits = TRUE, !.ans = <<>>]]
  /\ UNCHANGED <<control, servers, js, files, budget>>

Wanted(p) == IF Instr(p).op = "Flush" THEN {<<"pong">>} ELSE Instr(p).want

\* the answers after which a repeated call is made again
Retried(p) == client[p].ans \in {<<"503">>, <<"lost">>}

\* the call returns what it was to return
Answered(p) ==
  /\ At(p, Asking \cup {"Flush"}) /\ client[p].waits /\ client[p].ans \in Wanted(p)
  /\ client' = [client EXCEPT ![p].waits = FALSE]
  /\ Goto(p)
  /\ UNCHANGED <<servers, js, files>>

\* a polled or retried call that got another answer is made again
Again(p) ==
  /\ At(p, {"Poll", "Retry", "Until"}) /\ client[p].waits
  /\ client[p].ans # <<>> /\ client[p].ans \notin Wanted(p)
  /\ Instr(p).op = "Poll" \/ Retried(p)
  /\ client' = [client EXCEPT ![p].waits = FALSE]
  /\ UNCHANGED <<control, servers, js, files, budget>>

\* any other answer is an error
Refused(p) ==
  /\ At(p, Asking \cup {"Flush"}) /\ client[p].waits
  /\ client[p].ans # <<>> /\ client[p].ans \notin Wanted(p)
  /\ Instr(p).op # "Poll"
  /\ Instr(p).op \in {"Retry", "Until"} => ~Retried(p)
  /\ Fail(p)

\* a short attempt times out: the next one uses a fresh inbox
Expire(p) ==
  /\ At(p, {"Retry"}) /\ client[p].waits /\ client[p].ans = <<>>
  /\ retries < MaxRetries /\ retries' = retries + 1
  /\ client' = [client EXCEPT ![p].waits = FALSE, ![p].att = @ + 1]
  /\ UNCHANGED <<control, servers, js, files, faults>>

\* a call whose timeout is one of its accepted outcomes
AcceptTimeout(p) ==
  /\ At(p, {"NoResp"}) /\ client[p].waits /\ client[p].ans = <<>>
  /\ <<"timeout">> \in Instr(p).want
  /\ client' = [client EXCEPT ![p].waits = FALSE, ![p].att = @ + 1]
  /\ Goto(p)
  /\ UNCHANGED <<servers, js, files>>

-----------------------------------------------------------------------------
(* Calls of the stream.                                                    *)

Reachable(p) == Linked(client[p]) /\ Available(js, up, Servers)

\* a call the server can answer
Ready(p) == IF Instr(p).k = "stream" THEN Linked(client[p]) /\ Majority(up, Servers) ELSE Reachable(p)

\* what the peer checks of the answer
Met(p) ==
  LET x == Instr(p).x
      k == Instr(p).k
      watch == js.cons["ocaml"]
  IN CASE k = "store"      -> Len(js.log) + x[2] = x[3]
       [] k = "holds"      -> Len(js.log) = x[1]
       [] k = "quorum"     -> Len(js.log) = x[1] /\ js.cur = Servers
       [] k = "get"        -> x[1] \in Range(js.log)
       [] k = "stands"     -> js.leader = js.named
       [] k = "moved"      -> js.leader # js.named
       [] k = "ready"      -> js.cons[p].alive
       [] k = "generation" -> watch.alive
       [] k = "recreated"  -> watch.alive /\ watch.gen > IF x[1] THEN js.gen0 ELSE 0
       [] k = "floor"      -> js.cons[x[1]].floor = x[2] /\ js.cons[x[1]].ack = x[3]
       [] OTHER            -> TRUE

\* the servers that have stored a message when it is acknowledged
Quorums ==
  LET T == {S \in SUBSET up : js.leader \in S /\ Majority(S, Servers)}
  IN  {S \in T : \A n \in S \ {js.leader} : S \ {n} \notin T}

\* the stream after the call
Effect(p) ==
  LET x == Instr(p).x
      k == Instr(p).k
  IN CASE k = "stream"     -> {Placed(js, n) : n \in Hosts \cap up}
       [] k = "store"      -> {Stored(js, x[1], x[2], S) : S \in Quorums}
       [] k = "name"       -> {[js EXCEPT !.named = js.leader]}
       [] k = "ordered"    -> {OrderedMade(js, p, x[1], n) : n \in Hosts \cap up}
       [] k = "generation" -> {[js EXCEPT !.gen0 = js.cons["ocaml"].gen]}
       [] k = "push"       -> {PushMade(js, x[1], x[2])}
       [] k = "bind"       -> {[js EXCEPT !.cons[p].bound = TRUE]}
       [] k = "ack"        -> {Acked(js, p)}
       [] k = "close"      -> {Closed(js, p)}
       [] k = "delete"     -> {NoStream(Peers)}
       [] OTHER            -> {js}

JetCall(p) ==
  /\ At(p, {"Jet"})
  /\ LET how == Instr(p).how
         ok  == Ready(p) /\ Met(p)
     IN \/ /\ ok # (how = "denied")
           /\ js' \in Effect(p)
           /\ Goto(p)
           /\ UNCHANGED <<client, servers, files>>
        \/ /\ \/ how = "denied" /\ ok
              \/ how = "call" /\ ~ok
              \/ how = "retry" /\ Ready(p) /\ ~ok
           /\ Fail(p)

\* the next delivery: its stream sequence, and the consumer sequence, which
\* starts again when the consumer was made again
TakeDelivery(p) ==
  /\ At(p, {"Take"}) /\ client[p].mail # <<>>
  /\ LET d == Head(client[p].mail)
     IN IF d.n = Instr(p).n /\ (IF d.gen <= 1 THEN d.c \in Instr(p).ks ELSE d.c = 1)
        THEN /\ client' = [client EXCEPT ![p].mail = Tail(@)]
             /\ Goto(p)
             /\ UNCHANGED <<servers, js, files>>
        ELSE Fail(p)

-----------------------------------------------------------------------------
(* The stream on its servers.                                              *)

Elect ==
  /\ js.on /\ js.leader = 0 /\ Majority(up, Servers)
  /\ \E n \in js.full \cap up : js' = Elected(js, n)
  /\ UNCHANGED <<control, client, servers, files, budget>>

CatchUp ==
  /\ Available(js, up, Servers) /\ js.cur # up
  /\ js' = CaughtUp(js, up)
  /\ UNCHANGED <<control, client, servers, files, budget>>

\* a consumer is sent the next message of its filter
PushNext(p) ==
  /\ Reachable(p)
  /\ LET c == js.cons[p]
         i == Following(js, c)
     IN /\ c.alive /\ (c.kind = "push" => c.bound) /\ i # 0
        /\ js' = Sent(js, p, i)
        /\ client' = [client EXCEPT ![p].mail = Append(@, [n |-> i, c |-> c.cseq + 1, gen |-> c.gen])]
  /\ UNCHANGED <<control, servers, files, budget>>

\* an ordered consumer that is gone is made again, wherever the stream has a replica
Recreate(p) ==
  /\ Reachable(p) /\ js.cons[p].kind = "ordered" /\ ~js.cons[p].alive
  /\ \E n \in Hosts \cap up : js' = Recreated(js, p, n)
  /\ UNCHANGED <<control, client, servers, files, budget>>

\* the server writes a batch of acknowledgements to its file store
Persist(q) ==
  /\ js.cons[q].kind = "push" /\ js.cons[q].saved # Durable(js.cons[q])
  /\ js' = Saved(js, q)
  /\ UNCHANGED <<control, client, servers, files, budget>>

\* the leader steps down on its own
StepDown ==
  /\ setting.cluster /\ Available(js, up, Servers)
  /\ mode \in FaultyModes /\ faults = 0 /\ faults' = 1
  /\ js' = [js EXCEPT !.leader = 0]
  /\ UNCHANGED <<control, client, servers, files, retries>>

-----------------------------------------------------------------------------
(* nats-server.                                                            *)

\* a subscriber at m is reached from n: the same server, or a clustered one
Reaches(n, q) == Linked(client[q]) /\ (client[q].at = n \/ setting.cluster)

Holders(n, s) == {q \in Peers : Reaches(n, q) /\ s \in client[q].reg}

Write(cs, qs, w) == [q \in Peers |-> IF q \in qs THEN [cs[q] EXCEPT !.inn = Append(@, w)] ELSE cs[q]]

Serve(p) ==
  /\ Linked(client[p]) /\ client[p].out # <<>>
  /\ LET w  == Head(client[p].out)
         n  == client[p].at
         cs == [client EXCEPT ![p].out = Tail(@)]
     IN client' =
          CASE w.k = "SUB"   -> [cs EXCEPT ![p].reg = @ \cup w.s]
            [] w.k = "UNSUB" -> [cs EXCEPT ![p].reg = @ \ w.s]
            [] w.k = "PING"  -> Write(cs, {p}, Pong)
            [] w.k = "PUB"   -> IF Holders(n, w.s) = {} /\ w.to # <<>>
                                THEN Write(cs, {p}, Wire("ANS", <<>>, <<"503">>, w.to))
                                ELSE Write(cs, Holders(n, w.s), [w EXCEPT !.k = "MSG"])
            [] w.k = "ANS"   -> Write(cs, {q \in Peers : w.to # <<>> /\ w.to[1] = q /\ Reaches(n, q)}, w)
            [] w.k = "BYE"   -> [cs EXCEPT ![p].reg = {}, ![p].at = 0]
  /\ UNCHANGED <<control, servers, js, files, budget>>

-----------------------------------------------------------------------------
(* The client libraries.                                                   *)

Deliver(p) ==
  /\ client[p].inn # <<>>
  /\ client' = [client EXCEPT ![p] = [Received(@, Head(@.inn)) EXCEPT !.inn = Tail(@)]]
  /\ UNCHANGED <<control, servers, js, files, budget>>

\* a callback handles the next message of its subscription
Callback(p, s) ==
  /\ client[p].open /\ s \in DOMAIN client[p].subs
  /\ client[p].subs[s].kind \in {"answer", "stats"} /\ client[p].box[s] # <<>>
  /\ client' = [client EXCEPT ![p] = [Handled(@, s, Head(@.box[s])) EXCEPT !.box[s] = Tail(@)]]
  /\ UNCHANGED <<control, servers, js, files, budget>>

\* an endpoint whose first handler is blocked: one request runs, n wait, the
\* next one fails the subscription as a slow consumer
Overflow(p, s) ==
  /\ client[p].open /\ s \in DOMAIN client[p].subs /\ client[p].subs[s].kind = "limited"
  /\ LET c == client[p]
     IN \/ /\ Len(c.box[s]) = 1 /\ c.cnt[s] = 0
           /\ client' = [client EXCEPT ![p].notes = @ \cup {<<s, <<"entered">>>>}, ![p].cnt[s] = 1]
        \/ /\ Len(c.box[s]) > 1 + c.subs[s].n
           /\ client' = [client EXCEPT ![p] =
                [Unsubscribed(@, {s}) EXCEPT !.notes = @ \cup {<<s, <<"slow-consumer">>>>}]]
  /\ UNCHANGED <<control, servers, js, files, budget>>

\* the service framework counts a request once its handler has returned
Count(p) ==
  /\ client[p].todo # <<>>
  /\ client' = [client EXCEPT ![p].cnt[Head(client[p].todo)] = @ + 1, ![p].todo = Tail(@)]
  /\ UNCHANGED <<control, servers, js, files, budget>>

\* the connection to a dead server is lost once what it wrote has been read: a
\* flush that waits fails, and so does an OCaml request; OCaml abandons its
\* ordered consumer
Lose(p) ==
  /\ client[p].cut /\ client[p].inn = <<>>
  /\ client' = [client EXCEPT ![p] =
       Lost(p, @, At(p, Asking \cup {"Flush"}) /\ (p = "ocaml" \/ Instr(p).op = "Flush"))]
  /\ js' = IF p = "ocaml" /\ js.cons[p].kind = "ordered"
           THEN [js EXCEPT !.cons[p].alive = FALSE] ELSE js
  /\ UNCHANGED <<control, servers, files, budget>>

\* the servers a client can come back to: of a cluster any whose URL it knows,
\* else the first of those listed
Candidates(p) ==
  IF setting.cluster THEN IF client[p].known THEN up ELSE up \ fresh
  ELSE {n \in up : \A m \in up : n <= m}

Reconnect(p) ==
  /\ client[p].open /\ client[p].at = 0
  /\ \E n \in Candidates(p) :
       client' = [client EXCEPT ![p] = Rejoined(p, @, n, fresh # {})]
  /\ UNCHANGED <<control, servers, js, files, budget>>

-----------------------------------------------------------------------------
(* The watcher's steps on the servers.                                     *)

KillServers ==
  /\ At("watcher", {"Kill"})
  /\ LET ns == {IF n = 0 THEN js.named ELSE n : n \in Instr("watcher").ns}
     IN /\ up' = up \ ns
        /\ js' = Died(js, ns)
        /\ client' = [p \in Peers |-> IF client[p].at \in ns
                                      THEN [client[p] EXCEPT !.cut = TRUE, !.reg = {}] ELSE client[p]]
  /\ Goto("watcher")
  /\ UNCHANGED <<fresh, files>>

StartServers ==
  /\ At("watcher", {"Start"})
  /\ up' = up \cup Instr("watcher").ns
  /\ Goto("watcher")
  /\ UNCHANGED <<client, fresh, js, files>>

\* the replacement listens under a new URL, of which its cluster tells the clients
ReplaceServer ==
  /\ At("watcher", {"Replace"})
  /\ up' = up \cup {Instr("watcher").n}
  /\ fresh' = fresh \cup {Instr("watcher").n}
  /\ client' = Write(client, {p \in Peers : Linked(client[p])}, Info)
  /\ Goto("watcher")
  /\ UNCHANGED <<js, files>>

-----------------------------------------------------------------------------
Step(p) ==
  \/ p \in Peers /\ ( \/ Ask(p) \/ Answered(p) \/ Again(p) \/ Refused(p) \/ AcceptTimeout(p)
                      \/ Local(p) \/ TakeMessage(p) \/ TakeResult(p) \/ ReadOwn(p) \/ TakeEvent(p)
                      \/ SeeDiscovered(p) \/ JetCall(p) \/ TakeDelivery(p) )
  \/ TouchFile(p) \/ AwaitFile(p) \/ Finish(p)

Connection(p) ==
  \/ Serve(p) \/ Deliver(p) \/ Count(p) \/ Lose(p) \/ Reconnect(p)
  \/ \E s \in DOMAIN client[p].subs : Callback(p, s) \/ Overflow(p, s)

Stream == Elect \/ CatchUp \/ \E p \in Peers : PushNext(p) \/ Recreate(p) \/ Persist(p)

Quick == (\E p \in Peers : Connection(p)) \/ Stream \/ \E p \in Procs : Step(p)

\* the driver sleeps, or waits for the servers to report that they are ready,
\* for longer than anything the peers and the servers have under way
Settle ==
  /\ At("watcher", {"Pause"})
  /\ ~ENABLED Quick
  /\ Goto("watcher")
  /\ UNCHANGED <<client, servers, js, files>>

Watch == KillServers \/ StartServers \/ ReplaceServer \/ Settle

\* Mutant: nothing but the failure marker ends a wait.
GiveUp_untimed(p) == At(p, Waits) /\ <<"failed">> \in files /\ Fail(p)

\* a wait ends without what it waited for: it saw the failure marker, or its
\* timer fired.  Timers are long against everything else: one fires when a
\* process has failed or nothing is left to happen.
GiveUp(p) ==
  /\ At(p, Waits)
  /\ \/ \E q \in Procs : st[q] = "failed"
     \/ ~At("watcher", {"Kill", "Start", "Replace", "Pause"}) /\ ~ENABLED Quick
  /\ Fail(p)

Next ==
  \/ \E p \in Procs : Step(p) \/ Fault(p) \/ GiveUp(p)
  \/ \E p \in Peers : Connection(p) \/ Expire(p)
  \/ Stream \/ Watch \/ Reap \/ StepDown

\* Each callback has a goroutine or fiber of its own, so that a counter polled
\* again and again holds up no other; only these subjects are polled.
Polled == {<<"STATS", "go">>, <<"STATS", "ocaml">>}

Reader(p, S) == \E s \in DOMAIN client[p].subs \cap S : Callback(p, s) \/ Overflow(p, s)

\* what can happen only so often: fairness to the whole is fairness to each
Finite ==
  \/ \E p \in Peers : Count(p) \/ Lose(p) \/ Reconnect(p)
  \/ Stream \/ Watch \/ Reap
  \/ \E p \in Procs : GiveUp(p)

Fairness ==
  /\ WF_vars(Finite)
  /\ \A p \in Procs : WF_vars(Step(p))
  /\ \A p \in Peers : /\ WF_vars(Serve(p) \/ Deliver(p))
                     /\ WF_vars(Reader(p, Polled))
                     /\ WF_vars(Reader(p, DOMAIN client[p].subs \ Polled))

Spec == Init /\ [][Next]_vars /\ Fairness

-----------------------------------------------------------------------------
(* Properties.                                                             *)

Kinds == {"run", "ok", "failed"}

\* The positions, results and connections of the processes stay within their programs.
TypeOK ==
  /\ mode \in Modes
  /\ \A p \in Procs : pc[p] \in 1..(Len(Program(p)) + 1) /\ st[p] \in Kinds
  /\ up \subseteq Servers /\ fresh \subseteq Servers
  /\ \A p \in Peers : /\ client[p].at \in Servers \cup {0}
                      /\ client[p].cut => client[p].at # 0
                      /\ DOMAIN client[p].subs \subseteq DOMAIN client[p].box
                      /\ client[p].reg # {} => Linked(client[p])
  /\ js.leader \in Servers \cup {0} /\ js.full \subseteq Servers /\ js.cur \subseteq up
  /\ faults \in 0..1 /\ retries \in 0..MaxRetries

\* No process of the suite reports a failure (a payload, sequence or counter
\* that is not the one expected, a call that fails, a wait that outlives its
\* timer) unless a call failed for a reason outside the protocol: whatever the
\* order in which messages, callbacks, kills and reconnections happen, a
\* correct client passes (runMode and the functions it dispatches to).
NoFalseFailure == faults = 0 => \A p \in Procs : st[p] # "failed"

\* Every run ends: no process waits for ever, also when another one has failed
\* (the timers of waitMessage and waitForFile, the failure marker of main).
RunEnds == <>(\A p \in Procs : ~Running(p))

\* A connection that is lost takes nothing with it that its peer counts on:
\* of what a dead server had not read there are only subscriptions, which the
\* reconnect replays, and requests of the loops that repeat them
\* (awaitRecoveryBarrierWithTimeout and its OCaml counterpart).
OnlyRetriedLost ==
  [][\A p \in Peers : Running(p) /\ faults = 0 /\ client[p].cut /\ client'[p].at = 0 =>
       \A i \in 1..Len(client[p].out) :
         LET k == client[p].out[i].k
         IN  k = "SUB" \/ (k = "PUB" /\ At(p, {"Retry", "Until"}))]_vars

\* What a push consumer's acknowledgement has confirmed is never taken back,
\* the death of the only server included (checkRecoveredConsumer).
AcksSurvive ==
  [][\A p \in Peers : js.cons[p].kind = "push" /\ js'.cons[p].kind = "push" =>
       js'.cons[p].floor >= js.cons[p].floor]_vars

\* Where a server is restarted the Go peer declares recovery only when every
\* server is running and holds the whole stream again ("A restarted node must
\* rejoin the file-backed stream with current replicas before the peer declares
\* recovery complete", runJetStreamOrderedReconnectPeer).
Restarting == {"ordered_restart", "ordered_multi", "ordered_changed",
               "kv_restart", "kv_multi", "object_restart", "object_multi"}
RestartedRejoin ==
  [][(At("go", {"Recv"}) /\ Instr("go").s = <<"recovery-ready">> /\ pc'["go"] # pc["go"])
     => (mode \in Restarting => up = Servers /\ js.full = Servers)]_vars

-----------------------------------------------------------------------------
(* The reconnecting modes implement Rounds.                                *)

\* the request of the round barrier itself is no longer a check of the round
Checks(i) == i.op = "Own" \/ (i.op \in {"Recv", "Result", "Poll", "Req", "Retry"}
                               /\ i.s # <<"round-ready">>)

\* p makes no further check before the next failover it waits for
Validated(p) ==
  \A k \in pc[p]..Len(Program(p)) :
    Checks(Program(p)[k]) => \E h \in pc[p]..k : Program(p)[h].op = "Event"

Passed(p, test(_)) == Cardinality({i \in 1..(pc[p] - 1) : test(Program(p)[i])})

R == INSTANCE Rounds WITH
       Peer <- Peers,
       round <- [p \in Peers |-> Passed(p, LAMBDA i : i.op = "Event" /\ i.e = "R")],
       validated <- [p \in Peers |-> Validated(p)],
       killed <- Passed("watcher", LAMBDA i : i.op = "Kill")

\* "gates each kill on a round barrier after both peers have validated their
\* requests and counters" (docs/plan.md): the watcher, the Go peer and the OCaml
\* executable together take only the steps of Rounds.
ImplementsRounds == R!Spec
=============================================================================
