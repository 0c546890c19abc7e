---------------------------- MODULE InteropClient ----------------------------
(***************************************************************************)
(* The client connections of the interoperability suite, modelled by what  *)
(* the two peers rely on: a connection delivers in order, a PONG follows   *)
(* everything sent before its PING, what a server wrote before it died is  *)
(* still read, what was sent to it and not read is lost, and a client that *)
(* reconnects replays its subscriptions first.                             *)
(***************************************************************************)
EXTENDS Naturals, SequencesExt, TLC

Wire(k, s, m, to) == [k |-> k, s |-> s, m |-> m, to |-> to]
Ping == Wire("PING", <<>>, <<>>, <<>>)
Pong == Wire("PONG", <<>>, <<>>, <<>>)
Info == Wire("INFO", <<>>, <<>>, <<>>)
Bye  == Wire("BYE", <<>>, <<>>, <<>>)

(* A connection: the server it is at (0: none) and whether that server has *)
(* died under it, what it has sent and not yet been read, what the server  *)
(* has written to it, the subjects the server holds for it; its            *)
(* subscriptions, the messages their callbacks have not taken, the results *)
(* callbacks posted, the responses completed controls repeat, the last     *)
(* message's reply address, whether a call waits, its answer, the attempt, *)
(* lifecycle events, requests answered and not yet counted, the counters,  *)
(* stream deliveries, and whether a replaced server has been advertised.   *)
Connected(n) ==
  [at |-> n, cut |-> FALSE, open |-> TRUE, out |-> <<>>, inn |-> <<>>, reg |-> {},
   subs |-> <<>>, box |-> <<>>, notes |-> {}, done |-> <<>>, held |-> <<>>,
   waits |-> FALSE, ans |-> <<>>, att |-> 0, ev |-> <<>>,
   todo |-> <<>>, cnt |-> <<>>, mail |-> <<>>, known |-> FALSE]

\* connected, to a server that lives
Linked(c) == c.at # 0 /\ ~c.cut

Send(c, w) == [c EXCEPT !.out = Append(@, w)]

Closing(c) == [Send(c, Bye) EXCEPT !.open = FALSE, !.waits = FALSE]

Subscribed(c, s, h) ==
  Send([c EXCEPT !.subs = (s :> h) @@ @, !.box = (s :> <<>>) @@ @, !.cnt = (s :> 0) @@ @],
       Wire("SUB", {s}, <<>>, <<>>))

Unsubscribed(c, ss) ==
  Send([c EXCEPT !.subs = Restrict(@, DOMAIN @ \ ss)], Wire("UNSUB", ss, <<>>, <<>>))

Pending(c, s) == IF s \in DOMAIN c.box THEN c.box[s] ELSE <<>>

\* no callback has reported an error
Clean(c) == \A s \in DOMAIN c.subs : <<s, <<"bad">>>> \notin c.notes

\* keyValueControl.receive: a completed control repeats its response, else
\* a retry supersedes the request that waits
ControlReceived(c, w) ==
  IF w.s \in DOMAIN c.done THEN Send(c, Wire("ANS", <<>>, c.done[w.s], w.to))
  ELSE [c EXCEPT !.box[w.s] = <<w>>]

\* keyValueControl.respond: complete, answer the request taken and the one
\* that superseded it meanwhile
Responded(c, s, m) ==
  LET late == c.box[s]
  IN  [c EXCEPT !.done = (s :> m) @@ @, !.box[s] = <<>>,
                !.out = @ \o <<Wire("ANS", <<>>, m, c.held)>>
                          \o [i \in 1..Len(late) |-> Wire("ANS", <<>>, m, late[i].to)]]

\* the read loop: a PONG or an answer wakes its caller, a message is handed
\* to its subscription
Received(c, w) ==
  CASE ~c.open -> c
    [] w.k = "PONG" -> [c EXCEPT !.ans = <<"pong">>]
    [] w.k = "INFO" -> [c EXCEPT !.known = TRUE]
    [] w.k = "ANS"  -> IF c.waits /\ c.ans = <<>> /\ w.to[2] = c.att
                       THEN [c EXCEPT !.ans = w.m] ELSE c
    [] OTHER        -> IF w.s \notin DOMAIN c.subs THEN c
                       ELSE IF c.subs[w.s].kind = "control" THEN ControlReceived(c, w)
                       ELSE IF c.subs[w.s].kind = "slot" /\ c.box[w.s] # <<>> THEN c
                       ELSE [c EXCEPT !.box[w.s] = Append(@, w)]

\* an answering callback handles a message of its subscription
Handled(c, s, w) ==
  LET h == c.subs[s]
  IN CASE h.kind = "answer" /\ w.m \in DOMAIN h.reply ->
            [Send(c, Wire("ANS", <<>>, h.reply[w.m], w.to))
               EXCEPT !.notes = IF h.note THEN @ \cup {<<s, <<"ok">>>>} ELSE @,
                      !.todo = IF h.count THEN Append(@, s) ELSE @]
       [] h.kind = "answer" -> [c EXCEPT !.notes = @ \cup {<<s, <<"bad">>>>}]
       [] h.kind = "stats" ->
            Send(c, Wire("ANS", <<>>, <<"stats">> \o [i \in 1..Len(h.es) |-> c.cnt[h.es[i]]], w.to))

\* Go keeps one token per kind of event, OCaml a stream of them
Post(p, ev, e, n) ==
  LET x == <<e, IF p = "go" THEN 0 ELSE n>>
  IN  IF p = "go" /\ x \in Range(ev) THEN ev ELSE Append(ev, x)

\* Mutant: the server is still taken for dead after the connection is lost.
Lost_cut(p, c, cancel) == [c EXCEPT !.at = 0, !.out = <<>>, !.reg = {}]

\* the connection is gone; the call that waits fails if cancel
Lost(p, c, cancel) ==
  [c EXCEPT !.at = 0, !.cut = FALSE, !.out = <<>>, !.reg = {}, !.ev = Post(p, @, "D", 0),
            !.ans = IF cancel /\ c.waits /\ @ = <<>> THEN <<"lost">> ELSE @,
            !.att = IF cancel THEN @ + 1 ELSE @]

\* connected again, to n: subscriptions are replayed, in one write, before
\* what was sent meanwhile
Rejoined(p, c, n, known) ==
  [c EXCEPT !.at = n, !.known = known, !.ev = Post(p, @, "R", n),
            !.out = <<Wire("SUB", DOMAIN c.subs, <<>>, <<>>)>> \o @]
=============================================================================
