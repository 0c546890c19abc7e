------------------------------- MODULE Server -------------------------------
(***************************************************************************)
(* The subscriptions a NATS server keeps for one client, external to this  *)
(* repository: what lib/client.ml relies on.  A subscription is            *)
(* [max, sent]: how many messages it may get in all, and how many it got.  *)
(***************************************************************************)
EXTENDS Client

ServerUnsub(subs, sid, max) ==
  IF sid \notin DOMAIN subs THEN subs
  ELSE IF max = None \/ subs[sid].sent >= max
  THEN remove_subscription(sid, subs)
  ELSE [subs EXCEPT ![sid].max = max]

\* The subscriptions after an operation of the client.
ServerDoes(subs, op) ==
  CASE op.op = "SUB" ->
         [s \in DOMAIN subs \cup {op.sid} |->
            IF s = op.sid THEN [max |-> None, sent |-> 0] ELSE subs[s]]
    [] op.op = "UNSUB" -> ServerUnsub(subs, op.sid, op.max)
    [] OTHER -> subs

\* The subscriptions after a message was sent to sid.
ServerSent(subs, sid) ==
  IF subs[sid].max = subs[sid].sent + 1 THEN remove_subscription(sid, subs)
  ELSE [subs EXCEPT ![sid].sent = @ + 1]
=============================================================================
