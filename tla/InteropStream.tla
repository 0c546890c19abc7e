---------------------------- MODULE InteropStream ----------------------------
(***************************************************************************)
(* The JetStream stream the interoperability peers share, as they rely on  *)
(* it: a log replicated over the servers, its leader, and one consumer per *)
(* peer.  An ordered consumer lives in the memory of one server and is     *)
(* made again under the next generation when it is gone; a durable push    *)
(* consumer survives on disk, but its acknowledgements reach the disk in   *)
(* batches, after they have been confirmed.                                *)
(*                                                                         *)
(* The operators take and return the stream's record j.                    *)
(***************************************************************************)
EXTENDS Integers, Sequences, FiniteSets

NoConsumer ==
  [kind |-> "none", filter |-> <<>>, bound |-> FALSE, alive |-> FALSE, host |-> 0,
   gen |-> 0, next |-> 1, cseq |-> 0, ack |-> 0, floor |-> 0,
   saved |-> [next |-> 1, cseq |-> 0, ack |-> 0, floor |-> 0]]

NoStream(peers) ==
  [on |-> FALSE, leader |-> 0, log |-> <<>>, full |-> {}, cur |-> {},
   named |-> 0, gen0 |-> 0, cons |-> [q \in peers |-> NoConsumer]]

Majority(S, servers) == 2 * Cardinality(S) > Cardinality(servers)

\* a management request or a publication finds the stream's leader
Available(j, up, servers) == j.on /\ j.leader \in up /\ Majority(up, servers)

\* the stream is placed under some leader
Placed(j, n) == [j EXCEPT !.on = TRUE, !.leader = n, !.full = {n}, !.cur = {n}]

\* n messages of subject s are stored by the leader and the followers in S
Stored(j, s, n, S) ==
  [j EXCEPT !.log = @ \o [i \in 1..n |-> s], !.full = S, !.cur = {j.leader}]

\* the followers have what the leader has
CaughtUp(j, up) == [j EXCEPT !.cur = up, !.full = @ \cup up]

\* any server that holds every committed message may be elected
Elected(j, n) == [j EXCEPT !.leader = n, !.cur = {n}]

Durable(c) == [next |-> c.next, cseq |-> c.cseq, ack |-> c.ack, floor |-> c.floor]

\* what is left of a consumer when the servers ns die
Bereft(c, ns) ==
  CASE c.kind = "ordered" /\ c.host \in ns -> [c EXCEPT !.alive = FALSE]
    [] c.kind = "push" -> [c EXCEPT !.next = c.saved.floor + 1, !.cseq = c.saved.ack,
                                    !.ack = c.saved.ack, !.floor = c.saved.floor]
    [] OTHER -> c

Died(j, ns) ==
  [j EXCEPT !.leader = IF @ \in ns THEN 0 ELSE @, !.cur = @ \ ns,
            !.cons = [q \in DOMAIN @ |-> Bereft(@[q], ns)]]

\* the sequence of the next message a consumer is to be sent, 0 if there is none
Following(j, c) ==
  LET after == {i \in c.next..Len(j.log) : j.log[i] = c.filter}
  IN  IF after = {} THEN 0 ELSE CHOOSE i \in after : \A k \in after : i <= k

Sent(j, q, i) == [j EXCEPT !.cons[q].next = i + 1, !.cons[q].cseq = @ + 1]

\* the consumer is made, or made again, on server n; its delivery resumes
\* after the last message its client was sent
Recreated(j, q, n) ==
  [j EXCEPT !.cons[q].alive = TRUE, !.cons[q].host = n,
            !.cons[q].gen = @ + 1, !.cons[q].cseq = 0]

OrderedMade(j, q, s, n) ==
  Recreated([j EXCEPT !.cons[q] = [NoConsumer EXCEPT !.kind = "ordered", !.filter = s]], q, n)

PushMade(j, q, s) ==
  [j EXCEPT !.cons[q] = [NoConsumer EXCEPT !.kind = "push", !.filter = s, !.alive = TRUE]]

\* AckSync: the acknowledgement of everything sent so far is confirmed
Acked(j, q) ==
  [j EXCEPT !.cons[q].ack = j.cons[q].cseq, !.cons[q].floor = j.cons[q].next - 1]

Saved(j, q) == [j EXCEPT !.cons[q].saved = Durable(j.cons[q])]

Closed(j, q) == [j EXCEPT !.cons[q] = NoConsumer]
=============================================================================
