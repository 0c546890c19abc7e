--------------------- MODULE ConnectionBarriers_proofs ----------------------
(***************************************************************************)
(* Theorems about the owner fiber of lib/eio/connection.ml: the barriers   *)
(* it keeps correspond to the PONGs the core waits for.                    *)
(*                                                                         *)
(* The proof rests on the ledger of Connection_proofs.  Most functions     *)
(* only take work off the tables of the owner (Within) or leave barriers   *)
(* and origins alone (Alike); those that receive a PONG, ask for one or    *)
(* lose the connection change both sides together (Matched).               *)
(***************************************************************************)
EXTENDS Connection_proofs

\* Who waits for a PONG, in the core.
Origins ==
  [kind : Barriers \cup {"Subscription_drain", "Liveness"}, sid : Nat]

\* What Agree says of the positions.
PlacedAt(at, b, p) ==
  /\ at \in [DOMAIN b -> {j \in DOMAIN p : p[j].kind # "Liveness"}]
  /\ \A i, j \in DOMAIN b : i < j => at[i] < at[j]
  /\ \A j \in DOMAIN p : p[j].kind # "Liveness" => \E i \in DOMAIN b : at[i] = j
  /\ \A i \in DOMAIN b : b[i].kind = p[at[i]].kind /\ b[i].sid = p[at[i]].sid

\* Agree, with its witness named.
LEMMA AgreeIs ==
  ASSUME NEW b, NEW p
  PROVE  Agree(b, p) <=> \E at : PlacedAt(at, b, p)
BY DEF Agree, PlacedAt

\* Nothing asked and nothing owed.
LEMMA AgreeEmpty == Agree(<<>>, <<>>)
<1>1. PlacedAt(<<>>, <<>>, <<>>)
  BY DEF PlacedAt
<1> QED BY <1>1, AgreeIs

LEMMA AppendedTo ==
  ASSUME NEW T, NEW s \in Seq(T), NEW e \in T
  PROVE  /\ Append(s, e) \in Seq(T) /\ Len(s) \in Nat
         /\ DOMAIN s = 1..Len(s) /\ DOMAIN Append(s, e) = 1..Len(s) + 1
         /\ \A i \in DOMAIN s : Append(s, e)[i] = s[i]
         /\ Append(s, e)[Len(s) + 1] = e
OBVIOUS

LEMMA TailOf ==
  ASSUME NEW T, NEW s \in Seq(T), s # <<>>
  PROVE  /\ Tail(s) \in Seq(T) /\ Len(s) \in Nat /\ Len(s) >= 1
         /\ DOMAIN s = 1..Len(s) /\ DOMAIN Tail(s) = 1..Len(s) - 1
         /\ \A i \in 1..Len(s) - 1 : Tail(s)[i] = s[i + 1]
         /\ Head(s) = s[1]
OBVIOUS

\* A call that asks for a PONG is put at the end of both.
LEMMA AgreeAppend ==
  ASSUME NEW b \in Seq(BarrierRecords), NEW p \in Seq(Origins), Agree(b, p),
         NEW e \in BarrierRecords, NEW o \in Origins, o.kind # "Liveness",
         e.kind = o.kind, e.sid = o.sid
  PROVE  Agree(Append(b, e), Append(p, o))
<1> DEFINE c == Append(b, e)
           q == Append(p, o)
           m == Len(b) + 1
           n == Len(p) + 1
<1>1. /\ Len(b) \in Nat /\ DOMAIN b = 1..Len(b) /\ DOMAIN c = 1..m
      /\ c[m] = e /\ \A i \in DOMAIN b : c[i] = b[i]
  BY AppendedTo
<1>2. /\ Len(p) \in Nat /\ DOMAIN p = 1..Len(p) /\ DOMAIN q = 1..n
      /\ q[n] = o /\ \A i \in DOMAIN p : q[i] = p[i]
  BY AppendedTo
<1> HIDE DEF c, q
<1>3. PICK at : PlacedAt(at, b, p)
  BY AgreeIs
<1> DEFINE new == [i \in DOMAIN c |-> IF i = m THEN n ELSE at[i]]
<1>4. \A i \in DOMAIN b : i # m /\ at[i] \in DOMAIN p /\ at[i] # n
                          /\ p[at[i]].kind # "Liveness"
  BY <1>1, <1>2, <1>3 DEF PlacedAt
<1>5. \A i \in DOMAIN c : i = m \/ i \in DOMAIN b
  BY <1>1
<1>6. new \in [DOMAIN c -> {j \in DOMAIN q : q[j].kind # "Liveness"}]
  BY <1>1, <1>2, <1>4, <1>5
<1>7. \A i, j \in DOMAIN c : i < j => new[i] < new[j]
  BY <1>1, <1>2, <1>3, <1>4, <1>5 DEF PlacedAt
<1>8. \A j \in DOMAIN q : q[j].kind # "Liveness" => \E i \in DOMAIN c : new[i] = j
  <2> TAKE j \in DOMAIN q
  <2> HAVE q[j].kind # "Liveness"
  <2>1. CASE j = n
    BY <1>1, <2>1, SMTT(30)
  <2>2. CASE j # n
    <3>1. j \in DOMAIN p /\ p[j].kind # "Liveness"
      BY <1>2, <2>2
    <3>2. PICK i \in DOMAIN b : at[i] = j
      BY <1>3, <3>1 DEF PlacedAt
    <3> QED BY <1>1, <1>4, <3>2
  <2> QED BY <2>1, <2>2
<1>9. \A i \in DOMAIN c : c[i].kind = q[new[i]].kind /\ c[i].sid = q[new[i]].sid
  <2> TAKE i \in DOMAIN c
  <2>1. CASE i = m
    BY <1>1, <1>2, <2>1
  <2>2. CASE i \in DOMAIN b
    <3>1. b[i].kind = p[at[i]].kind /\ b[i].sid = p[at[i]].sid
      BY <1>3, <2>2 DEF PlacedAt
    <3> QED BY <1>1, <1>2, <1>4, <2>2, <3>1
  <2> QED BY <1>5, <2>1, <2>2
<1> HIDE DEF new, m, n
<1>10. PlacedAt(new, c, q)
  BY <1>6, <1>7, <1>8, <1>9 DEF PlacedAt
<1> QED BY <1>10, AgreeIs DEF c, q

\* A liveness PING at the end.
LEMMA AgreeLiveness ==
  ASSUME NEW b \in Seq(BarrierRecords), NEW p \in Seq(Origins), Agree(b, p),
         NEW o \in Origins, o.kind = "Liveness"
  PROVE  Agree(b, Append(p, o))
<1> DEFINE q == Append(p, o)
           n == Len(p) + 1
<1>1. /\ Len(p) \in Nat /\ DOMAIN p = 1..Len(p) /\ DOMAIN q = 1..n
      /\ q[n] = o /\ \A i \in DOMAIN p : q[i] = p[i]
  BY AppendedTo
<1> HIDE DEF q
<1>2. PICK at : PlacedAt(at, b, p)
  BY AgreeIs
<1>3. {j \in DOMAIN q : q[j].kind # "Liveness"} = {j \in DOMAIN p : p[j].kind # "Liveness"}
  BY <1>1
<1>4. PlacedAt(at, b, q)
  BY <1>1, <1>2, <1>3 DEF PlacedAt
<1> QED BY <1>4, AgreeIs DEF q

\* One at the head.
LEMMA AgreeAnswered ==
  ASSUME NEW b \in Seq(BarrierRecords), NEW p \in Seq(Origins), Agree(b, p),
         p # <<>>, Head(p).kind = "Liveness"
  PROVE  Agree(b, Tail(p))
<1> DEFINE q == Tail(p)
<1>1. /\ Len(p) \in Nat /\ DOMAIN p = 1..Len(p) /\ DOMAIN q = 1..Len(p) - 1
      /\ \A i \in DOMAIN q : q[i] = p[i + 1]
      /\ p[1].kind = "Liveness"
  BY TailOf
<1> HIDE DEF q
<1>2. PICK at : PlacedAt(at, b, p)
  BY AgreeIs
<1>3. DOMAIN b = 1..Len(b)
  OBVIOUS
<1> DEFINE new == [i \in DOMAIN b |-> at[i] - 1]
<1>4. \A i \in DOMAIN b : at[i] \in DOMAIN p /\ at[i] # 1 /\ p[at[i]].kind # "Liveness"
  BY <1>1, <1>2 DEF PlacedAt
<1>5. \A i \in DOMAIN b : new[i] \in DOMAIN q /\ q[new[i]] = p[at[i]]
  BY <1>1, <1>4, SMTT(30)
<1>6. \A i, j \in DOMAIN b : i < j => new[i] < new[j]
  BY <1>1, <1>2, <1>4 DEF PlacedAt
<1>7. \A j \in DOMAIN q : q[j].kind # "Liveness" => \E i \in DOMAIN b : new[i] = j
  <2> TAKE j \in DOMAIN q
  <2> HAVE q[j].kind # "Liveness"
  <2>1. j + 1 \in DOMAIN p /\ p[j + 1].kind # "Liveness" /\ j \in Int
    BY <1>1
  <2>2. PICK i \in DOMAIN b : at[i] = j + 1
    BY <1>2, <2>1 DEF PlacedAt
  <2> QED BY <2>1, <2>2
<1>8. new \in [DOMAIN b -> {j \in DOMAIN q : q[j].kind # "Liveness"}]
  BY <1>4, <1>5
<1>9. \A i \in DOMAIN b : b[i].kind = q[new[i]].kind /\ b[i].sid = q[new[i]].sid
  BY <1>2, <1>5 DEF PlacedAt
<1> HIDE DEF new
<1>10. PlacedAt(new, b, q)
  BY <1>6, <1>7, <1>8, <1>9 DEF PlacedAt
<1> QED BY <1>10, AgreeIs DEF q

\* The first barrier is that of the first origin.
LEMMA AgreeSettled ==
  ASSUME NEW b \in Seq(BarrierRecords), NEW p \in Seq(Origins), Agree(b, p),
         p # <<>>, Head(p).kind # "Liveness"
  PROVE  b # <<>> /\ Agree(Tail(b), Tail(p))
<1> DEFINE c == Tail(b)
           q == Tail(p)
<1>1. /\ Len(p) \in Nat /\ Len(p) >= 1 /\ DOMAIN p = 1..Len(p)
      /\ DOMAIN q = 1..Len(p) - 1 /\ \A i \in DOMAIN q : q[i] = p[i + 1]
      /\ p[1].kind # "Liveness"
  BY TailOf
<1> HIDE DEF q
<1>2. PICK at : PlacedAt(at, b, p)
  BY AgreeIs
<1>3. PICK k \in DOMAIN b : at[k] = 1
  BY <1>1, <1>2 DEF PlacedAt
<1>4. b # <<>>
  BY <1>3
<1>5. /\ Len(b) \in Nat /\ Len(b) >= 1 /\ DOMAIN b = 1..Len(b)
      /\ DOMAIN c = 1..Len(b) - 1 /\ \A i \in DOMAIN c : c[i] = b[i + 1]
  BY <1>4, TailOf
<1> HIDE DEF c
<1>6. \A i \in DOMAIN b : at[i] \in DOMAIN p /\ p[at[i]].kind # "Liveness"
  BY <1>2 DEF PlacedAt
<1>7. at[1] = 1
  <2>1. 1 \in DOMAIN b /\ at[1] >= 1
    BY <1>1, <1>5, <1>6
  <2>2. k = 1 \/ 1 < k
    BY <1>5
  <2>3. 1 < k => at[1] < at[k]
    BY <1>2, <2>1 DEF PlacedAt
  <2> QED BY <1>1, <1>3, <1>6, <2>1, <2>2, <2>3
<1> DEFINE new == [i \in DOMAIN c |-> at[i + 1] - 1]
<1>8. \A i \in DOMAIN c : i + 1 \in DOMAIN b /\ at[i + 1] > 1 /\ at[i + 1] \in Int
  <2> TAKE i \in DOMAIN c
  <2>1. i + 1 \in DOMAIN b /\ 1 \in DOMAIN b /\ 1 < i + 1
    BY <1>5
  <2>2. at[1] < at[i + 1]
    BY <1>2, <2>1 DEF PlacedAt
  <2> QED BY <1>1, <1>6, <1>7, <2>1, <2>2
<1>9. \A i \in DOMAIN c : new[i] \in DOMAIN q /\ q[new[i]] = p[at[i + 1]]
  BY <1>1, <1>6, <1>8, SMTT(30)
<1>10. \A i, j \in DOMAIN c : i < j => new[i] < new[j]
  <2> TAKE i, j \in DOMAIN c
  <2> HAVE i < j
  <2>1. i + 1 < j + 1
    BY <1>5
  <2>2. at[i + 1] < at[j + 1]
    BY <1>2, <1>8, <2>1 DEF PlacedAt
  <2> QED BY <1>8, <2>2
<1>11. \A j \in DOMAIN q : q[j].kind # "Liveness" => \E i \in DOMAIN c : new[i] = j
  <2> TAKE j \in DOMAIN q
  <2> HAVE q[j].kind # "Liveness"
  <2>1. j + 1 \in DOMAIN p /\ p[j + 1].kind # "Liveness" /\ j \in Int /\ j >= 1
    BY <1>1
  <2>2. PICK i \in DOMAIN b : at[i] = j + 1
    BY <1>2, <2>1 DEF PlacedAt
  <2>3. i # 1
    BY <1>7, <2>1, <2>2
  <2>4. i - 1 \in DOMAIN c /\ (i - 1) + 1 = i
    BY <1>5, <2>3
  <2> QED BY <2>1, <2>2, <2>4
<1>12. new \in [DOMAIN c -> {j \in DOMAIN q : q[j].kind # "Liveness"}]
  BY <1>6, <1>8, <1>9
<1>13. \A i \in DOMAIN c : c[i].kind = q[new[i]].kind /\ c[i].sid = q[new[i]].sid
  <2> TAKE i \in DOMAIN c
  <2>1. b[i + 1].kind = p[at[i + 1]].kind /\ b[i + 1].sid = p[at[i + 1]].sid
    BY <1>2, <1>8 DEF PlacedAt
  <2> QED BY <1>5, <1>9, <2>1
<1> HIDE DEF new
<1>14. PlacedAt(new, c, q)
  BY <1>10, <1>11, <1>12, <1>13 DEF PlacedAt
<1> QED BY <1>4, <1>14, AgreeIs DEF c, q

-----------------------------------------------------------------------------
(* Barriers and the core.                                                  *)

Fields(t) ==
  /\ {"state", "closed", "barriers", "work", "subscriptions",
      "subscription_drains", "error"} \subseteq DOMAIN t
  /\ "pending_pings" \in DOMAIN t.state

\* A step that leaves the barriers, the origins and the queue alone and adds
\* to no table.
Within(t, u) ==
  /\ Fields(u) /\ u.closed = t.closed /\ u.barriers = t.barriers
  /\ u.work = t.work /\ u.state.pending_pings = t.state.pending_pings
  /\ u.subscriptions \subseteq t.subscriptions
  /\ DOMAIN u.subscription_drains \subseteq DOMAIN t.subscription_drains

LEMMA WithinSelf ==
  ASSUME NEW t, Fields(t)
  PROVE  Within(t, t)
BY DEF Within

LEMMA WithinTwice ==
  ASSUME NEW t, NEW u, NEW x, Within(t, u), Within(u, x)
  PROVE  Within(t, x)
BY DEF Within

LEMMA ErrorWithin ==
  ASSUME NEW t, Fields(t), NEW e
  PROVE  Within(t, Error(t, e)) /\ Within(t, Cleared(t))
BY DEF Within, Fields, Error, Cleared

LEMMA ForgetWithin ==
  ASSUME NEW t, Fields(t), NEW sid
  PROVE  Within(t, forget(t, sid))
BY DEF Within, Fields, forget, forget_subscription

LEMMA ResolveWithin ==
  ASSUME NEW t, Fields(t), NEW c, NEW r
  PROVE  /\ Within(t, resolve_unit(t, c, r)) /\ Within(t, fail_waiter(t, c))
         /\ Within(t, resolve_setup(t, c, r)) /\ Within(t, Accept(t, c))
         /\ Within(t, drop_request(t, c)) /\ Within(t, fail_waiters(t, c))
<1>1. Within(t, resolve_unit(t, c, r)) /\ Within(t, fail_waiter(t, c))
  BY DEF Within, Fields, resolve_unit, fail_waiter
<1>2. Within(t, resolve_setup(t, c, r)) /\ Within(t, Accept(t, c))
  BY DEF Within, Fields, resolve_setup, Accept
<1>3. Within(t, drop_request(t, c)) /\ Within(t, fail_waiters(t, c))
  BY DEF Within, Fields, drop_request, fail_waiters
<1> QED BY <1>1, <1>2, <1>3

LEMMA WriteWithin ==
  ASSUME NEW t, Fields(t), NEW output
  PROVE  /\ Within(t, write_outputs(t, output))
         /\ Within(t, flush_reconnect_pending(t))
<1>1. Within(t, write_outputs(t, output))
  BY DEF Within, Fields, write_outputs
<1>2. Within(t, flush_reconnect_pending(t))
  BY DEF Within, Fields, flush_reconnect_pending
<1> QED BY <1>1, <1>2

LEMMA CompleteWithin ==
  ASSUME NEW t, Fields(t), NEW c, NEW sid, NEW r
  PROVE  /\ Within(t, complete_drain_waiter(t, c, sid, r))
         /\ Within(t, complete_drain(t, c, sid, r))
<1>1. ASSUME NEW x, Fields(x)
      PROVE  Within(x, complete_drain_waiter(x, c, sid, r))
  <2> DEFINE y == [forget(x, sid) EXCEPT
                     !.completed = @ \cup {c}, !.handles[sid].drain = None,
                     !.subscription_drains = Less(@, sid),
                     !.subscriptions = @ \ {sid}]
  <2>1. Within(x, forget(x, sid))
    BY <1>1, ForgetWithin
  <2>2. Within(forget(x, sid), y)
    BY <2>1 DEF Within, Fields, Less
  <2>3. Within(x, y) /\ Fields(y)
    BY <2>1, <2>2, WithinTwice DEF Within
  <2> HIDE DEF y
  <2>4. Within(x, resolve_unit(y, c, r))
    BY <2>3, ResolveWithin, WithinTwice, Zenon
  <2> QED BY <1>1, <2>4, WithinSelf, Zenon DEF complete_drain_waiter, y
<1> DEFINE z == [t EXCEPT !.handles[sid].waiter = None, !.handles[sid].drain = None]
<1>2. Within(t, z)
  BY DEF Within, Fields
<1> HIDE DEF z
<1>3. Within(z, complete_drain_waiter(z, c, sid, r))
  BY <1>1, <1>2 DEF Within
<1> QED BY <1>1, <1>2, <1>3, WithinTwice, Zenon DEF complete_drain, z

LEMMA CloseWithin ==
  ASSUME NEW t, Fields(t), NEW sid
  PROVE  /\ Within(t, fail_pending_drain(t, sid))
         /\ Within(t, close_subscription(t, sid))
<1>1. ASSUME NEW x, Fields(x)
      PROVE  Within(x, fail_pending_drain(x, sid))
  <2> DEFINE h == x.handles[sid]
             y == [x EXCEPT !.handles[sid].drain = None]
  <2>1. Within(x, y)
    BY <1>1 DEF Within, Fields
  <2> HIDE DEF y
  <2>2. Within(x, fail_waiter(y, h.drain))
    <3> HIDE DEF h
    <3>1. Fields(y)
      BY <2>1 DEF Within
    <3>2. Within(y, fail_waiter(y, h.drain))
      BY <3>1, ResolveWithin
    <3> QED BY <2>1, <3>2, WithinTwice
  <2>3. Within(x, complete_drain(x, h.waiter, sid, "Error"))
    BY <1>1, CompleteWithin
  <2> QED BY <1>1, <2>2, <2>3, WithinSelf, Zenon DEF fail_pending_drain, y
<1> DEFINE z == [t EXCEPT !.subscriptions = @ \ {sid}]
<1>2. Within(t, z) /\ Fields(z)
  BY DEF Within, Fields
<1> HIDE DEF z
<1>3. Within(t, fail_pending_drain(z, sid))
  BY <1>1, <1>2, WithinTwice, Zenon
<1> QED BY <1>1, <1>3, WithinSelf, Zenon DEF close_subscription, z

WithinSet(h, s, t) == Within(h, t)

ClosingsWithin == INSTANCE FoldLemmas WITH op <- Closing, R <- WithinSet

\* close_subscription over the handles a loss or a close ends.
LEMMA CloseAllWithin ==
  ASSUME NEW t, Fields(t), NEW n \in Nat, NEW sids \in SUBSET (0..n)
  PROVE  Within(t, close_subscriptions(t, sids))
<1>1. ASSUME NEW s \in SUBSET sids, NEW x \in sids \ s, NEW y, WithinSet(t, s, y)
      PROVE  WithinSet(t, s \cup {x}, Closing(0, y, x))
  <2>1. Within(t, y) /\ Fields(y)
    BY <1>1 DEF WithinSet, Within
  <2>2. Within(y, close_subscription(y, x))
    BY <2>1, CloseWithin
  <2> QED BY <2>1, <2>2, WithinTwice, Zenon DEF WithinSet, Closing
<1>2. WithinSet(t, {}, t)
  BY WithinSelf DEF WithinSet
<1>3. ClosingsWithin!NumbersClaim(0, t, t, sids)
  BY <1>1, <1>2 DEF ClosingsWithin!NumbersClaim
<1>4. WithinSet(t, sids, ClosingsWithin!OverNumbers(0, t, sids))
  BY <1>3, NaturalInduction, ClosingsWithin!NumbersFold, Zenon
     DEF ClosingsWithin!Inductive
<1>5. close_subscriptions(t, sids) = ClosingsWithin!OverNumbers(0, t, sids)
  BY Zenon DEF ClosingsWithin!OverNumbers, close_subscriptions, OverSids,
               MapThenFoldSet, Max, Closing
<1> QED BY <1>4, <1>5 DEF WithinSet

\* What the folds that end a connection walk is finite.
Tables(t) ==
  /\ Fields(t) /\ t.work \in Seq(Commands) /\ t.barriers \in Seq(BarrierRecords)
  /\ \E n \in Nat : /\ t.subscriptions \subseteq 0..n
                    /\ DOMAIN t.subscription_drains \subseteq 0..n

LEMMA TablesWithin ==
  ASSUME NEW t, Tables(t), NEW u, Within(t, u)
  PROVE  Tables(u)
BY DEF Tables, Within

\* The tables the ledger speaks of are finite.
LEMMA LedgerTables ==
  ASSUME NEW k, NEW t, Ledger(k, t)
  PROVE  Tables(t)
<1>1. Fields(t)
  BY DEF Ledger, LedgerOf, Shape, CoreShape, Fields
<1>2. t.work \in Seq(Commands) /\ t.barriers \in Seq(BarrierRecords)
  BY DEF Ledger, LedgerOf, WorkInv, BarrierInv
<1> DEFINE S == t.subscriptions \cup DOMAIN t.subscription_drains
           n == t.state.next_sid
<1>3. n \in Nat /\ S \in SUBSET (0..n)
  <2> HIDE DEF S, n
  <2>1. S \subseteq t.subscriptions \cup DOMAIN t.requests
                       \cup DOMAIN t.subscription_drains
    BY DEF S
  <2>2. LedgerOf(k, t.work, t.barriers, t)
    BY DEF Ledger
  <2> QED BY <2>1, <2>2, SidsBounded DEF n
<1> QED BY <1>1, <1>2, <1>3 DEF Tables

LEMMA FailBarrierWithin ==
  ASSUME NEW t, Fields(t), NEW barrier
  PROVE  Within(t, fail_barrier(t, barrier))
BY CompleteWithin, ResolveWithin, WithinSelf, Zenon DEF fail_barrier

LEMMA FailCommandWithin ==
  ASSUME NEW t, Fields(t), NEW command \in Commands
  PROVE  Within(t, fail_command(t, command))
<1>1. command.kind \in AllKinds \cup OwnKinds
  BY DEF Commands
<1>2. \/ fail_command(t, command) = resolve_setup(t, command.call, "Error")
      \/ fail_command(t, command) = resolve_unit(t, command.call, "Ok")
      \/ fail_command(t, command) = fail_pending_drain(t, command.sid)
      \/ fail_command(t, command) = t
      \/ fail_command(t, command) = fail_waiter(t, command.call)
  BY <1>1 DEF fail_command, AllKinds, OwnKinds
<1> QED BY <1>2, CloseWithin, ResolveWithin, WithinSelf, Zenon

LEMMA FailRequestsWithin ==
  ASSUME NEW t, Fields(t)
  PROVE  Within(t, fail_requests(t))
<1> DEFINE x == [t EXCEPT !.requests = <<>>]
<1>1. Within(t, x) /\ Fields(x)
  BY DEF Within, Fields
<1> HIDE DEF x
<1> QED BY <1>1, ResolveWithin, WithinTwice, Zenon DEF fail_requests, x

BarriersWithin == INSTANCE FoldLemmas WITH op <- FailingBarrier, R <- WithinSet
CommandsWithin == INSTANCE FoldLemmas WITH op <- FailingCommand, R <- WithinSet
DrainsWithin == INSTANCE FoldLemmas WITH op <- FailingDrain, R <- WithinSet

LEMMA FailBarriersWithin ==
  ASSUME NEW t, Fields(t), NEW b \in Seq(BarrierRecords)
  PROVE  Within(t, FoldLeft(fail_barrier, t, b))
<1>1. ASSUME NEW i \in 1..Len(b), NEW x, WithinSet(t, i - 1, x)
      PROVE  WithinSet(t, i, FailingBarrier(0, x, b[i]))
  <2>1. Within(t, x) /\ Fields(x)
    BY <1>1 DEF WithinSet, Within
  <2>2. Within(x, fail_barrier(x, b[i]))
    BY <2>1, FailBarrierWithin
  <2> QED BY <2>1, <2>2, WithinTwice, Zenon DEF WithinSet, FailingBarrier
<1>2. WithinSet(t, 0, t)
  BY WithinSelf DEF WithinSet
<1>3. BarriersWithin!ItemsClaim(0, t, t, b)
  BY <1>1, <1>2 DEF BarriersWithin!ItemsClaim
<1>4. WithinSet(t, Len(b), BarriersWithin!OverItems(0, t, b))
  BY <1>3, NaturalInduction, BarriersWithin!SequenceFold, Zenon
     DEF BarriersWithin!Inductive
<1>5. FoldLeft(fail_barrier, t, b) = BarriersWithin!OverItems(0, t, b)
  BY Zenon DEF BarriersWithin!OverItems, FoldLeft, MapThenFoldSet, Max, FailingBarrier
<1> QED BY <1>4, <1>5 DEF WithinSet

LEMMA FailCommandsWithin ==
  ASSUME NEW t, Fields(t), NEW w \in Seq(Commands)
  PROVE  Within(t, FoldLeft(fail_command, t, w))
<1>1. ASSUME NEW i \in 1..Len(w), NEW x, WithinSet(t, i - 1, x)
      PROVE  WithinSet(t, i, FailingCommand(0, x, w[i]))
  <2>1. Within(t, x) /\ Fields(x)
    BY <1>1 DEF WithinSet, Within
  <2>2. w[i] \in Commands
    OBVIOUS
  <2>3. Within(x, fail_command(x, w[i]))
    BY <2>1, <2>2, FailCommandWithin
  <2> QED BY <2>1, <2>3, WithinTwice, Zenon DEF WithinSet, FailingCommand
<1>2. WithinSet(t, 0, t)
  BY WithinSelf DEF WithinSet
<1>3. CommandsWithin!ItemsClaim(0, t, t, w)
  BY <1>1, <1>2 DEF CommandsWithin!ItemsClaim
<1>4. WithinSet(t, Len(w), CommandsWithin!OverItems(0, t, w))
  BY <1>3, NaturalInduction, CommandsWithin!SequenceFold, Zenon
     DEF CommandsWithin!Inductive
<1>5. FoldLeft(fail_command, t, w) = CommandsWithin!OverItems(0, t, w)
  BY Zenon DEF CommandsWithin!OverItems, FoldLeft, MapThenFoldSet, Max, FailingCommand
<1> QED BY <1>4, <1>5 DEF WithinSet

LEMMA FailDrainsWithin ==
  ASSUME NEW t, Tables(t)
  PROVE  Within(t, fail_subscription_drains(t))
<1> DEFINE a == t.subscription_drains
           S == DOMAIN t.subscription_drains
<1>1. Fields(t) /\ \E n \in Nat : S \in SUBSET (0..n)
  BY DEF Tables
<1>2. PICK n \in Nat : S \in SUBSET (0..n)
  BY <1>1
<1>3. fail_subscription_drains(t) = DrainsWithin!OverNumbers(a, t, S)
  BY Zenon DEF DrainsWithin!OverNumbers, fail_subscription_drains, OverSids,
               MapThenFoldSet, Max, FailingDrain
<1> HIDE DEF a, S
<1>4. ASSUME NEW s \in SUBSET S, NEW x \in S \ s, NEW y, WithinSet(t, s, y)
      PROVE  WithinSet(t, s \cup {x}, FailingDrain(a, y, x))
  <2>1. Within(t, y) /\ Fields(y)
    BY <1>4 DEF WithinSet, Within
  <2>2. Within(y, FailingDrain(a, y, x))
    BY <2>1, CloseWithin, CompleteWithin, Zenon DEF FailingDrain
  <2> QED BY <2>1, <2>2, WithinTwice, Zenon DEF WithinSet
<1>5. WithinSet(t, {}, t)
  BY <1>1, WithinSelf DEF WithinSet
<1>6. DrainsWithin!NumbersClaim(a, t, t, S)
  BY <1>4, <1>5 DEF DrainsWithin!NumbersClaim
<1>7. WithinSet(t, S, DrainsWithin!OverNumbers(a, t, S))
  BY <1>2, <1>6, NaturalInduction, DrainsWithin!NumbersFold, Zenon
     DEF DrainsWithin!Inductive
<1> QED BY <1>3, <1>7 DEF WithinSet

\* A connection that is finished is closed.
LEMMA FinishCloses ==
  ASSUME NEW t, Tables(t)
  PROVE  finish(t).closed /\ Fields(finish(t))
<1>0. Fields(t)
  BY DEF Tables
<1>1. CASE t.closed
  <2>1. Within(t, Cleared(t))
    BY <1>0, ErrorWithin
  <2>2. finish(t) = Cleared(t)
    BY <1>1, Zenon DEF finish
  <2> QED BY <1>1, <2>1, <2>2 DEF Within
<1>2. CASE ~t.closed
  <2> DEFINE e == [t EXCEPT !.closed = TRUE, !.reconnecting = FALSE,
                            !.reconnect_pending = <<>>,
                            !.reconnect_publish_state = None, !.error = None]
             e1 == close_subscriptions(e, e.subscriptions)
             e2 == fail_requests(e1)
             e3 == fail_subscription_drains(e2)
             e4 == FoldLeft(fail_barrier, e3, e3.barriers)
             e5 == [e4 EXCEPT !.barriers = <<>>]
             e6 == [e5 EXCEPT !.work = <<>>]
             e7 == FoldLeft(fail_command, e6, e5.work)
  <2>1. finish(t) = [e7 EXCEPT !.up = FALSE]
    BY <1>2, Zenon DEF finish, fail_pending_commands
  <2>2. Tables(e) /\ e.closed
    <3>1. Fields(e) /\ e.closed /\ e.subscriptions = t.subscriptions
          /\ e.work = t.work /\ e.barriers = t.barriers
          /\ e.subscription_drains = t.subscription_drains
      BY <1>0 DEF Fields
    <3> HIDE DEF e
    <3> QED BY <3>1 DEF Tables
  <2> HIDE DEF e
  <2>3. Within(e, e1)
    <3>1. Fields(e) /\ \E n \in Nat : e.subscriptions \in SUBSET (0..n)
      BY <2>2 DEF Tables
    <3> QED BY <3>1, CloseAllWithin
  <2>4. Tables(e1) /\ Fields(e1)
    BY <2>2, <2>3, TablesWithin DEF Within
  <2> HIDE DEF e1
  <2>5. Within(e1, e2)
    BY <2>4, FailRequestsWithin
  <2>6. Tables(e2)
    BY <2>4, <2>5, TablesWithin
  <2> HIDE DEF e2
  <2>7. Within(e2, e3)
    BY <2>6, FailDrainsWithin
  <2>8. Tables(e3) /\ Fields(e3) /\ e3.barriers \in Seq(BarrierRecords)
    BY <2>6, <2>7, TablesWithin DEF Tables
  <2> HIDE DEF e3
  <2>9. Within(e3, e4)
    BY <2>8, FailBarriersWithin
  <2>10. Tables(e4)
    BY <2>8, <2>9, TablesWithin
  <2>11. e4.closed
    BY <2>2, <2>3, <2>5, <2>7, <2>9 DEF Within
  <2> HIDE DEF e4
  <2>12. /\ Fields(e6) /\ e6.closed /\ e5.work \in Seq(Commands)
    BY <2>10, <2>11 DEF Tables, Fields
  <2> HIDE DEF e5, e6
  <2>13. Within(e6, e7)
    BY <2>12, FailCommandsWithin
  <2> HIDE DEF e7
  <2> QED BY <2>1, <2>12, <2>13 DEF Within, Fields
<1> QED BY <1>1, <1>2

\* The origins after a transition.
Pings(tr) == tr.state.pending_pings

HasPings(tr) ==
  /\ {"state", "output", "error", "events", "deliveries"} \subseteq DOMAIN tr
  /\ "pending_pings" \in DOMAIN tr.state

LEMMA EmitPings ==
  ASSUME NEW st, NEW o, NEW ev, NEW d, NEW s, "pending_pings" \in DOMAIN st
  PROVE  /\ HasPings(Emit(st, o)) /\ Pings(Emit(st, o)) = st.pending_pings
         /\ Emit(st, o).error = None /\ Emit(st, o).events = <<>>
         /\ Emit(st, o).deliveries = <<>>
         /\ HasPings(Transition(st, o, ev, d, s))
         /\ Pings(Transition(st, o, ev, d, s)) = st.pending_pings
BY DEF HasPings, Pings, Emit, Transition

LEMMA FailurePings ==
  ASSUME NEW st, NEW e, "pending_pings" \in DOMAIN st
  PROVE  HasPings(Failure(st, e)) /\ Pings(Failure(st, e)) = st.pending_pings
BY DEF HasPings, Pings, Failure

LEMMA UnsubscribePings ==
  ASSUME NEW st, "pending_pings" \in DOMAIN st, NEW sid, NEW m,
         NEW tr \in {outgoing_unsubscribe(st, sid, m),
                     outgoing_auto_unsubscribe(st, sid, m)}
  PROVE  HasPings(tr) /\ Pings(tr) = st.pending_pings
<1>1. \A e : HasPings(Failure(st, e)) /\ Pings(Failure(st, e)) = st.pending_pings
  BY FailurePings
<1>2. ASSUME NEW subs, NEW output
      PROVE  LET next == [st EXCEPT !.subscriptions = subs, !.draining = @ \ {sid}]
             IN  /\ HasPings(Emit(next, output))
                 /\ Pings(Emit(next, output)) = st.pending_pings
  <2> DEFINE next == [st EXCEPT !.subscriptions = subs, !.draining = @ \ {sid}]
  <2>1. "pending_pings" \in DOMAIN next /\ next.pending_pings = st.pending_pings
    OBVIOUS
  <2> HIDE DEF next
  <2>2. HasPings(Emit(next, output)) /\ Pings(Emit(next, output)) = st.pending_pings
    BY <2>1, EmitPings
  <2> QED BY <2>2 DEF next
<1>3. LET x == outgoing_unsubscribe(st, sid, m)
      IN  HasPings(x) /\ Pings(x) = st.pending_pings
  BY <1>1, <1>2, Zenon DEF outgoing_unsubscribe, empty_transition
<1>4. LET x == outgoing_auto_unsubscribe(st, sid, m)
      IN  HasPings(x) /\ Pings(x) = st.pending_pings
  BY <1>1, <1>3, Zenon DEF outgoing_auto_unsubscribe
<1> QED BY <1>3, <1>4

LEMMA UnsubscribeWithin ==
  ASSUME NEW t, Fields(t), NEW sid
  PROVE  Within(t, unsubscribe_and_forget(t, sid))
<1> DEFINE tr == outgoing_unsubscribe(t.state, sid, None)
           w == write_outputs(t, tr.output)
           x == [w EXCEPT !.state = tr.state]
           y == unsubscribe_sid(t, sid)
<1>1. HasPings(tr) /\ Pings(tr) = t.state.pending_pings
  BY UnsubscribePings DEF Fields
<1>2. y = t \/ (\E e : y = Error(t, e)) \/ y = w \/ y = x
  BY Zenon DEF unsubscribe_sid, Then
<1> HIDE DEF tr, y
<1>3. Within(t, w)
  BY WriteWithin
<1> HIDE DEF w
<1>4. Within(t, x)
  BY <1>1, <1>3 DEF Within, Fields, HasPings, Pings
<1> HIDE DEF x
<1>5. Within(t, y) /\ Fields(y)
  BY <1>2, <1>3, <1>4, ErrorWithin, WithinSelf DEF Within
<1>6. Within(t, forget(y, sid))
  BY <1>5, ForgetWithin, WithinTwice
<1>7. unsubscribe_and_forget(t, sid) \in {y, forget(y, sid)}
  BY DEF unsubscribe_and_forget, y
<1> QED BY <1>5, <1>6, <1>7

LEMMA RemoveFinishedWithin ==
  ASSUME NEW t, Tables(t)
  PROVE  Within(t, remove_finished_subscriptions(t))
<1> DEFINE sids == t.subscriptions \ (DOMAIN t.state.subscriptions
                                        \cup DOMAIN t.subscription_drains)
<1>1. Fields(t) /\ \E n \in Nat : sids \in SUBSET (0..n)
  BY DEF Tables
<1> HIDE DEF sids
<1>2. Within(t, close_subscriptions(t, sids))
  BY <1>1, CloseAllWithin
<1> QED BY <1>2 DEF remove_finished_subscriptions, sids

-----------------------------------------------------------------------------
(* Events and deliveries.                                                  *)

\* A step that may also add to the tables and the queue.
Alike(t, u) ==
  /\ Fields(u) /\ u.closed = t.closed /\ u.barriers = t.barriers
  /\ u.state.pending_pings = t.state.pending_pings

LEMMA WithinAlike ==
  ASSUME NEW t, NEW u, Within(t, u)
  PROVE  Alike(t, u)
BY DEF Within, Alike

LEMMA AlikeTwice ==
  ASSUME NEW t, NEW u, NEW x, Alike(t, u), Alike(u, x)
  PROVE  Alike(t, x)
BY DEF Alike

LEMMA EventWithin ==
  ASSUME NEW t, Fields(t)
  PROVE  Within(t, event(t))
BY ErrorWithin, WithinSelf, Zenon DEF event

LEMMA DeliveryWithin ==
  ASSUME NEW t, Tables(t), NEW sid
  PROVE  Within(t, handle_delivery(t, sid))
<1>0. Fields(t)
  BY DEF Tables
<1> DEFINE x == resolve_unit(drop_request(t, sid), t.requests[sid], "Ok")
           y == event(close_subscription(t, sid))
<1>1. Within(t, unsubscribe_and_forget(x, sid))
  <2>1. Within(t, drop_request(t, sid)) /\ Fields(drop_request(t, sid))
    BY <1>0, ResolveWithin DEF Within
  <2>2. Within(t, x) /\ Fields(x)
    BY <2>1, ResolveWithin, WithinTwice DEF Within
  <2> HIDE DEF x
  <2> QED BY <2>2, UnsubscribeWithin, WithinTwice
<1>2. Within(t, y) /\ Within(t, unsubscribe_and_forget(y, sid))
  <2>1. Within(t, close_subscription(t, sid)) /\ Fields(close_subscription(t, sid))
    BY <1>0, CloseWithin DEF Within
  <2>2. Within(t, y) /\ Fields(y)
    BY <2>1, EventWithin, WithinTwice DEF Within
  <2> HIDE DEF y
  <2> QED BY <2>2, UnsubscribeWithin, WithinTwice
<1>3. Within(t, t) /\ Within(t, remove_finished_subscriptions(t))
  BY <1>0, WithinSelf, RemoveFinishedWithin
<1> QED BY <1>1, <1>2, <1>3, Zenon DEF handle_delivery, Then

WithinTables(h, i, t) == Tables(h) => Within(h, t)
DeliveriesWithinOf == INSTANCE FoldLemmas WITH op <- Delivering, R <- WithinTables

\* Deliveries end handles; they ask for no PONG.
LEMMA DeliveriesWithin ==
  ASSUME NEW t, Tables(t), NEW sids \in Seq(Nat)
  PROVE  Within(t, handle_deliveries(t, sids))
<1>1. ASSUME NEW i \in 1..Len(sids), NEW x, WithinTables(t, i - 1, x)
      PROVE  WithinTables(t, i, Delivering(0, x, sids[i]))
  <2>1. Within(t, x) /\ Tables(x)
    BY <1>1, TablesWithin DEF WithinTables
  <2>2. Within(x, x) /\ Within(x, handle_delivery(x, sids[i]))
    BY <2>1, DeliveryWithin, WithinSelf DEF Tables
  <2>3. Within(x, Delivering(0, x, sids[i]))
    BY <2>2, Zenon DEF Delivering, Then
  <2> QED BY <2>1, <2>3, WithinTwice DEF WithinTables
<1>2. WithinTables(t, 0, t)
  BY WithinSelf DEF WithinTables, Tables
<1>3. DeliveriesWithinOf!ItemsClaim(0, t, t, sids)
  BY <1>1, <1>2 DEF DeliveriesWithinOf!ItemsClaim
<1>4. WithinTables(t, Len(sids), DeliveriesWithinOf!OverItems(0, t, sids))
  BY <1>3, NaturalInduction, DeliveriesWithinOf!SequenceFold, Zenon
     DEF DeliveriesWithinOf!Inductive
<1>5. handle_deliveries(t, sids) = DeliveriesWithinOf!OverItems(0, t, sids)
  BY Zenon DEF DeliveriesWithinOf!OverItems, FoldLeft, MapThenFoldSet, Max,
               handle_deliveries, Delivering
<1> QED BY <1>4, <1>5 DEF WithinTables

LEMMA ReconnectedAlike ==
  ASSUME NEW t, Fields(t)
  PROVE  Alike(t, reconnected(t))
<1> DEFINE x == flush_reconnect_pending(t)
           y == [x EXCEPT !.work = @ \o ResumeCommands(x), !.reconnecting = FALSE,
                          !.reconnect_publish_state = None]
<1>1. reconnected(t) \in {x, y}
  BY DEF reconnected, Then
<1>2. Alike(t, x)
  BY WriteWithin, WithinAlike
<1> HIDE DEF x
<1>3. Alike(t, y)
  BY <1>2 DEF Alike, Fields
<1> QED BY <1>1, <1>2, <1>3

LEMMA EventAlike ==
  ASSUME NEW t, Fields(t), NEW ev \in Events \ {"Flush_completed"}
  PROVE  Alike(t, handle_event(t, ev))
<1> DEFINE x == event(t)
           y == [x EXCEPT !.handshake_deadline = FALSE]
           z == [y EXCEPT !.ready = @ \/ x.connect_sent]
<1>1. handle_event(t, ev) \in {x, reconnected(y), z}
  BY DEF handle_event, Then
<1>2. Alike(t, x) /\ Fields(x)
  BY EventWithin, WithinAlike DEF Alike
<1> HIDE DEF x
<1>3. Alike(t, y) /\ Fields(y)
  BY <1>2 DEF Alike, Fields
<1> HIDE DEF y
<1>4. Alike(t, z)
  BY <1>3 DEF Alike, Fields
<1>5. Alike(t, reconnected(y))
  BY <1>3, ReconnectedAlike, AlikeTwice
<1> HIDE DEF z
<1> QED BY <1>1, <1>2, <1>4, <1>5

AlikeOf(h, i, t) == Alike(h, t)
EventsAlikeOf == INSTANCE FoldLemmas WITH op <- HandlingEvent, R <- AlikeOf

\* Only Flush_completed takes a barrier.
LEMMA EventsAlike ==
  ASSUME NEW t, Fields(t), NEW events \in Seq(Events \ {"Flush_completed"})
  PROVE  Alike(t, handle_events(t, events))
<1>1. ASSUME NEW i \in 1..Len(events), NEW x, AlikeOf(t, i - 1, x)
      PROVE  AlikeOf(t, i, HandlingEvent(0, x, events[i]))
  <2>1. Alike(t, x) /\ Fields(x)
    BY <1>1 DEF AlikeOf, Alike
  <2>2. events[i] \in Events \ {"Flush_completed"}
    OBVIOUS
  <2>3. Alike(x, x) /\ Alike(x, handle_event(x, events[i]))
    BY <2>1, <2>2, EventAlike, WithinSelf, WithinAlike
  <2>4. Alike(x, HandlingEvent(0, x, events[i]))
    BY <2>3, Zenon DEF HandlingEvent, Then
  <2> QED BY <2>1, <2>4, AlikeTwice DEF AlikeOf
<1>2. AlikeOf(t, 0, t)
  BY WithinSelf, WithinAlike DEF AlikeOf
<1>3. EventsAlikeOf!ItemsClaim(0, t, t, events)
  BY <1>1, <1>2 DEF EventsAlikeOf!ItemsClaim
<1>4. AlikeOf(t, Len(events), EventsAlikeOf!OverItems(0, t, events))
  BY <1>3, NaturalInduction, EventsAlikeOf!SequenceFold, Zenon
     DEF EventsAlikeOf!Inductive
<1>5. handle_events(t, events) = EventsAlikeOf!OverItems(0, t, events)
  BY Zenon DEF EventsAlikeOf!OverItems, FoldLeft, MapThenFoldSet, Max,
               handle_events, HandlingEvent
<1> QED BY <1>4, <1>5 DEF AlikeOf

\* Events that are passed on change nothing while the connection is open.
OpenSame(h, i, t) == ~h.closed => t = h
EventsOpenSame == INSTANCE FoldLemmas WITH op <- HandlingEvent, R <- OpenSame

LEMMA EventsNothing ==
  ASSUME NEW t, ~t.closed, NEW events \in {<<>>, <<"Draining">>, <<"Closed">>}
  PROVE  handle_events(t, events) = t
<1>1. /\ events \in Seq(Events)
      /\ \A i \in 1..Len(events) : events[i] \in {"Draining", "Closed"}
  <2>1. "Draining" \in Events /\ "Closed" \in Events
    BY DEF Events
  <2>2. events \in Seq(Events)
    BY <2>1, EventLists
  <2>3. Len(<<>>) = 0 /\ Len(<<"Draining">>) = 1 /\ Len(<<"Closed">>) = 1
    OBVIOUS
  <2>4. \A i \in 1..1 : i = 1
    OBVIOUS
  <2>5. \A i \in 1..Len(events) : events[i] \in {"Draining", "Closed"}
    BY <2>3, <2>4
  <2> QED BY <2>2, <2>5
<1>2. ASSUME NEW i \in 1..Len(events), NEW x, OpenSame(t, i - 1, x)
      PROVE  OpenSame(t, i, HandlingEvent(0, x, events[i]))
  <2>1. x = t
    BY <1>2 DEF OpenSame
  <2>2. handle_event(t, events[i]) = t
    BY <1>1 DEF handle_event, Then, event
  <2> QED BY <2>1, <2>2, Zenon DEF OpenSame, HandlingEvent, Then
<1>3. EventsOpenSame!ItemsClaim(0, t, t, events)
  BY <1>2 DEF EventsOpenSame!ItemsClaim, OpenSame
<1>4. OpenSame(t, Len(events), EventsOpenSame!OverItems(0, t, events))
  BY <1>1, <1>3, NaturalInduction, EventsOpenSame!SequenceFold, Zenon
     DEF EventsOpenSame!Inductive
<1>5. handle_events(t, events) = EventsOpenSame!OverItems(0, t, events)
  BY Zenon DEF EventsOpenSame!OverItems, FoldLeft, MapThenFoldSet, Max,
               handle_events, HandlingEvent
<1> QED BY <1>4, <1>5 DEF OpenSame

-----------------------------------------------------------------------------
(* Barriers match the core.                                                *)

\* BarriersMatchCore, with the type of the origins.
Matched(t) ==
  t.closed \/ /\ t.state.pending_pings \in Seq(Origins)
              /\ Agree(t.barriers, t.state.pending_pings)

LEMMA MatchedAlike ==
  ASSUME NEW t, Matched(t), NEW u, Alike(t, u)
  PROVE  Matched(u)
BY DEF Matched, Alike

LEMMA MatchedWithin ==
  ASSUME NEW t, Matched(t), NEW u, Within(t, u)
  PROVE  Matched(u)
BY DEF Matched, Within

UnmovedBy == INSTANCE FoldLemmas WITH op <- HandlingEvent, R <- Unmoved

LEMMA NoEvents ==
  ASSUME NEW t
  PROVE  handle_events(t, <<>>) = t
<1> DEFINE s == <<>>
<1>1. s \in Seq(Nat) /\ Len(s) = 0
  OBVIOUS
<1> HIDE DEF s
<1>2. UnmovedBy!ItemsClaim(0, t, t, s)
  BY <1>1 DEF UnmovedBy!ItemsClaim, Unmoved
<1>3. Unmoved(t, Len(s), UnmovedBy!OverItems(0, t, s))
  BY <1>1, <1>2, NaturalInduction, UnmovedBy!SequenceFold, Zenon
     DEF UnmovedBy!Inductive
<1>4. handle_events(t, s) = UnmovedBy!OverItems(0, t, s)
  BY Zenon DEF UnmovedBy!OverItems, FoldLeft, MapThenFoldSet, Max,
               handle_events, HandlingEvent
<1> QED BY <1>1, <1>3, <1>4 DEF Unmoved, s

\* Of a transition whose events are passed on nothing but the state is kept,
\* and that only without an error.
PlainTaken(t, tr, u) ==
  /\ Fields(u) /\ u.closed = t.closed /\ u.barriers = t.barriers
  /\ ~t.closed =>
       u.state.pending_pings = IF u.error = None THEN Pings(tr)
                               ELSE t.state.pending_pings

LEMMA PlainTransition ==
  ASSUME NEW t, Fields(t), NEW tr, HasPings(tr),
         tr.events \in {<<>>, <<"Draining">>, <<"Closed">>}, tr.deliveries = <<>>
  PROVE  PlainTaken(t, tr, apply_transition(t, tr))
<1> DEFINE u == apply_transition(t, tr)
           w == write_outputs(t, tr.output)
           x == [w EXCEPT !.state = tr.state]
           y == handle_events(x, tr.events)
<1>1. Within(t, w) /\ Fields(w)
  BY WriteWithin DEF Within
<1>2. u = IF w.error # None THEN w ELSE IF y.error # None THEN y
          ELSE handle_deliveries(y, tr.deliveries)
  BY Zenon DEF apply_transition, Then
<1>3. u = IF w.error # None THEN w ELSE y
  BY <1>2, NothingDelivered, Zenon
<1> SUFFICES PlainTaken(t, tr, u)
  OBVIOUS
<1> HIDE DEF w, u
<1>4. /\ Fields(x) /\ x.closed = t.closed /\ x.barriers = t.barriers
      /\ x.error = w.error /\ x.state.pending_pings = Pings(tr)
  BY <1>1 DEF Within, Fields, HasPings, Pings
<1> HIDE DEF x
<1>5. CASE ~t.closed
  <2>1. y = x
    BY <1>4, <1>5, EventsNothing
  <2> HIDE DEF y
  <2>2. u = IF w.error # None THEN w ELSE x
    BY <1>3, <2>1
  <2> QED BY <1>1, <1>4, <2>2 DEF PlainTaken, Within
<1>6. CASE t.closed
  <2>1. tr.events \in Seq(Events \ {"Flush_completed"})
    <3>1. "Draining" \in Events \ {"Flush_completed"}
          /\ "Closed" \in Events \ {"Flush_completed"}
      BY DEF Events
    <3>2. ASSUME NEW S, "Draining" \in S, "Closed" \in S
          PROVE  tr.events \in Seq(S)
      <4>1. <<>> \in Seq(S) /\ <<"Draining">> \in Seq(S) /\ <<"Closed">> \in Seq(S)
        BY <3>2
      <4> QED BY <4>1, Zenon
    <3> QED BY <3>1, <3>2, Zenon
  <2>2. Alike(x, y)
    BY <1>4, <2>1, EventsAlike
  <2> HIDE DEF y
  <2>3. Fields(w) /\ w.closed = t.closed /\ w.barriers = t.barriers
    BY <1>1 DEF Within
  <2>4. Fields(y) /\ y.closed = t.closed /\ y.barriers = t.barriers
    BY <1>4, <2>2 DEF Alike
  <2>5. u = w \/ u = y
    BY <1>3
  <2> QED BY <1>6, <2>3, <2>4, <2>5 DEF PlainTaken
<1> QED BY <1>5, <1>6

\* A transition after which the barriers of before still match.
Keeps(st, tr) ==
  /\ HasPings(tr) /\ tr.events \in Seq(Events \ {"Flush_completed"})
  /\ tr.deliveries \in Seq(Nat) /\ (tr.events = <<>> \/ tr.deliveries = <<>>)
  /\ st.pending_pings \in Seq(Origins) =>
       /\ Pings(tr) \in Seq(Origins)
       /\ \A b \in Seq(BarrierRecords) :
            Agree(b, st.pending_pings) => Agree(b, Pings(tr))

\* One that settles the first barrier.
Settles(st, tr) ==
  /\ HasPings(tr) /\ tr.events = <<"Flush_completed">> /\ tr.deliveries = <<>>
  /\ st.pending_pings \in Seq(Origins) =>
       /\ Pings(tr) \in Seq(Origins)
       /\ \A b \in Seq(BarrierRecords) :
            Agree(b, st.pending_pings) => b # <<>> /\ Agree(Tail(b), Pings(tr))

\* apply_transition with a transition that settles nothing.
LEMMA KeepsMatched ==
  ASSUME NEW t, Tables(t), Matched(t), NEW tr, Keeps(t.state, tr)
  PROVE  Matched(apply_transition(t, tr))
<1> DEFINE u == apply_transition(t, tr)
           w == write_outputs(t, tr.output)
           x == [w EXCEPT !.state = tr.state]
           y == handle_events(x, tr.events)
           z == handle_deliveries(y, tr.deliveries)
<1>2. u \in {w, y, z}
  BY DEF apply_transition, Then
<1>1. Within(t, w) /\ Fields(w) /\ Tables(w) /\ Matched(w)
  <2>1. Within(t, w)
    BY WriteWithin DEF Tables
  <2> HIDE DEF w
  <2> QED BY <2>1, TablesWithin, MatchedWithin DEF Within
<1> HIDE DEF w, u
<1>3. Tables(x) /\ Fields(x) /\ Matched(x)
  <2>1. /\ Fields(x) /\ x.closed = t.closed /\ x.barriers = t.barriers
        /\ x.work = w.work /\ x.state.pending_pings = Pings(tr)
        /\ x.subscriptions = w.subscriptions
        /\ x.subscription_drains = w.subscription_drains /\ x.barriers = w.barriers
    BY <1>1 DEF Within, Fields, Keeps, HasPings, Pings
  <2> HIDE DEF x
  <2>2. Tables(x)
    BY <1>1, <2>1 DEF Tables
  <2>3. t.barriers \in Seq(BarrierRecords)
    BY DEF Tables
  <2>4. Matched(x)
    BY <2>1, <2>3 DEF Matched, Keeps
  <2> QED BY <2>1, <2>2, <2>4
<1> HIDE DEF x
<1>4. Alike(x, y)
  BY <1>3, EventsAlike DEF Keeps
<1>5. Alike(y, z)
  <2>1. CASE tr.deliveries = <<>>
    <3>1. z = y
      BY <2>1, NothingDelivered
    <3> QED BY <1>4, <3>1 DEF Alike
  <2>2. CASE tr.events = <<>>
    <3>1. y = x
      BY <2>2, NoEvents
    <3> HIDE DEF y
    <3>2. Tables(y) /\ tr.deliveries \in Seq(Nat)
      BY <1>3, <3>1 DEF Keeps
    <3>3. Within(y, z)
      BY <3>2, DeliveriesWithin
    <3> QED BY <3>3, WithinAlike
  <2> QED BY <2>1, <2>2 DEF Keeps
<1> HIDE DEF y, z
<1>6. Matched(y) /\ Matched(z)
  BY <1>3, <1>4, <1>5, MatchedAlike
<1> QED BY <1>1, <1>2, <1>6 DEF u

\* A transition that leaves the origins alone.
LEMMA SameKeeps ==
  ASSUME NEW st, NEW tr, HasPings(tr), Pings(tr) = st.pending_pings,
         tr.events \in Seq(Events \ {"Flush_completed"}),
         tr.deliveries \in Seq(Nat), tr.events = <<>> \/ tr.deliveries = <<>>
  PROVE  Keeps(st, tr)
BY DEF Keeps

LEMMA OtherEvents ==
  /\ <<>> \in Seq(Events \ {"Flush_completed"}) /\ <<>> \in Seq(Nat)
  /\ \A e \in Events \ {"Flush_completed"} :
       << e >> \in Seq(Events \ {"Flush_completed"})
  /\ \A e, f \in Events \ {"Flush_completed"} :
       << e, f >> \in Seq(Events \ {"Flush_completed"})
OBVIOUS

LEMMA TouchPings ==
  ASSUME NEW st, "pending_pings" \in DOMAIN st
  PROVE  /\ "pending_pings" \in DOMAIN touch(st)
         /\ touch(st).pending_pings = st.pending_pings
         /\ "pending_pings" \in DOMAIN answered(st)
         /\ answered(st).pending_pings = st.pending_pings
BY DEF touch, answered

\* A PONG answers the first origin: a liveness PING alone, or with the first
\* barrier.
LEMMA PongMatched ==
  ASSUME NEW st, "pending_pings" \in DOMAIN st
  PROVE  Keeps(st, incoming_pong(st)) \/ Settles(st, incoming_pong(st))
<1> DEFINE p == st.pending_pings
           popped == [answered(st) EXCEPT !.pending_pings = Tail(@)]
           origin == Head(st.pending_pings)
           settled == CASE origin.kind = "Drain" ->
                             [popped EXCEPT !.subscriptions = <<>>, !.draining = {}]
                        [] origin.kind = "Subscription_drain" ->
                             forget_subscription(popped, origin.sid)
                        [] OTHER -> popped
           events == IF origin.kind = "Liveness" THEN <<>>
                     ELSE <<"Flush_completed">>
           tr1 == Transition(touch(answered(st)), <<>>, <<"Protocol_notice">>, <<>>, None)
           tr2 == Transition(touch(settled), <<>>, events, <<>>, None)
<1>1. incoming_pong(st) = IF p = <<>> THEN tr1 ELSE tr2
  BY Zenon DEF incoming_pong
<1>2. "pending_pings" \in DOMAIN settled /\ settled.pending_pings = Tail(p)
  <2>1. "pending_pings" \in DOMAIN popped /\ popped.pending_pings = Tail(p)
    BY TouchPings
  <2> HIDE DEF popped, origin, p
  <2> QED BY <2>1 DEF forget_subscription
<1> HIDE DEF settled, popped
<1>3. CASE p = <<>>
  <2> DEFINE st2 == touch(answered(st))
  <2>1. "pending_pings" \in DOMAIN st2 /\ st2.pending_pings = p
    BY TouchPings
  <2> HIDE DEF st2
  <2>2. HasPings(tr1) /\ Pings(tr1) = p
    BY <2>1, EmitPings DEF st2
  <2>3. tr1.events = <<"Protocol_notice">> /\ tr1.deliveries = <<>>
    BY DEF Transition
  <2>4. "Protocol_notice" \in Events \ {"Flush_completed"}
    BY DEF Events
  <2>5. tr1.events \in Seq(Events \ {"Flush_completed"})
        /\ tr1.deliveries \in Seq(Nat)
    BY <2>3, <2>4, OtherEvents, Zenon
  <2> HIDE DEF tr1, p
  <2>6. Keeps(st, tr1)
    BY <2>2, <2>3, <2>5, SameKeeps DEF p
  <2> QED BY <1>1, <1>3, <2>6
<1>4. CASE p # <<>>
  <2> DEFINE st2 == touch(settled)
  <2>1. "pending_pings" \in DOMAIN st2 /\ st2.pending_pings = Tail(p)
    BY <1>2, TouchPings
  <2> HIDE DEF st2
  <2>2. HasPings(tr2) /\ Pings(tr2) = Tail(p)
    BY <2>1, EmitPings DEF st2
  <2>3. tr2.events = events /\ tr2.deliveries = <<>>
    BY DEF Transition
  <2>4. p \in Seq(Origins) => Tail(p) \in Seq(Origins)
    BY <1>4
  <2> HIDE DEF tr2
  <2>5. CASE origin.kind = "Liveness"
    <3>1. tr2.events = <<>>
      BY <2>3, <2>5
    <3>2. p \in Seq(Origins) =>
            \A b \in Seq(BarrierRecords) : Agree(b, p) => Agree(b, Tail(p))
      BY <1>4, <2>5, AgreeAnswered
    <3>3. Keeps(st, tr2)
      BY <2>2, <2>3, <2>4, <3>1, <3>2, OtherEvents DEF Keeps
    <3> QED BY <1>1, <1>4, <3>3
  <2>6. CASE origin.kind # "Liveness"
    <3>1. tr2.events = <<"Flush_completed">>
      BY <2>3, <2>6
    <3>2. p \in Seq(Origins) =>
            \A b \in Seq(BarrierRecords) :
              Agree(b, p) => b # <<>> /\ Agree(Tail(b), Tail(p))
      BY <1>4, <2>6, AgreeSettled
    <3>3. Settles(st, tr2)
      BY <2>2, <2>3, <2>4, <3>1, <3>2 DEF Settles
    <3> QED BY <1>1, <1>4, <3>3
  <2> QED BY <2>5, <2>6
<1> QED BY <1>3, <1>4

\* A message that meets an auto-unsubscribe leaves the origins.
LEMMA MessageKeeps ==
  ASSUME NEW st, "pending_pings" \in DOMAIN st, NEW sid \in Nat
  PROVE  Keeps(st, incoming_message(st, sid))
<1>1. ASSUME NEW subs
      PROVE  Keeps(st, Transition(touch([st EXCEPT !.subscriptions = subs]),
                                  <<>>, <<>>, << sid >>, None))
  <2> DEFINE st1 == [st EXCEPT !.subscriptions = subs]
             st2 == touch(st1)
             tr == Transition(st2, <<>>, <<>>, << sid >>, None)
  <2>1. "pending_pings" \in DOMAIN st1 /\ st1.pending_pings = st.pending_pings
    OBVIOUS
  <2> HIDE DEF st1
  <2>2. "pending_pings" \in DOMAIN st2 /\ st2.pending_pings = st.pending_pings
    BY <2>1, TouchPings
  <2> HIDE DEF st2
  <2>3. HasPings(tr) /\ Pings(tr) = st.pending_pings
    BY <2>2, EmitPings
  <2>4. tr.events = <<>> /\ tr.deliveries = << sid >>
    BY DEF Transition
  <2>5. << sid >> \in Seq(Nat)
    OBVIOUS
  <2> HIDE DEF tr
  <2>6. Keeps(st, tr)
    BY <2>3, <2>4, <2>5, OtherEvents, SameKeeps
  <2> QED BY <2>6 DEF tr, st2, st1
<1>2. Keeps(st, empty_transition(st))
  <2>1. LET tr == Emit(st, <<>>) IN
          HasPings(tr) /\ Pings(tr) = st.pending_pings /\ tr.events = <<>>
          /\ tr.deliveries = <<>>
    BY EmitPings
  <2> QED BY <2>1, OtherEvents, SameKeeps, Zenon DEF empty_transition
<1> QED BY <1>1, <1>2, Zenon DEF incoming_message

LEMMA InfoKeeps ==
  ASSUME NEW st, "pending_pings" \in DOMAIN st, NEW info
  PROVE  Keeps(st, incoming_info(st, info))
<1> DEFINE st1 == [st EXCEPT !.info = info,
                             !.phase = IF @ = "Awaiting_info"
                                       THEN "Awaiting_connect" ELSE @]
           st2 == touch(st1)
           tr == Transition(st2, <<>>, info_events(info), <<>>, None)
<1>1. "pending_pings" \in DOMAIN st1 /\ st1.pending_pings = st.pending_pings
  OBVIOUS
<1> HIDE DEF st1
<1>2. "pending_pings" \in DOMAIN st2 /\ st2.pending_pings = st.pending_pings
  BY <1>1, TouchPings
<1> HIDE DEF st2
<1>3. HasPings(tr) /\ Pings(tr) = st.pending_pings
  BY <1>2, EmitPings
<1>4. info_events(info) \in Seq(Events \ {"Flush_completed"})
  <2>1. {"Info", "Lame_duck_mode"} \subseteq Events \ {"Flush_completed"}
    BY DEF Events
  <2> QED BY <2>1, OtherEvents, Zenon DEF info_events
<1>5. tr.events = info_events(info) /\ tr.deliveries = <<>>
  BY DEF Transition
<1> HIDE DEF tr
<1>6. Keeps(st, tr)
  BY <1>3, <1>4, <1>5, OtherEvents, SameKeeps
<1> QED BY <1>6, Zenon DEF incoming_info, tr, st2, st1

LEMMA ConnectKeeps ==
  ASSUME NEW st, CoreShape(st), outgoing_connect(st).error = None
  PROVE  Keeps(st, outgoing_connect(st))
<1> DEFINE st2 == [st EXCEPT !.phase = "Connected"]
<1>1. "pending_pings" \in DOMAIN st2 /\ st2.pending_pings = st.pending_pings
  BY DEF CoreShape
<1> HIDE DEF st2
<1>2. \E o : outgoing_connect(st) = Transition(st2, o, <<"Connected">>, <<>>, None)
  <2>1. st.phase \in {"Awaiting_info", "Awaiting_connect", "Connected",
                      "Draining", "Closed"}
    BY DEF CoreShape, Phases
  <2>2. \A e \in Errors : Failure(st, e).error # None
    BY NoneAssumption DEF Failure
  <2>3. {"Info_not_received", "Already_connected", "Draining", "Closed", "Codec"}
          \subseteq Errors
    BY DEF Errors
  <2> QED BY <2>1, <2>2, <2>3 DEF outgoing_connect, st2, PhaseError
<1>3. ASSUME NEW o
      PROVE  Keeps(st, Transition(st2, o, <<"Connected">>, <<>>, None))
  <2> DEFINE tr == Transition(st2, o, <<"Connected">>, <<>>, None)
  <2>1. HasPings(tr) /\ Pings(tr) = st.pending_pings
    BY <1>1, EmitPings
  <2>2. tr.events = <<"Connected">> /\ tr.deliveries = <<>>
    BY DEF Transition
  <2>3. <<"Connected">> \in Seq(Events \ {"Flush_completed"})
    <3>1. "Connected" \in Events \ {"Flush_completed"}
      BY DEF Events
    <3> QED BY <3>1, OtherEvents
  <2> HIDE DEF tr
  <2>4. Keeps(st, tr)
    BY <2>1, <2>2, <2>3, OtherEvents, SameKeeps
  <2> QED BY <2>4 DEF tr
<1> QED BY <1>2, <1>3, Zenon

\* Every operation received keeps or settles.
LEMMA OperationMatched ==
  ASSUME NEW st, CoreShape(st), NEW op \in Received,
         NEW tr, tr = handle_operation(st, op), tr.error = None
  PROVE  Keeps(st, tr) \/ Settles(st, tr)
<1>1. "pending_pings" \in DOMAIN st
  BY DEF CoreShape
<1>2. \/ op.op = "INFO"
      \/ op.op = "PONG"
      \/ op.op = "MSG" /\ op.sid \in Nat
  BY DEF Received, Pong
<1>3. st.phase \in {"Awaiting_info", "Awaiting_connect", "Connected",
                    "Draining", "Closed"}
  BY DEF CoreShape, Phases
<1>4. \A e \in {"Closed", "Unexpected_operation"} : Failure(st, e).error # None
  BY NoneAssumption DEF Failure, Errors
<1>5. \/ op.op = "INFO" /\ tr = incoming_info(st, op.info)
      \/ op.op = "PONG" /\ tr = incoming_pong(st)
      \/ op.op = "MSG" /\ tr = incoming_message(st, op.sid)
  BY <1>2, <1>3, <1>4 DEF handle_operation
<1> QED BY <1>1, <1>2, <1>5, PongMatched, InfoKeeps, MessageKeeps

\* A connection that has ended owes nothing.
LEMMA FinishMatched ==
  ASSUME NEW t, Tables(t)
  PROVE  Matched(finish(t))
BY FinishCloses DEF Matched

\* The PONG settles the first barrier, whose origin the core has dropped.
LEMMA CompletedMatched ==
  ASSUME NEW t, Tables(t),
         \/ t.closed
         \/ /\ t.barriers # <<>> /\ t.state.pending_pings \in Seq(Origins)
            /\ Agree(Tail(t.barriers), t.state.pending_pings)
  PROVE  Matched(flush_completed(t))
<1> SUFFICES ASSUME t.barriers # <<>>
             PROVE  Matched(flush_completed(t))
  BY DEF flush_completed, Matched
<1> DEFINE e == Head(t.barriers)
           u == [t EXCEPT !.barriers = Tail(@)]
           c == e.call
           u1 == [u EXCEPT !.completed = @ \cup {c}]
           u2 == [u EXCEPT !.subscription_drains = With(@, e.sid, c)]
<1>1. t.barriers \in Seq(BarrierRecords) /\ Fields(t)
  BY DEF Tables
<1>2. e.kind \in {"Flush", "Drain", "Subscription_drain"}
  <2>1. e \in BarrierRecords
    BY <1>1
  <2> QED BY <2>1 DEF BarrierRecords, Barriers
<1>3. /\ flush_completed(t) =
           CASE e.kind = "Flush" ->
                  IF c \in u.completed THEN u ELSE resolve_unit(u1, c, "Ok")
             [] e.kind = "Drain" -> finish(resolve_unit(u, c, "Ok"))
             [] e.kind = "Subscription_drain" ->
                  IF c \in u.completed THEN u
                  ELSE IF e.sid \notin u.subscriptions
                  THEN complete_drain_waiter(u, c, e.sid, "Error")
                  ELSE IF e.sid \notin DOMAIN u.state.subscriptions
                  THEN complete_drain(u, c, e.sid, "Ok")
                  ELSE u2
  BY Zenon DEF flush_completed, settles
<1>4. flush_completed(t) \in
        {u, resolve_unit(u1, c, "Ok"), finish(resolve_unit(u, c, "Ok")),
         complete_drain_waiter(u, c, e.sid, "Error"),
         complete_drain(u, c, e.sid, "Ok"), u2}
  <2> HIDE DEF u, u1, u2, c, e
  <2> QED BY <1>2, <1>3
<1>5. Fields(u) /\ Tables(u) /\ Matched(u)
  <2>1. /\ Fields(u) /\ u.closed = t.closed /\ u.work = t.work
        /\ u.subscriptions = t.subscriptions
        /\ u.subscription_drains = t.subscription_drains
        /\ u.barriers = Tail(t.barriers) /\ u.state = t.state
    BY <1>1 DEF Fields
  <2>2. Tail(t.barriers) \in Seq(BarrierRecords)
    BY <1>1
  <2> HIDE DEF u
  <2> QED BY <2>1, <2>2 DEF Tables, Matched
<1> HIDE DEF u, c, e
<1>6. Alike(u, u1) /\ Alike(u, u2)
  BY <1>5 DEF Alike, Fields
<1> HIDE DEF u1, u2
<1>7. /\ Within(u, u) /\ Within(u, complete_drain_waiter(u, c, e.sid, "Error"))
      /\ Within(u, complete_drain(u, c, e.sid, "Ok"))
      /\ Within(u, resolve_unit(u, c, "Ok"))
      /\ Within(u1, resolve_unit(u1, c, "Ok"))
  BY <1>5, <1>6, CompleteWithin, ResolveWithin, WithinSelf DEF Alike
<1>8. Tables(resolve_unit(u, c, "Ok"))
  BY <1>5, <1>7, TablesWithin
<1>9. Matched(u1) /\ Matched(u2)
  BY <1>5, <1>6, MatchedAlike
<1>10. /\ Matched(complete_drain_waiter(u, c, e.sid, "Error"))
       /\ Matched(complete_drain(u, c, e.sid, "Ok"))
       /\ Matched(resolve_unit(u1, c, "Ok"))
  BY <1>5, <1>7, <1>9, MatchedWithin
<1>11. Matched(finish(resolve_unit(u, c, "Ok")))
  BY <1>8, FinishMatched
<1> QED BY <1>4, <1>5, <1>9, <1>10, <1>11

\* The one event of the transition.
OnceOnly(h, i, t) ==
  /\ i = 0 => t = h
  /\ i = 1 => t = HandlingEvent(0, h, "Flush_completed")
OnceOf == INSTANCE FoldLemmas WITH op <- HandlingEvent, R <- OnceOnly

LEMMA OneEvent ==
  ASSUME NEW t
  PROVE  handle_events(t, <<"Flush_completed">>)
           = HandlingEvent(0, t, "Flush_completed")
<1> DEFINE s == <<"Flush_completed">>
<1>1. s \in Seq({"Flush_completed"}) /\ Len(s) = 1 /\ s[1] = "Flush_completed"
  OBVIOUS
<1> HIDE DEF s
<1>2. ASSUME NEW i \in 1..Len(s), NEW x, OnceOnly(t, i - 1, x)
      PROVE  OnceOnly(t, i, HandlingEvent(0, x, s[i]))
  <2>1. i = 1 /\ i - 1 = 0
    BY <1>1
  <2>2. x = t
    BY <1>2, <2>1 DEF OnceOnly
  <2> QED BY <1>1, <2>1, <2>2 DEF OnceOnly
<1>3. OnceOnly(t, 0, t)
  BY DEF OnceOnly
<1>4. OnceOf!ItemsClaim(0, t, t, s)
  BY <1>2, <1>3 DEF OnceOf!ItemsClaim
<1>5. OnceOnly(t, Len(s), OnceOf!OverItems(0, t, s))
  BY <1>1, <1>4, NaturalInduction, OnceOf!SequenceFold, Zenon
     DEF OnceOf!Inductive
<1>6. handle_events(t, s) = OnceOf!OverItems(0, t, s)
  BY Zenon DEF OnceOf!OverItems, FoldLeft, MapThenFoldSet, Max,
               handle_events, HandlingEvent
<1> QED BY <1>1, <1>5, <1>6 DEF OnceOnly, s

\* apply_transition with the PONG of the first barrier.
LEMMA SettlesMatched ==
  ASSUME NEW t, Tables(t), Matched(t), NEW tr, Settles(t.state, tr)
  PROVE  Matched(apply_transition(t, tr))
<1> DEFINE u == apply_transition(t, tr)
           w == write_outputs(t, tr.output)
           x == [w EXCEPT !.state = tr.state]
           y == handle_events(x, tr.events)
           z == handle_deliveries(y, tr.deliveries)
<1>1. u = IF w.error # None THEN w ELSE IF y.error # None THEN y ELSE z
  BY Zenon DEF apply_transition, Then
<1>2. u = IF w.error # None THEN w ELSE y
  BY <1>1, NothingDelivered, Zenon DEF Settles
<1>3. Within(t, w) /\ Fields(w) /\ Tables(w) /\ Matched(w)
  <2>1. Within(t, w)
    BY WriteWithin DEF Tables
  <2> HIDE DEF w
  <2> QED BY <2>1, TablesWithin, MatchedWithin DEF Within
<1> HIDE DEF w, z, u
<1>4. /\ Fields(x) /\ x.closed = t.closed /\ x.barriers = t.barriers
      /\ x.error = w.error
      /\ x.state.pending_pings = Pings(tr) /\ Tables(x)
  <2>1. /\ Fields(x) /\ x.closed = t.closed /\ x.barriers = t.barriers
        /\ x.work = w.work /\ x.state.pending_pings = Pings(tr)
        /\ x.error = w.error /\ x.subscriptions = w.subscriptions
        /\ x.subscription_drains = w.subscription_drains /\ x.barriers = w.barriers
    BY <1>3 DEF Within, Fields, Settles, HasPings, Pings
  <2> HIDE DEF x
  <2>2. Tables(x)
    BY <1>3, <2>1 DEF Tables
  <2> QED BY <2>1, <2>2
<1> HIDE DEF x
<1>5. CASE w.error # None
  BY <1>2, <1>3, <1>5 DEF u
<1>6. CASE w.error = None
  <2>1. x.error = None
    BY <1>4, <1>6
  <2>2. y = handle_event(x, "Flush_completed")
    BY <2>1, OneEvent, Zenon DEF Settles, HandlingEvent, Then
  <2>3. u = y
    BY <1>2, <1>6
  <2> HIDE DEF y
  <2>4. y \in {event(x), flush_completed(event(x))}
    BY <2>2 DEF handle_event, Then
  <2>5. CASE x.closed
    <3> DEFINE ev == event(x)
    <3>1. ev.closed /\ Tables(ev)
      <4>1. Within(x, ev)
        BY <1>4, EventWithin
      <4> HIDE DEF ev
      <4> QED BY <1>4, <2>5, <4>1, TablesWithin DEF Within
    <3>2. y \in {ev, flush_completed(ev)}
      BY <2>4
    <3> HIDE DEF ev
    <3>3. Matched(ev) /\ Matched(flush_completed(ev))
      BY <3>1, CompletedMatched DEF Matched
    <3> QED BY <2>3, <3>2, <3>3 DEF u
  <2>6. CASE ~x.closed
    <3>1. event(x) = x
      BY <2>6 DEF event
    <3>2. y = flush_completed(x)
      BY <2>1, <2>2, <3>1 DEF handle_event, Then
    <3>3. /\ t.state.pending_pings \in Seq(Origins)
          /\ Agree(t.barriers, t.state.pending_pings)
          /\ t.barriers \in Seq(BarrierRecords)
      BY <1>4, <2>6 DEF Matched, Tables
    <3>4. /\ Pings(tr) \in Seq(Origins) /\ t.barriers # <<>>
          /\ Agree(Tail(t.barriers), Pings(tr))
      BY <3>3 DEF Settles
    <3>5. Matched(flush_completed(x))
      BY <1>4, <3>4, CompletedMatched
    <3> QED BY <2>3, <3>2, <3>5 DEF u
  <2> QED BY <2>5, <2>6
<1> QED BY <1>5, <1>6

\* The ledger together with the match.
Sound(k, t) == Ledger(k, t) /\ Matched(t)

LEMMA SoundTables ==
  ASSUME NEW k, NEW t, Sound(k, t)
  PROVE  Tables(t) /\ Fields(t) /\ Shape(t) /\ Matched(t)
BY LedgerTables, LedgerShape DEF Sound, Tables

LEMMA ErrorMatched ==
  ASSUME NEW t, Fields(t), Matched(t), NEW e
  PROVE  Matched(Error(t, e)) /\ Matched(Cleared(t))
BY ErrorWithin, MatchedWithin

LEMMA CloseMatched ==
  ASSUME NEW t, Fields(t), Matched(t)
  PROVE  LET u == apply_transition(t, closed_transition(t.state))
         IN  Fields(u) /\ Matched(u)
<1> DEFINE st2 == [t.state EXCEPT !.phase = "Closed", !.next_ping = FALSE]
           tr == Transition(st2, <<>>, <<"Closed">>, <<>>, None)
<1>1. "pending_pings" \in DOMAIN st2
      /\ st2.pending_pings = t.state.pending_pings
  BY DEF Fields
<1> HIDE DEF st2
<1>2. HasPings(tr) /\ Pings(tr) = t.state.pending_pings
  BY <1>1, EmitPings
<1>3. tr.events = <<"Closed">> /\ tr.deliveries = <<>>
  BY DEF Transition
<1>4. tr = closed_transition(t.state)
  BY DEF closed_transition, st2
<1> HIDE DEF tr
<1>5. PlainTaken(t, tr, apply_transition(t, tr))
  BY <1>2, <1>3, PlainTransition
<1>6. Fields(apply_transition(t, tr)) /\ Matched(apply_transition(t, tr))
  BY <1>2, <1>5 DEF PlainTaken, Matched
<1> QED BY <1>4, <1>6

LEMMA ConnectMatched ==
  ASSUME NEW k, NEW t, Sound(k, t)
  PROVE  Matched(connect_after_info(t))
<1> DEFINE tr == outgoing_connect(t.state)
           x == [t EXCEPT !.connect_sent = TRUE]
           y == apply_transition(x, tr)
<1>1. Tables(t) /\ Fields(t) /\ Shape(t) /\ Matched(t)
  BY SoundTables
<1>2. \/ connect_after_info(t) = t
      \/ connect_after_info(t) = Error(t, tr.error)
      \/ tr.error = None /\ connect_after_info(t) = y
  BY Zenon DEF connect_after_info
<1>3. Within(t, x) /\ x.state = t.state
  BY <1>1 DEF Within, Fields
<1> HIDE DEF x
<1>4. Tables(x) /\ Matched(x)
  BY <1>1, <1>3, TablesWithin, MatchedWithin
<1>5. tr.error = None => Keeps(x.state, tr)
  BY <1>1, <1>3, ConnectKeeps DEF Shape
<1> HIDE DEF tr
<1>6. tr.error = None => Matched(y)
  BY <1>4, <1>5, KeepsMatched
<1> HIDE DEF y
<1> QED BY <1>1, <1>2, <1>6, ErrorMatched

\* One operation of a batch, whatever state the batch has reached.
LEMMA IncomingMatched ==
  ASSUME NEW k, NEW t, Sound(k, t), NEW op \in Received
  PROVE  Sound(k, incoming(t, op))
<1> DEFINE tr == handle_operation(t.state, op)
           x == apply_transition(t, tr)
<1>1. Tables(t) /\ Fields(t) /\ Shape(t) /\ Matched(t)
  BY SoundTables
<1>2. \/ incoming(t, op) = Error(t, tr.error)
      \/ tr.error = None /\ incoming(t, op) \in {x, connect_after_info(x)}
  BY DEF incoming, Then
<1>3. tr.error = None => Keeps(t.state, tr) \/ Settles(t.state, tr)
  BY <1>1, OperationMatched DEF Shape
<1>4. Ledger(k, t) /\ CoreStep(t.state, tr)
  BY <1>1, OperationStep DEF Sound, Shape
<1> HIDE DEF tr
<1>5. Ledger(k, x)
  BY <1>4, TransitionLedger
<1>6. tr.error = None => Sound(k, x)
  BY <1>1, <1>3, <1>5, KeepsMatched, SettlesMatched DEF Sound
<1> HIDE DEF x
<1>7. tr.error = None => Matched(connect_after_info(x))
  BY <1>6, ConnectMatched
<1>8. Matched(Error(t, tr.error))
  BY <1>1, ErrorMatched
<1>9. Matched(incoming(t, op))
  BY <1>2, <1>6, <1>7, <1>8 DEF Sound
<1>10. Ledger(k, incoming(t, op))
  BY <1>4, IncomingLedger
<1> QED BY <1>9, <1>10 DEF Sound

SoundAt(h, i, t) == Sound(h, t)
ReceiptsSound == INSTANCE FoldLemmas WITH op <- Receiving, R <- SoundAt

LEMMA BatchMatched ==
  ASSUME NEW k, NEW t, Sound(k, t), NEW ops \in Seq(Received), NEW eof,
         NEW u, u = apply_incoming(t, ops, eof)
  PROVE  Matched(u)
<1> DEFINE read == FoldLeft(LAMBDA x, op : Then(x, LAMBDA y : incoming(y, op)), t, ops)
           x == apply_transition(read, incoming_eof(read.state))
           y == [x EXCEPT !.reconnect_publish_state =
                   IF @ = None THEN PublishState(t.state) ELSE @]
           z == Error(y, "Disconnected")
<1>1. ASSUME NEW i \in 1..Len(ops), NEW w, SoundAt(k, i - 1, w)
      PROVE  SoundAt(k, i, Receiving(0, w, ops[i]))
  <2>1. Sound(k, incoming(w, ops[i]))
    BY <1>1, IncomingMatched DEF SoundAt
  <2> QED BY <1>1, <2>1, Zenon DEF SoundAt, Receiving, Then
<1>2. ReceiptsSound!ItemsClaim(0, k, t, ops)
  BY <1>1 DEF ReceiptsSound!ItemsClaim, SoundAt
<1>3. SoundAt(k, Len(ops), ReceiptsSound!OverItems(0, t, ops))
  BY <1>2, NaturalInduction, ReceiptsSound!SequenceFold, Zenon
     DEF ReceiptsSound!Inductive
<1>4. read = ReceiptsSound!OverItems(0, t, ops)
  BY Zenon DEF ReceiptsSound!OverItems, FoldLeft, MapThenFoldSet, Max, Receiving
<1>5. u = read \/ u = x \/ u = z \/ u = finish(x)
  BY Zenon DEF apply_incoming, end_of_input, Then
<1> HIDE DEF read
<1>6. Sound(k, read) /\ Fields(read) /\ Matched(read)
  BY <1>3, <1>4, SoundTables DEF SoundAt
<1>7. Fields(x) /\ Matched(x)
  BY <1>6, CloseMatched DEF incoming_eof
<1>8. Tables(x)
  <2> DEFINE tr == incoming_eof(read.state)
  <2>1. CoreStep(read.state, tr) /\ Ledger(k, read)
    BY <1>6, LedgerShape, ClosePlain DEF PlainStep, Sound
  <2> HIDE DEF tr
  <2>2. Ledger(k, apply_transition(read, tr))
    BY <2>1, TransitionLedger
  <2> QED BY <2>2, LedgerTables DEF tr
<1> HIDE DEF x
<1>9. Alike(x, y)
  BY <1>7 DEF Alike, Fields
<1> HIDE DEF y
<1>10. Matched(x) /\ Matched(y) /\ Fields(y)
  BY <1>6, <1>7, <1>9, MatchedAlike DEF Alike
<1>11. Matched(z)
  BY <1>10, ErrorMatched
<1> HIDE DEF z
<1> QED BY <1>5, <1>6, <1>8, <1>10, <1>11, FinishMatched

-----------------------------------------------------------------------------
(* Losing a transport.                                                     *)

\* An attempt to reconnect that fails or starts again keeps both as they are.
LEMMA ReconnectAlike ==
  ASSUME NEW t, Fields(t), NEW error
  PROVE  /\ Alike(t, reset_reconnect_attempt(t, TRUE))
         /\ Alike(t, schedule_reconnect(t, error))
         /\ Alike(t, start_reconnect_attempt(t))
         /\ Alike(t, retry_reconnect(t, error))
<1>1. Alike(t, reset_reconnect_attempt(t, TRUE))
  <2> DEFINE st == prepare_reconnect(t.state, TRUE)
  <2>1. "pending_pings" \in DOMAIN st /\ st.pending_pings = t.state.pending_pings
    BY DEF Fields, prepare_reconnect, kept_pings
  <2>2. reset_reconnect_attempt(t, TRUE)
          = [t EXCEPT !.up = FALSE, !.broke = @ \/ t.up, !.connect_sent = FALSE,
                      !.handshake_deadline = FALSE, !.reconnect_deadline = FALSE,
                      !.state = st]
    BY Zenon DEF reset_reconnect_attempt
  <2> HIDE DEF st
  <2> QED BY <2>1, <2>2 DEF Alike, Fields
<1>2. ASSUME NEW x, Fields(x), NEW e
      PROVE  Alike(x, schedule_reconnect(x, e))
  <2>1. Alike(x, [x EXCEPT !.reconnect_deadline = TRUE])
    BY <1>2 DEF Alike, Fields
  <2>2. Alike(x, Error(x, e))
    BY <1>2, ErrorWithin, WithinAlike
  <2> QED BY <2>1, <2>2, Zenon DEF schedule_reconnect
<1>3. Alike(t, start_reconnect_attempt(t))
  <2> DEFINE n == IF MaxAttempts = None THEN t.reconnect_attempts
                  ELSE t.reconnect_attempts + 1
             x == [t EXCEPT !.reconnect_attempts = n]
             y == [x EXCEPT !.up = TRUE, !.fresh = TRUE, !.handshake_deadline = TRUE]
  <2>1. start_reconnect_attempt(t) = IF t.dial THEN y ELSE schedule_reconnect(x, "Io")
    BY Zenon DEF start_reconnect_attempt
  <2> HIDE DEF n
  <2>2. Alike(t, x) /\ Alike(t, y)
    BY DEF Alike, Fields
  <2> HIDE DEF x, y
  <2>3. Alike(t, schedule_reconnect(x, "Io"))
    BY <1>2, <2>2, AlikeTwice DEF Alike
  <2> QED BY <2>1, <2>2, <2>3, Zenon
<1>4. Alike(t, retry_reconnect(t, error))
  <2> DEFINE x == reset_reconnect_attempt(t, TRUE)
  <2>1. Alike(t, x) /\ Fields(x)
    BY <1>1 DEF Alike
  <2>2. retry_reconnect(t, error) = schedule_reconnect(x, error)
    BY DEF retry_reconnect
  <2> HIDE DEF x
  <2> QED BY <1>2, <2>1, <2>2, AlikeTwice
<1> QED BY <1>1, <1>2, <1>3, <1>4

\* Both are emptied.
LEMMA RecoverMatched ==
  ASSUME NEW k, NEW t, Ledger(k, t), NEW u, u = recover_transport(t)
  PROVE  Matched(u)
<1> DEFINE S == {sid \in t.subscriptions : ~t.handles[sid].replay}
           x == OverSids(LAMBDA w, sid : forget(close_subscription(w, sid), sid), t, S)
           y == fail_barriers(x)
           z == reset_reconnect_attempt(y, FALSE)
           q == [z EXCEPT !.reconnect_attempts = 0, !.reconnecting = TRUE,
                          !.reconnect_publish_state =
                             IF @ = None THEN PublishState(x.state) ELSE @]
<1>1. u = start_reconnect_attempt(q)
  BY Zenon DEF recover_transport
<1>2. t.state.next_sid \in Nat /\ S \in SUBSET (0..t.state.next_sid)
  BY SidsBounded DEF Ledger
<1>3. x = Ephemerals!OverNumbers(0, t, S)
  BY Zenon DEF Ephemerals!OverNumbers, OverSids, MapThenFoldSet, Max,
               Ending_ephemeral
<1> HIDE DEF S, x
<1>4. ASSUME NEW s \in SUBSET S, NEW e \in S \ s, NEW f, RecordedSet(k, s, f)
      PROVE  RecordedSet(k, s \cup {e}, Ending_ephemeral(0, f, e))
  <2> DEFINE g == close_subscription(f, e)
  <2>1. Ledger(k, g)
    BY <1>4, ClosingLedger DEF RecordedSet
  <2> HIDE DEF g
  <2>2. Ledger(k, forget(g, e))
    BY <2>1, LedgerShape, ForgetQuiet, QuietLedger
  <2> QED BY <2>2 DEF RecordedSet, Ending_ephemeral, g
<1>5. Ephemerals!NumbersClaim(0, k, t, S)
  BY <1>4 DEF Ephemerals!NumbersClaim, RecordedSet
<1>6. Ledger(k, x)
  <2>1. RecordedSet(k, S, Ephemerals!OverNumbers(0, t, S))
    BY <1>2, <1>5, NaturalInduction, Ephemerals!NumbersFold, Zenon
     DEF Ephemerals!Inductive
  <2> QED BY <1>3, <2>1 DEF RecordedSet
<1>7. Fields(x)
  BY <1>6, LedgerTables DEF Tables
<1>8. Fields(y) /\ y.barriers = <<>>
  <2> DEFINE flushes == {b.call : b \in {c \in Range(x.barriers) :
                                    /\ c.kind # "Subscription_drain"
                                    /\ c.call \notin x.completed}}
             x1 == fail_waiters(x, flushes)
  <2>1. y = [x1 EXCEPT !.barriers = <<>>, !.completed = @ \cup flushes]
    BY Zenon DEF fail_barriers
  <2> HIDE DEF flushes, y
  <2>2. Fields(x1)
    BY <1>7, ResolveWithin DEF Within
  <2> HIDE DEF x1
  <2> QED BY <2>1, <2>2 DEF Fields
<1> HIDE DEF y
<1>9. Fields(z) /\ z.barriers = <<>> /\ z.state.pending_pings = <<>>
  <2> DEFINE st == prepare_reconnect(y.state, FALSE)
  <2>1. "pending_pings" \in DOMAIN st /\ st.pending_pings = <<>>
    BY <1>8 DEF Fields, prepare_reconnect, kept_pings
  <2>2. z = [y EXCEPT !.up = FALSE, !.broke = @ \/ y.up, !.connect_sent = FALSE,
                      !.handshake_deadline = FALSE, !.reconnect_deadline = FALSE,
                      !.state = st]
    BY Zenon DEF reset_reconnect_attempt
  <2> HIDE DEF st, z
  <2> QED BY <1>8, <2>1, <2>2 DEF Fields
<1> HIDE DEF z
<1>10. Fields(q) /\ q.barriers = <<>> /\ q.state.pending_pings = <<>>
  BY <1>9 DEF Fields
<1> HIDE DEF q
<1>11. Matched(q)
  BY <1>10, AgreeEmpty DEF Matched
<1> QED BY <1>1, <1>10, <1>11, ReconnectAlike, MatchedAlike

LEMMA EndTurnMatched ==
  ASSUME NEW k, NEW t, Sound(k, t), NEW u, u = EndTurn(t)
  PROVE  Matched(u)
<1> DEFINE x == Cleared(t)
           y == handle_transport_error(t)
<1>1. Sound(k, x) /\ Fields(x) /\ Fields(t) /\ Matched(x) /\ Ledger(k, t)
  BY SoundTables, ErrorLedger, ErrorMatched DEF Sound
<1>2. y = t \/ y = retry_reconnect(x, t.error) \/ y = recover_transport(x)
  BY Zenon DEF handle_transport_error
<1> HIDE DEF x
<1>3. Ledger(k, y)
  BY <1>1, <1>2, RetryLedger, RecoverLedger DEF Sound
<1>4. Matched(y)
  BY <1>1, <1>2, ReconnectAlike, MatchedAlike, RecoverMatched DEF Sound
<1>5. u = t \/ u = y \/ u = finish(t) \/ u = finish(y)
  BY Zenon DEF EndTurn
<1> HIDE DEF y
<1> QED BY <1>1, <1>3, <1>4, <1>5, FinishMatched, LedgerTables DEF Sound

LEMMA OrFinishMatched ==
  ASSUME NEW k, NEW t, Sound(k, t), NEW u, u = OrFinish(t)
  PROVE  Matched(u)
BY SoundTables, FinishMatched DEF OrFinish

-----------------------------------------------------------------------------
(* Commands that add no barrier.                                           *)

LEMMA WithinNext ==
  ASSUME NEW t, NEW u, NEW x, Within(t, u), Within(u, x)
  PROVE  Within(t, x) /\ Fields(x)
BY DEF Within

\* A transition of the core that neither asks for a PONG nor reports an event.
Untouched(st, tr) ==
  /\ HasPings(tr) /\ Pings(tr) = st.pending_pings
  /\ tr.events = <<>> /\ tr.deliveries = <<>>

LEMMA UntouchedEmit ==
  ASSUME NEW st, NEW st2, "pending_pings" \in DOMAIN st2,
         st2.pending_pings = st.pending_pings, NEW o, NEW sid
  PROVE  /\ Untouched(st, Emit(st2, o))
         /\ Untouched(st, Transition(st2, o, <<>>, <<>>, sid))
BY DEF Untouched, HasPings, Pings, Emit, Transition

LEMMA UntouchedFailure ==
  ASSUME NEW st, "pending_pings" \in DOMAIN st, NEW e
  PROVE  Untouched(st, Failure(st, e))
BY DEF Untouched, HasPings, Pings, Failure

LEMMA PublishUntouched ==
  ASSUME NEW st, "pending_pings" \in DOMAIN st, NEW message
  PROVE  Untouched(st, outgoing_publish(st, message))
BY UntouchedEmit, UntouchedFailure, Zenon DEF outgoing_publish

LEMMA SubscribeUntouched ==
  ASSUME NEW st, "pending_pings" \in DOMAIN st, NEW subject
  PROVE  Untouched(st, outgoing_subscribe(st, subject))
<1>1. ASSUME NEW n, NEW subs, NEW o, NEW sid
      PROVE  Untouched(st, Transition([st EXCEPT !.next_sid = n,
                                                 !.subscriptions = subs],
                                      o, <<>>, <<>>, sid))
  <2> DEFINE st2 == [st EXCEPT !.next_sid = n, !.subscriptions = subs]
  <2>1. "pending_pings" \in DOMAIN st2 /\ st2.pending_pings = st.pending_pings
    OBVIOUS
  <2> HIDE DEF st2
  <2>2. Untouched(st, Transition(st2, o, <<>>, <<>>, sid))
    BY <2>1, UntouchedEmit
  <2> QED BY <2>2 DEF st2
<1>2. \A e : Untouched(st, Failure(st, e))
  BY UntouchedFailure
<1> DEFINE sid == st.next_sid
           new == [subject |-> subject, remaining |-> None, delivered |-> 0]
           subs == [s \in DOMAIN st.subscriptions \cup {sid} |->
                      IF s = sid THEN new ELSE st.subscriptions[s]]
           next == [st EXCEPT !.next_sid = sid + 1, !.subscriptions = subs]
<1>3. outgoing_subscribe(st, subject) =
        CASE st.phase \in {"Awaiting_info", "Awaiting_connect"} ->
               Transition(next, <<>>, <<>>, <<>>, sid)
          [] st.phase = "Connected" ->
               IF subject \in Unencodable THEN Failure(st, "Codec")
               ELSE Transition(next, << Sub(sid, subject) >>, <<>>, <<>>, sid)
          [] OTHER -> Failure(st, PhaseError(st))
  BY Zenon DEF outgoing_subscribe
<1> DEFINE tr == outgoing_subscribe(st, subject)
           r1 == Transition(next, <<>>, <<>>, <<>>, sid)
           r2 == Transition(next, << Sub(sid, subject) >>, <<>>, <<>>, sid)
<1>4. tr \in {r1, r2} \/ \E e : tr = Failure(st, e)
  <2> HIDE DEF next
  <2> QED BY <1>3, Zenon
<1>5. Untouched(st, r1) /\ Untouched(st, r2)
  BY <1>1
<1> HIDE DEF tr, r1, r2
<1>6. Untouched(st, tr)
  BY <1>2, <1>4, <1>5
<1> QED BY <1>6 DEF tr

LEMMA UnsubscribeUntouched ==
  ASSUME NEW st, "pending_pings" \in DOMAIN st, NEW sid, NEW m
  PROVE  /\ Untouched(st, outgoing_unsubscribe(st, sid, m))
         /\ Untouched(st, outgoing_auto_unsubscribe(st, sid, m))
<1>1. \A e : Untouched(st, Failure(st, e))
  BY UntouchedFailure
<1>2. ASSUME NEW subs, NEW output
      PROVE  Untouched(st, Emit([st EXCEPT !.subscriptions = subs,
                                           !.draining = @ \ {sid}], output))
  <2> DEFINE next == [st EXCEPT !.subscriptions = subs, !.draining = @ \ {sid}]
  <2>1. "pending_pings" \in DOMAIN next /\ next.pending_pings = st.pending_pings
    OBVIOUS
  <2> HIDE DEF next
  <2>2. Untouched(st, Emit(next, output))
    BY <2>1, UntouchedEmit
  <2> QED BY <2>2 DEF next
<1>3. Untouched(st, outgoing_unsubscribe(st, sid, m))
  BY <1>1, <1>2, Zenon DEF outgoing_unsubscribe, empty_transition
<1> QED BY <1>1, <1>3, Zenon DEF outgoing_auto_unsubscribe

LEMMA UntouchedWithin ==
  ASSUME NEW t, Fields(t), NEW tr, Untouched(t.state, tr)
  PROVE  Within(t, apply_transition(t, tr)) /\ Fields(apply_transition(t, tr))
<1> DEFINE u == apply_transition(t, tr)
           w == write_outputs(t, tr.output)
           x == [w EXCEPT !.state = tr.state]
           y == handle_events(x, tr.events)
<1>1. Within(t, w)
  BY WriteWithin
<1>2. u \in {w, y, handle_deliveries(y, tr.deliveries)}
  BY DEF apply_transition, Then
<1>3. u = w \/ u = x
  BY <1>2, NoEvents, NothingDelivered, Zenon DEF Untouched
<1> HIDE DEF w, u
<1>4. Within(t, x)
  BY <1>1 DEF Within, Fields, Untouched, HasPings, Pings
<1> HIDE DEF x
<1>5. Within(t, u)
  BY <1>1, <1>3, <1>4
<1> QED BY <1>5 DEF Within, u

LEMMA PublishWithin ==
  ASSUME NEW t, Fields(t), NEW c
  PROVE  Within(t, apply_publish(t, c))
<1> DEFINE tr == outgoing_publish(t.state, PublishOp(c, 0))
           x == apply_transition(t, tr)
           y == Accept(x, c)
<1>1. \/ apply_publish(t, c) = fail_waiter(t, c)
      \/ apply_publish(t, c) = fail_waiter(x, c)
      \/ apply_publish(t, c) = resolve_unit(y, c, "Ok")
  BY Zenon DEF apply_publish, ApplyFor
<1>2. Untouched(t.state, tr)
  BY PublishUntouched DEF Fields
<1> HIDE DEF tr
<1>3. Within(t, x) /\ Fields(x)
  BY <1>2, UntouchedWithin
<1> HIDE DEF x
<1>4. Within(t, y) /\ Fields(y)
  BY <1>3, ResolveWithin, WithinNext
<1> HIDE DEF y
<1> QED BY <1>1, <1>3, <1>4, ResolveWithin, WithinTwice

LEMMA BufferedWithin ==
  ASSUME NEW t, Fields(t), NEW message
  PROVE  Within(t, enqueue_reconnect_publish_output(t, message))
<1> DEFINE tr == outgoing_publish(t.reconnect_publish_state, message)
           x == [t EXCEPT !.reconnect_pending = @ \o tr.output]
<1>1. \/ \E e : enqueue_reconnect_publish_output(t, message) = Error(t, e)
      \/ enqueue_reconnect_publish_output(t, message) = Accept(x, message.call)
  BY Zenon DEF enqueue_reconnect_publish_output
<1> HIDE DEF tr
<1>2. Within(t, x) /\ Fields(x)
  BY DEF Within, Fields
<1> HIDE DEF x
<1>3. Within(t, Accept(x, message.call))
  BY <1>2, ResolveWithin, WithinTwice
<1> QED BY <1>1, <1>3, ErrorWithin, Zenon

LEMMA BufferPublishWithin ==
  ASSUME NEW t, Fields(t), NEW c
  PROVE  Within(t, enqueue_reconnect_publish(t, c))
<1> DEFINE x == enqueue_reconnect_publish_output(t, PublishOp(c, 0))
<1>1. enqueue_reconnect_publish(t, c) \in
        {fail_waiter(t, c), resolve_unit(x, c, "Ok")}
  BY DEF enqueue_reconnect_publish
<1>2. Within(t, x) /\ Fields(x)
  BY BufferedWithin DEF Within
<1> HIDE DEF x
<1> QED BY <1>1, <1>2, ResolveWithin, WithinTwice

LEMMA SubscribeAlike ==
  ASSUME NEW t, Fields(t), NEW c, NEW subject, NEW replay
  PROVE  Alike(t, apply_subscribe(t, c, subject, replay))
<1> DEFINE tr == outgoing_subscribe(t.state, subject)
           sid == tr.sid
           h == [replay |-> replay, drain |-> None, waiter |-> None]
           x == [t EXCEPT !.handles = With(@, sid, h),
                          !.subscriptions = @ \cup {sid}]
           y == apply_transition(x, tr)
           z == close_subscription(y, sid)
<1>1. apply_subscribe(t, c, subject, replay) \in
        {fail_waiter(t, c), fail_waiter(z, c), resolve_unit(y, c, "Ok")}
  BY DEF apply_subscribe
<1>2. Untouched(t.state, tr)
  BY SubscribeUntouched DEF Fields
<1> HIDE DEF tr, h
<1>3. Alike(t, x) /\ Fields(x) /\ x.state = t.state
  BY DEF Alike, Fields
<1> HIDE DEF x
<1>4. Within(x, y) /\ Fields(y)
  BY <1>2, <1>3, UntouchedWithin
<1> HIDE DEF y
<1>5. Within(y, z) /\ Fields(z)
  BY <1>4, CloseWithin DEF Within
<1> HIDE DEF z
<1>6. Within(x, fail_waiter(z, c)) /\ Within(x, resolve_unit(y, c, "Ok"))
  BY <1>4, <1>5, ResolveWithin, WithinTwice
<1>7. Alike(t, fail_waiter(z, c)) /\ Alike(t, resolve_unit(y, c, "Ok"))
  BY <1>3, <1>6, WithinAlike, AlikeTwice
<1>8. Alike(t, fail_waiter(t, c))
  BY ResolveWithin, WithinAlike
<1> QED BY <1>1, <1>7, <1>8

LEMMA EndedWithin ==
  ASSUME NEW t, Fields(t), NEW c, NEW sid
  PROVE  /\ Within(t, apply_unsubscribe(t, c, sid))
         /\ Within(t, apply_auto_unsubscribe(t, c, sid))
<1>1. Within(t, apply_unsubscribe(t, c, sid))
  <2> DEFINE tr == outgoing_unsubscribe(t.state, sid, None)
             x == apply_transition(t, tr)
             y == close_subscription(t, sid)
             z == close_subscription(x, sid)
  <2>1. apply_unsubscribe(t, c, sid) \in
          {fail_waiter(y, c), fail_waiter(z, c), resolve_unit(z, c, "Ok")}
    BY DEF apply_unsubscribe, unsubscribed
  <2>2. Untouched(t.state, tr)
    BY UnsubscribeUntouched DEF Fields
  <2> HIDE DEF tr
  <2>3. Within(t, x) /\ Fields(x)
    BY <2>2, UntouchedWithin
  <2> HIDE DEF x
  <2>4. Within(t, y) /\ Fields(y) /\ Within(t, z) /\ Fields(z)
    BY <2>3, CloseWithin, WithinTwice DEF Within
  <2> HIDE DEF y, z
  <2> QED BY <2>1, <2>4, ResolveWithin, WithinTwice
<1>2. Within(t, apply_auto_unsubscribe(t, c, sid))
  <2> DEFINE tr == outgoing_auto_unsubscribe(t.state, sid, 1)
             x == apply_transition(t, tr)
  <2>1. \/ apply_auto_unsubscribe(t, c, sid) = resolve_unit(t, c, "Ok")
        \/ apply_auto_unsubscribe(t, c, sid) = fail_waiter(t, c)
        \/ apply_auto_unsubscribe(t, c, sid) = fail_waiter(x, c)
        \/ apply_auto_unsubscribe(t, c, sid) = resolve_unit(x, c, "Ok")
    BY Zenon DEF apply_auto_unsubscribe, ApplyFor
  <2>2. Untouched(t.state, tr)
    BY UnsubscribeUntouched DEF Fields
  <2> HIDE DEF tr
  <2>3. Within(t, x) /\ Fields(x)
    BY <2>2, UntouchedWithin
  <2> HIDE DEF x
  <2> QED BY <2>1, <2>3, ResolveWithin, WithinTwice
<1> QED BY <1>1, <1>2

-----------------------------------------------------------------------------
(* Requests.                                                               *)

LEMMA RequestPublishWithin ==
  ASSUME NEW t, Fields(t), NEW c, NEW sid
  PROVE  Within(t, request_publish(t, c, sid))
<1> DEFINE message == PublishOp(c, sid)
           b == enqueue_reconnect_publish_output(t, message)
           tr == outgoing_publish(t.state, message)
           x == apply_transition(t, tr)
           dt == resolve_setup(drop_request(t, sid), c, "Error")
           dx == resolve_setup(drop_request(x, sid), c, "Error")
           ax == Accept(x, c)
<1>1. request_publish(t, c, sid) \in
        {forget(dt, sid), resolve_setup(b, c, "Ok"),
         unsubscribe_and_forget(dt, sid), forget(dx, sid),
         resolve_setup(ax, c, "Ok")}
  BY DEF request_publish
<1>2. Untouched(t.state, tr)
  BY PublishUntouched DEF Fields
<1> HIDE DEF tr
<1>3. Within(t, x) /\ Fields(x) /\ Within(t, b) /\ Fields(b)
  BY <1>2, UntouchedWithin, BufferedWithin DEF Within
<1> HIDE DEF x, b
<1>4. ASSUME NEW y, Fields(y)
      PROVE  LET d == resolve_setup(drop_request(y, sid), c, "Error")
             IN  Within(y, d) /\ Fields(d)
  <2>1. Within(y, drop_request(y, sid)) /\ Fields(drop_request(y, sid))
    BY <1>4, ResolveWithin DEF Within
  <2> QED BY <2>1, ResolveWithin, WithinTwice DEF Within
<1>5. Within(t, dt) /\ Fields(dt) /\ Within(t, dx) /\ Fields(dx)
  BY <1>3, <1>4, WithinTwice
<1>6. Within(t, ax) /\ Fields(ax)
  BY <1>3, ResolveWithin, WithinNext
<1> HIDE DEF dt, dx, ax
<1>7. /\ Within(t, forget(dt, sid)) /\ Within(t, forget(dx, sid))
      /\ Within(t, unsubscribe_and_forget(dt, sid))
  BY <1>5, ForgetWithin, UnsubscribeWithin, WithinTwice
<1>8. Within(t, resolve_setup(b, c, "Ok")) /\ Within(t, resolve_setup(ax, c, "Ok"))
  BY <1>3, <1>6, ResolveWithin, WithinTwice
<1> QED BY <1>1, <1>7, <1>8

LEMMA RequestAlike ==
  ASSUME NEW t, Fields(t), NEW c
  PROVE  Alike(t, apply_request(t, c))
<1> DEFINE tr == outgoing_subscribe(t.state, Inbox)
           sid == tr.sid
           u == apply_transition(t, tr)
           auto == outgoing_auto_unsubscribe(u.state, sid, 1)
           w == apply_transition(u, auto)
           ut == resolve_setup(u, c, "Error")
           cw == Cleared(w)
           wt == resolve_setup(cw, c, "Error")
           x == [w EXCEPT !.requests = With(@, sid, c)]
<1>1. apply_request(t, c) \in
        {resolve_setup(t, c, "Error"), ut, unsubscribe_and_forget(ut, sid),
         unsubscribe_and_forget(wt, sid), request_publish(x, c, sid)}
  BY DEF apply_request
<1>2. Untouched(t.state, tr)
  BY SubscribeUntouched DEF Fields
<1> HIDE DEF tr
<1>3. Within(t, u) /\ Fields(u)
  BY <1>2, UntouchedWithin
<1> HIDE DEF u
<1>4. Untouched(u.state, auto)
  BY <1>3, UnsubscribeUntouched DEF Fields
<1> HIDE DEF auto
<1>5. Within(t, w) /\ Fields(w)
  BY <1>3, <1>4, UntouchedWithin, WithinTwice
<1> HIDE DEF w
<1>6. Within(t, ut) /\ Fields(ut)
  BY <1>3, ResolveWithin, WithinTwice DEF Within
<1>7. Within(t, cw) /\ Fields(cw)
  BY <1>5, ErrorWithin, WithinTwice DEF Within
<1> HIDE DEF cw
<1>8. Within(t, wt) /\ Fields(wt)
  BY <1>7, ResolveWithin, WithinTwice DEF Within
<1>9. Alike(t, x) /\ Fields(x)
  BY <1>5 DEF Within, Alike, Fields
<1> HIDE DEF ut, wt, x
<1>10. /\ Within(t, unsubscribe_and_forget(ut, sid))
       /\ Within(t, unsubscribe_and_forget(wt, sid))
       /\ Within(t, resolve_setup(t, c, "Error"))
  BY <1>6, <1>8, UnsubscribeWithin, ResolveWithin, WithinTwice
<1>11. Alike(t, request_publish(x, c, sid))
  BY <1>9, RequestPublishWithin, WithinAlike, AlikeTwice
<1> QED BY <1>1, <1>6, <1>10, <1>11, WithinAlike

LEMMA AbandonWithin ==
  ASSUME NEW t, Fields(t), NEW sid
  PROVE  Within(t, abandon_request(t, sid))
<1> DEFINE c == t.requests[sid]
           x == drop_request(t, sid)
           y == fail_waiter(x, c)
<1>1. abandon_request(t, sid) \in {forget(y, sid), unsubscribe_and_forget(y, sid)}
  BY DEF abandon_request
<1>2. Within(t, x) /\ Fields(x)
  BY ResolveWithin DEF Within
<1> HIDE DEF x, c
<1>3. Within(t, y) /\ Fields(y)
  BY <1>2, ResolveWithin, WithinNext
<1> HIDE DEF y
<1> QED BY <1>1, <1>3, ForgetWithin, UnsubscribeWithin, WithinTwice

AbandoningWithin == INSTANCE FoldLemmas WITH op <- Abandoning, R <- WithinSet

LEMMA AbandonedWithin ==
  ASSUME NEW k, NEW t, Ledger(k, t), NEW cs
  PROVE  Within(t, abandon_requests(t, cs))
<1> DEFINE S == RequestSids(t, cs)
<1>1. t.state.next_sid \in Nat /\ S \in SUBSET (0..t.state.next_sid)
  <2>1. S \subseteq DOMAIN t.requests
    BY DEF RequestSids
  <2> QED BY <2>1, SidsBounded DEF Ledger
<1>2. abandon_requests(t, cs) = AbandoningWithin!OverNumbers(0, t, S)
  BY Zenon DEF AbandoningWithin!OverNumbers, abandon_requests, OverSids,
               MapThenFoldSet, Max, Abandoning
<1>3. WithinSet(t, {}, t)
  BY LedgerTables, WithinSelf DEF WithinSet, Tables
<1> HIDE DEF S
<1>4. ASSUME NEW s \in SUBSET S, NEW e \in S \ s, NEW f, WithinSet(t, s, f)
      PROVE  WithinSet(t, s \cup {e}, Abandoning(0, f, e))
  <2>1. Within(t, f) /\ Fields(f)
    BY <1>4 DEF WithinSet, Within
  <2>2. Within(f, f) /\ Within(f, abandon_request(f, e))
    BY <2>1, AbandonWithin, WithinSelf
  <2>3. Within(f, Abandoning(0, f, e))
    BY <2>2, Zenon DEF Abandoning, Then
  <2> QED BY <2>1, <2>3, WithinTwice DEF WithinSet
<1>5. AbandoningWithin!NumbersClaim(0, t, t, S)
  BY <1>3, <1>4 DEF AbandoningWithin!NumbersClaim
<1>6. WithinSet(t, S, AbandoningWithin!OverNumbers(0, t, S))
  BY <1>1, <1>5, NaturalInduction, AbandoningWithin!NumbersFold, Zenon
     DEF AbandoningWithin!Inductive
<1> QED BY <1>2, <1>6 DEF WithinSet

-----------------------------------------------------------------------------
(* Commands that add a barrier.                                            *)

\* A barrier and its origin are added together.
LEMMA AddedMatched ==
  ASSUME NEW t, Tables(t), Matched(t), NEW e \in BarrierRecords,
         NEW o \in Origins, o.kind # "Liveness", e.kind = o.kind, e.sid = o.sid,
         NEW u, u.closed = t.closed, u.barriers = Append(t.barriers, e),
         ~t.closed => u.state.pending_pings = Append(t.state.pending_pings, o)
  PROVE  Matched(u)
<1> SUFFICES ASSUME ~t.closed
             PROVE  Matched(u)
  BY DEF Matched
<1> DEFINE p == t.state.pending_pings
<1>1. p \in Seq(Origins) /\ Agree(t.barriers, p) /\ t.barriers \in Seq(BarrierRecords)
  BY DEF Matched, Tables
<1>2. u.state.pending_pings = Append(p, o)
  OBVIOUS
<1> HIDE DEF p
<1>3. Append(p, o) \in Seq(Origins)
  BY <1>1
<1>4. Agree(Append(t.barriers, e), Append(p, o))
  BY <1>1, AgreeAppend
<1> QED BY <1>2, <1>3, <1>4 DEF Matched

\* By way of a transition.
Asks(st, tr, o) ==
  /\ HasPings(tr) /\ Pings(tr) = Append(st.pending_pings, o)
  /\ tr.events \in {<<>>, <<"Draining">>} /\ tr.deliveries = <<>>

\* A barrier added with its origin.
LEMMA AskedMatched ==
  ASSUME NEW t, Tables(t), Matched(t), NEW o \in Origins, NEW tr, Asks(t.state, tr, o),
         NEW u, u = apply_transition(t, tr)
  PROVE  /\ Fields(u)
         /\ u.error # None => Matched(u)
         /\ u.error = None /\ o.kind # "Liveness" =>
              \A e \in BarrierRecords : \A x :
                /\ e.kind = o.kind /\ e.sid = o.sid
                /\ x.closed = u.closed /\ x.barriers = Append(u.barriers, e)
                /\ x.state.pending_pings = u.state.pending_pings
                => Matched(x)
<1>1. PlainTaken(t, tr, u)
  BY PlainTransition DEF Tables, Asks
<1>2. Fields(u) /\ u.closed = t.closed /\ u.barriers = t.barriers
  BY <1>1 DEF PlainTaken
<1>3. u.error # None => Matched(u)
  BY <1>1 DEF PlainTaken, Matched
<1>4. u.error = None /\ ~t.closed
        => u.state.pending_pings = Append(t.state.pending_pings, o)
  BY <1>1 DEF PlainTaken, Asks
<1>5. ASSUME u.error = None, o.kind # "Liveness", NEW e \in BarrierRecords, NEW x,
             e.kind = o.kind, e.sid = o.sid,
             x.closed = u.closed, x.barriers = Append(u.barriers, e),
             x.state.pending_pings = u.state.pending_pings
      PROVE  Matched(x)
  BY <1>2, <1>4, <1>5, AddedMatched
<1> QED BY <1>2, <1>3, <1>5

\* The barrier of a subscription's drain.
LEMMA DrainWithMatched ==
  ASSUME NEW t, Tables(t), Matched(t), NEW c \in Calls, NEW sid \in Nat,
         NEW Output(_)
  PROVE  Matched(DrainWith(t, c, sid, Output))
<1> DEFINE tr == outgoing_drain_subscription(t.state, sid)
           tr2 == [tr EXCEPT !.output = Output(@)]
           u == apply_transition(t, tr2)
           e == [kind |-> "Subscription_drain", call |-> c, sid |-> sid]
           x == [u EXCEPT !.barriers = Append(@, e)]
           f == forget(t, sid)
           g == forget(u, sid)
           r == DrainWith(t, c, sid, Output)
<1>1. \/ r = close_subscription(f, sid)
      \/ tr.error = None /\ u.error # None /\ r = complete_drain(g, c, sid, "Error")
      \/ tr.error = None /\ u.error = None /\ r = x
  BY Zenon DEF DrainWith
<1>2. Fields(t)
  BY DEF Tables
<1>3. Matched(close_subscription(f, sid))
  <2>1. Within(t, f) /\ Fields(f)
    BY <1>2, ForgetWithin DEF Within
  <2> HIDE DEF f
  <2>2. Within(t, close_subscription(f, sid))
    BY <2>1, CloseWithin, WithinTwice
  <2> QED BY <2>2, MatchedWithin
<1>4. ASSUME tr.error = None
      PROVE  Asks(t.state, tr2, SubscriptionDrain(sid))
  <2> DEFINE st1 == [t.state EXCEPT !.draining = @ \cup {sid}]
             st2 == enqueue_ping(st1, SubscriptionDrain(sid))
  <2>1. \A er : er \in Errors => Failure(t.state, er).error # None
    BY NoneAssumption DEF Failure
  <2>2. {"Draining", "Unknown_subscription", PhaseError(t.state)} \subseteq Errors
    BY DEF Errors, PhaseError
  <2>3. tr = Emit(st2, DrainOps(sid))
    BY <1>4, <2>1, <2>2 DEF outgoing_drain_subscription
  <2>4. /\ "pending_pings" \in DOMAIN st2
        /\ st2.pending_pings = Append(t.state.pending_pings, SubscriptionDrain(sid))
    BY <1>2 DEF Fields, enqueue_ping
  <2> HIDE DEF st2, tr
  <2>5. /\ HasPings(tr) /\ tr.events = <<>> /\ tr.deliveries = <<>>
        /\ Pings(tr) = Append(t.state.pending_pings, SubscriptionDrain(sid))
    BY <2>3, <2>4, EmitPings
  <2> QED BY <2>5 DEF Asks, HasPings, Pings
<1>5. /\ SubscriptionDrain(sid) \in Origins /\ e \in BarrierRecords
      /\ SubscriptionDrain(sid).kind = "Subscription_drain"
      /\ SubscriptionDrain(sid).sid = sid
      /\ e.kind = "Subscription_drain" /\ e.sid = sid
  BY DEF SubscriptionDrain, Origins, BarrierRecords
<1> HIDE DEF tr2, e, tr
<1>6. ASSUME tr.error = None
      PROVE  /\ Fields(u) /\ (u.error # None => Matched(u))
             /\ u.error = None => Matched(x)
  <2>1. Asks(t.state, tr2, SubscriptionDrain(sid))
    BY <1>4, <1>6
  <2>2. /\ Fields(u) /\ (u.error # None => Matched(u))
        /\ u.error = None =>
             \A y : /\ y.closed = u.closed /\ y.barriers = Append(u.barriers, e)
                    /\ y.state.pending_pings = u.state.pending_pings
                    => Matched(y)
    BY <1>5, <2>1, AskedMatched
  <2> HIDE DEF u
  <2>3. /\ x.closed = u.closed /\ x.barriers = Append(u.barriers, e)
        /\ x.state.pending_pings = u.state.pending_pings
    BY <2>2 DEF Fields
  <2> HIDE DEF x
  <2> QED BY <2>2, <2>3
<1> HIDE DEF u, x
<1>7. ASSUME tr.error = None, u.error # None
      PROVE  Matched(complete_drain(g, c, sid, "Error"))
  <2>1. Within(u, g) /\ Fields(g) /\ Matched(u)
    BY <1>6, <1>7, ForgetWithin DEF Within
  <2> HIDE DEF g
  <2>2. Within(u, complete_drain(g, c, sid, "Error"))
    BY <2>1, CompleteWithin, WithinTwice
  <2> QED BY <2>1, <2>2, MatchedWithin
<1> HIDE DEF f, g
<1> QED BY <1>1, <1>3, <1>6, <1>7 DEF r

LEMMA DrainSubscriptionMatched ==
  ASSUME NEW t, Tables(t), Matched(t), NEW c \in Calls, NEW sid \in Nat
  PROVE  /\ Matched(apply_drain_subscription(t, c, sid))
         /\ Matched(resume_subscription_drain(t, c, sid))
         /\ Matched(cancel_subscription_drain(t, sid))
<1> DEFINE x == arm_subscription_drain(t, c, sid)
<1>1. Fields(t)
  BY DEF Tables
<1>2. Matched(fail_pending_drain(t, sid))
      /\ Matched(complete_drain_waiter(t, c, sid, "Error"))
  BY <1>1, CloseWithin, CompleteWithin, MatchedWithin
<1>3. Alike(t, x)
  BY <1>1 DEF arm_subscription_drain, Alike, Fields
<1>4. Tables(x)
  <2>1. PICK n \in Nat : /\ t.subscriptions \subseteq 0..n
                         /\ DOMAIN t.subscription_drains \subseteq 0..n
    BY DEF Tables
  <2>2. PICK m \in Nat : n <= m /\ sid <= m
    <3>1. CASE n <= sid
      BY <3>1
    <3>2. CASE sid <= n
      BY <3>2
    <3> QED BY <3>1, <3>2
  <2>3. /\ x.subscriptions = t.subscriptions /\ x.work = t.work
        /\ x.barriers = t.barriers /\ Fields(x)
        /\ DOMAIN x.subscription_drains = DOMAIN t.subscription_drains \cup {sid}
    BY <1>1 DEF arm_subscription_drain, Fields, With
  <2> HIDE DEF x
  <2>4. x.subscriptions \subseteq 0..m /\ DOMAIN x.subscription_drains \subseteq 0..m
    BY <2>1, <2>2, <2>3, SMTT(30)
  <2> QED BY <2>3, <2>4 DEF Tables
<1> HIDE DEF x
<1>5. Matched(x)
  BY <1>3, MatchedAlike
<1>6. Matched(DrainWith(x, c, sid, LAMBDA output : output))
  BY <1>4, <1>5, DrainWithMatched
<1>7. Matched(DrainWith(t, c, sid, LAMBDA output : <<>>))
  BY DrainWithMatched
<1>8. Matched(apply_drain_subscription(t, c, sid))
  BY <1>2, <1>5, <1>6, Zenon DEF apply_drain_subscription, x
<1>9. Matched(resume_subscription_drain(t, c, sid))
  BY <1>2, <1>7, Zenon DEF resume_subscription_drain
<1>10. Matched(cancel_subscription_drain(t, sid))
  BY <1>2 DEF cancel_subscription_drain
<1> QED BY <1>8, <1>9, <1>10

LEMMA FlushAsks ==
  ASSUME NEW st, "pending_pings" \in DOMAIN st,
         NEW tr, tr = outgoing_flush(st), tr.error = None
  PROVE  Asks(st, tr, Origin("Flush"))
<1> DEFINE st2 == enqueue_ping(st, Origin("Flush"))
<1>1. Failure(st, "Closed").error # None
  BY NoneAssumption DEF Failure, Errors
<1>2. tr = Emit(st2, << Ping >>)
  BY <1>1 DEF outgoing_flush
<1>3. /\ "pending_pings" \in DOMAIN st2
      /\ st2.pending_pings = Append(st.pending_pings, Origin("Flush"))
  BY DEF enqueue_ping
<1> HIDE DEF st2
<1> QED BY <1>2, <1>3, EmitPings DEF Asks

LEMMA DrainAsks ==
  ASSUME NEW st, "pending_pings" \in DOMAIN st,
         NEW tr, tr = outgoing_drain(st), tr.error = None
  PROVE  Asks(st, tr, Origin("Drain"))
<1> DEFINE st1 == [st EXCEPT !.phase = "Draining"]
           st2 == enqueue_ping(st1, Origin("Drain"))
           output == Append(DrainUnsubs(st), Ping)
<1>1. Failure(st, PhaseError(st)).error # None
  BY NoneAssumption DEF Failure, Errors, PhaseError
<1>2. tr = Transition(st2, output, <<"Draining">>, <<>>, None)
  BY <1>1 DEF outgoing_drain
<1>3. /\ "pending_pings" \in DOMAIN st2
      /\ st2.pending_pings = Append(st.pending_pings, Origin("Drain"))
  BY DEF enqueue_ping
<1> HIDE DEF st2, output
<1>4. tr.events = <<"Draining">> /\ tr.deliveries = <<>>
  BY <1>2 DEF Transition
<1>5. HasPings(tr) /\ Pings(tr) = st2.pending_pings
  BY <1>2, <1>3, EmitPings
<1> QED BY <1>3, <1>4, <1>5 DEF Asks

\* The barrier of a flush or of the drain.
LEMMA QueueMatched ==
  ASSUME NEW u, Fields(u), NEW kind, NEW c,
         NEW e, e = [kind |-> kind, call |-> c, sid |-> 0]
  PROVE  LET x == QueueBarrier(u, kind, c)
         IN  /\ Fields(x) /\ x.closed = u.closed /\ x.barriers = Append(u.barriers, e)
             /\ x.state.pending_pings = u.state.pending_pings
             /\ x.work = u.work /\ x.subscriptions = u.subscriptions
             /\ x.subscription_drains = u.subscription_drains
BY DEF QueueBarrier, Accept, Fields

LEMMA BarrierOf ==
  ASSUME NEW kind \in Barriers, NEW c \in Calls
  PROVE  LET e == [kind |-> kind, call |-> c, sid |-> 0]
         IN  /\ e \in BarrierRecords /\ Origin(kind) \in Origins
             /\ Origin(kind).kind # "Liveness"
             /\ e.kind = Origin(kind).kind /\ e.sid = Origin(kind).sid
BY DEF BarrierRecords, Origin, Origins, Barriers

LEMMA AskedQueued ==
  ASSUME NEW t, Tables(t), Matched(t), NEW kind \in Barriers, NEW c \in Calls,
         NEW tr, Asks(t.state, tr, Origin(kind)),
         NEW u, u = apply_transition(t, tr)
  PROVE  /\ Fields(u) /\ (u.error # None => Matched(u))
         /\ u.error = None => Matched(QueueBarrier(u, kind, c))
<1> DEFINE e == [kind |-> kind, call |-> c, sid |-> 0]
           x == QueueBarrier(u, kind, c)
<1>1. /\ e \in BarrierRecords /\ Origin(kind) \in Origins
      /\ Origin(kind).kind # "Liveness"
      /\ e.kind = Origin(kind).kind /\ e.sid = Origin(kind).sid
  BY BarrierOf
<1>2. /\ Fields(u) /\ (u.error # None => Matched(u))
      /\ u.error = None =>
           \A y : /\ y.closed = u.closed /\ y.barriers = Append(u.barriers, e)
                  /\ y.state.pending_pings = u.state.pending_pings
                  => Matched(y)
  BY <1>1, AskedMatched, SMTT(30)
<1>3. /\ x.closed = u.closed /\ x.barriers = Append(u.barriers, e)
      /\ x.state.pending_pings = u.state.pending_pings
  BY <1>2, QueueMatched
<1> HIDE DEF e
<1> QED BY <1>2, <1>3

LEMMA FlushMatched ==
  ASSUME NEW t, Tables(t), Matched(t), NEW c \in Calls
  PROVE  Matched(apply_flush(t, c)) /\ Matched(apply_reconnect_flush(t, c))
<1> DEFINE tr == outgoing_flush(t.state)
           u == apply_transition(t, tr)
           x == [t EXCEPT !.reconnect_pending = @ \o tr.output, !.state = tr.state]
           e == [kind |-> "Flush", call |-> c, sid |-> 0]
<1>1. Fields(t) /\ "Flush" \in Barriers /\ "pending_pings" \in DOMAIN t.state
  BY DEF Tables, Fields, Barriers
<1>2. Within(t, fail_waiter(t, c)) /\ Matched(fail_waiter(t, c))
  BY <1>1, ResolveWithin, MatchedWithin
<1>3. /\ \/ apply_flush(t, c) = fail_waiter(t, c)
         \/ /\ tr.error = None /\ u.error # None
            /\ apply_flush(t, c) = fail_waiter(u, c)
         \/ /\ tr.error = None /\ u.error = None
            /\ apply_flush(t, c) = QueueBarrier(u, "Flush", c)
      /\ \/ apply_reconnect_flush(t, c) = fail_waiter(t, c)
         \/ /\ tr.error = None
            /\ apply_reconnect_flush(t, c) = QueueBarrier(x, "Flush", c)
  BY Zenon DEF apply_flush, apply_reconnect_flush, ApplyFor
<1>4. tr.error = None => Asks(t.state, tr, Origin("Flush"))
  BY <1>1, FlushAsks
<1> HIDE DEF tr
<1>5. ASSUME tr.error = None
      PROVE  /\ Fields(u) /\ (u.error # None => Matched(u))
             /\ u.error = None => Matched(QueueBarrier(u, "Flush", c))
  BY <1>1, <1>4, <1>5, AskedQueued
<1> HIDE DEF u
<1>6. ASSUME tr.error = None, u.error # None
      PROVE  Matched(fail_waiter(u, c))
  BY <1>5, <1>6, ResolveWithin, MatchedWithin
<1>7. ASSUME tr.error = None
      PROVE  Matched(QueueBarrier(x, "Flush", c))
  <2> DEFINE y == QueueBarrier(x, "Flush", c)
  <2>1. /\ Fields(x) /\ x.closed = t.closed /\ x.barriers = t.barriers
        /\ x.state.pending_pings = Append(t.state.pending_pings, Origin("Flush"))
    BY <1>1, <1>4, <1>7 DEF Asks, HasPings, Pings, Fields
  <2> HIDE DEF x
  <2>2. Fields(x)
    BY <2>1
  <2>3. /\ y.closed = x.closed /\ y.barriers = Append(x.barriers, e)
        /\ y.state.pending_pings = x.state.pending_pings
    BY ONLY <2>2, QueueMatched
  <2>4. /\ e \in BarrierRecords /\ Origin("Flush") \in Origins
        /\ Origin("Flush").kind # "Liveness"
        /\ e.kind = Origin("Flush").kind /\ e.sid = Origin("Flush").sid
    BY <1>1, BarrierOf
  <2> HIDE DEF y, e
  <2>5. Matched(y)
    BY <2>1, <2>3, <2>4, AddedMatched
  <2> QED BY <2>5 DEF y
<1> QED BY <1>2, <1>3, <1>5, <1>6, <1>7

LEMMA DrainMatched ==
  ASSUME NEW k, NEW t, Sound(k, t), NEW c \in Calls
  PROVE  Matched(apply_drain(t, c))
<1> DEFINE tr == outgoing_drain(t.state)
           u == apply_transition(t, tr)
           x == QueueBarrier(u, "Drain", c)
           y == close_subscriptions(x, u.subscriptions)
<1>1. /\ Tables(t) /\ Fields(t) /\ Shape(t) /\ Matched(t) /\ "Drain" \in Barriers
      /\ "pending_pings" \in DOMAIN t.state
  BY SoundTables DEF Fields, Barriers
<1>2. \/ apply_drain(t, c) = fail_waiter(t, c)
      \/ /\ tr.error = None /\ u.error # None
         /\ apply_drain(t, c) = fail_waiter(u, c)
      \/ /\ tr.error = None /\ u.error = None
         /\ apply_drain(t, c) = fail_requests(y)
  BY Zenon DEF apply_drain, ApplyFor
<1>3. Matched(fail_waiter(t, c))
  BY <1>1, ResolveWithin, MatchedWithin
<1>4. tr.error = None => Asks(t.state, tr, Origin("Drain"))
  BY <1>1, DrainAsks
<1>5. Ledger(k, t) /\ CoreStep(t.state, tr)
  BY <1>1, DrainPlain DEF PlainStep, Sound, Shape
<1> HIDE DEF tr
<1>6. ASSUME tr.error = None
      PROVE  /\ Fields(u) /\ (u.error # None => Matched(u))
             /\ u.error = None => Matched(x)
  BY <1>1, <1>4, <1>6, AskedQueued
<1>7. \E n \in Nat : u.subscriptions \in SUBSET (0..n)
  <2>1. Tables(u)
    BY <1>5, TransitionLedger, LedgerTables
  <2> QED BY <2>1 DEF Tables
<1> HIDE DEF u
<1>8. ASSUME tr.error = None, u.error = None
      PROVE  Matched(fail_requests(y))
  <2>1. Fields(x) /\ Matched(x)
    BY <1>6, <1>8, QueueMatched
  <2> HIDE DEF x
  <2>2. Within(x, y) /\ Fields(y)
    BY <1>7, <2>1, CloseAllWithin DEF Within
  <2> HIDE DEF y
  <2>3. Within(x, fail_requests(y))
    BY <2>2, FailRequestsWithin, WithinTwice
  <2> QED BY <2>1, <2>3, MatchedWithin
<1>9. ASSUME tr.error = None, u.error # None
      PROVE  Matched(fail_waiter(u, c))
  BY <1>6, <1>9, ResolveWithin, MatchedWithin
<1> HIDE DEF y
<1> QED BY <1>2, <1>3, <1>8, <1>9

LEMMA CloseCommandMatched ==
  ASSUME NEW k, NEW t, Sound(k, t), NEW c
  PROVE  /\ Matched(apply_close(t, c)) /\ Matched(finish(resolve_unit(t, c, "Ok")))
         /\ Matched(finish(fail_waiter(t, c)))
<1> DEFINE tr == outgoing_close(t.state)
           u == apply_transition(t, tr)
<1>1. Tables(t) /\ Fields(t) /\ Shape(t) /\ Matched(t)
  BY SoundTables
<1>2. \/ apply_close(t, c) = finish(resolve_unit(t, c, "Ok"))
      \/ apply_close(t, c) = fail_waiter(t, c)
      \/ apply_close(t, c) = finish(resolve_unit(u, c, "Ok"))
      \/ /\ tr.error = None /\ apply_close(t, c) = fail_waiter(u, c)
  BY Zenon DEF apply_close, ApplyFor
<1>3. ASSUME NEW x, Tables(x)
      PROVE  Matched(finish(resolve_unit(x, c, "Ok")))
             /\ Matched(finish(fail_waiter(x, c)))
  <2>1. Within(x, resolve_unit(x, c, "Ok")) /\ Within(x, fail_waiter(x, c))
    BY <1>3, ResolveWithin DEF Tables
  <2>2. Tables(resolve_unit(x, c, "Ok")) /\ Tables(fail_waiter(x, c))
    BY <1>3, <2>1, TablesWithin
  <2> QED BY <2>2, FinishMatched
<1>4. Ledger(k, t) /\ CoreStep(t.state, tr)
  BY <1>1, ClosePlain DEF PlainStep, Sound, Shape
<1>5. tr.error = None => tr = closed_transition(t.state)
  <2>1. Failure(t.state, "Closed").error # None
    BY NoneAssumption DEF Failure, Errors
  <2> QED BY <2>1 DEF outgoing_close
<1> HIDE DEF tr
<1>6. Tables(u)
  BY <1>4, TransitionLedger, LedgerTables
<1>7. tr.error = None => Fields(u) /\ Matched(u)
  BY <1>1, <1>5, CloseMatched
<1> HIDE DEF u
<1>8. tr.error = None => Matched(fail_waiter(u, c))
  BY <1>7, ResolveWithin, MatchedWithin
<1>9. Matched(fail_waiter(t, c))
  BY <1>1, ResolveWithin, MatchedWithin
<1> QED BY <1>1, <1>2, <1>3, <1>6, <1>8, <1>9

\* Every command, by its kind.
LEMMA CommandMatched ==
  ASSUME NEW k, NEW t, Tables(t), Matched(t), NEW e \in Commands,
         e.kind \notin {Dr, "Cancel_drain"} => Ledger(k, t),
         NEW u, u = apply_command(t, e)
  PROVE  Matched(u)
<1> DEFINE c == e.call
           sid == e.sid
           kind == e.kind
<1>1. kind \in AllKinds \cup OwnKinds /\ c \in Calls /\ sid \in Nat /\ Fields(t)
  BY DEF Commands, Tables
<1>2. CASE kind \in {Dr, "Resume", "Cancel_drain"}
  <2>1. u \in {apply_drain_subscription(t, c, sid),
               resume_subscription_drain(t, c, sid),
               cancel_subscription_drain(t, sid)}
    BY <1>2 DEF apply_command, Dr
  <2> QED BY <1>1, <2>1, DrainSubscriptionMatched
<1>3. ASSUME kind \notin {Dr, "Cancel_drain"}
      PROVE  Sound(k, t)
  BY <1>3 DEF Sound
<1>4. CASE kind = "Publish"
  <2>1. u \in {enqueue_reconnect_publish(t, c), apply_publish(t, c)}
    BY <1>4 DEF apply_command
  <2> QED BY <1>1, <2>1, PublishWithin, BufferPublishWithin, MatchedWithin
<1>5. CASE kind \in {"Subscribe", "Ephemeral"}
  <2>1. u = apply_subscribe(t, c, Subject, TRUE)
        \/ u = apply_subscribe(t, c, Subject, FALSE)
    BY <1>5 DEF apply_command
  <2> QED BY <1>1, <2>1, SubscribeAlike, MatchedAlike
<1>6. CASE kind \in {"Unsubscribe", "Auto_unsubscribe"}
  <2>1. u \in {apply_unsubscribe(t, c, sid), apply_auto_unsubscribe(t, c, sid)}
    BY <1>6 DEF apply_command
  <2> QED BY <1>1, <2>1, EndedWithin, MatchedWithin
<1>7. CASE kind = "Request"
  <2>1. u = apply_request(t, c)
    BY <1>7 DEF apply_command
  <2> QED BY <1>1, <2>1, RequestAlike, MatchedAlike
<1>8. CASE kind = "Cancel_request"
  <2>1. u = abandon_requests(t, {c}) /\ Sound(k, t)
    BY <1>3, <1>8 DEF apply_command, Dr
  <2> QED BY <2>1, AbandonedWithin, MatchedWithin DEF Sound
<1>9. CASE kind = "Flush"
  <2>1. u \in {apply_reconnect_flush(t, c), apply_flush(t, c)}
    BY <1>9 DEF apply_command
  <2> QED BY <1>1, <2>1, FlushMatched
<1>10. CASE kind = "Drain"
  <2>1. u \in {finish(fail_waiter(t, c)), apply_drain(t, c)} /\ Sound(k, t)
    BY <1>3, <1>10 DEF apply_command, Dr
  <2> QED BY <1>1, <2>1, DrainMatched, CloseCommandMatched
<1>11. CASE kind = "Close"
  <2>1. u \in {finish(resolve_unit(t, c, "Ok")), apply_close(t, c)} /\ Sound(k, t)
    BY <1>3, <1>11 DEF apply_command, Dr
  <2> QED BY <1>1, <2>1, CloseCommandMatched
<1> QED BY <1>1, <1>2, <1>4, <1>5, <1>6, <1>7, <1>8, <1>9, <1>10, <1>11
        DEF AllKinds, OwnKinds, Dr

-----------------------------------------------------------------------------
(* Timers.                                                                 *)

ExpiringWithin == INSTANCE FoldLemmas WITH op <- Expiring, R <- WithinSet

LEMMA ExpireDrainsWithin ==
  ASSUME NEW t, Tables(t), NEW due
  PROVE  Within(t, expire_subscription_drains(t, due))
<1> DEFINE S == {sid \in DOMAIN t.subscription_drains :
                   t.subscription_drains[sid] \in due}
<1>1. \E n \in Nat : S \in SUBSET (0..n)
  BY DEF Tables
<1>2. expire_subscription_drains(t, due) = ExpiringWithin!OverNumbers(0, t, S)
  BY Zenon DEF ExpiringWithin!OverNumbers, expire_subscription_drains, OverSids,
               MapThenFoldSet, Max, Expiring
<1> HIDE DEF S
<1>3. ASSUME NEW s \in SUBSET S, NEW e \in S \ s, NEW f, WithinSet(t, s, f)
      PROVE  WithinSet(t, s \cup {e}, Expiring(0, f, e))
  <2>1. Within(t, f) /\ Fields(f)
    BY <1>3 DEF WithinSet, Within
  <2>2. Within(f, Expiring(0, f, e))
    BY <2>1, CloseWithin, CompleteWithin, WithinSelf, Zenon DEF Expiring
  <2> QED BY <2>1, <2>2, WithinTwice DEF WithinSet
<1>4. WithinSet(t, {}, t)
  BY WithinSelf DEF WithinSet, Tables
<1>5. ExpiringWithin!NumbersClaim(0, t, t, S)
  BY <1>3, <1>4 DEF ExpiringWithin!NumbersClaim
<1>6. WithinSet(t, S, ExpiringWithin!OverNumbers(0, t, S))
  BY <1>1, <1>5, NaturalInduction, ExpiringWithin!NumbersFold, Zenon
     DEF ExpiringWithin!Inductive
<1> QED BY <1>2, <1>6 DEF WithinSet

\* Every barrier that keeps its place is kept, in its place.
AllKept(h, i, kept) ==
  /\ kept \in Seq(BarrierRecords) /\ Len(kept) = i
  /\ \A j \in 1..i : kept[j] = h[j]
KeepingAll == INSTANCE FoldLemmas WITH op <- Retaining, R <- AllKept

\* Without a drain that is due, every barrier keeps its place: the ones that
\* timed out wait for their PONG.
LEMMA RetainedAll ==
  ASSUME NEW b \in Seq(BarrierRecords), NEW due,
         \A i \in DOMAIN b : keeps_place(b[i], due)
  PROVE  retained(b, due) = b
<1> DEFINE r == retained(b, due)
<1>1. r = KeepingAll!OverItems(due, <<>>, b)
  BY Zenon DEF KeepingAll!OverItems, retained, FoldLeft, MapThenFoldSet, Max,
               Retaining
<1>2. DOMAIN b = 1..Len(b) /\ \A i \in 1..Len(b) : b[i] \in BarrierRecords
  OBVIOUS
<1>3. ASSUME NEW i \in 1..Len(b), NEW kept, AllKept(b, i - 1, kept)
      PROVE  AllKept(b, i, Retaining(due, kept, b[i]))
  <2>1. Retaining(due, kept, b[i]) = Append(kept, b[i])
    BY <1>2 DEF Retaining
  <2>2. kept \in Seq(BarrierRecords) /\ Len(kept) = i - 1 /\ i \in Nat
        /\ \A j \in 1..i - 1 : kept[j] = b[j]
    BY <1>3 DEF AllKept
  <2> DEFINE e == b[i]
  <2>3. e \in BarrierRecords
    BY <1>2
  <2> HIDE DEF e
  <2>4. Append(kept, e) \in Seq(BarrierRecords) /\ Len(Append(kept, e)) = i
    BY <2>2, <2>3
  <2>5. \A j \in 1..i : j # i => j \in 1..i - 1
    BY <2>2
  <2>6. \A j \in 1..i : Append(kept, e)[j] = IF j = i THEN e ELSE kept[j]
    BY <2>2, <2>3
  <2>7. \A j \in 1..i : Append(kept, e)[j] = b[j]
    BY <2>2, <2>5, <2>6 DEF e
  <2> QED BY <2>1, <2>4, <2>7 DEF AllKept, e
<1>4. AllKept(b, 0, <<>>)
  BY DEF AllKept
<1>5. KeepingAll!ItemsClaim(due, b, <<>>, b)
  BY <1>3, <1>4 DEF KeepingAll!ItemsClaim
<1>6. AllKept(b, Len(b), r)
  BY <1>1, <1>5, NaturalInduction, KeepingAll!SequenceFold, Zenon
     DEF KeepingAll!Inductive
<1> HIDE DEF r
<1>7. r \in Seq(BarrierRecords) /\ Len(r) = Len(b) /\ \A j \in 1..Len(b) : r[j] = b[j]
  BY <1>6 DEF AllKept
<1>8. r = b
  BY <1>7
<1> QED BY <1>8 DEF r

LEMMA ExpireBarriersAlike ==
  ASSUME NEW t, Tables(t), NEW due,
         \A i \in DOMAIN t.barriers : keeps_place(t.barriers[i], due)
  PROVE  Alike(t, expire_barriers(t, due))
<1> DEFINE late == {b.call : b \in {c \in Range(t.barriers) :
                                      /\ c.kind # "Subscription_drain"
                                      /\ c.call \in due \ t.completed}}
           x == fail_waiters(t, late)
           u == [x EXCEPT !.barriers = t.barriers, !.completed = @ \cup late]
<1>1. Within(t, x) /\ Fields(x)
  BY ResolveWithin DEF Tables, Within
<1>2. retained(x.barriers, due) = t.barriers
  <2>1. x.barriers = t.barriers
    BY <1>1 DEF Within
  <2>2. retained(t.barriers, due) = t.barriers
    BY RetainedAll DEF Tables
  <2> QED BY <2>1, <2>2
<1>3. expire_barriers(t, due)
        = [x EXCEPT !.barriers = retained(@, due), !.completed = @ \cup late]
  BY Zenon DEF expire_barriers
<1> HIDE DEF late, x
<1>4. expire_barriers(t, due) = u
  BY <1>2, <1>3
<1>5. Alike(t, u)
  BY <1>1 DEF Within, Alike, Fields
<1> QED BY <1>4, <1>5

LEMMA TimerMatched ==
  ASSUME NEW t, Tables(t), Matched(t)
  PROVE  Matched(apply_transition(t, timer(t.state)))
<1> DEFINE st == t.state
           st2 == [touch(st) EXCEPT !.pending_liveness = @ + 1]
           st3 == enqueue_ping(st2, Origin("Liveness"))
           e == empty_transition(st)
           tr == Emit(st3, << Ping >>)
<1>1. Fields(t) /\ "pending_pings" \in DOMAIN st
  BY DEF Tables, Fields
<1>2. timer(st) \in {e, closed_transition(st), tr}
  BY DEF timer
<1>3. Matched(apply_transition(t, e))
  <2>1. Untouched(st, e)
    BY <1>1, UntouchedEmit DEF empty_transition
  <2> QED BY <1>1, <2>1, UntouchedWithin, MatchedWithin
<1>4. Matched(apply_transition(t, closed_transition(st)))
  BY <1>1, CloseMatched
<1>5. Matched(apply_transition(t, tr))
  <2> DEFINE p == st.pending_pings
             o == Origin("Liveness")
  <2>1. "pending_pings" \in DOMAIN st2 /\ st2.pending_pings = p
    <3>1. "pending_pings" \in DOMAIN touch(st) /\ touch(st).pending_pings = p
      BY <1>1, TouchPings
    <3> QED BY <3>1
  <2> HIDE DEF st2
  <2>2. "pending_pings" \in DOMAIN st3 /\ st3.pending_pings = Append(p, o)
    BY <2>1 DEF enqueue_ping
  <2> HIDE DEF st3
  <2>3. /\ HasPings(tr) /\ Pings(tr) = Append(p, o)
        /\ tr.events = <<>> /\ tr.deliveries = <<>>
    BY <2>2, EmitPings
  <2>4. o \in Origins /\ o.kind = "Liveness"
    BY DEF Origin, Origins
  <2> HIDE DEF tr, o, p
  <2>5. p \in Seq(Origins) =>
          /\ Append(p, o) \in Seq(Origins)
          /\ \A b \in Seq(BarrierRecords) : Agree(b, p) => Agree(b, Append(p, o))
    BY <2>4, AgreeLiveness
  <2>6. Keeps(st, tr)
    BY <2>3, <2>5, OtherEvents DEF Keeps, p
  <2> QED BY <2>6, KeepsMatched
<1> HIDE DEF e, tr
<1> QED BY <1>2, <1>3, <1>4, <1>5

LEMMA ExpireMatched ==
  ASSUME NEW k, NEW t, Sound(k, t), NEW due, NEW u, u = expire(t, due)
  PROVE  Matched(u)
<1> DEFINE q == expire_subscription_drains(t, due)
           y == expire_barriers(q, due)
           w == abandon_requests(y, due)
           tr == timer(w.state)
           z == apply_transition(w, tr)
           x == Then(w, LAMBDA v2 : apply_transition(v2, timer(v2.state)))
<1>1. /\ Tables(t) /\ Matched(t) /\ Ledger(k, t)
      /\ t.barriers \in Seq(BarrierRecords)
  BY SoundTables DEF Sound, Tables
<1>2. \/ u = finish(t) \/ u = finish(y) \/ u = finish(x)
      \/ DrainBarriers(t, due) = {} /\ u = x
  BY Zenon DEF expire
<1>3. x = w \/ x = z
  BY Zenon DEF Then
<1> HIDE DEF x
<1>4. Ledger(k, q) /\ Within(t, q)
  BY <1>1, ExpireDrainsLedger, ExpireDrainsWithin
<1> HIDE DEF q
<1>5. Ledger(k, y)
  BY <1>4, ExpireBarriersLedger
<1>6. DrainBarriers(t, due) = {} => Alike(q, y)
  <2>1. ASSUME DrainBarriers(t, due) = {}, NEW i \in DOMAIN t.barriers
        PROVE  keeps_place(t.barriers[i], due)
    <3>1. t.barriers[i] \in Range(t.barriers)
      BY DEF Range
    <3> QED BY <2>1, <3>1 DEF DrainBarriers, keeps_place
  <2>2. Tables(q) /\ q.barriers = t.barriers
    BY <1>4, LedgerTables DEF Within
  <2> HIDE DEF y
  <2> QED BY <2>1, <2>2, ExpireBarriersAlike DEF y
<1> HIDE DEF y
<1>7. Ledger(k, w) /\ Within(y, w)
  BY <1>5, AbandonedLedger, AbandonedWithin
<1> HIDE DEF w
<1>8. CoreStep(w.state, tr)
  BY <1>7, LedgerShape, TimerPlain DEF PlainStep
<1>9. Matched(w) => Matched(z)
  BY <1>7, LedgerTables, TimerMatched
<1> HIDE DEF tr
<1>10. Ledger(k, z)
  BY <1>7, <1>8, TransitionLedger
<1> HIDE DEF z
<1>11. Matched(finish(t)) /\ Matched(finish(y)) /\ Matched(finish(x))
  BY <1>1, <1>3, <1>5, <1>7, <1>10, LedgerTables, FinishMatched
<1>12. DrainBarriers(t, due) = {} => Matched(x)
  <2>1. Matched(q)
    BY <1>1, <1>4, MatchedWithin
  <2>2. DrainBarriers(t, due) = {} => Matched(w)
    BY <1>6, <1>7, <2>1, MatchedAlike, MatchedWithin
  <2> QED BY <1>3, <1>9, <2>2
<1> QED BY <1>2, <1>11, <1>12

-----------------------------------------------------------------------------
(* Steps.                                                                  *)

LEMMA StartSound ==
  ASSUME Inv, Matched(conn), NEW t \in Starts
  PROVE  /\ Sound(call, t) /\ Tables(t) /\ Fields(t) /\ Matched(t)
         /\ t.work = conn.work /\ t.barriers = conn.barriers
<1>1. PICK w, d, f : t = Start(w, d, f)
  BY DEF Starts
<1>2. Ledger(call, t) /\ t.work = conn.work /\ t.barriers = conn.barriers
  BY StartLedger DEF Inv
<1>3. Fields(conn)
  BY LedgerTables DEF Inv, Tables
<1>4. Alike(conn, t)
  BY <1>1, <1>3 DEF Alike, Fields, Start
<1>5. Matched(t)
  BY <1>4, MatchedAlike
<1> QED BY <1>2, <1>5, SoundTables DEF Sound

LEMMA CommitMatched ==
  ASSUME NEW t, Fields(t), Matched(t), NEW rest, Commit(t, rest)
  PROVE  Matched(conn)'
<1>1. conn' = Settled(t)
  BY Zenon DEF Commit
<1>2. Alike(t, conn')
  BY <1>1 DEF Alike, Fields, Settled
<1>3. \A u : Alike(t, u) => Matched(u)
  BY MatchedAlike
<1>4. \A u : u = conn' => Matched(u)
  BY <1>2, <1>3
<1> QED BY <1>4

\* The turns of the owner, one for each disjunct of Next.
LEMMA CommandTurnMatched ==
  ASSUME Inv, Matched(conn), OwnerCommand
  PROVE  Matched(conn)'
<1>1. PICK q \in Starts :
        Commit(EndTurn(apply_command([q EXCEPT !.work = Tail(@)],
                                     Head(conn.work))), s2c)
  BY Zenon DEF OwnerCommand
<1> DEFINE x == [q EXCEPT !.work = Tail(@)]
           e == Head(conn.work)
           y == apply_command(x, e)
           z == EndTurn(y)
<1>2. conn.work # <<>> /\ Ledger(call, conn)
  BY DEF OwnerCommand, Inv
<1>3. Commit(z, s2c)
  BY <1>1
<1>4. conn.work \in Seq(Commands)
  BY <1>2 DEF Ledger, LedgerOf, WorkInv
<1>5. /\ Tail(conn.work) = Rest(conn.work) /\ e = conn.work[1]
      /\ Tail(conn.work) \in Seq(Commands) /\ e \in Commands
  <2>1. Tail(conn.work) = Rest(conn.work) /\ Head(conn.work) = conn.work[1]
    BY <1>2, <1>4, RestIs
  <2>2. Tail(conn.work) \in Seq(Commands)
    BY <1>2, <1>4, TailOf
  <2>3. Len(conn.work) \in Nat /\ Len(conn.work) >= 1
    BY <1>2, <1>4, TailOf
  <2>4. conn.work[1] \in Commands
    BY <1>4, <2>3
  <2> QED BY <2>1, <2>2, <2>4
<1> HIDE DEF e
<1>6. /\ Sound(call, q) /\ Tables(q) /\ Fields(q) /\ Matched(q) /\ Ledger(call, q)
      /\ q.work = conn.work /\ q.barriers = conn.barriers
  BY StartSound DEF Sound
<1>7. SameFields(q, x) /\ x.work = Rest(conn.work) /\ x.barriers = q.barriers
  BY <1>5, <1>6, LedgerShape DEF SameFields, Shape
<1>8. Alike(q, x) /\ Tables(x)
  <2>1. /\ Alike(q, x) /\ Fields(x) /\ x.work = Tail(conn.work)
        /\ x.barriers = q.barriers /\ x.subscriptions = q.subscriptions
        /\ x.subscription_drains = q.subscription_drains
    BY <1>6 DEF Alike, Fields
  <2> HIDE DEF x
  <2>2. Tables(x)
    BY <1>5, <1>6, <2>1 DEF Tables
  <2> QED BY <2>1, <2>2
<1> HIDE DEF x
<1>9. Matched(x)
  BY <1>6, <1>8, MatchedAlike
<1>10. LedgerOf(call, conn.work, x.barriers, x)
  BY <1>6, <1>7, SameLedger DEF Ledger
<1>11. e.kind \notin {Dr, "Cancel_drain"} => Ledger(call, x)
  BY <1>2, <1>5, <1>7, <1>10, Popped DEF Ledger
<1>12. Ledger(call, y)
  BY <1>2, <1>5, <1>7, <1>10, CommandLedger
<1>13. Matched(y)
  BY <1>5, <1>8, <1>9, <1>11, CommandMatched
<1> HIDE DEF y
<1>14. Matched(z) /\ Fields(z)
  BY <1>12, <1>13, EndTurnMatched, EndTurnLedger, LedgerTables DEF Sound, Tables
<1> HIDE DEF z
<1> QED BY <1>3, <1>14, CommitMatched

LEMMA TurnMatched ==
  ASSUME NEW t, Sound(call, t), NEW rest,
         \/ Commit(EndTurn(t), rest) \/ Commit(OrFinish(t), rest)
         \/ Commit(finish(t), rest) \/ Commit(t, rest)
  PROVE  Matched(conn)'
<1>1. Matched(EndTurn(t)) /\ Matched(OrFinish(t)) /\ Matched(finish(t)) /\ Matched(t)
  BY EndTurnMatched, OrFinishMatched, FinishMatched, SoundTables
<1>2. /\ Ledger(call, EndTurn(t)) /\ Ledger(call, OrFinish(t))
      /\ Ledger(call, finish(t)) /\ Ledger(call, t)
  BY EndTurnLedger, OrFinishLedger, FinishKeeps DEF Sound
<1>3. Fields(EndTurn(t)) /\ Fields(OrFinish(t)) /\ Fields(finish(t)) /\ Fields(t)
  BY <1>2, LedgerTables DEF Tables
<1> QED BY <1>1, <1>3, CommitMatched

LEMMA InputMatched ==
  ASSUME Inv, Matched(conn), NEW n \in 0..Len(s2c), NEW eof \in BOOLEAN,
         OwnerInput(n, eof)
  PROVE  Matched(conn)'
<1> DEFINE ops == SubSeq(s2c, 1, n)
           rest == SubSeq(s2c, n + 1, Len(s2c))
<1>1. ops \in Seq(Received)
  BY DEF Inv
<1>2. PICK q \in Starts : Commit(EndTurn(apply_incoming(q, ops, eof)), rest)
  BY Zenon DEF OwnerInput
<1> HIDE DEF ops, rest
<1> DEFINE y == apply_incoming(q, ops, eof)
<1>3. Sound(call, q)
  BY StartSound
<1>4. Sound(call, y)
  BY <1>1, <1>3, BatchLedger, BatchMatched DEF Sound
<1>5. Commit(EndTurn(y), rest)
  BY <1>2
<1> HIDE DEF y
<1> QED BY <1>4, <1>5, TurnMatched

LEMMA ReadFailsMatched ==
  ASSUME Inv, Matched(conn), OwnerReadFails
  PROVE  Matched(conn)'
<1>1. PICK q \in Starts : Commit(EndTurn(Error(q, "Io")), s2c)
  BY Zenon DEF OwnerReadFails
<1>2. Sound(call, Error(q, "Io"))
  BY StartSound, ErrorLedger, ErrorMatched DEF Sound
<1> QED BY <1>1, <1>2, TurnMatched

LEMMA ReconnectMatched ==
  ASSUME Inv, Matched(conn), OwnerReconnect
  PROVE  Matched(conn)'
<1>1. PICK q \in Starts :
        Commit(OrFinish(start_reconnect_attempt(
                          [q EXCEPT !.reconnect_deadline = FALSE])), s2c)
  BY Zenon DEF OwnerReconnect
<1> DEFINE x == [q EXCEPT !.reconnect_deadline = FALSE]
           y == start_reconnect_attempt(x)
<1>2. Sound(call, q) /\ Fields(q) /\ Matched(q) /\ Ledger(call, q)
  BY StartSound DEF Sound
<1>3. Quiet(q, x) /\ Alike(q, x)
  BY <1>2, LedgerShape DEF Quiet, Shape, Alike, Fields
<1>4. Commit(OrFinish(y), s2c)
  BY <1>1
<1> HIDE DEF x
<1>5. Ledger(call, y)
  BY <1>2, <1>3, QuietLedger, RetryLedger
<1>6. Matched(y)
  <2>1. Fields(x) /\ Matched(x)
    BY <1>2, <1>3, MatchedAlike DEF Alike
  <2> QED BY <2>1, ReconnectAlike, MatchedAlike
<1> HIDE DEF y
<1> QED BY <1>4, <1>5, <1>6, TurnMatched DEF Sound

LEMMA HandshakeTimeoutMatched ==
  ASSUME Inv, Matched(conn), OwnerHandshakeTimeout
  PROVE  Matched(conn)'
<1> DEFINE y == retry_reconnect(conn, "Timeout")
<1>1. Commit(OrFinish(y), s2c) \/ Commit(finish(conn), s2c)
  BY DEF OwnerHandshakeTimeout
<1>2. Ledger(call, conn) /\ Fields(conn) /\ Sound(call, conn)
  BY LedgerTables DEF Inv, Tables, Sound
<1>3. Ledger(call, y) /\ Matched(y)
  BY <1>2, RetryLedger, ReconnectAlike, MatchedAlike
<1> HIDE DEF y
<1> QED BY <1>1, <1>2, <1>3, TurnMatched DEF Sound

LEMMA TimerTurnMatched ==
  ASSUME Inv, Matched(conn), NEW due, OwnerExpire(due)
  PROVE  Matched(conn)'
<1>1. PICK q \in Starts : Commit(expire(q, due), s2c)
  BY Zenon DEF OwnerExpire
<1>2. Sound(call, expire(q, due))
  BY StartSound, ExpireLedger, ExpireMatched DEF Sound
<1> QED BY <1>1, <1>2, TurnMatched

LEMMA ReleasedMatched ==
  ASSUME Inv, Matched(conn), OwnerReleased
  PROVE  Matched(conn)'
BY TurnMatched DEF OwnerReleased, Sound, Inv

LEMMA CallerMatched ==
  ASSUME Inv, Matched(conn),
         \/ \E c \in Calls, kind \in Kinds, sid \in 0..MaxSid : Issue(c, kind, sid)
         \/ \E c \in Calls : Cancel(c)
  PROVE  Matched(conn)'
<1>1. Fields(conn)
  BY LedgerTables DEF Inv, Tables
<1>2. Alike(conn, conn')
  <2>1. ASSUME NEW c \in Calls, NEW kind \in Kinds, NEW sid \in 0..MaxSid,
               Issue(c, kind, sid)
        PROVE  Alike(conn, conn')
    <3> DEFINE x == close_subscription(conn, sid)
               q == [conn EXCEPT !.work = Append(@, Command(kind, c, sid))]
               qd == [q EXCEPT !.handles[sid].drain = c]
    <3>1. conn' \in {resolve_setup(conn, c, "Error"), fail_waiter(x, c),
                     fail_waiter(conn, c), q, qd}
      BY <2>1 DEF Issue
    <3>2. Within(conn, x) /\ Fields(x)
      BY <1>1, CloseWithin DEF Within
    <3> HIDE DEF x
    <3>3. /\ Within(conn, resolve_setup(conn, c, "Error"))
          /\ Within(conn, fail_waiter(x, c)) /\ Within(conn, fail_waiter(conn, c))
      BY <1>1, <3>2, ResolveWithin, WithinTwice
    <3>4. Alike(conn, q) /\ Alike(conn, qd)
      BY <1>1 DEF Alike, Fields
    <3> HIDE DEF q, qd
    <3> QED BY <3>1, <3>3, <3>4, WithinAlike
  <2>2. ASSUME NEW c \in Calls, Cancel(c)
        PROVE  Alike(conn, conn')
    <3>1. PICK e : conn' = [conn EXCEPT !.work = Append(@, e)]
      BY <2>2 DEF Cancel
    <3> QED BY <1>1, <3>1 DEF Alike, Fields
  <2> QED BY <2>1, <2>2
<1>3. \A u : Alike(conn, u) => Matched(u)
  BY MatchedAlike
<1>4. \A u : u = conn' => Matched(u)
  BY <1>2, <1>3
<1> QED BY <1>4

LEMMA SameMatched ==
  ASSUME Matched(conn), UNCHANGED conn
  PROVE  Matched(conn)'
<1>1. \A u : u = conn' => Matched(u)
  OBVIOUS
<1> QED BY <1>1

\* Every step keeps the match.
LEMMA NextMatched ==
  ASSUME Inv, Matched(conn), [Next]_vars
  PROVE  Matched(conn)'
<1>1. CASE OwnerCommand
  BY <1>1, CommandTurnMatched
<1>2. CASE \E n \in 0..Len(s2c), eof \in BOOLEAN : OwnerInput(n, eof)
  BY <1>2, InputMatched
<1>3. CASE OwnerReadFails
  BY <1>3, ReadFailsMatched
<1>4. CASE OwnerReconnect
  BY <1>4, ReconnectMatched
<1>5. CASE OwnerHandshakeTimeout
  BY <1>5, HandshakeTimeoutMatched
<1>6. CASE \E due \in SUBSET Calls : OwnerExpire(due)
  BY <1>6, TimerTurnMatched
<1>7. CASE OwnerReleased
  BY <1>7, ReleasedMatched
<1>8. CASE \/ \E c \in Calls, kind \in Kinds, sid \in 0..MaxSid : Issue(c, kind, sid)
           \/ \E c \in Calls : Cancel(c)
  BY <1>8, CallerMatched
<1>9. CASE ServerHandle \/ \E sid \in 1..MaxSid : ServerSend(sid)
  BY <1>9, SameMatched DEF ServerHandle, ServerSend
<1>10. CASE UNCHANGED vars
  BY <1>10, SameMatched DEF vars
<1> QED BY <1>1, <1>2, <1>3, <1>4, <1>5, <1>6, <1>7, <1>8, <1>9, <1>10 DEF Next

LEMMA InitMatched ==
  ASSUME Init
  PROVE  Matched(conn)
<1>1. conn.barriers = <<>> /\ conn.state.pending_pings = <<>>
  BY DEF Init, create, v
<1> QED BY <1>1, AgreeEmpty DEF Matched

\* Barriers correspond to the origins of the core, one for one and in order,
\* after every turn, whatever timeouts, failed writes, drains and losses came
\* before it: handle_event resolves the call whose origin incoming_pong took.
\* Of the wire it says nothing: an origin may have lost its PING.
THEOREM BarriersMatchCoreHolds == Spec => []BarriersMatchCore
<1> DEFINE J == Inv /\ Matched(conn)
<1>1. J => BarriersMatchCore
  BY DEF Matched, BarriersMatchCore
<1>2. Init => J
  BY InitInv, InitMatched
<1>3. J /\ [Next]_vars => J'
  BY NextInv, NextMatched
<1> HIDE DEF J
<1> QED BY <1>1, <1>2, <1>3, PTL DEF Spec

=============================================================================
