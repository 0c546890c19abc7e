------------------------ MODULE Subscription_proofs ------------------------
(***************************************************************************)
(* For every capacity, every pair of pending limits, every set of payload  *)
(* sizes and any number of draining fibers and transport losses: the       *)
(* accounting of a subscription handle is exact, its end is never lost,    *)
(* every detachment is told, and no drain is forgotten.                    *)
(*                                                                         *)
(* Every step moves the queue in one of five ways (QueueStep), so the part *)
(* of the invariant about the queue is proved once for each of them, and   *)
(* the part about drains once for each action.                             *)
(***************************************************************************)
EXTENDS Subscription, SequenceLemmas

-----------------------------------------------------------------------------
(* The operators on a queue.                                               *)

OfKind(kind) == {item \in Item : item.kind = kind}

LEMMA ItemFacts ==
  /\ \A n \in Sizes : /\ Message(n) \in Item /\ Message(n).size = n
                      /\ Message(n).kind = "Message"
                      /\ Message(n) # Recovery /\ Message(n) # Done
  /\ Recovery \in Item /\ Recovery.size = 0 /\ Recovery.kind = "Recovery"
  /\ Done \in Item /\ Done.size = 0 /\ Done.kind = "Done"
  /\ Recovery # Done
  /\ \A item \in Item : /\ item.size \in Nat
                        /\ item.kind = "Recovery" <=> item = Recovery
                        /\ item.kind = "Done" <=> item = Done
  BY LimitsAssumption DEF Item, Message, Recovery, Done

LEMMA ItemsCounted ==
  ASSUME queue \in Seq(Item), NEW kind
  PROVE  /\ Cardinality(Items(kind)) = CountIn(queue, OfKind(kind))
         /\ Cardinality(Items(kind)) \in Nat
<1>1. Items(kind) = Places(queue, OfKind(kind))
  BY DEF Items, Places, OfKind
<1> QED BY <1>1, PlacesFinite DEF CountIn

\* The recursive definition of the bytes up to a place is one that exists.
LEMMA BytesUpToTotals ==
  ASSUME NEW q \in Seq(Item)
  PROVE  /\ BytesUpTo(q) \in [0..Len(q) -> Nat]
         /\ IsRunningTotal(BytesUpTo(q), [i \in 1..Len(q) |-> q[i].size], Len(q))
<1> DEFINE f == [i \in 1..Len(q) |-> q[i].size]
           G(g) == [n \in 0..Len(q) |-> IF n = 0 THEN 0 ELSE g[n - 1] + q[n].size]
<1>1. f \in [1..Len(q) -> Nat] /\ Len(q) \in Nat
  BY ItemFacts
<1>2. PICK g \in [0..Len(q) -> Nat] : IsRunningTotal(g, f, Len(q))
  <2> HIDE DEF f
  <2> QED BY <1>1, RunningTotalExists
<1>3. g = G(g)
  BY <1>2 DEF IsRunningTotal
<1>4. BytesUpTo(q) = CHOOSE h : h = G(h)
  BY DEF BytesUpTo
<1>5. BytesUpTo(q) = G(BytesUpTo(q))
  <2> HIDE DEF G
  <2> QED BY <1>3, <1>4
<1>6. IsRunningTotal(BytesUpTo(q), f, Len(q))
  BY <1>5 DEF IsRunningTotal
<1>7. \A n \in 0..Len(q) : BytesUpTo(q)[n] = g[n]
  <2> HIDE DEF f
  <2> QED BY <1>1, <1>2, <1>6, RunningTotalUnique
<1>8. BytesUpTo(q) \in [0..Len(q) -> Nat]
  BY <1>5, <1>7
<1> QED BY <1>6, <1>8

LEMMA BytesEmpty == BytesIn(<<>>) = 0
<1>1. <<>> \in Seq(Item) /\ Len(<<>>) = 0
  OBVIOUS
<1> QED BY <1>1, BytesUpToTotals DEF BytesIn, IsRunningTotal

LEMMA BytesAppend ==
  ASSUME NEW q \in Seq(Item), NEW item \in Item
  PROVE  /\ BytesIn(Append(q, item)) = BytesIn(q) + item.size
         /\ BytesIn(q) \in Nat
<1> DEFINE w == Append(q, item)
           f == [i \in 1..Len(q) |-> q[i].size]
           F == [i \in 1..Len(w) |-> w[i].size]
<1>1. w \in Seq(Item) /\ Len(w) = Len(q) + 1 /\ Len(q) \in Nat
  OBVIOUS
<1>2. \A i \in 1..Len(q) : F[i] = f[i]
  OBVIOUS
<1>3. F[Len(w)] = item.size
  OBVIOUS
<1>4. /\ IsRunningTotal(BytesUpTo(w), F, Len(w))
      /\ IsRunningTotal(BytesUpTo(q), f, Len(q))
      /\ BytesIn(q) \in Nat
  <2>1. IsRunningTotal(BytesUpTo(q), f, Len(q)) /\ BytesUpTo(q) \in [0..Len(q) -> Nat]
    BY BytesUpToTotals
  <2>2. IsRunningTotal(BytesUpTo(w), F, Len(w))
    <3> HIDE DEF w
    <3> QED BY <1>1, BytesUpToTotals
  <2>3. Len(q) \in 0..Len(q)
    BY <1>1
  <2> HIDE DEF w, F, f
  <2> QED BY <2>1, <2>2, <2>3 DEF BytesIn
<1> HIDE DEF f, F, w
<1>5. IsRunningTotal(BytesUpTo(w), f, Len(q))
  BY <1>1, <1>2, <1>4 DEF IsRunningTotal
<1>6. BytesUpTo(w)[Len(q)] = BytesUpTo(q)[Len(q)]
  BY <1>1, <1>4, <1>5, RunningTotalUnique
<1>7. BytesUpTo(w)[Len(w)] = BytesUpTo(w)[Len(q)] + item.size
  BY <1>1, <1>3, <1>4 DEF IsRunningTotal
<1> QED BY <1>4, <1>6, <1>7 DEF BytesIn, w

LEMMA BytesTail ==
  ASSUME NEW q \in Seq(Item), q # <<>>
  PROVE  /\ BytesIn(q) = Head(q).size + BytesIn(Tail(q))
         /\ BytesIn(Tail(q)) \in Nat
<1> DEFINE w == Tail(q)
           f == [i \in 1..Len(q) |-> q[i].size]
           F == [i \in 1..Len(w) |-> w[i].size]
           u == BytesUpTo(q)
           h == [n \in 0..Len(w) |-> u[n + 1] - f[1]]
<1>1. w \in Seq(Item) /\ Len(q) = Len(w) + 1 /\ Len(w) \in Nat
  OBVIOUS
<1>2. \A i \in 1..Len(w) : F[i] = f[i + 1]
  OBVIOUS
<1>3. f[1] = Head(q).size /\ f \in [1..Len(q) -> Nat]
  BY ItemFacts
<1>4. /\ IsRunningTotal(BytesUpTo(w), F, Len(w)) /\ BytesIn(w) \in Nat
      /\ IsRunningTotal(u, f, Len(q)) /\ u \in [0..Len(q) -> Nat]
  <2>1. IsRunningTotal(u, f, Len(q)) /\ u \in [0..Len(q) -> Nat]
    BY BytesUpToTotals
  <2> HIDE DEF u
  <2>2. IsRunningTotal(BytesUpTo(w), F, Len(w)) /\ BytesUpTo(w) \in [0..Len(w) -> Nat]
    BY <1>1, BytesUpToTotals
  <2>3. Len(w) \in 0..Len(w)
    BY <1>1
  <2> HIDE DEF w, F, f
  <2> QED BY <2>1, <2>2, <2>3 DEF BytesIn
<1> HIDE DEF f, F, w, u
<1>5. IsRunningTotal(h, F, Len(w))
  <2>1. h[0] = 0
    <3>1. 1 \in 1..Len(q) /\ 0 \in 0..Len(w)
      BY <1>1
    <3>2. u[1] = u[1 - 1] + f[1] /\ u[0] = 0 /\ f[1] \in Nat
      BY <1>3, <1>4, <3>1 DEF IsRunningTotal
    <3> QED BY <3>1, <3>2
  <2>2. ASSUME NEW n \in 1..Len(w)
        PROVE  h[n] = h[n - 1] + F[n]
    <3>1. n + 1 \in 1..Len(q) /\ (n + 1) - 1 = n /\ n \in 0..Len(w)
          /\ n - 1 \in 0..Len(w) /\ (n - 1) + 1 = n /\ n \in 0..Len(q)
          /\ 1 \in 1..Len(q) /\ n + 1 \in 0..Len(q)
      BY <1>1
    <3>2. u[n + 1] = u[n] + f[n + 1] /\ F[n] = f[n + 1]
      BY <1>2, <1>4, <3>1 DEF IsRunningTotal
    <3>3. h[n] = u[n + 1] - f[1] /\ h[n - 1] = u[n] - f[1]
      BY <3>1
    <3>4. u[n + 1] \in Nat /\ u[n] \in Nat /\ f[1] \in Nat /\ f[n + 1] \in Nat
      BY <1>3, <1>4, <3>1
    <3> QED BY <3>2, <3>3, <3>4
  <2> HIDE DEF h
  <2> QED BY <2>1, <2>2 DEF IsRunningTotal
<1>6. h[Len(w)] = BytesUpTo(w)[Len(w)]
  <2> HIDE DEF h
  <2>1. \A n \in 0..Len(w) : h[n] = BytesUpTo(w)[n]
    BY <1>1, <1>4, <1>5, RunningTotalUnique
  <2> QED BY <1>1, <2>1
<1>7. h[Len(w)] = u[Len(q)] - f[1] /\ u[Len(q)] \in Nat /\ f[1] \in Nat
  BY <1>1, <1>3, <1>4
<1> QED BY <1>3, <1>4, <1>6, <1>7 DEF BytesIn, u, w

-----------------------------------------------------------------------------
(* The inductive invariant about the queue.  Over PendingExact, DoneIsLast *)
(* and DetachmentTold it says who may exceed the capacity: one slot for    *)
(* the queued Recovery, one for the Done that has not been read.           *)

Room ==
  Len(queue) <= Capacity + (IF recovery_queued THEN 1 ELSE 0)
                         + (IF ~active /\ ~done_seen THEN 1 ELSE 0)

QueueTypes ==
  /\ queue \in Seq(Item) /\ pending_messages \in Nat /\ pending_bytes \in Nat
  /\ recovery_queued \in BOOLEAN /\ done_seen \in BOOLEAN /\ untold \in BOOLEAN
  /\ live \in BOOLEAN /\ terminal \in Outcomes \cup {None}

Accounts ==
  /\ pending_messages = CountIn(queue, OfKind("Message"))
  /\ pending_bytes = BytesIn(queue)
  /\ CountIn(queue, OfKind("Recovery")) = IF recovery_queued THEN 1 ELSE 0

Limits ==
  /\ MessagesLimit # None => pending_messages <= MessagesLimit
  /\ BytesLimit # None => pending_bytes <= BytesLimit

Ended ==
  /\ DoneIsLast
  /\ active => \A i \in 1..Len(queue) : queue[i] # Done
  /\ done_seen => ~active /\ queue = <<>>
  /\ live <=> active

QueueInv ==
  QueueTypes /\ Accounts /\ Limits /\ Room /\ Ended /\ (untold => recovery_queued)

\* What a step may do to the queue.
Pushes(size) ==
  /\ active /\ Fits(size)
  /\ queue' = Append(queue, Message(size))
  /\ pending_messages' = pending_messages + 1
  /\ pending_bytes' = pending_bytes + size
  /\ UNCHANGED << done_seen, terminal, recovery_queued, untold, live >>

Ends ==
  /\ active /\ terminal' \in Outcomes /\ live' = FALSE
  /\ queue' = Append(queue, Done)
  /\ UNCHANGED << pending_messages, pending_bytes, done_seen, recovery_queued,
                  untold >>

Detaches ==
  /\ live /\ recovery_queued' = TRUE /\ untold' = TRUE
  /\ queue' = queue_recovery
  /\ UNCHANGED << pending_messages, pending_bytes, done_seen, terminal, live >>

Takes ==
  /\ ~done_seen /\ queue # <<>>
  /\ queue' = Tail(queue)
  /\ pending_messages' = IF Head(queue).kind = "Message"
                         THEN pending_messages - 1 ELSE pending_messages
  /\ pending_bytes' = pending_bytes - Head(queue).size
  /\ recovery_queued' = (recovery_queued /\ Head(queue) # Recovery)
  /\ untold' = (untold /\ Head(queue) # Recovery)
  /\ done_seen' = (Head(queue) = Done)
  /\ UNCHANGED << terminal, live >>

Leaves ==
  UNCHANGED << queue, pending_messages, pending_bytes, done_seen, terminal,
               recovery_queued, untold, live >>

QueueStep ==
  (\E size \in Sizes : Pushes(size)) \/ Ends \/ Detaches \/ Takes \/ Leaves

\* What one more item at the end changes: the length, the bytes and the
\* number of items of its own kind.
LEMMA AppendFacts ==
  ASSUME queue \in Seq(Item), NEW item \in Item, queue' = Append(queue, item)
  PROVE  /\ queue' \in Seq(Item) /\ Len(queue') = Len(queue) + 1
         /\ queue'[Len(queue')] = item /\ queue' # <<>>
         /\ \A i \in 1..Len(queue) : queue'[i] = queue[i]
         /\ BytesIn(queue') = BytesIn(queue) + item.size
         /\ \A kind : CountIn(queue', OfKind(kind))
                     = CountIn(queue, OfKind(kind)) + IF item.kind = kind THEN 1 ELSE 0
         /\ Len(queue) \in Nat
<1>1. \A kind : item \in OfKind(kind) <=> item.kind = kind
  BY DEF OfKind
<1>2. \A S : CountIn(Append(queue, item), S)
               = CountIn(queue, S) + IF item \in S THEN 1 ELSE 0
  BY CountAppend
<1>3. BytesIn(queue') = BytesIn(queue) + item.size
  BY BytesAppend
<1>4. ASSUME NEW kind
      PROVE  CountIn(queue', OfKind(kind))
               = CountIn(queue, OfKind(kind)) + IF item.kind = kind THEN 1 ELSE 0
  BY <1>1, <1>2
<1> QED BY <1>3, <1>4

LEMMA PushKeeps ==
  ASSUME QueueInv, NEW size \in Sizes, Pushes(size)
  PROVE  QueueInv'
<1> USE DEF QueueInv
<1>1. /\ Message(size) \in Item /\ Message(size).kind = "Message"
      /\ Message(size).size = size /\ size \in Nat /\ Message(size) # Done
  BY ItemFacts, LimitsAssumption
<1>2. queue' = Append(queue, Message(size))
  BY DEF Pushes
<1>3. /\ queue' \in Seq(Item) /\ Len(queue') = Len(queue) + 1
      /\ queue'[Len(queue')] # Done
      /\ \A i \in 1..Len(queue) : queue'[i] = queue[i]
      /\ BytesIn(queue') = BytesIn(queue) + size
      /\ CountIn(queue', OfKind("Message")) = CountIn(queue, OfKind("Message")) + 1
      /\ CountIn(queue', OfKind("Recovery")) = CountIn(queue, OfKind("Recovery")) + 0
      /\ Len(queue) \in Nat
  BY <1>1, <1>2, AppendFacts DEF QueueTypes
<1>4. QueueTypes'
  BY <1>1, <1>3 DEF QueueTypes, Pushes
<1>5. Accounts'
  BY <1>1, <1>3 DEF Accounts, QueueTypes, Pushes
<1>6. Limits'
  <2>1. MessagesLimit # None => pending_messages + 1 <= MessagesLimit
    BY LimitsAssumption DEF Pushes, Fits, QueueTypes
  <2>2. BytesLimit # None => pending_bytes + size <= BytesLimit
    BY <1>1, LimitsAssumption DEF Pushes, Fits, QueueTypes
  <2> QED BY <2>1, <2>2 DEF Pushes, Limits
<1>7. Room'
  BY <1>3, LimitsAssumption DEF Room, Pushes, Fits, active
<1>8. Ended'
  BY <1>3 DEF Ended, DoneIsLast, Pushes, active
<1> QED BY <1>4, <1>5, <1>6, <1>7, <1>8 DEF Pushes

LEMMA EndKeeps ==
  ASSUME QueueInv, Ends
  PROVE  QueueInv'
<1> USE DEF QueueInv
<1>1. Done \in Item /\ Done.kind = "Done" /\ Done.size = 0
  BY ItemFacts
<1>2. queue' = Append(queue, Done)
  BY DEF Ends
<1>3. /\ queue' \in Seq(Item) /\ Len(queue') = Len(queue) + 1 /\ queue' # <<>>
      /\ queue'[Len(queue')] = Done
      /\ \A i \in 1..Len(queue) : queue'[i] = queue[i]
      /\ BytesIn(queue') = BytesIn(queue) + 0
      /\ CountIn(queue', OfKind("Message")) = CountIn(queue, OfKind("Message")) + 0
      /\ CountIn(queue', OfKind("Recovery")) = CountIn(queue, OfKind("Recovery")) + 0
      /\ Len(queue) \in Nat
  BY <1>1, <1>2, AppendFacts DEF QueueTypes
<1>4. terminal' # None
  BY NoneAssumption DEF Ends
<1>5. QueueTypes'
  BY <1>3 DEF QueueTypes, Ends
<1>6. Accounts'
  BY <1>3 DEF Accounts, QueueTypes, Ends
<1>7. Limits'
  BY DEF Limits, Ends
<1>8. Room'
  BY <1>3, <1>4, LimitsAssumption DEF Room, Ends, Ended, active, QueueTypes
<1>9. Ended'
  BY <1>3, <1>4 DEF Ended, DoneIsLast, Ends, active
<1> QED BY <1>5, <1>6, <1>7, <1>8, <1>9 DEF Ends

LEMMA DetachKeeps ==
  ASSUME QueueInv, Detaches
  PROVE  QueueInv'
<1> USE DEF QueueInv
<1>1. CASE recovery_queued
  <2>1. UNCHANGED << queue, recovery_queued >>
    BY <1>1 DEF Detaches, queue_recovery, QueueTypes
  <2> QED
    BY <2>1, <1>1 DEF Detaches, QueueTypes, Accounts, Limits, Room, Ended, DoneIsLast,
                      active
<1>2. CASE ~recovery_queued
  <2>1. Recovery \in Item /\ Recovery.kind = "Recovery" /\ Recovery.size = 0
        /\ Recovery # Done
    BY ItemFacts
  <2>2. queue' = Append(queue, Recovery)
    BY <1>2 DEF Detaches, queue_recovery
  <2>3. /\ queue' \in Seq(Item) /\ Len(queue') = Len(queue) + 1
        /\ queue'[Len(queue')] # Done
        /\ \A i \in 1..Len(queue) : queue'[i] = queue[i]
        /\ BytesIn(queue') = BytesIn(queue) + 0
        /\ CountIn(queue', OfKind("Message")) = CountIn(queue, OfKind("Message")) + 0
        /\ CountIn(queue', OfKind("Recovery")) = CountIn(queue, OfKind("Recovery")) + 1
        /\ Len(queue) \in Nat
    BY <2>1, <2>2, AppendFacts DEF QueueTypes
  <2>4. QueueTypes'
    BY <2>3 DEF QueueTypes, Detaches
  <2>5. Accounts'
    BY <1>2, <2>3 DEF Accounts, QueueTypes, Detaches
  <2>6. Limits'
    BY DEF Limits, Detaches
  <2>7. Room'
    BY <1>2, <2>3, LimitsAssumption DEF Room, Detaches, active
  <2>8. Ended'
    BY <2>3 DEF Ended, DoneIsLast, Detaches, active
  <2> QED BY <2>4, <2>5, <2>6, <2>7, <2>8 DEF Detaches
<1> QED BY <1>1, <1>2 DEF QueueTypes

LEMMA TakeKeeps ==
  ASSUME QueueInv, Takes
  PROVE  QueueInv'
<1> USE DEF QueueInv
<1> DEFINE item == Head(queue)
<1>1. /\ item \in Item /\ queue' \in Seq(Item) /\ Len(queue') = Len(queue) - 1
      /\ Len(queue) \in Nat \ {0} /\ item = queue[1]
      /\ \A i \in 1..Len(queue') : queue'[i] = queue[i + 1]
  BY DEF Takes, QueueTypes
<1>2. /\ pending_bytes = item.size + BytesIn(queue') /\ BytesIn(queue') \in Nat
      /\ item.size \in Nat
  BY <1>1, BytesTail, ItemFacts DEF Takes, QueueTypes, Accounts
<1>3. \A kind : /\ CountIn(queue, OfKind(kind))
                      = CountIn(queue', OfKind(kind)) + IF item.kind = kind THEN 1 ELSE 0
                /\ CountIn(queue', OfKind(kind)) \in Nat
  <2>1. TAKE kind
  <2>2. item \in OfKind(kind) <=> item.kind = kind
    BY <1>1 DEF OfKind
  <2>3. CountIn(queue, OfKind(kind))
          = CountIn(queue', OfKind(kind)) + IF item \in OfKind(kind) THEN 1 ELSE 0
    BY CountTail DEF Takes, QueueTypes
  <2>4. CountIn(queue', OfKind(kind)) \in Nat
    BY <1>1, PlacesFinite
  <2> QED BY <2>2, <2>3, <2>4
<1>4. /\ item.kind = "Recovery" <=> item = Recovery
      /\ item.kind = "Done" <=> item = Done
  BY <1>1, ItemFacts
<1>5. /\ recovery_queued' = (recovery_queued /\ item # Recovery)
      /\ recovery_queued' \in BOOLEAN /\ untold' \in BOOLEAN /\ done_seen' \in BOOLEAN
  BY DEF Takes, QueueTypes
<1>6. item = Done => queue' = <<>> /\ Len(queue) = 1 /\ ~active
  BY <1>1 DEF Ended, DoneIsLast
<1>7. Accounts'
  <2>1. pending_messages' = CountIn(queue', OfKind("Message"))
    BY <1>3 DEF Takes, Accounts, QueueTypes
  <2>2. pending_bytes' = BytesIn(queue')
    BY <1>2 DEF Takes
  <2>3. CountIn(queue', OfKind("Recovery")) = IF recovery_queued' THEN 1 ELSE 0
    <3>1. CASE item = Recovery
      <4>1. recovery_queued' = FALSE
        BY <1>5, <3>1
      <4>2. CountIn(queue', OfKind("Recovery")) = 0
        BY <1>3, <1>4, <3>1 DEF Accounts
      <4> QED BY <4>1, <4>2
    <3>2. CASE item # Recovery
      <4>1. recovery_queued' = recovery_queued
        BY <1>5, <3>2 DEF QueueTypes
      <4>2. CountIn(queue', OfKind("Recovery")) = CountIn(queue, OfKind("Recovery"))
        BY <1>3, <1>4, <3>2
      <4> QED BY <4>1, <4>2 DEF Accounts
    <3> QED BY <3>1, <3>2
  <2> QED BY <2>1, <2>2, <2>3 DEF Accounts
<1>8. QueueTypes'
  <2>1. pending_messages' \in Nat /\ pending_bytes' \in Nat
    BY <1>2, <1>3, <1>7 DEF Accounts
  <2> QED BY <2>1, <1>1, <1>5 DEF QueueTypes, Takes
<1>9. Limits'
  BY <1>2, LimitsAssumption DEF Takes, Limits, QueueTypes
<1>10. Room'
  BY <1>1, <1>4, <1>5, <1>6, LimitsAssumption
     DEF Room, Takes, Ended, active, QueueTypes
<1>11. Ended'
  <2>1. \A i \in 1..Len(queue') : queue'[i] = Done => i = Len(queue')
    BY <1>1 DEF Ended, DoneIsLast
  <2>2. ASSUME ~active
        PROVE  done_seen' \/ (queue' # <<>> /\ queue'[Len(queue')] = Done)
    <3>1. queue[Len(queue)] = Done
      BY <2>2 DEF Takes, Ended, DoneIsLast
    <3>2. CASE Len(queue) = 1
      BY <1>1, <3>1, <3>2 DEF Takes
    <3>3. CASE Len(queue) > 1
      <4>1. Len(queue') \in 1..Len(queue') /\ Len(queue') + 1 = Len(queue)
        BY <1>1, <3>3
      <4> QED BY <1>1, <3>1, <4>1
    <3> QED BY <1>1, <3>2, <3>3
  <2>3. ASSUME active
        PROVE  \A i \in 1..Len(queue') : queue'[i] # Done
    BY <1>1, <2>3 DEF Ended
  <2>4. done_seen' => ~active /\ queue' = <<>>
    BY <1>6 DEF Takes
  <2>5. active' = active /\ live' = live
    BY DEF Takes, active
  <2> QED BY <2>1, <2>2, <2>3, <2>4, <2>5 DEF Ended, DoneIsLast
<1>12. untold' => recovery_queued'
  BY DEF Takes
<1> QED BY <1>7, <1>8, <1>9, <1>10, <1>11, <1>12

LEMMA QueueStepKeeps ==
  ASSUME QueueInv, QueueStep
  PROVE  QueueInv'
<1>1. CASE Leaves
  BY <1>1 DEF Leaves, QueueInv, QueueTypes, Accounts, Limits, Room, Ended, DoneIsLast,
              active
<1> QED BY <1>1, PushKeeps, EndKeeps, DetachKeeps, TakeKeeps DEF QueueStep

-----------------------------------------------------------------------------
(* The inductive invariant about drains: a drainer has a promise of its    *)
(* own at most once, so it is resolved at most once.                       *)

Commands == {"Drain", "Resume", "Cancel", "Unsubscribe"}

DrainTypes ==
  /\ drain_requested \in BOOLEAN
  /\ drain_waiter \in {None, "armed"}
  /\ drain_promise \in Drainers \cup {None}
  /\ drain_result \in Outcomes \cup {None}
  /\ drainer \in [Drainers -> Outcomes \cup {"idle", "waiting", "Cancelled"}]
  /\ resolved \in [Drainers -> Nat]

OwnPromise ==
  /\ \A d \in Drainers : drainer[d] = "idle" => resolved[d] = 0 /\ drain_promise # d
  /\ \A d \in Drainers : drain_promise = d => resolved[d] = 0

DrainInv == DrainTypes /\ work \in Seq(Commands) /\ OwnPromise /\ DrainOwed

\* Settling resolves the promise's owner once and leaves nobody waiting.
LEMMA SettleFacts ==
  ASSUME DrainInv, NEW result \in Outcomes, SettleDrain(result)
  PROVE  /\ DrainTypes' /\ OwnPromise'
         /\ drain_promise' = None /\ drain_waiter' = None
         /\ \A d \in Drainers : resolved'[d] <= 1 /\ drainer'[d] # "waiting"
<1> USE DEF DrainInv
<1>1. result # None /\ result # "waiting" /\ result # "idle"
  BY NoneAssumption DEF Outcomes
<1>2. DrainTypes'
  <2>1. resolved' \in [Drainers -> Nat]
    BY DEF DrainTypes, SettleDrain
  <2>2. drainer' \in [Drainers -> Outcomes \cup {"idle", "waiting", "Cancelled"}]
    BY DEF DrainTypes, SettleDrain
  <2>3. drain_result' \in Outcomes \cup {None}
    BY DEF DrainTypes, SettleDrain
  <2>4. drain_promise' = None /\ drain_waiter' = None /\ drain_requested' = FALSE
    BY DEF SettleDrain
  <2> QED BY <2>1, <2>2, <2>3, <2>4 DEF DrainTypes
<1>3. \A d \in Drainers : resolved'[d] <= 1
  BY NoneAssumption DEF DrainTypes, SettleDrain, OwnPromise, DrainOwed
<1>4. \A d \in Drainers : drainer'[d] # "waiting"
  BY <1>1 DEF DrainTypes, SettleDrain, DrainOwed
<1>5. OwnPromise'
  BY <1>1, NoneAssumption DEF DrainTypes, SettleDrain, OwnPromise
<1> QED BY <1>2, <1>3, <1>4, <1>5 DEF SettleDrain

LEMMA SettleKeeps ==
  ASSUME DrainInv, NEW result \in Outcomes, SettleDrain(result),
         work' \in Seq(Commands)
  PROVE  DrainInv'
<1>1. DrainOwed'
  BY SettleFacts DEF DrainOwed
<1> QED BY <1>1, SettleFacts DEF DrainInv

\* Closing a handle ends its queue, unless it has ended.
LEMMA CloseEnds ==
  ASSUME QueueInv, NEW error \in Outcomes, NEW result, Close(error, result),
         UNCHANGED << pending_messages, pending_bytes, done_seen, recovery_queued,
                      untold >>
  PROVE  QueueStep
<1>1. CASE active
  BY <1>1 DEF Close, End, queue_done, QueueStep, Ends
<1>2. CASE ~active
  <2>1. live = FALSE
    BY <1>2 DEF QueueInv, Ended, QueueTypes
  <2> QED BY <1>2, <2>1 DEF Close, End, QueueStep, Leaves
<1> QED BY <1>1, <1>2

LEMMA CloseKeeps ==
  ASSUME QueueInv, DrainInv, NEW error \in Outcomes, NEW result \in Outcomes,
         Close(error, result), work' \in Seq(Commands),
         UNCHANGED << pending_messages, pending_bytes, done_seen, recovery_queued,
                      untold >>
  PROVE  QueueStep /\ DrainInv'
  BY CloseEnds, SettleKeeps DEF Close

\* A drain of a command that cannot be carried out is settled.
LEMMA FailKeeps ==
  ASSUME QueueInv, DrainInv, NEW error \in Outcomes, fail_pending_drain(error),
         work' \in Seq(Commands),
         UNCHANGED << pending_messages, pending_bytes, done_seen, recovery_queued,
                      untold >>
  PROVE  QueueStep /\ DrainInv'
<1>1. "Closed" \in Outcomes
  BY DEF Outcomes
<1>2. CASE drain_waiter # None
  BY <1>1, <1>2, CloseKeeps DEF fail_pending_drain, complete_drain
<1>3. CASE drain_waiter = None
  BY <1>3, SettleKeeps DEF fail_pending_drain, QueueStep, Leaves
<1> QED BY <1>2, <1>3

\* Taking a command other than a Drain from the head loses no Drain.
LEMMA TailWork ==
  ASSUME work \in Seq(Commands), work # <<>>, work' = Tail(work)
  PROVE  /\ work' \in Seq(Commands)
         /\ Head(work) # "Drain" /\ Contains(work, "Drain") => Contains(work', "Drain")
<1>1. work' \in Seq(Commands) /\ Len(work') = Len(work) - 1 /\ Head(work) = work[1]
      /\ \A i \in 1..Len(work') : work'[i] = work[i + 1]
  OBVIOUS
<1>2. ASSUME Head(work) # "Drain", NEW i \in 1..Len(work), work[i] = "Drain"
      PROVE  \E j \in 1..Len(work') : work'[j] = "Drain"
  <2>1. i - 1 \in 1..Len(work') /\ (i - 1) + 1 = i
    BY <1>1, <1>2
  <2> QED BY <1>1, <1>2, <2>1
<1> QED BY <1>1, <1>2 DEF Contains

LEMMA AppendWork ==
  ASSUME work \in Seq(Commands), NEW command \in Commands,
         work' = Append(work, command)
  PROVE  /\ work' \in Seq(Commands)
         /\ Contains(work', command)
         /\ Contains(work, "Drain") => Contains(work', "Drain")
<1>1. work' \in Seq(Commands) /\ Len(work') = Len(work) + 1 /\ Len(work) \in Nat
      /\ work'[Len(work) + 1] = command
      /\ \A i \in 1..Len(work) : work'[i] = work[i]
  OBVIOUS
<1>2. Len(work) + 1 \in 1..Len(work') /\ \A i \in 1..Len(work) : i \in 1..Len(work')
  BY <1>1
<1> QED BY <1>1, <1>2 DEF Contains

-----------------------------------------------------------------------------
(* What the owner and the fibers do, one action at a time.                 *)

Inv == TypeOK /\ QueueInv /\ DrainInv

\* A step that leaves the drains alone keeps their invariant, as long as it
\* loses no command to drain and ends no handle.
LEMMA DrainsLeft ==
  ASSUME DrainInv, UNCHANGED << drainVars, terminal >>, work' \in Seq(Commands),
         Contains(work, "Drain") => Contains(work', "Drain")
  PROVE  DrainInv'
  BY DEF DrainInv, drainVars, DrainTypes, OwnPromise, DrainOwed

\* A delivery is queued if the limits allow it; one that does not fit closes
\* the handle as a slow consumer, which ends the queue and settles the drain.
LEMMA PushStep ==
  ASSUME Inv, NEW size \in Sizes, push(size)
  PROVE  QueueStep /\ DrainInv'
<1> USE DEF Inv
<1>1. "Slow_consumer" \in Outcomes /\ work \in Seq(Commands)
  BY DEF Outcomes, DrainInv
<1>2. CASE active /\ Fits(size)
  <2>1. QueueStep
    BY <1>2 DEF push, recoveryVars, ownerVars, QueueStep, Pushes
  <2>2. DrainInv'
    BY <1>1, <1>2, DrainsLeft DEF push, ownerVars
  <2> QED BY <2>1, <2>2
<1>3. CASE ~(active /\ Fits(size))
  BY <1>1, <1>3, CloseKeeps DEF push, close_subscription
<1> QED BY <1>2, <1>3

LEMMA LossStep ==
  ASSUME Inv, TransportLost
  PROVE  QueueStep /\ DrainInv'
<1> USE DEF Inv
<1>1. "Disconnected" \in Outcomes /\ work \in Seq(Commands) /\ work' = work
  BY DEF Outcomes, DrainInv, TransportLost
<1>2. CASE live /\ replay_on_reconnect
  <2>1. QueueStep
    BY <1>2 DEF TransportLost, detach, QueueStep, Detaches
  <2>2. DrainInv'
    BY <1>1, <1>2, DrainsLeft DEF TransportLost
  <2> QED BY <2>1, <2>2
<1>3. CASE live /\ ~replay_on_reconnect
  BY <1>1, <1>3, CloseKeeps DEF TransportLost, close_subscription
<1>4. CASE ~live
  <2>1. QueueStep
    BY <1>4 DEF TransportLost, recoveryVars, QueueStep, Leaves
  <2>2. DrainInv'
    BY <1>1, <1>4, DrainsLeft DEF TransportLost
  <2> QED BY <2>1, <2>2
<1> QED BY <1>2, <1>3, <1>4

LEMMA ReconnectStep ==
  ASSUME Inv, Reconnected
  PROVE  QueueStep /\ DrainInv'
<1> USE DEF Inv
<1>1. QueueStep
  BY DEF Reconnected, queueVars, QueueStep, Leaves
<1>2. /\ work' \in Seq(Commands)
      /\ Contains(work, "Drain") => Contains(work', "Drain")
  <2>1. CASE drain_waiter # None
    <3>1. "Resume" \in Commands
      BY DEF Commands
    <3> QED BY <2>1, <3>1, AppendWork DEF Reconnected, DrainInv
  <2>2. CASE drain_waiter = None
    BY <2>2 DEF Reconnected, DrainInv
  <2> QED BY <2>1, <2>2
<1>3. DrainInv'
  BY <1>2, DrainsLeft DEF Reconnected
<1> QED BY <1>1, <1>3

LEMMA OwnerDrainStep ==
  ASSUME Inv, OwnerDrain
  PROVE  QueueStep /\ DrainInv'
<1> USE DEF Inv
<1>1. work' \in Seq(Commands) /\ "Closed" \in Outcomes
  BY TailWork DEF OwnerDrain, DrainInv, Outcomes
<1>2. CASE live
  <2>1. QueueStep
    BY <1>2 DEF OwnerDrain, QueueStep, Leaves
  <2>2. active /\ drain_waiter' = "armed" /\ drain_waiter' # None
    BY <1>2, NoneAssumption DEF QueueInv, Ended, OwnerDrain
  <2>3. DrainTypes' /\ OwnPromise'
    BY <1>2 DEF OwnerDrain, DrainInv, DrainTypes, OwnPromise
  <2>4. DrainOwed'
    BY <1>2, <2>2 DEF OwnerDrain, DrainInv, DrainOwed, active
  <2> QED BY <1>1, <2>1, <2>3, <2>4 DEF DrainInv
<1>3. CASE ~live
  BY <1>1, <1>3, FailKeeps DEF OwnerDrain
<1> QED BY <1>2, <1>3

LEMMA UnwrittenStep ==
  ASSUME Inv, OwnerDrainUnwritten
  PROVE  QueueStep /\ DrainInv'
<1>1. work' \in Seq(Commands) /\ "Closed" \in Outcomes /\ "Io" \in Outcomes
  BY TailWork DEF Inv, OwnerDrainUnwritten, DrainInv, Outcomes
<1> QED BY <1>1, CloseKeeps DEF Inv, OwnerDrainUnwritten

LEMMA ResumeStep ==
  ASSUME Inv, OwnerResume
  PROVE  QueueStep /\ DrainInv'
<1> USE DEF Inv
<1>1. /\ work' \in Seq(Commands)
      /\ Contains(work, "Drain") => Contains(work', "Drain")
      /\ "Not_connected" \in Outcomes
  BY TailWork DEF OwnerResume, DrainInv, Outcomes
<1>2. CASE drain_waiter = None \/ attached
  <2>1. QueueStep
    BY <1>2 DEF OwnerResume, QueueStep, Leaves
  <2>2. DrainInv'
    BY <1>1, <1>2, DrainsLeft DEF OwnerResume
  <2> QED BY <2>1, <2>2
<1>3. CASE ~(drain_waiter = None \/ attached)
  BY <1>1, <1>3, CloseKeeps DEF OwnerResume, close_subscription
<1> QED BY <1>2, <1>3

LEMMA CancelStep ==
  ASSUME Inv, OwnerCancel
  PROVE  QueueStep /\ DrainInv'
<1> USE DEF Inv
<1>1. /\ work' \in Seq(Commands)
      /\ Contains(work, "Drain") => Contains(work', "Drain")
      /\ "Closed" \in Outcomes
  BY TailWork DEF OwnerCancel, DrainInv, Outcomes
<1>2. CASE live
  BY <1>1, <1>2, FailKeeps DEF OwnerCancel
<1>3. CASE ~live
  <2>1. QueueStep
    BY <1>3 DEF OwnerCancel, QueueStep, Leaves
  <2>2. DrainInv'
    BY <1>1, <1>3, DrainsLeft DEF OwnerCancel
  <2> QED BY <2>1, <2>2
<1> QED BY <1>2, <1>3

LEMMA OwnerUnsubscribeStep ==
  ASSUME Inv, OwnerUnsubscribe
  PROVE  QueueStep /\ DrainInv'
<1> USE DEF Inv
<1>1. /\ work' \in Seq(Commands)
      /\ Contains(work, "Drain") => Contains(work', "Drain")
      /\ "Closed" \in Outcomes
  BY TailWork DEF OwnerUnsubscribe, DrainInv, Outcomes
<1>2. CASE live
  BY <1>1, <1>2, CloseKeeps DEF OwnerUnsubscribe, close_subscription
<1>3. CASE ~live
  <2>1. QueueStep
    BY <1>3 DEF OwnerUnsubscribe, QueueStep, Leaves
  <2>2. DrainInv'
    BY <1>1, <1>3, DrainsLeft DEF OwnerUnsubscribe
  <2> QED BY <2>1, <2>2
<1> QED BY <1>2, <1>3

LEMMA FlushedStep ==
  ASSUME Inv, DrainFlushed
  PROVE  QueueStep /\ DrainInv'
<1> USE DEF Inv
<1>1. work' = work /\ work \in Seq(Commands) /\ "Closed" \in Outcomes /\ "Ok" \in Outcomes
  BY DEF DrainFlushed, DrainInv, Outcomes
<1>2. CASE drain_waiter # None
  BY <1>1, <1>2, CloseKeeps DEF DrainFlushed, complete_drain
<1>3. CASE drain_waiter = None
  <2>1. QueueStep
    BY <1>3 DEF DrainFlushed, QueueStep, Leaves
  <2>2. DrainInv'
    BY <1>1, <1>3, DrainsLeft DEF DrainFlushed
  <2> QED BY <2>1, <2>2
<1> QED BY <1>2, <1>3

LEMMA TimeoutStep ==
  ASSUME Inv, DrainTimeout
  PROVE  QueueStep /\ DrainInv'
<1>1. /\ work' = work /\ work \in Seq(Commands)
      /\ "Closed" \in Outcomes /\ "Timeout" \in Outcomes
  BY DEF Inv, DrainTimeout, DrainInv, Outcomes
<1> QED BY <1>1, CloseKeeps DEF Inv, DrainTimeout, complete_drain

LEMMA FinishStep ==
  ASSUME Inv, Finish
  PROVE  QueueStep /\ DrainInv'
<1>1. work' = <<>> /\ work' \in Seq(Commands) /\ "Closed" \in Outcomes
  BY DEF Finish, Outcomes
<1> QED BY <1>1, CloseKeeps DEF Inv, Finish, close_subscription

LEMMA TakeStep ==
  ASSUME Inv, next_or_recovery
  PROVE  QueueStep /\ DrainInv'
<1>1. QueueStep
  BY DEF next_or_recovery, consumes_delivery, ownerVars, QueueStep, Takes
<1>2. DrainInv'
  BY DrainsLeft DEF Inv, next_or_recovery, ownerVars, DrainInv
<1> QED BY <1>1, <1>2

LEMMA DrainStep ==
  ASSUME Inv, NEW d \in Drainers, drain(d)
  PROVE  QueueStep /\ DrainInv'
<1> USE DEF Inv, DrainInv
<1>1. QueueStep
  BY DEF drain, queueVars, recoveryVars, QueueStep, Leaves
<1>2. "Drain" \in Commands /\ d # None
  BY NoneAssumption DEF Commands
<1>3. CASE drain_promise # None \/ drain_result # None \/ ~active
  <2>1. /\ UNCHANGED << drain_requested, drain_promise, work, terminal, drain_waiter,
                        drain_result, resolved >>
        /\ \/ drainer' = [drainer EXCEPT ![d] = "waiting"] /\ drain_promise # None
           \/ drainer' = [drainer EXCEPT ![d] = drain_result] /\ drain_result # None
           \/ drainer' = [drainer EXCEPT ![d] = "Ok"]
    BY <1>3 DEF drain
  <2>2. DrainTypes'
    BY <2>1 DEF DrainTypes, Outcomes
  <2>3. OwnPromise'
    BY <2>1 DEF DrainTypes, OwnPromise, Outcomes
  <2>4. DrainOwed'
    BY <2>1 DEF DrainTypes, DrainOwed, Outcomes
  <2> QED BY <1>1, <2>1, <2>2, <2>3, <2>4
<1>4. CASE drain_promise = None /\ drain_result = None /\ active
  <2>1. UNCHANGED << terminal, drain_waiter, drain_result, resolved >>
    BY DEF drain
  <2>2. CASE /\ drainer' = [drainer EXCEPT ![d] = "waiting"]
             /\ drain_promise' = d /\ drain_requested' = TRUE
             /\ work' = Append(work, "Drain")
    <3>1. work' \in Seq(Commands) /\ Contains(work', "Drain")
      BY <1>2, <2>2, AppendWork
    <3>2. DrainTypes'
      BY <2>1, <2>2 DEF DrainTypes
    <3>3. OwnPromise'
      BY <1>4, <2>1, <2>2 DEF DrainTypes, OwnPromise, drain
    <3>4. DrainOwed'
      BY <1>2, <1>4, <2>1, <2>2, <3>1 DEF DrainTypes, DrainOwed, active
    <3> QED BY <1>1, <3>1, <3>2, <3>3, <3>4
  <2>3. CASE /\ drainer' = [drainer EXCEPT ![d] = "Command_queue_full"]
             /\ UNCHANGED << drain_requested, drain_promise, work >>
    <3>1. DrainTypes'
      BY <2>1, <2>3 DEF DrainTypes, Outcomes
    <3>2. OwnPromise'
      BY <2>1, <2>3 DEF DrainTypes, OwnPromise
    <3>3. DrainOwed'
      BY <2>1, <2>3 DEF DrainTypes, DrainOwed
    <3> QED BY <1>1, <2>3, <3>1, <3>2, <3>3
  <2> QED BY <1>4, <2>2, <2>3 DEF drain
<1> QED BY <1>1, <1>3, <1>4

LEMMA CancelDrainStep ==
  ASSUME Inv, NEW d \in Drainers, cancel_drain(d)
  PROVE  QueueStep /\ DrainInv'
<1> USE DEF Inv, DrainInv
<1>1. QueueStep
  BY DEF cancel_drain, queueVars, recoveryVars, QueueStep, Leaves
<1>2. "Cancel" \in Commands
  BY DEF Commands
<1>3. /\ work' \in Seq(Commands)
      /\ Contains(work, "Drain") => Contains(work', "Drain")
  BY <1>2, AppendWork DEF cancel_drain
<1>4. DrainTypes' /\ OwnPromise'
  BY DEF cancel_drain, DrainTypes, OwnPromise
<1>5. DrainOwed'
  BY <1>3 DEF cancel_drain, DrainTypes, DrainOwed
<1> QED BY <1>1, <1>3, <1>4, <1>5

LEMMA UnsubscribeStep ==
  ASSUME Inv, unsubscribe \/ unsubscribe_refused
  PROVE  QueueStep /\ DrainInv'
<1> USE DEF Inv
<1>1. "Unsubscribe" \in Commands /\ "Command_queue_full" \in Outcomes
      /\ work \in Seq(Commands)
  BY DEF Commands, Outcomes, DrainInv
<1>2. CASE unsubscribe
  <2>1. QueueStep
    BY <1>2 DEF unsubscribe, queueVars, recoveryVars, QueueStep, Leaves
  <2>2. /\ work' \in Seq(Commands)
        /\ Contains(work, "Drain") => Contains(work', "Drain")
    BY <1>1, <1>2, AppendWork DEF unsubscribe
  <2>3. DrainInv'
    BY <1>2, <2>2, DrainsLeft DEF unsubscribe
  <2> QED BY <2>1, <2>3
<1>3. CASE unsubscribe_refused
  BY <1>1, <1>3, CloseKeeps DEF unsubscribe_refused, close_subscription
<1> QED BY <1>2, <1>3

LEMMA WatchStep ==
  ASSUME Inv, await_recovery \/ recovery_signalled \/ UNCHANGED vars
  PROVE  QueueStep /\ DrainInv'
<1>1. /\ UNCHANGED << drainVars, terminal, work, recovery_queued, untold, live >>
      /\ UNCHANGED queueVars
  BY DEF await_recovery, recovery_signalled, vars, ownerVars, recoveryVars
<1>2. QueueStep
  BY <1>1 DEF QueueStep, Leaves, queueVars
<1>3. DrainInv'
  BY <1>1, DrainsLeft DEF Inv, DrainInv
<1> QED BY <1>2, <1>3

-----------------------------------------------------------------------------
(* The fields that neither invariant is about.                             *)

RestTypes ==
  /\ replay_on_reconnect \in BOOLEAN /\ attached \in BOOLEAN /\ barrier \in BOOLEAN
  /\ recovery \in Recoveries /\ signal \in Nat /\ losses \in 0..MaxLosses
  /\ watcher \in [waiting : BOOLEAN, from : Recoveries, signal : 0..signal]

LEMMA TypesSplit == TypeOK <=> QueueTypes /\ DrainTypes /\ RestTypes
                                /\ work \in Seq(Commands)
  BY DEF TypeOK, QueueTypes, DrainTypes, RestTypes, Commands

\* A step that leaves the watcher alone may raise the signal.
LEMMA RestMonotone ==
  ASSUME RestTypes, UNCHANGED watcher, signal' \in Nat, signal <= signal',
         replay_on_reconnect' \in BOOLEAN, attached' \in BOOLEAN,
         barrier' \in BOOLEAN, recovery' \in Recoveries, losses' \in 0..MaxLosses
  PROVE  RestTypes'
<1>1. 0..signal \subseteq 0..signal'
  BY DEF RestTypes
<1> QED BY <1>1 DEF RestTypes

LEMMA EndSignals ==
  ASSUME signal \in Nat, NEW error, End(error)
  PROVE  signal' \in Nat /\ signal <= signal'
  BY DEF End, signal_recovery

LEMMA FailSignals ==
  ASSUME signal \in Nat, NEW error, fail_pending_drain(error)
  PROVE  signal' \in Nat /\ signal <= signal'
  BY EndSignals DEF fail_pending_drain, complete_drain, Close

LEMMA RestStep ==
  ASSUME RestTypes, Next
  PROVE  RestTypes'
<1> DEFINE Rises == signal' \in Nat /\ signal <= signal'
<1>0. /\ signal \in Nat /\ losses \in 0..MaxLosses /\ recovery \in Recoveries
      /\ replay_on_reconnect \in BOOLEAN /\ attached \in BOOLEAN
      /\ barrier \in BOOLEAN /\ signal <= signal
  BY DEF RestTypes
<1>1. ASSUME NEW size \in Sizes, push(size) PROVE RestTypes'
  <2>1. Rises
    BY <1>0, <1>1, EndSignals DEF push, recoveryVars, close_subscription, Close
  <2> QED BY <1>0, <1>1, <2>1, RestMonotone DEF push, recoveryVars, ownerVars
<1>2. CASE TransportLost
  <2>1. Rises
    BY <1>0, <1>2, EndSignals
       DEF TransportLost, detach, signal_recovery, close_subscription, Close, recoveryVars
  <2>2. recovery' \in Recoveries /\ watcher' = watcher
    BY <1>0, <1>2 DEF TransportLost, detach, recoveryVars, Recoveries
  <2>3. losses' \in 0..MaxLosses
    BY <1>0, <1>2, LimitsAssumption DEF TransportLost
  <2> QED BY <1>0, <1>2, <2>1, <2>2, <2>3, RestMonotone DEF TransportLost
<1>3. CASE Reconnected
  <2>1. Rises
    BY <1>0, <1>3 DEF Reconnected, signal_recovery
  <2>2. recovery' \in Recoveries
    BY <1>0, <1>3 DEF Reconnected, Recoveries
  <2> QED BY <1>0, <1>3, <2>1, <2>2, RestMonotone DEF Reconnected
<1>4. CASE OwnerDrain
  <2>1. Rises
    BY <1>0, <1>4, FailSignals DEF OwnerDrain
  <2> QED BY <1>0, <1>4, <2>1, RestMonotone DEF OwnerDrain
<1>5. CASE OwnerDrainUnwritten
  <2>1. Rises
    BY <1>0, <1>5, EndSignals DEF OwnerDrainUnwritten, Close
  <2>2. losses' \in 0..MaxLosses
    BY <1>0, <1>5, LimitsAssumption DEF OwnerDrainUnwritten
  <2> QED BY <1>0, <1>5, <2>1, <2>2, RestMonotone DEF OwnerDrainUnwritten
<1>6. CASE OwnerResume
  <2>1. Rises
    BY <1>0, <1>6, EndSignals DEF OwnerResume, close_subscription, Close
  <2> QED BY <1>0, <1>6, <2>1, RestMonotone DEF OwnerResume
<1>7. CASE OwnerCancel
  <2>1. Rises
    BY <1>0, <1>7, FailSignals DEF OwnerCancel
  <2> QED BY <1>0, <1>7, <2>1, RestMonotone DEF OwnerCancel
<1>8. CASE OwnerUnsubscribe
  <2>1. Rises
    BY <1>0, <1>8, EndSignals DEF OwnerUnsubscribe, close_subscription, Close
  <2> QED BY <1>0, <1>8, <2>1, RestMonotone DEF OwnerUnsubscribe
<1>9. CASE DrainFlushed
  <2>1. Rises
    BY <1>0, <1>9, EndSignals DEF DrainFlushed, complete_drain, Close
  <2> QED BY <1>0, <1>9, <2>1, RestMonotone DEF DrainFlushed
<1>10. CASE DrainTimeout
  <2>1. Rises
    BY <1>0, <1>10, EndSignals DEF DrainTimeout, complete_drain, Close
  <2> QED BY <1>0, <1>10, <2>1, RestMonotone DEF DrainTimeout
<1>11. CASE Finish
  <2>1. Rises
    BY <1>0, <1>11, EndSignals DEF Finish, close_subscription, Close
  <2>2. losses' \in 0..MaxLosses
    BY <1>11, LimitsAssumption DEF Finish
  <2> QED BY <1>0, <1>11, <2>1, <2>2, RestMonotone DEF Finish
<1>12. CASE next_or_recovery
  BY <1>0, <1>12, RestMonotone DEF next_or_recovery, ownerVars
<1>13. ASSUME NEW d \in Drainers, drain(d) \/ cancel_drain(d) PROVE RestTypes'
  BY <1>0, <1>13, RestMonotone DEF drain, cancel_drain, recoveryVars
<1>14. CASE unsubscribe
  BY <1>0, <1>14, RestMonotone DEF unsubscribe, recoveryVars
<1>15. CASE unsubscribe_refused
  <2>1. Rises
    BY <1>0, <1>15, EndSignals DEF unsubscribe_refused, close_subscription, Close
  <2> QED BY <1>0, <1>15, <2>1, RestMonotone DEF unsubscribe_refused
<1>16. CASE await_recovery
  <2>1. signal \in 0..signal
    BY <1>0
  <2> QED BY <1>16, <2>1 DEF await_recovery, ownerVars, RestTypes
<1>17. CASE recovery_signalled
  <2>1. signal \in 0..signal
    BY <1>0
  <2>2. watcher' \in [waiting : BOOLEAN, from : Recoveries, signal : 0..signal]
    BY <1>17, <2>1 DEF recovery_signalled, RestTypes
  <2> QED BY <1>17, <2>2 DEF recovery_signalled, ownerVars, RestTypes
<1> QED
  BY <1>1, <1>2, <1>3, <1>4, <1>5, <1>6, <1>7, <1>8, <1>9, <1>10, <1>11, <1>12,
     <1>13, <1>14, <1>15, <1>16, <1>17 DEF Next, OwnerCommand

-----------------------------------------------------------------------------
(* The theorems.                                                           *)

LEMMA InitInv == Init => Inv
<1> SUFFICES ASSUME Init PROVE Inv
  OBVIOUS
<1>1. <<>> \in Seq(Item) /\ <<>> \in Seq(Commands) /\ Len(<<>>) = 0
  OBVIOUS
<1>2. QueueTypes
  BY <1>1 DEF Init, QueueTypes
<1>3. Accounts
  BY CountEmpty, BytesEmpty DEF Init, Accounts
<1>4. Limits /\ Room
  BY <1>1, LimitsAssumption, NoneAssumption DEF Init, Limits, Room, active
<1>5. Ended
  BY <1>1 DEF Init, Ended, DoneIsLast, active
<1>6. DrainTypes /\ OwnPromise
  BY NoneAssumption DEF Init, DrainTypes, OwnPromise
<1>7. DrainOwed
  BY DEF Init, DrainOwed
<1>8. RestTypes
  <2>1. recovery \in Recoveries /\ signal = 0 /\ losses \in 0..MaxLosses
    BY LimitsAssumption DEF Init, Recoveries
  <2>2. watcher \in [waiting : BOOLEAN, from : Recoveries, signal : 0..signal]
    BY <2>1 DEF Init
  <2>3. /\ replay_on_reconnect \in BOOLEAN /\ attached \in BOOLEAN
        /\ barrier \in BOOLEAN /\ signal \in Nat
    BY DEF Init
  <2> QED BY <2>1, <2>2, <2>3 DEF RestTypes
<1>9. QueueInv
  BY <1>2, <1>3, <1>4, <1>5 DEF QueueInv, Init
<1>10. DrainInv
  BY <1>1, <1>6, <1>7 DEF DrainInv, Init
<1> QED BY <1>2, <1>6, <1>8, <1>9, <1>10, TypesSplit DEF Inv, DrainInv

LEMMA StepInv == Inv /\ [Next]_vars => Inv'
<1> SUFFICES ASSUME Inv, [Next]_vars PROVE Inv'
  OBVIOUS
<1>1. QueueStep /\ DrainInv'
  <2>1. CASE Next
    BY <2>1, PushStep, LossStep, ReconnectStep, OwnerDrainStep, UnwrittenStep,
       ResumeStep, CancelStep, OwnerUnsubscribeStep, FlushedStep, TimeoutStep,
       FinishStep, TakeStep, DrainStep, CancelDrainStep, UnsubscribeStep, WatchStep
       DEF Next, OwnerCommand
  <2>2. CASE UNCHANGED vars
    BY <2>2, WatchStep
  <2> QED BY <2>1, <2>2
<1>2. QueueInv'
  BY <1>1, QueueStepKeeps DEF Inv
<1>3. RestTypes'
  <2>1. RestTypes
    BY TypesSplit DEF Inv
  <2>2. CASE UNCHANGED vars
    BY <2>1, <2>2 DEF RestTypes, vars, ownerVars, recoveryVars
  <2> QED BY <2>1, <2>2, RestStep
<1>4. TypeOK'
  BY <1>1, <1>2, <1>3
     DEF QueueInv, DrainInv, TypeOK, QueueTypes, DrainTypes, RestTypes, Commands
<1> QED BY <1>1, <1>2, <1>4 DEF Inv

\* Every reachable state satisfies the inductive invariant.
THEOREM Invariant == Spec => []Inv
  BY InitInv, StepInv, PTL DEF Spec

\* The fields of the handle keep their types; in particular neither pending
\* counter that next and push keep ever goes below zero.
THEOREM HandleTyped == Spec => []TypeOK
<1>1. Inv => TypeOK
  BY DEF Inv
<1> QED BY <1>1, Invariant, PTL

\* What push counts up and the readers count down is what the queue holds,
\* within both limits and within two slots of the capacity.
THEOREM AccountingExact == Spec => []PendingExact
<1>1. Inv => PendingExact
  <2> SUFFICES ASSUME Inv PROVE PendingExact
    OBVIOUS
  <2>1. queue \in Seq(Item) /\ Len(queue) \in Nat
    BY DEF Inv, QueueInv, QueueTypes
  <2>2. \A kind : Cardinality(Items(kind)) = CountIn(queue, OfKind(kind))
    BY <2>1, ItemsCounted
  <2>3. Len(queue) <= Capacity + 2
    BY <2>1, LimitsAssumption DEF Inv, QueueInv, Room
  <2> QED BY <2>2, <2>3 DEF PendingExact, Inv, QueueInv, Accounts, Limits
<1> QED BY <1>1, Invariant, PTL

\* Done is the last item of a queue, and a handle that has ended either has
\* it in its queue or its reader has taken it.
THEOREM EndNeverLost == Spec => []DoneIsLast
<1>1. Inv => DoneIsLast
  BY DEF Inv, QueueInv, Ended
<1> QED BY <1>1, Invariant, PTL

\* A detachment the consumer has not read is in its queue, and the owner's
\* table holds exactly the handles that have not ended.
THEOREM DetachmentNeverLost == Spec => []DetachmentTold
<1>1. Inv => DetachmentTold
  <2> SUFFICES ASSUME Inv PROVE DetachmentTold
    OBVIOUS
  <2>1. queue \in Seq(Item) /\ (live <=> active)
    BY DEF Inv, QueueInv, QueueTypes, Ended
  <2>2. ASSUME untold
        PROVE  Recovery \in Range(queue)
    <3>1. CountIn(queue, OfKind("Recovery")) > 0
      BY <2>2 DEF Inv, QueueInv, Accounts
    <3>2. PICK i \in 1..Len(queue) : queue[i] \in OfKind("Recovery")
      BY <2>1, <3>1, CountPositive
    <3>3. queue[i] = Recovery /\ i \in DOMAIN queue
      BY <2>1, <3>2, ItemFacts DEF OfKind
    <3> QED BY <3>3 DEF Range
  <2> QED BY <2>1, <2>2 DEF DetachmentTold
<1> QED BY <1>1, Invariant, PTL

\* A drain promise is resolved at most once, and while one is pending the
\* owner still has a command or an armed waiter for it.
THEOREM DrainNeverForgotten == Spec => []DrainOwed
<1>1. Inv => DrainOwed
  BY DEF Inv, DrainInv
<1> QED BY <1>1, Invariant, PTL

=============================================================================
