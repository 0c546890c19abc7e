------------------------- MODULE EventStream_proofs -------------------------
(***************************************************************************)
(* For every capacity: the owner of a connection never blocks on its event *)
(* stream, and Done is the last item a reader sees.                        *)
(***************************************************************************)
EXTENDS EventStream, TLAPS

\* What one owner step or one read preserves.  A stream that is not closed
\* keeps the two slots finish needs free; Inv adds to NeverBlocks and
\* DoneIsLast the bound that finish finds when it starts.
Inv == TypeOK /\ NeverBlocks /\ DoneIsLast

\* Appending a known tail of items to the queue: length and elements.
LEMMA ConcatFacts ==
  ASSUME NEW S, NEW a \in Seq(S), NEW b \in Seq(S)
  PROVE  /\ a \o b \in Seq(S)
         /\ Len(a \o b) = Len(a) + Len(b)
         /\ \A i \in 1..Len(a) : (a \o b)[i] = a[i]
         /\ \A i \in Len(a) + 1 .. Len(a) + Len(b) :
              (a \o b)[i] = b[i - Len(a)]
  OBVIOUS

\* finish closes the stream: from a queue without Done that leaves two slots
\* free, it ends in Done, within the storage, and its last words are no Done.
LEMMA FinishEnds ==
  ASSUME Inv, NEW q \in Seq(Items), NEW seq \in BOOLEAN, NEW words \in Seq(Items),
         finish(q, seq, words), Len(q) + Len(words) < storage_capacity,
         \A i \in 1..Len(q) : q[i] # "Done",
         \A i \in 1..Len(words) : words[i] # "Done"
  PROVE  Inv'
<1> DEFINE d == << "Done" >>
<1>1. /\ d \in Seq(Items) /\ Len(d) = 1 /\ d[1] = "Done"
  BY DEF Items
<1>2. /\ q \o words \in Seq(Items)
      /\ Len(q \o words) = Len(q) + Len(words)
      /\ \A i \in 1..Len(q \o words) : (q \o words)[i] # "Done"
  BY ConcatFacts
<1> DEFINE w == q \o words
<1>3. /\ w \o d \in Seq(Items)
      /\ Len(w \o d) = Len(w) + 1
      /\ \A i \in 1..Len(w) : (w \o d)[i] = w[i]
      /\ (w \o d)[Len(w) + 1] = "Done"
  BY <1>1, <1>2
<1> HIDE DEF w, d
<1>4. queue' = w \o d /\ closed' /\ terminal' /\ ~reconnecting' /\ ~control_hold'
      /\ control_sequence' \in BOOLEAN /\ done_seen' = done_seen
      /\ backlog' = backlog /\ closed' = TRUE /\ terminal' = TRUE
  BY DEF finish, end_control_sequence, w, d
<1>5. ~done_seen /\ Len(w) \in Nat /\ Len(w) < storage_capacity
  BY <1>2 DEF Inv, DoneIsLast, TypeOK, finish, may_finish, w
<1>6. TypeOK'
  BY <1>3, <1>4, <1>5 DEF Inv, TypeOK, finish
<1>7. NeverBlocks'
  BY <1>3, <1>4, <1>5, CapacityAssumption DEF NeverBlocks, storage_capacity
<1>8. DoneIsLast'
  BY <1>2, <1>3, <1>4, <1>5 DEF DoneIsLast, w
<1> QED BY <1>6, <1>7, <1>8 DEF Inv

\* The queue of an open stream holds no Done.
LEMMA OpenQueue ==
  ASSUME Inv, ~closed
  PROVE  /\ \A i \in 1..Len(queue) : queue[i] # "Done"
         /\ Len(queue) \in Nat /\ Len(queue) <= Capacity + 8
         /\ ~done_seen /\ ~terminal
  BY CapacityAssumption
     DEF Inv, TypeOK, NeverBlocks, DoneIsLast, control_capacity

\* finish with the queue as it is, and at most one last event.
LEMMA FinishNow ==
  ASSUME Inv, NEW seq \in BOOLEAN, NEW words \in {<<>>, << "Terminal" >>},
         finish(queue, seq, words)
  PROVE  Inv'
<1>1. ~closed BY DEF finish, may_finish
<1>2. words \in Seq(Items) /\ Len(words) <= 1
      /\ \A i \in 1..Len(words) : words[i] # "Done"
  <2>1. CASE words = <<>> BY <2>1
  <2>2. CASE words = << "Terminal" >> BY <2>2 DEF Items
  <2> QED BY <2>1, <2>2
<1>3. Len(queue) + Len(words) < storage_capacity
  BY <1>1, <1>2, OpenQueue, CapacityAssumption DEF storage_capacity
<1> QED BY <1>1, <1>2, <1>3, OpenQueue, FinishEnds DEF Inv, TypeOK

\* Appending events other than Done within the control slots of an open
\* stream.
LEMMA AppendEvents ==
  ASSUME Inv, ~closed, NEW events \in Seq(Items),
         \A i \in 1..Len(events) : events[i] # "Done",
         Len(queue) + Len(events) <= control_capacity,
         queue' = queue \o events,
         UNCHANGED << terminal, done_seen, closed >>,
         control_sequence' \in BOOLEAN, control_hold' \in BOOLEAN,
         reconnecting' \in BOOLEAN, backlog' \in Nat
  PROVE  Inv'
<1>1. queue \in Seq(Items) BY DEF Inv, TypeOK
<1> DEFINE w == queue \o events
<1>2. /\ w \in Seq(Items)
      /\ Len(w) = Len(queue) + Len(events)
      /\ \A i \in 1..Len(w) : w[i] # "Done"
  BY <1>1, OpenQueue, ConcatFacts
<1> HIDE DEF w
<1>3. queue' = w BY DEF w
<1>4. TypeOK' BY <1>2, <1>3 DEF Inv, TypeOK
<1>5. NeverBlocks'
  BY <1>2, <1>3, CapacityAssumption
     DEF NeverBlocks, storage_capacity, control_capacity
<1>6. DoneIsLast'
  BY <1>2, <1>3, OpenQueue DEF Inv, DoneIsLast
<1> QED BY <1>4, <1>5, <1>6 DEF Inv

\* Reading one item.
LEMMA ReadItem == ASSUME Inv, next PROVE Inv'
<1>1. queue \in Seq(Items) /\ queue # <<>> /\ ~done_seen
  BY DEF Inv, TypeOK, next
<1> DEFINE t == Tail(queue)
<1>2. /\ t \in Seq(Items)
      /\ Len(queue) \in Nat /\ Len(queue) >= 1
      /\ Len(t) = Len(queue) - 1
      /\ \A i \in 1..Len(t) : t[i] = queue[i + 1]
      /\ Head(queue) = queue[1]
  BY <1>1
<1> HIDE DEF t
<1>3. queue' = t /\ UNCHANGED << terminal, control_hold, reconnecting, closed, backlog >>
  BY DEF next, t
<1>4. done_seen' = (queue[1] = "Done") BY <1>2 DEF next, is_done
<1>5. TypeOK'
  <2>1. control_sequence' \in BOOLEAN BY DEF next, Inv, TypeOK
  <2>2. done_seen' \in BOOLEAN BY <1>4
  <2> QED BY <1>2, <1>3, <2>1, <2>2 DEF Inv, TypeOK
<1>6. NeverBlocks'
  BY <1>2, <1>3, CapacityAssumption
     DEF Inv, NeverBlocks, storage_capacity, control_capacity
<1>7. DoneIsLast'
  <2>1. terminal' <=> closed' BY <1>3 DEF Inv, DoneIsLast
  <2>2. ASSUME NEW i \in 1..Len(t), t[i] = "Done"
        PROVE  closed /\ i = Len(t)
    <3>1. i + 1 \in 1..Len(queue) /\ queue[i + 1] = "Done" /\ i \in Nat
      BY <1>2, <2>2
    <3>2. closed BY <3>1, Zenon DEF Inv, DoneIsLast
    <3>3. i + 1 = Len(queue) BY <3>1, Zenon DEF Inv, DoneIsLast
    <3>4. i = Len(t) BY <1>2, <3>1, <3>3
    <3> QED BY <3>2, <3>4, Zenon
  <2>3. ASSUME closed PROVE (t # <<>> /\ t[Len(t)] = "Done") \/ queue[1] = "Done"
    <3>1. queue[Len(queue)] = "Done" BY <1>1, <2>3 DEF Inv, DoneIsLast
    <3>2. CASE Len(queue) = 1 BY <3>1, <3>2
    <3>3. CASE Len(queue) > 1
      <4>1. Len(t) \in 1..Len(t) /\ Len(t) + 1 = Len(queue) BY <1>2, <3>3
      <4>2. t[Len(t)] = queue[Len(t) + 1] BY <1>2, <4>1
      <4> QED BY <3>1, <4>1, <4>2
    <3> QED BY <1>2, <3>2, <3>3
  <2>4. ASSUME queue[1] = "Done" PROVE closed /\ t = <<>>
    <3>0. 1 \in 1..Len(queue) BY <1>2
    <3>1. closed BY <2>4, <3>0, Zenon DEF Inv, DoneIsLast
    <3>2. Len(queue) = 1 BY <2>4, <3>0, Zenon DEF Inv, DoneIsLast
    <3>3. Len(t) = 0 BY <1>2, <3>2
    <3>4. t = <<>> BY <1>2, <3>3
    <3> QED BY <3>1, <3>4, Zenon
  <2> QED BY <1>3, <1>4, <2>1, <2>2, <2>3, <2>4 DEF DoneIsLast
<1> QED BY <1>5, <1>6, <1>7 DEF Inv

-----------------------------------------------------------------------------
(* The steps of the owner.                                                 *)

\* One event that is not Done, accepted or refused.
LEMMA PushEvent ==
  ASSUME Inv, NEW kind \in {"Core", "Slow_consumer"}, event(kind)
  PROVE  Inv'
<1>1. ~closed BY DEF event
<1>2. CASE push_fits
  <2> DEFINE e == << kind >>
  <2>1. e \in Seq(Items) /\ Len(e) = 1 /\ \A i \in 1..Len(e) : e[i] # "Done"
    BY DEF Items
  <2>2. queue' = queue \o e
    BY <1>2 DEF event, Inv, TypeOK
  <2>3. Len(queue) + Len(e) <= control_capacity
    BY <1>1, <1>2, <2>1, OpenQueue, CapacityAssumption
       DEF push_fits, control_capacity
  <2>4. UNCHANGED << terminal, done_seen, control_sequence, control_hold,
                     reconnecting, closed, backlog >>
    BY <1>2 DEF event
  <2> HIDE DEF e
  <2> QED BY <1>1, <2>1, <2>2, <2>3, <2>4, AppendEvents DEF Inv, TypeOK
<1>3. CASE ~push_fits
  <2>1. finish(queue, control_sequence, << "Terminal" >>) BY <1>3 DEF event
  <2> QED BY <2>1, FinishNow DEF Inv, TypeOK
<1> QED BY <1>2, <1>3

\* The first event of a recovery.
LEMMA LoseTransport == ASSUME Inv, recover_transport PROVE Inv'
<1>1. ~closed BY DEF recover_transport
<1>2. CASE control_fits(1)
  <2> DEFINE e == << "Disconnected" >>
  <2>1. e \in Seq(Items) /\ Len(e) = 1 /\ \A i \in 1..Len(e) : e[i] # "Done"
    BY DEF Items
  <2>2. queue' = queue \o e
    BY <1>2 DEF recover_transport, Inv, TypeOK
  <2>3. Len(queue) + Len(e) <= control_capacity
    BY <1>2, <2>1 DEF control_fits
  <2>4. /\ UNCHANGED << terminal, done_seen, closed >>
        /\ control_sequence' = TRUE /\ control_hold' = TRUE
        /\ reconnecting' = TRUE /\ backlog' = Len(queue)
    BY <1>2 DEF recover_transport
  <2>5. backlog' \in Nat BY <1>1, <2>4, OpenQueue
  <2> HIDE DEF e
  <2> QED BY <1>1, <2>1, <2>2, <2>3, <2>4, <2>5, AppendEvents
<1>3. CASE ~control_fits(1)
  <2>1. finish(queue, TRUE, << "Terminal" >>) BY <1>3 DEF recover_transport
  <2> QED BY <2>1, FinishNow
<1> QED BY <1>2, <1>3

\* The events of a replacement are three or four, and none is Done.
LEMMA ReplacementEvents ==
  ASSUME NEW lame \in BOOLEAN
  PROVE  /\ replacement(lame) \in Seq(Items)
         /\ Len(replacement(lame)) \in {3, 4}
         /\ \A i \in 1..Len(replacement(lame)) : replacement(lame)[i] # "Done"
<1>1. CASE lame = TRUE BY <1>1 DEF replacement, Items
<1>2. CASE lame = FALSE BY <1>2 DEF replacement, Items
<1> QED BY <1>1, <1>2

\* A replacement whose events all fit, or as many as fit and the end.
LEMMA Recover == ASSUME Inv, NEW lame \in BOOLEAN, reconnected(lame) PROVE Inv'
<1> DEFINE events == replacement(lame)
           room   == control_capacity - Len(queue)
<1>1. ~closed BY DEF reconnected
<1>2. /\ events \in Seq(Items) /\ Len(events) \in {3, 4}
      /\ \A i \in 1..Len(events) : events[i] # "Done"
  BY ReplacementEvents
<1>3. CASE control_fits(Len(events))
  <2>1. Len(queue) + Len(events) <= control_capacity
    BY <1>3 DEF control_fits
  <2>2. /\ queue' = queue \o events
        /\ UNCHANGED << terminal, done_seen, closed, backlog >>
        /\ control_hold' = FALSE /\ reconnecting' = FALSE
        /\ control_sequence' \in BOOLEAN
    BY <1>3 DEF reconnected, end_control_sequence
  <2>3. backlog' \in Nat BY <2>2 DEF Inv, TypeOK
  <2> HIDE DEF events
  <2> QED BY <1>1, <1>2, <2>1, <2>2, <2>3, AppendEvents
<1>4. CASE ~control_fits(Len(events))
  <2> DEFINE some == SubSeq(events, 1, room)
             full == queue \o some
  <2>1. queue \in Seq(Items) /\ ~terminal /\ Len(queue) \in Nat
        /\ Len(queue) <= control_capacity
    BY <1>1, OpenQueue DEF Inv, TypeOK, control_capacity
  <2>2. room \in Nat /\ room < Len(events)
    BY <1>2, <1>4, <2>1, CapacityAssumption DEF control_fits, control_capacity
  <2>3. /\ some \in Seq(Items) /\ Len(some) = room
        /\ \A i \in 1..Len(some) : some[i] # "Done"
    <3> HIDE DEF events, room
    <3> QED BY <1>2, <2>2
  <2>4. /\ full \in Seq(Items) /\ Len(full) = Len(queue) + Len(some)
        /\ \A i \in 1..Len(full) : full[i] # "Done"
    <3> HIDE DEF some
    <3>1. full \in Seq(Items) /\ Len(full) = Len(queue) + Len(some)
      BY <2>1, <2>3, ConcatFacts
    <3>2. \A i \in 1..Len(queue) : queue[i] # "Done" BY <1>1, OpenQueue
    <3> QED BY <2>1, <2>3, <3>1, <3>2, ConcatFacts
  <2>5. Len(full) = control_capacity
    <3> HIDE DEF some, full
    <3> QED BY <2>1, <2>3, <2>4, CapacityAssumption DEF control_capacity
  <2>6. finish(full, TRUE, << "Terminal" >>)
    BY <1>4 DEF reconnected
  <2>7. << "Terminal" >> \in Seq(Items) /\ Len(<< "Terminal" >>) = 1
        /\ \A i \in 1..Len(<< "Terminal" >>) : << "Terminal" >>[i] # "Done"
    BY DEF Items
  <2> HIDE DEF full
  <2>8. Len(full) + Len(<< "Terminal" >>) < storage_capacity
    BY <2>5, <2>7, CapacityAssumption DEF control_capacity, storage_capacity
  <2> QED BY <2>4, <2>6, <2>7, <2>8, FinishEnds
<1> QED BY <1>3, <1>4

-----------------------------------------------------------------------------
(* The invariant and the theorems.                                         *)

LEMMA InitInv == Init => Inv
<1> SUFFICES ASSUME Init PROVE Inv
  OBVIOUS
<1>1. TypeOK
  <2>1. queue \in Seq(Items) /\ backlog \in Nat BY DEF Init
  <2>2. /\ terminal \in BOOLEAN /\ done_seen \in BOOLEAN
        /\ control_sequence \in BOOLEAN /\ control_hold \in BOOLEAN
        /\ reconnecting \in BOOLEAN /\ closed \in BOOLEAN
    BY Zenon DEF Init
  <2> QED BY <2>1, <2>2, Zenon DEF TypeOK
<1>2. queue = <<>> /\ Len(queue) = 0 BY DEF Init
<1>3. NeverBlocks
  BY <1>2, CapacityAssumption DEF NeverBlocks, storage_capacity, control_capacity
<1>4. DoneIsLast BY <1>2 DEF Init, DoneIsLast
<1> QED BY <1>1, <1>3, <1>4 DEF Inv

LEMMA StepInv == Inv /\ [Next]_vars => Inv'
<1> SUFFICES ASSUME Inv, [Next]_vars PROVE Inv'
  OBVIOUS
<1>1. CASE next BY <1>1, ReadItem
<1>2. CASE event("Core") BY <1>2, PushEvent
<1>3. CASE slow_subscription BY <1>3, PushEvent DEF slow_subscription
<1>4. CASE see_end_of_file
  BY <1>4 DEF see_end_of_file, Inv, TypeOK, NeverBlocks, DoneIsLast
<1>5. CASE recover_transport BY <1>5, LoseTransport
<1>6. CASE \E lame \in {FALSE, LameDuck} : reconnected(lame)
  BY <1>6, Recover, LameDuckAssumption
<1>7. CASE terminate
  BY <1>7, FinishNow DEF terminate, Inv, TypeOK
<1>8. CASE UNCHANGED vars
  BY <1>8 DEF vars, streamVars, Inv, TypeOK, NeverBlocks, DoneIsLast
<1> QED BY <1>1, <1>2, <1>3, <1>4, <1>5, <1>6, <1>7, <1>8 DEF Next

\* The fields of the stream keep their types.
THEOREM StreamTyped == Spec => []TypeOK
<1>1. Inv => TypeOK BY DEF Inv
<1> QED BY <1>1, InitInv, StepInv, PTL DEF Spec

\* Whatever the capacity and however slow the reader, adding an event, a
\* control event or the end never blocks the owner fiber.
THEOREM OwnerNeverBlocks == Spec => []NeverBlocks
<1>1. Inv => NeverBlocks BY DEF Inv
<1> QED BY <1>1, InitInv, StepInv, PTL DEF Spec

\* Done is queued once, behind every event, and only by finish.
THEOREM EndIsLast == Spec => []DoneIsLast
<1>1. Inv => DoneIsLast BY DEF Inv
<1> QED BY <1>1, InitInv, StepInv, PTL DEF Spec

-----------------------------------------------------------------------------
(* One reconnect always fits in its reserve.                               *)

\* During a reconnect nothing but its own first event has been added since
\* the loss, so the unread items are at most one more than the backlog.
Reserve == reconnecting => ~closed /\ Len(queue) <= backlog + 1

LEMMA InitReserve == Init => Reserve
  BY Zenon DEF Init, Reserve

LEMMA StepReserve == Inv /\ Reserve /\ [Next]_vars => Reserve'
<1> SUFFICES ASSUME Inv, Reserve, [Next]_vars, reconnecting'
             PROVE  ~closed' /\ Len(queue') <= backlog' + 1
  BY DEF Reserve
<1>0. queue \in Seq(Items) /\ backlog \in Nat /\ Len(queue) \in Nat
  BY DEF Inv, TypeOK
<1>1. CASE next
  <2>1. ~closed /\ Len(queue) <= backlog + 1 BY <1>1 DEF next, Reserve
  <2>2. closed' = closed /\ backlog' = backlog /\ queue' = Tail(queue)
        /\ queue # <<>>
    BY <1>1 DEF next
  <2>3. Len(queue') = Len(queue) - 1 BY <1>0, <2>2
  <2>4. Len(queue') <= backlog' + 1 BY <1>0, <2>1, <2>2, <2>3
  <2> QED BY <2>1, <2>2, <2>4
<1>2. CASE \E kind \in {"Core", "Slow_consumer"} : event(kind) /\ ~reconnecting
  BY <1>2 DEF event, finish
<1>3. CASE see_end_of_file BY <1>3 DEF see_end_of_file
<1>4. CASE recover_transport
  <2>1. control_fits(1) BY <1>4 DEF recover_transport, finish
  <2>2. queue' = Append(queue, "Disconnected") /\ backlog' = Len(queue)
        /\ closed' = closed
    BY <1>4, <2>1 DEF recover_transport
  <2>3. ~closed BY <1>4 DEF recover_transport
  <2>4. Len(queue') <= backlog' + 1 BY <1>0, <2>2
  <2> QED BY <2>2, <2>3, <2>4
<1>5. CASE \E lame \in {FALSE, LameDuck} : reconnected(lame)
  BY <1>5 DEF reconnected, finish
<1>6. CASE terminate BY <1>6 DEF terminate, finish
<1>7. CASE UNCHANGED vars BY <1>7 DEF vars, streamVars, Reserve
<1> QED
  BY <1>1, <1>2, <1>3, <1>4, <1>5, <1>6, <1>7 DEF Next, event, reports, slow_subscription

\* For every capacity, a reconnect is given up for a slow event reader only
\* if the reader had let the ordinary events overflow before the loss.
THEOREM ReconnectReserved == Spec => OneReconnectReserved
<1> DEFINE Given == reconnecting /\ closed' /\ Len(queue') > Len(queue) + 1
                    => backlog > Capacity
<1>1. ASSUME Inv, Reserve, [Next]_vars PROVE [Given]_vars
  <2> SUFFICES ASSUME reconnecting, closed', Len(queue') > Len(queue) + 1, Next
               PROVE  backlog > Capacity
    BY <1>1
  <2>0. ~closed /\ Len(queue) <= backlog + 1 BY <1>1 DEF Reserve
  <2>1. queue \in Seq(Items) /\ backlog \in Nat /\ Len(queue) \in Nat
    BY <1>1 DEF Inv, TypeOK
  <2>2. ~next BY <2>0 DEF next
  <2>3. ~event("Core") BY Zenon DEF event, reports
  <2>4. ~slow_subscription /\ ~see_end_of_file /\ ~recover_transport
    BY DEF slow_subscription, see_end_of_file, recover_transport
  <2>5. ~terminate
    <3> SUFFICES ASSUME terminate PROVE FALSE
      OBVIOUS
    <3>1. queue' = queue \o <<>> \o << "Done" >> BY DEF terminate, finish
    <3>2. Len(queue') = Len(queue) + 1 BY <2>1, <3>1
    <3> QED BY <2>1, <3>2
  <2>6. PICK lame \in BOOLEAN : reconnected(lame)
    BY <2>2, <2>3, <2>4, <2>5, LameDuckAssumption DEF Next
  <2>7. ~control_fits(Len(replacement(lame)))
    BY <2>0, <2>6 DEF reconnected
  <2>8. Len(queue) + Len(replacement(lame)) > Capacity + 8
    BY <1>1, <2>0, <2>1, <2>7, OpenQueue, ReplacementEvents, CapacityAssumption
       DEF control_fits, control_capacity
  <2>9. Len(replacement(lame)) \in {3, 4}
    BY ReplacementEvents
  <2> DEFINE n == Len(replacement(lame))
             q == Len(queue)
  <2>10. q \in Nat /\ backlog \in Nat /\ Capacity \in Nat /\ n \in {3, 4}
         /\ q <= backlog + 1 /\ q + n > Capacity + 8
    BY <2>0, <2>1, <2>8, <2>9, CapacityAssumption
  <2> HIDE DEF n, q
  <2> QED BY <2>10
<1> QED
  BY <1>1, InitInv, StepInv, InitReserve, StepReserve, PTL
     DEF Spec, OneReconnectReserved

-----------------------------------------------------------------------------
(* A replacement is reported without a gap.                                *)

\* Joining two contiguous lists at a pair that may follow one another.
LEMMA ContiguousConcat ==
  ASSUME NEW a \in Seq(Items), NEW b \in Seq(Items),
         Contiguous(a), Contiguous(b),
         a # <<>> /\ b # <<>> => MayFollow(a[Len(a)], b[1])
  PROVE  Contiguous(a \o b)
<1> DEFINE c == a \o b
<1>1. /\ c \in Seq(Items) /\ Len(c) = Len(a) + Len(b)
      /\ \A i \in 1..Len(a) : c[i] = a[i]
      /\ \A i \in Len(a) + 1 .. Len(a) + Len(b) : c[i] = b[i - Len(a)]
  BY ConcatFacts
<1> HIDE DEF c
<1>2. ASSUME NEW i \in 1..Len(c) - 1 PROVE MayFollow(c[i], c[i + 1])
  <2>0. Len(a) \in Nat /\ Len(b) \in Nat /\ i \in Nat OBVIOUS
  <2>1. CASE i + 1 <= Len(a)
    <3>1. c[i] = a[i] /\ c[i + 1] = a[i + 1] /\ i \in 1..Len(a) - 1
      BY <1>1, <2>0, <2>1
    <3> QED BY <3>1 DEF Contiguous
  <2>2. CASE i = Len(a)
    <3>1. i \in 1..Len(a) /\ i + 1 \in Len(a) + 1 .. Len(a) + Len(b) /\ (i + 1) - Len(a) = 1
          /\ Len(a) > 0 /\ Len(b) > 0
      BY <1>1, <2>0, <2>2
    <3>2. c[i] = a[Len(a)] /\ c[i + 1] = b[1]
      BY <1>1, <2>2, <3>1
    <3>3. a # <<>> /\ b # <<>>
      BY <3>1
    <3> QED BY <3>2, <3>3
  <2>3. CASE i > Len(a)
    <3> DEFINE j == i - Len(a)
    <3>1. j \in 1..Len(b) - 1 /\ c[i] = b[j] /\ c[i + 1] = b[j + 1]
      BY <1>1, <2>0, <2>3
    <3> HIDE DEF j
    <3> QED BY <3>1 DEF Contiguous
  <2> QED BY <2>0, <2>1, <2>2, <2>3
<1> QED BY <1>2 DEF Contiguous, c

\* While the stream is open its last item says whether a reconnect is under
\* way: Disconnected until the replacement is reported, never before it.
Between == {"Core", "Slow_consumer", "Reconnected"}

LastItem ==
  ~closed /\ queue # <<>> =>
    queue[Len(queue)] \in IF reconnecting THEN {"Disconnected"} ELSE Between

Gapless == ReplacementContiguous /\ LastItem

\* What finish appends may follow anything that ends an open stream.
LEMMA FinishGapless ==
  ASSUME NEW q \in Seq(Items), NEW seq, Contiguous(q),
         NEW words \in {<<>>, << "Terminal" >>}, finish(q, seq, words),
         q # <<>> /\ words = <<>> => q[Len(q)] \notin {"Info", "Connected"}
  PROVE  Gapless'
<1>1. words \in Seq(Items) /\ << "Done" >> \in Seq(Items) /\ Contiguous(words)
      /\ Contiguous(<< "Done" >>)
  <2>1. CASE words = <<>> BY <2>1 DEF Items, Contiguous
  <2>2. CASE words = << "Terminal" >> BY <2>2 DEF Items, Contiguous
  <2> QED BY <2>1, <2>2
<1> DEFINE w == q \o words
<1>2. w \in Seq(Items) /\ Contiguous(w)
  <2>1. q # <<>> /\ words # <<>> => MayFollow(q[Len(q)], words[1])
    BY DEF MayFollow
  <2> QED BY <1>1, <2>1, ContiguousConcat
<1>3. w # <<>> => w[Len(w)] \notin {"Info", "Connected"}
  <2>1. CASE words = <<>> BY <2>1
  <2>2. CASE words = << "Terminal" >> BY <2>2
  <2> QED BY <2>1, <2>2
<1> HIDE DEF w
<1>4. Contiguous(w \o << "Done" >>)
  <2>1. w # <<>> => MayFollow(w[Len(w)], << "Done" >>[1])
    BY <1>3 DEF MayFollow
  <2> QED BY <1>1, <1>2, <2>1, ContiguousConcat
<1>5. queue' = w \o << "Done" >> /\ closed' BY DEF finish, w
<1> QED BY <1>4, <1>5 DEF Gapless, ReplacementContiguous, LastItem

\* The replacement events, all of them or the first few, are contiguous.
LEMMA ReplacementPrefix ==
  ASSUME NEW lame \in BOOLEAN, NEW n \in 0..Len(replacement(lame))
  PROVE  LET p == SubSeq(replacement(lame), 1, n)
         IN  /\ p \in Seq(Items) /\ Len(p) = n /\ Contiguous(p)
             /\ n > 0 => p[1] = "Info"
<1>1. CASE lame = TRUE
  BY <1>1 DEF replacement, Items, Contiguous, MayFollow
<1>2. CASE lame = FALSE
  BY <1>2 DEF replacement, Items, Contiguous, MayFollow
<1> QED BY <1>1, <1>2

\* Appending one item that LastItem allows for the new state.
LEMMA AppendGapless ==
  ASSUME Inv, Gapless, ~closed, NEW kind \in Between \cup {"Disconnected"},
         ~reconnecting, queue' = Append(queue, kind),
         (kind = "Disconnected") <=> reconnecting'
  PROVE  Gapless'
<1>1. queue \in Seq(Items) /\ << kind >> \in Seq(Items) /\ Contiguous(<< kind >>)
  BY DEF Inv, TypeOK, Between, Items, Contiguous
<1>2. queue # <<>> => MayFollow(queue[Len(queue)], << kind >>[1])
  BY DEF Gapless, LastItem, Between, MayFollow
<1>3. Contiguous(queue \o << kind >>)
  BY <1>1, <1>2, ContiguousConcat DEF Gapless, ReplacementContiguous
<1>4. queue' = queue \o << kind >> BY <1>1
<1>5. Contiguous(queue') BY <1>3, <1>4
<1>6. queue'[Len(queue')] = kind BY <1>1
<1>7. LastItem' BY <1>6, Zenon DEF LastItem, Between
<1> QED BY <1>5, <1>7 DEF Gapless, ReplacementContiguous

\* finish with the queue of an open stream.
LEMMA FinishNowGapless ==
  ASSUME Inv, Gapless, NEW seq, NEW words \in {<<>>, << "Terminal" >>},
         finish(queue, seq, words)
  PROVE  Gapless'
<1>1. ~closed BY DEF finish, may_finish
<1>2. queue # <<>> => queue[Len(queue)] \notin {"Info", "Connected"}
  BY <1>1 DEF Gapless, LastItem, Between
<1> QED
  BY <1>2, FinishGapless DEF Inv, TypeOK, Gapless, ReplacementContiguous

LEMMA ReadGapless == ASSUME Inv, Gapless, next PROVE Gapless'
<1> DEFINE t == Tail(queue)
<1>1. queue \in Seq(Items) /\ queue # <<>> BY DEF Inv, TypeOK, next
<1>2. /\ t \in Seq(Items) /\ Len(t) = Len(queue) - 1 /\ Len(queue) \in Nat
      /\ \A i \in 1..Len(t) : t[i] = queue[i + 1]
  BY <1>1
<1>3. queue' = t /\ UNCHANGED << closed, reconnecting >> BY DEF next
<1> HIDE DEF t
<1>4. Contiguous(t)
  <2> SUFFICES ASSUME NEW i \in 1..Len(t) - 1 PROVE MayFollow(t[i], t[i + 1])
    BY DEF Contiguous
  <2>1. i \in Nat /\ i + 1 \in 1..Len(queue) - 1 /\ i \in 1..Len(t)
        /\ i + 1 \in 1..Len(t)
    BY <1>2
  <2>2. t[i] = queue[i + 1] /\ t[i + 1] = queue[(i + 1) + 1] BY <1>2, <2>1
  <2> QED BY <2>1, <2>2 DEF Gapless, ReplacementContiguous, Contiguous
<1>5. t # <<>> => t[Len(t)] = queue[Len(queue)] BY <1>2
<1>6. LastItem' BY <1>1, <1>3, <1>5, Zenon DEF Gapless, LastItem
<1> QED BY <1>3, <1>4, <1>6 DEF Gapless, ReplacementContiguous

LEMMA RecoverGapless ==
  ASSUME Inv, Gapless, NEW lame \in BOOLEAN, reconnected(lame)
  PROVE  Gapless'
<1> DEFINE events == replacement(lame)
           room   == control_capacity - Len(queue)
           n      == IF control_fits(Len(events)) THEN Len(events) ELSE room
           some   == SubSeq(events, 1, n)
           full   == queue \o some
<1>1. ~closed /\ reconnecting BY DEF reconnected
<1>2. queue \in Seq(Items) /\ Contiguous(queue) /\ Len(queue) \in Nat
      /\ Len(queue) <= control_capacity
  BY <1>1, OpenQueue
     DEF Inv, TypeOK, Gapless, ReplacementContiguous, control_capacity
<1>3. events \in Seq(Items) /\ Len(events) \in {3, 4} BY ReplacementEvents
<1>4. n \in 0..Len(events)
  <2>1. ~terminal BY <1>1, OpenQueue
  <2>2. room \in Nat BY <1>2, CapacityAssumption DEF control_capacity
  <2>3. ~control_fits(Len(events)) => room < Len(events)
    BY <1>2, <1>3, <2>1, CapacityAssumption DEF control_fits, control_capacity
  <2> HIDE DEF room, events
  <2> QED BY <1>3, <2>2, <2>3
<1>5. some \in Seq(Items) /\ Contiguous(some) /\ Len(some) = n
      /\ (n > 0 => some[1] = "Info")
  <2> HIDE DEF n
  <2> QED BY <1>4, ReplacementPrefix
<1>6. queue # <<>> /\ some # <<>> => MayFollow(queue[Len(queue)], some[1])
  <2> HIDE DEF some, n
  <2>1. queue # <<>> => queue[Len(queue)] = "Disconnected"
    BY <1>1 DEF Gapless, LastItem
  <2>2. some # <<>> => some[1] = "Info" BY <1>4, <1>5
  <2> QED BY <2>1, <2>2 DEF MayFollow
<1>7. full \in Seq(Items) /\ Contiguous(full)
  <2> HIDE DEF some
  <2> QED BY <1>2, <1>5, <1>6, ContiguousConcat
<1>8. CASE control_fits(Len(events))
  <2>1. some = events BY <1>3, <1>8
  <2>2. queue' = full /\ ~reconnecting' BY <1>8, <2>1 DEF reconnected
  <2>3. events[Len(events)] = "Reconnected"
    <3>1. CASE lame = TRUE BY <3>1 DEF replacement
    <3>2. CASE lame = FALSE BY <3>2 DEF replacement
    <3> QED BY <3>1, <3>2
  <2>4. full[Len(full)] = "Reconnected"
    <3> HIDE DEF events, some
    <3>0. Len(full) = Len(queue) + Len(events)
      BY <1>2, <1>3, <2>1, ConcatFacts
    <3>1. Len(full) \in Len(queue) + 1 .. Len(queue) + Len(events)
      <4> HIDE DEF full
      <4> QED BY <1>2, <1>3, <3>0
    <3>2. full[Len(full)] = events[Len(full) - Len(queue)]
      BY <1>2, <1>3, <2>1, <3>1, ConcatFacts
    <3>3. Len(full) - Len(queue) = Len(events)
      <4> HIDE DEF full
      <4> QED BY <1>2, <1>3, <3>0
    <3> QED BY <2>3, <3>2, <3>3
  <2>5. LastItem' BY <2>2, <2>4 DEF LastItem, Between
  <2> QED BY <1>7, <2>2, <2>5 DEF Gapless, ReplacementContiguous
<1>9. CASE ~control_fits(Len(events))
  <2>1. finish(full, TRUE, << "Terminal" >>) BY <1>9 DEF reconnected
  <2> HIDE DEF full
  <2> QED BY <1>7, <2>1, FinishGapless
<1> QED BY <1>8, <1>9

LEMMA InitGapless == Init => Gapless
  BY DEF Init, Gapless, ReplacementContiguous, Contiguous, LastItem

LEMMA StepGapless == Inv /\ Gapless /\ [Next]_vars => Gapless'
<1> SUFFICES ASSUME Inv, Gapless, [Next]_vars PROVE Gapless'
  OBVIOUS
<1>1. CASE next BY <1>1, ReadGapless
<1>2. ASSUME NEW kind \in {"Core", "Slow_consumer"}, event(kind), ~reconnecting
      PROVE  Gapless'
  <2>1. CASE push_fits
    BY <1>2, <2>1, AppendGapless DEF event, Between
  <2>2. CASE ~push_fits
    BY <1>2, <2>2, FinishNowGapless DEF event
  <2> QED BY <2>1, <2>2
<1>3. CASE see_end_of_file
  BY <1>3 DEF see_end_of_file, Gapless, ReplacementContiguous, LastItem
<1>4. CASE recover_transport
  <2>1. CASE control_fits(1)
    BY <1>4, <2>1, AppendGapless DEF recover_transport
  <2>2. CASE ~control_fits(1)
    BY <1>4, <2>2, FinishNowGapless DEF recover_transport
  <2> QED BY <2>1, <2>2
<1>5. CASE \E lame \in {FALSE, LameDuck} : reconnected(lame)
  BY <1>5, RecoverGapless, LameDuckAssumption
<1>6. CASE terminate BY <1>6, FinishNowGapless DEF terminate
<1>7. CASE UNCHANGED vars
  BY <1>7 DEF vars, streamVars, Gapless, ReplacementContiguous, LastItem
<1> QED
  BY <1>1, <1>2, <1>3, <1>4, <1>5, <1>6, <1>7 DEF Next, event, reports, slow_subscription

\* For every capacity, a reader that sees Disconnected sees next the whole
\* replacement, without a stale core event in it, or the end.
THEOREM ReplacementReported == Spec => []ReplacementContiguous
<1>1. Gapless => ReplacementContiguous BY DEF Gapless
<1> QED BY <1>1, InitInv, StepInv, InitGapless, StepGapless, PTL DEF Spec
=============================================================================
