---------------------------- MODULE EventStream ----------------------------
(***************************************************************************)
(* The bounded lifecycle event stream of a connection: Event_stream in     *)
(* lib/eio/connection.ml, the owner fiber that fills it through transport  *)
(* losses and recoveries, and the application fiber that reads it.         *)
(*                                                                         *)
(* The stream lives in a queue of capacity + 10 slots.  Ordinary events    *)
(* may fill capacity of them, a control sequence (the events around one    *)
(* reconnect) capacity + 8, and the owner's last words, at most one event  *)
(* and the Done marker, take the rest.  Adding to a full Eio.Stream blocks *)
(* the fiber that adds, and that would be the owner: the reserve must be   *)
(* big enough whatever the reader does.                                    *)
(*                                                                         *)
(* An event is abstracted to its kind.                                     *)
(***************************************************************************)
EXTENDS Integers, Sequences

CONSTANTS Capacity,   \* Config.event_capacity
          LameDuck    \* BOOLEAN: may a server announce lame duck mode

ASSUME CapacityAssumption == Capacity \in Nat \ {0}
ASSUME LameDuckAssumption == LameDuck \in BOOLEAN

VARIABLES
  queue,            \* unread items
  terminal,         \* Event_stream.terminal is set
  done_seen,        \* the reader has taken Done
  control_sequence, \* ordinary pushes may use the control slots
  control_hold,     \* a control sequence is under way
  reconnecting,     \* the owner is between a loss and its recovery
  closed,           \* finish has run
  backlog           \* history: unread items when the transport was last lost

streamVars == << queue, terminal, done_seen, control_sequence, control_hold >>
vars == << streamVars, reconnecting, closed, backlog >>

\* Mutant: too few slots for one reconnect.
control_capacity_short == Capacity + 4

control_capacity == Capacity + 8
storage_capacity == Capacity + 10

\* Kinds of items.  "Core" is any core event of a live connection, "Terminal"
\* the event finish may push, "Done" the end marker.
Items == {"Core", "Slow_consumer", "Disconnected", "Info", "Lame_duck_mode",
          "Connected", "Reconnected", "Terminal", "Done"}

Init ==
  /\ queue = <<>>
  /\ terminal = FALSE /\ done_seen = FALSE
  /\ control_sequence = FALSE /\ control_hold = FALSE
  /\ reconnecting = FALSE /\ closed = FALSE /\ backlog = 0

-----------------------------------------------------------------------------
(* Operations of the stream.                                               *)

push_fits ==
  ~terminal /\ Len(queue) < IF control_sequence THEN control_capacity
                            ELSE Capacity

\* Mutant: control events are added without looking for room.
control_fits_always(n) == ~terminal

\* Whether the first n control events of a sequence all fit.
control_fits(n) == ~terminal /\ Len(queue) + n <= control_capacity

\* control_sequence, set to seq before, after end_control_sequence with queue q.
end_control_sequence(seq, q) == seq /\ Len(q) > Capacity

\* Mutant: the reader takes Done for an ordinary item.
is_done_never(item) == FALSE

is_done(item) == item = "Done"

next ==
  /\ ~done_seen /\ queue # <<>>
  /\ queue' = Tail(queue)
  /\ control_sequence' =
       (control_sequence /\ (control_hold \/ Len(Tail(queue)) > Capacity))
  /\ done_seen' = is_done(Head(queue))
  /\ UNCHANGED << terminal, control_hold, reconnecting, closed, backlog >>

-----------------------------------------------------------------------------
(* The owner.                                                              *)

\* Mutant: finish may run again.
may_finish_again == TRUE

may_finish == ~closed

\* finish: end the control sequence, say a last word for some errors, and
\* terminate.  q and seq are the queue and control_sequence the failing step
\* leaves.
finish(q, seq, lastWords) ==
  /\ may_finish
  /\ closed' = TRUE
  /\ reconnecting' = FALSE
  /\ control_hold' = FALSE
  /\ control_sequence' = end_control_sequence(seq, q)
  /\ terminal' = TRUE
  /\ queue' = q \o lastWords \o << "Done" >>
  /\ UNCHANGED << done_seen, backlog >>

\* Mutant: core events of the old transport are still reported.
reports_always(kind) == TRUE

reports(kind) == kind = "Core" => ~reconnecting

\* event: a core event is dropped while reconnecting; one that does not fit
\* makes the reader a slow consumer and ends the connection.
event(kind) ==
  /\ ~closed
  /\ reports(kind)
  /\ IF push_fits
     THEN /\ queue' = Append(queue, kind)
          /\ UNCHANGED << terminal, done_seen, control_sequence, control_hold,
                          reconnecting, closed, backlog >>
     ELSE finish(queue, control_sequence, << "Terminal" >>)

\* A subscription's slow reader is reported from a delivery, so only while
\* the transport is live.
slow_subscription == ~reconnecting /\ event("Slow_consumer")

\* An end of file seen at the start of a batch opens the control sequence
\* before the operations that precede it in the batch are handled.
see_end_of_file ==
  /\ ~closed /\ ~reconnecting
  /\ control_sequence' = TRUE /\ control_hold' = TRUE
  /\ UNCHANGED << queue, terminal, done_seen, reconnecting, closed, backlog >>

\* recover_transport opens the control sequence with Disconnected.
recover_transport ==
  /\ ~closed /\ ~reconnecting
  /\ IF control_fits(1)
     THEN /\ queue' = Append(queue, "Disconnected")
          /\ control_sequence' = TRUE /\ control_hold' = TRUE
          /\ reconnecting' = TRUE
          /\ backlog' = Len(queue)
          /\ UNCHANGED << terminal, done_seen, closed >>
     ELSE finish(queue, TRUE, << "Terminal" >>)

\* Mutant: an event the stream does not have.
replacement_unknown(lame) == << "Info", "Connected", "Resumed" >>

\* The events of a successful replacement handshake: the new INFO, whether
\* it is in lame duck mode, Connected and Reconnected.
replacement(lame) ==
  IF lame THEN << "Info", "Lame_duck_mode", "Connected", "Reconnected" >>
  ELSE << "Info", "Connected", "Reconnected" >>

\* The first control event that does not fit ends the connection.
reconnected(lame) ==
  LET events == replacement(lame)
      room   == control_capacity - Len(queue)
  IN  /\ ~closed /\ reconnecting
      /\ IF control_fits(Len(events))
         THEN /\ queue' = queue \o events
              /\ control_hold' = FALSE
              /\ control_sequence' = end_control_sequence(TRUE, queue \o events)
              /\ reconnecting' = FALSE
              /\ UNCHANGED << terminal, done_seen, closed, backlog >>
         ELSE finish(queue \o SubSeq(events, 1, room), TRUE, << "Terminal" >>)

\* The connection ends: with a last event for a transport error outside a
\* reconnect, with Done alone for a close, a drain or exhausted attempts.
terminate ==
  \/ ~reconnecting /\ finish(queue, control_sequence, << "Terminal" >>)
  \/ finish(queue, control_sequence, <<>>)

-----------------------------------------------------------------------------

Next ==
  \/ next
  \/ event("Core")
  \/ slow_subscription
  \/ see_end_of_file
  \/ recover_transport
  \/ \E lame \in {FALSE, LameDuck} : reconnected(lame)
  \/ terminate

\* The application keeps reading; nothing is assumed of the owner.
Spec == Init /\ [][Next]_vars /\ WF_vars(next)

-----------------------------------------------------------------------------
(* Properties.                                                             *)

\* Types of the stream's fields.
TypeOK ==
  /\ queue \in Seq(Items)
  /\ terminal \in BOOLEAN /\ done_seen \in BOOLEAN
  /\ control_sequence \in BOOLEAN /\ control_hold \in BOOLEAN
  /\ reconnecting \in BOOLEAN /\ closed \in BOOLEAN
  /\ backlog \in Nat

\* Adding to the stream never blocks the owner fiber: ordinary and control
\* events stay within the control slots, and finish finds room for its last
\* event and for Done whatever the reader has left unread.
NeverBlocks ==
  /\ Len(queue) <= storage_capacity
  /\ ~closed => Len(queue) <= control_capacity

\* Done is queued by finish alone, once, behind everything else, so that a
\* reader sees every event and then the end; and a stream that has ended is
\* never silent about it.
DoneIsLast ==
  /\ terminal <=> closed
  /\ \A i \in 1..Len(queue) : queue[i] = "Done" => closed /\ i = Len(queue)
  /\ closed => (queue # <<>> /\ queue[Len(queue)] = "Done") \/ done_seen
  /\ done_seen => closed /\ queue = <<>>

\* What may come next on the stream.
MayFollow(item, following) ==
  /\ item = "Disconnected" => following \in {"Info", "Terminal", "Done"}
  /\ item = "Info" => following \in {"Lame_duck_mode", "Connected", "Terminal"}
  /\ item = "Connected" => following \in {"Reconnected", "Terminal"}

Contiguous(items) ==
  \A i \in 1..Len(items) - 1 : MayFollow(items[i], items[i + 1])

\* Between Disconnected and Reconnected the reader sees the replacement INFO
\* and Connected and no stale core event (connection.mli, Event_stream.next),
\* unless the connection ends first.
ReplacementContiguous == Contiguous(queue)

\* The control slots hold one whole reconnect: it is given up for a slow
\* event reader only if ordinary events had already overflowed their own
\* capacity when the transport was lost.
OneReconnectReserved ==
  [][/\ reconnecting /\ closed' /\ Len(queue') > Len(queue) + 1
     => backlog > Capacity]_vars

\* A reader that keeps reading reaches the end of a stream that has ended.
EndIsSeen == closed ~> done_seen
=============================================================================
