------------------------- MODULE Connection_proofs -------------------------
(***************************************************************************)
(* Theorems about the owner fiber of lib/eio/connection.ml: no promise of  *)
(* a caller is resolved twice.                                             *)
(*                                                                         *)
(* The invariant is a ledger: of each call it says where the promise that  *)
(* is still to be resolved is kept (a queued command, a request, a         *)
(* barrier, the drain of a handle), and that it is kept in one place.      *)
(* The functions of the owner are taken in the order of the module; each   *)
(* keeps the ledger.  Folds over tables and queues are the instances of    *)
(* FoldLemmas.                                                             *)
(***************************************************************************)
EXTENDS Connection, SequenceLemmas, FiniteSetTheorems, TLAPS

Dr == "Drain_subscription"
Barriers == {"Flush", "Drain"}
OwnKinds == {"Resume", "Cancel_drain", "Cancel_request"}

\* What a promise is resolved with.
Results == {"Ok", "Error"}

LEMMA AreResults == "Ok" \in Results /\ "Error" \in Results
BY DEF Results

Commands == [kind : AllKinds \cup OwnKinds, call : Calls, sid : Nat]
BarrierRecords ==
  [kind : Barriers \cup {"Subscription_drain"}, call : Calls, sid : Nat]

\* The fields of the records, which no function adds to or takes from.
CoreShape(st) ==
  /\ DOMAIN st = {"phase", "info", "next_sid", "subscriptions", "draining",
                  "pending_pings", "pending_liveness", "next_ping"}
  /\ st.next_sid \in Nat /\ st.phase \in Phases

Shape(t) ==
  /\ DOMAIN t = {"state", "up", "ready", "closed", "reconnecting",
                 "connect_sent", "handshake_deadline", "reconnect_deadline",
                 "reconnect_attempts", "work", "barriers", "completed",
                 "requests", "handles", "subscriptions", "subscription_drains",
                 "reconnect_pending", "reconnect_publish_state", "answers",
                 "setups", "accepted", "writes", "dial", "full", "out", "broke",
                 "fresh", "error"}
  /\ CoreShape(t.state)
  /\ \A s \in DOMAIN t.handles : DOMAIN t.handles[s] = {"replay", "drain", "waiter"}

-----------------------------------------------------------------------------
(* The ledger.  k is call, w the commands and b the barriers that are      *)
(* still to be served.                                                     *)

\* Promises are resolved at most once.
Promises(t) ==
  /\ t.answers \in [Calls -> Seq(Results)]
  /\ t.setups \in [Calls -> Seq(Results)]
  /\ \A c \in Calls : Len(t.answers[c]) <= 1 /\ Len(t.setups[c]) <= 1

\* A queued command is that of a call, which no other command serves and no
\* request or barrier keeps.  A drain that waits in the queue has not been
\* resolved while its handle is open, and the command of one that was
\* cancelled comes before its cancellation.
WorkInv(k, w, b, t) ==
  /\ w \in Seq(Commands)
  /\ \A i \in DOMAIN w :
       /\ w[i].kind \in AllKinds => k[w[i].call].kind = w[i].kind
                                    /\ k[w[i].call].sid = w[i].sid
       /\ w[i].kind \in {"Resume", "Cancel_drain"}
            => k[w[i].call].kind = Dr /\ k[w[i].call].sid = w[i].sid
       /\ w[i].kind \in AllKinds \ {Dr}
            => t.answers[w[i].call] = <<>> /\ t.setups[w[i].call] = <<>>
       /\ w[i].kind = "Request"
            => \A s \in DOMAIN t.requests : t.requests[s] # w[i].call
       /\ w[i].kind = Dr /\ w[i].sid \in t.subscriptions
            => t.handles[w[i].sid].drain = w[i].call
       /\ w[i].kind = "Cancel_drain" /\ w[i].sid \in t.subscriptions
            => \/ t.handles[w[i].sid].waiter # None
               \/ \E j \in 1..i - 1 : w[j].kind = Dr /\ w[j].sid = w[i].sid
       /\ \A j \in DOMAIN w : i # j /\ w[i].kind \in AllKinds /\ w[j].kind \in AllKinds
            => w[i].call # w[j].call
       /\ \A j \in DOMAIN b : w[i].kind \in Barriers /\ b[j].kind \in Barriers
            => w[i].call # b[j].call

\* Each request waits under one sid.
RequestInv(k, t) ==
  \A s \in DOMAIN t.requests :
    /\ t.requests[s] \in Calls /\ k[t.requests[s]].kind = "Request"
    /\ t.answers[t.requests[s]] = <<>>
    /\ \A r \in DOMAIN t.requests : t.requests[r] = t.requests[s] => r = s

\* A flush or drain has one barrier; one that has been resolved is marked
\* completed.  The drain of the connection never is: it leaves the queue.
BarrierInv(k, b, t) ==
  /\ b \in Seq(BarrierRecords)
  /\ \A i \in DOMAIN b :
       /\ b[i].kind \in Barriers => k[b[i].call].kind = b[i].kind
       /\ b[i].kind \notin Barriers => k[b[i].call].kind = Dr
                                       /\ k[b[i].call].sid = b[i].sid
       /\ b[i].kind \in Barriers /\ b[i].call \notin t.completed
            => t.answers[b[i].call] = <<>>
       /\ b[i].kind = "Drain" => b[i].call \notin t.completed
       /\ \A j \in DOMAIN b : i # j /\ b[i].kind \in Barriers /\ b[j].kind \in Barriers
            => b[i].call # b[j].call

\* A drain that a barrier, a resumption or the table of drains refers to is
\* the waiter of its handle until it completes.
Armed(k, t, c) ==
  c \notin t.completed
    => k[c].sid \in DOMAIN t.handles /\ t.handles[k[c].sid].waiter = c

DrainInv(k, w, b, t) ==
  /\ \A i \in DOMAIN b : b[i].kind = "Subscription_drain" => Armed(k, t, b[i].call)
  /\ \A i \in DOMAIN w : w[i].kind = "Resume" => Armed(k, t, w[i].call)
  /\ \A s \in DOMAIN t.subscription_drains :
       /\ t.subscription_drains[s] \in Calls
       /\ k[t.subscription_drains[s]].kind = Dr
       /\ k[t.subscription_drains[s]].sid = s
       /\ Armed(k, t, t.subscription_drains[s])

\* The drain and the waiter of a handle are drains of that handle; the drain
\* has not been resolved, nor has a waiter that has not completed.  Completing
\* closes the handle, and while it is open a drain that has not been resolved
\* is its waiter or will be, by a command in the queue.
HandleInv(k, w, t) ==
  /\ \A s \in DOMAIN t.handles :
       /\ t.handles[s].drain # None
            => /\ t.handles[s].drain \in Calls
               /\ k[t.handles[s].drain].kind = Dr /\ k[t.handles[s].drain].sid = s
               /\ t.answers[t.handles[s].drain] = <<>>
       /\ t.handles[s].waiter # None
            => /\ t.handles[s].waiter \in Calls
               /\ k[t.handles[s].waiter].kind = Dr /\ k[t.handles[s].waiter].sid = s
               /\ t.handles[s].waiter \notin t.completed
                    => /\ t.answers[t.handles[s].waiter] = <<>>
                       /\ t.handles[s].drain = t.handles[s].waiter
  /\ \A c \in Calls : k[c].kind = Dr /\ k[c].sid \in t.subscriptions
       => /\ c \notin t.completed
          /\ t.answers[c] = <<>>
               => \/ t.handles[k[c].sid].waiter # None
                  \/ \E j \in DOMAIN w : w[j].kind = Dr /\ w[j].sid = k[c].sid

\* Sids come from the core.
SidInv(k, t) ==
  /\ t.subscriptions \subseteq DOMAIN t.handles
  /\ \A s \in t.subscriptions \cup DOMAIN t.requests :
       s \in Nat /\ s < t.state.next_sid
  /\ \A c \in Calls : /\ k[c].sid \in Nat /\ k[c].sid < t.state.next_sid
                      /\ k[c].kind = Dr => k[c].sid \in DOMAIN t.handles

\* A call that completed has been resolved, and nothing is kept of a call
\* that has not been made.
IdleInv(k, t) ==
  /\ \A c \in t.completed : c \in Calls /\ t.answers[c] # <<>>
  /\ \A c \in Calls : k[c].kind = "idle" => t.answers[c] = <<>> /\ t.setups[c] = <<>>

LedgerOf(k, w, b, t) ==
  /\ Shape(t) /\ Promises(t) /\ WorkInv(k, w, b, t) /\ RequestInv(k, t)
  /\ BarrierInv(k, b, t) /\ DrainInv(k, w, b, t) /\ HandleInv(k, w, t)
  /\ SidInv(k, t) /\ IdleInv(k, t)

Ledger(k, t) == LedgerOf(k, t.work, t.barriers, t)

LEMMA CommandTyped ==
  ASSUME NEW w \in Seq(Commands), NEW i \in DOMAIN w
  PROVE  w[i] \in Commands /\ w[i].call \in Calls /\ w[i].sid \in Nat
<1>1. w[i] \in Commands
  OBVIOUS
<1> QED BY <1>1 DEF Commands

LEMMA BarrierTyped ==
  ASSUME NEW b \in Seq(BarrierRecords), NEW i \in DOMAIN b
  PROVE  b[i] \in BarrierRecords /\ b[i].call \in Calls /\ b[i].sid \in Nat
<1>1. b[i] \in BarrierRecords
  OBVIOUS
<1> QED BY <1>1 DEF BarrierRecords

-----------------------------------------------------------------------------
(* What a step may touch and keep a part of the ledger.                    *)

LEMMA ArmedSame ==
  ASSUME NEW k, NEW t, NEW u, u.handles = t.handles, t.completed \subseteq u.completed
  PROVE  \A c : Armed(k, t, c) => Armed(k, u, c)
BY DEF Armed

LEMMA DrainSame ==
  ASSUME NEW k, NEW w, NEW b, NEW t, NEW u, DrainInv(k, w, b, t),
         u.handles = t.handles, t.completed \subseteq u.completed,
         u.subscription_drains = t.subscription_drains
  PROVE  DrainInv(k, w, b, u)
<1>1. \A c : Armed(k, t, c) => Armed(k, u, c)
  BY ArmedSame
<1> QED BY <1>1 DEF DrainInv

\* Only the handle of sid changes, whose waiter is done with if it has one.
Released(t, u, sid) ==
  /\ t.handles[sid].waiter \in u.completed \cup {None}
  /\ t.completed \subseteq u.completed /\ DOMAIN u.handles = DOMAIN t.handles
  /\ \A s \in DOMAIN t.handles : s # sid => u.handles[s] = t.handles[s]

LEMMA ArmedReleased ==
  ASSUME NEW k, NEW t, NEW u, NEW sid, Released(t, u, sid)
  PROVE  \A c \in Calls : Armed(k, t, c) => Armed(k, u, c)
BY CallsAssumption DEF Armed, Released

LEMMA DrainReleased ==
  ASSUME NEW k, NEW w, NEW b, NEW t, NEW u, NEW sid,
         LedgerOf(k, w, b, t), Released(t, u, sid),
         \A s \in DOMAIN u.subscription_drains :
           /\ s \in DOMAIN t.subscription_drains
           /\ u.subscription_drains[s] = t.subscription_drains[s]
  PROVE  DrainInv(k, w, b, u)
<1>1. \A c \in Calls : Armed(k, t, c) => Armed(k, u, c)
  BY ArmedReleased
<1>2. DrainInv(k, w, b, t) /\ w \in Seq(Commands) /\ b \in Seq(BarrierRecords)
  BY DEF LedgerOf, WorkInv, BarrierInv
<1>3. /\ \A i \in DOMAIN b : b[i].call \in Calls
      /\ \A i \in DOMAIN w : w[i].call \in Calls
  BY <1>2, BarrierTyped, CommandTyped
<1> QED BY <1>1, <1>2, <1>3 DEF DrainInv

LEMMA HandleSame ==
  ASSUME NEW k, NEW w, NEW t, NEW u, HandleInv(k, w, t),
         u.handles = t.handles, u.subscriptions = t.subscriptions,
         \A c \in Calls : k[c].kind = Dr =>
           /\ u.answers[c] = t.answers[c]
           /\ c \in u.completed <=> c \in t.completed
  PROVE  HandleInv(k, w, u)
BY DEF HandleInv

\* The drain c of sid is resolved, whose handle is no longer in the table.
Dropped(k, t, u, sid, c) ==
  /\ k[c].sid = sid /\ t.subscriptions \subseteq DOMAIN t.handles
  /\ u.subscriptions \subseteq t.subscriptions /\ sid \notin u.subscriptions
  /\ u.completed = t.completed /\ DOMAIN u.handles = DOMAIN t.handles
  /\ \A s \in DOMAIN t.handles : s # sid => u.handles[s] = t.handles[s]
  /\ u.handles[sid].drain = None /\ u.handles[sid].waiter = None
  /\ \A d \in Calls : d # c => u.answers[d] = t.answers[d]

LEMMA HandleDropped ==
  ASSUME NEW k, NEW w, NEW t, NEW u, NEW sid, NEW c, HandleInv(k, w, t),
         Dropped(k, t, u, sid, c)
  PROVE  HandleInv(k, w, u)
<1>1. ASSUME NEW s \in DOMAIN t.handles, s # sid
      PROVE  /\ t.handles[s].drain # None => t.handles[s].drain # c
             /\ t.handles[s].waiter # None => t.handles[s].waiter # c
  BY <1>1 DEF HandleInv, Dropped
<1> QED BY <1>1 DEF HandleInv, Dropped

\* Only the table of requests changes.
Requesting(w, t, u) ==
  /\ u.answers = t.answers /\ u.setups = t.setups /\ u.handles = t.handles
  /\ u.subscriptions = t.subscriptions
  /\ \A i \in DOMAIN w : w[i].kind = "Request" =>
       \A s \in DOMAIN u.requests : u.requests[s] # w[i].call

LEMMA WorkRequests ==
  ASSUME NEW k, NEW w, NEW b, NEW t, NEW u, WorkInv(k, w, b, t), Requesting(w, t, u)
  PROVE  WorkInv(k, w, b, u)
BY DEF WorkInv, Requesting

LEMMA WorkHandles ==
  ASSUME NEW k, NEW w, NEW b, NEW t, NEW u, WorkInv(k, w, b, t),
         u.answers = t.answers, u.setups = t.setups, u.requests = t.requests,
         \A i \in DOMAIN w :
           w[i].kind \in {Dr, "Cancel_drain"} /\ w[i].sid \in u.subscriptions =>
             /\ w[i].sid \in t.subscriptions
             /\ u.handles[w[i].sid] = t.handles[w[i].sid]
  PROVE  WorkInv(k, w, b, u)
BY DEF WorkInv

-----------------------------------------------------------------------------
(* Steps that leave the ledger alone.                                      *)

Quiet(t, u) ==
  /\ Shape(u) /\ u.state.next_sid = t.state.next_sid
  /\ u.work = t.work /\ u.barriers = t.barriers /\ u.completed = t.completed
  /\ u.requests = t.requests /\ u.handles = t.handles
  /\ u.subscriptions = t.subscriptions
  /\ u.subscription_drains = t.subscription_drains
  /\ u.answers = t.answers /\ u.setups = t.setups

\* The ledger is about these fields only; the queue and the barriers are
\* those it is given.
SameFields(t, u) ==
  /\ Shape(u) /\ t.state.next_sid <= u.state.next_sid
  /\ u.completed = t.completed
  /\ u.requests = t.requests /\ u.handles = t.handles
  /\ u.subscriptions = t.subscriptions
  /\ u.subscription_drains = t.subscription_drains
  /\ u.answers = t.answers /\ u.setups = t.setups

LEMMA SameLedger ==
  ASSUME NEW k, NEW w, NEW b, NEW t, NEW u, LedgerOf(k, w, b, t), SameFields(t, u)
  PROVE  LedgerOf(k, w, b, u)
<1> USE DEF SameFields, LedgerOf
<1>1. Promises(u) BY DEF Promises
<1>2. WorkInv(k, w, b, u) BY DEF WorkInv
<1>3. RequestInv(k, u) BY DEF RequestInv
<1>4. BarrierInv(k, b, u) BY DEF BarrierInv
<1>5. DrainInv(k, w, b, u) BY DrainSame
<1>6. HandleInv(k, w, u) BY HandleSame
<1>7. SidInv(k, u)
  <2>1. t.state.next_sid \in Nat /\ u.state.next_sid \in Nat
    BY DEF Shape, CoreShape
  <2> QED BY <2>1 DEF SidInv
<1>8. IdleInv(k, u) BY DEF IdleInv
<1> QED BY <1>1, <1>2, <1>3, <1>4, <1>5, <1>6, <1>7, <1>8

LEMMA QuietKeeps ==
  ASSUME NEW k, NEW w, NEW b, NEW t, NEW u, LedgerOf(k, w, b, t), Quiet(t, u)
  PROVE  LedgerOf(k, w, b, u)
<1>1. t.state.next_sid \in Nat
  BY DEF LedgerOf, Shape, CoreShape
<1>2. SameFields(t, u)
  BY <1>1 DEF Quiet, SameFields
<1> QED BY <1>2, SameLedger, Zenon

LEMMA QuietTwice ==
  ASSUME NEW t, NEW u, NEW x, Quiet(t, u), Quiet(u, x)
  PROVE  Quiet(t, x)
BY DEF Quiet

LEMMA ForgetQuiet ==
  ASSUME NEW t, Shape(t), NEW sid
  PROVE  Quiet(t, forget(t, sid))
BY DEF Quiet, Shape, CoreShape, forget, forget_subscription

LEMMA WriteQuiet ==
  ASSUME NEW t, Shape(t), NEW output
  PROVE  Quiet(t, write_outputs(t, output))
BY DEF Quiet, Shape, CoreShape, write_outputs

LEMMA FlushPendingQuiet ==
  ASSUME NEW t, Shape(t)
  PROVE  Quiet(t, flush_reconnect_pending(t))
BY DEF Quiet, Shape, CoreShape, flush_reconnect_pending

LEMMA ErrorQuiet ==
  ASSUME NEW t, Shape(t), NEW error
  PROVE  Quiet(t, Error(t, error)) /\ Quiet(t, Cleared(t))
BY DEF Quiet, Shape, CoreShape, Error, Cleared

-----------------------------------------------------------------------------
(* Subscription handles and their drains.                                  *)

\* What steps on drains leave alone, and a step on the drain of sid.
DrainsFrame(k, t, u) ==
  /\ u.work = t.work /\ u.barriers = t.barriers /\ u.requests = t.requests
  /\ u.setups = t.setups /\ u.state.next_sid = t.state.next_sid
  /\ u.subscriptions \subseteq t.subscriptions
  /\ t.completed \subseteq u.completed
  /\ \A c \in u.completed : c \in t.completed \/ (c \in Calls /\ k[c].kind = Dr)
  /\ \A c \in Calls : k[c].kind # Dr => u.answers[c] = t.answers[c]

DrainFrame(k, sid, t, u) ==
  /\ DrainsFrame(k, t, u)
  /\ DOMAIN u.handles = DOMAIN t.handles
  /\ \A s \in DOMAIN t.handles : s # sid => u.handles[s] = t.handles[s]

\* Resolving a promise that is open.
LEMMA Resolved ==
  ASSUME NEW t, Shape(t), Promises(t), NEW c \in Calls, t.answers[c] = <<>>,
         NEW result \in Results, NEW u, u = resolve_unit(t, c, result)
  PROVE  /\ Shape(u) /\ Promises(u)
         /\ u = [t EXCEPT !.answers[c] = << result >>]
<1>1. Append(t.answers[c], result) = << result >>
  OBVIOUS
<1>2. u = [t EXCEPT !.answers[c] = << result >>]
  BY <1>1, Zenon DEF resolve_unit
<1>3. Shape(u)
  BY <1>2 DEF Shape, CoreShape
<1>4. Promises(u)
  BY <1>2 DEF Promises, Shape
<1> QED BY <1>2, <1>3, <1>4

\* The fields of a record in which the waiter c of sid has just completed.
CompletedAs(t, u, c, sid, result) ==
  /\ Shape(u)
  /\ u.work = t.work /\ u.barriers = t.barriers /\ u.requests = t.requests
  /\ u.setups = t.setups /\ u.state.next_sid = t.state.next_sid
  /\ u.completed = t.completed \cup {c}
  /\ u.answers = [t.answers EXCEPT ![c] = << result >>]
  /\ u.subscriptions = t.subscriptions \ {sid}
  /\ u.subscription_drains = Less(t.subscription_drains, sid)
  /\ DOMAIN u.handles = DOMAIN t.handles
  /\ \A s \in DOMAIN t.handles : s # sid => u.handles[s] = t.handles[s]
  /\ sid \in DOMAIN t.handles
       => /\ u.handles[sid].drain = None
          /\ u.handles[sid].waiter \in {None, t.handles[sid].waiter}

LEMMA CompletedKeeps ==
  ASSUME NEW k, NEW w, NEW b, NEW t, LedgerOf(k, w, b, t),
         NEW c \in Calls, k[c].kind = Dr, NEW sid, k[c].sid = sid,
         c \notin t.completed, sid \in DOMAIN t.handles, t.handles[sid].waiter = c,
         NEW result \in Results, NEW u, CompletedAs(t, u, c, sid, result)
  PROVE  LedgerOf(k, w, b, u) /\ DrainFrame(k, sid, t, u)
<1> USE DEF CompletedAs, Dr, Less
<1>0. t.answers[c] = <<>> /\ t.handles[sid].drain = c
  BY NoneAssumption, CallsAssumption DEF LedgerOf, HandleInv
<1>1. Promises(u)
  BY <1>0 DEF LedgerOf, Promises
<1>a. \A d \in Calls : k[d].kind # Dr => u.answers[d] = t.answers[d]
  BY <1>0 DEF LedgerOf, Promises
<1>b. \A s \in u.subscriptions : s \in t.subscriptions /\ u.handles[s] = t.handles[s]
  BY DEF LedgerOf, SidInv
<1>2. WorkInv(k, w, b, u)
  <2>1. WorkInv(k, w, b, t) /\ u.requests = t.requests /\ u.setups = t.setups
    BY DEF LedgerOf
  <2>2. ASSUME NEW i \in DOMAIN w
        PROVE  /\ w[i].kind \in AllKinds \ {Dr}
                    => u.answers[w[i].call] = <<>> /\ u.setups[w[i].call] = <<>>
               /\ w[i].kind = Dr /\ w[i].sid \in u.subscriptions
                    => u.handles[w[i].sid].drain = w[i].call
               /\ w[i].kind = "Cancel_drain" /\ w[i].sid \in u.subscriptions
                    => \/ u.handles[w[i].sid].waiter # None
                       \/ \E j \in 1..i - 1 : w[j].kind = Dr /\ w[j].sid = w[i].sid
    <3>1. w[i].call \in Calls
      BY <2>1, CommandTyped DEF WorkInv
    <3>2. w[i].kind \in AllKinds \ {Dr} => k[w[i].call].kind # Dr
      BY <2>1 DEF WorkInv
    <3> HIDE DEF CompletedAs, Dr
    <3> QED BY <1>a, <1>b, <2>1, <3>1, <3>2 DEF WorkInv
  <2> HIDE DEF CompletedAs, Dr
  <2> QED BY <2>1, <2>2, SMTT(60) DEF WorkInv
<1>3. RequestInv(k, u)
  BY <1>0, <1>1 DEF LedgerOf, RequestInv, Promises
<1>4. BarrierInv(k, b, u)
  BY <1>0, <1>1 DEF LedgerOf, BarrierInv, Promises, Barriers
<1>5. DrainInv(k, w, b, u)
  <2>1. Released(t, u, sid)
    BY DEF Released
  <2>2. \A s \in DOMAIN u.subscription_drains :
          /\ s \in DOMAIN t.subscription_drains
          /\ u.subscription_drains[s] = t.subscription_drains[s]
    OBVIOUS
  <2> QED BY <2>1, <2>2, DrainReleased
<1>6. HandleInv(k, w, u)
  <2>1. HandleInv(k, w, t) BY DEF LedgerOf
  <2>2. \A d \in Calls : d # c => u.answers[d] = t.answers[d]
    BY DEF LedgerOf, Promises
  <2>3. ASSUME NEW s \in DOMAIN u.handles, u.handles[s].drain # None
        PROVE  /\ u.handles[s].drain \in Calls
               /\ k[u.handles[s].drain].kind = Dr /\ k[u.handles[s].drain].sid = s
               /\ u.answers[u.handles[s].drain] = <<>>
    BY <2>1, <2>2, <2>3 DEF HandleInv
  <2>4. ASSUME NEW s \in DOMAIN u.handles, u.handles[s].waiter # None
        PROVE  /\ u.handles[s].waiter \in Calls
               /\ k[u.handles[s].waiter].kind = Dr /\ k[u.handles[s].waiter].sid = s
               /\ u.handles[s].waiter \notin u.completed
                    => /\ u.answers[u.handles[s].waiter] = <<>>
                       /\ u.handles[s].drain = u.handles[s].waiter
    BY <2>1, <2>2, <2>4 DEF HandleInv
  <2>5. ASSUME NEW d \in Calls, k[d].kind = Dr, k[d].sid \in u.subscriptions
        PROVE  /\ d \notin u.completed
               /\ u.answers[d] = <<>>
                    => \/ u.handles[k[d].sid].waiter # None
                       \/ \E j \in DOMAIN w : w[j].kind = Dr /\ w[j].sid = k[d].sid
    <3>1. d # c
      BY <2>5
    <3> QED BY <1>b, <2>1, <2>2, <2>5, <3>1 DEF HandleInv
  <2> QED BY <2>3, <2>4, <2>5 DEF HandleInv
<1>7. SidInv(k, u)
  BY <1>0, <1>1 DEF LedgerOf, SidInv
<1>8. IdleInv(k, u)
  BY <1>0, <1>1 DEF LedgerOf, IdleInv, Promises
<1>9. DrainFrame(k, sid, t, u)
  BY <1>0, <1>1 DEF DrainFrame, DrainsFrame, LedgerOf, Promises
<1> QED BY <1>1, <1>2, <1>3, <1>4, <1>5, <1>6, <1>7, <1>8, <1>9 DEF LedgerOf


\* Completing a waiter, which has been armed unless it completed before.
LEMMA CompleteWaiterKeeps ==
  ASSUME NEW k, NEW w, NEW b, NEW t, LedgerOf(k, w, b, t),
         NEW c \in Calls, k[c].kind = Dr, NEW sid, k[c].sid = sid,
         Armed(k, t, c), NEW result \in Results,
         NEW u, u = complete_drain_waiter(t, c, sid, result)
  PROVE  /\ LedgerOf(k, w, b, u) /\ DrainFrame(k, sid, t, u)
         /\ sid \notin u.subscriptions
<1>1. CASE c \in t.completed
  <2>1. u = t
    BY <1>1 DEF complete_drain_waiter, is_completed
  <2>2. sid \notin t.subscriptions
    BY <1>1 DEF LedgerOf, HandleInv
  <2> QED BY <2>1, <2>2 DEF DrainFrame, DrainsFrame
<1>2. CASE c \notin t.completed
  <2>1. sid \in DOMAIN t.handles /\ t.handles[sid].waiter = c
    BY <1>2 DEF Armed
  <2>2. t.answers[c] = <<>>
    BY <1>2, <2>1, NoneAssumption, CallsAssumption DEF LedgerOf, HandleInv
  <2> DEFINE f == forget(t, sid)
             e == [f EXCEPT !.completed = @ \cup {c},
                            !.handles[sid].drain = None,
                            !.subscription_drains = Less(@, sid),
                            !.subscriptions = @ \ {sid}]
  <2>3. Quiet(t, f)
    BY ForgetQuiet DEF LedgerOf
  <2>4. /\ Shape(e) /\ Promises(e) /\ e.answers = t.answers
        /\ e.work = t.work /\ e.barriers = t.barriers /\ e.requests = t.requests
        /\ e.setups = t.setups /\ e.state.next_sid = t.state.next_sid
        /\ e.completed = t.completed \cup {c}
        /\ e.subscriptions = t.subscriptions \ {sid}
        /\ e.subscription_drains = Less(t.subscription_drains, sid)
        /\ DOMAIN e.handles = DOMAIN t.handles
        /\ \A s \in DOMAIN t.handles : s # sid => e.handles[s] = t.handles[s]
        /\ e.handles[sid].drain = None
        /\ e.handles[sid].waiter = t.handles[sid].waiter
    <3> HIDE DEF f
    <3> QED BY <2>1, <2>3 DEF LedgerOf, Quiet, Shape, CoreShape, Promises
  <2>5. u = resolve_unit(e, c, result)
    BY <1>2 DEF complete_drain_waiter, is_completed
  <2> HIDE DEF e, f
  <2>6. Shape(u) /\ u = [e EXCEPT !.answers[c] = << result >>]
    BY <2>2, <2>4, <2>5, AreResults, Resolved
  <2>7. CompletedAs(t, u, c, sid, result)
    BY <2>1, <2>4, <2>6 DEF CompletedAs, Shape
  <2>8. LedgerOf(k, w, b, u) /\ DrainFrame(k, sid, t, u)
    BY <1>2, <2>1, <2>7, CompletedKeeps
  <2> QED BY <2>7, <2>8 DEF CompletedAs
<1> QED BY <1>1, <1>2


\* complete_drain clears the handle first; c is its waiter.
LEMMA CompleteDrainKeeps ==
  ASSUME NEW k, NEW w, NEW b, NEW t, LedgerOf(k, w, b, t),
         NEW c \in Calls, k[c].kind = Dr, NEW sid, k[c].sid = sid,
         sid \in DOMAIN t.handles, t.handles[sid].waiter = c,
         NEW result \in Results,
         NEW u, u = complete_drain(t, c, sid, result)
  PROVE  /\ LedgerOf(k, w, b, u) /\ DrainFrame(k, sid, t, u)
         /\ sid \notin u.subscriptions
<1> DEFINE v1 == [t EXCEPT !.handles[sid].waiter = None,
                           !.handles[sid].drain = None]
<1>1. u = complete_drain_waiter(v1, c, sid, result)
  BY DEF complete_drain
<1>2. /\ Shape(v1) /\ v1.answers = t.answers /\ v1.work = t.work
      /\ v1.barriers = t.barriers /\ v1.requests = t.requests
      /\ v1.setups = t.setups /\ v1.state = t.state
      /\ v1.completed = t.completed /\ v1.subscriptions = t.subscriptions
      /\ v1.subscription_drains = t.subscription_drains
      /\ DOMAIN v1.handles = DOMAIN t.handles
      /\ \A s \in DOMAIN t.handles : s # sid => v1.handles[s] = t.handles[s]
      /\ v1.handles[sid].drain = None /\ v1.handles[sid].waiter = None
  BY DEF LedgerOf, Shape, CoreShape
<1> HIDE DEF v1
<1>3. CASE c \in t.completed
  <2>1. u = v1
    BY <1>1, <1>2, <1>3 DEF complete_drain_waiter, is_completed
  <2>2. sid \notin t.subscriptions
    BY <1>3 DEF LedgerOf, HandleInv
  <2>3. /\ Shape(u) /\ Promises(u) /\ RequestInv(k, u) /\ BarrierInv(k, b, u)
        /\ SidInv(k, u) /\ IdleInv(k, u)
    BY <1>2, <2>1 DEF LedgerOf, Promises, RequestInv, BarrierInv, SidInv, IdleInv
  <2>4. WorkInv(k, w, b, u)
    BY <1>2, <2>1, <2>2 DEF LedgerOf, WorkInv, SidInv
  <2>5. HandleInv(k, w, u)
    <3>1. HandleInv(k, w, t) /\ t.subscriptions \subseteq DOMAIN t.handles
      BY DEF LedgerOf, SidInv
    <3>2. Dropped(k, t, u, sid, c)
      BY <1>2, <2>1, <2>2, <3>1 DEF Dropped
    <3> QED BY <3>1, <3>2, HandleDropped
  <2>6. DrainInv(k, w, b, u)
    <3>1. Released(t, u, sid)
      BY <1>2, <1>3, <2>1 DEF Released
    <3>2. u.subscription_drains = t.subscription_drains
      BY <1>2, <2>1
    <3> QED BY <3>1, <3>2, DrainReleased
  <2> QED BY <1>2, <2>1, <2>2, <2>3, <2>4, <2>5, <2>6 DEF LedgerOf, DrainFrame, DrainsFrame
<1>4. CASE c \notin t.completed
  <2>2. t.answers[c] = <<>>
    BY <1>4, NoneAssumption, CallsAssumption DEF LedgerOf, HandleInv
  <2> DEFINE f == forget(v1, sid)
             e == [f EXCEPT !.completed = @ \cup {c},
                            !.handles[sid].drain = None,
                            !.subscription_drains = Less(@, sid),
                            !.subscriptions = @ \ {sid}]
  <2>3. Quiet(v1, f)
    BY <1>2, ForgetQuiet
  <2>4. /\ Shape(e) /\ Promises(e) /\ e.answers = t.answers
        /\ e.work = t.work /\ e.barriers = t.barriers /\ e.requests = t.requests
        /\ e.setups = t.setups /\ e.state.next_sid = t.state.next_sid
        /\ e.completed = t.completed \cup {c}
        /\ e.subscriptions = t.subscriptions \ {sid}
        /\ e.subscription_drains = Less(t.subscription_drains, sid)
        /\ DOMAIN e.handles = DOMAIN t.handles
        /\ \A s \in DOMAIN t.handles : s # sid => e.handles[s] = t.handles[s]
        /\ e.handles[sid].drain = None /\ e.handles[sid].waiter = None
    <3> HIDE DEF f
    <3> QED BY <1>2, <2>3 DEF LedgerOf, Quiet, Shape, CoreShape, Promises
  <2>5. u = resolve_unit(e, c, result)
    BY <1>1, <1>2, <1>4 DEF complete_drain_waiter, is_completed
  <2> HIDE DEF e, f
  <2>6. Shape(u) /\ u = [e EXCEPT !.answers[c] = << result >>]
    BY <2>2, <2>4, <2>5, AreResults, Resolved
  <2>7. CompletedAs(t, u, c, sid, result)
    BY <2>4, <2>6 DEF CompletedAs, Shape
  <2>8. LedgerOf(k, w, b, u) /\ DrainFrame(k, sid, t, u)
    BY <1>4, <2>7, CompletedKeeps
  <2> QED BY <2>7, <2>8 DEF CompletedAs
<1> QED BY <1>3, <1>4

\* A drain that is not armed is failed only when its handle is closed: its
\* command is dropped when it comes up.
LEMMA FailPendingDrainKeeps ==
  ASSUME NEW k, NEW w, NEW b, NEW t, LedgerOf(k, w, b, t),
         NEW sid \in DOMAIN t.handles,
         sid \in t.subscriptions => t.handles[sid].waiter # None,
         NEW u, u = fail_pending_drain(t, sid)
  PROVE  /\ LedgerOf(k, w, b, u) /\ DrainFrame(k, sid, t, u)
         /\ sid \notin u.subscriptions
<1> DEFINE h == t.handles[sid]
<1>1. CASE h.waiter # None
  <2>1. h.waiter \in Calls /\ k[h.waiter].kind = Dr /\ k[h.waiter].sid = sid
    BY <1>1 DEF LedgerOf, HandleInv
  <2>2. u = complete_drain(t, h.waiter, sid, "Error")
    BY <1>1 DEF fail_pending_drain
  <2> QED BY <2>1, <2>2, AreResults, CompleteDrainKeeps
<1>2. CASE h.waiter = None /\ h.drain # None
  <2> DEFINE c == h.drain
             e == [t EXCEPT !.handles[sid].drain = None]
  <2>1. /\ c \in Calls /\ k[c].kind = Dr /\ k[c].sid = sid
        /\ t.answers[c] = <<>> /\ sid \notin t.subscriptions
    BY <1>2 DEF LedgerOf, HandleInv
  <2>2. /\ Shape(e) /\ Promises(e) /\ e.answers = t.answers /\ e.work = t.work
        /\ e.barriers = t.barriers /\ e.requests = t.requests
        /\ e.setups = t.setups /\ e.state = t.state
        /\ e.completed = t.completed /\ e.subscriptions = t.subscriptions
        /\ e.subscription_drains = t.subscription_drains
        /\ DOMAIN e.handles = DOMAIN t.handles
        /\ \A s \in DOMAIN t.handles : s # sid => e.handles[s] = t.handles[s]
        /\ e.handles[sid].drain = None /\ e.handles[sid].waiter = None
    BY <1>2 DEF LedgerOf, Shape, CoreShape, Promises
  <2>3. u = resolve_unit(e, c, "Error")
    BY <1>2 DEF fail_pending_drain, fail_waiter
  <2> HIDE DEF e
  <2>4. Shape(u) /\ Promises(u) /\ u = [e EXCEPT !.answers[c] = << "Error" >>]
    BY <2>1, <2>2, <2>3, AreResults, Resolved
  <2>5. /\ u.answers = [t.answers EXCEPT ![c] = << "Error" >>]
        /\ u.work = t.work /\ u.barriers = t.barriers /\ u.requests = t.requests
        /\ u.setups = t.setups /\ u.state = t.state
        /\ u.completed = t.completed /\ u.subscriptions = t.subscriptions
        /\ u.subscription_drains = t.subscription_drains
        /\ DOMAIN u.handles = DOMAIN t.handles
        /\ \A s \in DOMAIN t.handles : s # sid => u.handles[s] = t.handles[s]
        /\ u.handles[sid].drain = None /\ u.handles[sid].waiter = None
    BY <2>2, <2>4 DEF Shape
  <2>6. \A d \in Calls : d # c => u.answers[d] = t.answers[d]
    BY <2>5 DEF LedgerOf, Promises
  <2>7. WorkInv(k, w, b, u)
    <3>1. WorkInv(k, w, b, t)
      BY DEF LedgerOf
    <3>2. \A s \in u.subscriptions : s \in t.subscriptions
                                     /\ u.handles[s] = t.handles[s]
      BY <2>1, <2>5 DEF LedgerOf, SidInv
    <3>3. \A i \in DOMAIN w : w[i].kind \in AllKinds \ {Dr} =>
            u.answers[w[i].call] = <<>> /\ u.setups[w[i].call] = <<>>
      BY <2>1, <2>5, <2>6, <3>1, CommandTyped DEF WorkInv
    <3> QED BY <2>5, <3>1, <3>2, <3>3, SMTT(60) DEF WorkInv
  <2>8. RequestInv(k, u)
    BY <2>1, <2>5, <2>6 DEF LedgerOf, RequestInv, Dr
  <2>9. BarrierInv(k, b, u)
    BY <2>1, <2>5, <2>6, BarrierTyped DEF LedgerOf, BarrierInv, Barriers, Dr
  <2>10. DrainInv(k, w, b, u)
    <3>1. Released(t, u, sid)
      BY <1>2, <2>5 DEF Released
    <3>2. u.subscription_drains = t.subscription_drains
      BY <2>5
    <3> QED BY <3>1, <3>2, DrainReleased
  <2>11. HandleInv(k, w, u)
    <3>1. HandleInv(k, w, t) /\ t.subscriptions \subseteq DOMAIN t.handles
      BY DEF LedgerOf, SidInv
    <3>2. Dropped(k, t, u, sid, c)
      BY <2>1, <2>5, <2>6, <3>1 DEF Dropped
    <3> QED BY <3>1, <3>2, HandleDropped
  <2>12. SidInv(k, u)
    BY <2>5 DEF LedgerOf, SidInv
  <2>13. IdleInv(k, u)
    BY <2>1, <2>5, <2>6 DEF LedgerOf, IdleInv, Dr
  <2>14. DrainFrame(k, sid, t, u)
    BY <2>1, <2>5, <2>6 DEF DrainFrame, DrainsFrame
  <2> QED BY <2>1, <2>4, <2>5, <2>7, <2>8, <2>9, <2>10, <2>11, <2>12, <2>13, <2>14
          DEF LedgerOf
<1>3. CASE h.waiter = None /\ h.drain = None
  <2>1. u = t /\ sid \notin t.subscriptions
    BY <1>3 DEF fail_pending_drain
  <2> QED BY <2>1 DEF DrainFrame, DrainsFrame
<1> QED BY <1>1, <1>2, <1>3


LEMMA DrainsFrameTwice ==
  ASSUME NEW k, NEW t, NEW u, NEW x, DrainsFrame(k, t, u), DrainsFrame(k, u, x)
  PROVE  DrainsFrame(k, t, x)
BY DEF DrainsFrame

LEMMA CloseSubscriptionKeeps ==
  ASSUME NEW k, NEW w, NEW b, NEW t, LedgerOf(k, w, b, t), NEW sid,
         NEW u, u = close_subscription(t, sid)
  PROVE  /\ LedgerOf(k, w, b, u) /\ DrainsFrame(k, t, u)
         /\ sid \notin u.subscriptions
<1>1. CASE sid \notin t.subscriptions
  <2>1. u = t
    BY <1>1 DEF close_subscription
  <2> QED BY <1>1, <2>1 DEF DrainsFrame
<1>2. CASE sid \in t.subscriptions
  <2> DEFINE e == [t EXCEPT !.subscriptions = @ \ {sid}]
  <2>1. /\ Shape(e) /\ e.answers = t.answers /\ e.work = t.work
        /\ e.barriers = t.barriers /\ e.requests = t.requests
        /\ e.setups = t.setups /\ e.state = t.state /\ e.completed = t.completed
        /\ e.subscriptions = t.subscriptions \ {sid} /\ e.handles = t.handles
        /\ e.subscription_drains = t.subscription_drains
    BY DEF LedgerOf, Shape, CoreShape
  <2> HIDE DEF e
  <2>2. LedgerOf(k, w, b, e)
    <3>1. /\ Promises(e) /\ RequestInv(k, e) /\ BarrierInv(k, b, e)
          /\ DrainInv(k, w, b, e) /\ SidInv(k, e) /\ IdleInv(k, e)
      <4>1. DrainInv(k, w, b, e)
        BY <2>1, DrainSame DEF LedgerOf
      <4> QED BY <2>1, <4>1 DEF LedgerOf, Promises, RequestInv, BarrierInv, SidInv,
                               IdleInv
    <3>2. WorkInv(k, w, b, e)
      BY <2>1 DEF LedgerOf, WorkInv
    <3>3. HandleInv(k, w, e)
      BY <2>1 DEF LedgerOf, HandleInv
    <3> QED BY <2>1, <3>1, <3>2, <3>3 DEF LedgerOf
  <2>3. u = fail_pending_drain(e, sid)
    BY <1>2, Zenon DEF close_subscription, e
  <2>4. sid \in DOMAIN e.handles /\ sid \notin e.subscriptions
    BY <1>2, <2>1 DEF LedgerOf, SidInv
  <2>5. /\ LedgerOf(k, w, b, u) /\ DrainFrame(k, sid, e, u)
        /\ sid \notin u.subscriptions
    BY <2>2, <2>3, <2>4, FailPendingDrainKeeps
  <2>6. DrainsFrame(k, t, e)
    BY <2>1 DEF DrainsFrame
  <2> QED BY <2>5, <2>6, DrainsFrameTwice DEF DrainFrame
<1> QED BY <1>1, <1>2

\* The sids of tables are bounded numbers.
LEMMA SidsBounded ==
  ASSUME NEW k, NEW w, NEW b, NEW t, LedgerOf(k, w, b, t), NEW S,
         S \subseteq t.subscriptions \cup DOMAIN t.requests
                       \cup DOMAIN t.subscription_drains
  PROVE  t.state.next_sid \in Nat /\ S \in SUBSET (0..t.state.next_sid)
<1>1. \A s \in S : s \in Nat /\ s < t.state.next_sid
  <2>1. SidInv(k, t) /\ DrainInv(k, w, b, t)
    BY DEF LedgerOf
  <2>2. \A s \in DOMAIN t.subscription_drains :
          \E c \in Calls : k[c].sid = s
    BY <2>1 DEF DrainInv
  <2> TAKE s \in S
  <2>3. CASE s \in t.subscriptions \cup DOMAIN t.requests
    <3> HIDE DEF LedgerOf
    <3> QED BY <2>1, <2>3 DEF SidInv
  <2>4. CASE s \in DOMAIN t.subscription_drains
    <3>1. PICK c \in Calls : k[c].sid = s
      BY <2>2, <2>4
    <3>2. k[c].sid \in Nat /\ k[c].sid < t.state.next_sid
      BY <2>1 DEF SidInv
    <3> QED BY <3>1, <3>2
  <2> QED BY <2>3, <2>4
<1>2. t.state.next_sid \in Nat
  BY DEF LedgerOf, Shape, CoreShape
<1> QED BY <1>1, <1>2

Closing(a, t, sid) == close_subscription(t, sid)
Closed(a, s, t) ==
  /\ LedgerOf(a.k, a.w, a.b, t) /\ DrainsFrame(a.k, a.t, t)
  /\ t.subscriptions \cap s = {}
LEMMA NaturalInduction ==
  \A S : 0 \in S /\ (\A n \in Nat : n \in S => n + 1 \in S) => \A n \in Nat : n \in S
BY SetInduction

Closings == INSTANCE FoldLemmas WITH op <- Closing, R <- Closed

LEMMA CloseSubscriptionsKeeps ==
  ASSUME NEW k, NEW w, NEW b, NEW t, LedgerOf(k, w, b, t),
         NEW sids \in SUBSET t.subscriptions,
         NEW u, u = close_subscriptions(t, sids)
  PROVE  /\ LedgerOf(k, w, b, u) /\ DrainsFrame(k, t, u)
         /\ u.subscriptions \cap sids = {}
<1> DEFINE a == [k |-> k, w |-> w, b |-> b, t |-> t]
<1>1. Closed(a, {}, t)
  BY DEF Closed, DrainsFrame
<1>2. ASSUME NEW s \in SUBSET sids, NEW x \in sids \ s, NEW v1, Closed(a, s, v1)
      PROVE  Closed(a, s \cup {x}, Closing(a, v1, x))
  <2> DEFINE y == close_subscription(v1, x)
  <2>1. /\ LedgerOf(k, w, b, y) /\ DrainsFrame(k, v1, y) /\ x \notin y.subscriptions
    <3> HIDE DEF y
    <3>1. y = close_subscription(v1, x)
      BY DEF y
    <3> QED BY <1>2, <3>1, CloseSubscriptionKeeps DEF Closed
  <2>2. y.subscriptions \subseteq v1.subscriptions /\ v1.subscriptions \cap s = {}
    BY <1>2, <2>1 DEF Closed, DrainsFrame
  <2>3. DrainsFrame(k, t, y)
    BY <1>2, <2>1, DrainsFrameTwice DEF Closed
  <2> HIDE DEF y
  <2> QED BY <2>1, <2>2, <2>3 DEF Closed, Closing, y
<1>3. t.state.next_sid \in Nat /\ sids \in SUBSET (0..t.state.next_sid)
  BY SidsBounded
<1> HIDE DEF a
<1>4. Closings!NumbersClaim(0, a, t, sids)
  BY <1>1, <1>2 DEF Closings!NumbersClaim, Closing
<1>5. Closed(a, sids, Closings!OverNumbers(0, t, sids))
  BY <1>3, <1>4, NaturalInduction, Closings!NumbersFold, Zenon
     DEF Closings!Inductive
<1>6. u = Closings!OverNumbers(0, t, sids)
  BY Zenon DEF Closings!OverNumbers, close_subscriptions, OverSids,
               MapThenFoldSet, Max, Closing
<1> QED BY <1>5, <1>6 DEF Closed, a


-----------------------------------------------------------------------------
(* Resolving the promises of other calls.                                  *)

\* A call other than a drain of a subscription whose promise is open, and
\* which no command and no request keeps.
Open(k, w, t, c) ==
  /\ c \in Calls /\ k[c].kind \notin {Dr, "idle"} /\ t.answers[c] = <<>>
  /\ \A i \in DOMAIN w : w[i].kind \in AllKinds => w[i].call # c
  /\ \A s \in DOMAIN t.requests : t.requests[s] # c

\* One that nothing in the ledger keeps.
InHand(k, w, b, t, c) ==
  /\ Open(k, w, t, c)
  /\ \A i \in DOMAIN b : b[i].kind \in Barriers => b[i].call # c

\* A set of open calls, of which those in done are marked completed: among
\* them each flush that keeps its barrier.
OpenCalls(k, w, b, t, cs, done) ==
  /\ done \in SUBSET cs /\ \A c \in cs : Open(k, w, t, c)
  /\ \A i \in DOMAIN b : b[i].kind \in Barriers /\ b[i].call \in cs
                          => b[i].kind = "Flush" /\ b[i].call \in done

ResolvedAs(t, u, cs, done, r) ==
  /\ Shape(u) /\ u.state.next_sid = t.state.next_sid
  /\ u.completed = t.completed \cup done /\ u.requests = t.requests
  /\ u.handles = t.handles /\ u.subscriptions = t.subscriptions
  /\ u.subscription_drains = t.subscription_drains /\ u.setups = t.setups
  /\ u.answers = [c \in Calls |-> IF c \in cs THEN << r >> ELSE t.answers[c]]

\* Resolving the promises of such calls.
LEMMA ResolvedKeeps ==
  ASSUME NEW k, NEW w, NEW b, NEW t, LedgerOf(k, w, b, t), NEW cs, NEW done,
         OpenCalls(k, w, b, t, cs, done), NEW r \in Results,
         NEW u, ResolvedAs(t, u, cs, done, r)
  PROVE  LedgerOf(k, w, b, u)
<1> USE DEF OpenCalls, ResolvedAs
<1>1. \A c \in Calls : c \notin cs => u.answers[c] = t.answers[c]
  OBVIOUS
<1>2. \A c \in Calls : k[c].kind \in {Dr, "idle"} => c \notin cs
  BY DEF Open
<1>a. cs \subseteq Calls /\ \A c \in cs : u.answers[c] # <<>>
  BY DEF Open
<1>3. Promises(u)
  <2>1. << r >> \in Seq(Results) /\ Len(<< r >>) = 1
    OBVIOUS
  <2>2. \A c \in Calls : /\ u.answers[c] \in Seq(Results)
                         /\ Len(u.answers[c]) <= 1
    <3> TAKE c \in Calls
    <3> DEFINE e == << r >>
    <3>1. e \in Seq(Results) /\ Len(e) = 1 /\ c \in cs => u.answers[c] = e
      BY <2>1
    <3> HIDE DEF e
    <3>2. t.answers[c] \in Seq(Results) /\ Len(t.answers[c]) <= 1
      BY DEF LedgerOf, Promises
    <3>3. e \in Seq(Results) /\ Len(e) = 1
      BY <2>1 DEF e
    <3> QED BY <1>1, <3>1, <3>2, <3>3
  <2>3. u.answers \in [Calls -> Seq(Results)]
    BY <2>2
  <2> QED BY <2>2, <2>3 DEF LedgerOf, Promises
<1>4. WorkInv(k, w, b, u)
  <2>1. WorkInv(k, w, b, t)
    BY DEF LedgerOf
  <2>2. \A i \in DOMAIN w : w[i].kind \in AllKinds =>
          u.answers[w[i].call] = t.answers[w[i].call]
    BY <1>1, <2>1, CommandTyped DEF WorkInv, Open
  <2>3. \A i \in DOMAIN w : w[i].kind \in AllKinds \ {Dr} =>
          u.answers[w[i].call] = <<>> /\ u.setups[w[i].call] = <<>>
    <3> TAKE i \in DOMAIN w
    <3> HAVE w[i].kind \in AllKinds \ {Dr}
    <3>1. t.answers[w[i].call] = <<>> /\ t.setups[w[i].call] = <<>>
      BY <2>1 DEF WorkInv
    <3> QED BY <2>2, <3>1
  <2> QED BY <2>1, <2>3, SMTT(60) DEF WorkInv
<1>5. RequestInv(k, u)
  BY <1>1 DEF LedgerOf, RequestInv, Open
<1>6. BarrierInv(k, b, u)
  <2>1. BarrierInv(k, b, t)
    BY DEF LedgerOf
  <2>2. ASSUME NEW i \in DOMAIN b
        PROVE  /\ b[i].kind \in Barriers /\ b[i].call \notin u.completed
                    => u.answers[b[i].call] = <<>>
               /\ b[i].kind = "Drain" => b[i].call \notin u.completed
    <3>1. b[i].call \in Calls
      BY <2>1, BarrierTyped DEF BarrierInv
    <3>2. b[i].kind \in Barriers /\ b[i].call \notin u.completed
            => b[i].call \notin cs
      OBVIOUS
    <3>3. b[i].kind = "Drain" => b[i].call \notin cs
      BY DEF Barriers
    <3> QED BY <1>1, <2>1, <3>1, <3>2, <3>3 DEF BarrierInv
  <2> QED BY <2>1, <2>2 DEF BarrierInv
<1>7. DrainInv(k, w, b, u)
  BY DrainSame DEF LedgerOf
<1>8. HandleInv(k, w, u)
  <2>1. HandleInv(k, w, t)
    BY DEF LedgerOf
  <2>2. \A c \in Calls : k[c].kind = Dr =>
          /\ u.answers[c] = t.answers[c]
          /\ c \in u.completed <=> c \in t.completed
    BY <1>1, <1>2
  <2> QED BY <2>1, <2>2, HandleSame
<1>9. SidInv(k, u)
  BY DEF LedgerOf, SidInv
<1>10. IdleInv(k, u)
  BY <1>1, <1>2, <1>a DEF LedgerOf, IdleInv
<1> QED BY <1>3, <1>4, <1>5, <1>6, <1>7, <1>8, <1>9, <1>10 DEF LedgerOf

\* What resolving a promise leaves alone.
OnlyAnswers(t, u) ==
  /\ u.work = t.work /\ u.barriers = t.barriers /\ u.setups = t.setups
  /\ u.completed = t.completed /\ u.requests = t.requests
  /\ u.handles = t.handles /\ u.subscriptions = t.subscriptions
  /\ u.subscription_drains = t.subscription_drains /\ u.state = t.state

LEMMA ResolveKeeps ==
  ASSUME NEW k, NEW w, NEW b, NEW t, LedgerOf(k, w, b, t), NEW c,
         InHand(k, w, b, t, c), NEW r \in Results,
         NEW u, u = resolve_unit(t, c, r)
  PROVE  /\ LedgerOf(k, w, b, u) /\ OnlyAnswers(t, u)
         /\ u.answers = [t.answers EXCEPT ![c] = << r >>]
<1>1. c \in Calls /\ t.answers[c] = <<>> /\ Shape(t) /\ Promises(t)
  BY DEF InHand, Open, LedgerOf
<1>2. Shape(u) /\ u = [t EXCEPT !.answers[c] = << r >>]
  BY <1>1, AreResults, Resolved
<1>3. /\ u.answers = [t.answers EXCEPT ![c] = << r >>] /\ OnlyAnswers(t, u)
  BY <1>1, <1>2 DEF Shape, OnlyAnswers
<1>4. OpenCalls(k, w, b, t, {c}, {})
  BY DEF InHand, OpenCalls
<1>5. ResolvedAs(t, u, {c}, {}, r)
  BY <1>1, <1>2, <1>3 DEF Promises, ResolvedAs, OnlyAnswers
<1>6. LedgerOf(k, w, b, u)
  BY <1>4, <1>5, ResolvedKeeps, Zenon
<1> QED BY <1>3, <1>6

LEMMA FailKeeps ==
  ASSUME NEW k, NEW w, NEW b, NEW t, LedgerOf(k, w, b, t), NEW c,
         InHand(k, w, b, t, c), NEW u, u = fail_waiter(t, c)
  PROVE  LedgerOf(k, w, b, u) /\ OnlyAnswers(t, u)
<1>1. u = resolve_unit(t, c, "Error") 
  BY DEF fail_waiter
<1> QED BY <1>1, ResolveKeeps, AreResults, Zenon

LEMMA AnswerKeeps ==
  ASSUME NEW k, NEW w, NEW b, NEW t, LedgerOf(k, w, b, t), NEW c,
         InHand(k, w, b, t, c), NEW u, u = resolve_unit(t, c, "Ok")
  PROVE  LedgerOf(k, w, b, u) /\ OnlyAnswers(t, u)
BY ResolveKeeps, AreResults, Zenon

LEMMA FailWaitersIs ==
  ASSUME NEW t, Shape(t), Promises(t), NEW cs,
         \A c \in cs : t.answers[c] = <<>>,
         NEW u, u = fail_waiters(t, cs)
  PROVE  ResolvedAs(t, u, cs, {}, "Error") /\ OnlyAnswers(t, u)
<1>1. Append(<<>>, "Error") = << "Error" >>
  OBVIOUS
<1>2. \A c \in Calls : (IF c \in cs THEN Append(t.answers[c], "Error")
                        ELSE t.answers[c])
                       = IF c \in cs THEN << "Error" >> ELSE t.answers[c]
  BY <1>1, Zenon
<1>3. u = [t EXCEPT !.answers = [c \in Calls |-> IF c \in cs THEN << "Error" >>
                                                 ELSE t.answers[c]]]
  BY <1>2, Zenon DEF fail_waiters
<1>4. /\ Shape(u) /\ OnlyAnswers(t, u)
      /\ u.answers = [c \in Calls |-> IF c \in cs THEN << "Error" >>
                                      ELSE t.answers[c]]
  BY <1>3 DEF Shape, CoreShape, OnlyAnswers
<1> QED BY <1>4 DEF ResolvedAs, OnlyAnswers

\* A call that no command keeps, whose first promise is open.
Unasked(k, w, t, c) ==
  /\ c \in Calls /\ k[c].kind # "idle" /\ t.setups[c] = <<>>
  /\ \A i \in DOMAIN w : w[i].kind \in AllKinds => w[i].call # c

OnlySetups(t, u) ==
  /\ u.work = t.work /\ u.barriers = t.barriers /\ u.answers = t.answers
  /\ u.completed = t.completed /\ u.requests = t.requests
  /\ u.handles = t.handles /\ u.subscriptions = t.subscriptions
  /\ u.subscription_drains = t.subscription_drains /\ u.state = t.state

\* The first promise of a request is resolved before the second.
LEMMA SetupKeeps ==
  ASSUME NEW k, NEW w, NEW b, NEW t, LedgerOf(k, w, b, t), NEW c,
         Unasked(k, w, t, c), NEW r \in Results, NEW u, u = resolve_setup(t, c, r)
  PROVE  LedgerOf(k, w, b, u) /\ OnlySetups(t, u)
<1> USE DEF Unasked
<1>1. Append(t.setups[c], r) = << r >>
  OBVIOUS
<1>2. u = [t EXCEPT !.setups[c] = << r >>]
  BY <1>1, Zenon DEF resolve_setup
<1>3. /\ Shape(u) /\ u.setups = [t.setups EXCEPT ![c] = << r >>]
      /\ OnlySetups(t, u)
  BY <1>2 DEF LedgerOf, Shape, CoreShape, OnlySetups
<1> USE DEF OnlySetups
<1>4. Promises(u)
  BY <1>3 DEF LedgerOf, Promises
<1>5. \A d \in Calls : d # c => u.setups[d] = t.setups[d]
  BY <1>3 DEF LedgerOf, Promises
<1>6. WorkInv(k, w, b, u)
  <2>1. WorkInv(k, w, b, t)
    BY DEF LedgerOf
  <2>2. \A i \in DOMAIN w : w[i].kind \in AllKinds \ {Dr} =>
          u.answers[w[i].call] = <<>> /\ u.setups[w[i].call] = <<>>
    BY <1>3, <1>5, <2>1, CommandTyped DEF WorkInv
  <2> QED BY <1>3, <2>1, <2>2, SMTT(60) DEF WorkInv
<1>7. /\ RequestInv(k, u) /\ BarrierInv(k, b, u) /\ DrainInv(k, w, b, u)
      /\ HandleInv(k, w, u) /\ SidInv(k, u)
  <2>1. DrainInv(k, w, b, u) /\ HandleInv(k, w, u)
    BY <1>3, DrainSame, HandleSame DEF LedgerOf
  <2> QED BY <1>3, <2>1 DEF LedgerOf, RequestInv, BarrierInv, SidInv
<1>8. IdleInv(k, u)
  BY <1>3, <1>5 DEF LedgerOf, IdleInv
<1> QED BY <1>3, <1>4, <1>6, <1>7, <1>8 DEF LedgerOf

-----------------------------------------------------------------------------
(* Taking a command or a barrier up.                                       *)

\* What is left of a sequence after its first n elements.
From(seq, n) == [i \in 1..Len(seq) - n |-> seq[i + n]]

LEMMA FromIs ==
  ASSUME NEW T, NEW seq \in Seq(T)
  PROVE  /\ From(seq, 0) = seq /\ From(seq, Len(seq)) = <<>>
         /\ \A n \in 0..Len(seq) : /\ From(seq, n) \in Seq(T)
                                   /\ Len(From(seq, n)) = Len(seq) - n
                                   /\ DOMAIN From(seq, n) = 1..Len(seq) - n
                                   /\ \A i \in 1..Len(seq) - n :
                                        From(seq, n)[i] = seq[i + n]
<1>1. \A n \in 0..Len(seq) : /\ From(seq, n) \in Seq(T)
                             /\ Len(From(seq, n)) = Len(seq) - n
                             /\ DOMAIN From(seq, n) = 1..Len(seq) - n
                             /\ \A i \in 1..Len(seq) - n : From(seq, n)[i] = seq[i + n]
  BY DEF From
<1>2. From(seq, 0) = seq
  BY DEF From
<1>3. From(seq, Len(seq)) = <<>>
  BY <1>1
<1> QED BY <1>1, <1>2, <1>3

\* The rest after one more element is the tail.
Rest(seq) == From(seq, 1)

LEMMA RestIs ==
  ASSUME NEW T, NEW seq \in Seq(T), seq # <<>>
  PROVE  /\ Tail(seq) = Rest(seq) /\ Head(seq) = seq[1] /\ 1 \in DOMAIN seq
         /\ Rest(seq) \in Seq(T) /\ Len(Rest(seq)) = Len(seq) - 1
         /\ DOMAIN Rest(seq) = 1..Len(seq) - 1
         /\ \A i \in DOMAIN Rest(seq) : i + 1 \in DOMAIN seq /\ Rest(seq)[i] = seq[i + 1]
<1>1. Len(seq) \in Nat \ {0} /\ DOMAIN seq = 1..Len(seq)
  OBVIOUS
<1>2. /\ Rest(seq) \in Seq(T) /\ Len(Rest(seq)) = Len(seq) - 1
      /\ DOMAIN Rest(seq) = 1..Len(seq) - 1
      /\ \A i \in 1..Len(seq) - 1 : Rest(seq)[i] = seq[i + 1]
  <2>1. 1 \in 0..Len(seq)
    BY <1>1
  <2> QED BY <2>1, FromIs, Zenon DEF Rest
<1>3. Tail(seq) = Rest(seq)
  BY <1>1, <1>2
<1> QED BY <1>1, <1>2, <1>3

LEMMA FromRest ==
  ASSUME NEW T, NEW seq \in Seq(T), NEW n \in 1..Len(seq)
  PROVE  /\ From(seq, n - 1) # <<>> /\ From(seq, n - 1)[1] = seq[n]
         /\ Rest(From(seq, n - 1)) = From(seq, n)
<1>1. n - 1 \in 0..Len(seq) /\ Len(seq) \in Nat /\ n \in 0..Len(seq)
  OBVIOUS
<1> DEFINE f == From(seq, n - 1)
<1>2. /\ f \in Seq(T) /\ Len(f) = Len(seq) - n + 1
      /\ \A i \in 1..Len(seq) - n + 1 : f[i] = seq[i + n - 1]
  <2>1. /\ f \in Seq(T) /\ Len(f) = Len(seq) - (n - 1)
        /\ \A i \in 1..Len(seq) - (n - 1) : f[i] = seq[i + (n - 1)]
    BY <1>1, FromIs, Zenon
  <2> HIDE DEF f
  <2> QED BY <1>1, <2>1
<1>3. f # <<>> /\ f[1] = seq[n]
  BY <1>1, <1>2
<1> HIDE DEF f
<1>4. Rest(f) = From(seq, n)
  <2>1. Len(f) - 1 = Len(seq) - n
    BY <1>1, <1>2
  <2>2. \A i \in 1..Len(seq) - n : f[i + 1] = seq[i + n]
    BY <1>1, <1>2
  <2> QED BY <2>1, <2>2 DEF Rest, From
<1> QED BY <1>3, <1>4 DEF f

\* The barriers b2 are barriers of b, in the same order.
Among(b2, b) ==
  /\ b2 \in Seq(BarrierRecords)
  /\ \A i \in DOMAIN b2 : \E x \in DOMAIN b : b2[i] = b[x]
  /\ \A i, j \in DOMAIN b2 : i < j =>
       \E x, y \in DOMAIN b : x < y /\ b2[i] = b[x] /\ b2[j] = b[y]

LEMMA AmongKeeps ==
  ASSUME NEW k, NEW w, NEW b, NEW t, LedgerOf(k, w, b, t), NEW b2, Among(b2, b)
  PROVE  LedgerOf(k, w, b2, t)
<1>1. WorkInv(k, w, b2, t)
  BY DEF LedgerOf, WorkInv, Among
<1>2. BarrierInv(k, b2, t)
  <2>1. BarrierInv(k, b, t)
    BY DEF LedgerOf
  <2>2. ASSUME NEW i \in DOMAIN b2, NEW j \in DOMAIN b2, i # j,
               b2[i].kind \in Barriers, b2[j].kind \in Barriers
        PROVE  b2[i].call # b2[j].call
    <3>1. i \in Nat /\ j \in Nat
      BY DEF Among
    <3>2. \E x, y \in DOMAIN b : x # y /\ b2[i] = b[x] /\ b2[j] = b[y]
      <4>1. DOMAIN b \subseteq Nat
        BY <2>1 DEF BarrierInv
      <4>2. CASE i < j
        <5>1. PICK x, y \in DOMAIN b : x < y /\ b2[i] = b[x] /\ b2[j] = b[y]
          BY <4>2, Zenon DEF Among
        <5> QED BY <4>1, <5>1
      <4>3. CASE j < i
        <5>1. PICK x, y \in DOMAIN b : x < y /\ b2[j] = b[x] /\ b2[i] = b[y]
          BY <4>3, Zenon DEF Among
        <5> QED BY <4>1, <5>1
      <4> QED BY <2>2, <3>1, <4>2, <4>3
    <3> QED BY <2>1, <2>2, <3>2 DEF BarrierInv
  <2>3. ASSUME NEW i \in DOMAIN b2
        PROVE  /\ b2[i].kind \in Barriers => k[b2[i].call].kind = b2[i].kind
               /\ b2[i].kind \notin Barriers => k[b2[i].call].kind = Dr
                                               /\ k[b2[i].call].sid = b2[i].sid
               /\ b2[i].kind \in Barriers /\ b2[i].call \notin t.completed
                    => t.answers[b2[i].call] = <<>>
               /\ b2[i].kind = "Drain" => b2[i].call \notin t.completed
    BY <2>1 DEF BarrierInv, Among
  <2> QED BY <2>2, <2>3 DEF BarrierInv, Among
<1>3. DrainInv(k, w, b2, t)
  BY DEF LedgerOf, DrainInv, Among
<1> QED BY <1>1, <1>2, <1>3 DEF LedgerOf

LEMMA RestAmong ==
  ASSUME NEW b \in Seq(BarrierRecords), b # <<>>
  PROVE  Among(Rest(b), b) /\ Among(<<>>, b)
<1>1. /\ Rest(b) \in Seq(BarrierRecords) /\ DOMAIN Rest(b) \subseteq Nat
      /\ \A i \in DOMAIN Rest(b) : i + 1 \in DOMAIN b /\ Rest(b)[i] = b[i + 1]
  BY RestIs
<1>2. \A i, j \in DOMAIN Rest(b) : i < j => i + 1 < j + 1
  BY <1>1
<1> QED BY <1>1, <1>2 DEF Among


\* What is known of the first command of the queue once it is taken up.
Taken(k, w, b, t) ==
  /\ w[1] \in Commands /\ w[1].call \in Calls
  /\ w[1].kind \in AllKinds \ {Dr}
       => /\ InHand(k, Rest(w), b, t, w[1].call)
          /\ t.setups[w[1].call] = <<>>
          /\ k[w[1].call].kind = w[1].kind /\ k[w[1].call].sid = w[1].sid
  /\ w[1].kind = Dr => k[w[1].call].kind = Dr /\ k[w[1].call].sid = w[1].sid
  /\ w[1].kind = "Resume" => /\ Armed(k, t, w[1].call)
                             /\ k[w[1].call].kind = Dr
                             /\ k[w[1].call].sid = w[1].sid

\* That of a drain is taken up here only once its handle is closed; one
\* that is armed is for its own lemma.
LEMMA Popped ==
  ASSUME NEW k, NEW w, NEW b, NEW t, LedgerOf(k, w, b, t), w # <<>>,
         w[1].kind = Dr => \/ w[1].sid \notin t.subscriptions
                           \/ t.handles[w[1].sid].waiter # None
  PROVE  LedgerOf(k, Rest(w), b, t) /\ Taken(k, w, b, t)
<1> DEFINE r == Rest(w)
           c == w[1].call
<1>1. WorkInv(k, w, b, t) /\ w \in Seq(Commands)
  BY DEF LedgerOf, WorkInv
<1>2. /\ r \in Seq(Commands) /\ Len(r) = Len(w) - 1 /\ DOMAIN r = 1..Len(w) - 1
      /\ 1 \in DOMAIN w /\ DOMAIN w = 1..Len(w) /\ Len(w) \in Nat
      /\ \A i \in DOMAIN r : i \in Nat /\ i + 1 \in DOMAIN w /\ r[i] = w[i + 1]
  BY <1>1, RestIs
<1> HIDE DEF r
<1>3. \A j \in DOMAIN w : j = 1 \/ (j - 1 \in DOMAIN r /\ r[j - 1] = w[j])
  BY <1>2
<1>4. WorkInv(k, r, b, t)
  <2>1. ASSUME NEW i \in DOMAIN r
        PROVE  /\ r[i].kind \in AllKinds => k[r[i].call].kind = r[i].kind
                                            /\ k[r[i].call].sid = r[i].sid
               /\ r[i].kind \in {"Resume", "Cancel_drain"}
                    => k[r[i].call].kind = Dr /\ k[r[i].call].sid = r[i].sid
               /\ r[i].kind \in AllKinds \ {Dr}
                    => t.answers[r[i].call] = <<>> /\ t.setups[r[i].call] = <<>>
               /\ r[i].kind = "Request"
                    => \A s \in DOMAIN t.requests : t.requests[s] # r[i].call
               /\ r[i].kind = Dr /\ r[i].sid \in t.subscriptions
                    => t.handles[r[i].sid].drain = r[i].call
               /\ \A j \in DOMAIN b : r[i].kind \in Barriers /\ b[j].kind \in Barriers
                    => r[i].call # b[j].call
    BY <1>1, <1>2 DEF WorkInv
  <2>2. ASSUME NEW i \in DOMAIN r, NEW j \in DOMAIN r, i # j,
               r[i].kind \in AllKinds, r[j].kind \in AllKinds
        PROVE  r[i].call # r[j].call
    <3>1. i + 1 # j + 1
      BY <1>2, <2>2
    <3> QED BY <1>1, <1>2, <2>2, <3>1 DEF WorkInv
  <2>3. ASSUME NEW i \in DOMAIN r, r[i].kind = "Cancel_drain",
               r[i].sid \in t.subscriptions, t.handles[r[i].sid].waiter = None
        PROVE  \E j \in 1..i - 1 : r[j].kind = Dr /\ r[j].sid = r[i].sid
    <3>1. PICK j \in 1..i : w[j].kind = Dr /\ w[j].sid = r[i].sid
      <4>1. i + 1 \in DOMAIN w /\ r[i] = w[i + 1] /\ (i + 1) - 1 = i
        BY <1>2
      <4>2. \E j \in 1..(i + 1) - 1 : w[j].kind = Dr /\ w[j].sid = w[i + 1].sid
        BY <1>1, <2>3, <4>1 DEF WorkInv
      <4> QED BY <4>1, <4>2
    <3>2. j # 1
      BY <2>3, <3>1
    <3>3. j - 1 \in 1..i - 1 /\ r[j - 1] = w[j]
      BY <1>2, <1>3, <3>1, <3>2
    <3> QED BY <3>1, <3>3
  <2> QED BY <1>2, <2>1, <2>2, <2>3 DEF WorkInv
<1>5. DrainInv(k, r, b, t)
  BY <1>2 DEF LedgerOf, DrainInv
<1>6. HandleInv(k, r, t)
  <2>1. HandleInv(k, w, t)
    BY DEF LedgerOf
  <2>2. ASSUME NEW s \in t.subscriptions, t.handles[s].waiter = None,
               NEW j \in DOMAIN w, w[j].kind = Dr, w[j].sid = s
        PROVE  \E i \in DOMAIN r : r[i].kind = Dr /\ r[i].sid = s
    BY <1>3, <2>2
  <2> QED BY <2>1, <2>2 DEF HandleInv
<1>7. LedgerOf(k, r, b, t)
  BY <1>4, <1>5, <1>6 DEF LedgerOf
<1>8. w[1] \in Commands /\ c \in Calls
  BY <1>1, <1>2, CommandTyped
<1>9. ASSUME w[1].kind \in AllKinds \ {Dr}
      PROVE  /\ InHand(k, r, b, t, c) /\ t.setups[c] = <<>>
             /\ k[c].kind = w[1].kind /\ k[c].sid = w[1].sid
  <2>1. /\ k[c].kind = w[1].kind /\ k[c].sid = w[1].sid
        /\ t.answers[c] = <<>> /\ t.setups[c] = <<>>
    BY <1>1, <1>2, <1>9 DEF WorkInv
  <2>2. \A i \in DOMAIN r : r[i].kind \in AllKinds => r[i].call # c
    <3> TAKE i \in DOMAIN r
    <3>1. i + 1 \in DOMAIN w /\ r[i] = w[i + 1] /\ i + 1 # 1
      BY <1>2
    <3> QED BY <1>1, <1>2, <1>9, <3>1 DEF WorkInv
  <2>3. \A s \in DOMAIN t.requests : t.requests[s] # c
    <3>1. CASE w[1].kind = "Request"
      BY <1>1, <1>2, <3>1 DEF WorkInv
    <3>2. CASE w[1].kind # "Request"
      BY <2>1, <3>2 DEF LedgerOf, RequestInv
    <3> QED BY <3>1, <3>2
  <2>4. \A i \in DOMAIN b : b[i].kind \in Barriers => b[i].call # c
    <3>1. CASE w[1].kind \in Barriers
      BY <1>1, <1>2, <3>1 DEF WorkInv
    <3>2. CASE w[1].kind \notin Barriers
      BY <2>1, <3>2 DEF LedgerOf, BarrierInv
    <3> QED BY <3>1, <3>2
  <2>5. k[c].kind \notin {Dr, "idle"}
    BY <1>9, <2>1 DEF AllKinds, Dr
  <2> QED BY <1>8, <2>1, <2>2, <2>3, <2>4, <2>5 DEF InHand, Open
<1>10. ASSUME w[1].kind \in {Dr, "Resume"}
       PROVE  k[c].kind = Dr /\ k[c].sid = w[1].sid
  BY <1>1, <1>2, <1>10 DEF WorkInv, AllKinds, Dr
<1>11. w[1].kind = "Resume" => Armed(k, t, c)
  BY <1>2 DEF LedgerOf, DrainInv
<1> QED BY <1>7, <1>8, <1>9, <1>10, <1>11 DEF r, Taken

\* Taking the first barrier up.
LEMMA BarrierTaken ==
  ASSUME NEW k, NEW w, NEW b, NEW t, LedgerOf(k, w, b, t), b # <<>>
  PROVE  /\ LedgerOf(k, w, Rest(b), t)
         /\ b[1] \in BarrierRecords
         /\ b[1].kind \in Barriers /\ b[1].call \notin t.completed
              => InHand(k, w, Rest(b), t, b[1].call)
         /\ b[1].kind = "Drain" => b[1].call \notin t.completed
         /\ b[1].kind \in Barriers => k[b[1].call].kind = b[1].kind
         /\ b[1].kind \notin Barriers
              => /\ b[1].kind = "Subscription_drain" /\ Armed(k, t, b[1].call)
                 /\ k[b[1].call].kind = Dr /\ k[b[1].call].sid = b[1].sid
<1> DEFINE r == Rest(b)
           c == b[1].call
<1>1. BarrierInv(k, b, t) /\ b \in Seq(BarrierRecords)
  BY DEF LedgerOf, BarrierInv
<1>2. /\ 1 \in DOMAIN b /\ DOMAIN r \subseteq Nat
      /\ \A i \in DOMAIN r : i + 1 \in DOMAIN b /\ i + 1 # 1 /\ r[i] = b[i + 1]
  <2>1. /\ 1 \in DOMAIN b /\ DOMAIN r = 1..Len(b) - 1 /\ Len(b) \in Nat
        /\ \A i \in DOMAIN r : i + 1 \in DOMAIN b /\ r[i] = b[i + 1]
    BY <1>1, RestIs
  <2> HIDE DEF r
  <2> QED BY <2>1
<1>3. LedgerOf(k, w, r, t)
  BY <1>1, RestAmong, AmongKeeps, Zenon
<1>4. b[1] \in BarrierRecords /\ c \in Calls
  BY <1>1, <1>2, BarrierTyped
<1>5. ASSUME b[1].kind \in Barriers, c \notin t.completed
      PROVE  InHand(k, w, r, t, c)
  <2> HIDE DEF r
  <2>1. k[c].kind = b[1].kind /\ t.answers[c] = <<>>
    BY <1>1, <1>2, <1>5 DEF BarrierInv
  <2>2. \A i \in DOMAIN w : w[i].kind \in AllKinds => w[i].call # c
    <3>1. WorkInv(k, w, b, t)
      BY DEF LedgerOf
    <3> TAKE i \in DOMAIN w
    <3>2. CASE w[i].kind \in Barriers
      BY <1>2, <1>5, <3>1, <3>2 DEF WorkInv
    <3>3. CASE w[i].kind \notin Barriers
      BY <1>5, <2>1, <3>1, <3>3 DEF WorkInv
    <3> QED BY <3>2, <3>3
  <2>3. \A s \in DOMAIN t.requests : t.requests[s] # c
    BY <1>5, <2>1 DEF LedgerOf, RequestInv, Barriers
  <2>4. \A i \in DOMAIN r : r[i].kind \in Barriers => r[i].call # c
    BY <1>1, <1>2, <1>5 DEF BarrierInv
  <2> QED BY <1>4, <1>5, <2>1, <2>2, <2>3, <2>4 DEF InHand, Open, Barriers, Dr
<1>6. ASSUME b[1].kind \notin Barriers
      PROVE  /\ b[1].kind = "Subscription_drain" /\ Armed(k, t, c)
             /\ k[c].kind = Dr /\ k[c].sid = b[1].sid
  <2>1. b[1].kind = "Subscription_drain"
    BY <1>4, <1>6 DEF BarrierRecords
  <2> QED BY <1>1, <1>2, <1>6, <2>1 DEF LedgerOf, BarrierInv, DrainInv
<1>7. /\ b[1].kind = "Drain" => c \notin t.completed
      /\ b[1].kind \in Barriers => k[c].kind = b[1].kind
  BY <1>1, <1>2 DEF BarrierInv
<1> QED BY <1>3, <1>4, <1>5, <1>6, <1>7

-----------------------------------------------------------------------------
(* The end of a connection.                                                *)

\* What ending a connection keeps until it is through.
Ending(t, u) ==
  /\ u.work = t.work /\ u.barriers = t.barriers
  /\ u.subscriptions \subseteq t.subscriptions
  /\ u.state.next_sid = t.state.next_sid

LEMMA EndingTwice ==
  ASSUME NEW t, NEW u, NEW x, Ending(t, u), Ending(u, x)
  PROVE  Ending(t, x)
BY DEF Ending

LEMMA FailBarrierKeeps ==
  ASSUME NEW k, NEW w, NEW b, NEW t, LedgerOf(k, w, b, t), b # <<>>,
         NEW u, u = fail_barrier(t, b[1])
  PROVE  LedgerOf(k, w, Rest(b), u) /\ Ending(t, u)
<1> DEFINE c == b[1].call
           r == Rest(b)
<1>1. LedgerOf(k, w, r, t) /\ b[1] \in BarrierRecords
  BY BarrierTaken
<1> HIDE DEF r
<1>2. CASE b[1].kind \in Barriers /\ c \notin t.completed
  <2>1. InHand(k, w, r, t, c)
    BY <1>2, BarrierTaken DEF r
  <2>2. u = fail_waiter(t, c)
    BY <1>2 DEF fail_barrier, still_waits, Barriers
  <2>3. LedgerOf(k, w, r, u) /\ OnlyAnswers(t, u)
    BY <1>1, <2>1, <2>2, FailKeeps, Zenon
  <2> QED BY <2>3 DEF r, OnlyAnswers, Ending
<1>3. CASE b[1].kind \in Barriers /\ c \in t.completed
  <2>1. u = t
    BY <1>3 DEF fail_barrier, still_waits, Barriers
  <2> QED BY <1>1, <2>1 DEF r, Ending
<1>4. CASE b[1].kind \notin Barriers
  <2>1. /\ b[1].kind = "Subscription_drain" /\ Armed(k, t, c)
        /\ k[c].kind = Dr /\ k[c].sid = b[1].sid
    BY <1>4, BarrierTaken
  <2>2. c \in Calls
    BY <1>1 DEF BarrierRecords
  <2>3. u = complete_drain_waiter(t, c, b[1].sid, "Error")
    BY <2>1 DEF fail_barrier
  <2>4. LedgerOf(k, w, r, u) /\ DrainFrame(k, b[1].sid, t, u)
    BY <1>1, <2>1, <2>2, <2>3, AreResults, CompleteWaiterKeeps
  <2> QED BY <2>4 DEF r, DrainFrame, DrainsFrame, Ending
<1> QED BY <1>2, <1>3, <1>4

\* Failing the barriers in turn.
FailingBarrier(a, t, barrier) == fail_barrier(t, barrier)
FailedBarriers(h, i, t) ==
  LedgerOf(h.k, h.w, From(h.b, i), t) /\ Ending(h.t, t)
BarrierFailures == INSTANCE FoldLemmas WITH op <- FailingBarrier,
                                            R <- FailedBarriers

LEMMA FailBarriersKeeps ==
  ASSUME NEW k, NEW w, NEW b, NEW t, LedgerOf(k, w, b, t)
  PROVE  LET u == FoldLeft(fail_barrier, t, b)
         IN  LedgerOf(k, w, <<>>, u) /\ Ending(t, u)
<1> DEFINE h == [k |-> k, w |-> w, b |-> b, t |-> t]
<1>1. b \in Seq(BarrierRecords)
  BY DEF LedgerOf, BarrierInv
<1>2. FailedBarriers(h, 0, t)
  BY <1>1, FromIs DEF FailedBarriers, Ending
<1>3. ASSUME NEW i \in 1..Len(b), NEW x, FailedBarriers(h, i - 1, x)
      PROVE  FailedBarriers(h, i, FailingBarrier(0, x, b[i]))
  <2> DEFINE f == From(b, i - 1)
             y == fail_barrier(x, f[1])
  <2>1. f # <<>> /\ f[1] = b[i] /\ Rest(f) = From(b, i)
    BY <1>1, FromRest
  <2>2. LedgerOf(k, w, f, x) /\ Ending(t, x)
    BY <1>3 DEF FailedBarriers
  <2>3. LedgerOf(k, w, Rest(f), y) /\ Ending(x, y)
    <3> HIDE DEF f
    <3> QED BY <2>1, <2>2, FailBarrierKeeps
  <2>4. Ending(t, y)
    <3> HIDE DEF f, y
    <3> QED BY <2>2, <2>3, EndingTwice
  <2>5. y = FailingBarrier(0, x, b[i])
    BY <2>1 DEF FailingBarrier
  <2> HIDE DEF f, y
  <2> QED BY <2>1, <2>3, <2>4, <2>5 DEF FailedBarriers
<1> HIDE DEF h
<1>4. BarrierFailures!ItemsClaim(0, h, t, b)
  BY <1>2, <1>3 DEF BarrierFailures!ItemsClaim
<1>5. FailedBarriers(h, Len(b), BarrierFailures!OverItems(0, t, b))
  BY <1>1, <1>4, NaturalInduction, BarrierFailures!SequenceFold, Zenon
     DEF BarrierFailures!Inductive
<1>6. FoldLeft(fail_barrier, t, b) = BarrierFailures!OverItems(0, t, b)
  BY Zenon DEF BarrierFailures!OverItems, FoldLeft, MapThenFoldSet, Max, FailingBarrier
<1> QED BY <1>1, <1>5, <1>6, FromIs DEF FailedBarriers, h


\* Failing the commands of the queue, once every handle is closed.
LEMMA FailCommandKeeps ==
  ASSUME NEW k, NEW w, NEW b, NEW t, LedgerOf(k, w, b, t), w # <<>>,
         t.subscriptions = {}, NEW u, u = fail_command(t, w[1])
  PROVE  LedgerOf(k, Rest(w), b, u) /\ Ending(t, u)
<1> DEFINE c == w[1].call
           r == Rest(w)
<1>0. w[1].kind = Dr => w[1].sid \notin t.subscriptions
  OBVIOUS
<1>1. LedgerOf(k, r, b, t) /\ Taken(k, w, b, t)
  BY <1>0, Popped
<1>2. w[1].kind \in AllKinds \cup OwnKinds /\ c \in Calls
  BY <1>1 DEF Commands, Taken
<1>3. w[1].kind \in AllKinds \ {Dr}
        => /\ InHand(k, r, b, t, c) /\ t.setups[c] = <<>>
           /\ k[c].kind = w[1].kind
  BY <1>1 DEF Taken
<1> HIDE DEF r
<1>4. CASE w[1].kind = "Request"
  <2>1. u = resolve_setup(t, c, "Error")
    BY <1>4 DEF fail_command
  <2>2. Unasked(k, r, t, c)
    BY <1>2, <1>3, <1>4 DEF InHand, Open, AllKinds, Dr, Unasked
  <2>3. LedgerOf(k, r, b, u) /\ OnlySetups(t, u)
    BY <1>1, <2>1, <2>2, SetupKeeps, AreResults, Zenon
  <2> QED BY <2>3 DEF r, Ending, OnlySetups
<1>5. CASE w[1].kind = "Close"
  <2>1. u = resolve_unit(t, c, "Ok")
    BY <1>5 DEF fail_command
  <2>2. InHand(k, r, b, t, c)
    BY <1>3, <1>5 DEF AllKinds, Dr
  <2>3. LedgerOf(k, r, b, u) /\ OnlyAnswers(t, u)
    BY <1>1, <2>1, <2>2, AnswerKeeps, Zenon
  <2> QED BY <2>3 DEF r, OnlyAnswers, Ending
<1>6. CASE w[1].kind = Dr
  <2>1. u = fail_pending_drain(t, w[1].sid)
    BY <1>6 DEF fail_command, Dr
  <2>2. k[c].kind = Dr /\ k[c].sid = w[1].sid
    BY <1>1, <1>6 DEF Taken
  <2>3. w[1].sid \in DOMAIN t.handles /\ w[1].sid \notin t.subscriptions
    BY <1>1, <1>2, <2>2 DEF LedgerOf, SidInv
  <2>4. LedgerOf(k, r, b, u) /\ DrainFrame(k, w[1].sid, t, u)
    BY <1>1, <2>1, <2>3, FailPendingDrainKeeps
  <2> QED BY <2>4 DEF r, DrainFrame, DrainsFrame, Ending
<1>7. CASE w[1].kind \in OwnKinds
  <2>1. u = t
    BY <1>7 DEF fail_command, OwnKinds
  <2> QED BY <1>1, <2>1 DEF r, Ending
<1>8. CASE w[1].kind \in AllKinds \ {"Request", "Close", Dr}
  <2>1. u = fail_waiter(t, c)
    BY <1>8 DEF fail_command, AllKinds, Dr
  <2>2. LedgerOf(k, r, b, u) /\ OnlyAnswers(t, u)
    <3>1. InHand(k, r, b, t, c)
      BY <1>3, <1>8
    <3> QED BY <1>1, <2>1, <3>1, FailKeeps, Zenon
  <2> QED BY <2>2 DEF r, OnlyAnswers, Ending
<1> QED BY <1>2, <1>4, <1>5, <1>6, <1>7, <1>8

FailingCommand(a, t, command) == fail_command(t, command)
FailedCommands(h, i, t) ==
  LedgerOf(h.k, From(h.w, i), h.b, t) /\ Ending(h.t, t)
CommandFailures == INSTANCE FoldLemmas WITH op <- FailingCommand,
                                            R <- FailedCommands

LEMMA FailCommandsKeeps ==
  ASSUME NEW k, NEW w, NEW b, NEW t, LedgerOf(k, w, b, t), t.subscriptions = {}
  PROVE  LET u == FoldLeft(fail_command, t, w)
         IN  LedgerOf(k, <<>>, b, u) /\ Ending(t, u)
<1> DEFINE h == [k |-> k, w |-> w, b |-> b, t |-> t]
<1>1. w \in Seq(Commands)
  BY DEF LedgerOf, WorkInv
<1>2. FailedCommands(h, 0, t)
  BY <1>1, FromIs DEF FailedCommands, Ending
<1>3. ASSUME NEW i \in 1..Len(w), NEW x, FailedCommands(h, i - 1, x)
      PROVE  FailedCommands(h, i, FailingCommand(0, x, w[i]))
  <2> DEFINE f == From(w, i - 1)
             y == fail_command(x, f[1])
  <2>1. f # <<>> /\ f[1] = w[i] /\ Rest(f) = From(w, i)
    BY <1>1, FromRest
  <2>2. LedgerOf(k, f, b, x) /\ Ending(t, x) /\ x.subscriptions = {}
    BY <1>3 DEF FailedCommands, Ending
  <2>3. LedgerOf(k, Rest(f), b, y) /\ Ending(x, y)
    <3> HIDE DEF f
    <3> QED BY <2>1, <2>2, FailCommandKeeps
  <2>4. Ending(t, y)
    <3> HIDE DEF f, y
    <3> QED BY <2>2, <2>3, EndingTwice
  <2>5. y = FailingCommand(0, x, w[i])
    BY <2>1 DEF FailingCommand
  <2> HIDE DEF f, y
  <2> QED BY <2>1, <2>3, <2>4, <2>5 DEF FailedCommands
<1> HIDE DEF h
<1>4. CommandFailures!ItemsClaim(0, h, t, w)
  BY <1>2, <1>3 DEF CommandFailures!ItemsClaim
<1>5. FailedCommands(h, Len(w), CommandFailures!OverItems(0, t, w))
  BY <1>1, <1>4, NaturalInduction, CommandFailures!SequenceFold, Zenon
     DEF CommandFailures!Inductive
<1>6. FoldLeft(fail_command, t, w) = CommandFailures!OverItems(0, t, w)
  BY Zenon DEF CommandFailures!OverItems, FoldLeft, MapThenFoldSet, Max, FailingCommand
<1> QED BY <1>1, <1>5, <1>6, FromIs DEF FailedCommands, h

\* Failing the requests that wait.
LEMMA FailRequestsKeeps ==
  ASSUME NEW k, NEW w, NEW b, NEW t, LedgerOf(k, w, b, t),
         NEW u, u = fail_requests(t)
  PROVE  LedgerOf(k, w, b, u) /\ Ending(t, u)
<1> DEFINE e == [t EXCEPT !.requests = <<>>]
           cs == Range(t.requests)
<1>1. /\ Shape(e) /\ e.requests = <<>> /\ e.answers = t.answers
      /\ e.work = t.work /\ e.barriers = t.barriers /\ e.setups = t.setups
      /\ e.state = t.state /\ e.completed = t.completed /\ e.handles = t.handles
      /\ e.subscriptions = t.subscriptions
      /\ e.subscription_drains = t.subscription_drains
  BY DEF LedgerOf, Shape, CoreShape
<1> HIDE DEF e
<1>2. DOMAIN e.requests = {}
  BY <1>1
<1>3. LedgerOf(k, w, b, e)
  <2>1. WorkInv(k, w, b, e)
    BY <1>1, <1>2 DEF LedgerOf, WorkInv
  <2>2. /\ Promises(e) /\ RequestInv(k, e) /\ BarrierInv(k, b, e)
        /\ DrainInv(k, w, b, e) /\ HandleInv(k, w, e) /\ SidInv(k, e) /\ IdleInv(k, e)
    <3>1. DrainInv(k, w, b, e) /\ HandleInv(k, w, e)
      BY <1>1, DrainSame, HandleSame DEF LedgerOf
    <3> QED BY <1>1, <1>2, <3>1 DEF LedgerOf, Promises, RequestInv, BarrierInv, SidInv,
                                    IdleInv
  <2> QED BY <1>1, <2>1, <2>2 DEF LedgerOf
<1>4. ASSUME NEW c \in cs
      PROVE  /\ Open(k, w, e, c)
             /\ \A i \in DOMAIN b : b[i].kind \in Barriers => b[i].call # c
  <2>1. PICK s \in DOMAIN t.requests : t.requests[s] = c
    BY DEF Range
  <2>2. c \in Calls /\ k[c].kind = "Request" /\ t.answers[c] = <<>>
    BY <2>1 DEF LedgerOf, RequestInv
  <2>3. \A i \in DOMAIN w : w[i].kind \in AllKinds => w[i].call # c
    BY <2>1, <2>2 DEF LedgerOf, WorkInv
  <2>4. \A i \in DOMAIN b : b[i].kind \in Barriers => b[i].call # c
    BY <2>2 DEF LedgerOf, BarrierInv, Barriers
  <2> QED BY <1>1, <1>2, <2>2, <2>3, <2>4 DEF Open, Dr
<1> HIDE DEF cs
<1>5. OpenCalls(k, w, b, e, cs, {})
  BY <1>4 DEF OpenCalls
<1>6. Shape(e) /\ Promises(e) /\ \A c \in cs : e.answers[c] = <<>>
  BY <1>3, <1>4 DEF LedgerOf, Open
<1>7. u = fail_waiters(e, cs)
  BY DEF fail_requests, e, cs
<1>8. ResolvedAs(e, u, cs, {}, "Error") /\ OnlyAnswers(e, u)
  BY <1>6, <1>7, FailWaitersIs, Zenon
<1>9. LedgerOf(k, w, b, u)
  BY <1>3, <1>5, <1>8, ResolvedKeeps, AreResults, Zenon
<1> QED BY <1>1, <1>8, <1>9 DEF OnlyAnswers, Ending


\* Failing the drains that are armed, which end or close their handles.
FailingDrain(a, t, sid) ==
  IF sid \in t.subscriptions THEN fail_pending_drain(t, sid)
  ELSE complete_drain_waiter(t, a[sid], sid, "Error")
FailedDrains(h, s, t) ==
  /\ LedgerOf(h.k, h.w, h.b, t) /\ Ending(h.t, t)
  /\ \A x \in DOMAIN h.t.subscription_drains \ s :
       Armed(h.k, t, h.t.subscription_drains[x])
DrainFailures == INSTANCE FoldLemmas WITH op <- FailingDrain, R <- FailedDrains

LEMMA FailDrainKeeps ==
  ASSUME NEW k, NEW w, NEW b, NEW t, LedgerOf(k, w, b, t),
         NEW sid, NEW c \in Calls, k[c].kind = Dr, k[c].sid = sid, Armed(k, t, c),
         NEW u, u = IF sid \in t.subscriptions THEN fail_pending_drain(t, sid)
                    ELSE complete_drain_waiter(t, c, sid, "Error")
  PROVE  LedgerOf(k, w, b, u) /\ DrainFrame(k, sid, t, u)
<1>1. CASE sid \in t.subscriptions
  <2>1. c \notin t.completed
    BY <1>1 DEF LedgerOf, HandleInv
  <2>2. sid \in DOMAIN t.handles /\ t.handles[sid].waiter # None
    BY <2>1, CallsAssumption DEF Armed
  <2>3. u = fail_pending_drain(t, sid)
    BY <1>1
  <2> QED BY <2>2, <2>3, FailPendingDrainKeeps
<1>2. CASE sid \notin t.subscriptions
  <2>1. u = complete_drain_waiter(t, c, sid, "Error")
    BY <1>2
  <2> QED BY <2>1, AreResults, CompleteWaiterKeeps
<1> QED BY <1>1, <1>2

LEMMA FailSubscriptionDrainsKeeps ==
  ASSUME NEW k, NEW w, NEW b, NEW t, LedgerOf(k, w, b, t)
  PROVE  LET u == fail_subscription_drains(t)
         IN  LedgerOf(k, w, b, u) /\ Ending(t, u)
<1> DEFINE h == [k |-> k, w |-> w, b |-> b, t |-> t]
           a == t.subscription_drains
           S == DOMAIN t.subscription_drains
<1>1. \A x \in S : a[x] \in Calls /\ k[a[x]].kind = Dr /\ k[a[x]].sid = x
                   /\ Armed(k, t, a[x])
  BY DEF LedgerOf, DrainInv
<1>2. FailedDrains(h, {}, t)
  BY <1>1 DEF FailedDrains, Ending
<1>3. ASSUME NEW s \in SUBSET S, NEW x \in S \ s, NEW y, FailedDrains(h, s, y)
      PROVE  FailedDrains(h, s \cup {x}, FailingDrain(a, y, x))
  <2> DEFINE z == FailingDrain(a, y, x)
  <2>1. /\ LedgerOf(k, w, b, y) /\ Ending(t, y)
        /\ \A d \in S \ s : Armed(k, y, a[d])
    BY <1>3 DEF FailedDrains
  <2>2. z = IF x \in y.subscriptions THEN fail_pending_drain(y, x)
            ELSE complete_drain_waiter(y, a[x], x, "Error")
    BY DEF FailingDrain
  <2> HIDE DEF z
  <2>3. LedgerOf(k, w, b, z) /\ DrainFrame(k, x, y, z)
    <3> HIDE DEF a, h, S
    <3> QED BY <1>1, <2>1, <2>2, FailDrainKeeps
  <2>4. Ending(t, z)
    BY <2>1, <2>3, EndingTwice DEF DrainFrame, DrainsFrame, Ending
  <2>5. \A d \in S \ (s \cup {x}) : Armed(k, z, a[d])
    BY <1>1, <2>1, <2>3 DEF Armed, DrainFrame, DrainsFrame
  <2> QED BY <2>3, <2>4, <2>5 DEF FailedDrains, z
<1>4. t.state.next_sid \in Nat /\ S \in SUBSET (0..t.state.next_sid)
  BY SidsBounded
<1>5. fail_subscription_drains(t) = DrainFailures!OverNumbers(a, t, S)
  BY Zenon DEF DrainFailures!OverNumbers, fail_subscription_drains, OverSids,
               MapThenFoldSet, Max, FailingDrain
<1> HIDE DEF h, a, S
<1>6. DrainFailures!NumbersClaim(a, h, t, S)
  BY <1>2, <1>3 DEF DrainFailures!NumbersClaim
<1>7. FailedDrains(h, S, DrainFailures!OverNumbers(a, t, S))
  BY <1>4, <1>6, NaturalInduction, DrainFailures!NumbersFold, Zenon
     DEF DrainFailures!Inductive
<1> QED BY <1>5, <1>7 DEF FailedDrains, h

\* Ending the connection resolves every promise that is still open.
LEMMA FinishKeeps ==
  ASSUME NEW k, NEW t, Ledger(k, t), NEW u, u = finish(t)
  PROVE  Ledger(k, u) /\ u.state.next_sid = t.state.next_sid
<1>1. CASE t.closed
  <2>1. u = Cleared(t)
    BY <1>1 DEF finish
  <2>2. Quiet(t, u)
    BY <2>1, ErrorQuiet DEF Ledger, LedgerOf
  <2> QED BY <2>2, QuietKeeps DEF Ledger, Quiet
<1>2. CASE ~t.closed
  <2> DEFINE w == t.work
             b == t.barriers
             e == [t EXCEPT !.closed = TRUE, !.reconnecting = FALSE,
                            !.reconnect_pending = <<>>,
                            !.reconnect_publish_state = None, !.error = None]
             e1 == close_subscriptions(e, e.subscriptions)
             e2 == fail_requests(e1)
             e3 == fail_subscription_drains(e2)
             e4 == FoldLeft(fail_barrier, e3, e3.barriers)
             e5 == [e4 EXCEPT !.barriers = <<>>]
             e6 == [e5 EXCEPT !.work = <<>>]
             e7 == FoldLeft(fail_command, e6, e5.work)
  <2>1. u = [e7 EXCEPT !.up = FALSE]
    BY <1>2, Zenon DEF finish, fail_pending_commands
  <2>2. Quiet(t, e)
    BY DEF Ledger, LedgerOf, Quiet, Shape, CoreShape
  <2>3. LedgerOf(k, w, b, e) /\ Ending(t, e)
    <3> HIDE DEF e
    <3>1. LedgerOf(k, w, b, e)
      BY <2>2, QuietKeeps DEF Ledger
    <3> QED BY <2>2, <3>1 DEF Quiet, Ending
  <2> HIDE DEF e
  <2>4. LedgerOf(k, w, b, e1) /\ Ending(t, e1) /\ e1.subscriptions = {}
    <3>1. /\ LedgerOf(k, w, b, e1) /\ DrainsFrame(k, e, e1)
          /\ e1.subscriptions \cap e.subscriptions = {}
      <4> HIDE DEF w, b
      <4> QED BY <2>3, CloseSubscriptionsKeeps
    <3> HIDE DEF e1
    <3> QED BY <2>3, <3>1, EndingTwice DEF DrainsFrame, Ending
  <2> HIDE DEF e1
  <2>5. LedgerOf(k, w, b, e2) /\ Ending(t, e2) /\ e2.subscriptions = {}
    <3>1. LedgerOf(k, w, b, e2) /\ Ending(e1, e2)
      <4> HIDE DEF w, b
      <4> QED BY <2>4, FailRequestsKeeps
    <3> HIDE DEF e2
    <3> QED BY <2>4, <3>1, EndingTwice DEF Ending
  <2> HIDE DEF e2
  <2>6. LedgerOf(k, w, b, e3) /\ Ending(t, e3) /\ e3.subscriptions = {}
    <3>1. LedgerOf(k, w, b, e3) /\ Ending(e2, e3)
      <4> HIDE DEF w, b
      <4> QED BY <2>5, FailSubscriptionDrainsKeeps
    <3> HIDE DEF e3
    <3> QED BY <2>5, <3>1, EndingTwice DEF Ending
  <2> HIDE DEF e3
  <2>7. LedgerOf(k, w, <<>>, e4) /\ Ending(t, e4) /\ e4.subscriptions = {}
    <3>1. e3.barriers = b
      BY <2>6 DEF Ending
    <3>2. LedgerOf(k, w, <<>>, e4) /\ Ending(e3, e4)
      <4> HIDE DEF w, b
      <4> QED BY <2>6, <3>1, FailBarriersKeeps
    <3> HIDE DEF e4
    <3> QED BY <2>6, <3>2, EndingTwice DEF Ending
  <2> HIDE DEF e4
  <2>8. /\ LedgerOf(k, w, <<>>, e6) /\ e6.subscriptions = {} /\ e6.work = <<>>
        /\ e6.barriers = <<>> /\ e5.work = w
        /\ e6.state.next_sid = t.state.next_sid
    <3>1. Shape(e4)
      BY <2>7 DEF LedgerOf
    <3>2. /\ Shape(e6) /\ e6.barriers = <<>> /\ e6.work = <<>> /\ e5.work = e4.work
          /\ e6.requests = e4.requests /\ e6.handles = e4.handles
          /\ e6.subscriptions = e4.subscriptions /\ e6.state = e4.state
          /\ e6.subscription_drains = e4.subscription_drains
          /\ e6.answers = e4.answers /\ e6.setups = e4.setups
          /\ e6.completed = e4.completed
      BY <3>1 DEF Shape, CoreShape
    <3> HIDE DEF e6, e5, w
    <3>3. LedgerOf(k, w, <<>>, e6)
      <4>1. e4.state.next_sid \in Nat
        BY <3>1 DEF Shape, CoreShape
      <4>2. SameFields(e4, e6)
        BY <3>2, <4>1 DEF SameFields
      <4> QED BY <2>7, <4>2, SameLedger, Zenon
    <3> QED BY <2>7, <3>2, <3>3 DEF Ending, w
  <2> HIDE DEF e6, e5
  <2>9. /\ LedgerOf(k, <<>>, <<>>, e7) /\ Ending(e6, e7)
    <3> HIDE DEF w, b
    <3> QED BY <2>8, FailCommandsKeeps
  <2>10. /\ Shape(e7) /\ e7.work = <<>> /\ e7.barriers = <<>>
         /\ e7.state.next_sid = t.state.next_sid
    BY <2>8, <2>9 DEF Ending, LedgerOf
  <2> HIDE DEF e7, w, b
  <2>11. Quiet(e7, u)
    BY <2>1, <2>10 DEF Quiet, Shape, CoreShape
  <2>12. LedgerOf(k, <<>>, <<>>, u)
    BY <2>9, <2>11, QuietKeeps
  <2> QED BY <2>10, <2>11, <2>12 DEF Ledger, Quiet
<1> QED BY <1>1, <1>2

-----------------------------------------------------------------------------
(* The functions of the core.                                              *)

Events == {"Connected", "Info", "Lame_duck_mode", "Protocol_notice",
           "Server_error", "Flush_completed", "Draining", "Closed"}

LEMMA EventLists ==
  /\ <<>> \in Seq(Events) /\ <<>> \in Seq(Nat)
  /\ \A e \in Events : << e >> \in Seq(Events)
  /\ \A e, f \in Events : << e, f >> \in Seq(Events)
OBVIOUS

\* What the ledger and the folds over a transition need of it.
CoreStep(st, tr) ==
  /\ DOMAIN tr = {"error", "state", "output", "events", "deliveries", "sid"}
  /\ CoreShape(tr.state) /\ tr.state.next_sid = st.next_sid
  /\ tr.events \in Seq(Events) /\ tr.deliveries \in Seq(Nat)

\* A transition whose events the owner only passes on.
PlainStep(st, tr) ==
  /\ CoreStep(st, tr)
  /\ tr.events \in {<<>>, <<"Draining">>, <<"Closed">>} /\ tr.deliveries = <<>>

LEMMA EmitPlain ==
  ASSUME NEW st, NEW st2, CoreShape(st2), st2.next_sid = st.next_sid, NEW output
  PROVE  PlainStep(st, Emit(st2, output))
BY EventLists DEF PlainStep, CoreStep, Emit, Transition

LEMMA FailurePlain ==
  ASSUME NEW st, CoreShape(st), NEW error
  PROVE  PlainStep(st, Failure(st, error))
BY EventLists DEF PlainStep, CoreStep, Failure

LEMMA ClosedPlain ==
  ASSUME NEW st, CoreShape(st)
  PROVE  PlainStep(st, closed_transition(st))
<1> DEFINE st2 == [st EXCEPT !.phase = "Closed", !.next_ping = FALSE]
<1>1. CoreShape(st2) /\ st2.next_sid = st.next_sid
  BY DEF CoreShape, Phases
<1> HIDE DEF st2
<1>2. <<"Closed">> \in Seq(Events)
  BY EventLists DEF Events
<1>3. PlainStep(st, Transition(st2, <<>>, <<"Closed">>, <<>>, None))
  BY <1>1, <1>2, EventLists DEF PlainStep, CoreStep, Transition
<1> QED BY <1>3, Zenon DEF closed_transition, st2

LEMMA PublishPlain ==
  ASSUME NEW st, CoreShape(st), NEW message
  PROVE  PlainStep(st, outgoing_publish(st, message))
<1>1. \A e : PlainStep(st, Failure(st, e))
  BY FailurePlain
<1>2. PlainStep(st, Emit(st, << Pub(message) >>))
  BY EmitPlain
<1> QED BY <1>1, <1>2, Zenon DEF outgoing_publish

LEMMA UnsubscribePlain ==
  ASSUME NEW st, CoreShape(st), NEW sid, NEW m
  PROVE  /\ PlainStep(st, outgoing_unsubscribe(st, sid, m))
         /\ PlainStep(st, outgoing_auto_unsubscribe(st, sid, m))
<1>1. \A e : PlainStep(st, Failure(st, e))
  BY FailurePlain
<1>2. ASSUME NEW subs, NEW output
      PROVE  LET next == [st EXCEPT !.subscriptions = subs, !.draining = @ \ {sid}]
             IN  PlainStep(st, Emit(next, output))
                 /\ PlainStep(st, empty_transition(next))
  <2> DEFINE next == [st EXCEPT !.subscriptions = subs, !.draining = @ \ {sid}]
  <2>1. CoreShape(next) /\ next.next_sid = st.next_sid
    BY DEF CoreShape
  <2> HIDE DEF next
  <2>2. \A o : PlainStep(st, Emit(next, o))
    BY <2>1, EmitPlain
  <2> QED BY <2>2, Zenon DEF empty_transition, next
<1>3. PlainStep(st, outgoing_unsubscribe(st, sid, m))
  BY <1>1, <1>2, Zenon DEF outgoing_unsubscribe
<1> QED BY <1>1, <1>3, Zenon DEF outgoing_auto_unsubscribe

LEMMA PingPlain ==
  ASSUME NEW st, NEW st2, CoreShape(st2), st2.next_sid = st.next_sid,
         NEW origin, NEW output
  PROVE  PlainStep(st, Emit(enqueue_ping(st2, origin), output))
<1>1. CoreShape(enqueue_ping(st2, origin))
      /\ enqueue_ping(st2, origin).next_sid = st.next_sid
  BY DEF CoreShape, enqueue_ping
<1> QED BY <1>1, EmitPlain

LEMMA DrainSubscriptionPlain ==
  ASSUME NEW st, CoreShape(st), NEW sid
  PROVE  PlainStep(st, outgoing_drain_subscription(st, sid))
<1>1. \A e : PlainStep(st, Failure(st, e))
  BY FailurePlain
<1> DEFINE st2 == [st EXCEPT !.draining = @ \cup {sid}]
<1>2. CoreShape(st2) /\ st2.next_sid = st.next_sid
  BY DEF CoreShape
<1> HIDE DEF st2
<1>3. PlainStep(st, Emit(enqueue_ping(st2, SubscriptionDrain(sid)), DrainOps(sid)))
  BY <1>2, PingPlain
<1> QED BY <1>1, <1>3, Zenon DEF outgoing_drain_subscription, st2

LEMMA FlushPlain ==
  ASSUME NEW st, CoreShape(st)
  PROVE  PlainStep(st, outgoing_flush(st))
<1>1. \A e : PlainStep(st, Failure(st, e))
  BY FailurePlain
<1>2. PlainStep(st, Emit(enqueue_ping(st, Origin("Flush")), << Ping >>))
  BY PingPlain
<1> QED BY <1>1, <1>2, Zenon DEF outgoing_flush

LEMMA DrainPlain ==
  ASSUME NEW st, CoreShape(st)
  PROVE  PlainStep(st, outgoing_drain(st))
<1>1. \A e : PlainStep(st, Failure(st, e))
  BY FailurePlain
<1> DEFINE st2 == enqueue_ping([st EXCEPT !.phase = "Draining"], Origin("Drain"))
<1>2. CoreShape(st2) /\ st2.next_sid = st.next_sid
  BY DEF CoreShape, enqueue_ping, Phases
<1> HIDE DEF st2
<1>4. <<"Draining">> \in Seq(Events)
  BY EventLists DEF Events
<1>3. \A o : PlainStep(st, Transition(st2, o, <<"Draining">>, <<>>, None))
  BY <1>2, <1>4, EventLists DEF PlainStep, CoreStep, Transition
<1> QED BY <1>1, <1>3, Zenon DEF outgoing_drain, st2

LEMMA ClosePlain ==
  ASSUME NEW st, CoreShape(st)
  PROVE  PlainStep(st, outgoing_close(st)) /\ PlainStep(st, incoming_eof(st))
<1>1. \A e : PlainStep(st, Failure(st, e))
  BY FailurePlain
<1>2. PlainStep(st, closed_transition(st))
  BY ClosedPlain
<1> QED BY <1>1, <1>2, Zenon DEF outgoing_close, incoming_eof

LEMMA TimerPlain ==
  ASSUME NEW st, CoreShape(st)
  PROVE  PlainStep(st, timer(st))
<1>1. PlainStep(st, empty_transition(st))
  BY EmitPlain DEF empty_transition
<1>2. PlainStep(st, closed_transition(st))
  BY ClosedPlain
<1> DEFINE st2 == [touch(st) EXCEPT !.pending_liveness = @ + 1]
<1>3. CoreShape(st2) /\ st2.next_sid = st.next_sid
  BY DEF CoreShape, touch
<1> HIDE DEF st2
<1>4. PlainStep(st, Emit(enqueue_ping(st2, Origin("Liveness")), << Ping >>))
  BY <1>3, PingPlain
<1> QED BY <1>1, <1>2, <1>4, Zenon DEF timer, st2

\* Only a subscribe takes a sid.
LEMMA SubscribeIs ==
  ASSUME NEW st, CoreShape(st), NEW subject,
         NEW tr, tr = outgoing_subscribe(st, subject)
  PROVE  /\ tr.error # None => PlainStep(st, tr)
         /\ tr.error = None =>
              /\ CoreShape(tr.state) /\ tr.state.next_sid = st.next_sid + 1
              /\ tr.sid = st.next_sid /\ tr.events = <<>> /\ tr.deliveries = <<>>
<1> DEFINE new == [subject |-> subject, remaining |-> None, delivered |-> 0]
           st2 == [st EXCEPT !.next_sid = st.next_sid + 1,
                             !.subscriptions =
                               [s \in DOMAIN @ \cup {st.next_sid} |->
                                  IF s = st.next_sid THEN new ELSE @[s]]]
<1>1. CoreShape(st2) /\ st2.next_sid = st.next_sid + 1
  BY DEF CoreShape
<1> HIDE DEF st2
<1>2. \A o : LET y == Transition(st2, o, <<>>, <<>>, st.next_sid)
             IN  /\ y.error = None /\ y.state = st2 /\ y.sid = st.next_sid
                 /\ y.events = <<>> /\ y.deliveries = <<>>
  BY DEF Transition
<1>3. \A e : PlainStep(st, Failure(st, e))
  BY FailurePlain
<1>6. "Codec" \in Errors /\ PhaseError(st) \in Errors
  BY DEF Errors, PhaseError
<1>4. \/ \E e \in Errors : tr = Failure(st, e)
      \/ \E o : tr = Transition(st2, o, <<>>, <<>>, st.next_sid)
  BY <1>6, Zenon DEF outgoing_subscribe, st2
<1>5. \A e : Failure(st, e).error = e
  BY DEF Failure
<1> QED
  <2>1. CASE \E e \in Errors : tr = Failure(st, e)
    <3>1. PICK e \in Errors : tr = Failure(st, e)
      BY <2>1
    <3>2. tr.error = e
      BY <1>5, <3>1
    <3>3. PlainStep(st, tr)
      BY <1>3, <3>1
    <3> QED BY <3>2, <3>3, NoneAssumption
  <2>2. CASE \E o : tr = Transition(st2, o, <<>>, <<>>, st.next_sid)
    BY <1>1, <1>2, <2>2
  <2> QED BY <1>4, <2>1, <2>2


LEMMA ConnectStep ==
  ASSUME NEW st, CoreShape(st)
  PROVE  CoreStep(st, outgoing_connect(st))
<1>1. \A e : CoreStep(st, Failure(st, e))
  BY FailurePlain DEF PlainStep
<1> DEFINE st2 == [st EXCEPT !.phase = "Connected"]
<1>2. CoreShape(st2) /\ st2.next_sid = st.next_sid
  BY DEF CoreShape, Phases
<1> HIDE DEF st2
<1>3. <<"Connected">> \in Seq(Events)
  BY EventLists DEF Events
<1>4. \A o : CoreStep(st, Transition(st2, o, <<"Connected">>, <<>>, None))
  BY <1>2, <1>3, EventLists DEF CoreStep, Transition
<1>5. \/ \E e : outgoing_connect(st) = Failure(st, e)
      \/ \E o : outgoing_connect(st) = Transition(st2, o, <<"Connected">>, <<>>, None)
  <2>1. st.phase \in {"Awaiting_info", "Awaiting_connect", "Connected",
                      "Draining", "Closed"}
    BY DEF CoreShape, Phases
  <2> QED BY <2>1 DEF outgoing_connect, st2
<1> QED BY <1>1, <1>4, <1>5, Zenon

\* What the server sends.
Received ==
  [op : {"INFO"}, info : Infos] \cup {Pong} \cup [op : {"MSG"}, sid : Nat]

LEMMA MessageStep ==
  ASSUME NEW st, CoreShape(st), NEW sid \in Nat
  PROVE  CoreStep(st, incoming_message(st, sid))
<1>1. CoreStep(st, empty_transition(st))
  BY EmitPlain DEF PlainStep, empty_transition
<1>2. ASSUME NEW subs
      PROVE  CoreStep(st, Transition(touch([st EXCEPT !.subscriptions = subs]),
                                     <<>>, <<>>, << sid >>, None))
  <2> DEFINE st2 == touch([st EXCEPT !.subscriptions = subs])
  <2>1. CoreShape(st2) /\ st2.next_sid = st.next_sid
    BY DEF CoreShape, touch
  <2> HIDE DEF st2
  <2>2. << sid >> \in Seq(Nat)
    OBVIOUS
  <2>3. CoreStep(st, Transition(st2, <<>>, <<>>, << sid >>, None))
    BY <2>1, <2>2, EventLists DEF CoreStep, Transition
  <2> QED BY <2>3, Zenon DEF st2
<1> QED BY <1>1, <1>2, Zenon DEF incoming_message

LEMMA InfoStep ==
  ASSUME NEW st, CoreShape(st), NEW info
  PROVE  CoreStep(st, incoming_info(st, info))
<1> DEFINE st2 == touch([st EXCEPT !.info = info,
                                   !.phase = IF @ = "Awaiting_info"
                                             THEN "Awaiting_connect" ELSE @])
<1>1. CoreShape(st2) /\ st2.next_sid = st.next_sid
  BY DEF CoreShape, touch, Phases
<1>2. info_events(info) \in Seq(Events)
  <2>1. "Info" \in Events /\ "Lame_duck_mode" \in Events
    BY DEF Events
  <2>2. <<"Info">> \in Seq(Events) /\ <<"Info", "Lame_duck_mode">> \in Seq(Events)
    BY <2>1, EventLists, Zenon
  <2> QED BY <2>2, Zenon DEF info_events
<1> HIDE DEF st2
<1>3. CoreStep(st, Transition(st2, <<>>, info_events(info), <<>>, None))
  BY <1>1, <1>2, EventLists DEF CoreStep, Transition
<1> QED BY <1>3, Zenon DEF incoming_info, st2

LEMMA PongStep ==
  ASSUME NEW st, CoreShape(st)
  PROVE  CoreStep(st, incoming_pong(st))
<1> DEFINE popped == [answered(st) EXCEPT !.pending_pings = Tail(@)]
           origin == Head(st.pending_pings)
           settled == CASE origin.kind = "Drain" ->
                             [popped EXCEPT !.subscriptions = <<>>, !.draining = {}]
                        [] origin.kind = "Subscription_drain" ->
                             forget_subscription(popped, origin.sid)
                        [] OTHER -> popped
           events == IF origin.kind = "Liveness" THEN <<>>
                     ELSE <<"Flush_completed">>
<1>1. ASSUME NEW st2, CoreShape(st2)
      PROVE  CoreShape(touch(st2)) /\ touch(st2).next_sid = st2.next_sid
  BY <1>1 DEF CoreShape, touch
<1>2. CoreShape(answered(st)) /\ answered(st).next_sid = st.next_sid
  BY DEF CoreShape, answered
<1>3. CoreShape(settled) /\ settled.next_sid = st.next_sid
  <2>1. CoreShape(popped) /\ popped.next_sid = st.next_sid
    BY <1>2 DEF CoreShape
  <2> HIDE DEF popped, origin
  <2>2. \A o : /\ CoreShape(forget_subscription(popped, o))
               /\ forget_subscription(popped, o).next_sid = st.next_sid
    BY <2>1 DEF CoreShape, forget_subscription
  <2>3. LET x == [popped EXCEPT !.subscriptions = <<>>, !.draining = {}]
        IN  CoreShape(x) /\ x.next_sid = st.next_sid
    BY <2>1 DEF CoreShape
  <2> QED BY <2>1, <2>2, <2>3
<1>4. events \in Seq(Events) /\ <<"Protocol_notice">> \in Seq(Events)
  <2>1. "Flush_completed" \in Events /\ "Protocol_notice" \in Events
    BY DEF Events
  <2>2. <<"Flush_completed">> \in Seq(Events) /\ <<"Protocol_notice">> \in Seq(Events)
    BY <2>1, EventLists, Zenon
  <2> QED BY <2>2, EventLists, Zenon
<1> DEFINE tr1 == Transition(touch(answered(st)), <<>>, <<"Protocol_notice">>, <<>>, None)
           tr2 == Transition(touch(settled), <<>>, events, <<>>, None)
<1>5. incoming_pong(st) = tr1 \/ incoming_pong(st) = tr2
  BY Zenon DEF incoming_pong
<1> HIDE DEF settled, events, popped, origin
<1>6. CoreStep(st, tr1)
  BY <1>1, <1>2, <1>4, EventLists DEF CoreStep, Transition
<1>7. CoreStep(st, tr2)
  BY <1>1, <1>3, <1>4, EventLists DEF CoreStep, Transition
<1> QED BY <1>5, <1>6, <1>7, Zenon

LEMMA OperationStep ==
  ASSUME NEW st, CoreShape(st), NEW op \in Received
  PROVE  CoreStep(st, handle_operation(st, op))
<1>1. \A e : CoreStep(st, Failure(st, e))
  BY FailurePlain DEF PlainStep
<1>2. \/ op.op = "INFO"
      \/ op.op = "PONG"
      \/ op.op = "MSG" /\ op.sid \in Nat
  BY DEF Received, Pong
<1>3. CoreStep(st, incoming_pong(st))
  BY PongStep
<1>4. CoreStep(st, incoming_info(st, op.info))
  BY InfoStep
<1>5. op.op = "MSG" => CoreStep(st, incoming_message(st, op.sid))
  BY <1>2, MessageStep
<1>6. st.phase \in {"Awaiting_info", "Awaiting_connect", "Connected",
                    "Draining", "Closed"}
  BY DEF CoreShape, Phases
<1>7. \/ \E e : handle_operation(st, op) = Failure(st, e)
      \/ op.op = "INFO" /\ handle_operation(st, op) = incoming_info(st, op.info)
      \/ op.op = "PONG" /\ handle_operation(st, op) = incoming_pong(st)
      \/ op.op = "MSG" /\ handle_operation(st, op) = incoming_message(st, op.sid)
  BY <1>2, <1>6 DEF handle_operation
<1> QED BY <1>1, <1>3, <1>4, <1>5, <1>7, Zenon


-----------------------------------------------------------------------------
(* Transitions of the core.                                                *)

\* A step that may take sids from the core and leaves the rest alone.
Grown(t, u) ==
  /\ Shape(u) /\ t.state.next_sid <= u.state.next_sid
  /\ u.work = t.work /\ u.barriers = t.barriers /\ u.completed = t.completed
  /\ u.requests = t.requests /\ u.handles = t.handles
  /\ u.subscriptions = t.subscriptions
  /\ u.subscription_drains = t.subscription_drains
  /\ u.answers = t.answers /\ u.setups = t.setups

LEMMA GrownKeeps ==
  ASSUME NEW k, NEW w, NEW b, NEW t, NEW u, LedgerOf(k, w, b, t), Grown(t, u)
  PROVE  LedgerOf(k, w, b, u)
BY SameLedger DEF Grown, SameFields

LEMMA QuietGrown ==
  ASSUME NEW t, Shape(t), NEW u, Quiet(t, u)
  PROVE  Grown(t, u)
<1>1. t.state.next_sid \in Nat
  BY DEF Shape, CoreShape
<1> QED BY <1>1 DEF Quiet, Grown

\* Events that the owner only passes on.
HandlingEvent(a, t, ev) == Then(t, LAMBDA x : handle_event(x, ev))
Passed(h, i, t) == Quiet(h, t) /\ t.state = h.state
PassedEvents == INSTANCE FoldLemmas WITH op <- HandlingEvent, R <- Passed

LEMMA EventPassed ==
  ASSUME NEW t, Shape(t), NEW ev \in {"Draining", "Closed"}
  PROVE  Quiet(t, handle_event(t, ev)) /\ handle_event(t, ev).state = t.state
<1>1. handle_event(t, ev) = event(t)
  BY DEF handle_event, Then
<1>2. event(t) = t \/ event(t) = Error(t, "Slow_consumer")
  BY Zenon DEF event
<1>3. Quiet(t, t)
  BY DEF Quiet
<1>4. Error(t, "Slow_consumer").state = t.state
  BY DEF Error, Shape
<1> QED BY <1>1, <1>2, <1>3, <1>4, ErrorQuiet, Zenon

LEMMA EventsPassed ==
  ASSUME NEW t, Shape(t),
         NEW events \in {<<>>, <<"Draining">>, <<"Closed">>},
         NEW u, u = handle_events(t, events)
  PROVE  Quiet(t, u) /\ u.state = t.state
<1>1. /\ events \in Seq(Events)
      /\ \A i \in 1..Len(events) : events[i] \in {"Draining", "Closed"}
  <2>1. "Draining" \in Events /\ "Closed" \in Events
    BY DEF Events
  <2>2. events \in Seq(Events)
    BY <2>1, EventLists
  <2>3. Len(<<>>) = 0 /\ Len(<<"Draining">>) = 1 /\ Len(<<"Closed">>) = 1
    OBVIOUS
  <2>4. \A i \in 1..1 : i = 1
    OBVIOUS
  <2>5. \A i \in 1..Len(events) : events[i] \in {"Draining", "Closed"}
    BY <2>3, <2>4
  <2> QED BY <2>2, <2>5
<1>2. Passed(t, 0, t)
  BY DEF Passed, Quiet
<1>3. ASSUME NEW i \in 1..Len(events), NEW x, Passed(t, i - 1, x)
      PROVE  Passed(t, i, HandlingEvent(0, x, events[i]))
  <2> DEFINE y == handle_event(x, events[i])
  <2>1. Quiet(t, x) /\ x.state = t.state /\ Shape(x)
    BY <1>3 DEF Passed, Quiet
  <2>2. Quiet(x, y) /\ y.state = x.state
    BY <1>1, <2>1, EventPassed
  <2>3. HandlingEvent(0, x, events[i]) = x \/ HandlingEvent(0, x, events[i]) = y
    BY Zenon DEF HandlingEvent, Then
  <2> HIDE DEF y
  <2>4. Quiet(t, y) /\ y.state = t.state
    BY <2>1, <2>2, QuietTwice
  <2> QED BY <2>1, <2>3, <2>4, Zenon DEF Passed
<1>4. PassedEvents!ItemsClaim(0, t, t, events)
  BY <1>2, <1>3 DEF PassedEvents!ItemsClaim
<1>5. Passed(t, Len(events), PassedEvents!OverItems(0, t, events))
  BY <1>1, <1>4, NaturalInduction, PassedEvents!SequenceFold, Zenon
     DEF PassedEvents!Inductive
<1>6. u = PassedEvents!OverItems(0, t, events)
  BY Zenon DEF PassedEvents!OverItems, FoldLeft, MapThenFoldSet, Max,
               handle_events, HandlingEvent
<1> QED BY <1>5, <1>6, Zenon DEF Passed

\* No delivery.
Delivering(a, t, sid) == Then(t, LAMBDA x : handle_delivery(x, sid))
Unmoved(h, i, t) == i = 0 => t = h
NoDeliveries == INSTANCE FoldLemmas WITH op <- Delivering, R <- Unmoved

LEMMA NothingDelivered ==
  ASSUME NEW t
  PROVE  handle_deliveries(t, <<>>) = t
<1> DEFINE s == <<>>
<1>1. s \in Seq(Nat) /\ Len(s) = 0
  OBVIOUS
<1> HIDE DEF s
<1>2. NoDeliveries!ItemsClaim(0, t, t, s)
  BY <1>1 DEF NoDeliveries!ItemsClaim, Unmoved
<1>3. Unmoved(t, Len(s), NoDeliveries!OverItems(0, t, s))
  BY <1>1, <1>2, NaturalInduction, NoDeliveries!SequenceFold, Zenon
     DEF NoDeliveries!Inductive
<1>4. handle_deliveries(t, s) = NoDeliveries!OverItems(0, t, s)
  BY Zenon DEF NoDeliveries!OverItems, FoldLeft, MapThenFoldSet, Max,
               handle_deliveries, Delivering
<1> QED BY <1>1, <1>3, <1>4 DEF Unmoved, s

\* A transition whose events are only passed on.
LEMMA TransitionGrown ==
  ASSUME NEW t, Shape(t), NEW tr, CoreShape(tr.state),
         t.state.next_sid <= tr.state.next_sid,
         tr.events \in {<<>>, <<"Draining">>, <<"Closed">>}, tr.deliveries = <<>>,
         NEW u, u = apply_transition(t, tr)
  PROVE  Grown(t, u) /\ (u.error = None => u.state = tr.state)
<1> DEFINE w == write_outputs(t, tr.output)
           x == [w EXCEPT !.state = tr.state]
           y == handle_events(x, tr.events)
<1>1. Quiet(t, w) /\ Shape(w) /\ Grown(t, w)
  BY WriteQuiet, QuietGrown DEF Quiet
<1>2. u = IF w.error # None THEN w ELSE IF y.error # None THEN y
          ELSE handle_deliveries(y, tr.deliveries)
  BY Zenon DEF apply_transition, Then
<1>3. u = IF w.error # None THEN w ELSE y
  BY <1>2, NothingDelivered, Zenon
<1> HIDE DEF w
<1>4. Grown(t, x) /\ Shape(x) /\ x.state = tr.state
  BY <1>1 DEF Grown, Shape
<1> HIDE DEF x
<1>5. Quiet(x, y) /\ y.state = x.state
  BY <1>4, EventsPassed
<1> HIDE DEF y
<1>6. Grown(t, y)
  BY <1>4, <1>5 DEF Grown, Quiet
<1> QED BY <1>1, <1>3, <1>4, <1>5, <1>6, Zenon

LEMMA PlainGrown ==
  ASSUME NEW t, Shape(t), NEW tr, PlainStep(t.state, tr),
         NEW u, u = apply_transition(t, tr)
  PROVE  Grown(t, u) /\ (u.error = None => u.state = tr.state)
<1>1. CoreShape(tr.state) /\ t.state.next_sid <= tr.state.next_sid
  BY DEF PlainStep, CoreStep, Shape, CoreShape
<1>2. tr.events \in {<<>>, <<"Draining">>, <<"Closed">>} /\ tr.deliveries = <<>>
  BY DEF PlainStep
<1> HIDE DEF PlainStep
<1> QED BY <1>1, <1>2, TransitionGrown


\* Unsubscribing in passing.
LEMMA UnsubscribeQuiet ==
  ASSUME NEW t, Shape(t), NEW sid, NEW u, u = unsubscribe_and_forget(t, sid)
  PROVE  Quiet(t, u)
<1> DEFINE tr == outgoing_unsubscribe(t.state, sid, None)
           w == write_outputs(t, tr.output)
           x == [w EXCEPT !.state = tr.state]
           y == unsubscribe_sid(t, sid)
<1>1. CoreShape(tr.state) /\ tr.state.next_sid = t.state.next_sid
  BY UnsubscribePlain DEF Shape, PlainStep, CoreStep
<1> HIDE DEF tr
<1>2. Quiet(t, w) /\ Shape(w)
  BY WriteQuiet DEF Quiet
<1>3. y = t \/ (\E e : y = Error(t, e)) \/ y = w \/ y = x
  BY Zenon DEF unsubscribe_sid, Then, tr
<1> HIDE DEF y, w
<1>4. Quiet(t, x)
  BY <1>1, <1>2 DEF Quiet, Shape
<1> HIDE DEF x
<1>5. Quiet(t, t)
  BY DEF Quiet
<1>6. \A e : Quiet(t, Error(t, e))
  BY ErrorQuiet
<1>7. Quiet(t, y)
  BY <1>2, <1>3, <1>4, <1>5, <1>6, Zenon
<1>8. Quiet(t, forget(y, sid))
  <2>1. Quiet(y, forget(y, sid))
    BY <1>7, ForgetQuiet DEF Quiet
  <2> QED BY <1>7, <2>1, QuietTwice, Zenon
<1>9. u = y \/ u = forget(y, sid)
  BY Zenon DEF unsubscribe_and_forget, y
<1> QED BY <1>7, <1>8, <1>9, Zenon

\* The ledger after a quiet step.
LEMMA QuietLedger ==
  ASSUME NEW k, NEW t, Ledger(k, t), NEW u, Quiet(t, u)
  PROVE  Ledger(k, u)
BY QuietKeeps DEF Ledger, Quiet

LEMMA GrownLedger ==
  ASSUME NEW k, NEW t, Ledger(k, t), NEW u, Grown(t, u)
  PROVE  Ledger(k, u)
BY GrownKeeps DEF Ledger, Grown

LEMMA LedgerShape ==
  ASSUME NEW k, NEW t, Ledger(k, t)
  PROVE  Shape(t) /\ CoreShape(t.state) /\ t.state.next_sid \in Nat
BY DEF Ledger, LedgerOf, Shape, CoreShape

LEMMA ClosingLedger ==
  ASSUME NEW k, NEW t, Ledger(k, t), NEW sid, NEW u, u = close_subscription(t, sid)
  PROVE  Ledger(k, u) /\ DrainsFrame(k, t, u) /\ sid \notin u.subscriptions
<1>1. /\ LedgerOf(k, t.work, t.barriers, u) /\ DrainsFrame(k, t, u)
      /\ sid \notin u.subscriptions
  BY CloseSubscriptionKeeps DEF Ledger
<1> QED BY <1>1 DEF Ledger, DrainsFrame

LEMMA FinishedLedger ==
  ASSUME NEW k, NEW t, Ledger(k, t), NEW u, u = remove_finished_subscriptions(t)
  PROVE  Ledger(k, u)
<1> DEFINE sids == t.subscriptions \ (DOMAIN t.state.subscriptions
                                        \cup DOMAIN t.subscription_drains)
<1>1. sids \in SUBSET t.subscriptions
  OBVIOUS
<1>2. u = close_subscriptions(t, sids)
  BY DEF remove_finished_subscriptions
<1> HIDE DEF sids
<1>3. LedgerOf(k, t.work, t.barriers, u) /\ DrainsFrame(k, t, u)
  BY <1>1, <1>2, CloseSubscriptionsKeeps DEF Ledger
<1> QED BY <1>3 DEF Ledger, DrainsFrame

\* The commands that resume the drains.
ResumeOf(k, t, command) ==
  /\ command \in Commands /\ command.kind = "Resume"
  /\ k[command.call].kind = Dr /\ k[command.call].sid = command.sid
  /\ Armed(k, t, command.call)

Resuming(a, commands, sid) == Append(commands, Command("Resume", a[sid], sid))
Resumed(h, s, commands) ==
  /\ commands \in Seq(Commands)
  /\ \A i \in DOMAIN commands : ResumeOf(h.k, h.t, commands[i])
Resumptions == INSTANCE FoldLemmas WITH op <- Resuming, R <- Resumed

LEMMA ResumeCommandsAre ==
  ASSUME NEW k, NEW t, Ledger(k, t), NEW commands, commands = ResumeCommands(t)
  PROVE  /\ commands \in Seq(Commands)
         /\ \A i \in DOMAIN commands : ResumeOf(k, t, commands[i])
<1> DEFINE h == [k |-> k, t |-> t]
           a == t.subscription_drains
           S == DOMAIN t.subscription_drains
<1>1. \A x \in S : a[x] \in Calls /\ k[a[x]].kind = Dr /\ k[a[x]].sid = x
                   /\ Armed(k, t, a[x])
  BY DEF Ledger, LedgerOf, DrainInv
<1>2. t.state.next_sid \in Nat /\ S \in SUBSET (0..t.state.next_sid)
  BY SidsBounded DEF Ledger
<1>3. Resumed(h, {}, <<>>)
  BY DEF Resumed
<1>4. ASSUME NEW s \in SUBSET S, NEW x \in S \ s, NEW y, Resumed(h, s, y)
      PROVE  Resumed(h, s \cup {x}, Resuming(a, y, x))
  <2> DEFINE e == Command("Resume", a[x], x)
  <2>1. x \in Nat
    BY <1>2
  <2>2. ResumeOf(k, t, e)
    BY <1>1, <2>1 DEF Command, ResumeOf, Commands, OwnKinds
  <2> HIDE DEF e
  <2>3. y \in Seq(Commands) /\ \A i \in DOMAIN y : ResumeOf(k, t, y[i])
    BY <1>4 DEF Resumed
  <2>4. e \in Commands
    BY <2>2 DEF ResumeOf
  <2>5. /\ Append(y, e) \in Seq(Commands)
        /\ \A i \in DOMAIN Append(y, e) :
             (i \in DOMAIN y /\ Append(y, e)[i] = y[i]) \/ Append(y, e)[i] = e
    BY <2>3, <2>4
  <2>6. Resuming(a, y, x) = Append(y, e)
    BY DEF Resuming, e
  <2>7. \A i \in DOMAIN Append(y, e) : ResumeOf(k, t, Append(y, e)[i])
    BY <2>2, <2>3, <2>5, Zenon
  <2> QED BY <2>5, <2>6, <2>7 DEF Resumed
<1>5. commands = Resumptions!OverNumbers(a, <<>>, S)
  BY Zenon DEF Resumptions!OverNumbers, ResumeCommands, OverSids,
               MapThenFoldSet, Max, Resuming
<1> HIDE DEF a, S, h
<1>6. Resumptions!NumbersClaim(a, h, <<>>, S)
  BY <1>3, <1>4 DEF Resumptions!NumbersClaim
<1>7. Resumed(h, S, Resumptions!OverNumbers(a, <<>>, S))
  BY <1>2, <1>6, NaturalInduction, Resumptions!NumbersFold, Zenon
     DEF Resumptions!Inductive
<1> QED BY <1>5, <1>7 DEF Resumed, h

\* Commands of the owner itself at the end of the queue.
LEMMA ResumesKeep ==
  ASSUME NEW k, NEW w, NEW b, NEW t, LedgerOf(k, w, b, t),
         NEW r \in Seq(Commands), \A i \in DOMAIN r : ResumeOf(k, t, r[i])
  PROVE  LedgerOf(k, w \o r, b, t)
<1> DEFINE x == w \o r
<1>1. WorkInv(k, w, b, t) /\ w \in Seq(Commands)
  BY DEF LedgerOf, WorkInv
<1>2. /\ x \in Seq(Commands) /\ DOMAIN x \subseteq Nat
      /\ \A i \in DOMAIN w : i \in DOMAIN x /\ x[i] = w[i]
                             /\ \A j \in 1..i - 1 : x[j] = w[j]
      /\ \A i \in DOMAIN x : (i \in DOMAIN w /\ x[i] = w[i])
                             \/ \E j \in DOMAIN r : x[i] = r[j]
  <2>1. Len(w) \in Nat /\ Len(r) \in Nat /\ DOMAIN w = 1..Len(w)
        /\ DOMAIN r = 1..Len(r)
    BY <1>1
  <2>2. /\ x \in Seq(Commands) /\ DOMAIN x = 1..Len(w) + Len(r)
        /\ \A i \in 1..Len(w) : x[i] = w[i]
        /\ \A i \in 1..Len(r) : x[Len(w) + i] = r[i]
    BY <1>1
  <2> HIDE DEF x
  <2>3. ASSUME NEW i \in DOMAIN x, i \notin DOMAIN w
        PROVE  \E j \in DOMAIN r : x[i] = r[j]
    <3>1. i - Len(w) \in 1..Len(r) /\ Len(w) + (i - Len(w)) = i
      BY <2>1, <2>2, <2>3
    <3> QED BY <2>1, <2>2, <3>1
  <2> QED BY <2>1, <2>2, <2>3
<1> HIDE DEF x
<1>3. \A i \in DOMAIN x :
        (i \in DOMAIN w /\ x[i] = w[i])
        \/ (ResumeOf(k, t, x[i]) /\ x[i].kind = "Resume")
  BY <1>2 DEF ResumeOf
<1>4. "Resume" \notin AllKinds /\ "Resume" # Dr
  BY DEF AllKinds, Dr
<1>5. WorkInv(k, x, b, t)
  <2>1. ASSUME NEW i \in DOMAIN x
        PROVE  /\ x[i].kind \in AllKinds => k[x[i].call].kind = x[i].kind
                                            /\ k[x[i].call].sid = x[i].sid
               /\ x[i].kind \in {"Resume", "Cancel_drain"}
                    => k[x[i].call].kind = Dr /\ k[x[i].call].sid = x[i].sid
               /\ x[i].kind \in AllKinds \ {Dr}
                    => t.answers[x[i].call] = <<>> /\ t.setups[x[i].call] = <<>>
               /\ x[i].kind = "Request"
                    => \A s \in DOMAIN t.requests : t.requests[s] # x[i].call
               /\ x[i].kind = Dr /\ x[i].sid \in t.subscriptions
                    => t.handles[x[i].sid].drain = x[i].call
               /\ \A j \in DOMAIN b : x[i].kind \in Barriers /\ b[j].kind \in Barriers
                    => x[i].call # b[j].call
    <3>1. CASE i \in DOMAIN w /\ x[i] = w[i]
      BY <1>1, <3>1 DEF WorkInv
    <3>2. CASE ResumeOf(k, t, x[i]) /\ x[i].kind = "Resume"
      BY <1>4, <3>2 DEF ResumeOf, Barriers
    <3> QED BY <1>3, <3>1, <3>2
  <2>2. ASSUME NEW i \in DOMAIN x, x[i].kind = "Cancel_drain",
               x[i].sid \in t.subscriptions, t.handles[x[i].sid].waiter = None
        PROVE  \E j \in 1..i - 1 : x[j].kind = Dr /\ x[j].sid = x[i].sid
    <3>1. i \in DOMAIN w /\ x[i] = w[i]
      BY <1>3, <2>2
    <3>2. PICK j \in 1..i - 1 : w[j].kind = Dr /\ w[j].sid = w[i].sid
      BY <1>1, <2>2, <3>1 DEF WorkInv
    <3>3. x[j] = w[j]
      BY <1>2, <3>1
    <3> QED BY <3>1, <3>2, <3>3
  <2>3. ASSUME NEW i \in DOMAIN x, NEW j \in DOMAIN x, i # j,
               x[i].kind \in AllKinds, x[j].kind \in AllKinds
        PROVE  x[i].call # x[j].call
    BY <1>1, <1>3, <1>4, <2>3 DEF WorkInv
  <2> QED BY <1>2, <2>1, <2>2, <2>3 DEF WorkInv
<1>6. DrainInv(k, x, b, t)
  BY <1>3 DEF LedgerOf, DrainInv, ResumeOf
<1>7. HandleInv(k, x, t)
  <2>1. HandleInv(k, w, t)
    BY DEF LedgerOf
  <2>2. \A s : (\E j \in DOMAIN w : w[j].kind = Dr /\ w[j].sid = s)
               => \E j \in DOMAIN x : x[j].kind = Dr /\ x[j].sid = s
    BY <1>2
  <2> QED BY <2>1, <2>2 DEF HandleInv
<1>8. LedgerOf(k, x, b, t)
  BY <1>5, <1>6, <1>7 DEF LedgerOf
<1> QED BY <1>8 DEF x

LEMMA ReconnectedLedger ==
  ASSUME NEW k, NEW t, Ledger(k, t), NEW u, u = reconnected(t)
  PROVE  Ledger(k, u)
<1> DEFINE x == flush_reconnect_pending(t)
           y == [x EXCEPT !.work = @ \o ResumeCommands(x), !.reconnecting = FALSE,
                          !.reconnect_publish_state = None]
<1>1. Quiet(t, x)
  BY LedgerShape, FlushPendingQuiet
<1>2. u = x \/ u = y
  BY Zenon DEF reconnected, Then
<1> HIDE DEF x
<1>3. Ledger(k, x)
  BY <1>1, QuietLedger
<1> DEFINE r == ResumeCommands(x)
<1>4. r \in Seq(Commands) /\ \A i \in DOMAIN r : ResumeOf(k, x, r[i])
  BY <1>3, ResumeCommandsAre
<1> HIDE DEF r
<1>5. LedgerOf(k, x.work \o r, x.barriers, x)
  BY <1>3, <1>4, ResumesKeep DEF Ledger
<1>6. y = [x EXCEPT !.work = @ \o r, !.reconnecting = FALSE,
                    !.reconnect_publish_state = None]
  BY DEF r
<1> HIDE DEF y
<1>7. /\ SameFields(x, y) /\ y.work = x.work \o r /\ y.barriers = x.barriers
  BY <1>3, <1>6, LedgerShape DEF SameFields, Shape
<1>8. LedgerOf(k, x.work \o r, x.barriers, y)
  BY <1>5, <1>7, SameLedger, Zenon
<1> QED BY <1>2, <1>3, <1>7, <1>8 DEF Ledger


\* A drain that is armed, in the table of drains.
LEMMA TableKeeps ==
  ASSUME NEW k, NEW t, Ledger(k, t), NEW c \in Calls, NEW sid,
         k[c].kind = Dr, k[c].sid = sid, Armed(k, t, c),
         NEW u, u = [t EXCEPT !.subscription_drains = With(@, sid, c)]
  PROVE  Ledger(k, u)
<1>1. /\ Shape(u) /\ u.state = t.state /\ u.work = t.work
      /\ u.barriers = t.barriers /\ u.completed = t.completed
      /\ u.requests = t.requests /\ u.handles = t.handles
      /\ u.subscriptions = t.subscriptions /\ u.answers = t.answers
      /\ u.setups = t.setups
      /\ u.subscription_drains = With(t.subscription_drains, sid, c)
  BY LedgerShape DEF Shape
<1>2. /\ Promises(u) /\ WorkInv(k, t.work, t.barriers, u) /\ RequestInv(k, u)
      /\ BarrierInv(k, t.barriers, u) /\ HandleInv(k, t.work, u)
      /\ SidInv(k, u) /\ IdleInv(k, u)
  <2>1. HandleInv(k, t.work, u)
    BY <1>1, HandleSame DEF Ledger, LedgerOf
  <2>2. WorkInv(k, t.work, t.barriers, u)
    <3>1. WorkInv(k, t.work, t.barriers, t)
      BY DEF Ledger, LedgerOf
    <3> QED BY <1>1, <3>1 DEF WorkInv
  <2> QED BY <1>1, <2>1, <2>2 DEF Ledger, LedgerOf, Promises, RequestInv, BarrierInv,
                                  SidInv, IdleInv
<1>3. DrainInv(k, t.work, t.barriers, u)
  <2>1. DrainInv(k, t.work, t.barriers, t)
    BY DEF Ledger, LedgerOf
  <2>2. \A d \in Calls : Armed(k, u, d) <=> Armed(k, t, d)
    BY <1>1 DEF Armed
  <2>3. \A s \in DOMAIN u.subscription_drains :
          \/ s = sid /\ u.subscription_drains[s] = c
          \/ /\ s \in DOMAIN t.subscription_drains
             /\ u.subscription_drains[s] = t.subscription_drains[s]
    BY <1>1 DEF With
  <2>4. /\ \A i \in DOMAIN t.barriers : t.barriers[i].call \in Calls
        /\ \A i \in DOMAIN t.work : t.work[i].call \in Calls
    BY CommandTyped, BarrierTyped DEF Ledger, LedgerOf, WorkInv, BarrierInv
  <2> QED BY <2>1, <2>2, <2>3, <2>4 DEF DrainInv
<1> QED BY <1>1, <1>2, <1>3 DEF Ledger, LedgerOf

\* A PONG settles the first barrier.
LEMMA FlushCompletedLedger ==
  ASSUME NEW k, NEW t, Ledger(k, t), NEW u, u = flush_completed(t)
  PROVE  Ledger(k, u)
<1> DEFINE b == t.barriers
           x == [t EXCEPT !.barriers = Tail(@)]
           a == settles(b)
           c == a.call
           sid == a.sid
<1>1. CASE b = <<>>
  BY <1>1 DEF flush_completed
<1>2. CASE b # <<>>
  <2>1. b \in Seq(BarrierRecords)
    BY DEF Ledger, LedgerOf, BarrierInv
  <2>2. Tail(b) = Rest(b) /\ settles(b) = b[1]
    BY <1>2, <2>1, RestIs DEF settles
  <2>3. /\ LedgerOf(k, t.work, Rest(b), t)
        /\ a \in BarrierRecords
        /\ a.kind \in Barriers /\ c \notin t.completed
             => InHand(k, t.work, Rest(b), t, c)
        /\ a.kind = "Drain" => c \notin t.completed
        /\ a.kind \notin Barriers
             => /\ a.kind = "Subscription_drain" /\ Armed(k, t, c)
                /\ k[c].kind = Dr /\ k[c].sid = sid
    <3>1. LedgerOf(k, t.work, b, t)
      BY DEF Ledger
    <3> HIDE DEF a, b
    <3>2. a = b[1]
      BY <2>2 DEF a
    <3> QED BY <1>2, <3>1, <3>2, BarrierTaken
  <2>4. /\ Shape(x) /\ x.state = t.state /\ x.work = t.work
        /\ x.barriers = Rest(b) /\ x.completed = t.completed
        /\ x.requests = t.requests /\ x.handles = t.handles
        /\ x.subscriptions = t.subscriptions /\ x.answers = t.answers
        /\ x.setups = t.setups /\ x.subscription_drains = t.subscription_drains
    BY <2>2, LedgerShape DEF Shape
  <2>5. u = CASE a.kind = "Flush" ->
                  IF c \in x.completed THEN x
                  ELSE resolve_unit([x EXCEPT !.completed = @ \cup {c}], c, "Ok")
             [] a.kind = "Drain" -> finish(resolve_unit(x, c, "Ok"))
             [] a.kind = "Subscription_drain" ->
                  IF c \in x.completed THEN x
                  ELSE IF sid \notin x.subscriptions
                  THEN complete_drain_waiter(x, c, sid, "Error")
                  ELSE IF sid \notin DOMAIN x.state.subscriptions
                  THEN complete_drain(x, c, sid, "Ok")
                  ELSE [x EXCEPT !.subscription_drains = With(@, sid, c)]
    BY <1>2, Zenon DEF flush_completed
  <2> HIDE DEF x, a
  <2>6. Ledger(k, x)
    <3>1. SameFields(t, x)
      BY <2>4, LedgerShape DEF SameFields
    <3>2. LedgerOf(k, t.work, Rest(b), x)
      BY <2>3, <3>1, SameLedger, Zenon
    <3> QED BY <2>4, <3>2 DEF Ledger
  <2>7. c \in Calls
    BY <2>3 DEF BarrierRecords
  <2>8. CASE a.kind = "Flush"
    <3>1. CASE c \in x.completed
      BY <2>5, <2>6, <2>8, <3>1
    <3>2. CASE c \notin x.completed
      <4> DEFINE y == [x EXCEPT !.completed = @ \cup {c}]
      <4>1. u = resolve_unit(y, c, "Ok")
        BY <2>5, <2>8, <3>2
      <4>2. InHand(k, x.work, x.barriers, x, c)
        BY <2>3, <2>4, <2>8, <3>2 DEF InHand, Open, Barriers
      <4>3. /\ Shape(y) /\ Promises(y) /\ y.answers = x.answers
            /\ y.completed = x.completed \cup {c} /\ y.state = x.state
            /\ y.requests = x.requests /\ y.handles = x.handles
            /\ y.subscriptions = x.subscriptions /\ y.work = x.work
            /\ y.barriers = x.barriers /\ y.setups = x.setups
            /\ y.subscription_drains = x.subscription_drains
        BY <2>4, <2>6 DEF Shape, Ledger, LedgerOf, Promises
      <4> HIDE DEF y
      <4>4. y.answers[c] = <<>>
        BY <4>2, <4>3 DEF InHand, Open
      <4>5. Shape(u) /\ u = [y EXCEPT !.answers[c] = << "Ok" >>]
        BY <2>7, <4>1, <4>3, <4>4, AreResults, Resolved
      <4>6. ResolvedAs(x, u, {c}, {c}, "Ok") /\ u.work = x.work
            /\ u.barriers = x.barriers
        <5>1. /\ u.answers = [y.answers EXCEPT ![c] = << "Ok" >>]
              /\ u.work = y.work /\ u.barriers = y.barriers /\ u.state = y.state
              /\ u.completed = y.completed /\ u.requests = y.requests
              /\ u.handles = y.handles /\ u.subscriptions = y.subscriptions
              /\ u.setups = y.setups
              /\ u.subscription_drains = y.subscription_drains
          BY <4>3, <4>5 DEF Shape
        <5>2. DOMAIN y.answers = Calls
          BY <4>3 DEF Promises
        <5>3. u.answers = [d \in Calls |-> IF d \in {c} THEN << "Ok" >>
                                           ELSE y.answers[d]]
          BY <5>1, <5>2
        <5> QED BY <4>3, <4>5, <5>1, <5>3 DEF ResolvedAs
      <4>7. OpenCalls(k, x.work, x.barriers, x, {c}, {c})
        BY <4>2 DEF OpenCalls, InHand
      <4>8. LedgerOf(k, x.work, x.barriers, u)
        BY <2>6, <4>6, <4>7, ResolvedKeeps, AreResults DEF Ledger
      <4> QED BY <4>6, <4>8 DEF Ledger
    <3> QED BY <3>1, <3>2
  <2>9. CASE a.kind = "Drain"
    <3> DEFINE y == resolve_unit(x, c, "Ok")
    <3>1. InHand(k, x.work, x.barriers, x, c)
      BY <2>3, <2>4, <2>9 DEF InHand, Open, Barriers
    <3>2. LedgerOf(k, x.work, x.barriers, y) /\ OnlyAnswers(x, y)
      BY <2>6, <3>1, AnswerKeeps DEF Ledger
    <3>3. u = finish(y)
      BY <2>5, <2>9
    <3> HIDE DEF y
    <3>4. Ledger(k, y)
      BY <3>2 DEF Ledger, OnlyAnswers
    <3> QED BY <3>3, <3>4, FinishKeeps
  <2>10. CASE a.kind = "Subscription_drain"
    <3>1. /\ Armed(k, x, c) /\ k[c].kind = Dr /\ k[c].sid = sid
      BY <2>3, <2>4, <2>10 DEF Armed, Barriers
    <3>2. CASE c \in x.completed
      BY <2>5, <2>6, <2>10, <3>2
    <3>3. CASE c \notin x.completed
      <4>1. sid \in DOMAIN x.handles /\ x.handles[sid].waiter = c
        BY <3>1, <3>3 DEF Armed
      <4>2. CASE u = complete_drain_waiter(x, c, sid, "Error")
        <5>1. LedgerOf(k, x.work, x.barriers, u) /\ DrainFrame(k, sid, x, u)
          BY <2>6, <2>7, <3>1, <4>2, AreResults, CompleteWaiterKeeps DEF Ledger
        <5> QED BY <5>1 DEF Ledger, DrainFrame, DrainsFrame
      <4>3. CASE u = complete_drain(x, c, sid, "Ok")
        <5>1. LedgerOf(k, x.work, x.barriers, u) /\ DrainFrame(k, sid, x, u)
          BY <2>6, <2>7, <3>1, <4>1, <4>3, AreResults, CompleteDrainKeeps DEF Ledger
        <5> QED BY <5>1 DEF Ledger, DrainFrame, DrainsFrame
      <4>4. CASE u = [x EXCEPT !.subscription_drains = With(@, sid, c)]
        BY <2>6, <2>7, <3>1, <4>4, TableKeeps
      <4> QED BY <2>5, <2>10, <3>3, <4>2, <4>3, <4>4
    <3> QED BY <3>2, <3>3
  <2> QED BY <2>3, <2>8, <2>9, <2>10 DEF BarrierRecords, Barriers
<1> QED BY <1>1, <1>2

LEMMA EventQuiet ==
  ASSUME NEW t, Shape(t)
  PROVE  Quiet(t, event(t))
<1>1. event(t) = t \/ event(t) = Error(t, "Slow_consumer")
  BY Zenon DEF event
<1>2. Quiet(t, t)
  BY DEF Quiet
<1> QED BY <1>1, <1>2, ErrorQuiet, Zenon

LEMMA EventLedger ==
  ASSUME NEW k, NEW t, Ledger(k, t), NEW ev
  PROVE  Ledger(k, handle_event(t, ev))
<1> DEFINE x == event(t)
           y == [x EXCEPT !.handshake_deadline = FALSE]
           z == [y EXCEPT !.ready = @ \/ x.connect_sent]
<1>1. Ledger(k, x)
  BY LedgerShape, EventQuiet, QuietLedger
<1>2. \/ handle_event(t, ev) = x
      \/ handle_event(t, ev) = reconnected(y)
      \/ handle_event(t, ev) = z
      \/ handle_event(t, ev) = flush_completed(x)
  BY DEF handle_event, Then
<1> HIDE DEF x
<1>3. Quiet(x, y) /\ Quiet(x, z)
  BY <1>1, LedgerShape DEF Quiet, Shape
<1> HIDE DEF y, z
<1>4. Ledger(k, y) /\ Ledger(k, z)
  BY <1>1, <1>3, QuietLedger
<1>5. Ledger(k, reconnected(y)) /\ Ledger(k, flush_completed(x))
  BY <1>1, <1>4, ReconnectedLedger, FlushCompletedLedger
<1> QED BY <1>1, <1>2, <1>4, <1>5, Zenon

\* The events of a transition.
Recorded(h, i, t) == Ledger(h, t)
Handlings == INSTANCE FoldLemmas WITH op <- HandlingEvent, R <- Recorded

LEMMA EventsLedger ==
  ASSUME NEW k, NEW t, Ledger(k, t), NEW events \in Seq(Events)
  PROVE  Ledger(k, handle_events(t, events))
<1>1. ASSUME NEW i \in 1..Len(events), NEW x, Recorded(k, i - 1, x)
      PROVE  Recorded(k, i, HandlingEvent(0, x, events[i]))
  <2>1. Ledger(k, handle_event(x, events[i]))
    BY <1>1, EventLedger DEF Recorded
  <2> QED BY <1>1, <2>1, Zenon DEF Recorded, HandlingEvent, Then
<1>2. Handlings!ItemsClaim(0, k, t, events)
  BY <1>1 DEF Handlings!ItemsClaim, Recorded
<1>3. Recorded(k, Len(events), Handlings!OverItems(0, t, events))
  BY <1>2, NaturalInduction, Handlings!SequenceFold, Zenon
     DEF Handlings!Inductive
<1>4. handle_events(t, events) = Handlings!OverItems(0, t, events)
  BY Zenon DEF Handlings!OverItems, FoldLeft, MapThenFoldSet, Max,
               handle_events, HandlingEvent
<1> QED BY <1>3, <1>4 DEF Recorded


\* A request that is taken off the table leaves its call in hand.
LEMMA DropRequestLedger ==
  ASSUME NEW k, NEW t, Ledger(k, t), NEW sid \in DOMAIN t.requests,
         NEW u, u = drop_request(t, sid), NEW c, c = t.requests[sid]
  PROVE  /\ Ledger(k, u) /\ InHand(k, u.work, u.barriers, u, c)
         /\ k[c].kind = "Request"
         /\ DOMAIN u.requests = DOMAIN t.requests \ {sid}
         /\ u.work = t.work /\ u.setups = t.setups
         /\ \A s \in DOMAIN u.requests : u.requests[s] = t.requests[s]
<1>1. /\ Shape(u) /\ u.state = t.state /\ u.work = t.work
      /\ u.barriers = t.barriers /\ u.completed = t.completed
      /\ u.handles = t.handles /\ u.subscriptions = t.subscriptions
      /\ u.subscription_drains = t.subscription_drains
      /\ u.answers = t.answers /\ u.setups = t.setups
      /\ u.requests = Less(t.requests, sid)
  BY LedgerShape DEF drop_request, Shape
<1>2. /\ DOMAIN u.requests = DOMAIN t.requests \ {sid}
      /\ \A s \in DOMAIN u.requests : u.requests[s] = t.requests[s]
  BY <1>1 DEF Less
<1>3. /\ Promises(u) /\ BarrierInv(k, t.barriers, u) /\ HandleInv(k, t.work, u)
      /\ IdleInv(k, u) /\ DrainInv(k, t.work, t.barriers, u)
  <2>1. Promises(u) /\ BarrierInv(k, t.barriers, u) /\ IdleInv(k, u)
    BY <1>1 DEF Ledger, LedgerOf, Promises, BarrierInv, IdleInv
  <2>2. HandleInv(k, t.work, u)
    BY <1>1, HandleSame DEF Ledger, LedgerOf
  <2>3. DrainInv(k, t.work, t.barriers, u)
    BY <1>1, DrainSame DEF Ledger, LedgerOf
  <2> QED BY <2>1, <2>2, <2>3
<1>4. WorkInv(k, t.work, t.barriers, u)
  <2>1. WorkInv(k, t.work, t.barriers, t)
    BY DEF Ledger, LedgerOf
  <2>2. \A i \in DOMAIN t.work : t.work[i].kind = "Request"
          => \A s \in DOMAIN u.requests : u.requests[s] # t.work[i].call
    BY <1>2, <2>1 DEF WorkInv
  <2>3. Requesting(t.work, t, u)
    BY <1>1, <2>2 DEF Requesting
  <2> QED BY <2>1, <2>3, WorkRequests
<1>5. RequestInv(k, u) /\ SidInv(k, u)
  BY <1>1, <1>2 DEF Ledger, LedgerOf, RequestInv, SidInv
<1>6. Ledger(k, u)
  BY <1>1, <1>3, <1>4, <1>5 DEF Ledger, LedgerOf
<1>7. /\ c \in Calls /\ k[c].kind = "Request" /\ t.answers[c] = <<>>
      /\ \A s \in DOMAIN t.requests : t.requests[s] = c => s = sid
  BY DEF Ledger, LedgerOf, RequestInv
<1>8. \A i \in DOMAIN t.work : t.work[i].kind \in AllKinds => t.work[i].call # c
  BY <1>7 DEF Ledger, LedgerOf, WorkInv
<1>9. \A i \in DOMAIN t.barriers : t.barriers[i].kind \in Barriers
                                   => t.barriers[i].call # c
  BY <1>7 DEF Ledger, LedgerOf, BarrierInv, Barriers
<1>10. InHand(k, u.work, u.barriers, u, c)
  BY <1>1, <1>2, <1>7, <1>8, <1>9 DEF InHand, Open, Dr
<1> QED BY <1>1, <1>2, <1>6, <1>7, <1>10

\* Resolving the promise of a call that is in hand.
LEMMA AnswerLedger ==
  ASSUME NEW k, NEW t, Ledger(k, t), NEW c, InHand(k, t.work, t.barriers, t, c),
         NEW u, u = resolve_unit(t, c, "Ok") \/ u = fail_waiter(t, c)
  PROVE  Ledger(k, u) /\ OnlyAnswers(t, u)
<1>1. LedgerOf(k, t.work, t.barriers, u) /\ OnlyAnswers(t, u)
  BY AnswerKeeps, FailKeeps DEF Ledger
<1> QED BY <1>1 DEF Ledger, OnlyAnswers

LEMMA DeliveryLedger ==
  ASSUME NEW k, NEW t, Ledger(k, t), NEW sid, NEW u, u = handle_delivery(t, sid)
  PROVE  Ledger(k, u)
<1>1. CASE sid \in DOMAIN t.requests
  <2> DEFINE d == drop_request(t, sid)
             c == t.requests[sid]
             x == resolve_unit(d, c, "Ok")
  <2>1. Ledger(k, d) /\ InHand(k, d.work, d.barriers, d, c)
    BY <1>1, DropRequestLedger
  <2>2. u = unsubscribe_and_forget(x, sid)
    BY <1>1, Zenon DEF handle_delivery
  <2> HIDE DEF d, c
  <2>3. Ledger(k, x)
    BY <2>1, AnswerLedger
  <2> HIDE DEF x
  <2>4. Quiet(x, u)
    BY <2>2, <2>3, LedgerShape, UnsubscribeQuiet
  <2> QED BY <2>3, <2>4, QuietLedger
<1>2. CASE sid \notin DOMAIN t.requests
  <2> DEFINE x == close_subscription(t, sid)
             y == event(x)
  <2>1. \/ u = t \/ u = remove_finished_subscriptions(t) \/ u = y
        \/ u = unsubscribe_and_forget(y, sid)
    BY <1>2, Zenon DEF handle_delivery, Then
  <2>2. Ledger(k, x)
    BY ClosingLedger
  <2> HIDE DEF x
  <2>3. Ledger(k, y)
    BY <2>2, LedgerShape, EventQuiet, QuietLedger
  <2> HIDE DEF y
  <2>4. Ledger(k, unsubscribe_and_forget(y, sid))
    BY <2>3, LedgerShape, UnsubscribeQuiet, QuietLedger
  <2>5. Ledger(k, remove_finished_subscriptions(t))
    BY FinishedLedger
  <2> QED BY <2>1, <2>3, <2>4, <2>5, Zenon
<1> QED BY <1>1, <1>2

\* The deliveries of a transition.
Deliveries == INSTANCE FoldLemmas WITH op <- Delivering, R <- Recorded

LEMMA DeliveriesLedger ==
  ASSUME NEW k, NEW t, Ledger(k, t), NEW sids \in Seq(Nat)
  PROVE  Ledger(k, handle_deliveries(t, sids))
<1>1. ASSUME NEW i \in 1..Len(sids), NEW x, Recorded(k, i - 1, x)
      PROVE  Recorded(k, i, Delivering(0, x, sids[i]))
  <2>1. Ledger(k, handle_delivery(x, sids[i]))
    BY <1>1, DeliveryLedger DEF Recorded
  <2> QED BY <1>1, <2>1, Zenon DEF Recorded, Delivering, Then
<1>2. Deliveries!ItemsClaim(0, k, t, sids)
  BY <1>1 DEF Deliveries!ItemsClaim, Recorded
<1>3. Recorded(k, Len(sids), Deliveries!OverItems(0, t, sids))
  BY <1>2, NaturalInduction, Deliveries!SequenceFold, Zenon
     DEF Deliveries!Inductive
<1>4. handle_deliveries(t, sids) = Deliveries!OverItems(0, t, sids)
  BY Zenon DEF Deliveries!OverItems, FoldLeft, MapThenFoldSet, Max,
               handle_deliveries, Delivering
<1> QED BY <1>3, <1>4 DEF Recorded

LEMMA TransitionLedger ==
  ASSUME NEW k, NEW t, Ledger(k, t), NEW tr, CoreStep(t.state, tr),
         NEW u, u = apply_transition(t, tr)
  PROVE  Ledger(k, u)
<1> DEFINE w == write_outputs(t, tr.output)
           x == [w EXCEPT !.state = tr.state]
           y == handle_events(x, tr.events)
           z == handle_deliveries(y, tr.deliveries)
<1>1. Quiet(t, w) /\ Shape(w)
  BY LedgerShape, WriteQuiet DEF Quiet
<1>2. u = w \/ u = y \/ u = z
  BY Zenon DEF apply_transition, Then
<1> HIDE DEF w
<1>3. CoreShape(tr.state) /\ tr.state.next_sid = t.state.next_sid
      /\ tr.events \in Seq(Events) /\ tr.deliveries \in Seq(Nat)
  BY DEF CoreStep
<1>4. Quiet(t, x)
  BY <1>1, <1>3 DEF Quiet, Shape
<1> HIDE DEF x
<1>5. Ledger(k, w) /\ Ledger(k, x)
  BY <1>1, <1>4, QuietLedger
<1>6. Ledger(k, y)
  BY <1>3, <1>5, EventsLedger
<1> HIDE DEF y
<1>7. Ledger(k, z)
  BY <1>3, <1>6, DeliveriesLedger
<1> QED BY <1>2, <1>5, <1>6, <1>7, Zenon

-----------------------------------------------------------------------------
(* Input.                                                                  *)

LEMMA ErrorLedger ==
  ASSUME NEW k, NEW t, Ledger(k, t), NEW e
  PROVE  Ledger(k, Error(t, e)) /\ Ledger(k, Cleared(t))
BY LedgerShape, ErrorQuiet, QuietLedger

LEMMA ConnectLedger ==
  ASSUME NEW k, NEW t, Ledger(k, t)
  PROVE  Ledger(k, connect_after_info(t))
<1> DEFINE tr == outgoing_connect(t.state)
           x == [t EXCEPT !.connect_sent = TRUE]
           y == apply_transition(x, tr)
<1>1. CoreStep(t.state, tr)
  BY LedgerShape, ConnectStep
<1>2. connect_after_info(t) = t
        \/ connect_after_info(t) = Error(t, tr.error)
        \/ connect_after_info(t) = y
  BY Zenon DEF connect_after_info
<1>3. Quiet(t, x) /\ x.state = t.state
  BY LedgerShape DEF Quiet, Shape
<1> HIDE DEF x, tr
<1>4. Ledger(k, x)
  BY <1>3, QuietLedger
<1>5. Ledger(k, y)
  BY <1>1, <1>3, <1>4, TransitionLedger
<1> HIDE DEF y
<1> QED BY <1>2, <1>5, ErrorLedger, Zenon

LEMMA IncomingLedger ==
  ASSUME NEW k, NEW t, Ledger(k, t), NEW op \in Received
  PROVE  Ledger(k, incoming(t, op))
<1> DEFINE tr == handle_operation(t.state, op)
           x == apply_transition(t, tr)
<1>1. CoreStep(t.state, tr)
  BY LedgerShape, OperationStep
<1>2. incoming(t, op) = Error(t, tr.error) \/ incoming(t, op) = x
        \/ incoming(t, op) = connect_after_info(x)
  BY Zenon DEF incoming, Then
<1> HIDE DEF tr
<1>3. Ledger(k, x)
  BY <1>1, TransitionLedger
<1> HIDE DEF x
<1> QED BY <1>2, <1>3, ErrorLedger, ConnectLedger, Zenon

\* A batch of input.
Receiving(a, t, op) == Then(t, LAMBDA x : incoming(x, op))
Receipts == INSTANCE FoldLemmas WITH op <- Receiving, R <- Recorded

LEMMA BatchLedger ==
  ASSUME NEW k, NEW t, Ledger(k, t), NEW ops \in Seq(Received), NEW eof,
         NEW u, u = apply_incoming(t, ops, eof)
  PROVE  Ledger(k, u)
<1> DEFINE read == FoldLeft(LAMBDA x, op : Then(x, LAMBDA y : incoming(y, op)), t, ops)
           tr == incoming_eof(read.state)
           x == apply_transition(read, tr)
           z == Error([x EXCEPT !.reconnect_publish_state =
                         IF @ = None THEN PublishState(t.state) ELSE @],
                      "Disconnected")
<1>1. ASSUME NEW i \in 1..Len(ops), NEW y, Recorded(k, i - 1, y)
      PROVE  Recorded(k, i, Receiving(0, y, ops[i]))
  <2>1. Ledger(k, incoming(y, ops[i]))
    BY <1>1, IncomingLedger DEF Recorded
  <2> QED BY <1>1, <2>1, Zenon DEF Recorded, Receiving, Then
<1>2. Receipts!ItemsClaim(0, k, t, ops)
  BY <1>1 DEF Receipts!ItemsClaim, Recorded
<1>3. Recorded(k, Len(ops), Receipts!OverItems(0, t, ops))
  BY <1>2, NaturalInduction, Receipts!SequenceFold, Zenon
     DEF Receipts!Inductive
<1>4. read = Receipts!OverItems(0, t, ops)
  BY Zenon DEF Receipts!OverItems, FoldLeft, MapThenFoldSet, Max, Receiving
<1>5. u = read \/ u = x \/ u = z \/ u = finish(x)
  BY Zenon DEF apply_incoming, end_of_input, Then
<1> HIDE DEF read
<1>6. Ledger(k, read)
  BY <1>3, <1>4 DEF Recorded
<1>7. CoreStep(read.state, tr)
  BY <1>6, LedgerShape, ClosePlain DEF PlainStep
<1> HIDE DEF tr
<1>8. Ledger(k, x)
  BY <1>6, <1>7, TransitionLedger
<1> HIDE DEF x
<1>9. Ledger(k, z)
  <2> DEFINE y == [x EXCEPT !.reconnect_publish_state =
                     IF @ = None THEN PublishState(t.state) ELSE @]
  <2>1. Quiet(x, y)
    BY <1>8, LedgerShape DEF Quiet, Shape
  <2> HIDE DEF y
  <2>2. Ledger(k, y)
    BY <1>8, <2>1, QuietLedger
  <2>3. z = Error(y, "Disconnected")
    BY DEF y
  <2> QED BY <2>2, <2>3, ErrorLedger
<1> QED BY <1>5, <1>6, <1>8, <1>9, FinishKeeps, Zenon


-----------------------------------------------------------------------------
(* Losing a transport and replacing it.                                    *)

LEMMA ReconnectQuiet ==
  ASSUME NEW t, Shape(t), NEW error
  PROVE  /\ \A p \in BOOLEAN : Quiet(t, reset_reconnect_attempt(t, p))
         /\ Quiet(t, schedule_reconnect(t, error))
         /\ Quiet(t, start_reconnect_attempt(t))
         /\ Quiet(t, retry_reconnect(t, error))
<1>1. ASSUME NEW p
      PROVE  Quiet(t, reset_reconnect_attempt(t, p))
  <2> DEFINE st == prepare_reconnect(t.state, p)
  <2>1. CoreShape(st) /\ st.next_sid = t.state.next_sid
    BY DEF Shape, CoreShape, prepare_reconnect, Phases
  <2>2. reset_reconnect_attempt(t, p)
          = [t EXCEPT !.up = FALSE, !.broke = @ \/ t.up, !.connect_sent = FALSE,
                      !.handshake_deadline = FALSE, !.reconnect_deadline = FALSE,
                      !.state = st]
    BY Zenon DEF reset_reconnect_attempt
  <2> HIDE DEF st
  <2> QED BY <2>1, <2>2 DEF Quiet, Shape
<1>2. ASSUME NEW x, Shape(x), NEW e
      PROVE  Quiet(x, schedule_reconnect(x, e))
  <2>1. Quiet(x, [x EXCEPT !.reconnect_deadline = TRUE])
    BY <1>2 DEF Quiet, Shape
  <2>2. Quiet(x, Error(x, e))
    BY <1>2, ErrorQuiet
  <2> QED BY <2>1, <2>2, Zenon DEF schedule_reconnect
<1>3. Quiet(t, start_reconnect_attempt(t))
  <2> DEFINE n == IF MaxAttempts = None THEN t.reconnect_attempts
                  ELSE t.reconnect_attempts + 1
             x == [t EXCEPT !.reconnect_attempts = n]
             y == [x EXCEPT !.up = TRUE, !.fresh = TRUE, !.handshake_deadline = TRUE]
  <2>1. start_reconnect_attempt(t) = IF t.dial THEN y ELSE schedule_reconnect(x, "Io")
    BY Zenon DEF start_reconnect_attempt
  <2> HIDE DEF n
  <2>2. Quiet(t, x) /\ Quiet(t, y) /\ Shape(x)
    BY DEF Quiet, Shape
  <2> HIDE DEF x, y
  <2>3. Quiet(t, schedule_reconnect(x, "Io"))
    BY <1>2, <2>2, QuietTwice
  <2> QED BY <2>1, <2>2, <2>3, Zenon
<1>4. Quiet(t, retry_reconnect(t, error))
  <2> DEFINE x == reset_reconnect_attempt(t, TRUE)
  <2>1. Quiet(t, x) /\ Shape(x)
    BY <1>1 DEF Quiet
  <2>2. retry_reconnect(t, error) = schedule_reconnect(x, error)
    BY DEF retry_reconnect
  <2> HIDE DEF x
  <2> QED BY <1>2, <2>1, <2>2, QuietTwice
<1> QED BY <1>1, <1>2, <1>3, <1>4

MarkedAs(x, u, b2, late) ==
  /\ Shape(u) /\ u.state = x.state /\ u.completed = x.completed \cup late
  /\ u.work = x.work /\ u.barriers = b2
  /\ u.requests = x.requests /\ u.handles = x.handles
  /\ u.subscriptions = x.subscriptions /\ u.setups = x.setups
  /\ u.subscription_drains = x.subscription_drains /\ u.answers = x.answers

LEMMA MarkedIs ==
  ASSUME NEW x, Shape(x), NEW b2, NEW late
  PROVE  MarkedAs(x, [x EXCEPT !.barriers = b2, !.completed = @ \cup late], b2, late)
BY DEF Shape, MarkedAs

\* Failing flushes and drains of the connection at once: those that keep
\* their barrier are marked.
LEMMA LateLedger ==
  ASSUME NEW k, NEW t, Ledger(k, t), NEW late, NEW b2, Among(b2, t.barriers),
         \A c \in late : /\ c \notin t.completed
                         /\ \E i \in DOMAIN t.barriers :
                              /\ t.barriers[i].kind \in Barriers
                              /\ t.barriers[i].call = c,
         \A i \in DOMAIN b2 : b2[i].kind = "Drain" => b2[i].call \notin late,
         NEW u, u = [fail_waiters(t, late) EXCEPT !.barriers = b2,
                                                  !.completed = @ \cup late]
  PROVE  Ledger(k, u)
<1> DEFINE x == fail_waiters(t, late)
           w == t.work
           b == t.barriers
<1>1. LedgerOf(k, w, b, t)
  BY DEF Ledger
<1>2. ASSUME NEW c \in late
      PROVE  Open(k, w, t, c)
  <2>1. PICK i \in DOMAIN b : b[i].kind \in Barriers /\ b[i].call = c
    OBVIOUS
  <2>2. c \in Calls /\ k[c].kind \in Barriers /\ t.answers[c] = <<>>
    <3>1. BarrierInv(k, b, t) /\ b[i].call \in Calls
      BY <1>1, BarrierTyped DEF LedgerOf, BarrierInv
    <3> QED BY <2>1, <3>1 DEF BarrierInv
  <2>3. \A j \in DOMAIN w : w[j].kind \in AllKinds => w[j].call # c
    <3>1. WorkInv(k, w, b, t)
      BY <1>1 DEF LedgerOf
    <3> TAKE j \in DOMAIN w
    <3> HAVE w[j].kind \in AllKinds
    <3>2. k[w[j].call].kind = w[j].kind
      BY <3>1 DEF WorkInv
    <3>3. w[j].kind \in Barriers => w[j].call # b[i].call
      BY <2>1, <3>1 DEF WorkInv
    <3> QED BY <2>1, <2>2, <3>2, <3>3
  <2>4. \A s \in DOMAIN t.requests : t.requests[s] # c
    BY <1>1, <2>2 DEF LedgerOf, RequestInv, Barriers
  <2> QED BY <2>2, <2>3, <2>4 DEF Open, Barriers, Dr
<1>3. OpenCalls(k, w, b2, t, late, late)
  <2>1. \A i \in DOMAIN b2 : b2[i].kind \in Barriers /\ b2[i].call \in late
                             => b2[i].kind = "Flush"
    BY DEF Barriers
  <2> QED BY <1>2, <2>1 DEF OpenCalls
<1>4. LedgerOf(k, w, b2, t)
  BY <1>1, AmongKeeps
<1>5. Shape(t) /\ Promises(t) /\ \A c \in late : t.answers[c] = <<>>
  BY <1>1, <1>2 DEF LedgerOf, Open
<1>6. ResolvedAs(t, x, late, {}, "Error") /\ OnlyAnswers(t, x)
  BY <1>5, FailWaitersIs
<1>a. u = [x EXCEPT !.barriers = b2, !.completed = @ \cup late]
  OBVIOUS
<1> HIDE DEF x
<1>7. /\ ResolvedAs(t, u, late, late, "Error") /\ u.work = w /\ u.barriers = b2
  <2>1. /\ Shape(x) /\ x.state = t.state /\ x.completed = t.completed /\ x.work = w
        /\ x.requests = t.requests /\ x.handles = t.handles
        /\ x.subscriptions = t.subscriptions /\ x.setups = t.setups
        /\ x.subscription_drains = t.subscription_drains
        /\ x.answers = [c \in Calls |-> IF c \in late THEN << "Error" >>
                                        ELSE t.answers[c]]
    BY <1>6 DEF ResolvedAs, OnlyAnswers
  <2>2. MarkedAs(x, u, b2, late)
    <3>1. MarkedAs(x, [x EXCEPT !.barriers = b2, !.completed = @ \cup late], b2, late)
      BY <2>1, MarkedIs
    <3> QED BY <1>a, <3>1
  <2> QED BY <2>1, <2>2 DEF ResolvedAs, MarkedAs
<1>8. LedgerOf(k, w, b2, u)
  BY <1>3, <1>4, <1>7, ResolvedKeeps, AreResults, Zenon
<1> QED BY <1>7, <1>8 DEF Ledger

LEMMA FailedBarriersLedger ==
  ASSUME NEW k, NEW t, Ledger(k, t), NEW u, u = fail_barriers(t)
  PROVE  Ledger(k, u)
<1> DEFINE late == {b.call : b \in {c \in Range(t.barriers) :
                                      /\ c.kind # "Subscription_drain"
                                      /\ c.call \notin t.completed}}
<1>1. u = [fail_waiters(t, late) EXCEPT !.barriers = <<>>,
                                        !.completed = @ \cup late]
  BY Zenon DEF fail_barriers
<1>2. t.barriers \in Seq(BarrierRecords)
  BY DEF Ledger, LedgerOf, BarrierInv
<1>3. ASSUME NEW c \in late
      PROVE  /\ c \notin t.completed
             /\ \E i \in DOMAIN t.barriers : /\ t.barriers[i].kind \in Barriers
                                             /\ t.barriers[i].call = c
  <2>1. PICK i \in DOMAIN t.barriers :
          /\ t.barriers[i].kind # "Subscription_drain"
          /\ t.barriers[i].call \notin t.completed
          /\ t.barriers[i].call = c
    BY DEF Range
  <2>2. t.barriers[i].kind \in Barriers
    BY <1>2, <2>1, BarrierTyped DEF BarrierRecords
  <2> QED BY <2>1, <2>2
<1> HIDE DEF late
<1>4. Among(<<>>, t.barriers)
  BY <1>2 DEF Among
<1>5. \A i \in DOMAIN <<>> : <<>>[i].kind = "Drain" => <<>>[i].call \notin late
  OBVIOUS
<1> QED BY <1>1, <1>3, <1>4, <1>5, LateLedger

\* Ephemeral subscriptions end with their transport.
Ending_ephemeral(a, t, sid) == forget(close_subscription(t, sid), sid)
RecordedSet(h, s, t) == Ledger(h, t)
Ephemerals == INSTANCE FoldLemmas WITH op <- Ending_ephemeral, R <- RecordedSet

LEMMA RecoverLedger ==
  ASSUME NEW k, NEW t, Ledger(k, t), NEW u, u = recover_transport(t)
  PROVE  Ledger(k, u)
<1> DEFINE S == {sid \in t.subscriptions : ~t.handles[sid].replay}
           x == OverSids(LAMBDA w, sid : forget(close_subscription(w, sid), sid), t, S)
           y == fail_barriers(x)
           z == reset_reconnect_attempt(y, FALSE)
           q == [z EXCEPT !.reconnect_attempts = 0, !.reconnecting = TRUE,
                          !.reconnect_publish_state =
                             IF @ = None THEN PublishState(x.state) ELSE @]
<1>1. u = start_reconnect_attempt(q)
  BY Zenon DEF recover_transport
<1>2. t.state.next_sid \in Nat /\ S \in SUBSET (0..t.state.next_sid)
  BY SidsBounded DEF Ledger
<1>3. x = Ephemerals!OverNumbers(0, t, S)
  BY Zenon DEF Ephemerals!OverNumbers, OverSids, MapThenFoldSet, Max,
               Ending_ephemeral
<1> HIDE DEF S, x
<1>4. ASSUME NEW s \in SUBSET S, NEW e \in S \ s, NEW f, RecordedSet(k, s, f)
      PROVE  RecordedSet(k, s \cup {e}, Ending_ephemeral(0, f, e))
  <2> DEFINE g == close_subscription(f, e)
  <2>1. Ledger(k, g)
    BY <1>4, ClosingLedger DEF RecordedSet
  <2> HIDE DEF g
  <2>2. Ledger(k, forget(g, e))
    BY <2>1, LedgerShape, ForgetQuiet, QuietLedger
  <2> QED BY <2>2 DEF RecordedSet, Ending_ephemeral, g
<1>5. Ephemerals!NumbersClaim(0, k, t, S)
  BY <1>4 DEF Ephemerals!NumbersClaim, RecordedSet
<1>6. Ledger(k, x)
  <2>1. RecordedSet(k, S, Ephemerals!OverNumbers(0, t, S))
    BY <1>2, <1>5, NaturalInduction, Ephemerals!NumbersFold, Zenon
     DEF Ephemerals!Inductive
  <2> QED BY <1>3, <2>1 DEF RecordedSet
<1>7. Ledger(k, y)
  BY <1>6, FailedBarriersLedger
<1> HIDE DEF y
<1>8. Ledger(k, z)
  BY <1>7, LedgerShape, ReconnectQuiet, QuietLedger
<1> HIDE DEF z
<1>9. Quiet(z, q)
  BY <1>8, LedgerShape DEF Quiet, Shape
<1> HIDE DEF q
<1>10. Ledger(k, q)
  BY <1>8, <1>9, QuietLedger
<1> QED BY <1>1, <1>10, LedgerShape, ReconnectQuiet, QuietLedger

LEMMA RetryLedger ==
  ASSUME NEW k, NEW t, Ledger(k, t), NEW error
  PROVE  Ledger(k, retry_reconnect(t, error)) /\ Ledger(k, start_reconnect_attempt(t))
BY LedgerShape, ReconnectQuiet, QuietLedger

LEMMA EndTurnLedger ==
  ASSUME NEW k, NEW t, Ledger(k, t), NEW u, u = EndTurn(t)
  PROVE  Ledger(k, u)
<1> DEFINE x == Cleared(t)
           y == handle_transport_error(t)
<1>1. Ledger(k, x)
  BY ErrorLedger
<1>2. y = t \/ y = retry_reconnect(x, t.error) \/ y = recover_transport(x)
  BY Zenon DEF handle_transport_error
<1> HIDE DEF x
<1>3. Ledger(k, y)
  BY <1>1, <1>2, RetryLedger, RecoverLedger
<1>4. u = t \/ u = y \/ u = finish(t) \/ u = finish(y)
  BY Zenon DEF EndTurn
<1> HIDE DEF y
<1> QED BY <1>3, <1>4, FinishKeeps, Zenon


-----------------------------------------------------------------------------
(* Commands of a call whose promise is in hand.                            *)

Caller(k, t, c, kind) ==
  /\ InHand(k, t.work, t.barriers, t, c) /\ t.setups[c] = <<>> /\ k[c].kind = kind

LEMMA GrownCaller ==
  ASSUME NEW k, NEW t, NEW c, NEW kind, Caller(k, t, c, kind),
         NEW u, Grown(t, u)
  PROVE  Caller(k, u, c, kind)
BY DEF Caller, InHand, Open, Grown

LEMMA ClosedCaller ==
  ASSUME NEW k, NEW t, NEW c, NEW kind, Caller(k, t, c, kind),
         NEW u, DrainsFrame(k, t, u)
  PROVE  Caller(k, u, c, kind)
BY DEF Caller, InHand, Open, DrainsFrame

LEMMA AnswerCaller ==
  ASSUME NEW k, NEW t, Ledger(k, t), NEW c, NEW kind, Caller(k, t, c, kind)
  PROVE  Ledger(k, resolve_unit(t, c, "Ok")) /\ Ledger(k, fail_waiter(t, c))
BY AnswerLedger DEF Caller

LEMMA SetupCaller ==
  ASSUME NEW k, NEW t, Ledger(k, t), NEW c, NEW kind, Caller(k, t, c, kind),
         NEW r \in Results
  PROVE  Ledger(k, resolve_setup(t, c, r))
<1> DEFINE u == resolve_setup(t, c, r)
<1>1. Unasked(k, t.work, t, c)
  BY DEF Caller, InHand, Open, Unasked
<1>2. LedgerOf(k, t.work, t.barriers, t)
  BY DEF Ledger
<1>3. LedgerOf(k, t.work, t.barriers, u) /\ OnlySetups(t, u)
  BY <1>1, <1>2, SetupKeeps
<1> HIDE DEF u
<1> QED BY <1>3 DEF Ledger, OnlySetups, u

LEMMA PlainCaller ==
  ASSUME NEW k, NEW t, Ledger(k, t), NEW c, NEW kind, Caller(k, t, c, kind),
         NEW tr, PlainStep(t.state, tr), NEW u, u = apply_transition(t, tr)
  PROVE  Ledger(k, u) /\ Caller(k, u, c, kind) /\ Grown(t, u)
BY LedgerShape, PlainGrown, GrownLedger, GrownCaller

LEMMA AcceptQuiet ==
  ASSUME NEW t, Shape(t), NEW c
  PROVE  Quiet(t, Accept(t, c)) /\ Accept(t, c).state = t.state
BY DEF Quiet, Shape, Accept

\* A barrier at the end of the queue of barriers.
Queueable(k, t, e) ==
  /\ e \in BarrierRecords
  /\ e.kind \in Barriers => InHand(k, t.work, t.barriers, t, e.call)
                            /\ k[e.call].kind = e.kind
  /\ e.kind \notin Barriers => Armed(k, t, e.call) /\ k[e.call].kind = Dr
                               /\ k[e.call].sid = e.sid

LEMMA BarrierAppended ==
  ASSUME NEW k, NEW t, Ledger(k, t), NEW e, Queueable(k, t, e),
         NEW u, u = [t EXCEPT !.barriers = Append(@, e)]
  PROVE  Ledger(k, u)
<1> DEFINE b == t.barriers
           b2 == Append(b, e)
           w == t.work
<1>1. LedgerOf(k, w, b, t)
  BY DEF Ledger
<1>2. BarrierInv(k, b, t) /\ b \in Seq(BarrierRecords) /\ e \in BarrierRecords
  BY <1>1 DEF LedgerOf, BarrierInv, Queueable
<1>3. /\ b2 \in Seq(BarrierRecords)
      /\ \A i \in DOMAIN b2 : \/ i \in DOMAIN b /\ b2[i] = b[i]
                              \/ i \notin DOMAIN b /\ i = Len(b) + 1 /\ b2[i] = e
  BY <1>2
<1> HIDE DEF b2
<1>4. e.kind \in Barriers =>
        /\ \A i \in DOMAIN w : w[i].kind \in AllKinds => w[i].call # e.call
        /\ \A i \in DOMAIN b : b[i].kind \in Barriers => b[i].call # e.call
        /\ t.answers[e.call] = <<>> /\ e.call \in Calls
  BY DEF Queueable, InHand, Open
<1>5. Barriers \subseteq AllKinds
  BY DEF Barriers, AllKinds
<1>6. WorkInv(k, w, b2, t)
  <2>1. WorkInv(k, w, b, t)
    BY <1>1 DEF LedgerOf
  <2>2. \A i \in DOMAIN w : \A j \in DOMAIN b2 :
          w[i].kind \in Barriers /\ b2[j].kind \in Barriers => w[i].call # b2[j].call
    BY <1>3, <1>4, <1>5, <2>1 DEF WorkInv
  <2> QED BY <2>1, <2>2, SMTT(60) DEF WorkInv
<1>7. BarrierInv(k, b2, t)
  <2>1. \A i \in DOMAIN b2 : \A j \in DOMAIN b2 :
          i # j /\ b2[i].kind \in Barriers /\ b2[j].kind \in Barriers
            => b2[i].call # b2[j].call
    BY <1>2, <1>3, <1>4 DEF BarrierInv
  <2>2. e.kind \in Barriers => e.call \notin t.completed
    BY <1>1, <1>4 DEF LedgerOf, IdleInv
  <2>3. \A i \in DOMAIN b2 :
          /\ b2[i].kind \in Barriers => k[b2[i].call].kind = b2[i].kind
          /\ b2[i].kind \notin Barriers => k[b2[i].call].kind = Dr
                                          /\ k[b2[i].call].sid = b2[i].sid
          /\ b2[i].kind \in Barriers /\ b2[i].call \notin t.completed
               => t.answers[b2[i].call] = <<>>
          /\ b2[i].kind = "Drain" => b2[i].call \notin t.completed
    <3>1. "Drain" \in Barriers
      BY DEF Barriers
    <3> TAKE i \in DOMAIN b2
    <3>2. CASE i \in DOMAIN b /\ b2[i] = b[i]
      BY <1>2, <3>2 DEF BarrierInv
    <3>3. CASE b2[i] = e
      BY <1>4, <2>2, <3>1, <3>3 DEF Queueable
    <3> QED BY <1>3, <3>2, <3>3
  <2> QED BY <1>3, <2>1, <2>3 DEF BarrierInv
<1>8. DrainInv(k, w, b2, t)
  <2>1. DrainInv(k, w, b, t)
    BY <1>1 DEF LedgerOf
  <2>2. e.kind = "Subscription_drain" => Armed(k, t, e.call)
    BY DEF Queueable, Barriers
  <2> QED BY <1>3, <2>1, <2>2 DEF DrainInv
<1>9. LedgerOf(k, w, b2, t)
  BY <1>1, <1>6, <1>7, <1>8 DEF LedgerOf
<1>a. u = [t EXCEPT !.barriers = b2]
  BY DEF b2
<1>10. SameFields(t, u) /\ u.work = w /\ u.barriers = b2
  BY <1>a, LedgerShape DEF SameFields, Shape
<1>11. LedgerOf(k, w, b2, u)
  BY <1>9, <1>10, SameLedger, Zenon
<1> QED BY <1>10, <1>11 DEF Ledger

LEMMA QueueBarrierLedger ==
  ASSUME NEW k, NEW t, Ledger(k, t), NEW kind \in Barriers, NEW c,
         Caller(k, t, c, kind), NEW u, u = QueueBarrier(t, kind, c)
  PROVE  Ledger(k, u) /\ u.subscriptions = t.subscriptions
<1> DEFINE x == Accept(t, c)
           e == [kind |-> kind, call |-> c, sid |-> 0]
<1>1. Quiet(t, x) /\ Ledger(k, x)
  BY LedgerShape, AcceptQuiet, QuietLedger
<1>2. u = [x EXCEPT !.barriers = Append(@, e)]
  BY DEF QueueBarrier
<1> HIDE DEF x
<1>3. InHand(k, x.work, x.barriers, x, c) /\ k[c].kind = kind /\ c \in Calls
  BY <1>1 DEF Caller, InHand, Open, Quiet
<1>4. Queueable(k, x, e)
  BY <1>3 DEF Queueable, BarrierRecords
<1> HIDE DEF e
<1>5. Ledger(k, u)
  BY <1>1, <1>2, <1>4, BarrierAppended
<1>6. u.subscriptions = x.subscriptions
  BY <1>1, <1>2 DEF Quiet, Shape
<1> QED BY <1>1, <1>5, <1>6 DEF Quiet

-----------------------------------------------------------------------------
(* Publish, flush, drain and close.                                        *)

LEMMA PublishLedger ==
  ASSUME NEW k, NEW t, Ledger(k, t), NEW c, Caller(k, t, c, "Publish"),
         NEW u, u = apply_publish(t, c)
  PROVE  Ledger(k, u)
<1> DEFINE tr == outgoing_publish(t.state, PublishOp(c, 0))
           x == apply_transition(t, tr)
           y == Accept(x, c)
<1>1. PlainStep(t.state, tr)
  BY LedgerShape, PublishPlain
<1>2. u = fail_waiter(t, c) \/ u = fail_waiter(x, c) \/ u = resolve_unit(y, c, "Ok")
  BY Zenon DEF apply_publish, ApplyFor
<1> HIDE DEF tr
<1>3. Ledger(k, x) /\ Caller(k, x, c, "Publish")
  BY <1>1, PlainCaller
<1> HIDE DEF x
<1>4. Grown(x, y)
  BY <1>3, LedgerShape, AcceptQuiet, QuietGrown
<1> HIDE DEF y
<1>5. Ledger(k, y) /\ Caller(k, y, c, "Publish")
  BY <1>3, <1>4, GrownLedger, GrownCaller
<1> QED BY <1>2, <1>3, <1>5, AnswerCaller, Zenon

LEMMA BufferedQuiet ==
  ASSUME NEW t, Shape(t), NEW message
  PROVE  Quiet(t, enqueue_reconnect_publish_output(t, message))
<1> DEFINE tr == outgoing_publish(t.reconnect_publish_state, message)
           x == [t EXCEPT !.reconnect_pending = @ \o tr.output]
<1>1. \/ \E e : enqueue_reconnect_publish_output(t, message) = Error(t, e)
      \/ enqueue_reconnect_publish_output(t, message) = Accept(x, message.call)
  BY Zenon DEF enqueue_reconnect_publish_output
<1> HIDE DEF tr
<1>2. Quiet(t, x) /\ Shape(x)
  BY DEF Quiet, Shape
<1> HIDE DEF x
<1>3. Quiet(t, Accept(x, message.call))
  BY <1>2, AcceptQuiet, QuietTwice
<1> QED BY <1>1, <1>3, ErrorQuiet, Zenon

LEMMA BufferPublishLedger ==
  ASSUME NEW k, NEW t, Ledger(k, t), NEW c, Caller(k, t, c, "Publish"),
         NEW u, u = enqueue_reconnect_publish(t, c)
  PROVE  Ledger(k, u)
<1> DEFINE x == enqueue_reconnect_publish_output(t, PublishOp(c, 0))
<1>1. u = fail_waiter(t, c) \/ u = resolve_unit(x, c, "Ok")
  BY Zenon DEF enqueue_reconnect_publish
<1>2. Grown(t, x)
  BY LedgerShape, BufferedQuiet, QuietGrown
<1> HIDE DEF x
<1>3. Ledger(k, x) /\ Caller(k, x, c, "Publish")
  BY <1>2, GrownLedger, GrownCaller
<1> QED BY <1>1, <1>3, AnswerCaller, Zenon

LEMMA FlushLedger ==
  ASSUME NEW k, NEW t, Ledger(k, t), NEW c, Caller(k, t, c, "Flush"),
         NEW u, u = apply_flush(t, c) \/ u = apply_reconnect_flush(t, c)
  PROVE  Ledger(k, u)
<1> DEFINE tr == outgoing_flush(t.state)
           x == apply_transition(t, tr)
           y == [t EXCEPT !.reconnect_pending = @ \o tr.output, !.state = tr.state]
<1>1. PlainStep(t.state, tr)
  BY LedgerShape, FlushPlain
<1>2. \/ u = fail_waiter(t, c) \/ u = fail_waiter(x, c)
      \/ u = QueueBarrier(x, "Flush", c) \/ u = QueueBarrier(y, "Flush", c)
  BY Zenon DEF apply_flush, apply_reconnect_flush, ApplyFor
<1> HIDE DEF tr
<1>3. Ledger(k, x) /\ Caller(k, x, c, "Flush")
  BY <1>1, PlainCaller
<1> HIDE DEF x
<1>4. Grown(t, y)
  <2>1. CoreShape(tr.state) /\ t.state.next_sid <= tr.state.next_sid
    BY <1>1, LedgerShape DEF PlainStep, CoreStep
  <2> QED BY <2>1, LedgerShape DEF Grown, Shape
<1> HIDE DEF y
<1>5. Ledger(k, y) /\ Caller(k, y, c, "Flush")
  BY <1>4, GrownLedger, GrownCaller
<1>6. "Flush" \in Barriers
  BY DEF Barriers
<1> QED BY <1>2, <1>3, <1>5, <1>6, AnswerCaller, QueueBarrierLedger

LEMMA DrainLedger ==
  ASSUME NEW k, NEW t, Ledger(k, t), NEW c, Caller(k, t, c, "Drain"),
         NEW u, u = apply_drain(t, c)
  PROVE  Ledger(k, u)
<1> DEFINE tr == outgoing_drain(t.state)
           x == apply_transition(t, tr)
           y == QueueBarrier(x, "Drain", c)
           z == close_subscriptions(y, x.subscriptions)
<1>1. PlainStep(t.state, tr)
  BY LedgerShape, DrainPlain
<1>2. u = fail_waiter(t, c) \/ u = fail_waiter(x, c) \/ u = fail_requests(z)
  BY Zenon DEF apply_drain, ApplyFor
<1> HIDE DEF tr
<1>3. Ledger(k, x) /\ Caller(k, x, c, "Drain")
  BY <1>1, PlainCaller
<1> HIDE DEF x
<1>4. "Drain" \in Barriers
  BY DEF Barriers
<1>5. Ledger(k, y) /\ y.subscriptions = x.subscriptions
  BY <1>3, <1>4, QueueBarrierLedger
<1> HIDE DEF y
<1>6. Ledger(k, z)
  <2>1. LedgerOf(k, y.work, y.barriers, z) /\ DrainsFrame(k, y, z)
    BY <1>5, CloseSubscriptionsKeeps DEF Ledger
  <2> QED BY <2>1 DEF Ledger, DrainsFrame
<1> HIDE DEF z
<1>7. Ledger(k, fail_requests(z))
  <2> DEFINE f == fail_requests(z)
  <2>1. LedgerOf(k, z.work, z.barriers, f) /\ Ending(z, f)
    BY <1>6, FailRequestsKeeps DEF Ledger
  <2> HIDE DEF f
  <2>2. Ledger(k, f)
    BY <2>1 DEF Ledger, Ending
  <2> QED BY <2>2 DEF f
<1> QED BY <1>2, <1>3, <1>7, AnswerCaller, Zenon

LEMMA CloseLedger ==
  ASSUME NEW k, NEW t, Ledger(k, t), NEW c, Caller(k, t, c, "Close"),
         NEW u, u = apply_close(t, c)
  PROVE  Ledger(k, u)
<1> DEFINE tr == outgoing_close(t.state)
           x == apply_transition(t, tr)
<1>1. PlainStep(t.state, tr)
  BY LedgerShape, ClosePlain
<1>2. \/ u = finish(resolve_unit(t, c, "Ok")) \/ u = fail_waiter(t, c)
      \/ u = fail_waiter(x, c) \/ u = finish(resolve_unit(x, c, "Ok"))
  BY Zenon DEF apply_close, ApplyFor
<1> HIDE DEF tr
<1>3. Ledger(k, x) /\ Caller(k, x, c, "Close")
  BY <1>1, PlainCaller
<1> HIDE DEF x
<1>4. /\ Ledger(k, resolve_unit(t, c, "Ok")) /\ Ledger(k, fail_waiter(t, c))
      /\ Ledger(k, resolve_unit(x, c, "Ok")) /\ Ledger(k, fail_waiter(x, c))
  BY <1>3, AnswerCaller
<1> QED BY <1>2, <1>4, FinishKeeps, Zenon


-----------------------------------------------------------------------------
(* Commands on a subscription.                                             *)

\* A handle for the sid the core gives next.
HandleAdded(t, u, h) ==
  /\ Shape(u) /\ t.state.next_sid <= u.state.next_sid
  /\ u.work = t.work /\ u.barriers = t.barriers /\ u.completed = t.completed
  /\ u.requests = t.requests
  /\ u.handles = With(t.handles, t.state.next_sid, h)
  /\ u.subscription_drains = t.subscription_drains
  /\ u.answers = t.answers /\ u.setups = t.setups
  /\ \/ u.subscriptions = t.subscriptions
     \/ /\ u.subscriptions = t.subscriptions \cup {t.state.next_sid}
        /\ t.state.next_sid < u.state.next_sid

LEMMA HandleAddedLedger ==
  ASSUME NEW k, NEW t, Ledger(k, t), NEW h, h.drain = None, h.waiter = None,
         NEW u, HandleAdded(t, u, h)
  PROVE  Ledger(k, u)
<1> DEFINE sid == t.state.next_sid
           w == t.work
           b == t.barriers
<1>0. /\ sid \in Nat /\ u.state.next_sid \in Nat /\ Shape(u)
      /\ Promises(t) /\ WorkInv(k, w, b, t) /\ RequestInv(k, t)
      /\ BarrierInv(k, b, t) /\ DrainInv(k, w, b, t) /\ HandleInv(k, w, t)
      /\ SidInv(k, t) /\ IdleInv(k, t)
  BY LedgerShape DEF HandleAdded, Ledger, LedgerOf, Shape, CoreShape
<1>1. /\ DOMAIN u.handles = DOMAIN t.handles \cup {sid}
      /\ \A s \in DOMAIN t.handles : s # sid => u.handles[s] = t.handles[s]
      /\ u.handles[sid].drain = None /\ u.handles[sid].waiter = None
  BY DEF HandleAdded, With
<1>2. \A c \in Calls : k[c].sid # sid /\ (k[c].kind = Dr => k[c].sid \in DOMAIN t.handles)
  BY <1>0 DEF SidInv
<1>3. sid \notin t.subscriptions /\ sid \notin DOMAIN t.requests
  BY <1>0 DEF SidInv
<1>4. \A s : s # sid => (s \in u.subscriptions <=> s \in t.subscriptions)
  BY DEF HandleAdded
<1>5. \A c \in Calls : k[c].kind = Dr => (Armed(k, u, c) <=> Armed(k, t, c))
  BY <1>1, <1>2 DEF Armed, HandleAdded
<1>6. Promises(u) /\ RequestInv(k, u) /\ BarrierInv(k, b, u) /\ IdleInv(k, u)
  BY <1>0 DEF HandleAdded, Promises, RequestInv, BarrierInv, IdleInv
<1>7. WorkInv(k, w, b, u)
  <2>1. ASSUME NEW i \in DOMAIN w, w[i].kind \in {Dr, "Cancel_drain"},
               w[i].sid \in u.subscriptions
        PROVE  /\ w[i].sid \in t.subscriptions
               /\ u.handles[w[i].sid] = t.handles[w[i].sid]
    <3>1. w[i].call \in Calls
      BY <1>0, CommandTyped DEF WorkInv
    <3>2. k[w[i].call].kind = Dr /\ k[w[i].call].sid = w[i].sid
      BY <1>0, <2>1 DEF WorkInv, Dr, AllKinds
    <3>3. w[i].sid # sid /\ w[i].sid \in DOMAIN t.handles
      BY <1>2, <3>1, <3>2
    <3> QED BY <1>1, <1>4, <2>1, <3>3
  <2>2. /\ u.answers = t.answers /\ u.setups = t.setups /\ u.requests = t.requests
    BY DEF HandleAdded
  <2> HIDE DEF sid
  <2> QED BY <1>0, <2>1, <2>2, WorkHandles
<1>8. DrainInv(k, w, b, u)
  <2>1. ASSUME NEW i \in DOMAIN b, b[i].kind = "Subscription_drain"
        PROVE  b[i].call \in Calls /\ k[b[i].call].kind = Dr
    BY <1>0, <2>1, BarrierTyped DEF BarrierInv, Barriers
  <2>2. ASSUME NEW i \in DOMAIN w, w[i].kind = "Resume"
        PROVE  w[i].call \in Calls /\ k[w[i].call].kind = Dr
    BY <1>0, <2>2, CommandTyped DEF WorkInv
  <2>3. u.subscription_drains = t.subscription_drains
    BY DEF HandleAdded
  <2> HIDE DEF sid
  <2> QED BY <1>0, <1>5, <2>1, <2>2, <2>3 DEF DrainInv
<1>9. HandleInv(k, w, u)
  <2>1. ASSUME NEW s \in DOMAIN u.handles, s # sid
        PROVE  s \in DOMAIN t.handles /\ u.handles[s] = t.handles[s]
    BY <1>1, <2>1
  <2>2. /\ u.answers = t.answers /\ u.completed = t.completed
    BY DEF HandleAdded
  <2>3. ASSUME NEW c \in Calls, k[c].kind = Dr, k[c].sid \in u.subscriptions
        PROVE  k[c].sid \in t.subscriptions /\ u.handles[k[c].sid] = t.handles[k[c].sid]
    BY <1>1, <1>2, <1>4, <2>3
  <2> HIDE DEF sid
  <2> QED BY <1>0, <1>1, <2>1, <2>2, <2>3, SMTT(60) DEF HandleInv
<1>10. SidInv(k, u)
  <2>1. sid <= u.state.next_sid
    BY DEF HandleAdded
  <2>2. \A s \in u.subscriptions \cup DOMAIN u.requests :
          s \in Nat /\ s < u.state.next_sid
    BY <1>0, <2>1 DEF SidInv, HandleAdded
  <2>3. u.subscriptions \subseteq DOMAIN u.handles
    BY <1>0, <1>1 DEF SidInv, HandleAdded
  <2> QED BY <1>0, <1>1, <2>1, <2>2, <2>3 DEF SidInv
<1> QED BY <1>0, <1>6, <1>7, <1>8, <1>9, <1>10 DEF Ledger, LedgerOf, HandleAdded

LEMMA SubscribeLedger ==
  ASSUME NEW k, NEW t, Ledger(k, t), NEW c, NEW kind, Caller(k, t, c, kind),
         k[c].kind # Dr, NEW subject, NEW replay,
         NEW u, u = apply_subscribe(t, c, subject, replay)
  PROVE  Ledger(k, u)
<1> DEFINE tr == outgoing_subscribe(t.state, subject)
           sid == tr.sid
           h == [replay |-> replay, drain |-> None, waiter |-> None]
           x == [t EXCEPT !.handles = With(@, sid, h), !.subscriptions = @ \cup {sid}]
           y == apply_transition(x, tr)
           z == close_subscription(y, sid)
<1>1. CASE tr.error # None
  <2>1. u = fail_waiter(t, c)
    BY <1>1, Zenon DEF apply_subscribe
  <2> QED BY <2>1, AnswerCaller
<1>2. CASE tr.error = None
  <2>1. \/ u = fail_waiter(z, c) /\ y.error # None
        \/ u = resolve_unit(y, c, "Ok") /\ y.error = None
    BY <1>2, Zenon DEF apply_subscribe
  <2>2. /\ CoreShape(tr.state) /\ tr.state.next_sid = t.state.next_sid + 1
        /\ sid = t.state.next_sid /\ tr.events = <<>> /\ tr.deliveries = <<>>
        /\ t.state.next_sid \in Nat
    BY <1>2, LedgerShape, SubscribeIs
  <2>3. h.drain = None /\ h.waiter = None /\ DOMAIN h = {"replay", "drain", "waiter"}
    OBVIOUS
  <2> HIDE DEF tr, h
  <2>4. /\ Shape(x) /\ x.state = t.state /\ x.work = t.work
        /\ x.barriers = t.barriers /\ x.completed = t.completed
        /\ x.requests = t.requests /\ x.handles = With(t.handles, t.state.next_sid, h)
        /\ x.subscriptions = t.subscriptions \cup {t.state.next_sid}
        /\ x.subscription_drains = t.subscription_drains
        /\ x.answers = t.answers /\ x.setups = t.setups
    BY <2>2, <2>3, LedgerShape DEF Shape, With
  <2> HIDE DEF x
  <2>5. Grown(x, y) /\ (y.error = None => y.state = tr.state)
    <3>1. x.state.next_sid <= tr.state.next_sid
      BY <2>2, <2>4
    <3> QED BY <2>2, <2>4, <3>1, TransitionGrown
  <2> HIDE DEF y
  <2>6. CASE y.error = None
    <3>1. HandleAdded(t, y, h)
      BY <2>2, <2>4, <2>5, <2>6 DEF HandleAdded, Grown
    <3>2. Ledger(k, y)
      BY <2>3, <3>1, HandleAddedLedger
    <3>3. Caller(k, y, c, kind)
      BY <3>1 DEF HandleAdded, Caller, InHand, Open
    <3> QED BY <2>1, <2>6, <3>2, <3>3, AnswerCaller
  <2>7. CASE y.error # None
    <3> DEFINE y2 == [y EXCEPT !.subscriptions = @ \ {sid}]
    <3>1. sid \in y.subscriptions /\ y.handles[sid] = h
      BY <2>2, <2>4, <2>5 DEF Grown, With
    <3>2. y2.handles = y.handles
      BY <2>5 DEF Grown, Shape
    <3>3. z = fail_pending_drain(y2, sid)
      BY <3>1, Zenon DEF close_subscription
    <3> HIDE DEF y2
    <3>4. z = y2
      BY <2>3, <3>1, <3>2, <3>3 DEF fail_pending_drain
    <3>5. t.state.next_sid \notin t.subscriptions
      BY <2>2 DEF Ledger, LedgerOf, SidInv
    <3>6. HandleAdded(t, y2, h)
      <4>1. /\ Shape(y2) /\ y2.state = y.state /\ y2.work = y.work
            /\ y2.barriers = y.barriers /\ y2.completed = y.completed
            /\ y2.requests = y.requests /\ y2.handles = y.handles
            /\ y2.subscriptions = y.subscriptions \ {sid}
            /\ y2.subscription_drains = y.subscription_drains
            /\ y2.answers = y.answers /\ y2.setups = y.setups
        BY <2>5 DEF y2, Grown, Shape
      <4>2. y2.subscriptions = t.subscriptions
        BY <2>2, <2>4, <2>5, <3>5, <4>1 DEF Grown
      <4> QED BY <2>4, <2>5, <4>1, <4>2 DEF HandleAdded, Grown
    <3>7. Ledger(k, z)
      BY <2>3, <3>4, <3>6, HandleAddedLedger
    <3>8. Caller(k, z, c, kind)
      BY <3>4, <3>6 DEF HandleAdded, Caller, InHand, Open
    <3> HIDE DEF z
    <3> QED BY <2>1, <2>7, <3>7, <3>8, AnswerCaller
  <2> QED BY <2>6, <2>7
<1> QED BY <1>1, <1>2

LEMMA UnsubscribeLedger ==
  ASSUME NEW k, NEW t, Ledger(k, t), NEW c, Caller(k, t, c, "Unsubscribe"),
         NEW sid, NEW u, u = apply_unsubscribe(t, c, sid)
  PROVE  Ledger(k, u)
<1> DEFINE tr == outgoing_unsubscribe(t.state, sid, None)
           x == apply_transition(t, tr)
           y == close_subscription(t, sid)
           z == close_subscription(x, sid)
<1>1. PlainStep(t.state, tr)
  BY LedgerShape, UnsubscribePlain
<1>2. u = fail_waiter(y, c) \/ u = fail_waiter(z, c) \/ u = resolve_unit(z, c, "Ok")
  BY Zenon DEF apply_unsubscribe, unsubscribed
<1> HIDE DEF tr
<1>3. Ledger(k, x) /\ Caller(k, x, c, "Unsubscribe")
  BY <1>1, PlainCaller
<1> HIDE DEF x
<1>4. Ledger(k, y) /\ DrainsFrame(k, t, y) /\ Ledger(k, z) /\ DrainsFrame(k, x, z)
  BY <1>3, ClosingLedger
<1> HIDE DEF y, z
<1>5. Caller(k, y, c, "Unsubscribe") /\ Caller(k, z, c, "Unsubscribe")
  BY <1>3, <1>4, ClosedCaller
<1> QED BY <1>2, <1>4, <1>5, AnswerCaller, Zenon

LEMMA AutoUnsubscribeLedger ==
  ASSUME NEW k, NEW t, Ledger(k, t), NEW c, Caller(k, t, c, "Auto_unsubscribe"),
         NEW sid, NEW u, u = apply_auto_unsubscribe(t, c, sid)
  PROVE  Ledger(k, u)
<1> DEFINE tr == outgoing_auto_unsubscribe(t.state, sid, 1)
           x == apply_transition(t, tr)
<1>1. PlainStep(t.state, tr)
  BY LedgerShape, UnsubscribePlain
<1>2. \/ u = resolve_unit(t, c, "Ok") \/ u = fail_waiter(t, c)
      \/ u = fail_waiter(x, c) \/ u = resolve_unit(x, c, "Ok")
  BY Zenon DEF apply_auto_unsubscribe, ApplyFor
<1> HIDE DEF tr
<1>3. Ledger(k, x) /\ Caller(k, x, c, "Auto_unsubscribe")
  BY <1>1, PlainCaller
<1> HIDE DEF x
<1> QED BY <1>2, <1>3, AnswerCaller, Zenon


-----------------------------------------------------------------------------
(* Commands on the drain of a handle.                                      *)

\* The command of a drain of an open handle has its call armed as waiter.
ArmedAs(t, u, c, sid) ==
  /\ Shape(u) /\ u.state = t.state
  /\ u.work = t.work /\ u.barriers = t.barriers /\ u.completed = t.completed
  /\ u.requests = t.requests /\ u.subscriptions = t.subscriptions
  /\ u.answers = t.answers /\ u.setups = t.setups
  /\ DOMAIN u.handles = DOMAIN t.handles
  /\ \A s \in DOMAIN t.handles : u.handles[s].drain = t.handles[s].drain
  /\ \A s \in DOMAIN t.handles : s # sid => u.handles[s] = t.handles[s]
  /\ u.handles[sid].waiter = c
  /\ u.subscription_drains = With(t.subscription_drains, sid, c)

LEMMA ArmedKeeps ==
  ASSUME NEW k, NEW w, NEW b, NEW t, LedgerOf(k, w, b, t), w # <<>>,
         w[1].kind = Dr, w[1].sid \in t.subscriptions,
         NEW u, ArmedAs(t, u, w[1].call, w[1].sid)
  PROVE  /\ LedgerOf(k, Rest(w), b, u)
         /\ w[1].call \in Calls /\ k[w[1].call].kind = Dr
         /\ k[w[1].call].sid = w[1].sid /\ w[1].call \notin u.completed
         /\ w[1].sid \in DOMAIN u.handles
<1> DEFINE c == w[1].call
           sid == w[1].sid
<1>0. /\ Shape(u) /\ Promises(t) /\ WorkInv(k, w, b, t) /\ RequestInv(k, t)
      /\ BarrierInv(k, b, t) /\ DrainInv(k, w, b, t) /\ HandleInv(k, w, t)
      /\ SidInv(k, t) /\ IdleInv(k, t) /\ w \in Seq(Commands)
  BY DEF LedgerOf, ArmedAs, WorkInv
<1>1. 1 \in DOMAIN w /\ c \in Calls /\ w[1] \in Commands
  BY <1>0, RestIs, CommandTyped
<1>2. k[c].kind = Dr /\ k[c].sid = sid /\ t.handles[sid].drain = c
  BY <1>0, <1>1 DEF WorkInv, Dr, AllKinds
<1>3. sid \in DOMAIN t.handles /\ c \notin t.completed
  BY <1>0, <1>1, <1>2 DEF SidInv, HandleInv
<1>4. c # None
  BY <1>1, CallsAssumption
<1>5. t.handles[sid].waiter \in {None, c} /\ t.answers[c] = <<>>
  <2>1. t.handles[sid].waiter # None => t.handles[sid].waiter = c
    <3> SUFFICES ASSUME t.handles[sid].waiter # None
                 PROVE  t.handles[sid].waiter = c
      OBVIOUS
    <3> DEFINE d == t.handles[sid].waiter
    <3>1. d \in Calls /\ k[d].kind = Dr /\ k[d].sid = sid
      BY <1>0, <1>3, SMTT(30) DEF HandleInv
    <3>2. d \notin t.completed
      BY <1>0, <3>1 DEF HandleInv
    <3> QED BY <1>0, <1>2, <1>3, <3>2 DEF HandleInv
  <2> QED BY <1>0, <1>2, <1>3, <1>4, <2>1 DEF HandleInv
<1>6. \A d \in Calls : Armed(k, t, d) => Armed(k, u, d)
  <2> SUFFICES ASSUME NEW d \in Calls, Armed(k, t, d), d \notin u.completed
               PROVE  k[d].sid \in DOMAIN u.handles /\ u.handles[k[d].sid].waiter = d
    BY DEF Armed
  <2>1. k[d].sid \in DOMAIN t.handles /\ t.handles[k[d].sid].waiter = d
    BY DEF Armed, ArmedAs
  <2>2. d # None
    BY CallsAssumption
  <2> QED BY <1>5, <2>1, <2>2 DEF ArmedAs
<1>7. Armed(k, u, c)
  BY <1>2, <1>3 DEF Armed, ArmedAs
<1>8. Promises(u) /\ RequestInv(k, u) /\ BarrierInv(k, b, u) /\ IdleInv(k, u)
      /\ SidInv(k, u)
  BY <1>0 DEF ArmedAs, Promises, RequestInv, BarrierInv, IdleInv, SidInv
<1>9. DrainInv(k, w, b, u)
  <2>1. ASSUME NEW i \in DOMAIN b, b[i].kind = "Subscription_drain"
        PROVE  Armed(k, u, b[i].call)
    <3>1. b[i].call \in Calls
      BY <1>0, BarrierTyped DEF BarrierInv
    <3> QED BY <1>0, <1>6, <2>1, <3>1 DEF DrainInv
  <2>2. ASSUME NEW i \in DOMAIN w, w[i].kind = "Resume"
        PROVE  Armed(k, u, w[i].call)
    <3>1. w[i].call \in Calls
      BY <1>0, CommandTyped
    <3> QED BY <1>0, <1>6, <2>2, <3>1 DEF DrainInv
  <2>3. ASSUME NEW s \in DOMAIN u.subscription_drains
        PROVE  /\ u.subscription_drains[s] \in Calls
               /\ k[u.subscription_drains[s]].kind = Dr
               /\ k[u.subscription_drains[s]].sid = s
               /\ Armed(k, u, u.subscription_drains[s])
    <3>1. u.subscription_drains = With(t.subscription_drains, sid, c)
      BY DEF ArmedAs
    <3>2. \/ s = sid /\ u.subscription_drains[s] = c
          \/ /\ s \in DOMAIN t.subscription_drains
             /\ u.subscription_drains[s] = t.subscription_drains[s]
      BY <2>3, <3>1 DEF With
    <3> HIDE DEF c, sid
    <3> QED BY <1>0, <1>1, <1>2, <1>6, <1>7, <3>2 DEF DrainInv
  <2> QED BY <2>1, <2>2, <2>3 DEF DrainInv
<1>10. WorkInv(k, w, b, u)
  <2>1. ASSUME NEW s \in u.subscriptions
        PROVE  /\ s \in t.subscriptions /\ u.handles[s].drain = t.handles[s].drain
               /\ t.handles[s].waiter # None => u.handles[s].waiter # None
    <3>1. s \in t.subscriptions /\ s \in DOMAIN t.handles
      BY <1>0, <2>1 DEF ArmedAs, SidInv
    <3> QED BY <1>4, <3>1 DEF ArmedAs
  <2>2. u.answers = t.answers /\ u.setups = t.setups /\ u.requests = t.requests
    BY DEF ArmedAs
  <2> HIDE DEF c, sid
  <2> QED BY <1>0, <2>1, <2>2, SMTT(60) DEF WorkInv
<1>11. HandleInv(k, w, u)
  <2>1. ASSUME NEW s \in DOMAIN u.handles
        PROVE  /\ u.handles[s].drain # None
                    => /\ u.handles[s].drain \in Calls
                       /\ k[u.handles[s].drain].kind = Dr
                       /\ k[u.handles[s].drain].sid = s
                       /\ u.answers[u.handles[s].drain] = <<>>
               /\ u.handles[s].waiter # None
                    => /\ u.handles[s].waiter \in Calls
                       /\ k[u.handles[s].waiter].kind = Dr
                       /\ k[u.handles[s].waiter].sid = s
                       /\ u.handles[s].waiter \notin u.completed
                            => /\ u.answers[u.handles[s].waiter] = <<>>
                               /\ u.handles[s].drain = u.handles[s].waiter
    <3>1. CASE s = sid
      BY <1>1, <1>2, <1>3, <1>5, <3>1 DEF ArmedAs
    <3>2. CASE s # sid
      <4>1. s \in DOMAIN t.handles /\ u.handles[s] = t.handles[s]
            /\ u.answers = t.answers /\ u.completed = t.completed
        BY <2>1, <3>2 DEF ArmedAs
      <4> QED BY <1>0, <4>1 DEF HandleInv
    <3> QED BY <3>1, <3>2
  <2>2. ASSUME NEW d \in Calls, k[d].kind = Dr, k[d].sid \in u.subscriptions
        PROVE  /\ d \notin u.completed
               /\ u.answers[d] = <<>>
                    => \/ u.handles[k[d].sid].waiter # None
                       \/ \E j \in DOMAIN w : w[j].kind = Dr /\ w[j].sid = k[d].sid
    <3>1. k[d].sid \in t.subscriptions /\ k[d].sid \in DOMAIN t.handles
          /\ u.answers = t.answers /\ u.completed = t.completed
      BY <1>0, <2>2 DEF ArmedAs, SidInv
    <3>2. t.handles[k[d].sid].waiter # None => u.handles[k[d].sid].waiter # None
      BY <1>4, <3>1 DEF ArmedAs
    <3> QED BY <1>0, <2>2, <3>1, <3>2 DEF HandleInv
  <2> QED BY <2>1, <2>2 DEF HandleInv
<1>12. LedgerOf(k, w, b, u)
  BY <1>0, <1>8, <1>9, <1>10, <1>11 DEF LedgerOf
<1>13. w[1].sid \in DOMAIN u.handles /\ u.handles[w[1].sid].waiter # None
  BY <1>3, <1>4 DEF ArmedAs
<1> HIDE DEF c, sid
<1>14. LedgerOf(k, Rest(w), b, u)
  BY <1>12, <1>13, Popped, Zenon
<1>15. c \notin u.completed
  BY <1>3 DEF ArmedAs
<1> QED BY <1>1, <1>2, <1>13, <1>14, <1>15 DEF c, sid

LEMMA ArmIs ==
  ASSUME NEW t, Shape(t), NEW c, NEW sid \in DOMAIN t.handles,
         NEW u, u = arm_subscription_drain(t, c, sid)
  PROVE  ArmedAs(t, u, c, sid)
BY DEF arm_subscription_drain, ArmedAs, Shape, CoreShape

\* What is known of a drain that is asked of the core.
Draining(k, t, c, sid) ==
  /\ c \in Calls /\ k[c].kind = Dr /\ k[c].sid = sid
  /\ sid \in DOMAIN t.handles /\ t.handles[sid].waiter = c

LEMMA DrainWithLedger ==
  ASSUME NEW k, NEW t, Ledger(k, t), NEW c, NEW sid, Draining(k, t, c, sid),
         NEW output(_), NEW u, u = DrainWith(t, c, sid, output)
  PROVE  Ledger(k, u)
<1> DEFINE tr == outgoing_drain_subscription(t.state, sid)
           tr2 == [tr EXCEPT !.output = output(@)]
           x == apply_transition(t, tr2)
           e == [kind |-> "Subscription_drain", call |-> c, sid |-> sid]
           y == forget(x, sid)
           z == forget(t, sid)
<1>1. \/ u = close_subscription(z, sid)
      \/ u = complete_drain(y, c, sid, "Error")
      \/ u = [x EXCEPT !.barriers = Append(@, e)]
  BY Zenon DEF DrainWith
<1>2. Shape(t) /\ CoreShape(t.state)
  BY LedgerShape
<1>3. PlainStep(t.state, tr)
  BY <1>2, DrainSubscriptionPlain
<1> HIDE DEF tr
<1>4. PlainStep(t.state, tr2)
  BY <1>3 DEF PlainStep, CoreStep
<1> HIDE DEF tr2
<1>5. Grown(t, x)
  BY <1>2, <1>4, PlainGrown
<1> HIDE DEF x
<1>6. Ledger(k, x) /\ Draining(k, x, c, sid)
  <2>1. Ledger(k, x)
    BY <1>5, GrownLedger
  <2>2. x.handles = t.handles
    BY <1>5 DEF Grown
  <2> QED BY <2>1, <2>2 DEF Draining
<1>7. Quiet(x, y) /\ Quiet(t, z)
  <2>1. Shape(x)
    BY <1>6, LedgerShape
  <2> QED BY <1>2, <2>1, ForgetQuiet
<1> HIDE DEF y, z
<1>8. Ledger(k, z) /\ Ledger(k, y) /\ y.handles = x.handles
  <2>1. y.handles = x.handles
    BY <1>7 DEF Quiet
  <2> QED BY <1>6, <1>7, <2>1, QuietLedger
<1>9. CASE u = close_subscription(z, sid)
  BY <1>8, <1>9, ClosingLedger
<1>10. CASE u = complete_drain(y, c, sid, "Error")
  <2>1. LedgerOf(k, y.work, y.barriers, y) /\ Draining(k, y, c, sid)
    BY <1>6, <1>8 DEF Ledger, Draining
  <2>2. LedgerOf(k, y.work, y.barriers, u) /\ DrainFrame(k, sid, y, u)
    BY <1>10, <2>1, AreResults, CompleteDrainKeeps DEF Draining
  <2> QED BY <2>2 DEF Ledger, DrainFrame, DrainsFrame
<1>11. CASE u = [x EXCEPT !.barriers = Append(@, e)]
  <2>1. Armed(k, x, c) /\ sid \in Nat
    BY <1>6 DEF Draining, Armed, Ledger, LedgerOf, SidInv
  <2>2. Queueable(k, x, e)
    BY <1>6, <2>1 DEF Queueable, Draining, BarrierRecords, Barriers
  <2> HIDE DEF e
  <2> QED BY <1>6, <1>11, <2>2, BarrierAppended
<1> QED BY <1>1, <1>9, <1>10, <1>11

\* A queued drain: w is the queue with its command.
LEMMA DrainSubscriptionLedger ==
  ASSUME NEW k, NEW w, NEW t, LedgerOf(k, w, t.barriers, t), w # <<>>,
         t.work = Rest(w), w[1].kind = Dr,
         NEW u, u = apply_drain_subscription(t, w[1].call, w[1].sid)
  PROVE  Ledger(k, u)
<1> DEFINE c == w[1].call
           sid == w[1].sid
           x == arm_subscription_drain(t, c, sid)
<1>1. CASE sid \in t.subscriptions
  <2>1. Shape(t) /\ sid \in DOMAIN t.handles
    BY <1>1 DEF LedgerOf, SidInv
  <2>2. ArmedAs(t, x, c, sid)
    BY <2>1, ArmIs, Zenon
  <2>3. u = x \/ u = DrainWith(x, c, sid, LAMBDA output : output)
    BY <1>1, Zenon DEF apply_drain_subscription
  <2> HIDE DEF x
  <2>4. LedgerOf(k, Rest(w), t.barriers, x) /\ Draining(k, x, c, sid)
    <3>1. x.handles[sid].waiter = c
      BY <2>2 DEF ArmedAs
    <3> QED BY <1>1, <2>2, <3>1, ArmedKeeps DEF Draining
  <2>5. Ledger(k, x)
    BY <2>2, <2>4 DEF Ledger, ArmedAs
  <2> HIDE DEF c, sid
  <2> QED BY <2>3, <2>4, <2>5, DrainWithLedger
<1>2. CASE sid \notin t.subscriptions
  <2>1. u = fail_pending_drain(t, sid)
    BY <1>2 DEF apply_drain_subscription
  <2>2. LedgerOf(k, Rest(w), t.barriers, t) /\ Taken(k, w, t.barriers, t)
    BY <1>2, Popped
  <2>3. sid \in DOMAIN t.handles
    <3>1. c \in Calls /\ k[c].kind = Dr /\ k[c].sid = sid
      BY <2>2 DEF Taken
    <3> QED BY <2>2, <3>1 DEF LedgerOf, SidInv
  <2> HIDE DEF sid
  <2>4. LedgerOf(k, Rest(w), t.barriers, u) /\ DrainFrame(k, sid, t, u)
    BY <1>2, <2>1, <2>2, <2>3, FailPendingDrainKeeps
  <2> QED BY <2>4 DEF Ledger, DrainFrame, DrainsFrame
<1> QED BY <1>1, <1>2

LEMMA ResumeLedger ==
  ASSUME NEW k, NEW t, Ledger(k, t), NEW c \in Calls, NEW sid,
         k[c].kind = Dr, k[c].sid = sid, Armed(k, t, c),
         NEW u, u = resume_subscription_drain(t, c, sid)
  PROVE  Ledger(k, u)
<1>1. CASE c \in t.completed
  BY <1>1 DEF resume_subscription_drain
<1>2. CASE c \notin t.completed /\ sid \notin t.subscriptions
  <2>1. u = complete_drain_waiter(t, c, sid, "Error")
    BY <1>2 DEF resume_subscription_drain
  <2>2. LedgerOf(k, t.work, t.barriers, t)
    BY DEF Ledger
  <2>3. LedgerOf(k, t.work, t.barriers, u) /\ DrainFrame(k, sid, t, u)
    BY <2>1, <2>2, AreResults, CompleteWaiterKeeps
  <2> QED BY <2>3 DEF Ledger, DrainFrame, DrainsFrame
<1>3. CASE c \notin t.completed /\ sid \in t.subscriptions
  <2>1. u = DrainWith(t, c, sid, LAMBDA output : <<>>)
    BY <1>3, Zenon DEF resume_subscription_drain
  <2>2. Draining(k, t, c, sid)
    BY <1>3 DEF Draining, Armed
  <2> QED BY <2>1, <2>2, DrainWithLedger
<1> QED BY <1>1, <1>2, <1>3

\* A queued cancellation of a drain: its command was served before it.
LEMMA CancelDrainLedger ==
  ASSUME NEW k, NEW w, NEW t, LedgerOf(k, w, t.barriers, t), w # <<>>,
         t.work = Rest(w), w[1].kind = "Cancel_drain",
         NEW u, u = cancel_subscription_drain(t, w[1].sid)
  PROVE  Ledger(k, u)
<1> DEFINE sid == w[1].sid
<1>1. LedgerOf(k, Rest(w), t.barriers, t)
  BY Popped DEF Dr
<1>2. CASE sid \in t.subscriptions
  <2>1. 1 \in DOMAIN w
    BY RestIs DEF LedgerOf, WorkInv
  <2>2. t.handles[sid].waiter # None
    BY <1>2, <2>1 DEF LedgerOf, WorkInv
  <2>3. u = fail_pending_drain(t, sid) /\ sid \in DOMAIN t.handles
    BY <1>2 DEF cancel_subscription_drain, LedgerOf, SidInv
  <2> HIDE DEF sid
  <2>4. LedgerOf(k, Rest(w), t.barriers, u) /\ DrainFrame(k, sid, t, u)
    BY <1>1, <2>2, <2>3, FailPendingDrainKeeps
  <2> QED BY <2>4 DEF Ledger, DrainFrame, DrainsFrame
<1>3. CASE sid \notin t.subscriptions
  BY <1>1, <1>3 DEF cancel_subscription_drain, Ledger
<1> QED BY <1>2, <1>3


-----------------------------------------------------------------------------
(* Requests.                                                               *)

\* A request that waits under sid and has not told its caller yet.
Asking(k, t, c, sid) ==
  sid \in DOMAIN t.requests /\ t.requests[sid] = c /\ Unasked(k, t.work, t, c)

LEMMA RequestAdded ==
  ASSUME NEW k, NEW t, Ledger(k, t), NEW c, Caller(k, t, c, "Request"),
         NEW sid \in Nat, sid < t.state.next_sid, sid \notin DOMAIN t.requests,
         NEW u, u = [t EXCEPT !.requests = With(@, sid, c)]
  PROVE  Ledger(k, u) /\ Asking(k, u, c, sid)
<1>1. /\ Shape(u) /\ u.state = t.state /\ u.work = t.work
      /\ u.barriers = t.barriers /\ u.completed = t.completed
      /\ u.handles = t.handles /\ u.subscriptions = t.subscriptions
      /\ u.subscription_drains = t.subscription_drains
      /\ u.answers = t.answers /\ u.setups = t.setups
      /\ u.requests = With(t.requests, sid, c)
  BY LedgerShape DEF Shape
<1>2. /\ DOMAIN u.requests = DOMAIN t.requests \cup {sid}
      /\ u.requests[sid] = c
      /\ \A s \in DOMAIN t.requests : u.requests[s] = t.requests[s]
  BY <1>1 DEF With
<1>3. /\ c \in Calls /\ k[c].kind = "Request" /\ t.answers[c] = <<>>
      /\ \A s \in DOMAIN t.requests : t.requests[s] # c
      /\ \A i \in DOMAIN t.work : t.work[i].kind \in AllKinds => t.work[i].call # c
  BY DEF Caller, InHand, Open
<1>4. /\ Promises(u) /\ BarrierInv(k, t.barriers, u) /\ HandleInv(k, t.work, u)
      /\ IdleInv(k, u) /\ DrainInv(k, t.work, t.barriers, u)
  <2>1. Promises(u) /\ BarrierInv(k, t.barriers, u) /\ IdleInv(k, u)
    BY <1>1 DEF Ledger, LedgerOf, Promises, BarrierInv, IdleInv
  <2>2. HandleInv(k, t.work, u)
    BY <1>1, HandleSame DEF Ledger, LedgerOf
  <2>3. DrainInv(k, t.work, t.barriers, u)
    BY <1>1, DrainSame DEF Ledger, LedgerOf
  <2> QED BY <2>1, <2>2, <2>3
<1>5. WorkInv(k, t.work, t.barriers, u)
  <2>1. WorkInv(k, t.work, t.barriers, t)
    BY DEF Ledger, LedgerOf
  <2>2. \A i \in DOMAIN t.work : t.work[i].kind = "Request"
          => \A s \in DOMAIN u.requests : u.requests[s] # t.work[i].call
    BY <1>2, <1>3, <2>1 DEF WorkInv, AllKinds
  <2>3. Requesting(t.work, t, u)
    BY <1>1, <2>2 DEF Requesting
  <2> QED BY <2>1, <2>3, WorkRequests
<1>6. RequestInv(k, u)
  <2>1. RequestInv(k, t) /\ u.answers = t.answers
    BY <1>1 DEF Ledger, LedgerOf
  <2> QED BY <1>2, <1>3, <2>1 DEF RequestInv
<1>7. SidInv(k, u)
  BY <1>1, <1>2 DEF Ledger, LedgerOf, SidInv
<1>8. Ledger(k, u)
  BY <1>1, <1>4, <1>5, <1>6, <1>7 DEF Ledger, LedgerOf
<1>9. Asking(k, u, c, sid)
  BY <1>1, <1>2, <1>3 DEF Asking, Unasked, Caller
<1> QED BY <1>8, <1>9

LEMMA GrownAsking ==
  ASSUME NEW k, NEW t, NEW c, NEW sid, Asking(k, t, c, sid), NEW u, Grown(t, u)
  PROVE  Asking(k, u, c, sid)
BY DEF Asking, Unasked, Grown

LEMMA AskingLedger ==
  ASSUME NEW k, NEW t, Ledger(k, t), NEW c, NEW sid, Asking(k, t, c, sid),
         NEW r \in Results, NEW u, u = resolve_setup(t, c, r)
  PROVE  Ledger(k, u)
<1>1. Unasked(k, t.work, t, c)
  BY DEF Asking
<1>2. LedgerOf(k, t.work, t.barriers, t)
  BY DEF Ledger
<1>3. LedgerOf(k, t.work, t.barriers, u) /\ OnlySetups(t, u)
  BY <1>1, <1>2, SetupKeeps
<1> QED BY <1>3 DEF Ledger, OnlySetups

LEMMA DroppedLedger ==
  ASSUME NEW k, NEW t, Ledger(k, t), NEW c, NEW sid, Asking(k, t, c, sid),
         NEW u, u = resolve_setup(drop_request(t, sid), c, "Error")
  PROVE  Ledger(k, u)
<1> DEFINE x == drop_request(t, sid)
<1>1. sid \in DOMAIN t.requests /\ c = t.requests[sid]
  BY DEF Asking
<1>2. Ledger(k, x) /\ x.work = t.work /\ x.setups = t.setups
  BY <1>1, DropRequestLedger
<1> HIDE DEF x
<1>3. Unasked(k, x.work, x, c)
  BY <1>2 DEF Asking, Unasked
<1>4. LedgerOf(k, x.work, x.barriers, x)
  BY <1>2 DEF Ledger
<1>5. u = resolve_setup(x, c, "Error")
  BY DEF x
<1>6. LedgerOf(k, x.work, x.barriers, u) /\ OnlySetups(x, u)
  BY <1>3, <1>4, <1>5, AreResults, SetupKeeps
<1> QED BY <1>6 DEF Ledger, OnlySetups

LEMMA RequestPublishLedger ==
  ASSUME NEW k, NEW t, Ledger(k, t), NEW c, NEW sid, Asking(k, t, c, sid),
         NEW u, u = request_publish(t, c, sid)
  PROVE  Ledger(k, u)
<1> DEFINE m == PublishOp(c, sid)
           b == enqueue_reconnect_publish_output(t, m)
           tr == outgoing_publish(t.state, m)
           x == apply_transition(t, tr)
           y == Accept(x, c)
           dt == resolve_setup(drop_request(t, sid), c, "Error")
           dx == resolve_setup(drop_request(x, sid), c, "Error")
<1>1. \/ u = forget(dt, sid)
      \/ u = resolve_setup(b, c, "Ok")
      \/ u = unsubscribe_and_forget(dt, sid)
      \/ u = forget(dx, sid)
      \/ u = resolve_setup(y, c, "Ok")
  BY Zenon DEF request_publish
<1>2. Shape(t) /\ CoreShape(t.state)
  BY LedgerShape
<1>3. PlainStep(t.state, tr)
  BY <1>2, PublishPlain
<1>4. Quiet(t, b)
  BY <1>2, BufferedQuiet
<1> HIDE DEF m, b, tr
<1>5. Grown(t, x)
  BY <1>2, <1>3, PlainGrown
<1> HIDE DEF x
<1>6. Ledger(k, x) /\ Asking(k, x, c, sid)
  BY <1>5, GrownLedger, GrownAsking
<1>7. Ledger(k, b) /\ Asking(k, b, c, sid)
  BY <1>2, <1>4, QuietGrown, GrownLedger, GrownAsking
<1>8. Quiet(x, y)
  BY <1>6, LedgerShape, AcceptQuiet
<1> HIDE DEF y
<1>9. Ledger(k, y) /\ Asking(k, y, c, sid)
  <2>1. Grown(x, y)
    BY <1>6, <1>8, LedgerShape, QuietGrown
  <2> QED BY <1>6, <2>1, GrownLedger, GrownAsking
<1>10. Ledger(k, dt) /\ Ledger(k, dx)
  BY <1>6, DroppedLedger
<1> HIDE DEF dt, dx
<1>11. Ledger(k, forget(dt, sid)) /\ Ledger(k, forget(dx, sid))
  BY <1>10, LedgerShape, ForgetQuiet, QuietLedger
<1>12. Ledger(k, unsubscribe_and_forget(dt, sid))
  BY <1>10, LedgerShape, UnsubscribeQuiet, QuietLedger
<1>13. Ledger(k, resolve_setup(b, c, "Ok")) /\ Ledger(k, resolve_setup(y, c, "Ok"))
  BY <1>7, <1>9, AreResults, AskingLedger
<1> QED BY <1>1, <1>11, <1>12, <1>13

LEMMA RequestLedger ==
  ASSUME NEW k, NEW t, Ledger(k, t), NEW c, Caller(k, t, c, "Request"),
         NEW u, u = apply_request(t, c)
  PROVE  Ledger(k, u)
<1> DEFINE tr == outgoing_subscribe(t.state, Inbox)
           sid == tr.sid
           x == apply_transition(t, tr)
           auto == outgoing_auto_unsubscribe(x.state, sid, 1)
           y == apply_transition(x, auto)
           q == [y EXCEPT !.requests = With(@, sid, c)]
           z == Cleared(y)
           rx == resolve_setup(x, c, "Error")
           rz == resolve_setup(z, c, "Error")
<1>1. CASE tr.error # None
  <2>1. u = resolve_setup(t, c, "Error")
    BY <1>1, Zenon DEF apply_request
  <2> QED BY <2>1, AreResults, SetupCaller
<1>2. CASE tr.error = None
  <2>1. \/ u = rx
        \/ u = unsubscribe_and_forget(rx, sid)
        \/ u = unsubscribe_and_forget(rz, sid)
        \/ u = request_publish(q, c, sid) /\ x.error = None
    BY <1>2, Zenon DEF apply_request
  <2>2. /\ CoreShape(tr.state) /\ tr.state.next_sid = t.state.next_sid + 1
        /\ sid = t.state.next_sid /\ tr.events = <<>> /\ tr.deliveries = <<>>
        /\ t.state.next_sid \in Nat /\ Shape(t)
    BY <1>2, LedgerShape, SubscribeIs
  <2> HIDE DEF tr
  <2>3. Grown(t, x) /\ (x.error = None => x.state = tr.state)
    <3>1. t.state.next_sid <= tr.state.next_sid
      BY <2>2
    <3> QED BY <2>2, <3>1, TransitionGrown
  <2> HIDE DEF x
  <2>4. Ledger(k, x) /\ Caller(k, x, c, "Request")
    BY <2>3, GrownLedger, GrownCaller
  <2>5. PlainStep(x.state, auto)
    BY <2>4, LedgerShape, UnsubscribePlain
  <2> HIDE DEF auto
  <2>6. Ledger(k, y) /\ Caller(k, y, c, "Request") /\ Grown(x, y)
    BY <2>4, <2>5, PlainCaller
  <2> HIDE DEF y
  <2>7. Ledger(k, z) /\ Caller(k, z, c, "Request")
    <3>1. Quiet(y, z)
      BY <2>6, LedgerShape, ErrorQuiet
    <3>2. Grown(y, z)
      BY <2>6, <3>1, LedgerShape, QuietGrown
    <3> QED BY <2>6, <3>2, GrownLedger, GrownCaller
  <2> HIDE DEF z
  <2>8. Ledger(k, rx) /\ Ledger(k, rz)
    BY <2>4, <2>7, AreResults, SetupCaller
  <2> HIDE DEF rx, rz
  <2>9. Ledger(k, unsubscribe_and_forget(rx, sid))
        /\ Ledger(k, unsubscribe_and_forget(rz, sid))
    BY <2>8, LedgerShape, UnsubscribeQuiet, QuietLedger
  <2>10. ASSUME u = request_publish(q, c, sid), x.error = None
         PROVE  Ledger(k, u)
    <3>1. sid \in Nat /\ sid < y.state.next_sid
      BY <2>2, <2>3, <2>6, <2>10 DEF Grown, Shape, CoreShape
    <3>2. sid \notin DOMAIN t.requests
      BY <2>2 DEF Ledger, LedgerOf, SidInv
    <3>3. sid \notin DOMAIN y.requests
      BY <2>3, <2>6, <3>2 DEF Grown
    <3> HIDE DEF sid
    <3>4. Ledger(k, q) /\ Asking(k, q, c, sid)
      BY <2>6, <3>1, <3>3, RequestAdded
    <3> HIDE DEF q
    <3> QED BY <2>10, <3>4, RequestPublishLedger
  <2> QED BY <2>1, <2>8, <2>9, <2>10
<1> QED BY <1>1, <1>2

\* Requests that are given up.
LEMMA AbandonLedger ==
  ASSUME NEW k, NEW t, Ledger(k, t), NEW sid \in DOMAIN t.requests,
         NEW u, u = abandon_request(t, sid)
  PROVE  Ledger(k, u) /\ DOMAIN u.requests = DOMAIN t.requests \ {sid}
<1> DEFINE c == t.requests[sid]
           x == drop_request(t, sid)
           y == fail_waiter(x, c)
<1>1. /\ Ledger(k, x) /\ InHand(k, x.work, x.barriers, x, c)
      /\ DOMAIN x.requests = DOMAIN t.requests \ {sid}
  BY DropRequestLedger
<1>2. u = forget(y, sid) \/ u = unsubscribe_and_forget(y, sid)
  BY Zenon DEF abandon_request
<1> HIDE DEF x, c
<1>3. Ledger(k, y) /\ OnlyAnswers(x, y)
  BY <1>1, AnswerLedger
<1> HIDE DEF y
<1>4. Quiet(y, u)
  BY <1>2, <1>3, LedgerShape, ForgetQuiet, UnsubscribeQuiet
<1>5. Ledger(k, u)
  BY <1>3, <1>4, QuietLedger
<1> QED BY <1>1, <1>3, <1>4, <1>5 DEF Quiet, OnlyAnswers

Abandoning(a, t, sid) == Then(t, LAMBDA x : abandon_request(x, sid))
Abandoned(h, s, t) == Ledger(h.k, t) /\ h.sids \ s \subseteq DOMAIN t.requests
Abandonments == INSTANCE FoldLemmas WITH op <- Abandoning, R <- Abandoned

LEMMA AbandonedLedger ==
  ASSUME NEW k, NEW t, Ledger(k, t), NEW cs, NEW u, u = abandon_requests(t, cs)
  PROVE  Ledger(k, u)
<1> DEFINE S == RequestSids(t, cs)
           h == [k |-> k, sids |-> S]
<1>0. S \subseteq DOMAIN t.requests
  BY DEF RequestSids
<1>1. t.state.next_sid \in Nat /\ S \in SUBSET (0..t.state.next_sid)
  BY <1>0, SidsBounded DEF Ledger
<1>2. u = Abandonments!OverNumbers(0, t, S)
  BY Zenon DEF Abandonments!OverNumbers, abandon_requests, OverSids,
               MapThenFoldSet, Max, Abandoning
<1>3. Abandoned(h, {}, t)
  BY <1>0 DEF Abandoned
<1>4. ASSUME NEW s \in SUBSET S, NEW e \in S \ s, NEW f, Abandoned(h, s, f)
      PROVE  Abandoned(h, s \cup {e}, Abandoning(0, f, e))
  <2> DEFINE g == abandon_request(f, e)
  <2>1. Ledger(k, f) /\ S \ s \subseteq DOMAIN f.requests
    BY <1>4 DEF Abandoned
  <2>2. e \in DOMAIN f.requests
    BY <2>1
  <2>3. Ledger(k, g) /\ DOMAIN g.requests = DOMAIN f.requests \ {e}
    BY <2>1, <2>2, AbandonLedger
  <2>4. Abandoning(0, f, e) = f \/ Abandoning(0, f, e) = g
    BY Zenon DEF Abandoning, Then
  <2> HIDE DEF g, S
  <2> QED BY <2>1, <2>3, <2>4 DEF Abandoned
<1> HIDE DEF S, h
<1>5. Abandonments!NumbersClaim(0, h, t, S)
  BY <1>3, <1>4 DEF Abandonments!NumbersClaim
<1>6. Abandoned(h, S, Abandonments!OverNumbers(0, t, S))
  BY <1>1, <1>5, NaturalInduction, Abandonments!NumbersFold, Zenon
     DEF Abandonments!Inductive
<1> QED BY <1>2, <1>6 DEF Abandoned, h


-----------------------------------------------------------------------------
(* Timers.                                                                 *)

Expiring(a, t, sid) ==
  IF sid \notin DOMAIN t.subscription_drains THEN t
  ELSE IF sid \in t.subscriptions THEN fail_pending_drain(t, sid)
  ELSE complete_drain_waiter(t, t.subscription_drains[sid], sid, "Error")
Expiries == INSTANCE FoldLemmas WITH op <- Expiring, R <- RecordedSet

LEMMA ExpiringLedger ==
  ASSUME NEW k, NEW t, Ledger(k, t), NEW sid, NEW u, u = Expiring(0, t, sid)
  PROVE  Ledger(k, u)
<1>1. CASE sid \notin DOMAIN t.subscription_drains
  BY <1>1 DEF Expiring
<1>2. CASE sid \in DOMAIN t.subscription_drains
  <2> DEFINE c == t.subscription_drains[sid]
  <2>1. c \in Calls /\ k[c].kind = Dr /\ k[c].sid = sid /\ Armed(k, t, c)
    BY <1>2 DEF Ledger, LedgerOf, DrainInv
  <2>2. LedgerOf(k, t.work, t.barriers, t)
    BY DEF Ledger
  <2>3. u = IF sid \in t.subscriptions THEN fail_pending_drain(t, sid)
            ELSE complete_drain_waiter(t, c, sid, "Error")
    BY <1>2, Zenon DEF Expiring
  <2> HIDE DEF c
  <2>4. LedgerOf(k, t.work, t.barriers, u) /\ DrainFrame(k, sid, t, u)
    BY <2>1, <2>2, <2>3, FailDrainKeeps
  <2> QED BY <2>4 DEF Ledger, DrainFrame, DrainsFrame
<1> QED BY <1>1, <1>2

LEMMA ExpireDrainsLedger ==
  ASSUME NEW k, NEW t, Ledger(k, t), NEW due,
         NEW u, u = expire_subscription_drains(t, due)
  PROVE  Ledger(k, u)
<1> DEFINE S == {sid \in DOMAIN t.subscription_drains :
                   t.subscription_drains[sid] \in due}
<1>1. t.state.next_sid \in Nat /\ S \in SUBSET (0..t.state.next_sid)
  BY SidsBounded DEF Ledger
<1>2. u = Expiries!OverNumbers(0, t, S)
  BY Zenon DEF Expiries!OverNumbers, expire_subscription_drains, OverSids,
               MapThenFoldSet, Max, Expiring
<1>3. ASSUME NEW s \in SUBSET S, NEW e \in S \ s, NEW f, RecordedSet(k, s, f)
      PROVE  RecordedSet(k, s \cup {e}, Expiring(0, f, e))
  BY <1>3, ExpiringLedger DEF RecordedSet
<1> HIDE DEF S
<1>4. Expiries!NumbersClaim(0, k, t, S)
  BY <1>3 DEF Expiries!NumbersClaim, RecordedSet
<1>5. RecordedSet(k, S, Expiries!OverNumbers(0, t, S))
  BY <1>1, <1>4, NaturalInduction, Expiries!NumbersFold, Zenon
     DEF Expiries!Inductive
<1> QED BY <1>2, <1>5 DEF RecordedSet

\* The barriers that stay after a timer.
Retaining(a, kept, barrier) ==
  IF keeps_place(barrier, a) THEN Append(kept, barrier) ELSE kept
Retained(h, i, kept) ==
  /\ kept \in Seq(BarrierRecords)
  /\ \A n \in DOMAIN kept :
       keeps_place(kept[n], h.due) /\ \E x \in 1..i : kept[n] = h.b[x]
  /\ \A m, n \in DOMAIN kept : m < n =>
       \E x, y \in 1..i : x < y /\ kept[m] = h.b[x] /\ kept[n] = h.b[y]
Retentions == INSTANCE FoldLemmas WITH op <- Retaining, R <- Retained

LEMMA RetainedStep ==
  ASSUME NEW h, h.b \in Seq(BarrierRecords), NEW i \in 1..Len(h.b), NEW kept,
         Retained(h, i - 1, kept), keeps_place(h.b[i], h.due),
         NEW r, r = Append(kept, h.b[i])
  PROVE  Retained(h, i, r)
<1> DEFINE e == h.b[i]
<1>1. e \in BarrierRecords /\ kept \in Seq(BarrierRecords)
  BY DEF Retained
<1>2. /\ r \in Seq(BarrierRecords) /\ DOMAIN r = 1..Len(kept) + 1
      /\ DOMAIN kept = 1..Len(kept) /\ Len(kept) \in Nat
      /\ \A n \in DOMAIN kept : r[n] = kept[n]
      /\ r[Len(kept) + 1] = e
  BY <1>1
<1>3. i \in Nat /\ \A x \in 1..i - 1 : x \in 1..i /\ x < i
  OBVIOUS
<1> HIDE DEF e
<1>4. ASSUME NEW n \in DOMAIN r
      PROVE  keeps_place(r[n], h.due) /\ \E x \in 1..i : r[n] = h.b[x]
  <2>1. CASE n = Len(kept) + 1
    BY <1>2, <1>3, <2>1 DEF e
  <2>2. CASE n \in DOMAIN kept
    BY <1>2, <1>3, <2>2 DEF Retained
  <2> QED BY <1>2, <2>1, <2>2
<1>5. ASSUME NEW m \in DOMAIN r, NEW n \in DOMAIN r, m < n
      PROVE  \E x, y \in 1..i : x < y /\ r[m] = h.b[x] /\ r[n] = h.b[y]
  <2>1. m \in DOMAIN kept
    BY <1>2, <1>5
  <2>2. CASE n = Len(kept) + 1
    <3>1. PICK x \in 1..i - 1 : kept[m] = h.b[x]
      BY <2>1 DEF Retained
    <3> QED BY <1>2, <1>3, <2>1, <2>2, <3>1 DEF e
  <2>3. CASE n \in DOMAIN kept
    <3>1. PICK x \in 1..i - 1, y \in 1..i - 1 :
            x < y /\ kept[m] = h.b[x] /\ kept[n] = h.b[y]
      BY <1>5, <2>1, <2>3 DEF Retained
    <3> QED BY <1>2, <1>3, <2>1, <2>3, <3>1
  <2> QED BY <1>2, <2>2, <2>3
<1> QED BY <1>2, <1>4, <1>5 DEF Retained

LEMMA RetainedAmong ==
  ASSUME NEW b \in Seq(BarrierRecords), NEW due, NEW r, r = retained(b, due)
  PROVE  Among(r, b) /\ \A n \in DOMAIN r : keeps_place(r[n], due)
<1> DEFINE h == [b |-> b, due |-> due]
<1>1. r = Retentions!OverItems(due, <<>>, b)
  BY Zenon DEF Retentions!OverItems, retained, FoldLeft, MapThenFoldSet, Max,
               Retaining
<1>2. h.b = b /\ h.due = due
  OBVIOUS
<1> HIDE DEF h
<1>3. Retained(h, 0, <<>>)
  BY DEF Retained
<1>4. ASSUME NEW i \in 1..Len(b), NEW kept, Retained(h, i - 1, kept)
      PROVE  Retained(h, i, Retaining(due, kept, b[i]))
  <2>1. CASE keeps_place(b[i], due)
    <3>1. Retaining(due, kept, b[i]) = Append(kept, b[i])
      BY <2>1, Zenon DEF Retaining
    <3> QED BY <1>2, <1>4, <2>1, <3>1, RetainedStep
  <2>2. CASE ~keeps_place(b[i], due)
    <3>1. Retaining(due, kept, b[i]) = kept
      BY <2>2, Zenon DEF Retaining
    <3>2. \A x \in 1..i - 1 : x \in 1..i
      OBVIOUS
    <3>3. Retained(h, i, kept)
      <4>1. \A n \in DOMAIN kept :
              keeps_place(kept[n], h.due) /\ \E x \in 1..i : kept[n] = h.b[x]
        BY <1>4, <3>2, Zenon DEF Retained
      <4>2. ASSUME NEW m \in DOMAIN kept, NEW n \in DOMAIN kept, m < n
            PROVE  \E x, y \in 1..i : x < y /\ kept[m] = h.b[x] /\ kept[n] = h.b[y]
        <5>1. PICK x \in 1..i - 1, y \in 1..i - 1 :
                x < y /\ kept[m] = h.b[x] /\ kept[n] = h.b[y]
          BY <1>4, <4>2 DEF Retained
        <5> QED BY <3>2, <5>1, Zenon
      <4> QED BY <1>4, <4>1, <4>2, Zenon DEF Retained
    <3> QED BY <3>1, <3>3
  <2> QED BY <2>1, <2>2
<1>5. Retentions!ItemsClaim(due, h, <<>>, b)
  BY <1>3, <1>4 DEF Retentions!ItemsClaim
<1>6. Retained(h, Len(b), r)
  BY <1>1, <1>5, NaturalInduction, Retentions!SequenceFold, Zenon
     DEF Retentions!Inductive
<1>7. DOMAIN b = 1..Len(b)
  OBVIOUS
<1>8. /\ r \in Seq(BarrierRecords)
      /\ \A n \in DOMAIN r : keeps_place(r[n], h.due) /\ \E x \in 1..Len(b) : r[n] = h.b[x]
      /\ \A m, n \in DOMAIN r : m < n =>
           \E x, y \in 1..Len(b) : x < y /\ r[m] = h.b[x] /\ r[n] = h.b[y]
  BY <1>6, Zenon DEF Retained
<1>9. ASSUME NEW n \in DOMAIN r
      PROVE  keeps_place(r[n], due) /\ \E x \in DOMAIN b : r[n] = b[x]
  <2>1. PICK x \in 1..Len(b) : r[n] = h.b[x]
    BY <1>8, Zenon
  <2> QED BY <1>2, <1>7, <1>8, <2>1
<1>10. ASSUME NEW m \in DOMAIN r, NEW n \in DOMAIN r, m < n
       PROVE  \E x, y \in DOMAIN b : x < y /\ r[m] = b[x] /\ r[n] = b[y]
  <2>1. PICK x \in 1..Len(b), y \in 1..Len(b) :
          x < y /\ r[m] = h.b[x] /\ r[n] = h.b[y]
    BY <1>8, <1>10, Zenon
  <2> QED BY <1>2, <1>7, <2>1
<1> QED BY <1>8, <1>9, <1>10, Zenon DEF Among

LEMMA ExpireBarriersLedger ==
  ASSUME NEW k, NEW t, Ledger(k, t), NEW due, NEW u, u = expire_barriers(t, due)
  PROVE  Ledger(k, u)
<1> DEFINE late == {b.call : b \in {c \in Range(t.barriers) :
                                      /\ c.kind # "Subscription_drain"
                                      /\ c.call \in due \ t.completed}}
           x == fail_waiters(t, late)
           r == retained(t.barriers, due)
<1>0. Shape(t) /\ t.barriers \in Seq(BarrierRecords)
  BY DEF Ledger, LedgerOf, BarrierInv
<1>1. u = [fail_waiters(t, late) EXCEPT !.barriers = r, !.completed = @ \cup late]
  <2>1. x.barriers = t.barriers
    BY DEF fail_waiters
  <2>2. u = [x EXCEPT !.barriers = retained(@, due), !.completed = @ \cup late]
    BY Zenon DEF expire_barriers
  <2> HIDE DEF x
  <2>3. u = [x EXCEPT !.barriers = retained(x.barriers, due), !.completed = @ \cup late]
    BY <2>2
  <2> QED BY <2>1, <2>3 DEF x
<1>2. ASSUME NEW c \in late
      PROVE  /\ c \notin t.completed /\ c \in due
             /\ \E i \in DOMAIN t.barriers : /\ t.barriers[i].kind \in Barriers
                                             /\ t.barriers[i].call = c
  <2>1. PICK i \in DOMAIN t.barriers :
          /\ t.barriers[i].kind # "Subscription_drain"
          /\ t.barriers[i].call \in due \ t.completed
          /\ t.barriers[i].call = c
    BY DEF Range
  <2>2. t.barriers[i].kind \in Barriers
    BY <1>0, <2>1, BarrierTyped DEF BarrierRecords
  <2> QED BY <2>1, <2>2
<1>3. Among(r, t.barriers) /\ \A n \in DOMAIN r : keeps_place(r[n], due)
  BY <1>0, RetainedAmong
<1> HIDE DEF late, r
<1>4. \A n \in DOMAIN r : r[n].kind = "Drain" => r[n].call \notin late
  BY <1>2, <1>3 DEF keeps_place
<1> QED BY <1>1, <1>2, <1>3, <1>4, LateLedger

LEMMA ExpireLedger ==
  ASSUME NEW k, NEW t, Ledger(k, t), NEW due, NEW u, u = expire(t, due)
  PROVE  Ledger(k, u)
<1> DEFINE q == expire_subscription_drains(t, due)
           y == expire_barriers(q, due)
           w == abandon_requests(y, due)
           tr == timer(w.state)
           z == apply_transition(w, tr)
           x == Then(w, LAMBDA v2 : apply_transition(v2, timer(v2.state)))
<1>1. u = finish(t) \/ u = finish(y) \/ u = finish(x) \/ u = x
  BY Zenon DEF expire
<1>2. x = w \/ x = z
  BY Zenon DEF Then
<1> HIDE DEF x
<1>3. Ledger(k, q)
  BY ExpireDrainsLedger
<1> HIDE DEF q
<1>4. Ledger(k, y)
  BY <1>3, ExpireBarriersLedger
<1> HIDE DEF y
<1>5. Ledger(k, w)
  BY <1>4, AbandonedLedger
<1> HIDE DEF w
<1>6. CoreStep(w.state, tr)
  BY <1>5, LedgerShape, TimerPlain DEF PlainStep
<1> HIDE DEF tr
<1>7. Ledger(k, z)
  BY <1>5, <1>6, TransitionLedger
<1>8. Ledger(k, x)
  BY <1>2, <1>5, <1>7
<1> QED BY <1>1, <1>4, <1>8, FinishKeeps


-----------------------------------------------------------------------------
(* A command: w is the queue with it.                                      *)

LEMMA CommandLedger ==
  ASSUME NEW k, NEW w, NEW t, LedgerOf(k, w, t.barriers, t), w # <<>>,
         t.work = Rest(w), NEW u, u = apply_command(t, w[1])
  PROVE  Ledger(k, u)
<1> DEFINE c == w[1].call
           sid == w[1].sid
           kind == w[1].kind
<1>1. kind \in AllKinds \cup OwnKinds
  <2>1. w \in Seq(Commands) /\ 1 \in DOMAIN w
    BY RestIs DEF LedgerOf, WorkInv
  <2>2. w[1] \in Commands
    BY <2>1, CommandTyped
  <2> QED BY <2>2 DEF Commands
<1>2. CASE kind = Dr
  <2>1. u = apply_drain_subscription(t, c, sid)
    BY <1>2 DEF apply_command, Dr
  <2> QED BY <1>2, <2>1, DrainSubscriptionLedger
<1>3. CASE kind = "Cancel_drain"
  <2>1. u = cancel_subscription_drain(t, sid)
    BY <1>3 DEF apply_command
  <2> QED BY <1>3, <2>1, CancelDrainLedger
<1>4. ASSUME kind # Dr
      PROVE  Ledger(k, t) /\ Taken(k, w, t.barriers, t)
  BY <1>4, Popped DEF Ledger
<1>5. ASSUME kind \in AllKinds \ {Dr}
      PROVE  Ledger(k, t) /\ Caller(k, t, c, kind)
  BY <1>4, <1>5 DEF Taken, Caller
<1>6. CASE kind = "Publish"
  <2>1. u = enqueue_reconnect_publish(t, c) \/ u = apply_publish(t, c)
    BY <1>6 DEF apply_command
  <2>2. Ledger(k, t) /\ Caller(k, t, c, "Publish")
    BY <1>5, <1>6 DEF AllKinds, Dr
  <2> QED BY <2>1, <2>2, PublishLedger, BufferPublishLedger
<1>7. CASE kind \in {"Subscribe", "Ephemeral"}
  <2>1. u = apply_subscribe(t, c, Subject, TRUE)
        \/ u = apply_subscribe(t, c, Subject, FALSE)
    BY <1>7 DEF apply_command
  <2>2. Ledger(k, t) /\ Caller(k, t, c, kind) /\ k[c].kind # Dr
    BY <1>5, <1>7 DEF AllKinds, Dr, Caller
  <2> HIDE DEF c, kind
  <2> QED BY <2>1, <2>2, SubscribeLedger
<1>8. CASE kind = "Unsubscribe"
  <2>1. u = apply_unsubscribe(t, c, sid)
    BY <1>8 DEF apply_command
  <2>2. Ledger(k, t) /\ Caller(k, t, c, "Unsubscribe")
    BY <1>5, <1>8 DEF AllKinds, Dr
  <2> QED BY <2>1, <2>2, UnsubscribeLedger
<1>9. CASE kind = "Auto_unsubscribe"
  <2>1. u = apply_auto_unsubscribe(t, c, sid)
    BY <1>9 DEF apply_command
  <2>2. Ledger(k, t) /\ Caller(k, t, c, "Auto_unsubscribe")
    BY <1>5, <1>9 DEF AllKinds, Dr
  <2> QED BY <2>1, <2>2, AutoUnsubscribeLedger
<1>10. CASE kind = "Resume"
  <2>1. u = resume_subscription_drain(t, c, sid)
    BY <1>10 DEF apply_command
  <2>2. Ledger(k, t) /\ c \in Calls /\ Armed(k, t, c)
        /\ k[c].kind = Dr /\ k[c].sid = sid
    BY <1>4, <1>10 DEF Taken, Dr
  <2> QED BY <2>1, <2>2, ResumeLedger
<1>11. CASE kind = "Request"
  <2>1. u = apply_request(t, c)
    BY <1>11 DEF apply_command
  <2>2. Ledger(k, t) /\ Caller(k, t, c, "Request")
    BY <1>5, <1>11 DEF AllKinds, Dr
  <2> QED BY <2>1, <2>2, RequestLedger
<1>12. CASE kind = "Cancel_request"
  <2>1. u = abandon_requests(t, {c})
    BY <1>12 DEF apply_command
  <2>2. Ledger(k, t)
    BY <1>4, <1>12 DEF Dr
  <2> QED BY <2>1, <2>2, AbandonedLedger
<1>13. CASE kind = "Flush"
  <2>1. u = apply_flush(t, c) \/ u = apply_reconnect_flush(t, c)
    BY <1>13 DEF apply_command
  <2>2. Ledger(k, t) /\ Caller(k, t, c, "Flush")
    BY <1>5, <1>13 DEF AllKinds, Dr
  <2> QED BY <2>1, <2>2, FlushLedger
<1>14. CASE kind = "Drain"
  <2>1. u = finish(fail_waiter(t, c)) \/ u = apply_drain(t, c)
    BY <1>14 DEF apply_command
  <2>2. Ledger(k, t) /\ Caller(k, t, c, "Drain")
    BY <1>5, <1>14 DEF AllKinds, Dr
  <2>3. Ledger(k, fail_waiter(t, c))
    BY <2>2, AnswerCaller
  <2> QED BY <2>1, <2>2, <2>3, DrainLedger, FinishKeeps
<1>15. CASE kind = "Close"
  <2>1. u = finish(resolve_unit(t, c, "Ok")) \/ u = apply_close(t, c)
    BY <1>15 DEF apply_command
  <2>2. Ledger(k, t) /\ Caller(k, t, c, "Close")
    BY <1>5, <1>15 DEF AllKinds, Dr
  <2>3. Ledger(k, resolve_unit(t, c, "Ok"))
    BY <2>2, AnswerCaller
  <2> QED BY <2>1, <2>2, <2>3, CloseLedger, FinishKeeps
<1> QED BY <1>1, <1>2, <1>3, <1>6, <1>7, <1>8, <1>9, <1>10, <1>11, <1>12,
           <1>13, <1>14, <1>15 DEF AllKinds, OwnKinds, Dr


-----------------------------------------------------------------------------
(* Callers.                                                                *)

\* Nothing is kept of a call that has not been made.
Unmade(k, t, c) ==
  /\ c \in Calls /\ t.answers[c] = <<>> /\ t.setups[c] = <<>>
  /\ c \notin t.completed
  /\ \A i \in DOMAIN t.work : t.work[i].kind # "Cancel_request" => t.work[i].call # c
  /\ \A i \in DOMAIN t.barriers : t.barriers[i].call # c
  /\ \A s \in DOMAIN t.requests : t.requests[s] # c
  /\ \A s \in DOMAIN t.subscription_drains : t.subscription_drains[s] # c
  /\ \A s \in DOMAIN t.handles : t.handles[s].drain # c /\ t.handles[s].waiter # c

LEMMA IdleUnmade ==
  ASSUME NEW k, NEW t, Ledger(k, t), NEW c \in Calls, k[c].kind = "idle"
  PROVE  Unmade(k, t, c)
<1>0. /\ WorkInv(k, t.work, t.barriers, t) /\ RequestInv(k, t)
      /\ BarrierInv(k, t.barriers, t) /\ DrainInv(k, t.work, t.barriers, t)
      /\ HandleInv(k, t.work, t) /\ IdleInv(k, t)
  BY DEF Ledger, LedgerOf
<1>1. t.answers[c] = <<>> /\ t.setups[c] = <<>> /\ c \notin t.completed
  BY <1>0 DEF IdleInv
<1>2. ASSUME NEW i \in DOMAIN t.work, t.work[i].kind # "Cancel_request"
      PROVE  t.work[i].call # c
  <2>1. t.work[i].kind \in AllKinds \cup OwnKinds
    BY <1>0, CommandTyped DEF WorkInv, Commands
  <2>2. k[t.work[i].call].kind \in AllKinds
    BY <1>0, <1>2, <2>1 DEF WorkInv, OwnKinds, AllKinds, Dr
  <2> QED BY <2>2 DEF AllKinds
<1>3. \A i \in DOMAIN t.barriers : t.barriers[i].call # c
  BY <1>0 DEF BarrierInv, Barriers, Dr
<1>4. \A s \in DOMAIN t.requests : t.requests[s] # c
  BY <1>0 DEF RequestInv
<1>5. \A s \in DOMAIN t.subscription_drains : t.subscription_drains[s] # c
  BY <1>0 DEF DrainInv, Dr
<1>6. c # None
  BY CallsAssumption
<1>7. \A s \in DOMAIN t.handles : t.handles[s].drain # c /\ t.handles[s].waiter # c
  BY <1>0, <1>6 DEF HandleInv, Dr
<1> QED BY <1>1, <1>2, <1>3, <1>4, <1>5, <1>7 DEF Unmade

\* The calls once c has been made.
MadeAs(k, k2, c, kind, sid) ==
  /\ \A d \in Calls : d # c => k2[d] = k[d]
  /\ k2[c].kind = kind /\ k2[c].sid = sid

\* What HandleInv says of the handles, and of every drain but c.
HandlesBut(k, w, t, c) ==
  /\ \A s \in DOMAIN t.handles :
       /\ t.handles[s].drain # None
            => /\ t.handles[s].drain \in Calls \ {c}
               /\ k[t.handles[s].drain].kind = Dr /\ k[t.handles[s].drain].sid = s
               /\ t.answers[t.handles[s].drain] = <<>>
       /\ t.handles[s].waiter # None
            => /\ t.handles[s].waiter \in Calls \ {c}
               /\ k[t.handles[s].waiter].kind = Dr /\ k[t.handles[s].waiter].sid = s
               /\ t.handles[s].waiter \notin t.completed
                    => /\ t.answers[t.handles[s].waiter] = <<>>
                       /\ t.handles[s].drain = t.handles[s].waiter
  /\ \A d \in Calls \ {c} : k[d].kind = Dr /\ k[d].sid \in t.subscriptions
       => /\ d \notin t.completed
          /\ t.answers[d] = <<>>
               => \/ t.handles[k[d].sid].waiter # None
                  \/ \E j \in DOMAIN w : w[j].kind = Dr /\ w[j].sid = k[d].sid

LEMMA MadeParts ==
  ASSUME NEW k, NEW t, Ledger(k, t), NEW c, Unmade(k, t, c), NEW k2,
         NEW kind \in AllKinds, NEW sid \in Nat, sid < t.state.next_sid,
         kind = Dr => sid \in DOMAIN t.handles, MadeAs(k, k2, c, kind, sid)
  PROVE  /\ WorkInv(k2, t.work, t.barriers, t) /\ RequestInv(k2, t)
         /\ BarrierInv(k2, t.barriers, t) /\ DrainInv(k2, t.work, t.barriers, t)
         /\ HandlesBut(k2, t.work, t, c) /\ SidInv(k2, t) /\ IdleInv(k2, t)
<1> DEFINE w == t.work
           b == t.barriers
<1>0. /\ WorkInv(k, w, b, t) /\ RequestInv(k, t)
      /\ BarrierInv(k, b, t) /\ DrainInv(k, w, b, t) /\ HandleInv(k, w, t)
      /\ SidInv(k, t) /\ IdleInv(k, t)
  BY DEF Ledger, LedgerOf
<1>1. /\ c \in Calls /\ k2[c].kind # "idle"
      /\ \A d \in Calls : d # c => k2[d] = k[d]
  BY DEF MadeAs, Unmade, AllKinds
<1>2. \A i \in DOMAIN w : /\ w[i].call \in Calls
                          /\ w[i].kind # "Cancel_request" => k2[w[i].call] = k[w[i].call]
  BY <1>0, <1>1, CommandTyped DEF WorkInv, Unmade
<1>3. \A i \in DOMAIN b : b[i].call \in Calls /\ k2[b[i].call] = k[b[i].call]
  BY <1>0, <1>1, BarrierTyped DEF BarrierInv, Unmade
<1>4. WorkInv(k2, w, b, t)
  <2>1. ASSUME NEW i \in DOMAIN w
        PROVE  /\ w[i].kind \in AllKinds => k2[w[i].call].kind = w[i].kind
                                            /\ k2[w[i].call].sid = w[i].sid
               /\ w[i].kind \in {"Resume", "Cancel_drain"}
                    => k2[w[i].call].kind = Dr /\ k2[w[i].call].sid = w[i].sid
    <3>1. w[i].kind \in AllKinds \cup {"Resume", "Cancel_drain"}
            => k2[w[i].call] = k[w[i].call]
      BY <1>2 DEF AllKinds
    <3> QED BY <1>0, <3>1 DEF WorkInv
  <2> HIDE DEF w, b
  <2> QED BY <1>0, <2>1, SMTT(60) DEF WorkInv
<1>5. RequestInv(k2, t)
  BY <1>0, <1>1 DEF RequestInv, Unmade
<1>6. BarrierInv(k2, b, t)
  <2> HIDE DEF b
  <2> QED BY <1>0, <1>3 DEF BarrierInv
<1>7. \A d \in Calls : d # c => (Armed(k2, t, d) <=> Armed(k, t, d))
  BY <1>1 DEF Armed
<1>8. DrainInv(k2, w, b, t)
  <2>1. \A i \in DOMAIN b : b[i].call # c
    BY DEF Unmade
  <2>2. \A i \in DOMAIN w : w[i].kind = "Resume" => w[i].call # c
    BY DEF Unmade
  <2>3. \A s \in DOMAIN t.subscription_drains : t.subscription_drains[s] # c
    BY DEF Unmade
  <2> HIDE DEF w, b
  <2> QED BY <1>0, <1>1, <1>2, <1>3, <1>7, <2>1, <2>2, <2>3 DEF DrainInv
<1>9. HandlesBut(k2, w, t, c)
  <2>1. \A s \in DOMAIN t.handles : t.handles[s].drain # c /\ t.handles[s].waiter # c
    BY DEF Unmade
  <2> HIDE DEF w
  <2> QED BY <1>0, <1>1, <2>1, SMTT(60) DEF HandleInv, HandlesBut
<1>10. SidInv(k2, t)
  BY <1>0, <1>1 DEF SidInv, MadeAs
<1>11. IdleInv(k2, t)
  BY <1>0, <1>1 DEF IdleInv
<1> QED BY <1>4, <1>5, <1>6, <1>8, <1>9, <1>10, <1>11

LEMMA MadeKeeps ==
  ASSUME NEW k, NEW t, Ledger(k, t), NEW c, Unmade(k, t, c), NEW k2,
         NEW kind \in AllKinds \ {Dr}, NEW sid \in Nat, sid < t.state.next_sid,
         MadeAs(k, k2, c, kind, sid)
  PROVE  Ledger(k2, t) /\ Caller(k2, t, c, kind)
<1>1. /\ WorkInv(k2, t.work, t.barriers, t) /\ RequestInv(k2, t)
      /\ BarrierInv(k2, t.barriers, t) /\ DrainInv(k2, t.work, t.barriers, t)
      /\ HandlesBut(k2, t.work, t, c) /\ SidInv(k2, t) /\ IdleInv(k2, t)
  BY MadeParts
<1>2. c \in Calls /\ k2[c].kind # Dr /\ k2[c].kind # "idle"
  BY DEF MadeAs, Unmade, AllKinds
<1>3. HandleInv(k2, t.work, t)
  BY <1>1, <1>2 DEF HandleInv, HandlesBut
<1>4. Ledger(k2, t)
  BY <1>1, <1>3 DEF Ledger, LedgerOf
<1>5. Caller(k2, t, c, kind)
  <2>1. \A i \in DOMAIN t.work : t.work[i].kind \in AllKinds => t.work[i].call # c
    BY DEF Unmade, AllKinds
  <2> QED BY <1>2, <2>1 DEF Caller, InHand, Open, Unmade, MadeAs
<1> QED BY <1>4, <1>5

\* A command at the end of the queue.
AppendedAs(w, e, x) ==
  /\ x \in Seq(Commands) /\ Len(w) + 1 \notin DOMAIN w /\ x[Len(w) + 1] = e
  /\ DOMAIN x = DOMAIN w \cup {Len(w) + 1}
  /\ 1..(Len(w) + 1) - 1 = DOMAIN w
  /\ \A i \in DOMAIN w : x[i] = w[i] /\ 1..i - 1 \subseteq DOMAIN w

LEMMA AppendedIs ==
  ASSUME NEW w \in Seq(Commands), NEW e \in Commands, NEW x, x = Append(w, e)
  PROVE  AppendedAs(w, e, x)
BY DEF AppendedAs

Appendable(k, t, e) ==
  /\ e \in Commands /\ e.kind \notin {Dr, "Resume"}
  /\ e.kind \in AllKinds => Caller(k, t, e.call, e.kind) /\ k[e.call].sid = e.sid
  /\ e.kind = "Cancel_drain"
       => k[e.call].kind = Dr /\ k[e.call].sid = e.sid /\ t.answers[e.call] = <<>>

\* What WorkInv says of one command but its order with a cancelled drain.
Served(k, b, t, x, i) ==
  /\ x[i].kind \in AllKinds => k[x[i].call].kind = x[i].kind
                               /\ k[x[i].call].sid = x[i].sid
  /\ x[i].kind \in {"Resume", "Cancel_drain"}
       => k[x[i].call].kind = Dr /\ k[x[i].call].sid = x[i].sid
  /\ x[i].kind \in AllKinds \ {Dr}
       => t.answers[x[i].call] = <<>> /\ t.setups[x[i].call] = <<>>
  /\ x[i].kind = "Request"
       => \A s \in DOMAIN t.requests : t.requests[s] # x[i].call
  /\ x[i].kind = Dr /\ x[i].sid \in t.subscriptions
       => t.handles[x[i].sid].drain = x[i].call
  /\ \A j \in DOMAIN b : x[i].kind \in Barriers /\ b[j].kind \in Barriers
       => x[i].call # b[j].call

\* The command of a drain that was cancelled is armed or comes first.
CancelsArmed(t, x) ==
  \A i \in DOMAIN x :
    x[i].kind = "Cancel_drain" /\ x[i].sid \in t.subscriptions
      => \/ t.handles[x[i].sid].waiter # None
         \/ \E j \in 1..i - 1 : x[j].kind = Dr /\ x[j].sid = x[i].sid

OneEach(x) ==
  \A i, j \in DOMAIN x :
    i # j /\ x[i].kind \in AllKinds /\ x[j].kind \in AllKinds => x[i].call # x[j].call

LEMMA WorkParts ==
  ASSUME NEW k, NEW x \in Seq(Commands), NEW b, NEW t, CancelsArmed(t, x), OneEach(x),
         \A i \in DOMAIN x : Served(k, b, t, x, i)
  PROVE  WorkInv(k, x, b, t)
BY DEF WorkInv, Served, CancelsArmed, OneEach

LEMMA AppendedKeeps ==
  ASSUME NEW k, NEW w, NEW b, NEW t, LedgerOf(k, w, b, t), NEW e,
         w = t.work, b = t.barriers, Appendable(k, t, e), NEW x, x = Append(w, e)
  PROVE  LedgerOf(k, x, b, t)
<1> DEFINE n == Len(w) + 1
<1>1. WorkInv(k, w, b, t) /\ w \in Seq(Commands) /\ e \in Commands /\ e.call \in Calls
  BY DEF LedgerOf, WorkInv, Appendable, Commands
<1>2. AppendedAs(w, e, x)
  BY <1>1, AppendedIs
<1>3. /\ x \in Seq(Commands) /\ x[n] = e
      /\ \A i \in DOMAIN x : i = n \/ i \in DOMAIN w
      /\ \A i \in DOMAIN w : i \in DOMAIN x /\ i # n /\ x[i] = w[i]
                             /\ \A j \in 1..i - 1 : x[j] = w[j]
  BY <1>2 DEF AppendedAs
<1>4. e.kind \in AllKinds \/ e.kind = "Cancel_drain" \/ e.kind = "Cancel_request"
  BY <1>1 DEF Appendable, Commands, OwnKinds
<1>5. WorkInv(k, x, b, t)
  <2>1. ASSUME NEW i \in DOMAIN x
        PROVE  Served(k, b, t, x, i)
    <3>1. CASE i \in DOMAIN w
      BY <1>1, <1>3, <3>1, SMTT(30) DEF WorkInv, Served
    <3>2. CASE i = n
      <4>1. x[i] = e
        BY <1>3, <3>2
      <4>2. e.kind # Dr /\ e.kind # "Resume"
        BY DEF Appendable
      <4>3. e.kind \in AllKinds =>
              /\ k[e.call].kind = e.kind /\ k[e.call].sid = e.sid
              /\ t.answers[e.call] = <<>> /\ t.setups[e.call] = <<>>
              /\ \A s \in DOMAIN t.requests : t.requests[s] # e.call
              /\ \A j \in DOMAIN b : b[j].kind \in Barriers => b[j].call # e.call
        BY DEF Appendable, Caller, InHand, Open
      <4>4. e.kind = "Cancel_drain" => k[e.call].kind = Dr /\ k[e.call].sid = e.sid
        BY DEF Appendable
      <4>5. "Request" \in AllKinds /\ Barriers \subseteq AllKinds
            /\ "Cancel_drain" \notin AllKinds
        BY DEF AllKinds, Barriers
      <4> QED BY <4>1, <4>2, <4>3, <4>4, <4>5 DEF Served
    <3> QED BY <1>3, <3>1, <3>2
  <2>2. ASSUME NEW i \in DOMAIN x, x[i].kind = "Cancel_drain",
               x[i].sid \in t.subscriptions, t.handles[x[i].sid].waiter = None
        PROVE  \E j \in 1..i - 1 : x[j].kind = Dr /\ x[j].sid = x[i].sid
    <3>1. CASE i \in DOMAIN w
      <4>1. PICK j \in 1..i - 1 : w[j].kind = Dr /\ w[j].sid = w[i].sid
        BY <1>1, <1>3, <2>2, <3>1 DEF WorkInv
      <4> QED BY <1>3, <3>1, <4>1
    <3>2. CASE i = n
      <4>1. x[i] = e
        BY <1>3, <3>2
      <4>2. /\ k[e.call].kind = Dr /\ k[e.call].sid = e.sid
            /\ t.answers[e.call] = <<>>
        BY <2>2, <4>1 DEF Appendable
      <4>3. PICK j \in DOMAIN w : w[j].kind = Dr /\ w[j].sid = e.sid
        BY <1>1, <2>2, <4>1, <4>2 DEF LedgerOf, HandleInv
      <4>4. j \in 1..i - 1 /\ x[j] = w[j]
        BY <1>2, <1>3, <3>2, <4>3 DEF AppendedAs
      <4> QED BY <4>1, <4>3, <4>4
    <3> QED BY <1>3, <3>1, <3>2
  <2>3. ASSUME NEW i \in DOMAIN x, NEW j \in DOMAIN x, i # j,
               x[i].kind \in AllKinds, x[j].kind \in AllKinds
        PROVE  x[i].call # x[j].call
    <3>1. e.kind \in AllKinds => \A l \in DOMAIN w : w[l].kind \in AllKinds
                                                     => w[l].call # e.call
      BY DEF Appendable, Caller, InHand, Open
    <3> QED BY <1>1, <1>3, <2>3, <3>1 DEF WorkInv
  <2> HIDE DEF n
  <2>4. CancelsArmed(t, x) /\ OneEach(x)
    BY <2>2, <2>3 DEF CancelsArmed, OneEach
  <2> QED BY <1>3, <2>1, <2>4, WorkParts
<1>6. DrainInv(k, x, b, t)
  <2>1. \A i \in DOMAIN x : x[i].kind = "Resume" => i \in DOMAIN w /\ x[i] = w[i]
    BY <1>3 DEF Appendable
  <2> QED BY <2>1 DEF LedgerOf, DrainInv
<1>7. HandleInv(k, x, t)
  <2>1. HandleInv(k, w, t)
    BY DEF LedgerOf
  <2>2. \A s : (\E j \in DOMAIN w : w[j].kind = Dr /\ w[j].sid = s)
               => \E j \in DOMAIN x : x[j].kind = Dr /\ x[j].sid = s
    BY <1>3
  <2> QED BY <2>1, <2>2 DEF HandleInv
<1> QED BY <1>5, <1>6, <1>7, SMTT(30) DEF LedgerOf

LEMMA AppendLedger ==
  ASSUME NEW k, NEW t, Ledger(k, t), NEW e, Appendable(k, t, e),
         NEW u, u = [t EXCEPT !.work = Append(@, e)]
  PROVE  Ledger(k, u)
<1> DEFINE x == Append(t.work, e)
<1>1. LedgerOf(k, x, t.barriers, t)
  BY AppendedKeeps DEF Ledger
<1>2. SameFields(t, u) /\ u.work = x /\ u.barriers = t.barriers
  BY LedgerShape DEF SameFields, Shape
<1> HIDE DEF x
<1>3. LedgerOf(k, x, t.barriers, u)
  BY <1>1, <1>2, SameLedger, Zenon
<1> QED BY <1>2, <1>3 DEF Ledger

\* A drain that is refused, and one that is queued.
LEMMA RefusedDrain ==
  ASSUME NEW k, NEW t, Ledger(k, t), NEW c, Unmade(k, t, c), NEW k2,
         NEW sid \in t.subscriptions, MadeAs(k, k2, c, Dr, sid),
         NEW u, u = fail_waiter(t, c)
  PROVE  Ledger(k2, u)
<1> DEFINE w == t.work
           b == t.barriers
<1>0. /\ Shape(t) /\ Promises(t) /\ sid \in Nat /\ sid < t.state.next_sid
      /\ sid \in DOMAIN t.handles
  BY DEF Ledger, LedgerOf, SidInv
<1>1. /\ WorkInv(k2, w, b, t) /\ RequestInv(k2, t) /\ BarrierInv(k2, b, t)
      /\ DrainInv(k2, w, b, t) /\ HandlesBut(k2, w, t, c)
      /\ SidInv(k2, t) /\ IdleInv(k2, t)
  <2>1. Dr \in AllKinds
    BY DEF Dr, AllKinds
  <2> QED BY <1>0, <2>1, MadeParts
<1>2. c \in Calls /\ t.answers[c] = <<>> /\ k2[c].kind = Dr /\ c \notin t.completed
  BY DEF Unmade, MadeAs
<1>3. Shape(u) /\ Promises(u) /\ u = [t EXCEPT !.answers[c] = << "Error" >>]
  BY <1>0, <1>2, AreResults, Resolved DEF fail_waiter
<1>4. /\ u.answers = [t.answers EXCEPT ![c] = << "Error" >>]
      /\ u.work = t.work /\ u.barriers = t.barriers /\ u.requests = t.requests
      /\ u.setups = t.setups /\ u.state = t.state
      /\ u.completed = t.completed /\ u.subscriptions = t.subscriptions
      /\ u.subscription_drains = t.subscription_drains /\ u.handles = t.handles
  BY <1>0, <1>3 DEF Shape
<1>5. u.answers[c] # <<>> /\ \A d \in Calls : d # c => u.answers[d] = t.answers[d]
  BY <1>0, <1>2, <1>4 DEF Promises
<1>6. WorkInv(k2, w, b, u)
  <2>1. ASSUME NEW i \in DOMAIN w, w[i].kind \in AllKinds \ {Dr}
        PROVE  u.answers[w[i].call] = <<>>
    <3>1. w[i].call \in Calls
      BY <1>1, CommandTyped DEF WorkInv
    <3>2. w[i].call # c
      BY <2>1 DEF Unmade, AllKinds
    <3> QED BY <1>1, <1>5, <2>1, <3>1, <3>2 DEF WorkInv
  <2> HIDE DEF w, b
  <2> QED BY <1>1, <1>4, <2>1, SMTT(60) DEF WorkInv
<1>7. RequestInv(k2, u)
  BY <1>1, <1>4, <1>5 DEF RequestInv, Unmade
<1>8. BarrierInv(k2, b, u)
  <2>1. ASSUME NEW i \in DOMAIN b
        PROVE  u.answers[b[i].call] = t.answers[b[i].call]
    <3>1. b[i].call \in Calls /\ b[i].call # c
      BY <1>1, BarrierTyped DEF BarrierInv, Unmade
    <3> QED BY <1>5, <3>1
  <2> HIDE DEF b
  <2> QED BY <1>1, <1>4, <2>1 DEF BarrierInv
<1>9. DrainInv(k2, w, b, u)
  <2>1. \A d : Armed(k2, u, d) <=> Armed(k2, t, d)
    BY <1>4 DEF Armed
  <2> HIDE DEF w, b
  <2> QED BY <1>1, <1>4, <2>1 DEF DrainInv
<1>10. HandleInv(k2, w, u)
  <2> HIDE DEF w
  <2> QED BY <1>1, <1>2, <1>4, <1>5, SMTT(60) DEF HandlesBut, HandleInv
<1>11. SidInv(k2, u)
  BY <1>1, <1>4 DEF SidInv
<1>12. IdleInv(k2, u)
  BY <1>1, <1>2, <1>4, <1>5 DEF IdleInv, Dr
<1> QED BY <1>3, <1>4, <1>6, <1>7, <1>8, <1>9, <1>10, <1>11, <1>12
        DEF Ledger, LedgerOf

QueuedAs(t, u, c, sid, x) ==
  /\ Shape(u) /\ u.state = t.state
  /\ u.work = x /\ u.barriers = t.barriers /\ u.completed = t.completed
  /\ u.requests = t.requests /\ u.subscriptions = t.subscriptions
  /\ u.answers = t.answers /\ u.setups = t.setups
  /\ u.subscription_drains = t.subscription_drains
  /\ DOMAIN u.handles = DOMAIN t.handles
  /\ \A s \in DOMAIN t.handles : u.handles[s].waiter = t.handles[s].waiter
  /\ \A s \in DOMAIN t.handles : s # sid => u.handles[s] = t.handles[s]
  /\ u.handles[sid].drain = c

LEMMA QueuedIs ==
  ASSUME NEW t, Shape(t), NEW c, NEW sid \in DOMAIN t.handles, NEW e,
         NEW u, u = [t EXCEPT !.work = Append(@, e), !.handles[sid].drain = c]
  PROVE  QueuedAs(t, u, c, sid, Append(t.work, e))
BY DEF QueuedAs, Shape, CoreShape

LEMMA QueuedDrain ==
  ASSUME NEW k, NEW t, Ledger(k, t), NEW c, Unmade(k, t, c), NEW k2,
         NEW sid \in t.subscriptions, t.handles[sid].drain = None,
         MadeAs(k, k2, c, Dr, sid), NEW e, e = Command(Dr, c, sid),
         NEW u, QueuedAs(t, u, c, sid, Append(t.work, e))
  PROVE  Ledger(k2, u)
<1> DEFINE w == t.work
           b == t.barriers
           n == Len(w) + 1
           x == Append(w, e)
<1>0. /\ Shape(t) /\ Promises(t) /\ sid \in Nat /\ sid < t.state.next_sid
      /\ sid \in DOMAIN t.handles
  BY DEF Ledger, LedgerOf, SidInv
<1>a. Dr \in AllKinds /\ Dr \notin {"Resume", "Cancel_drain", "Request", "idle"}
      /\ Dr \notin Barriers
  BY DEF Dr, AllKinds, Barriers
<1>1. /\ WorkInv(k2, w, b, t) /\ RequestInv(k2, t) /\ BarrierInv(k2, b, t)
      /\ DrainInv(k2, w, b, t) /\ HandlesBut(k2, w, t, c)
      /\ SidInv(k2, t) /\ IdleInv(k2, t)
  BY <1>0, <1>a, MadeParts
<1>2. /\ c \in Calls /\ t.answers[c] = <<>> /\ c \notin t.completed
      /\ k2[c].kind = Dr /\ k2[c].sid = sid /\ c # None
  BY CallsAssumption DEF Unmade, MadeAs
<1>3. e \in Commands /\ e.kind = Dr /\ e.call = c /\ e.sid = sid
  BY <1>0, <1>2, <1>a DEF Command, Commands
<1>4. AppendedAs(w, e, x)
  BY <1>1, <1>3, AppendedIs DEF WorkInv
<1> HIDE DEF x
<1>5. /\ x \in Seq(Commands) /\ x[n] = e /\ n \in DOMAIN x
      /\ \A i \in DOMAIN x : i = n \/ i \in DOMAIN w
      /\ \A i \in DOMAIN w : i \in DOMAIN x /\ i # n /\ x[i] = w[i]
                             /\ \A j \in 1..i - 1 : x[j] = w[j]
  BY <1>4 DEF AppendedAs
<1>6. t.handles[sid].waiter = None
  <2> SUFFICES ASSUME t.handles[sid].waiter # None PROVE FALSE
    OBVIOUS
  <2> DEFINE d == t.handles[sid].waiter
  <2>1. d \in Calls \ {c} /\ k2[d].kind = Dr /\ k2[d].sid = sid
        /\ (d \notin t.completed => t.handles[sid].drain = d)
    BY <1>0, <1>1 DEF HandlesBut
  <2> QED BY <1>1, <2>1 DEF HandlesBut
<1>7. /\ Shape(u) /\ u.state = t.state /\ u.work = x /\ u.barriers = b
      /\ u.completed = t.completed /\ u.requests = t.requests
      /\ u.subscriptions = t.subscriptions /\ u.answers = t.answers
      /\ u.setups = t.setups /\ u.subscription_drains = t.subscription_drains
      /\ DOMAIN u.handles = DOMAIN t.handles /\ u.handles[sid].drain = c
      /\ \A s \in DOMAIN t.handles : u.handles[s].waiter = t.handles[s].waiter
      /\ \A s \in DOMAIN t.handles : s # sid => u.handles[s] = t.handles[s]
  BY DEF QueuedAs, x
<1>8. Promises(u) /\ RequestInv(k2, u) /\ BarrierInv(k2, b, u) /\ SidInv(k2, u)
      /\ IdleInv(k2, u)
  <2> HIDE DEF b
  <2> QED BY <1>0, <1>1, <1>7 DEF Promises, RequestInv, BarrierInv, SidInv, IdleInv
<1>9. \A d \in Calls : Armed(k2, u, d) <=> Armed(k2, t, d)
  BY <1>7 DEF Armed
<1>10. DrainInv(k2, x, b, u)
  <2>1. \A i \in DOMAIN x : x[i].kind = "Resume" => i \in DOMAIN w /\ x[i] = w[i]
    BY <1>3, <1>5, <1>a
  <2>2. \A i \in DOMAIN w : w[i].call \in Calls
    BY <1>1, CommandTyped DEF WorkInv
  <2>3. \A i \in DOMAIN b : b[i].call \in Calls
    BY <1>1, BarrierTyped DEF BarrierInv
  <2> HIDE DEF w, b, n
  <2> QED BY <1>1, <1>7, <1>9, <2>1, <2>2, <2>3 DEF DrainInv
<1>11. \A s \in t.subscriptions : s # sid => u.handles[s] = t.handles[s]
  BY <1>1, <1>7 DEF SidInv
<1>12. WorkInv(k2, x, b, u)
  <2>1. ASSUME NEW i \in DOMAIN w
        PROVE  /\ w[i].call \in Calls
               /\ w[i].kind = Dr /\ w[i].sid \in t.subscriptions
                    => w[i].sid # sid /\ u.handles[w[i].sid].drain = w[i].call
    <3>1. w[i].call \in Calls /\ w[i].call # None
      BY <1>1, CommandTyped, CallsAssumption DEF WorkInv
    <3>2. w[i].kind = Dr /\ w[i].sid \in t.subscriptions
            => t.handles[w[i].sid].drain = w[i].call
      BY <1>1 DEF WorkInv
    <3> QED BY <1>11, <3>1, <3>2
  <2>2. ASSUME NEW i \in DOMAIN x
        PROVE  /\ x[i].kind \in AllKinds => k2[x[i].call].kind = x[i].kind
                                            /\ k2[x[i].call].sid = x[i].sid
               /\ x[i].kind \in {"Resume", "Cancel_drain"}
                    => k2[x[i].call].kind = Dr /\ k2[x[i].call].sid = x[i].sid
               /\ x[i].kind \in AllKinds \ {Dr}
                    => u.answers[x[i].call] = <<>> /\ u.setups[x[i].call] = <<>>
               /\ x[i].kind = "Request"
                    => \A s \in DOMAIN u.requests : u.requests[s] # x[i].call
               /\ x[i].kind = Dr /\ x[i].sid \in u.subscriptions
                    => u.handles[x[i].sid].drain = x[i].call
               /\ \A j \in DOMAIN b : x[i].kind \in Barriers /\ b[j].kind \in Barriers
                    => x[i].call # b[j].call
    <3> HIDE DEF w, b, n
    <3>1. CASE i \in DOMAIN w
      BY <1>1, <1>5, <1>7, <2>1, <3>1 DEF WorkInv
    <3>2. CASE i = n
      <4>1. x[i] = e
        BY <1>5, <3>2
      <4> QED BY <1>2, <1>3, <1>7, <1>a, <4>1
    <3> QED BY <1>5, <3>1, <3>2
  <2>3. ASSUME NEW i \in DOMAIN x, x[i].kind = "Cancel_drain",
               x[i].sid \in u.subscriptions, u.handles[x[i].sid].waiter = None
        PROVE  \E j \in 1..i - 1 : x[j].kind = Dr /\ x[j].sid = x[i].sid
    <3>1. i \in DOMAIN w /\ x[i] = w[i]
      BY <1>3, <1>5, <1>a, <2>3
    <3>2. x[i].sid \in t.subscriptions /\ t.handles[x[i].sid].waiter = None
      BY <1>1, <1>7, <2>3 DEF SidInv
    <3>3. /\ w[i].kind = "Cancel_drain" /\ w[i].sid \in t.subscriptions
          /\ t.handles[w[i].sid].waiter = None
      BY <2>3, <3>1, <3>2
    <3>4. PICK j \in 1..i - 1 : w[j].kind = Dr /\ w[j].sid = w[i].sid
      <4> HIDE DEF w, b
      <4> QED BY <1>1, <3>1, <3>3 DEF WorkInv
    <3> QED BY <1>5, <3>1, <3>4
  <2>4. ASSUME NEW i \in DOMAIN x, NEW j \in DOMAIN x, i # j,
               x[i].kind \in AllKinds, x[j].kind \in AllKinds
        PROVE  x[i].call # x[j].call
    <3>1. \A l \in DOMAIN w : w[l].kind \in AllKinds => w[l].call # e.call
      BY <1>3 DEF Unmade, AllKinds
    <3> HIDE DEF w, b, n
    <3> QED BY <1>1, <1>5, <2>4, <3>1 DEF WorkInv
  <2>5. x \in Seq(Commands) /\ DOMAIN x \subseteq Nat
    BY <1>5
  <2> HIDE DEF w, b, n
  <2> QED BY <2>2, <2>3, <2>4, <2>5, SMTT(60) DEF WorkInv
<1>13. HandleInv(k2, x, u)
  <2>1. ASSUME NEW s \in DOMAIN u.handles
        PROVE  /\ u.handles[s].drain # None
                    => /\ u.handles[s].drain \in Calls
                       /\ k2[u.handles[s].drain].kind = Dr
                       /\ k2[u.handles[s].drain].sid = s
                       /\ u.answers[u.handles[s].drain] = <<>>
               /\ u.handles[s].waiter # None
                    => /\ u.handles[s].waiter \in Calls
                       /\ k2[u.handles[s].waiter].kind = Dr
                       /\ k2[u.handles[s].waiter].sid = s
                       /\ u.handles[s].waiter \notin u.completed
                            => /\ u.answers[u.handles[s].waiter] = <<>>
                               /\ u.handles[s].drain = u.handles[s].waiter
    <3>1. CASE s = sid
      BY <1>0, <1>2, <1>6, <1>7, <3>1
    <3>2. CASE s # sid
      BY <1>1, <1>7, <2>1, <3>2 DEF HandlesBut
    <3> QED BY <3>1, <3>2
  <2>2. ASSUME NEW d \in Calls, k2[d].kind = Dr, k2[d].sid \in u.subscriptions
        PROVE  /\ d \notin u.completed
               /\ u.answers[d] = <<>>
                    => \/ u.handles[k2[d].sid].waiter # None
                       \/ \E j \in DOMAIN x : x[j].kind = Dr /\ x[j].sid = k2[d].sid
    <3>1. CASE d = c
      BY <1>2, <1>3, <1>5, <1>7, <3>1
    <3>2. CASE d # c
      <4>1. k2[d].sid \in DOMAIN t.handles
        BY <1>1, <1>7, <2>2 DEF SidInv
      <4> QED BY <1>1, <1>5, <1>7, <2>2, <3>2, <4>1 DEF HandlesBut
    <3> QED BY <3>1, <3>2
  <2> QED BY <2>1, <2>2 DEF HandleInv
<1> QED BY <1>7, <1>8, <1>10, <1>12, <1>13 DEF Ledger, LedgerOf


-----------------------------------------------------------------------------
(* The theorem.                                                            *)

CallRecords == [kind : AllKinds \cup {"idle"}, sid : Nat, cancelled : BOOLEAN]

Inv ==
  /\ call \in [Calls -> CallRecords]
  /\ s2c \in Seq(Received)
  /\ Ledger(call, conn)

\* A call that has not been made.
LEMMA IdleCall ==
  ASSUME Inv, NEW c \in Calls, call[c] = Idle
  PROVE  Unmade(call, conn, c) /\ 0 < conn.state.next_sid
<1>1. call[c].kind = "idle" /\ call[c].sid = 0
  BY DEF Idle
<1>2. Unmade(call, conn, c)
  BY <1>1, IdleUnmade DEF Inv
<1>3. 0 < conn.state.next_sid
  BY <1>1 DEF Inv, Ledger, LedgerOf, SidInv
<1> QED BY <1>2, <1>3

\* A call that is refused because the queue is full.
LEMMA RefusedKeeps ==
  ASSUME NEW k, NEW t, Ledger(k, t), NEW c, NEW kind \in AllKinds \ {Dr},
         Caller(k, t, c, kind), NEW sid,
         NEW u, u = IF kind = "Request" THEN resolve_setup(t, c, "Error")
                    ELSE fail_waiter(IF kind = "Unsubscribe"
                                     THEN close_subscription(t, sid) ELSE t, c)
  PROVE  Ledger(k, u)
<1> DEFINE x == close_subscription(t, sid)
<1>1. Ledger(k, x) /\ DrainsFrame(k, t, x)
  BY ClosingLedger
<1>2. \/ u = resolve_setup(t, c, "Error") \/ u = fail_waiter(x, c)
      \/ u = fail_waiter(t, c)
  OBVIOUS
<1> HIDE DEF x
<1>3. Caller(k, x, c, kind)
  BY <1>1, ClosedCaller
<1>4. Ledger(k, fail_waiter(x, c)) /\ Ledger(k, fail_waiter(t, c))
  BY <1>1, <1>3, AnswerCaller
<1>5. Ledger(k, resolve_setup(t, c, "Error"))
  BY AreResults, SetupCaller
<1> QED BY <1>2, <1>4, <1>5

LEMMA IssueKeeps ==
  ASSUME Inv, NEW c \in Calls, NEW kind \in Kinds, NEW sid \in Nat,
         Issue(c, kind, sid)
  PROVE  Inv'
<1> DEFINE e == Command(kind, c, sid)
           r == [kind |-> kind, sid |-> sid, cancelled |-> FALSE]
           q == [conn EXCEPT !.work = Append(@, e)]
           qd == [q EXCEPT !.handles[sid].drain = c]
           refused == IF kind = "Request" THEN resolve_setup(conn, c, "Error")
                      ELSE fail_waiter(IF kind = "Unsubscribe"
                                       THEN close_subscription(conn, sid)
                                       ELSE conn, c)
<1>1. /\ call[c] = Idle /\ MayCall(kind, sid) /\ UNCHANGED s2c
      /\ call' = [call EXCEPT ![c] = r]
      /\ conn' = IF Full(kind) THEN refused ELSE IF kind = Dr THEN qd ELSE q
  BY DEF Issue, CallerFrame, Dr
<1>2. kind \in AllKinds /\ "idle" \notin AllKinds
  BY CallsAssumption DEF AllKinds
<1>3. Unmade(call, conn, c) /\ 0 < conn.state.next_sid /\ Ledger(call, conn)
  BY <1>1, IdleCall DEF Inv
<1>4. call' \in [Calls -> CallRecords] /\ MadeAs(call, call', c, kind, sid)
  BY <1>1, <1>2 DEF Inv, CallRecords, MadeAs
<1>5. sid < conn.state.next_sid
      /\ (kind = Dr => sid \in conn.subscriptions /\ conn.handles[sid].drain = None)
  BY <1>1, <1>3 DEF MayCall, OfHandle, Dr, Ledger, LedgerOf, SidInv
<1>6. Ledger(call', conn')
  <2>1. CASE kind # Dr
    <3>1. Ledger(call', conn) /\ Caller(call', conn, c, kind)
      BY <1>2, <1>3, <1>4, <1>5, <2>1, MadeKeeps
    <3>2. conn' = refused \/ conn' = q
      BY <1>1, <2>1
    <3>3. Appendable(call', conn, e)
      <4>1. /\ e \in Commands /\ e.kind = kind /\ e.call = c /\ e.sid = sid
            /\ call'[c].sid = sid
        BY <1>2, <1>4 DEF Command, Commands, MadeAs
      <4>2. kind \notin {Dr, "Resume", "Cancel_drain"}
        BY <1>2, <2>1 DEF AllKinds
      <4> QED BY <3>1, <4>1, <4>2 DEF Appendable
    <3> HIDE DEF e
    <3>4. Ledger(call', q)
      BY <3>1, <3>3, AppendLedger
    <3>5. Ledger(call', refused)
      BY <1>2, <2>1, <3>1, RefusedKeeps
    <3> HIDE DEF q, refused
    <3> QED BY <3>2, <3>4, <3>5
  <2>2. CASE kind = Dr
    <3>1. refused = fail_waiter(conn, c)
      BY <2>2 DEF Dr
    <3>2. Ledger(call', refused)
      BY <1>3, <1>4, <1>5, <2>2, <3>1, RefusedDrain
    <3>3. Shape(conn) /\ sid \in DOMAIN conn.handles
      BY <1>3, <1>5, <2>2 DEF Ledger, LedgerOf, SidInv
    <3>4. qd = [conn EXCEPT !.work = Append(@, e), !.handles[sid].drain = c]
      <4> HIDE DEF e
      <4> QED BY <3>3 DEF Shape
    <3>5. QueuedAs(conn, qd, c, sid, Append(conn.work, e))
      <4> HIDE DEF e, qd
      <4> QED BY <3>3, <3>4, QueuedIs, Zenon
    <3>6. e = Command(Dr, c, sid)
      BY <2>2
    <3> HIDE DEF e, q, qd, refused
    <3>7. Ledger(call', qd)
      <4>1. MadeAs(call, call', c, Dr, sid)
        BY <1>4, <2>2
      <4> QED BY <1>3, <1>5, <2>2, <3>5, <3>6, <4>1, QueuedDrain
    <3> QED BY <1>1, <2>2, <3>2, <3>7
  <2> QED BY <2>1, <2>2
<1> QED BY <1>1, <1>4, <1>6 DEF Inv

\* Marking a call as cancelled changes neither its kind nor its sid.
LEMMA SameCalls ==
  ASSUME NEW k, NEW k2, NEW w, NEW b, NEW t, LedgerOf(k, w, b, t),
         \A d \in Calls : k2[d].kind = k[d].kind /\ k2[d].sid = k[d].sid
  PROVE  LedgerOf(k2, w, b, t)
<1>0. /\ Shape(t) /\ Promises(t) /\ WorkInv(k, w, b, t) /\ RequestInv(k, t)
      /\ BarrierInv(k, b, t) /\ DrainInv(k, w, b, t) /\ HandleInv(k, w, t)
      /\ SidInv(k, t) /\ IdleInv(k, t)
  BY DEF LedgerOf
<1>1. \A i \in DOMAIN w : w[i].call \in Calls
  BY <1>0, CommandTyped DEF WorkInv
<1>2. \A i \in DOMAIN b : b[i].call \in Calls
  BY <1>0, BarrierTyped DEF BarrierInv
<1>3. WorkInv(k2, w, b, t)
  BY <1>0, <1>1, SMTT(60) DEF WorkInv
<1>4. RequestInv(k2, t) /\ BarrierInv(k2, b, t) /\ SidInv(k2, t) /\ IdleInv(k2, t)
  BY <1>0, <1>2 DEF RequestInv, BarrierInv, SidInv, IdleInv
<1>5. \A d \in Calls : Armed(k2, t, d) <=> Armed(k, t, d)
  BY DEF Armed
<1>6. DrainInv(k2, w, b, t)
  BY <1>0, <1>1, <1>2, <1>5 DEF DrainInv
<1>7. HandleInv(k2, w, t)
  BY <1>0, SMTT(60) DEF HandleInv
<1> QED BY <1>0, <1>3, <1>4, <1>6, <1>7 DEF LedgerOf

LEMMA CancelKeeps ==
  ASSUME Inv, NEW c \in Calls, Cancel(c)
  PROVE  Inv'
<1> DEFINE e1 == Command("Cancel_request", c, 0)
           e2 == Command("Cancel_drain", c, call[c].sid)
<1>1. /\ UNCHANGED s2c /\ call' = [call EXCEPT ![c].cancelled = TRUE]
      /\ \/ conn' = [conn EXCEPT !.work = Append(@, e1)]
         \/ /\ call[c].kind = Dr /\ conn.answers[c] = <<>>
            /\ conn' = [conn EXCEPT !.work = Append(@, e2)]
  BY DEF Cancel, CallerFrame, Dr
<1>2. /\ call' \in [Calls -> CallRecords]
      /\ \A d \in Calls : call'[d].kind = call[d].kind /\ call'[d].sid = call[d].sid
      /\ call[c].sid \in Nat
  BY <1>1 DEF Inv, CallRecords
<1>3. Ledger(call', conn)
  BY <1>2, SameCalls DEF Inv, Ledger
<1>4. Appendable(call', conn, e1)
  BY DEF Appendable, Command, Commands, OwnKinds, AllKinds, Dr
<1>5. call[c].kind = Dr /\ conn.answers[c] = <<>> => Appendable(call', conn, e2)
  <2>1. /\ e2 \in Commands /\ e2.kind = "Cancel_drain" /\ e2.call = c
        /\ e2.sid = call'[c].sid
    BY <1>2 DEF Command, Commands, OwnKinds
  <2>2. "Cancel_drain" \notin AllKinds \cup {Dr, "Resume"}
    BY DEF AllKinds, Dr
  <2> HIDE DEF e2
  <2> QED BY <1>2, <2>1, <2>2 DEF Appendable
<1> HIDE DEF e1, e2
<1>6. Ledger(call', conn')
  BY <1>1, <1>3, <1>4, <1>5, AppendLedger
<1> QED BY <1>1, <1>2, <1>6 DEF Inv


\* What the outside decides at the start of a turn is no part of the ledger.
LEMMA StartLedger ==
  ASSUME NEW k, Ledger(k, conn), NEW t \in Starts
  PROVE  /\ Ledger(k, t) /\ t.work = conn.work /\ t.barriers = conn.barriers
<1>1. PICK w, d, f : t = Start(w, d, f)
  BY DEF Starts
<1>2. Quiet(conn, t)
  BY <1>1, LedgerShape DEF Quiet, Shape, Start
<1> QED BY <1>2, QuietLedger DEF Quiet

LEMMA ReceivedOps ==
  /\ Pong \in Received
  /\ \A info \in Infos : [op |-> "INFO", info |-> info] \in Received
  /\ \A sid \in Nat : [op |-> "MSG", sid |-> sid] \in Received
BY DEF Received

LEMMA CommitKeeps ==
  ASSUME Inv, NEW t, Ledger(call, t), NEW rest \in Seq(Received), Commit(t, rest)
  PROVE  Inv'
<1>1. /\ call' = call /\ conn' = Settled(t)
      /\ \/ \E info \in Infos : s2c' = << [op |-> "INFO", info |-> info] >>
         \/ s2c' = <<>> \/ s2c' = rest
  BY Zenon DEF Commit
<1>2. s2c' \in Seq(Received)
  <2>1. \A r \in Received : << r >> \in Seq(Received)
    OBVIOUS
  <2>2. << >> \in Seq(Received)
    OBVIOUS
  <2> QED BY <1>1, <2>1, <2>2, ReceivedOps, Zenon
<1>3. Quiet(t, conn')
  BY <1>1, LedgerShape DEF Quiet, Shape, Settled
<1>4. Ledger(call, conn')
  BY <1>3, QuietLedger
<1> QED BY <1>1, <1>2, <1>4 DEF Inv

LEMMA CommandKeeps ==
  ASSUME Inv, OwnerCommand
  PROVE  Inv'
<1>1. PICK q \in Starts :
        Commit(EndTurn(apply_command([q EXCEPT !.work = Tail(@)],
                                     Head(conn.work))), s2c)
  BY Zenon DEF OwnerCommand
<1> DEFINE x == [q EXCEPT !.work = Tail(@)]
           y == apply_command(x, Head(conn.work))
           z == EndTurn(y)
<1>2. conn.work # <<>> /\ Ledger(call, conn) /\ s2c \in Seq(Received)
  BY DEF OwnerCommand, Inv
<1>3. Commit(z, s2c)
  BY <1>1
<1>4. conn.work \in Seq(Commands)
  BY <1>2 DEF Ledger, LedgerOf, WorkInv
<1>5. Tail(conn.work) = Rest(conn.work) /\ Head(conn.work) = conn.work[1]
  BY <1>2, <1>4, RestIs
<1>6. Ledger(call, q) /\ q.work = conn.work /\ q.barriers = conn.barriers
  BY <1>2, StartLedger
<1>7. SameFields(q, x) /\ x.work = Rest(conn.work) /\ x.barriers = q.barriers
  BY <1>5, <1>6, LedgerShape DEF SameFields, Shape
<1> HIDE DEF x
<1>8. LedgerOf(call, conn.work, x.barriers, x)
  BY <1>6, <1>7, SameLedger DEF Ledger
<1>9. Ledger(call, y)
  BY <1>2, <1>5, <1>7, <1>8, CommandLedger
<1> HIDE DEF y
<1>10. Ledger(call, z)
  BY <1>9, EndTurnLedger
<1> HIDE DEF z
<1> QED BY <1>2, <1>3, <1>10, CommitKeeps

LEMMA InputKeeps ==
  ASSUME Inv, NEW n \in 0..Len(s2c), NEW eof \in BOOLEAN, OwnerInput(n, eof)
  PROVE  Inv'
<1> DEFINE ops == SubSeq(s2c, 1, n)
           rest == SubSeq(s2c, n + 1, Len(s2c))
<1>1. Ledger(call, conn) /\ s2c \in Seq(Received)
  BY DEF Inv
<1>2. ops \in Seq(Received) /\ rest \in Seq(Received)
  BY <1>1
<1>3. PICK q \in Starts : Commit(EndTurn(apply_incoming(q, ops, eof)), rest)
  BY Zenon DEF OwnerInput
<1> HIDE DEF ops, rest
<1> DEFINE y == apply_incoming(q, ops, eof)
           z == EndTurn(y)
<1>4. Ledger(call, y)
  BY <1>1, <1>2, StartLedger, BatchLedger
<1>5. Commit(z, rest)
  BY <1>3
<1> HIDE DEF y
<1>6. Ledger(call, z)
  BY <1>4, EndTurnLedger
<1> HIDE DEF z
<1> QED BY <1>2, <1>5, <1>6, CommitKeeps

LEMMA ReadFailsKeeps ==
  ASSUME Inv, OwnerReadFails
  PROVE  Inv'
<1>1. PICK q \in Starts : Commit(EndTurn(Error(q, "Io")), s2c)
  BY Zenon DEF OwnerReadFails
<1> DEFINE y == Error(q, "Io")
           z == EndTurn(y)
<1>2. Ledger(call, conn) /\ s2c \in Seq(Received)
  BY DEF Inv
<1>3. Commit(z, s2c)
  BY <1>1
<1>4. Ledger(call, y)
  BY <1>2, StartLedger, ErrorLedger
<1> HIDE DEF y
<1>5. Ledger(call, z)
  BY <1>4, EndTurnLedger
<1> HIDE DEF z
<1> QED BY <1>2, <1>3, <1>5, CommitKeeps

LEMMA OrFinishLedger ==
  ASSUME NEW k, NEW t, Ledger(k, t), NEW u, u = OrFinish(t)
  PROVE  Ledger(k, u)
BY FinishKeeps DEF OrFinish

LEMMA ReconnectKeeps ==
  ASSUME Inv, OwnerReconnect
  PROVE  Inv'
<1>1. PICK q \in Starts :
        Commit(OrFinish(start_reconnect_attempt(
                          [q EXCEPT !.reconnect_deadline = FALSE])), s2c)
  BY Zenon DEF OwnerReconnect
<1> DEFINE x == [q EXCEPT !.reconnect_deadline = FALSE]
           y == start_reconnect_attempt(x)
           z == OrFinish(y)
<1>2. Ledger(call, conn) /\ s2c \in Seq(Received)
  BY DEF Inv
<1>3. Commit(z, s2c)
  BY <1>1
<1>4. Ledger(call, q)
  BY <1>2, StartLedger
<1>5. Quiet(q, x)
  BY <1>4, LedgerShape DEF Quiet, Shape
<1> HIDE DEF x
<1>6. Ledger(call, y)
  BY <1>4, <1>5, QuietLedger, RetryLedger
<1> HIDE DEF y
<1>7. Ledger(call, z)
  BY <1>6, OrFinishLedger
<1> HIDE DEF z
<1> QED BY <1>2, <1>3, <1>7, CommitKeeps

LEMMA HandshakeTimeoutKeeps ==
  ASSUME Inv, OwnerHandshakeTimeout
  PROVE  Inv'
<1> DEFINE y == retry_reconnect(conn, "Timeout")
           t == IF conn.reconnecting THEN OrFinish(y) ELSE finish(conn)
<1>1. Commit(t, s2c)
  BY DEF OwnerHandshakeTimeout
<1>2. Ledger(call, conn) /\ s2c \in Seq(Received)
  BY DEF Inv
<1>3. Ledger(call, y)
  BY <1>2, RetryLedger
<1> HIDE DEF y
<1>4. Ledger(call, OrFinish(y)) /\ Ledger(call, finish(conn))
  BY <1>2, <1>3, OrFinishLedger, FinishKeeps
<1>5. Ledger(call, t)
  BY <1>4
<1> HIDE DEF t
<1> QED BY <1>1, <1>2, <1>5, CommitKeeps

LEMMA TimerKeeps ==
  ASSUME Inv, NEW due, OwnerExpire(due)
  PROVE  Inv'
<1>1. PICK q \in Starts : Commit(expire(q, due), s2c)
  BY Zenon DEF OwnerExpire
<1> DEFINE z == expire(q, due)
<1>2. Ledger(call, conn) /\ s2c \in Seq(Received)
  BY DEF Inv
<1>3. Commit(z, s2c)
  BY <1>1
<1>4. Ledger(call, z)
  BY <1>2, StartLedger, ExpireLedger
<1> HIDE DEF z
<1> QED BY <1>2, <1>3, <1>4, CommitKeeps

LEMMA ReleasedKeeps ==
  ASSUME Inv, OwnerReleased
  PROVE  Inv'
<1> DEFINE t == finish(conn)
<1>1. Ledger(call, t) /\ s2c \in Seq(Received)
  BY FinishKeeps DEF Inv
<1>2. Commit(t, s2c)
  BY DEF OwnerReleased
<1> HIDE DEF t
<1> QED BY <1>1, <1>2, CommitKeeps

LEMMA ServerKeeps ==
  ASSUME Inv, ServerHandle \/ \E sid \in 1..MaxSid : ServerSend(sid)
  PROVE  Inv'
<1>1. UNCHANGED << conn, call >>
  BY DEF ServerHandle, ServerSend
<1>2. MaxSid \in Nat
  BY CallsAssumption, FS_CardinalityType DEF MaxSid
<1>3. \/ s2c' = s2c \/ s2c' = Append(s2c, Pong)
      \/ \E sid \in Nat : s2c' = Append(s2c, [op |-> "MSG", sid |-> sid])
  BY <1>2 DEF ServerHandle, ServerSend
<1>4. s2c' \in Seq(Received)
  <2>1. s2c \in Seq(Received)
    BY DEF Inv
  <2>2. \A r \in Received : Append(s2c, r) \in Seq(Received)
    BY <2>1
  <2> QED BY <1>3, <2>1, <2>2, ReceivedOps, Zenon
<1> QED BY <1>1, <1>4 DEF Inv

LEMMA InitInv ==
  ASSUME Init
  PROVE  Inv
<1> USE DEF Init
<1>1. call \in [Calls -> CallRecords] /\ s2c \in Seq(Received)
  BY DEF CallRecords, Idle, Received
<1>2. \A c \in Calls : call[c].kind = "idle" /\ call[c].sid = 0
  BY DEF Idle
<1>3. /\ conn.state = v /\ conn.work = <<>> /\ conn.barriers = <<>>
      /\ conn.completed = {} /\ conn.requests = <<>> /\ conn.handles = <<>>
      /\ conn.subscriptions = {} /\ conn.subscription_drains = <<>>
      /\ conn.answers = [c \in Calls |-> <<>>]
      /\ conn.setups = [c \in Calls |-> <<>>]
  BY DEF create
<1>4. Shape(conn)
  BY DEF create, Shape, CoreShape, v, Phases
<1>5. v.next_sid = 1
  BY DEF v
<1>6. Promises(conn)
  BY <1>3 DEF Promises
<1>7. /\ WorkInv(call, <<>>, <<>>, conn) /\ RequestInv(call, conn)
      /\ BarrierInv(call, <<>>, conn) /\ DrainInv(call, <<>>, <<>>, conn)
  BY <1>3 DEF WorkInv, RequestInv, BarrierInv, DrainInv
<1>8. HandleInv(call, <<>>, conn) /\ IdleInv(call, conn)
  BY <1>2, <1>3 DEF HandleInv, IdleInv, Dr
<1>9. SidInv(call, conn)
  BY <1>2, <1>3, <1>5 DEF SidInv, Dr
<1> QED BY <1>1, <1>3, <1>4, <1>6, <1>7, <1>8, <1>9 DEF Inv, Ledger, LedgerOf

LEMMA NextInv ==
  ASSUME Inv, [Next]_vars
  PROVE  Inv'
<1>1. CASE OwnerCommand
  BY <1>1, CommandKeeps
<1>2. CASE \E n \in 0..Len(s2c), eof \in BOOLEAN : OwnerInput(n, eof)
  BY <1>2, InputKeeps
<1>3. CASE OwnerReadFails
  BY <1>3, ReadFailsKeeps
<1>4. CASE OwnerReconnect
  BY <1>4, ReconnectKeeps
<1>5. CASE OwnerHandshakeTimeout
  BY <1>5, HandshakeTimeoutKeeps
<1>6. CASE \E due \in SUBSET Calls : OwnerExpire(due)
  BY <1>6, TimerKeeps
<1>7. CASE OwnerReleased
  BY <1>7, ReleasedKeeps
<1>8. CASE \E c \in Calls, kind \in Kinds, sid \in 0..MaxSid : Issue(c, kind, sid)
  <2>1. PICK c \in Calls, kind \in Kinds, sid \in 0..MaxSid : Issue(c, kind, sid)
    BY <1>8
  <2>2. MaxSid \in Nat
    BY CallsAssumption, FS_CardinalityType DEF MaxSid
  <2>3. sid \in Nat
    BY <2>2
  <2> QED BY <2>1, <2>3, IssueKeeps
<1>9. CASE \E c \in Calls : Cancel(c)
  BY <1>9, CancelKeeps
<1>10. CASE ServerHandle \/ \E sid \in 1..MaxSid : ServerSend(sid)
  BY <1>10, ServerKeeps
<1>11. CASE UNCHANGED vars
  BY <1>11 DEF vars, Inv
<1> QED BY <1>1, <1>2, <1>3, <1>4, <1>5, <1>6, <1>7, <1>8, <1>9, <1>10, <1>11
        DEF Next

\* No promise is resolved twice: of every command, timer, batch of input,
\* loss and cancellation in any order, at most one gives a call its result.
THEOREM AnsweredOnceHolds == Spec => []AnsweredOnce
<1>1. Inv => AnsweredOnce
  BY DEF Inv, Ledger, LedgerOf, Promises, AnsweredOnce
<1>2. Init => Inv
  BY InitInv
<1>3. Inv /\ [Next]_vars => Inv'
  BY NextInv
<1> QED BY <1>1, <1>2, <1>3, PTL DEF Spec

=============================================================================
