-------------------------------- MODULE Rounds --------------------------------
(***************************************************************************)
(* What a failover run promises: servers die one at a time, each between   *)
(* two rounds.  A server is killed only when both peers are in the same    *)
(* round and have validated it, and a peer enters the next round only      *)
(* after that kill.                                                        *)
(***************************************************************************)
EXTENDS Naturals

CONSTANT Peer

VARIABLES round,      \* peer -> failovers it has come through
          validated,  \* peer -> it has checked all there is to check in its round
          killed      \* servers killed

Init ==
  /\ round = [p \in Peer |-> 0]
  /\ validated \in [Peer -> BOOLEAN]
  /\ killed = 0

Validate(p) ==
  /\ validated' = [validated EXCEPT ![p] = TRUE]
  /\ UNCHANGED <<round, killed>>

Kill ==
  /\ \A p \in Peer : round[p] = killed /\ validated[p]
  /\ killed' = killed + 1
  /\ UNCHANGED <<round, validated>>

Enter(p) ==
  /\ round[p] < killed
  /\ round' = [round EXCEPT ![p] = @ + 1]
  /\ validated' = [validated EXCEPT ![p] = FALSE]
  /\ UNCHANGED killed

Next == Kill \/ \E p \in Peer : Validate(p) \/ Enter(p)

Spec == Init /\ [][Next]_<<round, validated, killed>>
=============================================================================
