--------------------------- MODULE EventDelivery ---------------------------
(***************************************************************************)
(* What the feed of contract events promises, without blocks, polls and    *)
(* rows: an event changes its booking after it was emitted, and once.      *)
(***************************************************************************)
EXTENDS Naturals

CONSTANT Events

VARIABLES
  emitted,  \* the events the contract has emitted
  times     \* how often each event has changed its booking

Init ==
  /\ emitted = {}
  /\ times = [e \in Events |-> 0]

Emit(batch) ==
  /\ emitted' = emitted \cup batch
  /\ UNCHANGED times

Deliver(e) ==
  /\ e \in emitted
  /\ times[e] = 0
  /\ times' = [times EXCEPT ![e] = 1]
  /\ UNCHANGED emitted

Next ==
  \/ \E batch \in SUBSET Events : Emit(batch)
  \/ \E e \in Events : Deliver(e)

Spec == Init /\ [][Next]_<<emitted, times>>
=============================================================================
