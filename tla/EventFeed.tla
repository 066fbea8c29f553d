----------------------------- MODULE EventFeed -----------------------------
(***************************************************************************)
(* How an event of the payments contract reaches the booking it is about.  *)
(*                                                                         *)
(* The PaymentsEventHandler lambda runs every ten minutes.  It asks the    *)
(* server for the highest block it has a contract_events row of, reads the *)
(* events of all later blocks from the chain and posts them one by one, in *)
(* the order of the log.  The server inserts the row of an event first and *)
(* dispatches it then: the booking is loaded, compared, a mismatch is      *)
(* mailed, and the status is overwritten.                                  *)
(*                                                                         *)
(* An event is its position in the log.  The log holds the events of one   *)
(* contract only, so the address dispatch checks is the right one.         *)
(***************************************************************************)
EXTENDS Integers, FiniteSets

CONSTANTS
  Events,      \* the positions of the log
  BlockOf,     \* the block of each event
  Handled,     \* the events dispatch has a DISPATCHERS entry for
  Lambdas,     \* the executions of the lambda there can be at once
  MaxFailures  \* bound: how often something fails

ASSUME EventAssumption ==
  /\ Events \subseteq Nat \ {0}
  /\ BlockOf \in [Events -> Nat \ {0}]
  /\ \A e, f \in Events : e <= f => BlockOf[e] <= BlockOf[f]
  /\ Handled \subseteq Events
  /\ MaxFailures \in Nat

VARIABLES
  head,     \* the number of the newest block
  rows,     \* the events contract_events has a row of
  lambda,   \* the executions of the lambda
  orphans,  \* dispatches the server still runs for a lambda that is gone
  times,    \* history: how often each event has set a status
  failures  \* history: how often something has failed

vars == <<head, rows, lambda, orphans, times, failures>>

NoEvent == 0

\* pc is the await the execution is at; `posted' is the event it waits for.
Lambda ==
  [ pc     : {"idle", "get_events", "post", "dispatch"},
    cursor : Nat,
    todo   : SUBSET Events,
    posted : Events \cup {NoEvent} ]

Idle == [pc |-> "idle", cursor |-> 0, todo |-> {}, posted |-> NoEvent]

Emitted == {e \in Events : BlockOf[e] <= head}

-----------------------------------------------------------------------------
\* A block is mined: its events are visible together.
Mine ==
  /\ \E e \in Events : BlockOf[e] > head
  /\ head' = head + 1
  /\ UNCHANGED <<rows, lambda, orphans, times, failures>>

\* getLatestBlockNumber: n is the highest block with a row.
IsLatestBlock(n) ==
  \/ rows = {} /\ n = 0
  \/ /\ \E e \in rows : n = BlockOf[e]
     /\ \A e \in rows : BlockOf[e] <= n

\* Mutant: with no row at all the answer is the number before the first block.
PollBelowZero(p) ==
  /\ lambda[p] = Idle
  /\ rows = {}
  /\ lambda' = [lambda EXCEPT ![p] = [Idle EXCEPT !.pc = "get_events", !.cursor = -1]]
  /\ UNCHANGED <<head, rows, orphans, times, failures>>

\* The lambda starts and GET /v2/events answers.
Poll(p) ==
  /\ lambda[p] = Idle
  /\ \E n \in {0} \cup {BlockOf[e] : e \in rows} :
       /\ IsLatestBlock(n)
       /\ lambda' = [lambda EXCEPT ![p] = [Idle EXCEPT !.pc = "get_events", !.cursor = n]]
  /\ UNCHANGED <<head, rows, orphans, times, failures>>

\* Mutant: the events of the block of the cursor are read again.
GetEventsFromCursor(p) ==
  /\ lambda[p].pc = "get_events"
  /\ lambda' = [lambda EXCEPT ![p].pc = "post",
                              ![p].todo = {e \in Emitted : BlockOf[e] >= lambda[p].cursor}]
  /\ UNCHANGED <<head, rows, orphans, times, failures>>

\* Mutant: one is added to the cursor twice.
GetEventsPastNextBlock(p) ==
  /\ lambda[p].pc = "get_events"
  /\ lambda' = [lambda EXCEPT ![p].pc = "post",
                              ![p].todo = {e \in Emitted : BlockOf[e] > lambda[p].cursor + 1}]
  /\ UNCHANGED <<head, rows, orphans, times, failures>>

\* payments.getPastEvents from the block after the cursor on.
GetEvents(p) ==
  /\ lambda[p].pc = "get_events"
  /\ lambda' = [lambda EXCEPT ![p].pc = "post",
                              ![p].todo = {e \in Emitted : BlockOf[e] > lambda[p].cursor}]
  /\ UNCHANGED <<head, rows, orphans, times, failures>>

\* Mutant: the events are posted in any order.
PostAny(p) ==
  /\ lambda[p].pc = "post"
  /\ \E e \in lambda[p].todo :
       /\ rows' = rows \cup {e}
       /\ lambda' = [lambda EXCEPT ![p].pc = "dispatch", ![p].posted = e, ![p].todo = @ \ {e}]
  /\ UNCHANGED <<head, orphans, times, failures>>

\* The first of the events is posted, and the server inserts its row.
Post(p) ==
  /\ lambda[p].pc = "post"
  /\ \E e \in lambda[p].todo :
       /\ \A f \in lambda[p].todo : e <= f
       /\ rows' = rows \cup {e}
       /\ lambda' = [lambda EXCEPT ![p].pc = "dispatch", ![p].posted = e, ![p].todo = @ \ {e}]
  /\ UNCHANGED <<head, orphans, times, failures>>

Apply(e) ==
  times' = IF e \in Handled THEN [times EXCEPT ![e] = @ + 1] ELSE times

Answer(p) ==
  lambda' = [lambda EXCEPT ![p].pc = "post", ![p].posted = NoEvent]

\* The dispatcher of the event has set the status of the booking.
Dispatch(p) ==
  /\ lambda[p].pc = "dispatch"
  /\ Apply(lambda[p].posted)
  /\ Answer(p)
  /\ UNCHANGED <<head, rows, orphans, failures>>

\* No event is left.
Finish(p) ==
  /\ lambda[p].pc = "post"
  /\ lambda[p].todo = {}
  /\ lambda' = [lambda EXCEPT ![p] = Idle]
  /\ UNCHANGED <<head, rows, orphans, times, failures>>

-----------------------------------------------------------------------------
Fail ==
  /\ failures < MaxFailures
  /\ failures' = failures + 1

\* The insert fails, or something before the server answers 500: the lambda
\* does not look at the answer and goes on with the next event.
PostFails(p) ==
  /\ Fail
  /\ lambda[p].pc = "post"
  /\ \E e \in lambda[p].todo :
       /\ \A f \in lambda[p].todo : e <= f
       /\ lambda' = [lambda EXCEPT ![p].todo = @ \ {e}]
  /\ UNCHANGED <<head, rows, orphans, times>>

\* The dispatch rejects (no such booking, the mail or the database fails).
\* The server answers 500, which is an answer: the lambda goes on.
DispatchFails(p) ==
  /\ Fail
  /\ lambda[p].pc = "dispatch"
  /\ Answer(p)
  /\ UNCHANGED <<head, rows, orphans, times>>

\* A fetch of the lambda rejects, or the server stops: both end where they are.
Abort(p) ==
  /\ Fail
  /\ lambda[p].pc # "idle"
  /\ lambda' = [lambda EXCEPT ![p] = Idle]
  /\ UNCHANGED <<head, rows, orphans, times>>

\* The lambda runs out of time; the server goes on with the dispatch.
TimeOut(p) ==
  /\ Fail
  /\ lambda[p].pc = "dispatch"
  /\ orphans' = orphans \cup {lambda[p].posted}
  /\ lambda' = [lambda EXCEPT ![p] = Idle]
  /\ UNCHANGED <<head, rows, times>>

DispatchOrphan(e) ==
  /\ e \in orphans
  /\ Apply(e)
  /\ orphans' = orphans \ {e}
  /\ UNCHANGED <<head, rows, lambda, failures>>

-----------------------------------------------------------------------------
Init ==
  /\ head = 0
  /\ rows = {}
  /\ lambda = [p \in Lambdas |-> Idle]
  /\ orphans = {}
  /\ times = [e \in Events |-> 0]
  /\ failures = 0

Run(p) == Poll(p) \/ GetEvents(p) \/ Post(p) \/ Dispatch(p) \/ Finish(p)

Next ==
  \/ Mine
  \/ \E p \in Lambdas : Run(p) \/ PostFails(p) \/ DispatchFails(p) \/ Abort(p) \/ TimeOut(p)
  \/ \E e \in Events : DispatchOrphan(e)

Spec == Init /\ [][Next]_vars

\* The lambda is scheduled every ten minutes and its steps are answered.
FairSpec == Spec /\ \A p \in Lambdas : WF_vars(Run(p))

-----------------------------------------------------------------------------
TypeOK ==
  /\ head \in Nat
  /\ rows \subseteq Events
  /\ lambda \in [Lambdas -> Lambda]
  /\ orphans \subseteq Events
  /\ times \in [Events -> Nat]
  /\ failures \in Nat

\* When the executions of the lambda do not overlap, every event changes its
\* booking at most once, and only after it was emitted, whatever fails
\* between the insert of its row and the end of its dispatch.
Delivery == INSTANCE EventDelivery WITH emitted <- Emitted
DeliversAtMostOnce == Delivery!Spec

\* The events that will never change their booking: the cursor has passed
\* them, and nobody is about to post or dispatch them.
Lost ==
  { e \in Handled :
      /\ times[e] = 0
      /\ e \notin orphans
      /\ \E f \in rows : BlockOf[e] <= BlockOf[f]
      /\ \A p \in Lambdas : e \notin lambda[p].todo /\ e # lambda[p].posted }

\* The cursor counts blocks and a failure is not retried, so events do get
\* lost; but no failure costs the events of more than one block.
EachFailureCostsAtMostOneBlock ==
  Cardinality({BlockOf[e] : e \in Lost}) <= failures

\* As long as nothing fails, every event that was emitted reaches its booking.
DeliveredUnlessFailed ==
  \A e \in Handled : e \in Emitted ~> times[e] = 1 \/ failures > 0
=============================================================================
