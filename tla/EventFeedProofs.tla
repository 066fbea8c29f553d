-------------------------- MODULE EventFeedProofs --------------------------
(***************************************************************************)
(* For every log: as long as executions of the lambda do not overlap, the  *)
(* feed implements EventDelivery, so no event changes its booking twice,   *)
(* and no failure costs the events of more than one block.                 *)
(***************************************************************************)
EXTENDS EventFeed, FiniteSetTheorems, TLAPS

\* The executions of the lambda do not overlap.
OneLambda == \A p, q \in Lambdas : p = q

(***************************************************************************)
(* Why an event is not dispatched twice: what is still to be posted comes  *)
(* after everything that has a row (Ahead), because the cursor was not     *)
(* below any row when it was read (CursorIsLatest); and a dispatch that is *)
(* still running is the only one for its row (Pending).                    *)
(***************************************************************************)
CursorIsLatest ==
  \A p \in Lambdas : lambda[p].pc = "get_events" =>
    \A e \in rows : BlockOf[e] <= lambda[p].cursor

Ahead ==
  \A p \in Lambdas :
    /\ lambda[p].todo \subseteq Emitted
    /\ \A e \in rows, f \in lambda[p].todo : e < f

Undispatched(e) == e \in rows /\ times[e] = 0

Pending ==
  /\ \A e \in orphans : Undispatched(e)
  /\ \A p \in Lambdas : lambda[p].pc = "dispatch" =>
       Undispatched(lambda[p].posted) /\ lambda[p].posted \notin orphans

Once ==
  /\ rows \subseteq Emitted
  /\ \A e \in Events : times[e] <= 1 /\ (e \notin rows => times[e] = 0)

Inv == TypeOK /\ CursorIsLatest /\ Ahead /\ Pending /\ Once

LEMMA IdleLambda ==
  Idle \in Lambda /\ Idle.pc = "idle" /\ Idle.todo = {} /\ Idle.posted = NoEvent
  BY DEF Idle, Lambda

\* The events stay emitted.
LEMMA EmittedGrows ==
  ASSUME TypeOK, head' \in Nat, head <= head'
  PROVE  Emitted \subseteq Emitted'
<1>1. \A e \in Events : BlockOf[e] \in Nat
  BY EventAssumption
<1> QED
  BY <1>1 DEF Emitted, TypeOK

LEMMA InitInv == Init => Inv
  BY IdleLambda, EventAssumption
  DEF Init, Inv, TypeOK, CursorIsLatest, Ahead, Pending, Once, Undispatched

\* Every step preserves the invariant and is a step of EventDelivery, or
\* none: the two are shown together, action by action.
AbstractStep == [Delivery!Next]_<<Emitted, times>>

LEMMA Delivered ==
  ASSUME Inv, NEW e \in Events, Undispatched(e), Apply(e), UNCHANGED head
  PROVE  /\ AbstractStep
         /\ times' \in [Events -> Nat]
         /\ \A f \in Events : f # e => times'[f] = times[f]
         /\ times'[e] <= 1
<1>1. Emitted' = Emitted
  BY DEF Emitted
<1>2. CASE e \in Handled
  <2>1. times' = [times EXCEPT ![e] = 1]
    BY <1>2 DEF Apply, Undispatched, Inv, TypeOK
  <2>2. Delivery!Deliver(e)
    BY <1>1, <2>1 DEF Delivery!Deliver, Undispatched, Inv, Once
  <2> QED
    BY <2>1, <2>2 DEF AbstractStep, Delivery!Next, Inv, TypeOK
<1>3. CASE e \notin Handled
  BY <1>1, <1>3 DEF Apply, AbstractStep, Inv, TypeOK, Once
<1> QED
  BY <1>2, <1>3

LEMMA NextInv == OneLambda /\ Inv /\ [Next]_vars => Inv' /\ AbstractStep
<1> SUFFICES ASSUME OneLambda, Inv, [Next]_vars PROVE Inv' /\ AbstractStep
  OBVIOUS
<1> USE DEF Inv
<1>0. ASSUME UNCHANGED <<head, times>> PROVE AbstractStep
  BY <1>0 DEF AbstractStep, Emitted
<1>1. CASE Mine
  <2>1. Emitted \subseteq Emitted'
    BY <1>1, EmittedGrows DEF Mine, TypeOK
  <2>2. TypeOK' /\ CursorIsLatest' /\ Pending'
    BY <1>1 DEF Mine, TypeOK, CursorIsLatest, Pending, Undispatched
  <2>3. Ahead' /\ Once'
    BY <1>1, <2>1 DEF Mine, Ahead, Once, TypeOK
  <2>4. Emitted' = Emitted \cup Emitted' /\ Emitted' \subseteq Events
    BY <2>1 DEF Emitted
  <2>5. Delivery!Emit(Emitted')
    BY <1>1, <2>4 DEF Mine, Delivery!Emit
  <2> QED
    BY <2>2, <2>3, <2>4, <2>5 DEF AbstractStep, Delivery!Next
<1>2. ASSUME NEW p \in Lambdas, Poll(p)
      PROVE  Inv' /\ AbstractStep
  <2>1. PICK n \in {0} \cup {BlockOf[e] : e \in rows} :
          /\ IsLatestBlock(n)
          /\ lambda' = [lambda EXCEPT ![p] = [Idle EXCEPT !.pc = "get_events", !.cursor = n]]
    BY <1>2 DEF Poll
  <2>2. n \in Nat /\ \A e \in rows : BlockOf[e] <= n
    BY <2>1, EventAssumption DEF IsLatestBlock, TypeOK
  <2>3. [Idle EXCEPT !.pc = "get_events", !.cursor = n] \in Lambda
    BY <2>2 DEF Idle, Lambda
  <2>4. TypeOK'
    BY <1>2, <2>1, <2>3 DEF Poll, TypeOK
  <2>5. CursorIsLatest' /\ Ahead' /\ Pending' /\ Once'
    BY <1>2, <2>1, <2>2
    DEF Poll, CursorIsLatest, Ahead, Pending, Once, Undispatched, TypeOK, Idle, Emitted
  <2> QED
    BY <1>0, <1>2, <2>4, <2>5 DEF Poll
<1>3. ASSUME NEW p \in Lambdas, GetEvents(p)
      PROVE  Inv' /\ AbstractStep
  <2> DEFINE new == {e \in Emitted : BlockOf[e] > lambda[p].cursor}
  <2>1. lambda[p] \in Lambda /\ new \subseteq Events
    BY DEF TypeOK, Emitted
  <2>2. \A e \in rows, f \in new : e < f
    <3> SUFFICES ASSUME NEW e \in rows, NEW f \in new PROVE e < f
      OBVIOUS
    <3>1. e \in Events /\ f \in Events /\ e \in Nat /\ f \in Nat
      BY EventAssumption, <2>1 DEF TypeOK
    <3>2. BlockOf[e] \in Nat /\ BlockOf[f] \in Nat /\ lambda[p].cursor \in Nat
      BY EventAssumption, <2>1, <3>1 DEF Lambda
    <3>3. BlockOf[e] < BlockOf[f]
      BY <1>3, <3>2 DEF GetEvents, CursorIsLatest
    <3> QED
      BY EventAssumption, <3>1, <3>2, <3>3
  <2>3. lambda' = [lambda EXCEPT ![p] = [lambda[p] EXCEPT !.pc = "post", !.todo = new]]
    BY <1>3 DEF GetEvents
  <2>4. [lambda[p] EXCEPT !.pc = "post", !.todo = new] \in Lambda
    BY <2>1 DEF Lambda
  <2>5. TypeOK'
    BY <1>3, <2>3, <2>4 DEF GetEvents, TypeOK
  <2>6. /\ lambda'[p].pc = "post" /\ lambda'[p].todo = new /\ new \subseteq Emitted
        /\ \A q \in Lambdas : q # p => lambda'[q] = lambda[q]
    BY <2>1, <2>3 DEF TypeOK, Lambda
  <2>7. UNCHANGED <<rows, orphans, times>> /\ Emitted' = Emitted
    BY <1>3 DEF GetEvents, Emitted
  <2>8. CursorIsLatest' /\ Ahead'
    BY <2>2, <2>6, <2>7 DEF CursorIsLatest, Ahead
  <2>9. Pending' /\ Once'
    BY <2>6, <2>7 DEF Pending, Once, Undispatched
  <2> QED
    BY <1>0, <1>3, <2>5, <2>8, <2>9 DEF GetEvents
<1>4. ASSUME NEW p \in Lambdas, Post(p)
      PROVE  Inv' /\ AbstractStep
  <2>1. PICK e \in lambda[p].todo :
          /\ \A f \in lambda[p].todo : e <= f
          /\ rows' = rows \cup {e}
          /\ lambda' = [lambda EXCEPT ![p].pc = "dispatch", ![p].posted = e, ![p].todo = @ \ {e}]
    BY <1>4 DEF Post
  <2> DEFINE new == [lambda[p] EXCEPT !.pc = "dispatch", !.posted = e, !.todo = @ \ {e}]
  <2>2. lambda[p] \in Lambda /\ lambda[p].todo \subseteq Events /\ e \in Events
    BY DEF TypeOK, Lambda
  <2>3. lambda' = [lambda EXCEPT ![p] = new] /\ new \in Lambda
    BY <2>1, <2>2 DEF Lambda
  <2>4. e \in Emitted /\ e \notin rows /\ times[e] = 0 /\ e \notin orphans
    BY <2>2, EventAssumption DEF Ahead, Once, Pending, Undispatched
  <2>5. \A q \in Lambdas : q = p
    BY DEF OneLambda
  <2>6. /\ new.pc = "dispatch" /\ new.posted = e
        /\ new.todo = lambda[p].todo \ {e}
    BY <2>2 DEF Lambda
  <2>7. \A q \in Lambdas : lambda'[q] = new
    BY <2>3, <2>5 DEF TypeOK
  <2>8. TypeOK'
    <3>1. lambda' \in [Lambdas -> Lambda]
      BY <2>3 DEF TypeOK
    <3>2. rows' \subseteq Events /\ UNCHANGED <<head, orphans, times, failures>>
      BY <1>4, <2>1, <2>2 DEF Post, TypeOK
    <3> QED
      BY <3>1, <3>2 DEF TypeOK
  <2>9. CursorIsLatest' /\ Pending' /\ Once'
    <3>1. UNCHANGED <<head, orphans, times>> /\ Emitted' = Emitted
      BY <1>4 DEF Post, Emitted
    <3> HIDE DEF new
    <3>2. CursorIsLatest'
      BY <2>6, <2>7 DEF CursorIsLatest
    <3>3. Undispatched(e)' /\ \A f \in orphans : Undispatched(f)'
      BY <2>1, <2>4, <3>1 DEF Pending, Undispatched
    <3>4. Pending'
      BY <2>4, <2>6, <2>7, <3>1, <3>3 DEF Pending
    <3>5. Once'
      BY <2>1, <2>4, <3>1 DEF Once
    <3> QED
      BY <3>2, <3>5, <3>4
  <2>10. Ahead'
    <3>1. \A f \in lambda[p].todo \ {e} : e < f
      BY <2>1, <2>2, EventAssumption
    <3>2. Emitted' = Emitted
      BY <1>4 DEF Post, Emitted
    <3> QED
      BY <2>1, <2>6, <2>7, <3>1, <3>2 DEF Ahead
  <2> QED
    BY <1>0, <1>4, <2>8, <2>9, <2>10 DEF Post
<1>5. ASSUME NEW p \in Lambdas, Dispatch(p)
      PROVE  Inv' /\ AbstractStep
  <2> DEFINE e == lambda[p].posted
             new == [lambda[p] EXCEPT !.pc = "post", !.posted = NoEvent]
  <2>1. /\ lambda[p] \in Lambda /\ e \in Events
        /\ Undispatched(e) /\ e \notin orphans
    BY <1>5 DEF Dispatch, TypeOK, Pending, Undispatched
  <2>2. /\ AbstractStep
        /\ times' \in [Events -> Nat]
        /\ \A f \in Events : f # e => times'[f] = times[f]
        /\ times'[e] <= 1
    BY <1>5, <2>1, Delivered DEF Dispatch
  <2>3. lambda' = [lambda EXCEPT ![p] = new] /\ new \in Lambda
    BY <1>5, <2>1 DEF Dispatch, Answer, Lambda
  <2>4. new.pc = "post" /\ new.todo = lambda[p].todo
    BY <2>1 DEF Lambda
  <2>5. \A q \in Lambdas : lambda'[q] = new
    BY <2>3 DEF TypeOK, OneLambda
  <2>6. TypeOK'
    BY <1>5, <2>2, <2>3 DEF Dispatch, TypeOK
  <2>7. CursorIsLatest' /\ Ahead' /\ Pending' /\ Once'
    BY <1>5, <2>1, <2>2, <2>4, <2>5
    DEF Dispatch, CursorIsLatest, Ahead, Pending, Once, Undispatched, Emitted, TypeOK
  <2> QED
    BY <2>2, <2>6, <2>7
<1>6. ASSUME NEW p \in Lambdas, Finish(p) \/ Abort(p)
      PROVE  Inv' /\ AbstractStep
  <2>1. lambda' = [lambda EXCEPT ![p] = Idle] /\ failures' \in Nat
        /\ UNCHANGED <<head, rows, orphans, times>>
    BY <1>6 DEF Finish, Abort, Fail, TypeOK
  <2>2. TypeOK'
    BY <2>1, IdleLambda DEF TypeOK
  <2>3. CursorIsLatest' /\ Ahead' /\ Pending' /\ Once'
    BY <2>1, IdleLambda
    DEF CursorIsLatest, Ahead, Pending, Once, Undispatched, Emitted, TypeOK
  <2> QED
    BY <1>0, <2>1, <2>2, <2>3
<1>7. ASSUME NEW p \in Lambdas, PostFails(p)
      PROVE  Inv' /\ AbstractStep
  <2>1. PICK e \in lambda[p].todo : lambda' = [lambda EXCEPT ![p].todo = @ \ {e}]
    BY <1>7 DEF PostFails
  <2> DEFINE new == [lambda[p] EXCEPT !.todo = @ \ {e}]
  <2>2. lambda[p] \in Lambda
    BY DEF TypeOK
  <2>3. lambda' = [lambda EXCEPT ![p] = new] /\ new \in Lambda
    BY <2>1, <2>2 DEF Lambda
  <2>4. new.todo \subseteq lambda[p].todo /\ new.pc = "post"
    BY <1>7, <2>2 DEF PostFails, Lambda
  <2>5. TypeOK'
    <3>1. lambda' \in [Lambdas -> Lambda]
      BY <2>3 DEF TypeOK
    <3> QED
      BY <1>7, <3>1 DEF PostFails, Fail, TypeOK
  <2>6. CursorIsLatest' /\ Ahead' /\ Pending' /\ Once'
    BY <1>7, <2>3, <2>4
    DEF PostFails, CursorIsLatest, Ahead, Pending, Once, Undispatched, Emitted, TypeOK
  <2> QED
    BY <1>0, <1>7, <2>5, <2>6 DEF PostFails
<1>8. ASSUME NEW p \in Lambdas, DispatchFails(p)
      PROVE  Inv' /\ AbstractStep
  <2> DEFINE new == [lambda[p] EXCEPT !.pc = "post", !.posted = NoEvent]
  <2>1. lambda[p] \in Lambda
    BY DEF TypeOK
  <2>2. lambda' = [lambda EXCEPT ![p] = new] /\ new \in Lambda
    BY <1>8, <2>1 DEF DispatchFails, Answer, Lambda
  <2>3. new.pc = "post" /\ new.todo = lambda[p].todo
    BY <2>1 DEF Lambda
  <2>4. TypeOK'
    BY <1>8, <2>2 DEF DispatchFails, Fail, TypeOK
  <2>5. CursorIsLatest' /\ Ahead' /\ Pending' /\ Once'
    BY <1>8, <2>2, <2>3
    DEF DispatchFails, CursorIsLatest, Ahead, Pending, Once, Undispatched, Emitted, TypeOK
  <2> QED
    BY <1>0, <1>8, <2>4, <2>5 DEF DispatchFails
<1>9. ASSUME NEW p \in Lambdas, TimeOut(p)
      PROVE  Inv' /\ AbstractStep
  <2>1. lambda[p].posted \in Events /\ Undispatched(lambda[p].posted)
    BY <1>9 DEF TimeOut, Pending, Undispatched, TypeOK
  <2>2. TypeOK'
    BY <1>9, <2>1, IdleLambda DEF TimeOut, Fail, TypeOK
  <2>3. \A q \in Lambdas : lambda'[q] = Idle
    BY <1>9 DEF TimeOut, OneLambda, TypeOK
  <2>4. CursorIsLatest' /\ Ahead' /\ Pending' /\ Once'
    BY <1>9, <2>1, <2>3, IdleLambda
    DEF TimeOut, CursorIsLatest, Ahead, Pending, Once, Undispatched, Emitted
  <2> QED
    BY <1>0, <1>9, <2>2, <2>4 DEF TimeOut
<1>10. ASSUME NEW e \in Events, DispatchOrphan(e)
       PROVE  Inv' /\ AbstractStep
  <2>1. Undispatched(e)
    BY <1>10 DEF DispatchOrphan, Pending
  <2>2. /\ AbstractStep
        /\ times' \in [Events -> Nat]
        /\ \A f \in Events : f # e => times'[f] = times[f]
        /\ times'[e] <= 1
    BY <1>10, <2>1, Delivered DEF DispatchOrphan
  <2>3. TypeOK'
    BY <1>10, <2>2 DEF DispatchOrphan, TypeOK
  <2>4. CursorIsLatest' /\ Ahead' /\ Pending' /\ Once'
    BY <1>10, <2>1, <2>2
    DEF DispatchOrphan, CursorIsLatest, Ahead, Pending, Once, Undispatched, Emitted, TypeOK
  <2> QED
    BY <2>2, <2>3, <2>4
<1>11. CASE UNCHANGED vars
  <2>1. Inv'
    BY <1>11
    DEF vars, TypeOK, CursorIsLatest, Ahead, Pending, Once, Undispatched, Emitted
  <2> QED
    BY <1>0, <1>11, <2>1 DEF vars
<1> QED
  BY <1>1, <1>2, <1>3, <1>4, <1>5, <1>6, <1>7, <1>8, <1>9, <1>10, <1>11 DEF Next, Run

\* The state of the feed keeps its type when executions do not overlap.
THEOREM FeedTypeCorrect ==
  ASSUME OneLambda
  PROVE  Spec => []TypeOK
<1>1. Inv => TypeOK
  BY DEF Inv
<1>2. Inv /\ [Next]_vars => Inv'
  BY NextInv
<1> QED
  BY InitInv, <1>1, <1>2, PTL DEF Spec

\* Whatever fails between the insert of a row and the end of its dispatch, no
\* event changes its booking twice or before it was emitted: the feed
\* implements EventDelivery.
THEOREM FeedDelivers ==
  ASSUME OneLambda
  PROVE  Spec => DeliversAtMostOnce
<1>1. Init => Delivery!Init
  <2>1. \A e \in Events : ~(BlockOf[e] <= 0)
    BY EventAssumption
  <2> QED
    BY <2>1 DEF Init, Delivery!Init, Emitted
<1>2. Inv /\ [Next]_vars => Inv' /\ [Delivery!Next]_<<Emitted, times>>
  BY NextInv DEF AbstractStep
<1> QED
  BY InitInv, <1>1, <1>2, PTL DEF Spec, DeliversAtMostOnce, Delivery!Spec

(***************************************************************************)
(* What a failure costs.  An event that is given up is not lost at once:   *)
(* it is as soon as the row of a later one moves the cursor past it.  So   *)
(* the proof counts the events that are passed already or will be by what  *)
(* is still to post (Doomed).  A failure adds events of one block to them: *)
(* of what the lambda still had to post, the cursor has passed only the    *)
(* block of its last row, and that is the block of the event posted last.  *)
(***************************************************************************)
Reached == rows \cup UNION {lambda[p].todo : p \in Lambdas}

InHand(e) == \E p \in Lambdas : e \in lambda[p].todo \/ e = lambda[p].posted

Doomed ==
  { e \in Handled :
      /\ times[e] = 0
      /\ e \notin orphans
      /\ \E f \in Reached : BlockOf[e] <= BlockOf[f]
      /\ ~InHand(e) }

BlocksOf(S) == {BlockOf[e] : e \in S}

\* Between two posts the lambda waits for no event, and before it has read
\* any it has none to post.
AtRest ==
  \A p \in Lambdas :
    /\ lambda[p].pc # "dispatch" => lambda[p].posted = NoEvent
    /\ lambda[p].pc \in {"idle", "get_events"} => lambda[p].todo = {}

\* The cursor is the block of a row, or before the first block.
CursorIsReached ==
  \A p \in Lambdas : lambda[p].pc = "get_events" =>
    lambda[p].cursor = 0 \/ \E e \in rows : lambda[p].cursor <= BlockOf[e]

\* The event being dispatched is the last that has a row.
PostedLast ==
  \A p \in Lambdas : lambda[p].pc = "dispatch" =>
    lambda[p].posted \in rows /\ \A e \in rows : e <= lambda[p].posted

FewDoomed ==
  IsFiniteSet(BlocksOf(Doomed)) /\ Cardinality(BlocksOf(Doomed)) <= failures

CostInv == AtRest /\ CursorIsReached /\ PostedLast /\ FewDoomed

LEMMA EventsAreNumbers ==
  /\ NoEvent \notin Events
  /\ \A e \in Events : e \in Nat /\ BlockOf[e] \in Nat /\ BlockOf[e] > 0
  BY EventAssumption DEF NoEvent

LEMMA BlocksFollow ==
  ASSUME NEW e \in Events, NEW f \in Events, e <= f
  PROVE  BlockOf[e] <= BlockOf[f]
  BY EventAssumption

\* With one execution, what is in hand and reached is its own.
Passed(e, r, todo) == \E f \in r \cup todo : BlockOf[e] <= BlockOf[f]

IsDoomed(e, task, r, o, t) ==
  /\ e \in Handled /\ t[e] = 0 /\ e \notin o
  /\ Passed(e, r, task.todo)
  /\ e \notin task.todo /\ e # task.posted

LEMMA DoomedOfOne ==
  ASSUME OneLambda, NEW p \in Lambdas
  PROVE  /\ \A e : e \in Doomed <=> IsDoomed(e, lambda[p], rows, orphans, times)
         /\ \A e : e \in Doomed' <=> IsDoomed(e, lambda'[p], rows', orphans', times')
<1>1. \A q \in Lambdas : q = p
  BY DEF OneLambda
<1>2. Reached = rows \cup lambda[p].todo /\ Reached' = rows' \cup lambda'[p].todo
  BY <1>1 DEF Reached
<1>3. \A e : /\ InHand(e) <=> (e \in lambda[p].todo \/ e = lambda[p].posted)
             /\ InHand(e)' <=> (e \in lambda'[p].todo \/ e = lambda'[p].posted)
  BY <1>1 DEF InHand
<1> QED
  BY <1>2, <1>3 DEF Doomed, Passed, IsDoomed

\* Where nothing is given up, nothing more is doomed.
LEMMA FewStay ==
  ASSUME TypeOK, FewDoomed, Doomed' \subseteq Doomed, failures' \in Nat, failures <= failures'
  PROVE  FewDoomed'
<1>1. BlocksOf(Doomed') \subseteq BlocksOf(Doomed)
  BY DEF BlocksOf
<1>2. /\ IsFiniteSet(BlocksOf(Doomed'))
      /\ Cardinality(BlocksOf(Doomed')) <= Cardinality(BlocksOf(Doomed))
  BY <1>1, FS_Subset DEF FewDoomed
<1>3. Cardinality(BlocksOf(Doomed')) \in Nat /\ Cardinality(BlocksOf(Doomed)) \in Nat
  BY <1>2, FS_CardinalityType DEF FewDoomed
<1> QED
  BY <1>2, <1>3 DEF FewDoomed, TypeOK, BlocksOf

\* A failure dooms events of one block b.
LEMMA OneMore ==
  ASSUME TypeOK, FewDoomed, failures' = failures + 1,
         NEW b, \A e \in Doomed' : e \in Doomed \/ BlockOf[e] = b
  PROVE  FewDoomed'
<1>1. BlocksOf(Doomed') \subseteq BlocksOf(Doomed) \cup {b}
  BY DEF BlocksOf
<1>2. /\ IsFiniteSet(BlocksOf(Doomed) \cup {b})
      /\ Cardinality(BlocksOf(Doomed) \cup {b}) <= Cardinality(BlocksOf(Doomed)) + 1
  <2>1. Cardinality(BlocksOf(Doomed)) \in Nat
    BY FS_CardinalityType DEF FewDoomed
  <2> QED
    BY <2>1, FS_AddElement DEF FewDoomed
<1>3. /\ IsFiniteSet(BlocksOf(Doomed'))
      /\ Cardinality(BlocksOf(Doomed')) <= Cardinality(BlocksOf(Doomed) \cup {b})
  BY <1>1, <1>2, FS_Subset
<1>4. /\ Cardinality(BlocksOf(Doomed')) \in Nat
      /\ Cardinality(BlocksOf(Doomed)) \in Nat
      /\ Cardinality(BlocksOf(Doomed) \cup {b}) \in Nat
  BY <1>2, <1>3, FS_CardinalityType DEF FewDoomed
<1> QED
  BY <1>2, <1>3, <1>4 DEF FewDoomed, TypeOK, BlocksOf

\* What the lambda has in hand and the rows have passed is of one block.
LEMMA OneBlockInHand ==
  ASSUME Inv, CostInv, NEW p \in Lambdas, NEW d \in Events, NEW e \in Events,
         Passed(d, rows, {}), e \in lambda[p].todo \/ e = lambda[p].posted
  PROVE  BlockOf[d] <= BlockOf[e]
<1>1. PICK g \in rows : BlockOf[d] <= BlockOf[g]
  BY DEF Passed
<1>2. g \in Events
  BY DEF Inv, TypeOK
<1>3. g <= e
  <2>1. CASE e \in lambda[p].todo
    BY <1>2, <2>1, EventsAreNumbers DEF Inv, Ahead
  <2>2. CASE e = lambda[p].posted
    BY <2>2, EventsAreNumbers DEF CostInv, AtRest, PostedLast
  <2> QED
    BY <2>1, <2>2
<1>4. BlockOf[g] <= BlockOf[e]
  BY <1>2, <1>3, BlocksFollow
<1> QED
  BY <1>1, <1>2, <1>4, EventsAreNumbers

\* An execution that a failure ends dooms what it had in hand of that block.
LEMMA EndDooms ==
  ASSUME OneLambda, Inv, CostInv, NEW p \in Lambdas,
         failures' = failures + 1, lambda'[p] = Idle, UNCHANGED <<rows, times>>,
         orphans \subseteq orphans'
  PROVE  FewDoomed'
<1>1. /\ lambda'[p].todo = {} /\ lambda'[p].posted = NoEvent
  BY IdleLambda
<1>2. \A e \in Doomed' : /\ e \in Events /\ Passed(e, rows, {})
                         /\ \/ e \in Doomed
                            \/ e \in lambda[p].todo \/ e = lambda[p].posted
  BY <1>1, DoomedOfOne, EventAssumption DEF Passed, IsDoomed
<1>3. CASE Doomed' \subseteq Doomed
  BY <1>3, FewStay DEF CostInv, Inv, TypeOK
<1>4. ASSUME NEW d \in Doomed', d \notin Doomed
      PROVE  FewDoomed'
  <2>1. \A e \in Doomed' : e \in Doomed \/ BlockOf[e] = BlockOf[d]
    <3> SUFFICES ASSUME NEW e \in Doomed', e \notin Doomed PROVE BlockOf[e] = BlockOf[d]
      OBVIOUS
    <3>1. BlockOf[d] <= BlockOf[e] /\ BlockOf[e] <= BlockOf[d]
      BY <1>2, <1>4, OneBlockInHand
    <3> QED
      BY <1>2, <3>1, EventsAreNumbers
  <2> QED
    BY <2>1, OneMore DEF CostInv, Inv
<1> QED
  BY <1>3, <1>4

\* The three other parts of the invariant, for the one execution there is.
LEMMA CostOf ==
  ASSUME OneLambda, NEW p \in Lambdas,
         (lambda[p].pc # "dispatch" => lambda[p].posted = NoEvent)',
         (lambda[p].pc \in {"idle", "get_events"} => lambda[p].todo = {})',
         (lambda[p].pc = "get_events" =>
            lambda[p].cursor = 0 \/ \E e \in rows : lambda[p].cursor <= BlockOf[e])',
         (lambda[p].pc = "dispatch" =>
            lambda[p].posted \in rows /\ \A e \in rows : e <= lambda[p].posted)',
         FewDoomed'
  PROVE  CostInv'
<1>1. \A q \in Lambdas : q = p
  BY DEF OneLambda
<1> QED
  BY <1>1 DEF CostInv, AtRest, CursorIsReached, PostedLast

LEMMA CostInit == Init => CostInv
<1> SUFFICES ASSUME Init PROVE CostInv
  OBVIOUS
<1>1. \A p \in Lambdas : lambda[p] = Idle
  BY DEF Init
<1>2. Reached = {}
  BY <1>1, IdleLambda DEF Reached, Init
<1>3. BlocksOf(Doomed) = {}
  BY <1>2 DEF Doomed, BlocksOf
<1>4. FewDoomed
  BY <1>3, FS_EmptySet DEF FewDoomed, Init
<1> QED
  BY <1>1, <1>4, IdleLambda DEF CostInv, AtRest, CursorIsReached, PostedLast

LEMMA CostNext ==
  ASSUME OneLambda, Inv, Inv', CostInv, [Next]_vars
  PROVE  CostInv'
<1> USE DEF CostInv
<1>0. TypeOK /\ TypeOK' /\ FewDoomed
  BY DEF Inv
<1>t. \A p \in Lambdas : lambda[p] \in Lambda /\ lambda'[p] \in Lambda
  BY <1>0 DEF TypeOK
<1>1. CASE Mine \/ UNCHANGED vars
  <2>1. UNCHANGED <<rows, lambda, orphans, times, failures>>
    BY <1>1 DEF Mine, vars
  <2> QED
    BY <2>1 DEF AtRest, CursorIsReached, PostedLast, FewDoomed, Doomed, Reached,
                InHand, BlocksOf
<1>2. ASSUME NEW p \in Lambdas, Poll(p) PROVE CostInv'
  <2>1. PICK n \in {0} \cup {BlockOf[e] : e \in rows} :
          lambda' = [lambda EXCEPT ![p] = [Idle EXCEPT !.pc = "get_events", !.cursor = n]]
    BY <1>2 DEF Poll
  <2>2. lambda'[p] = [Idle EXCEPT !.pc = "get_events", !.cursor = n]
    BY <1>0, <2>1 DEF TypeOK
  <2>3. /\ lambda'[p].pc = "get_events" /\ lambda'[p].cursor = n
        /\ lambda'[p].todo = {} /\ lambda'[p].posted = NoEvent
    BY <2>2 DEF Idle
  <2>4. n = 0 \/ \E e \in rows : n <= BlockOf[e]
    BY <1>0, EventsAreNumbers DEF TypeOK
  <2>5. lambda[p].todo = {} /\ lambda[p].posted = NoEvent
    BY <1>2, IdleLambda DEF Poll
  <2>6. UNCHANGED <<rows, orphans, times, failures>>
    BY <1>2 DEF Poll
  <2>7. Doomed' \subseteq Doomed
    <3> SUFFICES ASSUME NEW e \in Doomed' PROVE e \in Doomed
      OBVIOUS
    <3>1. IsDoomed(e, lambda'[p], rows', orphans', times')
      BY DoomedOfOne
    <3>2. IsDoomed(e, lambda[p], rows, orphans, times)
      BY <3>1, <2>3, <2>5, <2>6 DEF IsDoomed, Passed
    <3> QED
      BY <3>2, DoomedOfOne
  <2>8. FewDoomed'
    BY <1>0, <2>6, <2>7, FewStay DEF TypeOK
  <2> QED
    BY <2>3, <2>4, <2>6, <2>8, CostOf
<1>3. ASSUME NEW p \in Lambdas, GetEvents(p) PROVE CostInv'
  <2> DEFINE new == {e \in Emitted : BlockOf[e] > lambda[p].cursor}
  <2>1. /\ lambda'[p].pc = "post" /\ lambda'[p].todo = new
        /\ lambda'[p].posted = lambda[p].posted
    <3>1. lambda' = [lambda EXCEPT ![p] = [lambda[p] EXCEPT !.pc = "post", !.todo = new]]
      BY <1>3 DEF GetEvents
    <3> HIDE DEF new
    <3>2. lambda'[p] = [lambda[p] EXCEPT !.pc = "post", !.todo = new]
      BY <1>0, <3>1 DEF TypeOK
    <3> QED
      BY <1>t, <3>2 DEF Lambda
  <2>2. /\ UNCHANGED <<rows, orphans, times, failures>>
        /\ lambda[p].pc = "get_events" /\ lambda[p].posted = NoEvent
    BY <1>3 DEF GetEvents, AtRest
  <2>3. ASSUME NEW e \in Doomed' PROVE e \in Doomed
    <3>1. /\ e \in Events /\ times[e] = 0 /\ e \in Handled /\ e \notin orphans
          /\ Passed(e, rows, new) /\ e \notin new /\ e # lambda[p].posted
      <4>1. IsDoomed(e, lambda'[p], rows', orphans', times')
        BY <2>3, DoomedOfOne
      <4> QED
        BY <2>1, <2>2, <4>1, EventAssumption DEF IsDoomed
    <3>2. PICK f \in rows \cup new : BlockOf[e] <= BlockOf[f]
      BY <3>1 DEF Passed
    <3>3. Passed(e, rows, {})
      <4>1. CASE f \in rows
        BY <3>2, <4>1 DEF Passed
      <4>2. CASE f \in new
        <5>1. f \in Events /\ BlockOf[f] <= head /\ head \in Nat /\ lambda[p].cursor \in Nat
          BY <1>0, <1>t, <4>2 DEF Emitted, TypeOK, Lambda
        <5>2. BlockOf[e] \in Nat /\ BlockOf[e] > 0 /\ BlockOf[f] \in Nat
          BY <3>1, <5>1, EventsAreNumbers
        <5>3. e \in Emitted
          BY <3>1, <3>2, <5>1, <5>2 DEF Emitted
        <5>4. BlockOf[e] <= lambda[p].cursor
          BY <3>1, <5>1, <5>2, <5>3
        <5>5. lambda[p].cursor # 0
          BY <5>1, <5>2, <5>4
        <5>6. PICK g \in rows : lambda[p].cursor <= BlockOf[g]
          BY <2>2, <5>5 DEF CursorIsReached
        <5>7. BlockOf[g] \in Nat
          BY <1>0, EventsAreNumbers DEF TypeOK
        <5> QED
          BY <5>1, <5>2, <5>4, <5>6, <5>7 DEF Passed
      <4> QED
        BY <3>2, <4>1, <4>2
    <3>4. Passed(e, rows, lambda[p].todo) /\ lambda[p].todo = {}
      BY <2>2, <3>3 DEF Passed, AtRest
    <3> QED
      BY <2>2, <3>1, <3>4, DoomedOfOne DEF IsDoomed
  <2>4. FewDoomed'
    BY <1>0, <2>2, <2>3, FewStay DEF TypeOK
  <2> QED
    BY <2>1, <2>2, <2>4, CostOf
<1>4. ASSUME NEW p \in Lambdas, Post(p) PROVE CostInv'
  <2>1. PICK e \in lambda[p].todo :
          /\ rows' = rows \cup {e}
          /\ lambda' = [lambda EXCEPT ![p].pc = "dispatch", ![p].posted = e, ![p].todo = @ \ {e}]
    BY <1>4 DEF Post
  <2>2. /\ lambda'[p].pc = "dispatch" /\ lambda'[p].posted = e
        /\ lambda'[p].todo = lambda[p].todo \ {e}
    BY <1>0, <1>t, <2>1 DEF Lambda, TypeOK
  <2>3. UNCHANGED <<orphans, times, failures>> /\ lambda[p].posted = NoEvent
    BY <1>4 DEF Post, AtRest
  <2>4. ASSUME NEW d \in Doomed' PROVE d \in Doomed
    <3>1. /\ d \in Handled /\ times[d] = 0 /\ d \notin orphans /\ d \in Events
          /\ Passed(d, rows', lambda'[p].todo)
          /\ d \notin lambda[p].todo \ {e} /\ d # e
      BY <2>2, <2>3, <2>4, DoomedOfOne, EventAssumption DEF IsDoomed
    <3>2. Passed(d, rows, lambda[p].todo)
      BY <2>1, <2>2, <3>1 DEF Passed
    <3>3. d # NoEvent
      BY <3>1, EventsAreNumbers
    <3> QED
      BY <2>3, <3>1, <3>2, <3>3, DoomedOfOne DEF IsDoomed
  <2>5. FewDoomed'
    BY <1>0, <2>3, <2>4, FewStay DEF TypeOK
  <2>6. e \in rows' /\ \A g \in rows' : g <= e
    <3>1. \A g \in rows : g < e /\ g \in Events
      BY <1>0 DEF Inv, Ahead, TypeOK
    <3>2. e \in Events
      BY <1>t DEF Lambda
    <3> QED
      BY <2>1, <3>1, <3>2, EventsAreNumbers
  <2> QED
    BY <2>2, <2>5, <2>6, CostOf
<1>5. ASSUME NEW p \in Lambdas, Dispatch(p) PROVE CostInv'
  <2>1. /\ lambda[p].pc = "dispatch" /\ lambda'[p].pc = "post"
        /\ lambda'[p].posted = NoEvent /\ lambda'[p].todo = lambda[p].todo
        /\ UNCHANGED <<rows, orphans, failures>> /\ Apply(lambda[p].posted)
    BY <1>0, <1>5, <1>t DEF Dispatch, Answer, Lambda, TypeOK
  <2>2. lambda[p].posted \in Events
    BY <1>0, <2>1 DEF PostedLast, TypeOK
  <2>3. /\ \A e \in Events : times'[e] = 0 => times[e] = 0
        /\ lambda[p].posted \in Handled => times'[lambda[p].posted] # 0
    BY <1>0, <2>1, <2>2 DEF Apply, TypeOK
  <2>4. Doomed' \subseteq Doomed
    <3> SUFFICES ASSUME NEW e \in Doomed' PROVE e \in Doomed
      OBVIOUS
    <3>1. IsDoomed(e, lambda'[p], rows', orphans', times')
      BY DoomedOfOne
    <3>2. IsDoomed(e, lambda[p], rows, orphans, times)
      BY <3>1, <2>1, <2>3, EventAssumption DEF IsDoomed, Passed
    <3> QED
      BY <3>2, DoomedOfOne
  <2>5. FewDoomed'
    BY <1>0, <2>1, <2>4, FewStay DEF TypeOK
  <2> QED
    BY <2>1, <2>5, CostOf
<1>6. ASSUME NEW p \in Lambdas, Finish(p) PROVE CostInv'
  <2>1. /\ lambda[p].posted = NoEvent /\ lambda[p].todo = {} /\ lambda'[p] = Idle
        /\ UNCHANGED <<rows, orphans, times, failures>>
    BY <1>0, <1>6 DEF Finish, AtRest, TypeOK
  <2>2. Doomed' \subseteq Doomed
    <3> SUFFICES ASSUME NEW e \in Doomed' PROVE e \in Doomed
      OBVIOUS
    <3>1. IsDoomed(e, lambda'[p], rows', orphans', times')
      BY DoomedOfOne
    <3>2. IsDoomed(e, lambda[p], rows, orphans, times)
      BY <3>1, <2>1, IdleLambda DEF IsDoomed, Passed
    <3> QED
      BY <3>2, DoomedOfOne
  <2>3. FewDoomed'
    BY <1>0, <2>1, <2>2, FewStay DEF TypeOK
  <2> QED
    BY <2>1, <2>3, CostOf, IdleLambda
<1>7. ASSUME NEW p \in Lambdas, PostFails(p) PROVE CostInv'
  <2>1. PICK e \in lambda[p].todo : lambda' = [lambda EXCEPT ![p].todo = @ \ {e}]
    BY <1>7 DEF PostFails
  <2>2. /\ lambda[p].pc = "post" /\ lambda'[p].pc = "post"
        /\ lambda[p].posted = NoEvent /\ lambda'[p].posted = NoEvent
        /\ lambda'[p].todo = lambda[p].todo \ {e}
    BY <1>0, <1>7, <1>t, <2>1 DEF PostFails, AtRest, Lambda, TypeOK
  <2>3. failures' = failures + 1 /\ UNCHANGED <<rows, orphans, times>>
    BY <1>7 DEF PostFails, Fail
  <2>4. ASSUME NEW d \in Doomed' PROVE d \in Doomed \/ BlockOf[d] = BlockOf[e]
    <3>1. /\ d \in Handled /\ times[d] = 0 /\ d \notin orphans
          /\ Passed(d, rows, lambda'[p].todo)
          /\ d \notin lambda'[p].todo /\ d # lambda[p].posted
      <4>1. IsDoomed(d, lambda'[p], rows', orphans', times')
        BY <2>4, DoomedOfOne
      <4> QED
        BY <2>2, <2>3, <4>1 DEF IsDoomed
    <3>2. Passed(d, rows, lambda[p].todo)
      BY <2>2, <3>1 DEF Passed
    <3> QED
      BY <2>2, <3>1, <3>2, DoomedOfOne DEF IsDoomed
  <2>5. FewDoomed'
    BY <1>0, <2>3, <2>4, OneMore
  <2> QED
    BY <2>2, <2>5, CostOf
<1>8. ASSUME NEW p \in Lambdas, DispatchFails(p) PROVE CostInv'
  <2>1. /\ lambda[p].pc = "dispatch" /\ lambda'[p].pc = "post"
        /\ lambda'[p].posted = NoEvent /\ lambda'[p].todo = lambda[p].todo
        /\ UNCHANGED <<rows, orphans, times>> /\ failures' = failures + 1
    BY <1>0, <1>8, <1>t DEF DispatchFails, Answer, Fail, Lambda, TypeOK
  <2>2. \A d \in Doomed' : d \in Doomed \/ BlockOf[d] = BlockOf[lambda[p].posted]
    BY <2>1, DoomedOfOne DEF IsDoomed
  <2>3. FewDoomed'
    BY <1>0, <2>1, <2>2, OneMore
  <2> QED
    BY <2>1, <2>3, CostOf
<1>9. ASSUME NEW p \in Lambdas, Abort(p) \/ TimeOut(p) PROVE CostInv'
  <2>1. /\ lambda'[p] = Idle /\ UNCHANGED <<rows, times>>
        /\ orphans \subseteq orphans' /\ failures' = failures + 1
    BY <1>0, <1>9 DEF Abort, TimeOut, Fail, TypeOK
  <2>2. FewDoomed'
    BY <2>1, EndDooms
  <2> QED
    BY <2>1, <2>2, CostOf, IdleLambda
<1>10. ASSUME NEW e \in Events, DispatchOrphan(e) PROVE CostInv'
  <2>1. UNCHANGED <<head, rows, lambda, failures>> /\ orphans' = orphans \ {e}
    BY <1>10 DEF DispatchOrphan
  <2>2. /\ \A d \in Events : times'[d] = 0 => times[d] = 0
        /\ e \in Handled => times'[e] # 0
    BY <1>0, <1>10 DEF DispatchOrphan, Apply, TypeOK
  <2>3. Doomed' \subseteq Doomed
    <3>1. Reached' = Reached /\ \A d : InHand(d)' <=> InHand(d)
      BY <2>1 DEF Reached, InHand
    <3>2. \A d \in Doomed' : /\ d \in Handled /\ d \in Events /\ times'[d] = 0
                            /\ d \notin orphans \ {e} /\ ~InHand(d)
                            /\ \E f \in Reached : BlockOf[d] <= BlockOf[f]
      BY <2>1, <3>1, EventAssumption DEF Doomed
    <3> QED
      BY <2>2, <3>2 DEF Doomed
  <2>4. FewDoomed'
    BY <1>0, <2>1, <2>3, FewStay DEF TypeOK
  <2> QED
    BY <2>1, <2>4 DEF AtRest, CursorIsReached, PostedLast
<1> QED
  BY <1>1, <1>2, <1>3, <1>4, <1>5, <1>6, <1>7, <1>8, <1>9, <1>10 DEF Next, Run

\* The cursor counts blocks and nothing is tried again, so events get lost;
\* but whatever fails, and when, for any log: the events lost are of no more
\* blocks than there have been failures, as long as executions do not overlap.
THEOREM FailuresCostBlocks ==
  ASSUME OneLambda
  PROVE  Spec => []EachFailureCostsAtMostOneBlock
<1>1. Inv /\ CostInv /\ [Next]_vars => Inv' /\ CostInv'
  BY NextInv, CostNext
<1>2. Inv /\ CostInv => EachFailureCostsAtMostOneBlock
  <2> SUFFICES ASSUME Inv, CostInv PROVE EachFailureCostsAtMostOneBlock
    OBVIOUS
  <2>1. Lost \subseteq Doomed
    BY DEF Lost, Doomed, Reached, InHand
  <2>2. BlocksOf(Lost) \subseteq BlocksOf(Doomed)
    BY <2>1 DEF BlocksOf
  <2>3. /\ IsFiniteSet(BlocksOf(Lost))
        /\ Cardinality(BlocksOf(Lost)) <= Cardinality(BlocksOf(Doomed))
    BY <2>2, FS_Subset DEF CostInv, FewDoomed
  <2>4. Cardinality(BlocksOf(Lost)) \in Nat /\ Cardinality(BlocksOf(Doomed)) \in Nat
    BY <2>3, FS_CardinalityType DEF CostInv, FewDoomed
  <2> QED
    BY <2>3, <2>4 DEF EachFailureCostsAtMostOneBlock, BlocksOf, CostInv, FewDoomed,
                      Inv, TypeOK
<1> QED
  BY InitInv, CostInit, <1>1, <1>2, PTL DEF Spec
=============================================================================
