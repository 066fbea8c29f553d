------------------------- MODULE AvailabilityProofs -------------------------
(***************************************************************************)
(* Proofs about the nights of a listing, for any number of bookings,       *)
(* requests and calendars.                                                 *)
(*                                                                         *)
(* A confirmation past its query has missed nobody but those who came to   *)
(* their nights unasked or while it was under way (BookInv).  What the     *)
(* queries find is finite, so that the count of the createBooking mutation *)
(* is a number.  Of the calendars CalendarSyncProofs has the invariant.    *)
(***************************************************************************)
EXTENDS Availability, FiniteSetTheorems, TLAPS

Sync == INSTANCE CalendarSyncProofs

-----------------------------------------------------------------------------
(* The calendars: module CalendarSync, as it runs beside the bookings.      *)

LEMMA SyncTypes == Sync!SyncInv => Calendar!TypeOK
  BY DEF Sync!SyncInv, Sync!TypeOK, Sync!Versions, Sync!Update, Sync!Task,
     Calendar!TypeOK, Calendar!Versions, Calendar!Update, Calendar!Task

LEMMA SyncInit == Calendar!Init => Sync!SyncInv
<1>1. Calendar!Init => Sync!Init
  BY DEF Calendar!Init, Calendar!Idle, Sync!Init, Sync!Idle
<1> QED
  BY <1>1, AvailabilityAssumption, Sync!SyncInit

LEMMA SyncNext == Sync!SyncInv /\ [Calendar!Next]_calendarVars => Sync!SyncInv'
<1>1. ASSUME NEW u \in Updates
      PROVE  /\ \A links \in Choices : Calendar!Edit(u, links) => Sync!Edit(u, links)
             /\ Calendar!Crash(u) => Sync!Crash(u)
  BY DEF Calendar!Edit, Calendar!Crash, Calendar!Become, Calendar!Idle, Calendar!Fail,
     Calendar!tables, Calendar!past,
     Sync!Edit, Sync!Crash, Sync!Become, Sync!Idle, Sync!Fail, Sync!tables, Sync!past
<1>2. ASSUME NEW u \in Updates, Calendar!Run(u) PROVE Sync!Run(u)
  BY <1>2 DEF Calendar!Run, Calendar!CreateCalendars, Calendar!FindCalendars,
     Calendar!NextBlock, Calendar!Finish, Calendar!Import, Calendar!Fetch, Calendar!Destroy,
     Calendar!Create, Calendar!EndImport, Calendar!At, Calendar!Importing, Calendar!Block,
     Calendar!BlockDone, Calendar!Become, Calendar!Idle, Calendar!tables, Calendar!past,
     Calendar!counts,
     Sync!Run, Sync!CreateCalendars, Sync!FindCalendars,
     Sync!NextBlock, Sync!Finish, Sync!Import, Sync!Fetch, Sync!Destroy,
     Sync!Create, Sync!EndImport, Sync!At, Sync!Importing, Sync!Block,
     Sync!BlockDone, Sync!Become, Sync!Idle, Sync!tables, Sync!past, Sync!counts
<1>3. ASSUME NEW u \in Updates, NEW i \in DOMAIN update[u].block, Calendar!ImportFails(u, i)
      PROVE  Sync!ImportFails(u, i)
  BY <1>3 DEF Calendar!ImportFails, Calendar!EndImport, Calendar!Fail, Calendar!tables,
     Calendar!past, Sync!ImportFails, Sync!EndImport, Sync!Fail, Sync!tables, Sync!past
<1>4. ASSUME NEW l \in Links, Calendar!Publish(l) PROVE Sync!Publish(l)
  BY <1>4 DEF Calendar!Publish, Calendar!tables, Calendar!past, Calendar!counts,
     Sync!Publish, Sync!tables, Sync!past, Sync!counts
<1>5. Calendar!Next => Sync!Next
  BY <1>1, <1>2, <1>3, <1>4 DEF Calendar!Next, Sync!Next
<1>6. UNCHANGED calendarVars => UNCHANGED Sync!vars
  BY DEF calendarVars, Sync!vars, Sync!tables, Sync!past, Sync!counts
<1> QED
  BY <1>5, <1>6, AvailabilityAssumption, Sync!SyncNext

LEMMA SyncImport ==
  ASSUME Sync!SyncInv, NEW l \in Links, ~overlapped[l], reservations[l] # << >>
  PROVE  reservations[l] = <<newest[l]>>
  BY DEF Sync!SyncInv, Sync!Clean

-----------------------------------------------------------------------------
(* What the queries find is finite.                                         *)

LEMMA Rows ==
  ASSUME Calendar!TypeOK, NEW l \in Links, NEW stay, NEW i \in DOMAIN reservations[l]
  PROVE  LET T == {t \in StaysOf[l][reservations[l][i]] : Overlap(t, stay)}
         IN  IsFiniteSet(T) /\ IsFiniteSet({<<l, i, s>> : s \in T})
<1> DEFINE S == StaysOf[l][reservations[l][i]]
           T == {t \in S : Overlap(t, stay)}
           R == {<<l, i, s>> : s \in T}
           f == [s \in T |-> <<l, i, s>>]
<1>1. IsFiniteSet(S)
  BY AvailabilityAssumption DEF Calendar!TypeOK, Calendar!Versions
<1>2. IsFiniteSet(T)
  <2>1. T \in SUBSET S
    OBVIOUS
  <2> HIDE DEF S, T
  <2> QED
    BY <1>1, <2>1, FS_Subset
<1>3. f \in Surjection(T, R)
  <2> HIDE DEF T
  <2> QED
    BY DEF Surjection
<1> HIDE DEF T, R, f
<1>4. IsFiniteSet(R)
  BY <1>2, <1>3, FS_Surjection
<1> QED
  BY <1>2, <1>4 DEF T, R

LEMMA InRangeFinite ==
  ASSUME Calendar!TypeOK, NEW l \in Links, NEW stay
  PROVE  IsFiniteSet(InRange(l, stay))
<1> DEFINE Found(i) == {<<l, i, s>> : s \in {t \in StaysOf[l][reservations[l][i]] : Overlap(t, stay)}}
           D == DOMAIN reservations[l]
           F == {Found(i) : i \in D}
           f == [i \in D |-> Found(i)]
<1>1. \A i \in D : IsFiniteSet(Found(i))
  BY Rows
<1>2. IsFiniteSet(D)
  <2>1. D = 1..Len(reservations[l]) /\ Len(reservations[l]) \in Nat
    BY DEF Calendar!TypeOK
  <2> QED
    BY <2>1, FS_Interval
<1>3. f \in Surjection(D, F)
  <2> HIDE DEF Found, D
  <2> QED
    BY DEF Surjection
<1>4. InRange(l, stay) = UNION F
  BY DEF InRange
<1>5. \A T \in F : IsFiniteSet(T)
  <2> HIDE DEF Found
  <2> QED
    BY <1>1
<1> HIDE DEF F, f, D
<1>6. IsFiniteSet(F)
  BY <1>2, <1>3, FS_Surjection
<1> QED
  BY <1>4, <1>5, <1>6, FS_UNION

Reserved(stay) == UNION {InRange(l, stay) : l \in Links}

LEMMA ReservedFinite ==
  ASSUME Calendar!TypeOK, NEW stay
  PROVE  IsFiniteSet(Reserved(stay))
<1> DEFINE F == {InRange(l, stay) : l \in Links}
           f == [l \in Links |-> InRange(l, stay)]
<1>1. f \in Surjection(Links, F)
  BY DEF Surjection
<1>2. \A T \in F : IsFiniteSet(T)
  BY InRangeFinite
<1>3. IsFiniteSet(Links)
  BY AvailabilityAssumption
<1>4. Reserved(stay) = UNION F
  BY DEF Reserved
<1> HIDE DEF F, f
<1>5. IsFiniteSet(F)
  BY <1>1, <1>3, FS_Surjection
<1> QED
  BY <1>2, <1>4, <1>5, FS_UNION

LEMMA OverlappingFinite == \A b \in Bookings : IsFiniteSet(OverlappingBookings(b))
<1> SUFFICES ASSUME NEW b \in Bookings PROVE IsFiniteSet(OverlappingBookings(b))
  OBVIOUS
<1>1. OverlappingBookings(b) \in SUBSET Bookings
  BY DEF OverlappingBookings
<1> QED
  BY <1>1, FS_Subset, AvailabilityAssumption

\* The only import a link has is found stay by stay.
LEMMA AtLeastTheImport ==
  ASSUME Calendar!TypeOK, NEW l \in Links, NEW stay, NEW n, reservations[l] = <<n>>
  PROVE  Cardinality({s \in StaysOf[l][n] : Overlap(s, stay)}) <= Cardinality(Reserved(stay))
<1> DEFINE T == {s \in StaysOf[l][n] : Overlap(s, stay)}
           R == Reserved(stay)
           f == [s \in T |-> <<l, 1, s>>]
           Found(i) == {<<l, i, s>> : s \in {t \in StaysOf[l][reservations[l][i]] : Overlap(t, stay)}}
<1>1. \A s \in T : <<l, 1, s>> \in R
  <2>1. 1 \in DOMAIN reservations[l] /\ reservations[l][1] = n
    OBVIOUS
  <2>2. \A s \in T : <<l, 1, s>> \in Found(1)
    BY <2>1
  <2>3. InRange(l, stay) = UNION {Found(i) : i \in DOMAIN reservations[l]}
    BY DEF InRange
  <2> HIDE DEF Found, T
  <2>4. \A s \in T : <<l, 1, s>> \in InRange(l, stay)
    BY <2>1, <2>2, <2>3
  <2> QED
    BY <2>4 DEF Reserved
<1>2. f \in Injection(T, R)
  <2> HIDE DEF T, R
  <2> QED
    BY <1>1 DEF Injection, IsInjective
<1>3. IsFiniteSet(R)
  BY ReservedFinite
<1> HIDE DEF T, R, f
<1>4. Cardinality(T) <= Cardinality(R)
  BY <1>2, <1>3, FS_Injection
<1> QED
  BY <1>4 DEF T, R

-----------------------------------------------------------------------------
(* The bookings: who holds the nights.                                      *)

BookTypes ==
  /\ status \in [Bookings -> Statuses \cup {"none"}]
  /\ req \in [Requests -> Request]
  /\ via \in [Bookings -> {"none", "asked", "unasked"}]
  /\ raced \subseteq SUBSET Bookings

\* Booking c holds nights of b and is none of those b may not have seen.
Unseen(b, c) ==
  b # c /\ Holds(c) /\ Overlap(Stay[c], Stay[b]) /\ via[c] # "unasked" /\ {b, c} \notin raced

Missed(r) == \E c \in Bookings : Unseen(req[r].b, c)

\* A confirmation that is past its query has missed no booking that holds nights
\* without having come to them unasked or while it was under way.
BookInv ==
  /\ BookTypes
  /\ NightsCollideOnlyUnasked
  /\ \A r \in Requests : Confirming(r) => ~Missed(r)

LEMMA IdleRequest ==
  /\ Idle \in Request
  /\ Idle.pc = "idle" /\ Idle.todo = {} /\ Idle.found = 0 /\ Idle.asked = FALSE
<1> DEFINE b0 == CHOOSE b \in Bookings : TRUE
<1>1. b0 \in Bookings
  BY AvailabilityAssumption
<1>2. {} \in SUBSET Queries
  OBVIOUS
<1> HIDE DEF b0
<1>3. [pc |-> "idle", b |-> b0, todo |-> {}, found |-> 0, asked |-> FALSE] \in Request
  BY <1>1, <1>2 DEF Request
<1>4. Idle = [pc |-> "idle", b |-> b0, todo |-> {}, found |-> 0, asked |-> FALSE]
  BY DEF Idle, b0
<1> QED
  BY <1>3, <1>4

\* Request r is put at e.
Put(r, e) == req' = [req EXCEPT ![r] = e]

\* Nothing new is confirmed past its query.
Quiet(r) ==
  \E e \in Request :
    /\ Put(r, e)
    /\ e.asked /\ e.pc \in {"load", "confirm"} => Confirming(r) /\ e.b = req[r].b

\* Request r at label, for booking b.
Anew(label, b) == [Idle EXCEPT !.pc = label, !.b = b]

LEMMA Fresh ==
  ASSUME NEW b \in Bookings,
         NEW label \in {"insert", "count", "overlap", "load", "confirm", "expire"}
  PROVE  Anew(label, b) \in Request /\ Anew(label, b).asked = FALSE
<1> DEFINE d == [Idle EXCEPT !.pc = label]
<1>1. d \in Request /\ d.asked = FALSE
  BY IdleRequest DEF Request
<1> HIDE DEF d
<1>2. [d EXCEPT !.b = b] \in Request /\ [d EXCEPT !.b = b].asked = FALSE
  BY <1>1 DEF Request
<1> QED
  BY <1>2 DEF d, Anew

LEMMA BeginQuiet ==
  ASSUME NEW r \in Requests, NEW b \in Bookings,
         NEW label \in {"insert", "count", "overlap", "load", "confirm", "expire"},
         Begin(r, b, label)
  PROVE  Quiet(r)
<1>1. Put(r, Anew(label, b))
  BY DEF Begin, Put, Anew
<1> QED
  BY <1>1, Fresh DEF Quiet

LEMMA EndQuiet ==
  ASSUME NEW r \in Requests, GoTo(r, "idle")
  PROVE  Quiet(r)
<1>1. Put(r, Idle)
  BY DEF GoTo, Put
<1> QED
  BY <1>1, IdleRequest DEF Quiet

LEMMA WithQuotesQuiet ==
  ASSUME NEW r \in Requests, NEW b \in Bookings, CreateBookingWithQuotes(r, b)
  PROVE  Quiet(r)
<1> DEFINE d == Anew("count", b)
           e == [d EXCEPT !.todo = Queries]
<1>1. d \in Request /\ d.asked = FALSE
  BY Fresh
<1>2. Put(r, e)
  BY DEF CreateBookingWithQuotes, Put, Anew
<1> HIDE DEF d
<1>3. e \in Request /\ e.asked = FALSE
  BY <1>1 DEF Request
<1> HIDE DEF e
<1> QED
  BY <1>2, <1>3 DEF Quiet

\* What one of the queries of the createBooking mutation finds.
Finds(query, b) ==
  IF query = "bookings" THEN OverlappingBookings(b) ELSE Reserved(Stay[b])

\* One of the queries answers, and the other is still to come.
Answers(r, todo, found) == req' = [req EXCEPT ![r].todo = todo, ![r].found = found]

LEMMA AnswersQuiet ==
  ASSUME BookTypes, NEW r \in Requests, NEW todo \in SUBSET Queries, NEW found \in Nat,
         req[r].pc = "count", Answers(r, todo, found)
  PROVE  Quiet(r) /\ req'[r].pc = "count"
<1> DEFINE d == [req[r] EXCEPT !.todo = todo]
           e == [d EXCEPT !.found = found]
           f == [req EXCEPT ![r] = d]
<1>1. req \in [Requests -> Request] /\ req[r] \in Request
  BY DEF BookTypes
<1>2. d \in Request /\ d.pc = "count"
  BY <1>1 DEF Request
<1>3. f[r] = d
  BY <1>1
<1>4. req' = [f EXCEPT ![r] = [f[r] EXCEPT !.found = found]]
  BY DEF Answers
<1> HIDE DEF d
<1>5. e \in Request /\ e.pc = "count"
  BY <1>2 DEF Request
<1>6. req' = [f EXCEPT ![r] = e]
  BY <1>3, <1>4
<1> HIDE DEF e
<1>7. Put(r, e) /\ req'[r] = e
  BY <1>1, <1>6 DEF Put
<1> QED
  BY <1>5, <1>7 DEF Quiet

\* Count takes this query: what it then does, and what the second answer decides.
Counts(r, query) ==
  LET found == req[r].found + Cardinality(Finds(query, req[r].b))
      todo == req[r].todo \ {query}
  IN  /\ found \in Nat /\ todo \in SUBSET Queries
      /\ \/ Answers(r, todo, found)
         \/ todo = {} /\ found < Quantity /\ Put(r, Anew("insert", req[r].b))
         \/ GoTo(r, "idle")

LEMMA CountCases ==
  ASSUME BookTypes, Calendar!TypeOK, NEW r \in Requests, Count(r)
  PROVE  \E query \in req[r].todo : Counts(r, query)
<1>1. PICK query \in req[r].todo :
        LET found == req[r].found + Cardinality(Finds(query, req[r].b))
            todo == req[r].todo \ {query}
        IN IF todo # {}
           THEN req' = [req EXCEPT ![r].todo = todo, ![r].found = found]
           ELSE IF found < Quantity
           THEN req' = [req EXCEPT ![r] = [Idle EXCEPT !.pc = "insert", !.b = req[r].b]]
           ELSE GoTo(r, "idle")
  BY DEF Count, Finds, Reserved
<1> DEFINE found == req[r].found + Cardinality(Finds(query, req[r].b))
           todo == req[r].todo \ {query}
<1>2. req[r] \in Request /\ req[r].found \in Nat /\ req[r].b \in Bookings
      /\ req[r].todo \in SUBSET Queries
  BY DEF BookTypes, Request
<1>3. IsFiniteSet(Finds(query, req[r].b))
  BY <1>2, OverlappingFinite, ReservedFinite DEF Finds
<1>4. found \in Nat /\ todo \in SUBSET Queries
  BY <1>2, <1>3, FS_CardinalityType
<1>5. CASE todo # {}
  BY <1>1, <1>4, <1>5 DEF Answers, Counts
<1>6. CASE todo = {}
  BY <1>1, <1>4, <1>6 DEF Put, Counts, Anew
<1> QED
  BY <1>5, <1>6

\* A request that is put somewhere leaves the others where they are.
LEMMA Putting ==
  ASSUME BookTypes, NEW r \in Requests, NEW e \in Request, Put(r, e)
  PROVE  /\ req' \in [Requests -> Request] /\ req'[r] = e
         /\ \A s \in Requests \ {r} : req'[s] = req[s]
  BY DEF BookTypes, Put

\* A write of a status disturbs no other booking, and only the write can be how
\* the booking comes to hold its nights.
LEMMA Writing ==
  ASSUME BookTypes, NEW b \in Bookings, NEW s \in Statuses,
         NEW how \in {"none", "asked", "unasked"}, SetStatus(b, s, how)
  PROVE  /\ status' \in [Bookings -> Statuses \cup {"none"}]
         /\ via' \in [Bookings -> {"none", "asked", "unasked"}]
         /\ \A c \in Bookings \ {b} : (Holds(c)' <=> Holds(c)) /\ via'[c] = via[c]
         /\ Holds(b)' => s \notin Freed /\ via'[b] = IF Holds(b) THEN via[b] ELSE how
<1>1. status' = [status EXCEPT ![b] = s]
  BY DEF SetStatus
<1>2. via' = [via EXCEPT ![b] = IF s \in Freed THEN "none" ELSE IF Holds(b) THEN via[b] ELSE how]
  BY DEF SetStatus
<1>3. status \in [Bookings -> Statuses \cup {"none"}] /\ via \in [Bookings -> {"none", "asked", "unasked"}]
  BY DEF BookTypes
<1>4. status' \in [Bookings -> Statuses \cup {"none"}]
  BY <1>1, <1>3
<1>5. via' \in [Bookings -> {"none", "asked", "unasked"}]
  BY <1>2, <1>3
<1>6. \A c \in Bookings \ {b} : status'[c] = status[c] /\ via'[c] = via[c]
  BY <1>1, <1>2, <1>3
<1>7. status'[b] = s /\ via'[b] = IF s \in Freed THEN "none" ELSE IF Holds(b) THEN via[b] ELSE how
  BY <1>1, <1>2, <1>3
<1> QED
  BY <1>4, <1>5, <1>6, <1>7 DEF Holds

\* Whoever newly holds nights came to them unasked, and whoever is newly past the
\* query has found nobody.
LEMMA UnaskedKeeps ==
  ASSUME BookInv, BookTypes', raced' = raced,
         \A c \in Bookings : Holds(c)' => (Holds(c) /\ via'[c] = via[c]) \/ via'[c] = "unasked",
         \A r \in Requests : Confirming(r)' =>
           \/ Confirming(r) /\ req'[r].b = req[r].b
           \/ ~Missed(r)'
  PROVE  BookInv'
<1>1. NightsCollideOnlyUnasked'
  BY DEF BookInv, NightsCollideOnlyUnasked, Collide
<1>2. ASSUME NEW r \in Requests, Confirming(r)', Missed(r)'
      PROVE  FALSE
  <2>1. Confirming(r) /\ req'[r].b = req[r].b
    BY <1>2
  <2>2. PICK c \in Bookings : Unseen(req[r].b, c)'
    BY <1>2 DEF Missed
  <2>3. Unseen(req[r].b, c)
    BY <2>1, <2>2 DEF Unseen
  <2> QED
    BY <2>1, <2>3 DEF BookInv, Missed
<1> QED
  BY <1>1, <1>2 DEF BookInv

\* No status is written.
LEMMA QuietKeeps ==
  ASSUME BookInv, NEW r \in Requests, Quiet(r), UNCHANGED <<status, via, raced>>
  PROVE  BookInv'
<1>1. PICK e \in Request :
        Put(r, e) /\ (e.asked /\ e.pc \in {"load", "confirm"} => Confirming(r) /\ e.b = req[r].b)
  BY DEF Quiet
<1>2. /\ req' \in [Requests -> Request] /\ req'[r] = e
      /\ \A s \in Requests \ {r} : req'[s] = req[s]
  BY <1>1, Putting DEF BookInv
<1>3. BookTypes'
  BY <1>2 DEF BookInv, BookTypes
<1>4. \A c \in Bookings : Holds(c)' => Holds(c) /\ via'[c] = via[c]
  BY DEF Holds
<1>5. \A s \in Requests : Confirming(s)' => Confirming(s) /\ req'[s].b = req[s].b
  BY <1>1, <1>2 DEF Confirming
<1> QED
  BY <1>3, <1>4, <1>5, UnaskedKeeps

\* A status is written that holds no nights, or holds them unasked.
LEMMA WriteKeeps ==
  ASSUME BookInv, NEW b \in Bookings, NEW s \in Statuses,
         NEW how \in {"none", "asked", "unasked"}, SetStatus(b, s, how),
         how = "unasked" \/ s \in Freed,
         raced' = raced,
         UNCHANGED req \/ \E r \in Requests : Quiet(r)
  PROVE  BookInv'
<1>1. BookTypes
  BY DEF BookInv
<1>2. /\ status' \in [Bookings -> Statuses \cup {"none"}]
      /\ via' \in [Bookings -> {"none", "asked", "unasked"}]
      /\ \A c \in Bookings \ {b} : (Holds(c)' <=> Holds(c)) /\ via'[c] = via[c]
      /\ Holds(b)' => s \notin Freed /\ via'[b] = IF Holds(b) THEN via[b] ELSE how
  BY <1>1, Writing
<1>3. req' \in [Requests -> Request]
      /\ \A x \in Requests : Confirming(x)' => Confirming(x) /\ req'[x].b = req[x].b
  <2>1. CASE UNCHANGED req
    BY <1>1, <2>1 DEF BookTypes, Confirming
  <2>2. ASSUME NEW r \in Requests, Quiet(r)
        PROVE  req' \in [Requests -> Request]
               /\ \A x \in Requests : Confirming(x)' => Confirming(x) /\ req'[x].b = req[x].b
    <3>1. PICK e \in Request :
            Put(r, e) /\ (e.asked /\ e.pc \in {"load", "confirm"} => Confirming(r) /\ e.b = req[r].b)
      BY <2>2 DEF Quiet
    <3>2. /\ req' \in [Requests -> Request] /\ req'[r] = e
          /\ \A x \in Requests \ {r} : req'[x] = req[x]
      BY <1>1, <3>1, Putting
    <3> QED
      BY <3>1, <3>2 DEF Confirming
  <2> QED
    BY <2>1, <2>2
<1>4. BookTypes'
  BY <1>1, <1>2, <1>3 DEF BookTypes
<1>5. \A c \in Bookings : Holds(c)' => (Holds(c) /\ via'[c] = via[c]) \/ via'[c] = "unasked"
  BY <1>2
<1> QED
  BY <1>3, <1>4, <1>5, UnaskedKeeps

LEMMA CheckOverlapInv ==
  ASSUME BookInv, NEW r \in Requests, CheckOverlap(r)
  PROVE  BookInv'
<1>1. BookTypes
  BY DEF BookInv
<1>2. CASE GoTo(r, "idle")
  BY <1>2, EndQuiet, QuietKeeps DEF CheckOverlap
<1>3. CASE OverlappingBookings(req[r].b) = {}
           /\ req' = [req EXCEPT ![r].pc = "load", ![r].asked = TRUE]
  <2> DEFINE d == [req[r] EXCEPT !.pc = "load"]
             e == [d EXCEPT !.asked = TRUE]
             f == [req EXCEPT ![r] = d]
  <2>1. req \in [Requests -> Request] /\ req[r] \in Request
    BY <1>1 DEF BookTypes
  <2>2. d \in Request /\ d.b = req[r].b
    BY <2>1 DEF Request
  <2>3. f[r] = d
    BY <2>1
  <2>4. req' = [f EXCEPT ![r] = [f[r] EXCEPT !.asked = TRUE]]
    BY <1>3
  <2> HIDE DEF d
  <2>5. e \in Request /\ e.b = req[r].b
    BY <2>2 DEF Request
  <2>6. req' = [f EXCEPT ![r] = e]
    BY <2>3, <2>4
  <2> HIDE DEF e
  <2>7. req' \in [Requests -> Request] /\ req'[r] = e /\ \A s \in Requests \ {r} : req'[s] = req[s]
    BY <2>1, <2>5, <2>6
  <2>8. UNCHANGED <<status, via, raced>>
    BY DEF CheckOverlap
  <2>9. BookTypes'
    BY <1>1, <2>7, <2>8 DEF BookTypes
  <2>10. \A c \in Bookings : Holds(c)' => Holds(c) /\ via'[c] = via[c]
    BY <2>8 DEF Holds
  <2>11. ~Missed(r)'
    <3>1. \A c \in Bookings : ~Unseen(req[r].b, c)
      BY <1>3 DEF Unseen, OverlappingBookings
    <3>2. SUFFICES ASSUME NEW c \in Bookings, Unseen(req[r].b, c)' PROVE FALSE
      BY DEF Missed
    <3>3. req'[r].b = req[r].b
      BY <2>5, <2>7
    <3>4. Unseen(req[r].b, c)
      BY <2>8, <2>10, <3>2, <3>3 DEF Unseen
    <3> QED
      BY <3>1, <3>4
  <2>12. \A s \in Requests \ {r} : Confirming(s)' => Confirming(s) /\ req'[s].b = req[s].b
    BY <2>7 DEF Confirming
  <2> QED
    BY <2>8, <2>9, <2>10, <2>11, <2>12, UnaskedKeeps
<1> QED
  BY <1>2, <1>3 DEF CheckOverlap

LEMMA ConfirmInv ==
  ASSUME BookInv, NEW r \in Requests, Confirm(r)
  PROVE  BookInv'
<1> DEFINE rivals == {{req[r].b, req[s].b} : s \in {s \in Requests \ {r} : Confirming(s)}}
<1>1. BookTypes /\ GoTo(r, "idle") /\ req[r].pc = "confirm" /\ Quiet(r)
  BY EndQuiet DEF BookInv, Confirm
<1>2. CASE UNCHANGED <<status, via, raced>>
  BY <1>1, <1>2, QuietKeeps
<1>3. CASE /\ SetStatus(req[r].b, "guest_confirmed", IF req[r].asked THEN "asked" ELSE "unasked")
           /\ raced' = raced \cup rivals
  <2>1. req[r].b \in Bookings /\ req \in [Requests -> Request] /\ req[r].asked \in BOOLEAN
    BY <1>1 DEF BookTypes, Request
  <2> PICK b \in Bookings : b = req[r].b
    BY <2>1
  <2> PICK how \in {"none", "asked", "unasked"} : how = IF req[r].asked THEN "asked" ELSE "unasked"
    OBVIOUS
  <2>2. "guest_confirmed" \in Statuses
    BY DEF Statuses
  <2>3. /\ status' \in [Bookings -> Statuses \cup {"none"}]
        /\ via' \in [Bookings -> {"none", "asked", "unasked"}]
        /\ \A c \in Bookings \ {b} : (Holds(c)' <=> Holds(c)) /\ via'[c] = via[c]
        /\ Holds(b)' => via'[b] = IF Holds(b) THEN via[b] ELSE how
    <3>1. SetStatus(b, "guest_confirmed", how)
      BY <1>3
    <3> QED
      BY <1>1, <2>2, <3>1, Writing
  <2>4. req' \in [Requests -> Request] /\ req'[r] = Idle
        /\ \A s \in Requests \ {r} : req'[s] = req[s]
    BY <1>1, <2>1, IdleRequest DEF GoTo
  <2>5. raced' \subseteq SUBSET Bookings /\ raced \subseteq raced'
    BY <1>1, <1>3, <2>1 DEF BookTypes, Request
  <2>6. \A s \in Requests \ {r} : Confirming(s) => {b, req[s].b} \in raced'
    BY <1>3
  <2>7. Confirming(r) \/ how = "unasked"
    BY <1>1, <2>1 DEF Confirming
  <2> HIDE DEF rivals
  \* The nights b takes now were free, or are held by who came to them unasked.
  <2>8. ASSUME NEW c \in Bookings, c # b, Holds(c), Overlap(Stay[c], Stay[b]), ~Holds(b), Holds(b)'
        PROVE  "unasked" \in {via'[b], via'[c]} \/ {b, c} \in raced'
    <3>1. CASE how = "unasked"
      BY <2>3, <2>8, <3>1
    <3>2. CASE Confirming(r)
      <4>1. ~Unseen(b, c)
        BY <3>2 DEF BookInv, Missed
      <4> QED
        BY <2>3, <2>5, <2>8, <4>1 DEF Unseen
    <3> QED
      BY <2>7, <3>1, <3>2
  <2>9. NightsCollideOnlyUnasked'
    <3> SUFFICES ASSUME NEW c \in Bookings, NEW d \in Bookings, Collide(c, d)'
                 PROVE  "unasked" \in {via'[c], via'[d]} \/ {c, d} \in raced'
      BY DEF NightsCollideOnlyUnasked
    <3>1. /\ c # d /\ Holds(c)' /\ Holds(d)'
          /\ Overlap(Stay[c], Stay[d]) /\ Overlap(Stay[d], Stay[c])
      BY DEF Collide, Overlap
    <3>2. CASE Holds(c) /\ Holds(d)
      <4>1. "unasked" \in {via[c], via[d]} \/ {c, d} \in raced
        BY <3>1, <3>2 DEF BookInv, NightsCollideOnlyUnasked, Collide
      <4>2. via'[c] = via[c] /\ via'[d] = via[d]
        BY <2>3, <3>1, <3>2
      <4> QED
        BY <2>5, <4>1, <4>2
    <3>3. CASE ~Holds(c)
      <4>1. c = b /\ Holds(d)
        BY <2>3, <3>1, <3>3
      <4> QED
        BY <2>8, <3>1, <3>3, <4>1
    <3>4. CASE ~Holds(d)
      <4>1. d = b /\ Holds(c) /\ {b, c} = {c, b}
        BY <2>3, <3>1, <3>4
      <4> QED
        BY <2>8, <3>1, <3>4, <4>1
    <3> QED
      BY <3>2, <3>3, <3>4
  <2>10. ASSUME NEW s \in Requests, Confirming(s)', Missed(s)'
         PROVE  FALSE
    <3>1. s # r /\ req'[s] = req[s] /\ Confirming(s)
      BY <2>4, <2>10, IdleRequest DEF Confirming
    <3>2. PICK c \in Bookings : Unseen(req[s].b, c)'
      BY <2>10 DEF Missed
    <3>3. /\ req[s].b # c /\ Holds(c)' /\ Overlap(Stay[c], Stay[req[s].b])
          /\ via'[c] # "unasked" /\ {req[s].b, c} \notin raced'
      BY <3>1, <3>2 DEF Unseen
    <3>4. c # b
      <4>1. {b, req[s].b} \in raced' /\ {b, req[s].b} = {req[s].b, b}
        BY <2>6, <3>1
      <4> QED
        BY <3>3, <4>1
    <3>5. Unseen(req[s].b, c)
      BY <2>3, <2>5, <3>3, <3>4 DEF Unseen
    <3> QED
      BY <3>1, <3>5 DEF BookInv, Missed
  <2>11. BookTypes'
    BY <2>3, <2>4, <2>5 DEF BookTypes
  <2> QED
    BY <2>9, <2>10, <2>11 DEF BookInv
<1> QED
  BY <1>2, <1>3 DEF Confirm

LEMMA LoadToConfirmInv ==
  ASSUME BookInv, NEW r \in Requests, LoadToConfirm(r)
  PROVE  BookInv'
<1>1. CASE GoTo(r, "idle")
  BY <1>1, EndQuiet, QuietKeeps DEF LoadToConfirm
<1>2. CASE GoTo(r, "confirm")
  <2> DEFINE e == [req[r] EXCEPT !.pc = "confirm"]
  <2>1. req[r] \in Request
    BY DEF BookInv, BookTypes
  <2>2. e \in Request /\ e.asked = req[r].asked /\ e.b = req[r].b
    BY <2>1 DEF Request
  <2>3. Put(r, e)
    BY <1>2 DEF GoTo, Put
  <2> HIDE DEF e
  <2>4. Quiet(r)
    BY <2>2, <2>3 DEF Quiet, Confirming, LoadToConfirm
  <2> QED
    BY <2>4, QuietKeeps DEF LoadToConfirm
<1> QED
  BY <1>1, <1>2 DEF LoadToConfirm

\* Insert and Expire.
LEMMA FreedInv ==
  ASSUME BookInv, NEW r \in Requests, Insert(r) \/ Expire(r)
  PROVE  BookInv'
<1>1. GoTo(r, "idle") /\ raced' = raced
  BY DEF Insert, Expire
<1>2. PICK b \in Bookings : b = req[r].b
  BY DEF BookInv, BookTypes, Request
<1>3. Quiet(r)
  BY <1>1, EndQuiet
<1>4. CASE UNCHANGED <<status, via>>
  BY <1>1, <1>3, <1>4, QuietKeeps
<1>5. CASE SetStatus(b, "started", "none")
  <2>1. "started" \in Statuses /\ "started" \in Freed
    BY DEF Statuses, Freed
  <2> QED
    BY <1>1, <1>3, <1>5, <2>1, WriteKeeps
<1>6. CASE SetStatus(b, "expired_before_guest_confirmed", "none")
  <2>1. /\ "expired_before_guest_confirmed" \in Statuses
        /\ "expired_before_guest_confirmed" \in Freed
    BY DEF Statuses, Freed
  <2> QED
    BY <1>1, <1>3, <1>6, <2>1, WriteKeeps
<1> QED
  BY <1>2, <1>4, <1>5, <1>6 DEF Insert, Expire

LEMMA WriteStatusInv ==
  ASSUME BookInv, NEW b \in Bookings, WriteStatus(b)
  PROVE  BookInv'
<1>1. PICK s \in Statuses : SetStatus(b, s, "unasked")
  BY DEF WriteStatus
<1>2. UNCHANGED <<req, raced>>
  BY DEF WriteStatus
<1> QED
  BY <1>1, <1>2, WriteKeeps

LEMMA StartInv ==
  ASSUME BookInv, NEW r \in Requests, NEW b \in Bookings, Start(r, b)
  PROVE  BookInv'
<1>1. UNCHANGED <<status, via, raced>>
  BY DEF Start, CreateBooking, CreateBookingWithQuotes, PostConfirm, GuestConfirmMutation, FindExpired
<1>2. CASE CreateBookingWithQuotes(r, b)
  BY <1>1, <1>2, WithQuotesQuiet, QuietKeeps
<1>3. CASE Begin(r, b, "insert") \/ Begin(r, b, "overlap") \/ Begin(r, b, "load") \/ Begin(r, b, "expire")
  BY <1>1, <1>3, BeginQuiet, QuietKeeps
<1> QED
  BY <1>2, <1>3 DEF Start, CreateBooking, PostConfirm, GuestConfirmMutation, FindExpired

LEMMA CountInv ==
  ASSUME BookInv, Calendar!TypeOK, NEW r \in Requests, Count(r)
  PROVE  BookInv'
<1>1. BookTypes /\ UNCHANGED <<status, via, raced>> /\ req[r].pc = "count" /\ req[r].b \in Bookings
  BY DEF BookInv, BookTypes, Count, Request
<1>2. Quiet(r)
  <2>1. PICK query \in req[r].todo : Counts(r, query)
    BY <1>1, CountCases
  <2> DEFINE found == req[r].found + Cardinality(Finds(query, req[r].b))
             todo == req[r].todo \ {query}
  <2>2. /\ found \in Nat /\ todo \in SUBSET Queries
        /\ Answers(r, todo, found) \/ Put(r, Anew("insert", req[r].b)) \/ GoTo(r, "idle")
    BY <2>1 DEF Counts
  <2> HIDE DEF found, todo
  <2>3. CASE Answers(r, todo, found)
    BY <1>1, <2>2, <2>3, AnswersQuiet
  <2>4. CASE Put(r, Anew("insert", req[r].b))
    BY <1>1, <2>4, Fresh DEF Quiet
  <2>5. CASE GoTo(r, "idle")
    BY <2>5, EndQuiet
  <2> QED
    BY <2>2, <2>3, <2>4, <2>5
<1> QED
  BY <1>1, <1>2, QuietKeeps

LEMMA BookingStepInv ==
  ASSUME BookInv, Calendar!TypeOK, BookingStep
  PROVE  BookInv'
<1>1. ASSUME NEW r \in Requests, NEW b \in Bookings, Start(r, b) PROVE BookInv'
  BY <1>1, StartInv
<1>2. ASSUME NEW r \in Requests, Step(r) PROVE BookInv'
  <2>1. CASE Count(r)
    BY <2>1, CountInv
  <2>2. CASE Insert(r) \/ Expire(r)
    BY <2>2, FreedInv
  <2>3. CASE CheckOverlap(r)
    BY <2>3, CheckOverlapInv
  <2>4. CASE LoadToConfirm(r)
    BY <2>4, LoadToConfirmInv
  <2>5. CASE Confirm(r)
    BY <2>5, ConfirmInv
  <2>6. CASE Stop(r)
    BY <2>6, EndQuiet, QuietKeeps DEF Stop
  <2> QED
    BY <1>2, <2>1, <2>2, <2>3, <2>4, <2>5, <2>6 DEF Step
<1>3. ASSUME NEW b \in Bookings, WriteStatus(b) PROVE BookInv'
  BY <1>3, WriteStatusInv
<1> QED
  BY <1>1, <1>2, <1>3 DEF BookingStep

LEMMA BookInit == Init => BookInv
<1> SUFFICES ASSUME Init PROVE BookInv
  OBVIOUS
<1>1. BookTypes
  BY IdleRequest DEF Init, BookTypes
<1>2. \A b \in Bookings : ~Holds(b)
  BY DEF Init, Holds, Statuses
<1>3. \A r \in Requests : ~Confirming(r)
  BY IdleRequest DEF Init, Confirming
<1> QED
  BY <1>1, <1>2, <1>3 DEF BookInv, NightsCollideOnlyUnasked, Collide

LEMMA BookStutter == BookInv /\ UNCHANGED bookingVars => BookInv'
<1> SUFFICES ASSUME BookInv, UNCHANGED bookingVars PROVE BookInv'
  OBVIOUS
<1>1. UNCHANGED <<status, req, via, raced>>
  BY DEF bookingVars
<1>2. BookTypes'
  BY <1>1 DEF BookInv, BookTypes
<1>3. \A c \in Bookings : Holds(c)' => Holds(c) /\ via'[c] = via[c]
  BY <1>1 DEF Holds
<1>4. \A r \in Requests : Confirming(r)' => Confirming(r) /\ req'[r].b = req[r].b
  BY <1>1 DEF Confirming
<1> QED
  BY <1>1, <1>2, <1>3, <1>4, UnaskedKeeps

Inv == BookInv /\ Sync!SyncInv

LEMMA AvailabilityInit == Init => Inv
  BY BookInit, SyncInit DEF Init, Inv

LEMMA AvailabilityNext == Inv /\ [Next]_vars => Inv'
<1> SUFFICES ASSUME Inv, [Next]_vars PROVE Inv'
  OBVIOUS
<1>1. BookInv /\ Sync!SyncInv /\ Calendar!TypeOK
  BY SyncTypes DEF Inv
<1>2. CASE BookingStep /\ UNCHANGED calendarVars
  BY <1>1, <1>2, BookingStepInv, SyncNext DEF Inv
<1>3. CASE Calendar!Next /\ UNCHANGED bookingVars
  BY <1>1, <1>3, BookStutter, SyncNext DEF Inv
<1>4. CASE UNCHANGED vars
  BY <1>1, <1>4, BookStutter, SyncNext DEF Inv, vars
<1> QED
  BY <1>2, <1>3, <1>4 DEF Next

LEMMA Invariant == Spec => []Inv
  BY AvailabilityInit, AvailabilityNext, PTL DEF Spec

\* Every variable keeps its type, what the queries of the createBooking mutation
\* count included, and so do the calendars.
THEOREM AvailabilityTypes == Spec => []TypeOK
<1>1. Inv => TypeOK
  BY SyncTypes DEF Inv, BookInv, BookTypes, TypeOK
<1> QED
  BY <1>1, Invariant, PTL

\* However many requests there are, and whatever the other handlers write: two
\* bookings hold the same night only when one of them came to hold its nights
\* without the query being asked, or their confirmations overlapped.
THEOREM NightsCollide == Spec => []NightsCollideOnlyUnasked
<1>1. Inv => NightsCollideOnlyUnasked
  BY DEF Inv, BookInv
<1> QED
  BY <1>1, Invariant, PTL

LEMMA StepPuts ==
  ASSUME BookTypes, NEW s \in Requests, Step(s)
  PROVE  \A x \in Requests \ {s} : req'[x] = req[x]
<1>1. req \in [Requests -> Request]
  BY DEF BookTypes
<1>2. CASE Count(s)
  BY <1>1, <1>2 DEF Count, GoTo
<1>3. CASE CheckOverlap(s)
  BY <1>1, <1>3 DEF CheckOverlap, GoTo
<1>4. CASE Insert(s) \/ LoadToConfirm(s) \/ Confirm(s) \/ Expire(s) \/ Stop(s)
  <2>1. PICK label \in {"idle", "confirm"} : GoTo(s, label)
    BY <1>4 DEF Insert, LoadToConfirm, Confirm, Expire, Stop
  <2> QED
    BY <1>1, <2>1 DEF GoTo
<1> QED
  BY <1>2, <1>3, <1>4 DEF Step

LEMMA KeptByCount ==
  ASSUME Inv, NEW r \in Requests, NEW l \in Links, Count(r),
         req'[r].pc = "insert", "reservations" \in req[r].todo,
         Cardinality({s \in StaysOf[l][newest[l]] : Overlap(s, Stay[req[r].b])}) >= Quantity,
         reservations[l] # << >>, ~overlapped[l]
  PROVE  FALSE
<1>1. BookTypes /\ Calendar!TypeOK /\ req[r].pc = "count" /\ req[r].found \in Nat
      /\ req \in [Requests -> Request]
  BY SyncTypes DEF Inv, BookInv, Count, BookTypes, Request
<1>2. reservations[l] = <<newest[l]>>
  BY SyncImport DEF Inv
<1>3. PICK query \in req[r].todo : Counts(r, query)
  BY <1>1, CountCases
<1> DEFINE n == Cardinality(Finds(query, req[r].b))
           found == req[r].found + n
           todo == req[r].todo \ {query}
<1>4. /\ found \in Nat /\ todo \in SUBSET Queries
      /\ \/ Answers(r, todo, found)
         \/ todo = {} /\ found < Quantity
         \/ GoTo(r, "idle")
  BY <1>3 DEF Counts
<1>5. todo = {} /\ found < Quantity
  <2>1. ~Answers(r, todo, found)
    <3> HIDE DEF todo, found
    <3> QED
      BY <1>1, <1>4, AnswersQuiet
  <2>2. ~GoTo(r, "idle")
    BY <1>1, IdleRequest DEF GoTo
  <2> QED
    BY <1>4, <2>1, <2>2
<1>6. query = "reservations"
  BY <1>5
<1>7. Quantity <= n /\ n \in Nat /\ Quantity \in Nat
  <2> DEFINE m == Cardinality({s \in StaysOf[l][newest[l]] : Overlap(s, Stay[req[r].b])})
             k == Cardinality(Reserved(Stay[req[r].b]))
  <2>1. m <= k
    BY <1>1, <1>2, AtLeastTheImport
  <2>2. k \in Nat
    BY <1>1, ReservedFinite, FS_CardinalityType
  <2>3. m \in Nat
    <3>1. newest[l] \in 0..MaxVersion
      BY <1>1 DEF Calendar!TypeOK, Calendar!Versions
    <3> DEFINE S == StaysOf[l][newest[l]]
               T == {s \in S : Overlap(s, Stay[req[r].b])}
    <3>2. IsFiniteSet(S)
      BY <3>1, AvailabilityAssumption
    <3>3. T \in SUBSET S
      OBVIOUS
    <3> HIDE DEF S
    <3> QED
      BY <3>2, <3>3, FS_Subset, FS_CardinalityType DEF S
  <2>4. n = k
    BY <1>6 DEF Finds
  <2>5. m >= Quantity /\ Quantity \in Nat
    BY AvailabilityAssumption
  <2> HIDE DEF m, k, n
  <2> QED
    BY <2>1, <2>2, <2>3, <2>4, <2>5
<1> HIDE DEF n
<1> QED
  BY <1>1, <1>5, <1>7

\* A booking that the createBooking mutation accepts takes no night the last
\* import of a calendar has reserved as often as there are rooms, unless the
\* link's reservations are empty between the two statements of an import, or
\* after one that failed, or imports of the link overlapped.
THEOREM ImportedNights == Spec => ImportedNightsAreKept
<1> DEFINE Kept ==
      \A r \in Requests, l \in Links :
        /\ req[r].pc = "count" /\ req'[r].pc = "insert"
        /\ "reservations" \in req[r].todo
        /\ Cardinality({s \in StaysOf[l][newest[l]] : Overlap(s, Stay[req[r].b])}) >= Quantity
        => reservations[l] = << >> \/ overlapped[l]
<1>1. ASSUME Inv, [Next]_vars PROVE Kept
  <2> SUFFICES ASSUME NEW r \in Requests, NEW l \in Links,
                      req[r].pc = "count", req'[r].pc = "insert", "reservations" \in req[r].todo,
                      Cardinality({s \in StaysOf[l][newest[l]] : Overlap(s, Stay[req[r].b])}) >= Quantity,
                      reservations[l] # << >>, ~overlapped[l]
               PROVE  FALSE
    OBVIOUS
  <2>1. req[r] # Idle /\ req'[r] # req[r] /\ req \in [Requests -> Request]
    BY <1>1, IdleRequest DEF Inv, BookInv, BookTypes
  <2>2. BookingStep
    BY <1>1, <2>1 DEF Next, vars, bookingVars
  <2>3. ~\E b \in Bookings : WriteStatus(b)
    BY <2>1 DEF WriteStatus
  <2>4. ~\E s \in Requests, b \in Bookings : Start(s, b)
    <3> SUFFICES ASSUME NEW s \in Requests, NEW b \in Bookings, Start(s, b) PROVE FALSE
      OBVIOUS
    <3>1. req[s] = Idle /\ \A x \in Requests \ {s} : req'[x] = req[x]
      BY <2>1 DEF Start, Begin, CreateBooking, CreateBookingWithQuotes, PostConfirm,
           GuestConfirmMutation, FindExpired
    <3> QED
      BY <2>1, <3>1
  <2>5. PICK s \in Requests : Step(s)
    BY <2>2, <2>3, <2>4 DEF BookingStep
  <2>6. s = r
    BY <1>1, <2>1, <2>5, StepPuts DEF Inv, BookInv
  <2>7. ~Stop(r)
    BY <2>1, IdleRequest DEF Stop, GoTo
  <2>8. Count(r)
    BY <2>5, <2>6, <2>7 DEF Step, Insert, CheckOverlap, LoadToConfirm, Confirm, Expire
  <2> QED
    BY <1>1, <2>8, KeptByCount
<1>2. [][Inv /\ [Next]_vars => Kept]_vars
  BY <1>1, PTL
<1> QED
  BY <1>1, Invariant, PTL DEF Spec, ImportedNightsAreKept
=============================================================================
