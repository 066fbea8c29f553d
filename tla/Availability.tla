---------------------------- MODULE Availability ----------------------------
(***************************************************************************)
(* Who holds the nights of a listing.                                      *)
(*                                                                         *)
(* A booking holds its nights by its status alone: the query               *)
(* Booking.findOverlappingBookings counts every status but eight.          *)
(* POST /bookings and POST /confirm ask it before they write; the          *)
(* createBooking mutation also counts the reservations imported from other *)
(* sites; the guestConfirmBooking mutation, and every other handler that   *)
(* sets a status, asks nothing.  Nothing locks the nights between a query  *)
(* and the write it allows.                                                *)
(*                                                                         *)
(* What else a booking goes through is in module BookingFlow: here a write *)
(* of the status by any handler but a confirmation and the expiration,     *)
(* which look at the status, is one step.  The reservations are those of   *)
(* module CalendarSync, which runs beside it.                              *)
(***************************************************************************)
EXTENDS BookingRules, Sequences, FiniteSets

CONSTANTS
  Bookings,
  Stay,      \* the nights of each booking: from `from' up to but without `to'
  Quantity,  \* listing.meta.totalQuantity
  Requests,  \* request slots
  Calls,     \* bound: the handlers that are called in a run
  StaysOf,   \* the stays in each version of the calendar of each link
  \* As in CalendarSync:
  Links, Choices, Updates, BlockSize, MaxVersion, MaxEdits, MaxFailures

Stays == [from : Nat, to : Nat]

ASSUME AvailabilityAssumption ==
  /\ Bookings # {} /\ IsFiniteSet(Bookings)
  /\ Stay \in [Bookings -> Stays]
  /\ \A b \in Bookings : Stay[b].from < Stay[b].to
  /\ Quantity \in Nat \ {0}
  /\ IsFiniteSet(Links)
  /\ StaysOf \in [Links -> [0..MaxVersion -> SUBSET Stays]]
  /\ \A l \in Links, n \in 0..MaxVersion : IsFiniteSet(StaysOf[l][n])
  \* As in CalendarSync:
  /\ Choices \subseteq Seq(Links)
  /\ BlockSize \in Nat \ {0}
  /\ MaxVersion \in Nat /\ MaxEdits \in Nat /\ MaxFailures \in Nat

VARIABLES
  status,  \* the status of each booking
  req,     \* the requests
  via,     \* history: how each booking came to hold its nights
  raced,   \* history: the pairs of bookings whose confirmations overlapped
  \* As in CalendarSync:
  calendars, reservations, published, update, newest, overlapped, edits, failures

Calendar == INSTANCE CalendarSync

bookingVars == <<status, req, via, raced>>
calendarVars ==
  <<calendars, reservations, published, update, newest, overlapped, edits, failures>>
vars == <<bookingVars, calendarVars>>

-----------------------------------------------------------------------------
(* The queries.                                                             *)

\* The statuses findOverlappingBookings leaves out.
Freed ==
  { "started", "expired_before_guest_confirmed", "guest_cancelled", "guest_rejected",
    "guest_rejected_payment", "host_rejected", "host_cancelled",
    "expired_before_host_approved" }

Holds(b) == status[b] \in Statuses \ Freed

\* Mutant: a stay that lies within the other is not found.
OverlapAtStart(s, t) == s.from < t.to /\ t.from <= s.from

\* The where clauses of findOverlappingBookings and Reservation.findInRange.
Overlap(s, t) == s.from < t.to /\ t.from < s.to

\* findOverlappingBookings for the stay of booking b, b itself left out.
OverlappingBookings(b) == {c \in Bookings \ {b} : Holds(c) /\ Overlap(Stay[c], Stay[b])}

\* The rows of link l that Reservation.findInRange finds: import i, stay s.
InRange(l, stay) ==
  UNION { {<<l, i, s>> : s \in {t \in StaysOf[l][reservations[l][i]] : Overlap(t, stay)}} :
          i \in DOMAIN reservations[l] }

-----------------------------------------------------------------------------
(* The requests.                                                            *)

Queries == {"reservations", "bookings"}

\* pc is the await the request is suspended at; found, what the queries of
\* todo that have answered found; asked, whether a confirmation has asked for
\* overlapping bookings.
Request ==
  [ pc    : {"idle", "insert", "count", "overlap", "load", "confirm", "expire"},
    b     : Bookings,
    todo  : SUBSET Queries,
    found : Nat,
    asked : BOOLEAN ]

Idle ==
  [ pc |-> "idle", b |-> CHOOSE b \in Bookings : TRUE, todo |-> {}, found |-> 0,
    asked |-> FALSE ]

Begin(r, b, label) ==
  /\ req[r] = Idle
  /\ req' = [req EXCEPT ![r] = [Idle EXCEPT !.pc = label, !.b = b]]

GoTo(r, label) ==
  req' = [req EXCEPT ![r] = IF label = "idle" THEN Idle ELSE [req[r] EXCEPT !.pc = label]]

\* The status is written; from not holding to holding it came by `how'.
SetStatus(b, s, how) ==
  /\ status' = [status EXCEPT ![b] = s]
  /\ via' = [via EXCEPT ![b] = IF s \in Freed THEN "none" ELSE IF Holds(b) THEN @ ELSE how]

-----------------------------------------------------------------------------
(* Creating.                                                                *)

\* POST /bookings: pricing.validate has found no overlapping booking.
CreateBooking(r, b) ==
  /\ status[b] = "none"
  /\ OverlappingBookings(b) = {}
  /\ Begin(r, b, "insert")
  /\ UNCHANGED <<status, via, raced>>

\* The createBooking mutation calls ReservationService.getReservations.
CreateBookingWithQuotes(r, b) ==
  /\ status[b] = "none"
  /\ req[r] = Idle
  /\ req' = [req EXCEPT ![r] = [Idle EXCEPT !.pc = "count", !.b = b, !.todo = Queries]]
  /\ UNCHANGED <<status, via, raced>>

\* Mutant: full is more than Quantity.
CountPastQuantity(r) ==
  /\ req[r].pc = "count"
  /\ \E query \in req[r].todo :
       LET b == req[r].b
           rows == IF query = "bookings" THEN OverlappingBookings(b)
                   ELSE UNION {InRange(l, Stay[b]) : l \in Links}
           found == req[r].found + Cardinality(rows)
           todo == req[r].todo \ {query}
       IN IF todo # {}
          THEN req' = [req EXCEPT ![r].todo = todo, ![r].found = found]
          ELSE IF found <= Quantity
          THEN req' = [req EXCEPT ![r] = [Idle EXCEPT !.pc = "insert", !.b = b]]
          ELSE GoTo(r, "idle")
  /\ UNCHANGED <<status, via, raced>>

\* One of the two queries answers; the second decides.
Count(r) ==
  /\ req[r].pc = "count"
  /\ \E query \in req[r].todo :
       LET b == req[r].b
           rows == IF query = "bookings" THEN OverlappingBookings(b)
                   ELSE UNION {InRange(l, Stay[b]) : l \in Links}
           found == req[r].found + Cardinality(rows)
           todo == req[r].todo \ {query}
       IN IF todo # {}
          THEN req' = [req EXCEPT ![r].todo = todo, ![r].found = found]
          ELSE IF found < Quantity
          THEN req' = [req EXCEPT ![r] = [Idle EXCEPT !.pc = "insert", !.b = b]]
          ELSE GoTo(r, "idle")
  /\ UNCHANGED <<status, via, raced>>

\* Mutant: column booking_status has no default value.
InsertUnset(r) ==
  /\ req[r].pc = "insert"
  /\ IF status[req[r].b] = "none"
     THEN SetStatus(req[r].b, "null", "none")
     ELSE UNCHANGED <<status, via>>
  /\ GoTo(r, "idle")
  /\ UNCHANGED raced

\* booking.save(), with the default status
Insert(r) ==
  /\ req[r].pc = "insert"
  /\ IF status[req[r].b] = "none"
     THEN SetStatus(req[r].b, "started", "none")
     ELSE UNCHANGED <<status, via>>
  /\ GoTo(r, "idle")
  /\ UNCHANGED raced

-----------------------------------------------------------------------------
(* Confirming.                                                              *)

\* POST /confirm has loaded a booking that is started.
PostConfirm(r, b) ==
  /\ status[b] = "started"
  /\ Begin(r, b, "overlap")
  /\ UNCHANGED <<status, via, raced>>

\* Mutant: an overlapping booking does not stop the confirmation.
CheckOverlapIgnored(r) ==
  /\ req[r].pc = "overlap"
  /\ req' = [req EXCEPT ![r].pc = "load", ![r].asked = TRUE]
  /\ UNCHANGED <<status, via, raced>>

CheckOverlap(r) ==
  /\ req[r].pc = "overlap"
  /\ IF OverlappingBookings(req[r].b) = {}
     THEN req' = [req EXCEPT ![r].pc = "load", ![r].asked = TRUE]
     ELSE GoTo(r, "idle")
  /\ UNCHANGED <<status, via, raced>>

\* The guestConfirmBooking mutation.
GuestConfirmMutation(r, b) ==
  /\ status[b] # "none"
  /\ Begin(r, b, "load")
  /\ UNCHANGED <<status, via, raced>>

\* guestConfirmBooking has loaded the booking.
LoadToConfirm(r) ==
  /\ req[r].pc = "load"
  /\ GoTo(r, IF status[req[r].b] = "started" THEN "confirm" ELSE "idle")
  /\ UNCHANGED <<status, via, raced>>

\* Past its query, the confirmation of another booking is under way.
Confirming(r) == req[r].asked /\ req[r].pc \in {"load", "confirm"}

\* bookingWithCreditsApplied.update({ status: 'guest_confirmed' }), unless
\* the credit is refused first.
Confirm(r) ==
  /\ req[r].pc = "confirm"
  /\ \/ /\ SetStatus(req[r].b, "guest_confirmed", IF req[r].asked THEN "asked" ELSE "unasked")
        /\ raced' = raced \cup {{req[r].b, req[s].b} : s \in {s \in Requests \ {r} : Confirming(s)}}
     \/ UNCHANGED <<status, via, raced>>
  /\ GoTo(r, "idle")

-----------------------------------------------------------------------------
(* Everything else that sets the status.                                    *)

\* The statuses the other handlers write, from whichever status.
WrittenBy ==
  [ approveBooking     |-> {"host_approved", "host_paid"},
    payoutBooking      |-> {"host_paid"},
    hostCancel         |-> {"host_cancelled", "refund_initiated"},
    guestCancel        |-> {"guest_cancelled", "guest_cancel_initiated", "guest_rejected"},
    rejectBooking      |-> {"host_rejected"},
    guestRejectPayment |-> {"guest_rejected_payment"},
    event              |-> {EventTarget[event] : event \in ContractEvents} ]

WriteStatus(b) ==
  /\ status[b] # "none"
  /\ \E handler \in Calls \cap DOMAIN WrittenBy, s \in Statuses :
       /\ s \in WrittenBy[handler]
       /\ SetStatus(b, s, "unasked")
  /\ UNCHANGED <<req, raced>>

\* POST /expire has found the booking, and saves it.
FindExpired(r, b) ==
  /\ status[b] = "started"
  /\ Begin(r, b, "expire")
  /\ UNCHANGED <<status, via, raced>>

Expire(r) ==
  /\ req[r].pc = "expire"
  /\ SetStatus(req[r].b, "expired_before_guest_confirmed", "none")
  /\ GoTo(r, "idle")
  /\ UNCHANGED raced

\* The server process stops.
Stop(r) ==
  /\ req[r] # Idle
  /\ GoTo(r, "idle")
  /\ UNCHANGED <<status, via, raced>>

-----------------------------------------------------------------------------
Init ==
  /\ status = [b \in Bookings |-> "none"]
  /\ req = [r \in Requests |-> Idle]
  /\ via = [b \in Bookings |-> "none"]
  /\ raced = {}
  /\ Calendar!Init

Start(r, b) ==
  \/ "createBooking" \in Calls /\ CreateBooking(r, b)
  \/ "createBookingWithQuotes" \in Calls /\ CreateBookingWithQuotes(r, b)
  \/ "postConfirm" \in Calls /\ PostConfirm(r, b)
  \/ "guestConfirmBooking" \in Calls /\ GuestConfirmMutation(r, b)
  \/ "expire" \in Calls /\ FindExpired(r, b)

Step(r) ==
  \/ Count(r) \/ Insert(r) \/ CheckOverlap(r) \/ LoadToConfirm(r) \/ Confirm(r)
  \/ Expire(r) \/ Stop(r)

BookingStep ==
  \/ \E r \in Requests, b \in Bookings : Start(r, b)
  \/ \E r \in Requests : Step(r)
  \/ \E b \in Bookings : WriteStatus(b)

Next ==
  \/ BookingStep /\ UNCHANGED calendarVars
  \/ Calendar!Next /\ UNCHANGED bookingVars

Spec == Init /\ [][Next]_vars

-----------------------------------------------------------------------------
TypeOK ==
  /\ status \in [Bookings -> Statuses \cup {"none"}]
  /\ req \in [Requests -> Request]
  /\ via \in [Bookings -> {"none", "asked", "unasked"}]
  /\ raced \subseteq SUBSET Bookings
  /\ Calendar!TypeOK

Collide(b, c) == b # c /\ Holds(b) /\ Holds(c) /\ Overlap(Stay[b], Stay[c])

\* Two bookings hold the same night only when one of them came to hold its
\* nights without the query being asked, or the two were confirmed at the
\* same time.  Releasing nights, taking them again and expiring bookings
\* between the query and the write do not add another way.
NightsCollideOnlyUnasked ==
  \A b, c \in Bookings :
    Collide(b, c) => "unasked" \in {via[b], via[c]} \/ {b, c} \in raced

\* A booking that the createBooking mutation accepts does not take nights
\* the last import of a calendar has reserved, unless that import has
\* emptied the reservations of its link and not filled them again, or
\* imports of the link overlapped.
ImportedNightsAreKept ==
  [][ \A r \in Requests, l \in Links :
        /\ req[r].pc = "count" /\ req'[r].pc = "insert"
        /\ "reservations" \in req[r].todo
        /\ Cardinality({s \in StaysOf[l][newest[l]] : Overlap(s, Stay[req[r].b])}) >= Quantity
        => reservations[l] = << >> \/ overlapped[l] ]_vars

=============================================================================
