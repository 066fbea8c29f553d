------------------------------ MODULE Listings ------------------------------
(***************************************************************************)
(* The listings of hosts: made, edited, moved to another host, published   *)
(* and deleted by requests that overlap, or stop at any await, while       *)
(* guests book them.                                                       *)
(*                                                                         *)
(* Of a listing the model keeps what decides whether it may be published:  *)
(* its price stands for the columns that must be filled, its photos for    *)
(* the fields of meta.  An instance that is saved writes the columns that  *)
(* differ from what it loaded, and meta as a whole.                        *)
(*                                                                         *)
(* A step that reads and the first write or the next call that waits for   *)
(* it are one action each.                                                 *)
(***************************************************************************)
EXTENDS Prices, FiniteSets

CONSTANTS
  Users, NoUser,
  Admins,       \* users whose email is an administrator's
  Verified,     \* users with completedVerification
  Requests,     \* slots: the requests the servers work on at once
  Limit,        \* createListing refuses who has more than 99: 100 there
  Contents,     \* what is in a listing: the price of a night, 0 for none, and
                \* whether there are photos and the rest of meta
  Deposit,      \* what they ask as a deposit
  Nights,       \* how many nights guests stay
  Credits,      \* the credit guests may have
  RateTables,   \* what currency_rates may hold
  MaxListings,  \* bound: how many listings are ever made
  MaxBookings,  \* bound: how many bookings there are
  MaxLate,      \* bound: no counts are taken while so many are to be written
  Mixes         \* bound: which calls a behaviour may make in which slot

ASSUME ListingsAssumption ==
  /\ NoUser \notin Users /\ Admins \subseteq Users
  /\ Limit \in Nat /\ MaxListings \in Nat /\ MaxBookings \in Nat /\ MaxLate \in Nat
  /\ Contents \subseteq [price : Nat, photos : BOOLEAN] /\ Deposit \in Nat
  /\ Nights \subseteq Nat \ {0} /\ Credits \subseteq Nat
  /\ \A table \in RateTables : \A c \in Currencies : IsRate(table[c])
  /\ \A table \in RateTables : table["USD"] = Par

VARIABLES
  made,          \* how many ids of listings have been used
  listings,      \* table listings: the ids that have a row
  listing,       \* table listings: what the row of each id holds
  listingCount,  \* table users: the column of each user
  bookings,      \* table bookings
  late,          \* writes of listingCount that nobody waits for
  req,           \* the requests in progress
  calls,         \* the calls this behaviour may make, each with its slot, and
                 \* what the clients send
  overlapped,    \* history: listings two requests at once were about
  hurried,       \* history: users whose listings two requests at once counted
  cut,           \* history: users whose listings were not counted any more
  given          \* history: users an administrator gave a listing

history == <<overlapped, hurried, cut, given>>
table == <<listings, listing>>
vars == <<made, table, listingCount, bookings, late, req, calls, history>>

Ids == 1..MaxListings
Someone == Users \cup {NoUser}

Row == [host : Someone, active : BOOLEAN, price : Nat, photos : BOOLEAN]
NoRow == [host |-> NoUser, active |-> FALSE, price |-> 0, photos |-> FALSE]
Filled(h, content) == [NoRow EXCEPT !.host = h, !.price = content.price, !.photos = content.photos]

\* A booking has the stay it was priced for and a total for each currency
\* it was quoted in.
Booking(total) ==
  [listing : Ids, host : Someone, stay : Stay, rates : RateTables, posted : BOOLEAN,
   total : {total}]

Totals(total) == DOMAIN total \subseteq Currencies /\ \A c \in DOMAIN total : total[c] \in Nat

Counts == [Users -> Nat]

Handlers ==
  {"create", "duplicate", "update", "activate", "deactivate", "delete", "post", "quote"}

Awaits ==
  {"idle", "load", "find", "check", "active", "save", "count", "note", "publish",
   "write", "destroy"}

Request ==
  [ call  : Handlers \cup {"none"},
    at    : Awaits,
    by    : Someone,
    id    : Ids \cup {0},
    host  : Someone,  \* whose listing it is, or is to be
    prev  : Someone,  \* updateListing: whose it was
    found : Nat,                  \* createListing: how many there are
    noted : Counts,       \* the counts when the hosts were loaded
    old   : Row,                  \* the instance as it was loaded
    inst  : Row ]                 \* the instance as it is

Idle == [call |-> "none", at |-> "idle", by |-> NoUser, id |-> 0, host |-> NoUser,
         prev |-> NoUser, found |-> 0, noted |-> [u \in Users |-> 0],
         old |-> NoRow, inst |-> NoRow]

-----------------------------------------------------------------------------
(* Who may do what.                                                         *)

Complete(l) == l.price > 0 /\ l.photos

CanEdit(u, l) == u \in Admins \/ l.host = u

CanPublish(u, l) == CanEdit(u, l) /\ u \in Verified /\ Complete(l)

ListingsOf(u) == {i \in listings : listing[i].host = u}

-----------------------------------------------------------------------------
(* Requests.                                                                *)

\* The users whose listings a request counts.
Counted(q) ==
  IF q.call \in {"create", "duplicate"} THEN {q.host, q.by}
  ELSE IF q.call = "update" /\ q.host # q.prev THEN {q.host, q.prev}
  ELSE {}

\* Another request is about the listing.
Meets(r, request) ==
  request.id # 0 /\ \E s \in Requests \ {r} : req[s].id = request.id

\* Another request counts the listings of u, or a count is yet to be written.
Hurries(r, u) ==
  \/ \E s \in Requests \ {r} : u \in Counted(req[s])
  \/ \E w \in late : w[1] = u

\* The counts in the instances of the hosts that are loaded now.
Loaded(q) ==
  [u \in Users |-> IF u \in Counted(q) \cap {q.host, q.prev} THEN listingCount[u] ELSE 0]

Become(r, request) ==
  /\ req' = [req EXCEPT ![r] = [request EXCEPT !.noted = Loaded(request)]]
  /\ overlapped' = overlapped \cup (IF Meets(r, request) THEN {request.id} ELSE {})
  /\ hurried' = hurried \cup {u \in Counted(request) : Hurries(r, u)}

Go(r, at) == req' = [req EXCEPT ![r].at = at]

\* The counts of the request are written, and no longer needed.
Noted(r) ==
  req' = [req EXCEPT ![r].at = "publish", ![r].found = 0, ![r].noted = Idle.noted]

End(r) == req' = [req EXCEPT ![r] = Idle]

May(r, call) == req[r] = Idle /\ <<r, call>> \in calls

At(r, call, at) == req[r].call = call /\ req[r].at = at

-----------------------------------------------------------------------------
(* The row of a listing.                                                    *)

Put(i, new) == listing' = [listing EXCEPT ![i] = new]

\* save: a column is written when the instance has another value than it
\* loaded, the photos with meta.
Save(i, old, new) ==
  LET row == listing[i]
  IN IF i \in listings
     THEN Put(i, [ host   |-> IF new.host # old.host THEN new.host ELSE row.host,
                   active |-> IF new.active # old.active THEN new.active ELSE row.active,
                   price  |-> IF new.price # old.price THEN new.price ELSE row.price,
                   photos |-> new.photos ])
     ELSE UNCHANGED listing

\* update({ isActive }) of an instance
SetActive(i, was, active) ==
  IF i \in listings /\ was # active
  THEN Put(i, [listing[i] EXCEPT !.active = active])
  ELSE UNCHANGED listing

-----------------------------------------------------------------------------
(* createListing and duplicateListing.  What the client sends is chosen      *)
(* where it is used first.                                                  *)

\* Mutant: one more.
BelowLimitByOne(u) == Cardinality(ListingsOf(u)) <= Limit

\* The listings counted are those of who asks.
BelowLimit(u) == Cardinality(ListingsOf(u)) < Limit

\* The host is found, and the limit observed.
StartCreate(r, call, u, h, inst) ==
  /\ May(r, call)
  /\ BelowLimit(u)
  /\ Become(r, [Idle EXCEPT !.call = call, !.at = "save", !.by = u, !.host = h,
                            !.inst = inst])
  /\ UNCHANGED <<made, table, listingCount, bookings, late, calls, cut, given>>

\* Only an administrator names a host.
CreateListing(r, u, h) ==
  /\ h = u \/ u \in Admins
  /\ StartCreate(r, "create", u, h, NoRow)

\* The copy belongs to who asks for it.
DuplicateListing(r, u, i) ==
  /\ i \in listings
  /\ CanEdit(u, listing[i])
  /\ StartCreate(r, "duplicate", u, u, listing[i])

\* What clients send to be in a listing.
Sent == {content \in Contents : <<"client", content>> \in calls}

CreatesAt(r, at) == At(r, "create", at) \/ At(r, "duplicate", at)

CreateSave(r) ==
  LET q == req[r]
  IN /\ CreatesAt(r, "save")
     /\ made < MaxListings
     /\ made' = made + 1
     /\ listings' = listings \cup {made + 1}
     /\ \E content \in IF q.call = "create" THEN Sent ELSE {q.inst} :
          /\ Put(made + 1, Filled(q.host, content))
          /\ req' = [req EXCEPT ![r].at = "count", ![r].id = made + 1,
                                ![r].inst = Filled(q.host, content)]
     /\ given' = IF q.host # q.by THEN given \cup {q.host} ELSE given
     /\ UNCHANGED <<listingCount, bookings, late, calls, overlapped, hurried, cut>>

\* getHostListingsCount; the calendars are stored meanwhile.
CreateCount(r) ==
  /\ CreatesAt(r, "count")
  /\ req' = [req EXCEPT ![r].at = "note",
                        ![r].found = Cardinality(ListingsOf(req[r].host))]
  /\ UNCHANGED <<made, table, listingCount, bookings, late, calls, history>>

\* updateListingCount: the column is written if it was loaded with another
\* value.
CreateNote(r) ==
  LET q == req[r]
  IN /\ CreatesAt(r, "note")
     /\ listingCount' = IF q.found # q.noted[q.host]
                        THEN [listingCount EXCEPT ![q.host] = q.found]
                        ELSE listingCount
     /\ Noted(r)
     /\ UNCHANGED <<made, table, bookings, late, calls, history>>

\* With isActive, which a copy does not have, the listing is published if
\* who asks may publish it.
CreatePublish(r) ==
  LET q == req[r]
  IN /\ CreatesAt(r, "publish")
     /\ \/ /\ q.call = "create" /\ CanPublish(q.by, q.inst)
           /\ SetActive(q.id, FALSE, TRUE)
        \/ UNCHANGED listing
     /\ End(r)
     /\ UNCHANGED <<made, listings, listingCount, bookings, late, calls,
                    overlapped, hurried, cut, given>>

-----------------------------------------------------------------------------
(* updateListing                                                            *)

\* The resolver: who may edit the listing.
UpdateListing(r, u, i) ==
  /\ May(r, "update")
  /\ i \in listings
  /\ CanEdit(u, listing[i])
  /\ Become(r, [Idle EXCEPT !.call = "update", !.at = "load", !.by = u, !.id = i])
  /\ UNCHANGED <<made, table, listingCount, bookings, late, calls, cut, given>>

\* The host the listing gets: in some mixes an administrator names one.
NewHosts(r, row) ==
  {row.host} \cup IF <<r, "move">> \in calls /\ req[r].by \in Admins THEN Users ELSE {}

\* The listing is loaded again, then its host to be and its host.
UpdateLoad(r) ==
  LET q == req[r]
      row == listing[q.id]
  IN /\ At(r, "update", "load")
     /\ IF q.id \in listings /\ CanEdit(q.by, row)
        THEN \E h \in NewHosts(r, row) :
               Become(r, [q EXCEPT !.at = "save", !.host = h, !.prev = row.host,
                                   !.old = row])
        ELSE End(r) /\ UNCHANGED <<overlapped, hurried>>
     /\ UNCHANGED <<made, table, listingCount, bookings, late, calls, cut, given>>

\* Mutant: a listing that is active stays so while it is edited.
EditedInPlace(q, content) == [Filled(q.host, content) EXCEPT !.active = q.old.active]

\* What updateWithMetaFields makes of the instance: it is not active.  Photos
\* that are not sent are lost, for they are set to nothing before the old
\* ones are looked for.
Edited(q, content) == Filled(q.host, content)

\* Mutant: the listings are not counted when one has moved.
UpdateSaveUncounted(r) ==
  LET q == req[r]
  IN /\ At(r, "update", "save")
     /\ \E content \in Sent :
          /\ Save(q.id, q.old, Edited(q, content))
          /\ req' = [req EXCEPT ![r].at = "publish", ![r].inst = Edited(q, content)]
     /\ given' = IF q.host # q.prev THEN given \cup {q.host} ELSE given
     /\ UNCHANGED <<made, listings, listingCount, bookings, late, calls,
                    overlapped, hurried, cut>>

UpdateSave(r) ==
  LET q == req[r]
  IN /\ At(r, "update", "save")
     /\ \E content \in Sent :
          /\ Save(q.id, q.old, Edited(q, content))
          /\ req' = [req EXCEPT ![r].at = IF q.host # q.prev THEN "count" ELSE "publish",
                                ![r].inst = Edited(q, content)]
     /\ given' = IF q.host # q.prev THEN given \cup {q.host} ELSE given
     /\ UNCHANGED <<made, listings, listingCount, bookings, late, calls,
                    overlapped, hurried, cut>>

\* Mutant: the listing that moved is subtracted from a count without it.
NewCountsOneLess(q) ==
  { <<q.host, Cardinality(ListingsOf(q.host))>>,
    <<q.prev, Cardinality(ListingsOf(q.prev)) - 1>> }

\* getHostListingsCount of both, and what of it updateListingCount saves
NewCounts(q) ==
  { w \in { <<u, Cardinality(ListingsOf(u))>> : u \in {q.host, q.prev} } :
      w[2] # q.noted[w[1]] }

\* The saves of the counts are begun, and nobody waits for them.
UpdateCount(r) ==
  /\ At(r, "update", "count")
  /\ Cardinality(late) < MaxLate
  /\ late' = late \cup NewCounts(req[r])
  /\ Noted(r)
  /\ UNCHANGED <<made, table, listingCount, bookings, calls, history>>

LateCount(w) ==
  /\ w \in late
  /\ late' = late \ {w}
  /\ listingCount' = [listingCount EXCEPT ![w[1]] = w[2]]
  /\ UNCHANGED <<made, table, bookings, req, calls, history>>

\* updatedBy is noted in meta, which is written again, unless the listing
\* becomes active: then only isActive is written.
UpdatePublish(r) ==
  LET q == req[r]
  IN /\ At(r, "update", "publish")
     /\ \/ /\ CanPublish(q.by, q.inst)
           /\ SetActive(q.id, q.inst.active, TRUE)
        \/ Save(q.id, q.inst, q.inst)
     /\ End(r)
     /\ UNCHANGED <<made, listings, listingCount, bookings, late, calls,
                    overlapped, hurried, cut, given>>

-----------------------------------------------------------------------------
(* activateListing, deactivateListing, deleteListing                        *)

\* The resolver of either asks whether the user may publish the listing, so
\* one that has become incomplete cannot be deactivated.
Switch(r, call, u, i) ==
  /\ May(r, call)
  /\ i \in listings
  /\ CanPublish(u, listing[i])
  /\ Become(r, [Idle EXCEPT !.call = call, !.at = "find", !.by = u, !.id = i])
  /\ UNCHANGED <<made, table, listingCount, bookings, late, calls, cut, given>>

ActivateListing(r, u, i) == Switch(r, "activate", u, i)

DeactivateListing(r, u, i) == Switch(r, "deactivate", u, i)

SwitchesAt(r, at) == At(r, "activate", at) \/ At(r, "deactivate", at)

SwitchFind(r) ==
  /\ SwitchesAt(r, "find")
  /\ IF req[r].id \in listings
     THEN req' = [req EXCEPT ![r].at = "write", ![r].old = listing[req[r].id]]
     ELSE End(r)
  /\ UNCHANGED <<made, table, listingCount, bookings, late, calls, history>>

SwitchWrite(r) ==
  /\ SwitchesAt(r, "write")
  /\ SetActive(req[r].id, req[r].old.active, req[r].call = "activate")
  /\ End(r)
  /\ UNCHANGED <<made, listings, listingCount, bookings, late, calls,
                 overlapped, hurried, cut, given>>

DeleteListing(r, u, i) ==
  /\ May(r, "delete")
  /\ i \in listings
  /\ CanEdit(u, listing[i])
  /\ Become(r, [Idle EXCEPT !.call = "delete", !.at = "check", !.by = u, !.id = i])
  /\ UNCHANGED <<made, table, listingCount, bookings, late, calls, cut, given>>

IsBooked(i) == \E b \in bookings : b.listing = i

\* Mutant: nobody looks for bookings.
DeleteCheckNothing(r) ==
  /\ At(r, "delete", "check")
  /\ Go(r, "destroy")
  /\ UNCHANGED <<made, table, listingCount, bookings, late, calls, history>>

DeleteCheck(r) ==
  /\ At(r, "delete", "check")
  /\ IF req[r].id \in listings /\ ~IsBooked(req[r].id) THEN Go(r, "destroy") ELSE End(r)
  /\ UNCHANGED <<made, table, listingCount, bookings, late, calls, history>>

\* listingCount stays, and so do the calendars and the imported reservations.
DeleteRow(r) ==
  /\ At(r, "delete", "destroy")
  /\ listings' = listings \ {req[r].id}
  /\ listing' = [listing EXCEPT ![req[r].id] = NoRow]
  /\ End(r)
  /\ UNCHANGED <<made, listingCount, bookings, late, calls, history>>

-----------------------------------------------------------------------------
(* createBooking and createBookingWithQuotes                                *)

\* Mutant: a listing that is not active is found too.
FoundAny(i) == i \in listings

\* findActiveListing
FoundActive(i) == i \in listings /\ listing[i].active

Book(r, call, at, i) ==
  /\ May(r, call)
  /\ Become(r, [Idle EXCEPT !.call = call, !.at = at, !.id = i, !.inst = listing[i]])
  /\ UNCHANGED <<made, table, listingCount, bookings, late, calls, cut, given>>

\* POST /v2/bookings loads the listing; createBooking asks whether it is
\* active, but takes host and price from what was loaded first.
PostBooking(r, i) == i \in listings /\ Book(r, "post", "active", i)

PostActive(r) ==
  /\ At(r, "post", "active")
  /\ IF FoundActive(req[r].id) THEN Go(r, "save") ELSE End(r)
  /\ UNCHANGED <<made, table, listingCount, bookings, late, calls, history>>

\* The createBooking mutation.
QuoteBooking(r, i) == FoundActive(i) /\ Book(r, "quote", "save", i)

\* What the client sent is what validate computes, in the currency it
\* compares with.
Posted(rates, stay) ==
  { [c \in {currency} |-> Total(ComparedWith(c), rates[ComparedWith(c)], stay)] :
      currency \in Currencies }

Quoted(rates, stay) == { [c \in Currencies |-> Total(c, rates[c], stay)] }

BookingSave(r) ==
  LET q == req[r]
  IN /\ q.call \in {"post", "quote"} /\ q.at = "save"
     /\ Cardinality(bookings) < MaxBookings
     /\ \E nights \in Nights, credit \in Credits, rates \in RateTables :
          LET stay == [price |-> q.inst.price, deposit |-> Deposit,
                       nights |-> nights, credit |-> credit]
          IN \E total \in IF q.call = "post" THEN Posted(rates, stay)
                                             ELSE Quoted(rates, stay) :
               bookings' = bookings \cup
                 {[listing |-> q.id, host |-> q.inst.host, stay |-> stay, rates |-> rates,
                   posted |-> q.call = "post", total |-> total]}
     /\ End(r)
     /\ UNCHANGED <<made, table, listingCount, late, calls, history>>

-----------------------------------------------------------------------------
MayCrash == \E r \in Requests : <<r, "crash">> \in calls

\* A request that has changed whose listings there are, but not the counts.
Uncounted(q) ==
  \/ q.call \in {"create", "duplicate"} /\ q.at \in {"count", "note"}
  \/ q.call = "update" /\ q.at = "count"

\* The server stops, or a call it waits for fails.
Crash(r) ==
  /\ MayCrash
  /\ req[r] # Idle
  /\ cut' = IF Uncounted(req[r]) THEN cut \cup {req[r].host} ELSE cut
  /\ End(r)
  /\ UNCHANGED <<made, table, listingCount, bookings, late, calls,
                 overlapped, hurried, given>>

\* A save nobody waits for fails, and nobody hears of it.
LateCountFails(w) ==
  /\ MayCrash
  /\ w \in late
  /\ late' = late \ {w}
  /\ cut' = cut \cup {w[1]}
  /\ UNCHANGED <<made, table, listingCount, bookings, req, calls,
                 overlapped, hurried, given>>

Step(r) ==
  \/ CreateSave(r) \/ CreateCount(r) \/ CreateNote(r) \/ CreatePublish(r)
  \/ UpdateLoad(r) \/ UpdateSave(r) \/ UpdateCount(r) \/ UpdatePublish(r)
  \/ SwitchFind(r) \/ SwitchWrite(r)
  \/ DeleteCheck(r) \/ DeleteRow(r)
  \/ PostActive(r) \/ BookingSave(r)

Begin(r) ==
  \/ \E u, h \in Users : CreateListing(r, u, h)
  \/ \E u \in Users, i \in Ids :
       \/ DuplicateListing(r, u, i) \/ UpdateListing(r, u, i)
       \/ ActivateListing(r, u, i) \/ DeactivateListing(r, u, i)
       \/ DeleteListing(r, u, i)
  \/ \E i \in Ids : PostBooking(r, i) \/ QuoteBooking(r, i)

Init ==
  /\ made = 0 /\ listings = {} /\ listing = [i \in Ids |-> NoRow]
  /\ listingCount = [u \in Users |-> 0]
  /\ bookings = {} /\ late = {}
  /\ req = [r \in Requests |-> Idle]
  /\ calls \in Mixes
  /\ overlapped = {} /\ hurried = {} /\ cut = {} /\ given = {}

Next ==
  \/ \E r \in Requests : Begin(r) \/ Step(r) \/ Crash(r)
  \/ \E w \in late : LateCount(w) \/ LateCountFails(w)

Spec == Init /\ [][Next]_vars

-----------------------------------------------------------------------------
(* Properties.                                                              *)

\* Every variable has its type.
TypeOK ==
  /\ made \in 0..MaxListings /\ listings \subseteq Ids
  /\ listing \in [Ids -> Row]
  /\ listingCount \in Counts
  /\ \A b \in bookings : b \in Booking(b.total) /\ Totals(b.total)
  /\ late \subseteq Someone \X Nat
  /\ req \in [Requests -> Request]
  /\ calls \in Mixes
  /\ overlapped \subseteq Ids
  /\ hurried \subseteq Someone /\ cut \subseteq Someone /\ given \subseteq Someone

\* An active listing has all that canPublish asks for, wherever a request
\* stopped: an edit takes the listing off the market in the same write, and
\* puts it back only when it is complete.  Unless another request was about
\* the listing meanwhile.
PublishedIsComplete ==
  \A i \in listings : listing[i].active => Complete(listing[i]) \/ i \in overlapped

\* No host has more listings than users.listingCount says, by which hosts are
\* found: the count is taken after every change that adds one.  Unless the
\* request stopped, or two requests counted at once.
CountCovers ==
  \A u \in Users :
    \/ Cardinality(ListingsOf(u)) <= listingCount[u]
    \/ u \in hurried \cup cut
    \/ \E r \in Requests : Uncounted(req[r]) /\ req[r].host = u
    \/ \E w \in late : w[1] = u

\* No host has more listings than the limit, unless two requests of the host
\* made one at once, or an administrator, whose listings are counted instead,
\* gave the host one.
LimitKept ==
  \A u \in Users :
    Cardinality(ListingsOf(u)) <= Limit \/ u \in hurried \cup given

\* The listing of a booking is there, unless it was booked while it was
\* being deleted.
BookedListingsExist ==
  \A b \in bookings : b.listing \in listings \cup overlapped

\* Whoever books gets what is on offer: when the booking is stored, the
\* listing is active and has the booking's host and price, although both were
\* read several awaits before.  Unless another request was about the listing.
BookedAsOffered ==
  [][\A b \in bookings' \ bookings :
       LET l == listing[b.listing]
       IN \/ l.active /\ l.host = b.host /\ l.price = b.stay.price
          \/ b.listing \in overlapped]_vars

\* Whatever a booking was quoted in, it costs the same, but for the rounding
\* of BEE; except for what POST /v2/bookings compares with another currency.
QuotesAgree ==
  \A b \in bookings : \A c \in DOMAIN b.total :
    \/ Agrees(c, b.rates[c], b.stay, b.total[c])
    \/ b.posted /\ ComparedWith(c) # c
=============================================================================
