--------------------------- MODULE ListingsProofs ---------------------------
(***************************************************************************)
(* For every number of users, requests and listings: what is published is  *)
(* complete, booked listings stay, whoever books gets what is on offer,    *)
(* and the totals of a booking agree, as long as no two requests at once   *)
(* are about the listing; and how many listings a host has, is counted and *)
(* may have, as long as no two requests at once count them.  First, for    *)
(* every rate and every stay: what Total asks in a currency Agrees with    *)
(* what it asks in dollars.                                                *)
(***************************************************************************)
EXTENDS Listings, FiniteSetTheorems, TLAPS

-----------------------------------------------------------------------------
(* Prices.                                                                  *)

\* The products of the proofs are named, so that every leaf is linear.
LEMMA ProductInNat ==
  ASSUME NEW a \in Nat, NEW b \in Nat
  PROVE  a * b \in Nat
  OBVIOUS

LEMMA ProductGrows ==
  ASSUME NEW a \in Nat, NEW b \in Nat, NEW c \in Nat, a <= b
  PROVE  a * c <= b * c
  OBVIOUS

\* What is rounded down loses less than one.
LEMMA Division ==
  ASSUME NEW a \in Nat, NEW b \in Nat \ {0}
  PROVE  /\ a \div b \in Nat
         /\ (a \div b) * b <= a
         /\ a < (a \div b) * b + b
  OBVIOUS

LEMMA FromUsdInNat ==
  ASSUME NEW c \in Currencies, NEW r, IsRate(r), NEW usd \in Nat
  PROVE  FromUsd(c, r, usd) \in Nat
  BY Division, ProductInNat DEF FromUsd, IsRate

\* Credit pays for nights, and for no more.
LEMMA TotalIs ==
  ASSUME NEW c \in Currencies, NEW r, IsRate(r), NEW stay \in Stay
  PROVE  LET nights  == FromUsd(c, r, stay.price) * stay.nights
             credit  == FromUsd(c, r, stay.credit)
             deposit == IF c = "USD" THEN 0 ELSE FromUsd(c, r, stay.deposit)
         IN  /\ nights \in Nat /\ credit \in Nat /\ deposit \in Nat
             /\ nights <= credit => Total(c, r, stay) = deposit
             /\ nights > credit => Total(c, r, stay) = nights - credit + deposit
             /\ Total(c, r, stay) \in Nat
<1> DEFINE nights  == FromUsd(c, r, stay.price) * stay.nights
           credit  == FromUsd(c, r, stay.credit)
           deposit == IF c = "USD" THEN 0 ELSE FromUsd(c, r, stay.deposit)
<1>1. stay.price \in Nat /\ stay.deposit \in Nat /\ stay.nights \in Nat /\ stay.credit \in Nat
  BY DEF Stay
<1>2. nights \in Nat /\ credit \in Nat /\ deposit \in Nat
  BY <1>1, FromUsdInNat, ProductInNat
<1>3. Total(c, r, stay) = nights - (IF nights <= credit THEN nights ELSE credit) + deposit
  BY DEF Total, PriceTotalNights, CreditAmountApplied, Lesser
<1> HIDE DEF nights, credit, deposit
<1>4. /\ nights <= credit => Total(c, r, stay) = deposit
      /\ nights > credit => Total(c, r, stay) = nights - credit + deposit
      /\ Total(c, r, stay) \in Nat
  BY <1>2, <1>3
<1> QED
  BY <1>2, <1>4 DEF nights, credit, deposit

\* Fractions are exact: a product with the rate.
LEMMA ExactAgrees ==
  ASSUME NEW c \in {"ETH", "BTC"}, NEW r, IsRate(r), NEW stay \in Stay
  PROVE  Total(c, r, stay) = (Total("USD", Par, stay) + stay.deposit) * r.from
<1> DEFINE n == stay.price * stay.nights
           k == stay.credit
           d == stay.deposit
           f == r.from
<1>1. n \in Nat /\ k \in Nat /\ d \in Nat /\ f \in Nat \ {0}
  BY ProductInNat DEF Stay, IsRate
<1>2. /\ n <= k => Total("USD", Par, stay) = 0
      /\ n > k => Total("USD", Par, stay) = n - k
  BY <1>1, TotalIs DEF FromUsd, Par, IsRate, Currencies, Stay
<1>3. (stay.price * f) * stay.nights = n * f
  BY DEF Stay, IsRate
<1>4. /\ n * f <= k * f => Total(c, r, stay) = d * f
      /\ n * f > k * f => Total(c, r, stay) = n * f - k * f + d * f
  BY <1>3, TotalIs DEF FromUsd, Currencies
<1>5. (n - k + d) * f = n * f - k * f + d * f
  BY <1>1
<1>6. n <= k => n * f <= k * f
  BY <1>1
<1>7. n > k => n * f > k * f
  BY <1>1
<1> HIDE DEF n, k, d, f
<1> QED
  BY <1>1, <1>2, <1>4, <1>5, <1>6, <1>7 DEF d, f

\* BEE: the four amounts are rounded down one by one.
LEMMA BeeAgrees ==
  ASSUME NEW r, IsRate(r), NEW stay \in Stay
  PROVE  LET due   == (Total("USD", Par, stay) + stay.deposit) * r.from
             total == Total("BEE", r, stay)
         IN  /\ total * r.to < due + r.to
             /\ due < (total + stay.nights + 1) * r.to
<1> DEFINE p == stay.price
           k == stay.credit
           d == stay.deposit
           n == stay.nights
           f == r.from
           t == r.to
           P == FromUsd("BEE", r, p)
           K == FromUsd("BEE", r, k)
           D == FromUsd("BEE", r, d)
           total == Total("BEE", r, stay)
           due == (Total("USD", Par, stay) + d) * f
<1>1. p \in Nat /\ k \in Nat /\ d \in Nat /\ n \in Nat /\ f \in Nat \ {0} /\ t \in Nat \ {0}
  BY DEF Stay, IsRate
<1>2. /\ P \in Nat /\ P * t <= p * f /\ p * f < P * t + t
      /\ K \in Nat /\ K * t <= k * f /\ k * f < K * t + t
      /\ D \in Nat /\ D * t <= d * f /\ d * f < D * t + t
  BY <1>1, Division, ProductInNat DEF FromUsd
<1>3. /\ P * n <= K => total = D
      /\ P * n > K => total = P * n - K + D
      /\ total \in Nat
  BY TotalIs DEF Currencies
<1>4. /\ p * n <= k => Total("USD", Par, stay) = 0
      /\ p * n > k => Total("USD", Par, stay) = p * n - k
  BY <1>1, TotalIs DEF FromUsd, Par, IsRate, Currencies, Stay
<1>5. /\ p * n <= k => due = d * f
      /\ p * n > k => due = (p * n) * f - k * f + d * f
  <2> HIDE DEF p, k, d, n, f
  <2>1. p * n \in Nat /\ d * f \in Nat /\ k * f \in Nat
    BY <1>1, ProductInNat
  <2>2. (p * n - k + d) * f = (p * n) * f - k * f + d * f
    BY <1>1, <2>1
  <2> QED
    BY <1>1, <1>4, <2>1, <2>2
<1> HIDE DEF p, k, d, n, f, t, P, K, D, total, due
\* The products that the cases compare.
<1>6. /\ (P * n) * t <= (p * n) * f
      /\ (p * n) * f <= (P * n) * t + n * t
  <2>1. (P * t) * n <= (p * f) * n /\ (p * f) * n <= (P * t + t) * n
    BY <1>1, <1>2, ProductGrows, ProductInNat
  <2> QED
    BY <1>1, <1>2, <2>1
<1>7. /\ p * n <= k => (p * n) * f <= k * f
      /\ P * n <= K => (P * n) * t <= K * t
      /\ P * n > K => (P * n - K + D) * t = (P * n) * t - K * t + D * t
      /\ p * n > k => (p * n) * f >= k * f
      /\ (total + n + 1) * t = total * t + n * t + t
  <2>1. p * n \in Nat /\ P * n \in Nat
    BY <1>1, <1>2, ProductInNat
  <2>2. /\ p * n <= k => (p * n) * f <= k * f
        /\ P * n <= K => (P * n) * t <= K * t
        /\ p * n > k => (p * n) * f >= k * f
    BY <1>1, <1>2, <2>1, ProductGrows
  <2>3. P * n > K => (P * n - K + D) * t = (P * n) * t - K * t + D * t
    BY <1>1, <1>2, <2>1
  <2> QED
    BY <1>1, <1>3, <2>2, <2>3
<1>8. /\ P * n <= K => total * t = D * t
      /\ P * n > K => total * t = (P * n) * t - K * t + D * t
  BY <1>3, <1>7
<1>9. /\ (P * n) * t \in Nat /\ K * t \in Nat /\ D * t \in Nat /\ n * t \in Nat
      /\ (p * n) * f \in Nat /\ k * f \in Nat /\ d * f \in Nat
      /\ P * n \in Nat /\ p * n \in Nat
  BY <1>1, <1>2, ProductInNat
<1>10. total * t < due + t
  BY <1>1, <1>2, <1>5, <1>6, <1>7, <1>8, <1>9
<1>11. due < (total + n + 1) * t
  BY <1>1, <1>2, <1>5, <1>6, <1>7, <1>8, <1>9
<1> QED
  BY <1>10, <1>11 DEF due, total, t, f, n, d

\* The totals of a stay in two currencies ask the same, but for the rounding
\* of BEE, whatever the rate: what createBookingWithQuotes stores for each
\* currency, and what pricing.validate computes.
THEOREM TotalsAgree ==
  ASSUME NEW c \in Currencies, NEW r, IsRate(r), c = "USD" => r = Par,
         NEW stay \in Stay
  PROVE  Agrees(c, r, stay, Total(c, r, stay))
<1>1. CASE c = "USD"
  BY <1>1 DEF Agrees
<1>2. CASE c = "BEE"
  BY <1>2, BeeAgrees DEF Agrees
<1>3. CASE c \in {"ETH", "BTC"}
  BY <1>3, ExactAgrees DEF Agrees
<1> QED
  BY <1>1, <1>2, <1>3 DEF Currencies

-----------------------------------------------------------------------------
(* Listings.                                                                *)

(***************************************************************************)
(* What a request has read of its listing stays true until it is used      *)
(* (Sees), because whoever changes the listing meanwhile is another        *)
(* request about it, which both of them are marked for (Met); the ids of   *)
(* deleted listings are not used again (Numbered).                         *)
(***************************************************************************)
Matches(i, l) ==
  i \in listings /\ listing[i].price = l.price /\ listing[i].photos = l.photos

Sees(q) ==
  /\ q.call \in {"create", "duplicate"} => Matches(q.id, q.inst)
  /\ q.call = "update" /\ q.at = "save" => q.id \in listings /\ listing[q.id] = q.old
  /\ q.call = "update" /\ q.at \in {"count", "publish"} => Matches(q.id, q.inst)
  /\ q.call = "activate" => q.id \in listings /\ Complete(listing[q.id])
  /\ q.call = "delete" /\ q.at = "destroy" => ~IsBooked(q.id)
  /\ q.call \in {"post", "quote"} => q.id \in listings /\ listing[q.id] = q.inst
  /\ q.call \in {"post", "quote"} /\ q.at = "save" => q.inst.active

Undisturbed ==
  \A r \in Requests : req[r].id \in {0} \cup overlapped \/ Sees(req[r])

Met ==
  \A r, s \in Requests :
    r # s /\ req[r].id = req[s].id => req[r].id \in {0} \cup overlapped

Numbered ==
  /\ \A i \in listings : i <= made
  /\ \A r \in Requests : req[r].id <= made
  /\ \A r \in Requests : req[r].call \in {"post", "quote"} => req[r].id # 0

Inv ==
  /\ TypeOK
  /\ Undisturbed /\ Met /\ Numbered
  /\ PublishedIsComplete /\ BookedListingsExist /\ QuotesAgree

LEMMA IdleType ==
  /\ NoRow \in Row
  /\ Idle \in Request /\ Idle.id = 0 /\ Idle.call = "none"
  /\ Idle.noted \in Counts
<1>1. NoRow \in Row
  BY DEF NoRow, Row, Someone
<1> DEFINE none == [u \in Users |-> 0]
<1>2. none \in Counts
  BY DEF Counts
<1>3. Idle = [call |-> "none", at |-> "idle", by |-> NoUser, id |-> 0, host |-> NoUser,
              prev |-> NoUser, found |-> 0, noted |-> none, old |-> NoRow, inst |-> NoRow]
  BY DEF Idle
<1> HIDE DEF none
<1> QED
  BY <1>1, <1>2, <1>3 DEF Request, Someone, Awaits

(***************************************************************************)
(* A request goes on.                                                      *)
(***************************************************************************)
LEMMA NewRequest ==
  ASSUME TypeOK, NEW r \in Requests, NEW q \in Request,
         req' = [req EXCEPT ![r] = q]
  PROVE  /\ req' \in [Requests -> Request]
         /\ req'[r] = q
         /\ \A s \in Requests : s # r => req'[s] = req[s]
  BY DEF TypeOK

LEMMA GoType ==
  ASSUME TypeOK, NEW r \in Requests, NEW at \in Awaits
  PROVE  /\ [req[r] EXCEPT !.at = at] \in Request
         /\ [req EXCEPT ![r].at = at] = [req EXCEPT ![r] = [req[r] EXCEPT !.at = at]]
<1>1. req[r] \in Request
  BY DEF TypeOK
<1> QED
  BY <1>1 DEF TypeOK, Request

LEMMA NotedType ==
  ASSUME TypeOK, NEW r \in Requests
  PROVE  LET q == [req[r] EXCEPT !.at = "publish", !.found = 0, !.noted = Idle.noted]
         IN  q \in Request /\ (Noted(r) => req' = [req EXCEPT ![r] = q])
<1> DEFINE none == Idle.noted
<1>1. req[r] \in Request /\ none \in Counts
  BY IdleType DEF TypeOK
<1>2. Noted(r) => req' = [req EXCEPT ![r].at = "publish", ![r].found = 0, ![r].noted = none]
  BY DEF Noted
<1> HIDE DEF none
<1>3. [req[r] EXCEPT !.at = "publish", !.found = 0, !.noted = none] \in Request
  BY <1>1 DEF Request, Awaits
<1>4. Noted(r) =>
        req' = [req EXCEPT ![r] = [req[r] EXCEPT !.at = "publish", !.found = 0, !.noted = none]]
  BY <1>1, <1>2 DEF TypeOK, Request
<1> QED
  BY <1>3, <1>4 DEF none

\* A request that begins, or loads its hosts.
LEMMA BecomeType ==
  ASSUME TypeOK, NEW r \in Requests, NEW q \in Request, Become(r, q)
  PROVE  \E p \in Request :
           /\ p = [q EXCEPT !.noted = Loaded(q)]
           /\ req' = [req EXCEPT ![r] = p]
           /\ overlapped' \subseteq Ids /\ hurried' \subseteq Someone
           /\ overlapped \subseteq overlapped'
           /\ Meets(r, p) => p.id \in overlapped'
<1> DEFINE p == [q EXCEPT !.noted = Loaded(q)]
<1>1. Loaded(q) \in Counts
  BY DEF Loaded, TypeOK, Counts
<1>2. p \in Request /\ p.id = q.id
  BY <1>1 DEF Request
<1>3. Meets(r, q) => q.id \in Ids
  BY DEF Meets, Request
<1>4. Counted(q) \subseteq Someone
  BY DEF Counted, Request
<1> QED
  <2>1. Meets(r, p) <=> Meets(r, q)
    BY <1>2 DEF Meets
  <2>2. req' = [req EXCEPT ![r] = p]
    BY DEF Become
  <2>3. overlapped' \subseteq Ids /\ overlapped \subseteq overlapped'
        /\ (Meets(r, q) => q.id \in overlapped')
    BY <1>3 DEF Become, TypeOK
  <2>4. hurried' \subseteq Someone
    BY <1>4 DEF Become, TypeOK
  <2> QED
    BY <1>2, <2>1, <2>2, <2>3, <2>4

(***************************************************************************)
(* What a step of one request leaves to the others.                        *)
(***************************************************************************)
OthersStay(r) == \A s \in Requests : s # r => req'[s] = req[s]

\* Nothing happens to the listing i.
Stays(i) ==
  /\ listing'[i] = listing[i]
  /\ i \in listings <=> i \in listings'
  /\ IsBooked(i)' => IsBooked(i)

LEMMA OthersSee ==
  ASSUME Inv, Met', NEW r \in Requests, OthersStay(r), overlapped \subseteq overlapped',
         \A i \in Ids : i \notin {req[r].id, req'[r].id} => Stays(i),
         req'[r].id \in {0} \cup overlapped' \/ Sees(req[r])'
  PROVE  Undisturbed'
<1> SUFFICES ASSUME NEW s \in Requests, s # r, req[s].id \notin {0} \cup overlapped'
             PROVE  Sees(req[s])'
  BY DEF Undisturbed, OthersStay
<1>1. req'[s] = req[s] /\ req[s] \in Request
  BY DEF OthersStay, Inv, TypeOK
<1>2. req[s].id \in Ids /\ req[s].id \notin {req[r].id, req'[r].id}
  BY <1>1 DEF Inv, Met, Request
<1>3. Stays(req[s].id) /\ Sees(req[s])
  BY <1>1, <1>2 DEF Inv, Undisturbed
<1> QED
  BY <1>1, <1>3 DEF Stays, Sees, Matches, Complete

LEMMA MetStays ==
  ASSUME Inv, NEW r \in Requests, OthersStay(r), overlapped \subseteq overlapped',
         req'[r].id \in {0, req[r].id}
  PROVE  Met'
  BY DEF Inv, Met, OthersStay

\* Published, booked and agreed, for what a step of r does to its listing.
LEMMA Goes ==
  ASSUME Inv, NEW r \in Requests, NEW q \in Request,
         req' = [req EXCEPT ![r] = q],
         q = Idle \/ (q.id = req[r].id /\ q.call = req[r].call),
         UNCHANGED <<made, bookings, calls, overlapped, hurried>>,
         listings' \in {listings, listings \ {req[r].id}},
         listing' \in [Ids -> Row],
         \A i \in Ids : i # req[r].id => listing'[i] = listing[i],
         listingCount' \in Counts, late' \subseteq Someone \X Nat,
         cut' \subseteq Someone, given' \subseteq Someone,
         \/ q.id \in {0} \cup overlapped
         \/ Sees(q)',
         \/ req[r].id \in {0} \cup overlapped
         \/ /\ req[r].id \in listings' /\ listing'[req[r].id].active =>
                  Complete(listing'[req[r].id])
            /\ req[r].id \in listings' \/ ~IsBooked(req[r].id)
  PROVE  Inv'
<1>1. /\ req' \in [Requests -> Request] /\ req'[r] = q /\ OthersStay(r)
      /\ req[r] \in Request
      /\ q.id \in {0, req[r].id}
      /\ q.call \in {"none", req[r].call} /\ (q.id = 0 => q.call = "none" \/ req[r].id = 0)
  BY NewRequest, IdleType DEF Inv, TypeOK, OthersStay
<1>2. TypeOK'
  <2>1. \A b \in bookings' : b \in Booking(b.total) /\ Totals(b.total)
    BY DEF Inv, TypeOK
  <2>2. listings' \subseteq Ids
    BY DEF Inv, TypeOK
  <2>3. made' \in 0..MaxListings /\ calls' \in Mixes
        /\ overlapped' \subseteq Ids /\ hurried' \subseteq Someone
    BY DEF Inv, TypeOK
  <2> QED
    BY <1>1, <2>1, <2>2, <2>3 DEF TypeOK
<1>3. Met'
  BY <1>1, MetStays
<1>4. Numbered'
  <2>1. made \in Nat /\ 0 <= made /\ req[r].id <= made
    BY ListingsAssumption DEF Inv, TypeOK, Numbered
  <2> QED
    BY <1>1, <2>1 DEF Inv, Numbered, OthersStay
<1>5. Undisturbed'
  <2>1. \A i \in Ids : i \notin {req[r].id, req'[r].id} => Stays(i)
    BY DEF Stays, IsBooked
  <2>2. req'[r].id \in {0} \cup overlapped' \/ Sees(req[r])'
    BY <1>1 DEF Sees, Matches, Complete, IsBooked
  <2> QED
    BY <1>1, <1>3, <2>1, <2>2, OthersSee
<1>6. PublishedIsComplete'
  <2> SUFFICES ASSUME NEW i \in listings', listing'[i].active, i \notin overlapped
               PROVE  Complete(listing'[i])
    BY DEF PublishedIsComplete, Complete
  <2>1. i \in listings /\ i \in Ids /\ i # 0
    BY DEF Inv, TypeOK, Ids
  <2> QED
    BY <2>1 DEF Inv, PublishedIsComplete
<1>7. BookedListingsExist'
  <2> SUFFICES ASSUME NEW b \in bookings, b.listing \notin overlapped
               PROVE  b.listing \in listings'
    BY DEF BookedListingsExist
  <2>1. b.listing \in listings /\ b.listing \in Ids /\ b.listing # 0 /\ IsBooked(b.listing)
    BY DEF Inv, TypeOK, Booking, Ids, BookedListingsExist, IsBooked
  <2> QED
    BY <2>1
<1>8. QuotesAgree'
  BY DEF Inv, QuotesAgree
<1> QED
  BY <1>2, <1>3, <1>4, <1>5, <1>6, <1>7, <1>8 DEF Inv

\* A request begins, or finds out whose listing it is about.
LEMMA Begins ==
  ASSUME Inv, NEW r \in Requests, NEW q \in Request, Become(r, q),
         q.id <= made, q.id = 0 \/ Sees(q),
         q.call \in {"post", "quote"} => q.id # 0,
         UNCHANGED <<made, table, listingCount, bookings, late, calls, cut, given>>
  PROVE  Inv'
<1>1. PICK p \in Request :
        /\ p = [q EXCEPT !.noted = Loaded(q)]
        /\ req' = [req EXCEPT ![r] = p]
        /\ overlapped' \subseteq Ids /\ hurried' \subseteq Someone
        /\ overlapped \subseteq overlapped'
        /\ Meets(r, p) => p.id \in overlapped'
  BY BecomeType DEF Inv
<1>2. /\ req' \in [Requests -> Request] /\ req'[r] = p /\ OthersStay(r)
      /\ UNCHANGED <<listings, listing>>
  BY <1>1, NewRequest DEF Inv, OthersStay, table
<1>3. p.id = q.id /\ p.call = q.call /\ (Sees(p) <=> Sees(q))
  BY <1>1 DEF Request, Sees, Matches
<1>4. TypeOK'
  BY <1>1, <1>2 DEF Inv, TypeOK, Booking, Totals
<1>5. Met'
  BY <1>1, <1>2 DEF Inv, Met, OthersStay, Meets
<1>6. Numbered'
  BY <1>2, <1>3 DEF Inv, Numbered, OthersStay
<1>7. Undisturbed'
  <2>1. \A i \in Ids : Stays(i)
    BY <1>2 DEF Stays, IsBooked
  <2>2. req'[r].id = 0 \/ Sees(req[r])'
    BY <1>2, <1>3 DEF Sees, Matches, Complete, IsBooked
  <2> QED
    BY <1>1, <1>2, <1>5, <2>1, <2>2, OthersSee
<1>8. PublishedIsComplete' /\ BookedListingsExist' /\ QuotesAgree'
  BY <1>1, <1>2 DEF Inv, PublishedIsComplete, BookedListingsExist, QuotesAgree, Complete
<1> QED
  BY <1>4, <1>5, <1>6, <1>7, <1>8 DEF Inv

\* A step that only moves the request on.
LEMMA Moves ==
  ASSUME Inv, NEW r \in Requests, NEW q \in Request,
         req' = [req EXCEPT ![r] = q],
         q = Idle \/ (q.id = req[r].id /\ q.call = req[r].call),
         q.id \in {0} \cup overlapped \/ Sees(q),
         UNCHANGED <<made, table, bookings, calls, overlapped, hurried>>,
         listingCount' \in Counts, late' \subseteq Someone \X Nat,
         cut' \subseteq Someone, given' \subseteq Someone
  PROVE  Inv'
<1>1. UNCHANGED <<listings, listing>> /\ listing' \in [Ids -> Row]
  BY DEF table, Inv, TypeOK
<1>2. q.id \in {0} \cup overlapped \/ Sees(q)'
  BY <1>1 DEF Sees, Matches, Complete, IsBooked
<1>3. \/ req[r].id \in {0} \cup overlapped
      \/ /\ req[r].id \in listings' /\ listing'[req[r].id].active =>
               Complete(listing'[req[r].id])
         /\ req[r].id \in listings' \/ ~IsBooked(req[r].id)
  BY <1>1 DEF Inv, PublishedIsComplete, BookedListingsExist, IsBooked
<1> QED
  BY <1>1, <1>2, <1>3, Goes

LEMMA EndIs ==
  ASSUME TypeOK, NEW r \in Requests, End(r)
  PROVE  /\ req' = [req EXCEPT ![r] = Idle]
         /\ Idle \in Request /\ Idle.id = 0
  BY IdleType DEF End

LEMMA HistoryStays ==
  ASSUME Inv, UNCHANGED <<listingCount, late>>
  PROVE  listingCount' \in Counts /\ late' \subseteq Someone \X Nat
  BY DEF Inv, TypeOK

\* Only to go on: what the request has seen does not depend on where it is,
\* but for the places named.
LEMMA GoesOn ==
  ASSUME Inv, NEW r \in Requests, NEW at \in Awaits, Go(r, at),
         UNCHANGED <<made, table, bookings, calls, overlapped, hurried, cut, given>>,
         listingCount' \in Counts, late' \subseteq Someone \X Nat,
         req[r].id \in {0} \cup overlapped \/ Sees([req[r] EXCEPT !.at = at])
  PROVE  Inv'
<1> DEFINE q == [req[r] EXCEPT !.at = at]
<1>1. q \in Request /\ req' = [req EXCEPT ![r] = q]
  BY GoType DEF Go, Inv
<1>2. q.id = req[r].id /\ q.call = req[r].call
  BY DEF Inv, TypeOK, Request
<1>3. cut' \subseteq Someone /\ given' \subseteq Someone
  BY DEF Inv, TypeOK
<1> HIDE DEF q
<1>4. q.id \in {0} \cup overlapped \/ Sees(q)
  BY <1>2 DEF q
<1> QED
  BY <1>1, <1>2, <1>3, <1>4, Moves

LEMMA Ends ==
  ASSUME Inv, NEW r \in Requests, End(r),
         UNCHANGED <<made, table, listingCount, bookings, late, calls, overlapped, hurried, given>>,
         cut' \subseteq Someone
  PROVE  Inv'
<1>1. given' \subseteq Someone /\ TypeOK
  BY DEF Inv, TypeOK
<1> QED
  BY <1>1, EndIs, HistoryStays, Moves

-----------------------------------------------------------------------------
(***************************************************************************)
(* createListing and duplicateListing.                                     *)
(***************************************************************************)
LEMMA StartCreateInv ==
  ASSUME Inv, NEW r \in Requests, NEW call \in {"create", "duplicate"},
         NEW u \in Users, NEW h \in Users, NEW inst \in Row,
         StartCreate(r, call, u, h, inst)
  PROVE  Inv'
<1> DEFINE q == [Idle EXCEPT !.call = call, !.at = "save", !.by = u, !.host = h,
                             !.inst = inst]
<1>1. q \in Request /\ q.id = 0 /\ q.call \in {"create", "duplicate"}
  BY IdleType DEF Request, Handlers, Awaits, Someone
<1>2. q.id <= made
  BY <1>1 DEF Inv, TypeOK
<1>3. Become(r, q)
  BY DEF StartCreate
<1> HIDE DEF q
<1> QED
  BY <1>1, <1>2, <1>3, Begins DEF StartCreate

LEMMA CardinalityInNat ==
  ASSUME TypeOK, NEW u
  PROVE  Cardinality(ListingsOf(u)) \in Nat
<1>1. IsFiniteSet(Ids)
  BY ListingsAssumption, FS_Interval DEF Ids
<1>2. ListingsOf(u) \subseteq Ids
  BY DEF ListingsOf, TypeOK
<1> QED
  BY <1>1, <1>2, FS_Subset, FS_CardinalityType

LEMMA FilledType ==
  ASSUME NEW h \in Someone, NEW content,
         content.price \in Nat, content.photos \in BOOLEAN
  PROVE  /\ Filled(h, content) \in Row
         /\ Filled(h, content).price = content.price
         /\ Filled(h, content).photos = content.photos
         /\ ~Filled(h, content).active
         /\ Filled(h, content).host = h
  BY DEF Filled, NoRow, Row

LEMMA CreateCountInv ==
  ASSUME Inv, NEW r \in Requests, CreateCount(r)
  PROVE  Inv'
<1> DEFINE n == Cardinality(ListingsOf(req[r].host))
           q == [req[r] EXCEPT !.at = "note", !.found = n]
<1>1. n \in Nat /\ req[r] \in Request
  BY CardinalityInNat DEF Inv, TypeOK
<1>2. req' = [req EXCEPT ![r].at = "note", ![r].found = n]
  BY DEF CreateCount
<1> HIDE DEF n
<1>3. /\ q \in Request /\ q.id = req[r].id /\ q.call = req[r].call
      /\ req' = [req EXCEPT ![r] = q]
  BY <1>1, <1>2 DEF Request, Awaits, Inv, TypeOK
<1>4. q.id \in {0} \cup overlapped \/ Sees(q)
  BY <1>1 DEF Inv, Undisturbed, Sees, CreateCount, CreatesAt, At, Request
<1> HIDE DEF q
<1>5. /\ UNCHANGED <<made, table, bookings, calls, overlapped, hurried>>
      /\ listingCount' \in Counts /\ late' \subseteq Someone \X Nat
      /\ cut' \subseteq Someone /\ given' \subseteq Someone
  BY DEF CreateCount, history, Inv, TypeOK
<1> QED
  BY <1>3, <1>4, <1>5, Moves

LEMMA CreateNoteInv ==
  ASSUME Inv, NEW r \in Requests, CreateNote(r)
  PROVE  Inv'
<1> DEFINE q == [req[r] EXCEPT !.at = "publish", !.found = 0, !.noted = Idle.noted]
<1>1. q \in Request /\ req' = [req EXCEPT ![r] = q] /\ req[r] \in Request
  BY NotedType DEF CreateNote, Inv, TypeOK
<1>2. q.id = req[r].id /\ q.call = req[r].call
  BY <1>1 DEF Request
<1>3. q.id \in {0} \cup overlapped \/ Sees(q)
  BY <1>1, <1>2 DEF Inv, Undisturbed, Sees, CreateNote, CreatesAt, At, Request
<1> HIDE DEF q
<1>4. /\ UNCHANGED <<made, table, bookings, calls, overlapped, hurried>>
      /\ late' \subseteq Someone \X Nat
      /\ cut' \subseteq Someone /\ given' \subseteq Someone
  BY DEF CreateNote, history, Inv, TypeOK
<1>5. listingCount' \in Counts
  BY <1>1 DEF CreateNote, Inv, TypeOK, Counts, Request
<1> QED
  BY <1>1, <1>2, <1>3, <1>4, <1>5, Moves

LEMMA SentType ==
  ASSUME NEW content \in Sent
  PROVE  content.price \in Nat /\ content.photos \in BOOLEAN
  BY ListingsAssumption DEF Sent

\* A new listing gets a new id, and is not active.
LEMMA CreateSaveInv ==
  ASSUME Inv, NEW r \in Requests, CreateSave(r)
  PROVE  Inv'
<1>1. req[r] \in Request /\ made \in Nat /\ made + 1 \in Ids /\ made < MaxListings
  BY ListingsAssumption DEF CreateSave, Inv, TypeOK, Ids
<1>2. PICK content \in IF req[r].call = "create" THEN Sent ELSE {req[r].inst} :
        /\ Put(made + 1, Filled(req[r].host, content))
        /\ req' = [req EXCEPT ![r].at = "count", ![r].id = made + 1,
                              ![r].inst = Filled(req[r].host, content)]
  BY DEF CreateSave
<1> DEFINE l == Filled(req[r].host, content)
           q == [req[r] EXCEPT !.at = "count", !.id = made + 1, !.inst = l]
<1>3. content.price \in Nat /\ content.photos \in BOOLEAN
  BY <1>1, <1>2, SentType DEF Request, Row
<1>4. l \in Row /\ ~l.active
  BY <1>1, <1>3, FilledType DEF Request
<1> HIDE DEF l
<1>5. /\ q \in Request /\ req' = [req EXCEPT ![r] = q]
      /\ q.id = made + 1 /\ q.call = req[r].call /\ q.inst = l
  BY <1>1, <1>2, <1>4 DEF Request, Awaits, Inv, TypeOK, l
<1> HIDE DEF q
<1>6. req' \in [Requests -> Request] /\ req'[r] = q /\ OthersStay(r)
  BY <1>5, NewRequest DEF Inv, OthersStay
<1>7. /\ made' = made + 1 /\ listings' = listings \cup {made + 1}
      /\ listing' = [listing EXCEPT ![made + 1] = l]
      /\ UNCHANGED <<listingCount, bookings, late, calls, overlapped, hurried, cut>>
      /\ given' = IF req[r].host # req[r].by THEN given \cup {req[r].host} ELSE given
  BY <1>2 DEF CreateSave, Put, l
<1>8. TypeOK'
  <2>1. \A b \in bookings' : b \in Booking(b.total) /\ Totals(b.total)
    BY <1>7 DEF Inv, TypeOK
  <2>2. listing' \in [Ids -> Row] /\ listings' \subseteq Ids /\ made' \in 0..MaxListings
    BY <1>1, <1>4, <1>7, ListingsAssumption DEF Inv, TypeOK
  <2>3. given' \subseteq Someone
    BY <1>1, <1>7 DEF Inv, TypeOK, Request
  <2> QED
    BY <1>6, <1>7, <2>1, <2>2, <2>3 DEF Inv, TypeOK
<1>9. \A s \in Requests : s # r => req[s].id <= made /\ req[s].id # made + 1
  <2>1. \A s \in Requests : req[s].id \in Nat /\ req[s].id <= made
    BY DEF Inv, TypeOK, Numbered, Request, Ids
  <2> QED
    BY <1>1, <2>1
<1>10. Met'
  BY <1>5, <1>6, <1>7, <1>9 DEF Inv, Met, OthersStay
<1>11. Numbered'
  <2>1. \A i \in listings : i \in Nat /\ i <= made
    BY DEF Inv, TypeOK, Numbered, Ids
  <2>2. \A s \in Requests : s # r => req[s].id \in Nat /\ req'[s].id <= made + 1
    BY <1>1, <1>6, <1>9 DEF Inv, TypeOK, Request, Ids, OthersStay
  <2>3. \A s \in Requests : req'[s].call \in {"post", "quote"} => req'[s].id # 0
    BY <1>1, <1>5, <1>6 DEF Inv, Numbered, OthersStay
  <2> QED
    BY <1>1, <1>5, <1>6, <1>7, <2>1, <2>2, <2>3 DEF Numbered
<1>12. Undisturbed'
  <2>1. \A i \in Ids : i \notin {req[r].id, req'[r].id} => Stays(i)
    BY <1>1, <1>5, <1>6, <1>7 DEF Stays, IsBooked, Inv, TypeOK
  <2>2. Sees(req[r])'
    BY <1>1, <1>5, <1>6, <1>7 DEF Sees, Matches, CreateSave, CreatesAt, At, Inv, TypeOK
  <2> QED
    BY <1>6, <1>7, <1>10, <2>1, <2>2, OthersSee
<1>13. PublishedIsComplete' /\ BookedListingsExist' /\ QuotesAgree'
  BY <1>1, <1>4, <1>7
  DEF Inv, TypeOK, PublishedIsComplete, BookedListingsExist, QuotesAgree, Complete
<1> QED
  BY <1>8, <1>10, <1>11, <1>12, <1>13 DEF Inv

-----------------------------------------------------------------------------
(***************************************************************************)
(* Writes of a row.                                                        *)
(***************************************************************************)
LEMMA SetActiveIs ==
  ASSUME Inv, NEW i \in Ids, NEW was \in BOOLEAN, NEW active \in BOOLEAN,
         SetActive(i, was, active)
  PROVE  /\ listing' \in [Ids -> Row]
         /\ \A j \in Ids : j # i => listing'[j] = listing[j]
         /\ listing'[i].price = listing[i].price /\ listing'[i].photos = listing[i].photos
         /\ listing'[i].active => active \/ listing[i].active
  BY DEF SetActive, Put, Inv, TypeOK, Row

LEMMA SaveIs ==
  ASSUME Inv, NEW i \in Ids, NEW old \in Row, NEW new \in Row, Save(i, old, new)
  PROVE  /\ listing' \in [Ids -> Row]
         /\ \A j \in Ids : j # i => listing'[j] = listing[j]
         /\ i \in listings =>
              /\ listing'[i].photos = new.photos
              /\ listing'[i].price = IF new.price # old.price THEN new.price ELSE listing[i].price
              /\ listing'[i].active = IF new.active # old.active THEN new.active
                                                                 ELSE listing[i].active
<1>1. listing \in [Ids -> Row]
  BY DEF Inv, TypeOK
<1>2. CASE i \in listings
  <2> DEFINE l == [ host   |-> IF new.host # old.host THEN new.host ELSE listing[i].host,
                    active |-> IF new.active # old.active THEN new.active ELSE listing[i].active,
                    price  |-> IF new.price # old.price THEN new.price ELSE listing[i].price,
                    photos |-> new.photos ]
  <2>1. listing' = [listing EXCEPT ![i] = l]
    BY <1>2 DEF Save, Put
  <2>2. l \in Row
    BY <1>1 DEF Row
  <2> QED
    BY <1>1, <1>2, <2>1, <2>2
<1>3. CASE i \notin listings
  BY <1>1, <1>3 DEF Save
<1> QED
  BY <1>2, <1>3

\* What holds of a row that a step of r does not write.
LEMMA RowStays ==
  ASSUME Inv, NEW i, UNCHANGED <<listings, listing>>
  PROVE  \/ i \in {0} \cup overlapped
         \/ /\ i \in listings' /\ listing'[i].active => Complete(listing'[i])
            /\ i \in listings' \/ ~IsBooked(i)
  BY DEF Inv, PublishedIsComplete, BookedListingsExist, IsBooked

LEMMA CreatePublishInv ==
  ASSUME Inv, NEW r \in Requests, CreatePublish(r)
  PROVE  Inv'
<1> DEFINE q == req[r]
<1>1. q \in Request /\ req' = [req EXCEPT ![r] = Idle] /\ Idle \in Request /\ Idle.id = 0
  BY EndIs DEF CreatePublish, Inv, TypeOK
<1>2. /\ UNCHANGED <<made, bookings, calls, overlapped, hurried>>
      /\ listings' = listings
      /\ listingCount' \in Counts /\ late' \subseteq Someone \X Nat
      /\ cut' \subseteq Someone /\ given' \subseteq Someone
      /\ listing \in [Ids -> Row] /\ listings \subseteq Ids
  BY DEF CreatePublish, Inv, TypeOK
<1>3. CASE UNCHANGED listing
  BY <1>1, <1>2, <1>3, RowStays, Goes
<1>4. CASE listing' # listing
  <2>1. CanPublish(q.by, q.inst) /\ SetActive(q.id, FALSE, TRUE) /\ q.id \in Ids /\ q.id \in listings
    BY <1>2, <1>4 DEF CreatePublish, SetActive
  <2>2. /\ listing' \in [Ids -> Row]
        /\ \A j \in Ids : j # q.id => listing'[j] = listing[j]
        /\ listing'[q.id].price = listing[q.id].price
        /\ listing'[q.id].photos = listing[q.id].photos
    BY <2>1, SetActiveIs
  <2>3. q.id \in {0} \cup overlapped \/ Matches(q.id, q.inst)
    BY DEF Inv, Undisturbed, Sees, CreatePublish, CreatesAt, At
  <2>4. q.id \in {0} \cup overlapped \/ Complete(listing'[q.id])
    BY <2>1, <2>2, <2>3 DEF CanPublish, Complete, Matches
  <2> QED
    BY <1>1, <1>2, <2>1, <2>2, <2>4, Goes
<1> QED
  BY <1>3, <1>4

-----------------------------------------------------------------------------
(***************************************************************************)
(* updateListing.                                                          *)
(***************************************************************************)
LEMMA UpdateListingInv ==
  ASSUME Inv, NEW r \in Requests, NEW u \in Users, NEW i \in Ids, UpdateListing(r, u, i)
  PROVE  Inv'
<1> DEFINE q == [Idle EXCEPT !.call = "update", !.at = "load", !.by = u, !.id = i]
<1>1. q \in Request /\ q.id = i /\ q.call = "update" /\ q.at = "load"
  BY IdleType DEF Request, Handlers, Awaits, Someone
<1>2. q.id <= made
  BY <1>1 DEF Inv, Numbered, UpdateListing
<1>3. Sees(q)
  BY <1>1 DEF Sees
<1>4. Become(r, q)
  BY DEF UpdateListing
<1> HIDE DEF q
<1> QED
  BY <1>1, <1>2, <1>3, <1>4, Begins DEF UpdateListing

LEMMA UpdateLoadInv ==
  ASSUME Inv, NEW r \in Requests, UpdateLoad(r)
  PROVE  Inv'
<1> DEFINE row == listing[req[r].id]
<1>1. req[r] \in Request /\ TypeOK
  BY DEF Inv, TypeOK
<1>2. CASE ~(req[r].id \in listings /\ CanEdit(req[r].by, row))
  BY <1>1, <1>2, Ends DEF UpdateLoad, TypeOK
<1>3. CASE req[r].id \in listings /\ CanEdit(req[r].by, row)
  <2>1. PICK h \in NewHosts(r, row) :
          Become(r, [req[r] EXCEPT !.at = "save", !.host = h, !.prev = row.host,
                                   !.old = row])
    BY <1>3 DEF UpdateLoad
  <2> DEFINE q == [req[r] EXCEPT !.at = "save", !.host = h, !.prev = row.host, !.old = row]
  <2>2. row \in Row /\ row.host \in Someone /\ h \in Someone
    BY <1>1, <1>3 DEF TypeOK, Row, NewHosts, Someone
  <2> HIDE DEF row
  <2>3. q \in Request /\ q.id = req[r].id /\ q.call = "update" /\ q.old = row
    BY <1>1, <2>2 DEF Request, Awaits, UpdateLoad, At
  <2>4. q.id <= made
    BY <2>3 DEF Inv, Numbered
  <2>5. Sees(q)
    BY <1>1, <1>3, <2>3 DEF Sees, row, Request
  <2>6. Become(r, q)
    BY <2>1
  <2> HIDE DEF q
  <2> QED
    BY <2>3, <2>4, <2>5, <2>6, Begins DEF UpdateLoad
<1> QED
  BY <1>2, <1>3

\* What was on offer is taken off the market by the same write.
LEMMA UpdateSaveInv ==
  ASSUME Inv, NEW r \in Requests, UpdateSave(r)
  PROVE  Inv'
<1>1. req[r] \in Request /\ req[r].call = "update" /\ req[r].at = "save"
  BY DEF Inv, TypeOK, UpdateSave, At
<1>2. PICK content \in Sent :
        /\ Save(req[r].id, req[r].old, Edited(req[r], content))
        /\ req' = [req EXCEPT ![r].at = IF req[r].host # req[r].prev THEN "count" ELSE "publish",
                              ![r].inst = Edited(req[r], content)]
  BY DEF UpdateSave
<1> DEFINE at == IF req[r].host # req[r].prev THEN "count" ELSE "publish"
           l == Edited(req[r], content)
           i == req[r].id
<1>3. at \in Awaits /\ at \in {"count", "publish"}
  BY DEF Awaits
<1>4. l \in Row /\ ~l.active
  BY <1>1, SentType, FilledType DEF Request, Edited
<1> HIDE DEF l, at
<1>5. PICK q \in Request :
        /\ req' = [req EXCEPT ![r] = q]
        /\ q.id = req[r].id /\ q.call = req[r].call
        /\ q.call = "update" /\ q.at \in {"count", "publish"} /\ q.inst = l
  <2> DEFINE q == [req[r] EXCEPT !.at = at, !.inst = l]
  <2>1. /\ q \in Request /\ req' = [req EXCEPT ![r] = q]
        /\ q.id = i /\ q.call = req[r].call /\ q.at \in {"count", "publish"} /\ q.inst = l
    BY <1>1, <1>2, <1>3, <1>4 DEF Request, Inv, TypeOK, at, l
  <2> QED
    BY <1>1, <2>1
<1>6. /\ UNCHANGED <<made, bookings, calls, overlapped, hurried>>
      /\ listings' = listings
      /\ listingCount' \in Counts /\ late' \subseteq Someone \X Nat
      /\ cut' \subseteq Someone
      /\ listing \in [Ids -> Row] /\ listings \subseteq Ids
  BY DEF UpdateSave, Inv, TypeOK
<1>7. given' \subseteq Someone
  BY <1>1 DEF UpdateSave, Inv, TypeOK, Request
<1>8. i \in {0} \cup overlapped \/ (i \in listings /\ listing[i] = req[r].old)
  BY <1>1 DEF Inv, Undisturbed, Sees
<1>9. CASE i \notin listings
  <2>1. listing' = listing /\ i \in {0} \cup overlapped
    BY <1>2, <1>8, <1>9 DEF Save
  <2> QED
    BY <1>5, <1>6, <1>7, <2>1, Goes
<1>10. CASE i \in listings
  <2>1. i \in Ids /\ req[r].old \in Row /\ Save(i, req[r].old, l)
    BY <1>1, <1>2, <1>6, <1>10 DEF Request, l
  <2>2. /\ listing' \in [Ids -> Row]
        /\ \A j \in Ids : j # i => listing'[j] = listing[j]
        /\ listing'[i].photos = l.photos
        /\ listing'[i].price = IF l.price # req[r].old.price THEN l.price ELSE listing[i].price
        /\ listing'[i].active = IF l.active # req[r].old.active THEN l.active
                                                               ELSE listing[i].active
    BY <1>4, <1>10, <2>1, SaveIs
  <2>3. i \in overlapped \/ (~listing'[i].active /\ Sees(q)')
    <3> SUFFICES ASSUME i \notin overlapped PROVE ~listing'[i].active /\ Sees(q)'
      OBVIOUS
    <3>1. i # 0 /\ listing[i] = req[r].old
      BY <1>8, <2>1 DEF Ids
    <3>2. l.active \in BOOLEAN /\ req[r].old.active \in BOOLEAN
      BY <1>4, <2>1 DEF Row
    <3>3. ~listing'[i].active
      BY <1>4, <2>2, <3>1, <3>2
    <3>4. listing'[i].price = l.price
      BY <2>2, <3>1
    <3> QED
      BY <1>5, <1>6, <1>10, <2>2, <3>3, <3>4 DEF Sees, Matches
  <2> QED
    BY <1>5, <1>6, <1>7, <1>10, <2>2, <2>3, Goes
<1> QED
  BY <1>9, <1>10

LEMMA UpdateCountInv ==
  ASSUME Inv, NEW r \in Requests, UpdateCount(r)
  PROVE  Inv'
<1> DEFINE q == [req[r] EXCEPT !.at = "publish", !.found = 0, !.noted = Idle.noted]
<1>1. q \in Request /\ req' = [req EXCEPT ![r] = q] /\ req[r] \in Request
  BY NotedType DEF UpdateCount, Inv, TypeOK
<1>2. q.id = req[r].id /\ q.call = req[r].call
  BY <1>1 DEF Request
<1>3. q.id \in {0} \cup overlapped \/ Sees(q)
  BY <1>1, <1>2 DEF Inv, Undisturbed, Sees, UpdateCount, At, Request
<1> HIDE DEF q
<1>4. /\ UNCHANGED <<made, table, bookings, calls, overlapped, hurried>>
      /\ listingCount' \in Counts
      /\ cut' \subseteq Someone /\ given' \subseteq Someone
  BY DEF UpdateCount, history, Inv, TypeOK
<1>5. NewCounts(req[r]) \subseteq Someone \X Nat
  BY <1>1, CardinalityInNat DEF Inv, NewCounts, Request
<1>6. late' \subseteq Someone \X Nat
  BY <1>5 DEF UpdateCount, Inv, TypeOK
<1> QED
  BY <1>1, <1>2, <1>3, <1>4, <1>6, Moves

\* A step that is not about listings at all.
LEMMA Elsewhere ==
  ASSUME Inv, UNCHANGED <<made, table, bookings, req, calls, overlapped, hurried>>,
         listingCount' \in Counts, late' \subseteq Someone \X Nat,
         cut' \subseteq Someone, given' \subseteq Someone
  PROVE  Inv'
<1>1. UNCHANGED <<listings, listing>>
  BY DEF table
<1>2. TypeOK'
  <2>1. \A b \in bookings' : b \in Booking(b.total) /\ Totals(b.total)
    BY DEF Inv, TypeOK
  <2> QED
    BY <1>1, <2>1 DEF Inv, TypeOK
<1>3. Undisturbed'
  BY <1>1 DEF Inv, Undisturbed, Sees, Matches, Complete, IsBooked
<1>4. Met' /\ Numbered'
  BY <1>1 DEF Inv, Met, Numbered
<1>5. PublishedIsComplete' /\ BookedListingsExist' /\ QuotesAgree'
  BY <1>1 DEF Inv, PublishedIsComplete, BookedListingsExist, QuotesAgree, Complete
<1> QED
  BY <1>2, <1>3, <1>4, <1>5 DEF Inv

LEMMA LateCountInv ==
  ASSUME Inv, NEW w \in late, LateCount(w) \/ LateCountFails(w)
  PROVE  Inv'
<1>1. w[1] \in Someone /\ w[2] \in Nat /\ late' \subseteq Someone \X Nat
  BY DEF Inv, TypeOK, LateCount, LateCountFails
<1>2. listingCount' \in Counts
  BY <1>1 DEF Inv, TypeOK, LateCount, LateCountFails, Counts
<1>3. cut' \subseteq Someone /\ given' \subseteq Someone
  BY <1>1 DEF Inv, TypeOK, LateCount, LateCountFails, history
<1>4. UNCHANGED <<made, table, bookings, req, calls, overlapped, hurried>>
  BY DEF LateCount, LateCountFails, history
<1> QED
  BY <1>1, <1>2, <1>3, <1>4, Elsewhere

\* The instance that is published is the row, and it is complete.
LEMMA UpdatePublishInv ==
  ASSUME Inv, NEW r \in Requests, UpdatePublish(r)
  PROVE  Inv'
<1> DEFINE q == req[r]
<1>1. q \in Request /\ req' = [req EXCEPT ![r] = Idle] /\ Idle \in Request /\ Idle.id = 0
  BY EndIs DEF UpdatePublish, Inv, TypeOK
<1>2. /\ UNCHANGED <<made, bookings, calls, overlapped, hurried>>
      /\ listings' = listings
      /\ listingCount' \in Counts /\ late' \subseteq Someone \X Nat
      /\ cut' \subseteq Someone /\ given' \subseteq Someone
      /\ listing \in [Ids -> Row] /\ listings \subseteq Ids
  BY DEF UpdatePublish, Inv, TypeOK
<1>3. CASE UNCHANGED listing
  BY <1>1, <1>2, <1>3, RowStays, Goes
<1>4. CASE listing' # listing
  <2>1. q.id \in Ids /\ q.id \in listings
    BY <1>2, <1>4 DEF UpdatePublish, SetActive, Save
  <2>2. q.id \in overlapped \/ Matches(q.id, q.inst)
    BY <2>1 DEF Inv, Undisturbed, Sees, UpdatePublish, At, Ids
  <2>3. /\ listing' \in [Ids -> Row]
        /\ \A j \in Ids : j # q.id => listing'[j] = listing[j]
        /\ q.id \in overlapped \/ (listing'[q.id].active => Complete(listing'[q.id]))
    <3>1. CASE CanPublish(q.by, q.inst) /\ SetActive(q.id, q.inst.active, TRUE)
      <4>1. q.inst.active \in BOOLEAN
        BY <1>1 DEF Request, Row
      <4> QED
        BY <2>1, <2>2, <3>1, <4>1, SetActiveIs DEF CanPublish, Complete, Matches
    <3>2. CASE Save(q.id, q.inst, q.inst)
      <4>1. q.inst \in Row
        BY <1>1 DEF Request
      <4>2. /\ listing' \in [Ids -> Row]
            /\ \A j \in Ids : j # q.id => listing'[j] = listing[j]
            /\ listing'[q.id].photos = q.inst.photos
            /\ listing'[q.id].price = listing[q.id].price
            /\ listing'[q.id].active = listing[q.id].active
        BY <2>1, <3>2, <4>1, SaveIs
      <4> QED
        BY <2>1, <2>2, <4>2 DEF Inv, PublishedIsComplete, Complete, Matches
    <3> QED
      BY <1>4, <3>1, <3>2 DEF UpdatePublish
  <2> QED
    BY <1>1, <1>2, <2>1, <2>3, Goes
<1> QED
  BY <1>3, <1>4

-----------------------------------------------------------------------------
(***************************************************************************)
(* activateListing, deactivateListing and deleteListing.                   *)
(***************************************************************************)
LEMMA SwitchInv ==
  ASSUME Inv, NEW r \in Requests, NEW call \in {"activate", "deactivate"},
         NEW u \in Users, NEW i \in Ids, Switch(r, call, u, i)
  PROVE  Inv'
<1> DEFINE q == [Idle EXCEPT !.call = call, !.at = "find", !.by = u, !.id = i]
<1>1. q \in Request /\ q.id = i /\ q.call = call
  BY IdleType DEF Request, Handlers, Awaits, Someone
<1>2. q.id <= made
  BY <1>1 DEF Inv, Numbered, Switch
<1>3. Sees(q)
  BY <1>1 DEF Sees, Switch, CanPublish
<1>4. Become(r, q)
  BY DEF Switch
<1> HIDE DEF q
<1> QED
  BY <1>1, <1>2, <1>3, <1>4, Begins DEF Switch

LEMMA SwitchFindInv ==
  ASSUME Inv, NEW r \in Requests, SwitchFind(r)
  PROVE  Inv'
<1>1. TypeOK /\ req[r] \in Request
  BY DEF Inv, TypeOK
<1>2. CASE req[r].id \notin listings
  BY <1>1, <1>2, Ends DEF SwitchFind, history, TypeOK
<1>3. CASE req[r].id \in listings
  <2> DEFINE q == [req[r] EXCEPT !.at = "write", !.old = listing[req[r].id]]
  <2>1. listing[req[r].id] \in Row
    BY <1>1, <1>3 DEF TypeOK
  <2>2. /\ q \in Request /\ req' = [req EXCEPT ![r] = q]
        /\ q.id = req[r].id /\ q.call = req[r].call
    BY <1>1, <1>3, <2>1 DEF SwitchFind, Request, Awaits, TypeOK
  <2>3. q.id \in {0} \cup overlapped \/ Sees(q)
    BY <1>3, <2>2 DEF Inv, Undisturbed, Sees, SwitchFind, SwitchesAt, At
  <2> HIDE DEF q
  <2>4. /\ UNCHANGED <<made, table, bookings, calls, overlapped, hurried>>
        /\ listingCount' \in Counts /\ late' \subseteq Someone \X Nat
        /\ cut' \subseteq Someone /\ given' \subseteq Someone
    BY <1>1 DEF SwitchFind, history, TypeOK
  <2> QED
    BY <2>2, <2>3, <2>4, Moves
<1> QED
  BY <1>2, <1>3

LEMMA SwitchWriteInv ==
  ASSUME Inv, NEW r \in Requests, SwitchWrite(r)
  PROVE  Inv'
<1> DEFINE q == req[r]
<1>1. q \in Request /\ req' = [req EXCEPT ![r] = Idle] /\ Idle \in Request /\ Idle.id = 0
  BY EndIs DEF SwitchWrite, Inv, TypeOK
<1>2. /\ UNCHANGED <<made, bookings, calls, overlapped, hurried>>
      /\ listings' = listings
      /\ listingCount' \in Counts /\ late' \subseteq Someone \X Nat
      /\ cut' \subseteq Someone /\ given' \subseteq Someone
      /\ listing \in [Ids -> Row] /\ listings \subseteq Ids
  BY DEF SwitchWrite, Inv, TypeOK
<1>3. CASE UNCHANGED listing
  BY <1>1, <1>2, <1>3, RowStays, Goes
<1>4. CASE listing' # listing
  <2>1. q.id \in Ids /\ q.id \in listings /\ q.old.active \in BOOLEAN
    BY <1>1, <1>2, <1>4 DEF SwitchWrite, SetActive, Request, Row
  <2>2. SetActive(q.id, q.old.active, q.call = "activate") /\ (q.call = "activate") \in BOOLEAN
    BY DEF SwitchWrite
  <2>3. /\ listing' \in [Ids -> Row]
        /\ \A j \in Ids : j # q.id => listing'[j] = listing[j]
        /\ listing'[q.id].price = listing[q.id].price
        /\ listing'[q.id].photos = listing[q.id].photos
        /\ listing'[q.id].active => q.call = "activate" \/ listing[q.id].active
    BY <2>1, <2>2, SetActiveIs
  <2>4. q.id \in overlapped \/ (listing'[q.id].active => Complete(listing[q.id]))
    BY <2>1, <2>3 DEF Inv, Undisturbed, Sees, PublishedIsComplete, Ids
  <2>5. q.id \in overlapped \/ (listing'[q.id].active => Complete(listing'[q.id]))
    BY <2>3, <2>4 DEF Complete
  <2> QED
    BY <1>1, <1>2, <2>1, <2>3, <2>5, Goes
<1> QED
  BY <1>3, <1>4

LEMMA DeleteListingInv ==
  ASSUME Inv, NEW r \in Requests, NEW u \in Users, NEW i \in Ids, DeleteListing(r, u, i)
  PROVE  Inv'
<1> DEFINE q == [Idle EXCEPT !.call = "delete", !.at = "check", !.by = u, !.id = i]
<1>1. q \in Request /\ q.id = i /\ q.call = "delete" /\ q.at = "check"
  BY IdleType DEF Request, Handlers, Awaits, Someone
<1>2. q.id <= made
  BY <1>1 DEF Inv, Numbered, DeleteListing
<1>3. Sees(q)
  BY <1>1 DEF Sees
<1>4. Become(r, q)
  BY DEF DeleteListing
<1> HIDE DEF q
<1> QED
  BY <1>1, <1>2, <1>3, <1>4, Begins DEF DeleteListing

LEMMA DeleteCheckInv ==
  ASSUME Inv, NEW r \in Requests, DeleteCheck(r)
  PROVE  Inv'
<1>1. TypeOK /\ req[r] \in Request
  BY DEF Inv, TypeOK
<1>2. CASE ~(req[r].id \in listings /\ ~IsBooked(req[r].id))
  BY <1>1, <1>2, Ends DEF DeleteCheck, history, TypeOK
<1>3. CASE req[r].id \in listings /\ ~IsBooked(req[r].id)
  <2>1. Go(r, "destroy")
    BY <1>3 DEF DeleteCheck
  <2> DEFINE q == [req[r] EXCEPT !.at = "destroy"]
  <2>2. q.id = req[r].id /\ q.call = "delete"
    BY <1>1 DEF Request, DeleteCheck, At
  <2>3. Sees(q)
    BY <1>3, <2>2 DEF Sees
  <2>4. "destroy" \in Awaits
    BY DEF Awaits
  <2>5. /\ UNCHANGED <<made, table, bookings, calls, overlapped, hurried, cut, given>>
        /\ listingCount' \in Counts /\ late' \subseteq Someone \X Nat
    BY <1>1 DEF DeleteCheck, history, TypeOK
  <2> QED
    BY <2>1, <2>3, <2>4, <2>5, GoesOn
<1> QED
  BY <1>2, <1>3

LEMMA DeleteRowInv ==
  ASSUME Inv, NEW r \in Requests, DeleteRow(r)
  PROVE  Inv'
<1> DEFINE i == req[r].id
<1>1. req' = [req EXCEPT ![r] = Idle] /\ Idle \in Request /\ Idle.id = 0
  BY EndIs DEF DeleteRow, Inv, TypeOK
<1>2. /\ UNCHANGED <<made, bookings, calls, overlapped, hurried>>
      /\ listings' = listings \ {i}
      /\ listing' = [listing EXCEPT ![i] = NoRow]
      /\ listingCount' \in Counts /\ late' \subseteq Someone \X Nat
      /\ cut' \subseteq Someone /\ given' \subseteq Someone
  BY DEF DeleteRow, history, Inv, TypeOK
<1>3. /\ listing' \in [Ids -> Row]
      /\ \A j \in Ids : j # i => listing'[j] = listing[j]
  BY <1>2, IdleType DEF Inv, TypeOK
<1>4. i \in {0} \cup overlapped \/ ~IsBooked(i)
  BY DEF Inv, Undisturbed, Sees, DeleteRow, At
<1> QED
  BY <1>1, <1>2, <1>3, <1>4, Goes

-----------------------------------------------------------------------------
(***************************************************************************)
(* createBooking and createBookingWithQuotes.                              *)
(***************************************************************************)
LEMMA PostBookingInv ==
  ASSUME Inv, NEW r \in Requests, NEW i \in Ids, PostBooking(r, i) \/ QuoteBooking(r, i)
  PROVE  Inv'
<1>1. PICK call \in {"post", "quote"}, at \in {"active", "save"} :
        /\ Book(r, call, at, i)
        /\ i \in listings
        /\ at = "save" => listing[i].active
  BY DEF PostBooking, QuoteBooking, FoundActive
<1> DEFINE q == [Idle EXCEPT !.call = call, !.at = at, !.id = i, !.inst = listing[i]]
<1>2. listing[i] \in Row
  BY DEF Inv, TypeOK
<1>3. /\ q \in Request /\ q.id = i /\ q.call = call /\ q.at = at
      /\ q.inst = listing[i]
  BY <1>2, IdleType DEF Request, Handlers, Awaits
<1>4. q.id <= made /\ q.id # 0
  BY <1>1, <1>3 DEF Inv, Numbered, Ids
<1>5. Sees(q)
  BY <1>1, <1>3 DEF Sees
<1>6. Become(r, q)
  BY <1>1 DEF Book
<1> HIDE DEF q
<1> QED
  BY <1>1, <1>3, <1>4, <1>5, <1>6, Begins DEF Book

LEMMA PostActiveInv ==
  ASSUME Inv, NEW r \in Requests, PostActive(r)
  PROVE  Inv'
<1>1. TypeOK /\ req[r] \in Request
  BY DEF Inv, TypeOK
<1>2. CASE ~FoundActive(req[r].id)
  BY <1>1, <1>2, Ends DEF PostActive, history, TypeOK
<1>3. CASE FoundActive(req[r].id)
  <2>1. Go(r, "save")
    BY <1>3 DEF PostActive
  <2> DEFINE q == [req[r] EXCEPT !.at = "save"]
  <2>2. q.id = req[r].id /\ q.call = "post" /\ q.inst = req[r].inst
    BY <1>1 DEF Request, PostActive, At
  <2>3. q.id \in {0} \cup overlapped \/ Sees(q)
    BY <1>3, <2>2 DEF Inv, Undisturbed, Sees, FoundActive, PostActive, At
  <2>4. "save" \in Awaits
    BY DEF Awaits
  <2>5. /\ UNCHANGED <<made, table, bookings, calls, overlapped, hurried, cut, given>>
        /\ listingCount' \in Counts /\ late' \subseteq Someone \X Nat
    BY <1>1 DEF PostActive, history, TypeOK
  <2> QED
    BY <2>1, <2>2, <2>3, <2>4, <2>5, GoesOn
<1> QED
  BY <1>2, <1>3

LEMMA QuoteIs ==
  ASSUME NEW rates \in RateTables, NEW stay \in Stay, NEW c \in Currencies
  PROVE  /\ Total(c, rates[c], stay) \in Nat
         /\ Agrees(c, rates[c], stay, Total(c, rates[c], stay))
<1>1. IsRate(rates[c]) /\ (c = "USD" => rates[c] = Par)
  BY ListingsAssumption
<1> QED
  BY <1>1, TotalIs, TotalsAgree

\* What a booking is stored with: an amount for each currency it names.
AllQuoted(posted, rates, stay, total) ==
  /\ Totals(total)
  /\ \A c \in DOMAIN total :
       Agrees(c, rates[c], stay, total[c]) \/ (posted /\ ComparedWith(c) # c)

LEMMA PostedTotals ==
  ASSUME NEW rates \in RateTables, NEW stay \in Stay, NEW total \in Posted(rates, stay)
  PROVE  AllQuoted(TRUE, rates, stay, total)
<1>1. PICK currency \in Currencies :
        total = [c \in {currency} |-> Total(ComparedWith(c), rates[ComparedWith(c)], stay)]
  BY DEF Posted
<1> DEFINE amount == Total(ComparedWith(currency), rates[ComparedWith(currency)], stay)
<1>2. DOMAIN total = {currency} /\ total[currency] = amount
  BY <1>1
<1>3. ComparedWith(currency) \in Currencies
  BY DEF ComparedWith, Currencies
<1>4. /\ amount \in Nat
      /\ Agrees(ComparedWith(currency), rates[ComparedWith(currency)], stay, amount)
  BY <1>3, QuoteIs
<1> HIDE DEF amount
<1> QED
  BY <1>2, <1>4 DEF AllQuoted, Totals

LEMMA QuotedTotals ==
  ASSUME NEW rates \in RateTables, NEW stay \in Stay, NEW total \in Quoted(rates, stay)
  PROVE  AllQuoted(FALSE, rates, stay, total)
<1>1. total = [c \in Currencies |-> Total(c, rates[c], stay)]
  BY DEF Quoted
<1>2. DOMAIN total = Currencies /\ \A c \in Currencies : total[c] = Total(c, rates[c], stay)
  BY <1>1
<1> QED
  BY <1>2, QuoteIs DEF AllQuoted, Totals

\* Every new booking is for what its listing offers now.
Offered ==
  \A b \in bookings' \ bookings :
    LET l == listing[b.listing]
    IN \/ l.active /\ l.host = b.host /\ l.price = b.stay.price
       \/ b.listing \in overlapped

LEMMA BookingSaveInv ==
  ASSUME Inv, NEW r \in Requests, BookingSave(r)
  PROVE  Inv' /\ Offered
<1> DEFINE q == req[r]
<1>1. /\ q \in Request /\ q.call \in {"post", "quote"} /\ q.at = "save"
      /\ q.id \in Ids /\ q.inst \in Row
  BY DEF BookingSave, Inv, TypeOK, Numbered, Request
<1>2. req' = [req EXCEPT ![r] = Idle] /\ Idle \in Request /\ Idle.id = 0 /\ Idle.call = "none"
  BY EndIs, IdleType DEF BookingSave, Inv
<1>3. req' \in [Requests -> Request] /\ req'[r] = Idle /\ OthersStay(r)
  BY <1>2, NewRequest DEF Inv, OthersStay
<1>4. /\ UNCHANGED <<made, listings, listing, listingCount, late, calls>>
      /\ UNCHANGED <<overlapped, hurried, cut, given>>
  BY DEF BookingSave, table, history
<1>5. PICK nights \in Nights, credit \in Credits, rates \in RateTables :
        LET stay == [price |-> q.inst.price, deposit |-> Deposit,
                     nights |-> nights, credit |-> credit]
        IN \E total \in IF q.call = "post" THEN Posted(rates, stay)
                                            ELSE Quoted(rates, stay) :
             bookings' = bookings \cup
               {[listing |-> q.id, host |-> q.inst.host, stay |-> stay, rates |-> rates,
                 posted |-> q.call = "post", total |-> total]}
  BY DEF BookingSave
<1> DEFINE stay == [price |-> q.inst.price, deposit |-> Deposit,
                    nights |-> nights, credit |-> credit]
           posted == q.call = "post"
<1>6. stay \in Stay /\ stay.price = q.inst.price
  BY <1>1, ListingsAssumption DEF Stay, Row
<1> HIDE DEF stay
<1>7. PICK total \in IF q.call = "post" THEN Posted(rates, stay) ELSE Quoted(rates, stay) :
        bookings' = bookings \cup
          {[listing |-> q.id, host |-> q.inst.host, stay |-> stay, rates |-> rates,
            posted |-> posted, total |-> total]}
  BY <1>5 DEF stay
<1>8. AllQuoted(posted, rates, stay, total)
  BY <1>6, <1>7, PostedTotals, QuotedTotals
<1>9. posted \in BOOLEAN
  OBVIOUS
<1> HIDE DEF posted
<1> DEFINE b == [listing |-> q.id, host |-> q.inst.host, stay |-> stay, rates |-> rates,
                 posted |-> posted, total |-> total]
<1>10. /\ b.listing = q.id /\ b.host = q.inst.host /\ b.stay = stay /\ b.rates = rates
       /\ b.posted = posted /\ b.total = total
       /\ b \in Booking(total)
  BY <1>1, <1>6, <1>9 DEF Booking, Row
<1>11. bookings' = bookings \cup {b}
  BY <1>7
<1> HIDE DEF b
<1>12. TypeOK'
  <2>1. \A a \in bookings' : a \in Booking(a.total) /\ Totals(a.total)
    BY <1>8, <1>10, <1>11 DEF Inv, TypeOK, AllQuoted
  <2> QED
    BY <1>3, <1>4, <2>1 DEF Inv, TypeOK
<1>13. Met'
  BY <1>2, <1>3, <1>4, MetStays
<1>14. Numbered'
  BY <1>2, <1>3, <1>4 DEF Inv, TypeOK, Numbered, OthersStay
<1>15. Undisturbed'
  <2>1. \A i \in Ids : i \notin {req[r].id, req'[r].id} => Stays(i)
    BY <1>4, <1>10, <1>11 DEF Stays, IsBooked
  <2>2. req'[r].id = 0
    BY <1>2, <1>3
  <2> QED
    BY <1>3, <1>4, <1>13, <2>1, <2>2, OthersSee
<1>16. q.id \in overlapped
       \/ (q.id \in listings /\ listing[q.id] = q.inst /\ q.inst.active)
  BY <1>1 DEF Inv, Undisturbed, Sees, Ids
<1>17. PublishedIsComplete' /\ BookedListingsExist'
  BY <1>4, <1>10, <1>11, <1>16
  DEF Inv, PublishedIsComplete, BookedListingsExist, Complete
<1>18. QuotesAgree'
  BY <1>8, <1>10, <1>11 DEF Inv, QuotesAgree, AllQuoted
<1>19. Offered
  BY <1>6, <1>10, <1>11, <1>16 DEF Offered
<1> QED
  BY <1>12, <1>13, <1>14, <1>15, <1>17, <1>18, <1>19 DEF Inv

-----------------------------------------------------------------------------
LEMMA CrashInv ==
  ASSUME Inv, NEW r \in Requests, Crash(r)
  PROVE  Inv'
<1>1. cut' \subseteq Someone
  BY DEF Crash, Inv, TypeOK, Request
<1> QED
  BY <1>1, Ends DEF Crash

LEMMA InitInv == Init => Inv
<1> SUFFICES ASSUME Init PROVE Inv
  OBVIOUS
<1>1. TypeOK
  <2>1. listingCount \in Counts /\ listing \in [Ids -> Row] /\ req \in [Requests -> Request]
    BY IdleType DEF Init, Counts
  <2> QED
    BY <2>1, ListingsAssumption DEF Init, TypeOK
<1>2. Undisturbed /\ Met /\ Numbered
  BY IdleType DEF Init, Undisturbed, Met, Numbered
<1>3. PublishedIsComplete /\ BookedListingsExist /\ QuotesAgree
  BY DEF Init, PublishedIsComplete, BookedListingsExist, QuotesAgree
<1> QED
  BY <1>1, <1>2, <1>3 DEF Inv

LEMMA NextInv == Inv /\ [Next]_vars => Inv' /\ Offered
<1> SUFFICES ASSUME Inv, [Next]_vars PROVE Inv' /\ Offered
  OBVIOUS
<1>0. ASSUME UNCHANGED bookings PROVE Offered
  BY <1>0 DEF Offered
<1>1. ASSUME NEW r \in Requests, Begin(r)
      PROVE  Inv' /\ Offered
  <2>1. ASSUME NEW u \in Users, NEW h \in Users, CreateListing(r, u, h)
        PROVE  Inv' /\ UNCHANGED bookings
    BY <2>1, IdleType, StartCreateInv DEF CreateListing, StartCreate
  <2>2. ASSUME NEW u \in Users, NEW i \in Ids, DuplicateListing(r, u, i)
        PROVE  Inv' /\ UNCHANGED bookings
    <3>1. listing[i] \in Row
      BY DEF Inv, TypeOK
    <3> QED
      BY <2>2, <3>1, StartCreateInv DEF DuplicateListing, StartCreate
  <2>3. ASSUME NEW u \in Users, NEW i \in Ids,
               \/ UpdateListing(r, u, i) \/ ActivateListing(r, u, i)
               \/ DeactivateListing(r, u, i) \/ DeleteListing(r, u, i)
        PROVE  Inv' /\ UNCHANGED bookings
    BY <2>3, UpdateListingInv, SwitchInv, DeleteListingInv
    DEF UpdateListing, ActivateListing, DeactivateListing, Switch, DeleteListing
  <2>4. ASSUME NEW i \in Ids, PostBooking(r, i) \/ QuoteBooking(r, i)
        PROVE  Inv' /\ UNCHANGED bookings
    BY <2>4, PostBookingInv DEF PostBooking, QuoteBooking, Book
  <2> QED
    BY <1>0, <1>1, <2>1, <2>2, <2>3, <2>4 DEF Begin
<1>2. ASSUME NEW r \in Requests, Step(r)
      PROVE  Inv' /\ Offered
  <2>1. CASE CreateSave(r)
    BY <1>0, <2>1, CreateSaveInv DEF CreateSave
  <2>2. CASE CreateCount(r) \/ CreateNote(r) \/ CreatePublish(r)
    BY <1>0, <2>2, CreateCountInv, CreateNoteInv, CreatePublishInv
    DEF CreateCount, CreateNote, CreatePublish
  <2>3. CASE UpdateLoad(r) \/ UpdateSave(r)
    BY <1>0, <2>3, UpdateLoadInv, UpdateSaveInv DEF UpdateLoad, UpdateSave
  <2>4. CASE UpdateCount(r) \/ UpdatePublish(r)
    BY <1>0, <2>4, UpdateCountInv, UpdatePublishInv DEF UpdateCount, UpdatePublish
  <2>5. CASE SwitchFind(r) \/ SwitchWrite(r)
    BY <1>0, <2>5, SwitchFindInv, SwitchWriteInv DEF SwitchFind, SwitchWrite
  <2>6. CASE DeleteCheck(r) \/ DeleteRow(r)
    BY <1>0, <2>6, DeleteCheckInv, DeleteRowInv DEF DeleteCheck, DeleteRow
  <2>7. CASE PostActive(r)
    BY <1>0, <2>7, PostActiveInv DEF PostActive
  <2>8. CASE BookingSave(r)
    BY <2>8, BookingSaveInv
  <2> QED
    BY <1>2, <2>1, <2>2, <2>3, <2>4, <2>5, <2>6, <2>7, <2>8 DEF Step
<1>3. ASSUME NEW r \in Requests, Crash(r)
      PROVE  Inv' /\ Offered
  BY <1>0, <1>3, CrashInv DEF Crash
<1>4. ASSUME NEW w \in late, LateCount(w) \/ LateCountFails(w)
      PROVE  Inv' /\ Offered
  BY <1>0, <1>4, LateCountInv DEF LateCount, LateCountFails
<1>5. CASE UNCHANGED vars
  <2>1. /\ UNCHANGED <<made, table, bookings, req, calls, overlapped, hurried>>
        /\ listingCount' \in Counts /\ late' \subseteq Someone \X Nat
        /\ cut' \subseteq Someone /\ given' \subseteq Someone
    BY <1>5 DEF vars, history, Inv, TypeOK
  <2> QED
    BY <1>0, <2>1, Elsewhere
<1> QED
  BY <1>1, <1>2, <1>3, <1>4, <1>5 DEF Next

THEOREM Invariance == Spec => []Inv
<1>1. Init => Inv
  BY InitInv
<1>2. Inv /\ [Next]_vars => Inv'
  BY NextInv
<1> QED
  BY <1>1, <1>2, PTL DEF Spec

\* Every variable has its type.
THEOREM TypeCorrect == Spec => []TypeOK
<1>1. Inv => TypeOK
  BY DEF Inv
<1> QED
  BY <1>1, Invariance, PTL

\* An active listing is complete, unless requests about it overlapped.
THEOREM PublishedComplete == Spec => []PublishedIsComplete
<1>1. Inv => PublishedIsComplete
  BY DEF Inv
<1> QED
  BY <1>1, Invariance, PTL

\* A listing is not deleted once it is booked, unless requests about it
\* overlapped.
THEOREM BookedExist == Spec => []BookedListingsExist
<1>1. Inv => BookedListingsExist
  BY DEF Inv
<1> QED
  BY <1>1, Invariance, PTL

\* What a booking asks agrees with its price in dollars, whatever the rates.
THEOREM QuotesOfBookingsAgree == Spec => []QuotesAgree
<1>1. Inv => QuotesAgree
  BY DEF Inv
<1> QED
  BY <1>1, Invariance, PTL

\* A booking is stored with the host and the price of an active listing,
\* unless requests about it overlapped.
THEOREM BookedIsOffered == Spec => BookedAsOffered
<1>1. Inv /\ [Next]_vars => [Offered]_vars
  BY NextInv
<1>2. [Offered]_vars <=>
        [\A b \in bookings' \ bookings :
           LET l == listing[b.listing]
           IN \/ l.active /\ l.host = b.host /\ l.price = b.stay.price
              \/ b.listing \in overlapped]_vars
  BY DEF Offered
<1> QED
  BY <1>1, <1>2, Invariance, PTL DEF Spec, BookedAsOffered

-----------------------------------------------------------------------------
(***************************************************************************)
(* How many listings a host has.  Three numbers go with it: the column     *)
(* listingCount, the number a request has found, and the one a write that  *)
(* nobody waits for will write.  Each was right when it was taken, and     *)
(* only a request that counts the host's listings itself makes it too low. *)
(* Two such requests at once are marked (CountsMet), and so is one that    *)
(* counts while a write is due (DueAlone).                                 *)
(***************************************************************************)
Sizes == [u \in Someone |-> Cardinality(ListingsOf(u))]

Creates(q) == q.call \in {"create", "duplicate"}

\* Which hosts an update has, at each of its awaits.
InOrder(q) ==
  q.call = "update" =>
    /\ q.at = "load" => q.host = q.prev
    /\ q.at = "save" => q.prev = q.old.host
    /\ q.at = "count" => q.host # q.prev

AllInOrder == \A r \in Requests : InOrder(req[r])

CountsMet ==
  \A r, s \in Requests : r # s => Counted(req[r]) \cap Counted(req[s]) \subseteq hurried

DueAlone ==
  \A r \in Requests, w \in late :
    w[1] \in Counted(req[r]) => w[1] \in hurried \/ req[r].at = "publish"

\* What was loaded of the counts is what the column holds.
KnowsCounts(q) ==
  \A u \in Users :
    u \in Counted(q) \cap {q.host, q.prev} /\ q.at \in {"save", "count", "note"} =>
      u \in hurried \/ q.noted[u] = listingCount[u]

\* What was found is enough.
FoundEnough(q) ==
  Creates(q) /\ q.at = "note" => q.host \in hurried \/ Sizes[q.host] <= q.found

\* A host who makes a listing has room for it.
HasRoom(q) ==
  Creates(q) /\ q.at = "save" /\ q.by = q.host =>
    q.by \in hurried \cup given \/ Sizes[q.by] < Limit

Knows(q) == KnowsCounts(q) /\ FoundEnough(q) /\ HasRoom(q)

AllKnow == \A r \in Requests : Knows(req[r])

\* What is yet to be written is enough.
DueEnough == \A w \in late : w[1] \in hurried \/ Sizes[w[1]] <= w[2]

Covers ==
  \A u \in Users :
    \/ Sizes[u] <= listingCount[u]
    \/ u \in hurried \cup cut
    \/ \E r \in Requests : Uncounted(req[r]) /\ req[r].host = u
    \/ \E w \in late : w[1] = u

Limited == \A u \in Users : Sizes[u] <= Limit \/ u \in hurried \cup given

CountInv ==
  AllInOrder /\ CountsMet /\ DueAlone /\ AllKnow /\ DueEnough /\ Covers /\ Limited

LEMMA CountInvSays == CountInv => CountCovers /\ LimitKept
  BY DEF CountInv, Covers, Limited, CountCovers, LimitKept, Sizes, Someone

LEMMA SizesType ==
  ASSUME TypeOK, TypeOK'
  PROVE  /\ Sizes \in [Someone -> Nat] /\ Sizes' \in [Someone -> Nat]
         /\ \A u \in Someone : IsFiniteSet(ListingsOf(u))
<1>1. IsFiniteSet(Ids)
  BY ListingsAssumption, FS_Interval DEF Ids
<1>2. ASSUME NEW u
      PROVE  /\ IsFiniteSet({i \in listings : listing[i].host = u})
             /\ IsFiniteSet({i \in listings' : listing'[i].host = u})
  <2>1. listings \subseteq Ids /\ listings' \subseteq Ids
    BY DEF TypeOK
  <2>2. /\ {i \in listings : listing[i].host = u} \subseteq Ids
        /\ {i \in listings' : listing'[i].host = u} \subseteq Ids
    BY <2>1
  <2> QED
    BY <1>1, <2>2, FS_Subset
<1>3. \A u \in Someone :
        /\ Cardinality({i \in listings : listing[i].host = u}) \in Nat
        /\ Cardinality({i \in listings' : listing'[i].host = u}) \in Nat
  BY <1>2, FS_CardinalityType
<1> QED
  BY <1>2, <1>3 DEF Sizes, ListingsOf

\* No host but those in gaining has more listings than before.
LEMMA OnlyGaining ==
  ASSUME TypeOK, TypeOK', NEW gaining,
         \A i \in listings' : \/ i \in listings /\ listing'[i].host = listing[i].host
                              \/ listing'[i].host \in gaining
  PROVE  \A u \in Someone \ gaining : Sizes'[u] <= Sizes[u]
<1> SUFFICES ASSUME NEW u \in Someone \ gaining PROVE Sizes'[u] <= Sizes[u]
  OBVIOUS
<1>1. {i \in listings' : listing'[i].host = u} \subseteq {i \in listings : listing[i].host = u}
  OBVIOUS
<1>2. IsFiniteSet({i \in listings : listing[i].host = u})
  BY SizesType DEF ListingsOf
<1>3. Cardinality({i \in listings' : listing'[i].host = u})
        <= Cardinality({i \in listings : listing[i].host = u})
  BY <1>1, <1>2, FS_Subset
<1> QED
  BY <1>3 DEF Sizes, ListingsOf

\* A row more is at most one listing more.
LEMMA OneMoreListing ==
  ASSUME TypeOK, TypeOK', NEW i, NEW u \in Someone,
         \A j \in listings' : j # i => j \in listings /\ listing'[j].host = listing[j].host
  PROVE  Sizes'[u] <= Sizes[u] + 1
<1> DEFINE S == {j \in listings : listing[j].host = u}
           T == {j \in listings' : listing'[j].host = u}
<1>1. T \subseteq S \cup {i}
  OBVIOUS
<1>2. IsFiniteSet(S)
  BY SizesType DEF ListingsOf
<1> HIDE DEF S, T
<1>3. IsFiniteSet(S \cup {i}) /\ Cardinality(S \cup {i}) <= Cardinality(S) + 1
      /\ Cardinality(S) \in Nat
  BY <1>2, FS_AddElement, FS_CardinalityType
<1>4. Cardinality(T) <= Cardinality(S \cup {i}) /\ Cardinality(T) \in Nat
      /\ Cardinality(S \cup {i}) \in Nat
  BY <1>1, <1>3, FS_Subset, FS_CardinalityType
<1>5. Cardinality(T) <= Cardinality(S) + 1
  BY <1>3, <1>4
<1> QED
  BY <1>5 DEF Sizes, ListingsOf, S, T

KeepsHosts ==
  \A i \in listings' : i \in listings /\ listing'[i].host = listing[i].host

\* For another request that counts the same host, the host is marked.
LEMMA OthersKnow ==
  ASSUME Inv, Inv', CountInv, NEW r \in Requests, OthersStay(r), hurried \subseteq hurried',
         given \subseteq given', NEW gaining \in SUBSET Someone,
         gaining \subseteq Counted(req[r]),
         \A u \in Someone \ gaining : Sizes'[u] <= Sizes[u],
         \A u \in Users : u \in Counted(req[r]) \cup hurried \/ listingCount'[u] = listingCount[u]
  PROVE  \A s \in Requests : s # r => Knows(req[s])'
<1> SUFFICES ASSUME NEW s \in Requests, s # r PROVE Knows(req[s])'
  OBVIOUS
<1>1. req'[s] = req[s] /\ req[s] \in Request
  BY DEF OthersStay, Inv, TypeOK
<1>2. Counted(req[r]) \cap Counted(req[s]) \subseteq hurried
  BY DEF CountInv, CountsMet
<1>3. KnowsCounts(req[s]) /\ FoundEnough(req[s]) /\ HasRoom(req[s])
  BY DEF CountInv, AllKnow, Knows
<1>4. KnowsCounts(req[s])'
  BY <1>1, <1>2, <1>3 DEF KnowsCounts
<1>5. Sizes \in [Someone -> Nat] /\ Sizes' \in [Someone -> Nat]
  BY SizesType DEF Inv
<1>6. req[s].host \in Someone /\ req[s].found \in Nat /\ Limit \in Nat
  BY <1>1, ListingsAssumption DEF Request
<1>7. Creates(req[s]) => req[s].host \in Counted(req[s])
  BY DEF Creates, Counted
<1>8. Creates(req[s]) => req[s].host \in hurried \/ Sizes'[req[s].host] <= Sizes[req[s].host]
  BY <1>2, <1>6, <1>7
<1>9. FoundEnough(req[s])'
  BY <1>1, <1>3, <1>5, <1>6, <1>8 DEF FoundEnough, Creates
<1>10. HasRoom(req[s])'
  BY <1>1, <1>3, <1>5, <1>6, <1>8 DEF HasRoom, Creates
<1> QED
  BY <1>4, <1>9, <1>10 DEF Knows

\* A request that counts nobody any more, or not yet.
LEMMA Leaves ==
  ASSUME Inv, Inv', CountInv, NEW r \in Requests, OthersStay(r), NEW q, req'[r] = q,
         Counted(q) = {}, ~Creates(q), InOrder(q),
         Uncounted(req[r]) => req[r].host \in cut',
         UNCHANGED <<listingCount, late>>,
         hurried \subseteq hurried', cut \subseteq cut', given \subseteq given',
         KeepsHosts
  PROVE  CountInv'
<1>1. Sizes \in [Someone -> Nat] /\ Sizes' \in [Someone -> Nat] /\ Limit \in Nat
  BY SizesType, ListingsAssumption DEF Inv
<1>2. \A u \in Someone : Sizes'[u] <= Sizes[u]
  BY OnlyGaining DEF KeepsHosts, Inv
<1>3. \A s \in Requests : s # r => Knows(req[s])'
  BY <1>2, OthersKnow
<1>4. Knows(req[r])'
  BY DEF Knows, KnowsCounts, FoundEnough, HasRoom, Creates
<1>5. AllInOrder' /\ CountsMet' /\ DueAlone' /\ AllKnow'
  <2>1. AllInOrder'
    BY DEF CountInv, AllInOrder, OthersStay
  <2>2. CountsMet'
    BY DEF CountInv, CountsMet, OthersStay
  <2>3. DueAlone'
    BY DEF CountInv, DueAlone, OthersStay
  <2>4. AllKnow'
    BY <1>3, <1>4 DEF AllKnow
  <2> QED
    BY <2>1, <2>2, <2>3, <2>4
<1>6. DueEnough'
  <2> SUFFICES ASSUME NEW w \in late, w[1] \notin hurried'
               PROVE  Sizes'[w[1]] <= w[2]
    BY DEF DueEnough
  <2>1. w[1] \in Someone /\ w[2] \in Nat
    BY DEF Inv, TypeOK
  <2>2. Sizes[w[1]] <= w[2]
    BY DEF CountInv, DueEnough
  <2> QED
    BY <1>1, <1>2, <2>1, <2>2
<1>7. Covers'
  <2> SUFFICES ASSUME NEW u \in Users, u \notin hurried' \cup cut',
                      ~\E w \in late : w[1] = u,
                      ~\E s \in Requests : Uncounted(req'[s]) /\ req'[s].host = u
               PROVE  Sizes'[u] <= listingCount'[u]
    BY DEF Covers
  <2>1. ~\E s \in Requests : Uncounted(req[s]) /\ req[s].host = u
    BY DEF OthersStay
  <2>2. Sizes[u] <= listingCount[u] /\ u \in Someone /\ listingCount[u] \in Nat
    BY <2>1 DEF CountInv, Covers, Someone, Inv, TypeOK, Counts
  <2> QED
    BY <1>1, <1>2, <2>2
<1>8. Limited'
  BY <1>1, <1>2 DEF CountInv, Limited, Someone
<1> QED
  BY <1>5, <1>6, <1>7, <1>8 DEF CountInv

\* A request that begins to count, or learns whose listing it is about.
LEMMA StartsToCount ==
  ASSUME Inv, Inv', CountInv, NEW r \in Requests, NEW q \in Request, Become(r, q),
         q.at = "save", Creates(q) \/ q.call = "update", InOrder(q),
         Creates(q) => Sizes[q.by] < Limit,
         ~Uncounted(req[r]),
         UNCHANGED <<table, listingCount, late, cut, given>>
  PROVE  CountInv'
<1>1. PICK p \in Request :
        /\ p = [q EXCEPT !.noted = Loaded(q)]
        /\ req' = [req EXCEPT ![r] = p]
  BY BecomeType DEF Inv
<1>2. req'[r] = p /\ OthersStay(r)
  BY <1>1, NewRequest DEF Inv, OthersStay
<1>3. /\ p.call = q.call /\ p.at = q.at /\ p.host = q.host /\ p.prev = q.prev /\ p.by = q.by
      /\ p.old = q.old /\ p.noted = Loaded(q)
  BY <1>1 DEF Request
<1>4. Counted(p) = Counted(q) /\ InOrder(p) /\ (Creates(p) <=> Creates(q))
  BY <1>3 DEF Counted, InOrder, Creates
<1>5. hurried' = hurried \cup {u \in Counted(q) : Hurries(r, u)}
  BY DEF Become
<1>6. Sizes' = Sizes
  BY DEF table, Sizes, ListingsOf
<1>7. \A s \in Requests : s # r => Knows(req[s])'
  <2>1. \A s \in Requests : s # r => Knows(req[s])
    BY DEF CountInv, AllKnow
  <2> QED
    BY <1>2, <1>5, <1>6, <2>1
    DEF OthersStay, Knows, KnowsCounts, FoundEnough, HasRoom, Creates
<1>8. Knows(req[r])'
  <2>1. KnowsCounts(req[r])'
    <3> SUFFICES ASSUME NEW u \in Users, u \in Counted(p) \cap {p.host, p.prev}
                 PROVE  p.noted[u] = listingCount'[u]
      BY <1>2 DEF KnowsCounts
    <3> QED
      BY <1>3, <1>4 DEF Loaded
  <2>2. FoundEnough(req[r])' /\ HasRoom(req[r])'
    BY <1>2, <1>3, <1>4, <1>6 DEF FoundEnough, HasRoom
  <2> QED
    BY <2>1, <2>2 DEF Knows
<1>9. AllInOrder' /\ CountsMet'
  <2>1. AllInOrder'
    BY <1>2, <1>4 DEF CountInv, AllInOrder, OthersStay
  <2>2. \A s \in Requests \ {r} : Counted(req[s]) \cap Counted(p) \subseteq hurried'
    BY <1>4, <1>5 DEF Hurries
  <2>3. CountsMet'
    BY <1>2, <1>5, <2>2 DEF CountInv, CountsMet, OthersStay
  <2> QED
    BY <2>1, <2>3
<1>10. DueAlone'
  <2>1. \A w \in late : w[1] \in Counted(p) => w[1] \in hurried'
    BY <1>4, <1>5 DEF Hurries
  <2> QED
    BY <1>2, <1>5, <2>1 DEF CountInv, DueAlone, OthersStay
<1>11. DueEnough' /\ Limited'
  BY <1>5, <1>6 DEF CountInv, DueEnough, Limited
<1>12. Covers'
  <2> SUFFICES ASSUME NEW u \in Users, u \notin hurried' \cup cut',
                      ~\E w \in late : w[1] = u,
                      ~\E s \in Requests : Uncounted(req'[s]) /\ req'[s].host = u
               PROVE  Sizes'[u] <= listingCount'[u]
    BY DEF Covers
  <2>1. ~\E s \in Requests : Uncounted(req[s]) /\ req[s].host = u
    BY <1>2 DEF OthersStay
  <2> QED
    BY <1>5, <1>6, <2>1 DEF CountInv, Covers
<1> QED
  BY <1>7, <1>8, <1>9, <1>10, <1>11, <1>12 DEF CountInv, AllKnow

\* At most one listing comes to h, and none to anybody else.
GainsOne(h) ==
  \E i : \A j \in listings' :
    \/ j \in listings /\ listing'[j].host = listing[j].host
    \/ j = i /\ listing'[j].host = h

\* A request gives its host a listing, and has yet to count.
LEMMA Gains ==
  ASSUME Inv, Inv', CountInv, NEW r \in Requests, NEW q \in Request,
         req' = [req EXCEPT ![r] = q],
         req[r].at = "save", q.at = "count", Uncounted(q),
         q.call = req[r].call, q.host = req[r].host, q.prev = req[r].prev,
         q.by = req[r].by, q.noted = req[r].noted, q.host \in Counted(q),
         GainsOne(q.host),
         \/ given' = given \cup {q.host}
         \/ given' = given /\ (Sizes[q.host] < Limit \/ q.host \in hurried \cup given),
         InOrder(q),
         UNCHANGED <<listingCount, late, hurried, cut>>
  PROVE  CountInv'
<1>1. req'[r] = q /\ OthersStay(r) /\ req[r] \in Request
  BY NewRequest DEF Inv, TypeOK, OthersStay
<1>2. Counted(q) = Counted(req[r]) /\ q.host \in Someone
  BY DEF Counted, Request
<1>3. Sizes \in [Someone -> Nat] /\ Sizes' \in [Someone -> Nat] /\ Limit \in Nat
  BY SizesType, ListingsAssumption DEF Inv
<1>i. PICK i : \A j \in listings' :
        \/ j \in listings /\ listing'[j].host = listing[j].host
        \/ j = i /\ listing'[j].host = q.host
  BY DEF GainsOne
<1>4. \A u \in Someone \ {q.host} : Sizes'[u] <= Sizes[u]
  BY <1>i, OnlyGaining DEF Inv
<1>5. Sizes'[q.host] <= Sizes[q.host] + 1
  <2>1. \A j \in listings' : j # i => j \in listings /\ listing'[j].host = listing[j].host
    BY <1>i
  <2> QED
    BY <1>2, <2>1, OneMoreListing DEF Inv
<1>6. \A s \in Requests : s # r => Knows(req[s])'
  <2>1. given \subseteq given' /\ hurried \subseteq hurried'
    OBVIOUS
  <2>2. {q.host} \in SUBSET Someone /\ {q.host} \subseteq Counted(req[r])
    BY <1>2
  <2> QED
    BY <1>1, <1>4, <2>1, <2>2, OthersKnow
<1>7. Knows(req[r])'
  <2>1. KnowsCounts(req[r])
    BY DEF CountInv, AllKnow, Knows
  <2>2. KnowsCounts(req[r])'
    BY <1>1, <1>2, <2>1 DEF KnowsCounts
  <2>3. FoundEnough(req[r])' /\ HasRoom(req[r])'
    BY <1>1 DEF FoundEnough, HasRoom
  <2> QED
    BY <2>2, <2>3 DEF Knows
<1>8. AllInOrder' /\ CountsMet'
  BY <1>1, <1>2 DEF CountInv, AllInOrder, CountsMet, OthersStay
<1>9. DueAlone'
  BY <1>1, <1>2 DEF CountInv, DueAlone, OthersStay
<1>10. DueEnough'
  <2> SUFFICES ASSUME NEW w \in late, w[1] \notin hurried
               PROVE  Sizes'[w[1]] <= w[2]
    BY DEF DueEnough
  <2>1. w[1] \in Someone /\ w[2] \in Nat /\ Sizes[w[1]] <= w[2]
    BY DEF Inv, TypeOK, CountInv, DueEnough
  <2>2. w[1] # q.host
    BY <1>2 DEF CountInv, DueAlone
  <2> QED
    BY <1>3, <1>4, <2>1, <2>2
<1>11. Covers'
  <2> SUFFICES ASSUME NEW u \in Users, u \notin hurried \cup cut,
                      ~\E w \in late : w[1] = u,
                      ~\E s \in Requests : Uncounted(req'[s]) /\ req'[s].host = u
               PROVE  Sizes'[u] <= listingCount[u]
    BY DEF Covers
  <2>1. u # q.host /\ u \in Someone /\ listingCount[u] \in Nat
    BY <1>1 DEF Someone, Inv, TypeOK, Counts
  <2>2. ~\E s \in Requests : Uncounted(req[s]) /\ req[s].host = u
    BY <1>1, <2>1 DEF OthersStay
  <2>3. Sizes[u] <= listingCount[u]
    BY <2>2 DEF CountInv, Covers
  <2> QED
    BY <1>3, <1>4, <2>1, <2>3
<1>12. Limited'
  <2> SUFFICES ASSUME NEW u \in Users, u \notin hurried \cup given'
               PROVE  Sizes'[u] <= Limit
    BY DEF Limited
  <2>1. u \in Someone /\ Sizes[u] <= Limit
    BY DEF Someone, CountInv, Limited
  <2>2. CASE u # q.host
    BY <1>3, <1>4, <2>1, <2>2
  <2>3. CASE u = q.host
    BY <1>3, <1>5, <2>1, <2>3
  <2> QED
    BY <2>2, <2>3
<1> QED
  BY <1>6, <1>7, <1>8, <1>9, <1>10, <1>11, <1>12 DEF CountInv, AllKnow

LEMMA CreateSaveCounts ==
  ASSUME Inv, Inv', CountInv, NEW r \in Requests, CreateSave(r)
  PROVE  CountInv'
<1>1. /\ req[r] \in Request /\ Creates(req[r]) /\ req[r].at = "save"
      /\ made + 1 \in Ids
  BY ListingsAssumption DEF CreateSave, CreatesAt, At, Creates, Inv, TypeOK, Ids
<1>2. PICK content \in IF req[r].call = "create" THEN Sent ELSE {req[r].inst} :
        /\ Put(made + 1, Filled(req[r].host, content))
        /\ req' = [req EXCEPT ![r].at = "count", ![r].id = made + 1,
                              ![r].inst = Filled(req[r].host, content)]
  BY DEF CreateSave
<1> DEFINE l == Filled(req[r].host, content)
           q == [req[r] EXCEPT !.at = "count", !.id = made + 1, !.inst = l]
<1>3. content.price \in Nat /\ content.photos \in BOOLEAN
  BY <1>1, <1>2, SentType DEF Request, Row
<1>4. l \in Row /\ l.host = req[r].host
  BY <1>1, <1>3, FilledType DEF Request
<1>5. listing' = [listing EXCEPT ![made + 1] = l]
  BY <1>2 DEF Put
<1> HIDE DEF l
<1>6. /\ q \in Request /\ req' = [req EXCEPT ![r] = q] /\ q.at = "count"
      /\ q.call = req[r].call /\ q.host = req[r].host /\ q.prev = req[r].prev
      /\ q.by = req[r].by /\ q.noted = req[r].noted
  <2>1. q \in Request /\ q.at = "count"
    BY <1>1, <1>4 DEF Request, Awaits
  <2>2. /\ q.call = req[r].call /\ q.host = req[r].host /\ q.prev = req[r].prev
        /\ q.by = req[r].by /\ q.noted = req[r].noted
    BY <1>1 DEF Request
  <2>3. req' = [req EXCEPT ![r] = q]
    BY <1>1, <1>2 DEF Request, Inv, TypeOK, l
  <2> QED
    BY <2>1, <2>2, <2>3
<1> HIDE DEF q
<1>7. Uncounted(q) /\ q.host \in Counted(q) /\ InOrder(q)
  BY <1>1, <1>6 DEF Uncounted, Counted, InOrder, Creates
<1>8. GainsOne(q.host)
  <2>1. \A j \in listings' : \/ j \in listings /\ listing'[j].host = listing[j].host
                             \/ j = made + 1 /\ listing'[j].host = q.host
    BY <1>1, <1>4, <1>5, <1>6 DEF CreateSave, Inv, TypeOK
  <2> QED
    BY <2>1 DEF GainsOne
<1>9. given' = IF q.host # q.by THEN given \cup {q.host} ELSE given
  BY <1>6 DEF CreateSave
<1>10. \/ given' = given \cup {q.host}
       \/ given' = given /\ (Sizes[q.host] < Limit \/ q.host \in hurried \cup given)
  <2>1. HasRoom(req[r])
    BY DEF CountInv, AllKnow, Knows
  <2> QED
    BY <1>1, <1>6, <1>9, <2>1 DEF HasRoom
<1>11. UNCHANGED <<listingCount, late, hurried, cut>>
  BY DEF CreateSave
<1> QED
  BY <1>1, <1>6, <1>7, <1>8, <1>10, <1>11, Gains

\* The host that is saved is the one the listing had, or the one it moves to.
LEMMA SaveHosts ==
  ASSUME Inv, NEW i, NEW old, NEW new, Save(i, old, new)
  PROVE  \A j \in listings :
           \/ listing'[j].host = listing[j].host
           \/ j = i /\ new.host # old.host /\ listing'[j].host = new.host
<1>1. listing \in [Ids -> Row] /\ listings \subseteq Ids
  BY DEF Inv, TypeOK
<1>2. CASE i \in listings
  <2> DEFINE l == [ host   |-> IF new.host # old.host THEN new.host ELSE listing[i].host,
                    active |-> IF new.active # old.active THEN new.active ELSE listing[i].active,
                    price  |-> IF new.price # old.price THEN new.price ELSE listing[i].price,
                    photos |-> new.photos ]
  <2>1. listing' = [listing EXCEPT ![i] = l]
    BY <1>2 DEF Save, Put
  <2>2. l.host = IF new.host # old.host THEN new.host ELSE listing[i].host
    OBVIOUS
  <2> HIDE DEF l
  <2> QED
    BY <1>1, <1>2, <2>1, <2>2
<1>3. CASE i \notin listings
  BY <1>1, <1>3 DEF Save
<1> QED
  BY <1>2, <1>3

LEMMA SetActiveHosts ==
  ASSUME Inv, NEW i, NEW was, NEW active, SetActive(i, was, active)
  PROVE  \A j \in listings : listing'[j].host = listing[j].host
<1>1. listing \in [Ids -> Row] /\ listings \subseteq Ids
  BY DEF Inv, TypeOK
<1>2. CASE listing' = [listing EXCEPT ![i] = [listing[i] EXCEPT !.active = active]]
  <2>1. i \in listings => [listing[i] EXCEPT !.active = active].host = listing[i].host
    BY <1>1 DEF Row
  <2> QED
    BY <1>1, <1>2, <2>1
<1>3. CASE listing' = listing
  BY <1>3
<1> QED
  BY <1>2, <1>3 DEF SetActive, Put

LEMMA UpdateSaveCounts ==
  ASSUME Inv, Inv', CountInv, NEW r \in Requests, UpdateSave(r)
  PROVE  CountInv'
<1>1. /\ req[r] \in Request /\ req[r].call = "update" /\ req[r].at = "save"
      /\ listings' = listings
  BY DEF Inv, TypeOK, UpdateSave, At
<1>2. PICK content \in Sent :
        /\ Save(req[r].id, req[r].old, Edited(req[r], content))
        /\ req' = [req EXCEPT ![r].at = IF req[r].host # req[r].prev THEN "count" ELSE "publish",
                              ![r].inst = Edited(req[r], content)]
  BY DEF UpdateSave
<1> DEFINE at == IF req[r].host # req[r].prev THEN "count" ELSE "publish"
           l == Edited(req[r], content)
           q == [req[r] EXCEPT !.at = at, !.inst = l]
<1>3. at \in Awaits
  BY DEF Awaits
<1>4. l \in Row /\ l.host = req[r].host
  BY <1>1, SentType, FilledType DEF Request, Edited
<1> HIDE DEF l, at
<1>5. /\ q \in Request /\ req' = [req EXCEPT ![r] = q] /\ q.at = at
      /\ q.call = req[r].call /\ q.host = req[r].host /\ q.prev = req[r].prev
      /\ q.by = req[r].by /\ q.noted = req[r].noted
  BY <1>1, <1>2, <1>3, <1>4 DEF Request, Inv, TypeOK, at, l
<1> HIDE DEF q
<1>6. req[r].prev = req[r].old.host
  BY <1>1 DEF CountInv, AllInOrder, InOrder
<1>7. \A j \in listings :
        \/ listing'[j].host = listing[j].host
        \/ j = req[r].id /\ q.host # q.prev /\ listing'[j].host = q.host
  <2>1. Save(req[r].id, req[r].old, l)
    BY <1>2 DEF l
  <2> QED
    BY <1>4, <1>5, <1>6, <2>1, SaveHosts
<1>8. /\ UNCHANGED <<listingCount, late, hurried, cut>>
      /\ given' = IF q.host # q.prev THEN given \cup {q.host} ELSE given
  BY <1>5 DEF UpdateSave
<1>9. CASE q.host = q.prev
  <2>1. Counted(q) = {} /\ ~Creates(q) /\ InOrder(q) /\ ~Uncounted(req[r])
    BY <1>1, <1>5, <1>9 DEF Counted, Creates, InOrder, Uncounted, at
  <2>2. KeepsHosts
    BY <1>1, <1>7, <1>9 DEF KeepsHosts
  <2>3. req'[r] = q /\ OthersStay(r)
    BY <1>5, NewRequest DEF Inv, OthersStay
  <2> QED
    BY <1>8, <1>9, <2>1, <2>2, <2>3, Leaves
<1>10. CASE q.host # q.prev
  <2>1. q.at = "count" /\ q.host \in Counted(q) /\ InOrder(q) /\ Uncounted(q)
    BY <1>1, <1>5, <1>10 DEF Counted, InOrder, Uncounted, at
  <2>2. GainsOne(q.host)
    BY <1>1, <1>7 DEF GainsOne
  <2> QED
    BY <1>1, <1>5, <1>8, <1>10, <2>1, <2>2, Gains
<1> QED
  BY <1>9, <1>10

\* A request that has counted goes on: nothing is gained, and what the others
\* and the writes that are due know stays right.
LEMMA HasCounted ==
  ASSUME Inv, Inv', CountInv, NEW r \in Requests, NEW q \in Request,
         req' = [req EXCEPT ![r] = q],
         q.call = req[r].call, q.host = req[r].host, q.prev = req[r].prev,
         q.by = req[r].by,
         InOrder(q), q.at \in {"note", "publish"},
         q.at = "note" => /\ req[r].at = "count" /\ q.noted = req[r].noted
                          /\ q.found = Sizes[q.host] /\ listingCount' = listingCount,
         UNCHANGED <<table, hurried, cut, given>>,
         \A u \in Users : u \in Counted(req[r]) \/ listingCount'[u] = listingCount[u]
  PROVE  /\ AllInOrder' /\ CountsMet' /\ AllKnow' /\ Limited'
         /\ Sizes' = Sizes /\ req'[r] = q /\ OthersStay(r)
         /\ Counted(q) = Counted(req[r])
<1>1. req'[r] = q /\ OthersStay(r) /\ Counted(q) = Counted(req[r])
  BY NewRequest DEF Inv, OthersStay, Counted
<1>2. Sizes' = Sizes
  BY DEF table, Sizes, ListingsOf
<1>3. Sizes \in [Someone -> Nat]
  BY SizesType DEF Inv
<1>4. \A s \in Requests : s # r => Knows(req[s])'
  <2>1. \A u \in Someone \ {} : Sizes'[u] <= Sizes[u]
    BY <1>2, <1>3
  <2>2. {} \in SUBSET Someone /\ {} \subseteq Counted(req[r])
    OBVIOUS
  <2>3. \A u \in Users : u \in Counted(req[r]) \cup hurried \/ listingCount'[u] = listingCount[u]
    OBVIOUS
  <2>4. hurried \subseteq hurried' /\ given \subseteq given'
    OBVIOUS
  <2> QED
    BY <1>1, <2>1, <2>2, <2>3, <2>4, OthersKnow
<1>5. Knows(req[r])'
  <2>1. KnowsCounts(req[r])
    BY DEF CountInv, AllKnow, Knows
  <2>2. KnowsCounts(req[r])'
    BY <1>1, <2>1 DEF KnowsCounts
  <2>3. q.host \in Someone /\ Sizes[q.host] <= Sizes[q.host]
    BY <1>3 DEF Request
  <2>4. FoundEnough(req[r])' /\ HasRoom(req[r])'
    BY <1>1, <1>2, <2>3 DEF FoundEnough, HasRoom
  <2> QED
    BY <2>2, <2>4 DEF Knows
<1>6. AllInOrder' /\ CountsMet'
  BY <1>1 DEF CountInv, AllInOrder, CountsMet, OthersStay
<1>7. Limited'
  BY <1>2 DEF CountInv, Limited
<1> QED
  BY <1>1, <1>2, <1>4, <1>5, <1>6, <1>7 DEF AllKnow

LEMMA CreateCountCounts ==
  ASSUME Inv, Inv', CountInv, NEW r \in Requests, CreateCount(r)
  PROVE  CountInv'
<1> DEFINE n == Sizes[req[r].host]
           q == [req[r] EXCEPT !.at = "note", !.found = n]
<1>1. req[r] \in Request /\ Creates(req[r]) /\ req[r].at = "count"
  BY DEF CreateCount, CreatesAt, At, Creates, Inv, TypeOK
<1>2. n \in Nat /\ req' = [req EXCEPT ![r].at = "note", ![r].found = n]
  BY <1>1, SizesType DEF CreateCount, Sizes, Inv, Request
<1> HIDE DEF n
<1>3. /\ q \in Request /\ req' = [req EXCEPT ![r] = q] /\ q.at = "note" /\ q.found = n
      /\ q.call = req[r].call /\ q.host = req[r].host /\ q.prev = req[r].prev
      /\ q.by = req[r].by /\ q.noted = req[r].noted
  <2>1. q \in Request /\ q.at = "note" /\ q.found = n
    BY <1>1, <1>2 DEF Request, Awaits
  <2>2. /\ q.call = req[r].call /\ q.host = req[r].host /\ q.prev = req[r].prev
        /\ q.by = req[r].by /\ q.noted = req[r].noted
    BY <1>1 DEF Request
  <2>3. req' = [req EXCEPT ![r] = q]
    BY <1>1, <1>2 DEF Request, Inv, TypeOK
  <2> QED
    BY <2>1, <2>2, <2>3
<1> HIDE DEF q
<1>4. InOrder(q) /\ q.found = Sizes[q.host]
  BY <1>1, <1>3 DEF InOrder, Creates, n
<1>5. UNCHANGED <<table, listingCount, late, hurried, cut, given>>
  BY DEF CreateCount, history
<1>6. /\ AllInOrder' /\ CountsMet' /\ AllKnow' /\ Limited'
      /\ Sizes' = Sizes /\ req'[r] = q /\ OthersStay(r)
      /\ Counted(q) = Counted(req[r])
  BY <1>1, <1>3, <1>4, <1>5, HasCounted
<1>7. DueAlone'
  BY <1>1, <1>5, <1>6 DEF CountInv, DueAlone, OthersStay
<1>8. DueEnough'
  BY <1>5, <1>6 DEF CountInv, DueEnough
<1>9. Covers'
  <2>1. Uncounted(q)
    BY <1>1, <1>3 DEF Uncounted, Creates
  <2> SUFFICES ASSUME NEW u \in Users, u \notin hurried \cup cut,
                      ~\E w \in late : w[1] = u,
                      ~\E s \in Requests : Uncounted(req'[s]) /\ req'[s].host = u
               PROVE  Sizes'[u] <= listingCount'[u]
    BY <1>5 DEF Covers
  <2>2. ~\E s \in Requests : Uncounted(req[s]) /\ req[s].host = u
    BY <1>3, <1>6, <2>1 DEF OthersStay
  <2> QED
    BY <1>5, <1>6, <2>2 DEF CountInv, Covers
<1> QED
  BY <1>6, <1>7, <1>8, <1>9 DEF CountInv

LEMMA CreateNoteCounts ==
  ASSUME Inv, Inv', CountInv, NEW r \in Requests, CreateNote(r)
  PROVE  CountInv'
<1> DEFINE q == [req[r] EXCEPT !.at = "publish", !.found = 0, !.noted = Idle.noted]
           h == req[r].host
<1>1. req[r] \in Request /\ Creates(req[r]) /\ req[r].at = "note" /\ h \in Someone
  BY DEF CreateNote, CreatesAt, At, Creates, Inv, TypeOK, Request
<1>2. q \in Request /\ req' = [req EXCEPT ![r] = q]
  BY NotedType DEF CreateNote, Inv
<1>3. /\ q.at = "publish" /\ q.call = req[r].call /\ q.host = h
      /\ q.prev = req[r].prev /\ q.by = req[r].by
  BY <1>1 DEF Request
<1> HIDE DEF q
<1>4. InOrder(q) /\ h \in Counted(req[r])
  BY <1>1, <1>3 DEF InOrder, Creates, Counted
<1>5. /\ UNCHANGED <<table, late, hurried, cut, given>>
      /\ listingCount \in Counts
      /\ listingCount' = IF req[r].found # req[r].noted[h]
                         THEN [listingCount EXCEPT ![h] = req[r].found]
                         ELSE listingCount
  BY DEF CreateNote, history, Inv, TypeOK
<1>6. \A u \in Users : u # h => listingCount'[u] = listingCount[u]
  BY <1>5 DEF Counts
<1>7. /\ AllInOrder' /\ CountsMet' /\ AllKnow' /\ Limited'
      /\ Sizes' = Sizes /\ req'[r] = q /\ OthersStay(r)
      /\ Counted(q) = Counted(req[r])
  BY <1>1, <1>2, <1>3, <1>4, <1>5, <1>6, HasCounted
<1>8. DueAlone' /\ DueEnough'
  BY <1>3, <1>5, <1>7 DEF CountInv, DueAlone, DueEnough, OthersStay
<1>9. Covers'
  <2> SUFFICES ASSUME NEW u \in Users, u \notin hurried \cup cut,
                      ~\E w \in late : w[1] = u,
                      ~\E s \in Requests : Uncounted(req'[s]) /\ req'[s].host = u
               PROVE  Sizes[u] <= listingCount'[u]
    BY <1>5, <1>7 DEF Covers
  <2>1. CASE u # h
    <3>1. ~\E s \in Requests : Uncounted(req[s]) /\ req[s].host = u
      BY <1>7, <2>1 DEF OthersStay
    <3> QED
      BY <1>6, <2>1, <3>1 DEF CountInv, Covers
  <2>2. CASE u = h
    <3>1. FoundEnough(req[r]) /\ KnowsCounts(req[r])
      BY DEF CountInv, AllKnow, Knows
    <3>2. Sizes[h] <= req[r].found
      BY <1>1, <2>2, <3>1 DEF FoundEnough
    <3>3. req[r].noted[h] = listingCount[h]
      BY <1>1, <1>4, <2>2, <3>1 DEF KnowsCounts
    <3>4. listingCount'[h] = req[r].found
      BY <1>5, <2>2, <3>3 DEF Counts
    <3> QED
      BY <2>2, <3>2, <3>4
  <2> QED
    BY <2>1, <2>2
<1> QED
  BY <1>7, <1>8, <1>9 DEF CountInv

LEMMA UpdateCountCounts ==
  ASSUME Inv, Inv', CountInv, NEW r \in Requests, UpdateCount(r)
  PROVE  CountInv'
<1> DEFINE q == [req[r] EXCEPT !.at = "publish", !.found = 0, !.noted = Idle.noted]
           p == req[r]
<1>1. /\ p \in Request /\ p.call = "update" /\ p.at = "count"
      /\ p.host \in Someone /\ p.prev \in Someone /\ p.host # p.prev
  BY DEF UpdateCount, At, Inv, TypeOK, Request, CountInv, AllInOrder, InOrder
<1>2. q \in Request /\ req' = [req EXCEPT ![r] = q]
  BY NotedType DEF UpdateCount, Inv
<1>3. /\ q.at = "publish" /\ q.call = p.call /\ q.host = p.host
      /\ q.prev = p.prev /\ q.by = p.by
  BY <1>1 DEF Request
<1> HIDE DEF q
<1>4. InOrder(q) /\ Counted(p) = {p.host, p.prev}
  BY <1>1, <1>3 DEF InOrder, Counted
<1>5. /\ UNCHANGED <<table, listingCount, hurried, cut, given>>
      /\ late' = late \cup NewCounts(p)
  BY DEF UpdateCount, history
<1>6. /\ AllInOrder' /\ CountsMet' /\ AllKnow' /\ Limited'
      /\ Sizes' = Sizes /\ req'[r] = q /\ OthersStay(r)
      /\ Counted(q) = Counted(p)
  BY <1>1, <1>2, <1>3, <1>4, <1>5, HasCounted
<1>7. /\ \A w \in NewCounts(p) : w[1] \in {p.host, p.prev} /\ w[2] = Sizes[w[1]]
      /\ \A u \in {p.host, p.prev} :
           Sizes[u] # p.noted[u] => \E w \in NewCounts(p) : w[1] = u
  <2> DEFINE w(u) == <<u, Cardinality(ListingsOf(u))>>
  <2>1. \A u \in {p.host, p.prev} : w(u)[1] = u /\ w(u)[2] = Sizes[u]
    BY <1>1 DEF Sizes
  <2>2. NewCounts(p) = {v \in {w(u) : u \in {p.host, p.prev}} : v[2] # p.noted[v[1]]}
    BY DEF NewCounts
  <2> HIDE DEF w
  <2> QED
    BY <2>1, <2>2
<1>8. DueAlone'
  <2>1. \A s \in Requests : s # r => Counted(p) \cap Counted(req[s]) \subseteq hurried
    BY DEF CountInv, CountsMet
  <2>2. \A w \in NewCounts(p) : w[1] \in Counted(p)
    BY <1>4, <1>7
  <2> QED
    BY <1>3, <1>5, <1>6, <2>1, <2>2 DEF CountInv, DueAlone, OthersStay
<1>9. DueEnough'
  <2>1. Sizes \in [Someone -> Nat]
    BY SizesType DEF Inv
  <2>2. \A w \in NewCounts(p) : Sizes[w[1]] <= w[2]
    BY <1>1, <1>7, <2>1
  <2> QED
    BY <1>5, <1>6, <2>2 DEF CountInv, DueEnough
<1>10. Covers'
  <2> SUFFICES ASSUME NEW u \in Users, u \notin hurried \cup cut,
                      ~\E w \in late \cup NewCounts(p) : w[1] = u,
                      ~\E s \in Requests : Uncounted(req'[s]) /\ req'[s].host = u
               PROVE  Sizes[u] <= listingCount[u]
    BY <1>5, <1>6 DEF Covers
  <2>1. CASE u # p.host
    <3>1. ~\E s \in Requests : Uncounted(req[s]) /\ req[s].host = u
      BY <1>6, <2>1 DEF OthersStay
    <3> QED
      BY <2>1, <3>1 DEF CountInv, Covers
  <2>2. CASE u = p.host
    <3>1. KnowsCounts(p)
      BY DEF CountInv, AllKnow, Knows
    <3>2. p.noted[u] = listingCount[u]
      BY <1>1, <1>4, <2>2, <3>1 DEF KnowsCounts
    <3>3. Sizes[u] = p.noted[u]
      BY <1>7, <2>2
    <3>4. listingCount[u] \in Nat
      BY DEF Inv, TypeOK, Counts
    <3> QED
      BY <3>2, <3>3, <3>4
  <2> QED
    BY <2>1, <2>2
<1> QED
  BY <1>6, <1>8, <1>9, <1>10 DEF CountInv

LEMMA LateCountCounts ==
  ASSUME Inv, Inv', CountInv, NEW v \in late, LateCount(v) \/ LateCountFails(v)
  PROVE  CountInv'
<1>1. /\ UNCHANGED <<listings, listing, req, hurried, given>>
      /\ late' = late \ {v} /\ cut \subseteq cut'
  BY DEF LateCount, LateCountFails, table, history
<1>2. Sizes' = Sizes
  BY <1>1 DEF Sizes, ListingsOf
<1>3. v[1] \in Someone /\ v[2] \in Nat /\ listingCount \in Counts
  BY DEF Inv, TypeOK
<1>4. /\ \A u \in Users : u # v[1] => listingCount'[u] = listingCount[u]
      /\ v[1] \in Users => listingCount'[v[1]] = v[2] \/ v[1] \in cut'
  BY <1>3 DEF LateCount, LateCountFails, Counts
<1>5. AllInOrder' /\ CountsMet' /\ DueAlone' /\ DueEnough' /\ Limited'
  <2>1. AllInOrder' /\ CountsMet' /\ DueAlone'
    BY <1>1 DEF CountInv, AllInOrder, CountsMet, DueAlone
  <2>2. DueEnough' /\ Limited'
    BY <1>1, <1>2 DEF CountInv, DueEnough, Limited
  <2> QED
    BY <2>1, <2>2
<1>6. AllKnow'
  <2> SUFFICES ASSUME NEW s \in Requests PROVE Knows(req[s])'
    BY DEF AllKnow
  <2>1. KnowsCounts(req[s]) /\ FoundEnough(req[s]) /\ HasRoom(req[s])
    BY DEF CountInv, AllKnow, Knows
  <2>2. v[1] \in Counted(req[s]) => v[1] \in hurried \/ req[s].at = "publish"
    BY DEF CountInv, DueAlone
  <2>3. KnowsCounts(req[s])'
    <3> SUFFICES ASSUME NEW u \in Users, u \in Counted(req[s]) \cap {req[s].host, req[s].prev},
                        req[s].at \in {"save", "count", "note"}, u \notin hurried
                 PROVE  req[s].noted[u] = listingCount'[u]
      BY <1>1 DEF KnowsCounts
    <3>1. u # v[1]
      BY <2>2
    <3> QED
      BY <1>4, <2>1, <3>1 DEF KnowsCounts
  <2>4. FoundEnough(req[s])' /\ HasRoom(req[s])'
    BY <1>1, <1>2, <2>1 DEF FoundEnough, HasRoom
  <2> QED
    BY <2>3, <2>4 DEF Knows
<1>7. Covers'
  <2> SUFFICES ASSUME NEW u \in Users, u \notin hurried \cup cut',
                      ~\E w \in late \ {v} : w[1] = u,
                      ~\E s \in Requests : Uncounted(req[s]) /\ req[s].host = u
               PROVE  Sizes[u] <= listingCount'[u]
    BY <1>1, <1>2 DEF Covers
  <2>1. CASE u = v[1]
    BY <1>4, <2>1 DEF CountInv, DueEnough
  <2>2. CASE u # v[1]
    <3>1. ~\E w \in late : w[1] = u
      BY <2>2
    <3>2. u \notin cut
      BY <1>1
    <3> QED
      BY <1>4, <2>2, <3>1, <3>2 DEF CountInv, Covers
  <2> QED
    BY <2>1, <2>2
<1> QED
  BY <1>5, <1>6, <1>7 DEF CountInv

-----------------------------------------------------------------------------
\* What no request about listings' hosts does: it begins, ends or goes on.
LEMMA EndsCounts ==
  ASSUME Inv, Inv', CountInv, NEW r \in Requests, End(r), KeepsHosts,
         Uncounted(req[r]) => req[r].host \in cut',
         UNCHANGED <<listingCount, late, hurried, given>>, cut \subseteq cut'
  PROVE  CountInv'
<1>1. req' = [req EXCEPT ![r] = Idle] /\ Idle \in Request
  BY EndIs DEF Inv
<1>2. req'[r] = Idle /\ OthersStay(r)
  BY <1>1, NewRequest DEF Inv, OthersStay
<1>3. Counted(Idle) = {} /\ ~Creates(Idle) /\ InOrder(Idle)
  BY IdleType DEF Counted, Creates, InOrder
<1> QED
  BY <1>2, <1>3, Leaves

LEMMA StaysCounts ==
  ASSUME Inv, Inv', CountInv, NEW r \in Requests, NEW q \in Request,
         req' = [req EXCEPT ![r] = q],
         q.call = req[r].call, q.call \notin {"create", "duplicate", "update"},
         UNCHANGED <<table, listingCount, late, history>>
  PROVE  CountInv'
<1>1. req'[r] = q /\ OthersStay(r)
  BY NewRequest DEF Inv, OthersStay
<1>2. Counted(q) = {} /\ ~Creates(q) /\ InOrder(q) /\ ~Uncounted(req[r])
  BY DEF Counted, Creates, InOrder, Uncounted
<1>3. KeepsHosts /\ UNCHANGED <<hurried, cut, given>>
  BY DEF KeepsHosts, table, history
<1> QED
  BY <1>1, <1>2, <1>3, Leaves

LEMMA BeginsElsewhere ==
  ASSUME Inv, Inv', CountInv, NEW r \in Requests, NEW q \in Request, Become(r, q),
         req[r] = Idle, q.call \notin {"create", "duplicate"}, q.host = q.prev,
         q.at \in {"load", "find", "check", "active"} \/ q.call # "update",
         UNCHANGED <<table, listingCount, late, cut, given>>
  PROVE  CountInv'
<1>1. PICK p \in Request :
        /\ p = [q EXCEPT !.noted = Loaded(q)]
        /\ req' = [req EXCEPT ![r] = p]
  BY BecomeType DEF Inv
<1>2. req'[r] = p /\ OthersStay(r)
  BY <1>1, NewRequest DEF Inv, OthersStay
<1>3. p.call = q.call /\ p.at = q.at /\ p.host = q.host /\ p.prev = q.prev
  BY <1>1 DEF Request
<1>4. Counted(p) = {} /\ ~Creates(p) /\ InOrder(p) /\ ~Uncounted(req[r])
  BY <1>3, IdleType DEF Counted, Creates, InOrder, Uncounted
<1>5. KeepsHosts /\ hurried \subseteq hurried'
  BY DEF KeepsHosts, table, Become
<1> QED
  BY <1>2, <1>4, <1>5, Leaves

LEMMA BeginCounts ==
  ASSUME Inv, Inv', CountInv, NEW r \in Requests, Begin(r)
  PROVE  CountInv'
<1>1. ASSUME NEW call \in {"create", "duplicate"}, NEW u \in Users, NEW h \in Users,
             NEW inst \in Row, StartCreate(r, call, u, h, inst)
      PROVE  CountInv'
  <2> DEFINE q == [Idle EXCEPT !.call = call, !.at = "save", !.by = u, !.host = h,
                               !.inst = inst]
  <2>1. q \in Request /\ q.call = call /\ q.at = "save" /\ q.by = u
    BY <1>1, IdleType DEF Request, Handlers, Awaits, Someone
  <2>2. Become(r, q) /\ req[r] = Idle /\ Cardinality(ListingsOf(u)) < Limit
    BY <1>1 DEF StartCreate, May, BelowLimit
  <2> HIDE DEF q
  <2>3. Sizes[q.by] < Limit
    BY <2>1, <2>2 DEF Sizes, Someone
  <2>4. Creates(q) /\ InOrder(q) /\ ~Uncounted(req[r])
    BY <2>1, <2>2, IdleType DEF Creates, InOrder, Uncounted
  <2>5. UNCHANGED <<table, listingCount, late, cut, given>>
    BY <1>1 DEF StartCreate
  <2> QED
    BY <2>1, <2>2, <2>3, <2>4, <2>5, StartsToCount
<1>2. ASSUME NEW u \in Users, NEW h \in Users, CreateListing(r, u, h)
      PROVE  CountInv'
  BY <1>1, <1>2, IdleType DEF CreateListing
<1>3. ASSUME NEW u \in Users, NEW i \in Ids, DuplicateListing(r, u, i)
      PROVE  CountInv'
  <2>1. listing[i] \in Row
    BY DEF Inv, TypeOK
  <2> QED
    BY <1>1, <1>3, <2>1 DEF DuplicateListing
<1>4. ASSUME NEW u \in Users, NEW i \in Ids, UpdateListing(r, u, i)
      PROVE  CountInv'
  <2> DEFINE q == [Idle EXCEPT !.call = "update", !.at = "load", !.by = u, !.id = i]
  <2>1. /\ q \in Request /\ q.call = "update" /\ q.at = "load" /\ q.host = q.prev
    BY IdleType DEF Request, Handlers, Awaits, Someone, Idle
  <2>2. Become(r, q) /\ req[r] = Idle /\ UNCHANGED <<table, listingCount, late, cut, given>>
    BY <1>4 DEF UpdateListing, May
  <2> HIDE DEF q
  <2> QED
    BY <2>1, <2>2, BeginsElsewhere
<1>5. ASSUME NEW call \in {"activate", "deactivate"}, NEW u \in Users, NEW i \in Ids,
             Switch(r, call, u, i)
      PROVE  CountInv'
  <2> DEFINE q == [Idle EXCEPT !.call = call, !.at = "find", !.by = u, !.id = i]
  <2>1. q \in Request /\ q.call = call /\ q.at = "find" /\ q.host = q.prev
    BY IdleType DEF Request, Handlers, Awaits, Someone, Idle
  <2>2. Become(r, q) /\ req[r] = Idle /\ UNCHANGED <<table, listingCount, late, cut, given>>
    BY <1>5 DEF Switch, May
  <2> HIDE DEF q
  <2> QED
    BY <2>1, <2>2, BeginsElsewhere
<1>6. ASSUME NEW u \in Users, NEW i \in Ids, DeleteListing(r, u, i)
      PROVE  CountInv'
  <2> DEFINE q == [Idle EXCEPT !.call = "delete", !.at = "check", !.by = u, !.id = i]
  <2>1. q \in Request /\ q.call = "delete" /\ q.at = "check" /\ q.host = q.prev
    BY IdleType DEF Request, Handlers, Awaits, Someone, Idle
  <2>2. Become(r, q) /\ req[r] = Idle /\ UNCHANGED <<table, listingCount, late, cut, given>>
    BY <1>6 DEF DeleteListing, May
  <2> HIDE DEF q
  <2> QED
    BY <2>1, <2>2, BeginsElsewhere
<1>7. ASSUME NEW call \in {"post", "quote"}, NEW at \in {"active", "save"}, NEW i \in Ids,
             Book(r, call, at, i)
      PROVE  CountInv'
  <2> DEFINE q == [Idle EXCEPT !.call = call, !.at = at, !.id = i, !.inst = listing[i]]
  <2>0. listing[i] \in Row
    BY DEF Inv, TypeOK
  <2>1. q \in Request /\ q.call = call /\ q.host = q.prev
    BY <2>0, IdleType DEF Request, Handlers, Awaits, Idle
  <2>2. Become(r, q) /\ req[r] = Idle /\ UNCHANGED <<table, listingCount, late, cut, given>>
    BY <1>7 DEF Book, May
  <2> HIDE DEF q
  <2> QED
    BY <2>1, <2>2, BeginsElsewhere
<1> QED
  BY <1>2, <1>3, <1>4, <1>5, <1>6, <1>7
  DEF Begin, ActivateListing, DeactivateListing, PostBooking, QuoteBooking

LEMMA UpdateLoadCounts ==
  ASSUME Inv, Inv', CountInv, NEW r \in Requests, UpdateLoad(r)
  PROVE  CountInv'
<1> DEFINE row == listing[req[r].id]
<1>1. /\ req[r] \in Request /\ req[r].call = "update" /\ req[r].at = "load"
      /\ ~Uncounted(req[r])
      /\ UNCHANGED <<table, listingCount, late, cut, given>>
  BY DEF Inv, TypeOK, UpdateLoad, At, Uncounted
<1>2. CASE ~(req[r].id \in listings /\ CanEdit(req[r].by, row))
  <2>1. End(r) /\ UNCHANGED hurried
    BY <1>2 DEF UpdateLoad
  <2>2. KeepsHosts
    BY <1>1 DEF KeepsHosts, table
  <2> QED
    BY <1>1, <2>1, <2>2, EndsCounts
<1>3. CASE req[r].id \in listings /\ CanEdit(req[r].by, row)
  <2>1. PICK h \in NewHosts(r, row) :
          Become(r, [req[r] EXCEPT !.at = "save", !.host = h, !.prev = row.host,
                                   !.old = row])
    BY <1>3 DEF UpdateLoad
  <2> DEFINE q == [req[r] EXCEPT !.at = "save", !.host = h, !.prev = row.host, !.old = row]
  <2>2. row \in Row /\ row.host \in Someone /\ h \in Someone
    BY <1>1, <1>3 DEF Inv, TypeOK, Row, NewHosts, Someone
  <2> HIDE DEF row
  <2>3. /\ q \in Request /\ q.call = "update" /\ q.at = "save"
        /\ q.prev = row.host /\ q.old = row
    BY <1>1, <2>2 DEF Request, Awaits
  <2>4. Become(r, q)
    BY <2>1
  <2> HIDE DEF q
  <2>5. InOrder(q) /\ ~Creates(q)
    BY <2>3 DEF InOrder, Creates
  <2> QED
    BY <1>1, <2>3, <2>4, <2>5, StartsToCount
<1> QED
  BY <1>2, <1>3

\* A published listing keeps its host.
LEMMA PublishCounts ==
  ASSUME Inv, Inv', CountInv, NEW r \in Requests,
         CreatePublish(r) \/ UpdatePublish(r) \/ SwitchWrite(r)
  PROVE  CountInv'
<1>1. /\ End(r) /\ listings' = listings
      /\ UNCHANGED <<listingCount, late, hurried, cut, given>>
      /\ ~Uncounted(req[r])
  BY DEF CreatePublish, UpdatePublish, SwitchWrite, CreatesAt, SwitchesAt, At, Uncounted
<1>2. \A j \in listings : listing'[j].host = listing[j].host
  <2>1. ASSUME NEW i, NEW was, NEW active, SetActive(i, was, active)
        PROVE  \A j \in listings : listing'[j].host = listing[j].host
    BY <2>1, SetActiveHosts
  <2>2. ASSUME NEW i, NEW q, Save(i, q, q)
        PROVE  \A j \in listings : listing'[j].host = listing[j].host
    BY <2>2, SaveHosts
  <2>3. CASE UNCHANGED listing
    BY <2>3
  <2> QED
    BY <2>1, <2>2, <2>3 DEF CreatePublish, UpdatePublish, SwitchWrite
<1>3. KeepsHosts
  BY <1>1, <1>2 DEF KeepsHosts
<1> QED
  BY <1>1, <1>3, EndsCounts

LEMMA GoesOnElsewhere ==
  ASSUME Inv, Inv', CountInv, NEW r \in Requests,
         SwitchFind(r) \/ DeleteCheck(r) \/ DeleteRow(r) \/ PostActive(r) \/ BookingSave(r)
  PROVE  CountInv'
<1>1. /\ req[r] \in Request
      /\ req[r].call \notin {"create", "duplicate", "update"}
      /\ UNCHANGED <<listingCount, late, hurried, cut, given>>
  BY DEF SwitchFind, DeleteCheck, DeleteRow, PostActive, BookingSave, SwitchesAt, At,
         history, Inv, TypeOK
<1>2. KeepsHosts
  <2>1. CASE UNCHANGED table
    BY <2>1 DEF KeepsHosts, table
  <2>2. CASE DeleteRow(r)
    BY <2>2 DEF DeleteRow, KeepsHosts, Inv, TypeOK
  <2> QED
    BY <2>1, <2>2 DEF SwitchFind, DeleteCheck, PostActive, BookingSave
<1>3. CASE End(r)
  BY <1>1, <1>2, <1>3, EndsCounts DEF Uncounted
<1>4. CASE ~End(r)
  <2>1. UNCHANGED <<table, listingCount, late, history>>
    BY <1>1, <1>4 DEF SwitchFind, DeleteCheck, DeleteRow, PostActive, BookingSave, history
  <2>2. PICK q \in Request : req' = [req EXCEPT ![r] = q] /\ q.call = req[r].call
    <3>1. CASE SwitchFind(r)
      <4> DEFINE q == [req[r] EXCEPT !.at = "write", !.old = listing[req[r].id]]
      <4>1. req[r].id \in listings
        BY <1>4, <3>1 DEF SwitchFind
      <4>2. listing[req[r].id] \in Row
        BY <4>1 DEF Inv, TypeOK
      <4>3. q \in Request /\ req' = [req EXCEPT ![r] = q] /\ q.call = req[r].call
        BY <1>1, <3>1, <4>1, <4>2 DEF SwitchFind, Request, Awaits, Inv, TypeOK
      <4> QED
        BY <4>3
    <3>2. ASSUME NEW at \in Awaits, Go(r, at)
          PROVE  \E q \in Request : req' = [req EXCEPT ![r] = q] /\ q.call = req[r].call
      <4>1. [req[r] EXCEPT !.at = at].call = req[r].call
        BY <1>1 DEF Request
      <4> QED
        BY <3>2, <4>1, GoType DEF Go, Inv
    <3>3. "destroy" \in Awaits /\ "save" \in Awaits
      BY DEF Awaits
    <3> QED
      BY <1>4, <3>1, <3>2, <3>3 DEF DeleteCheck, DeleteRow, PostActive, BookingSave
  <2> QED
    BY <1>1, <2>1, <2>2, StaysCounts
<1> QED
  BY <1>3, <1>4

LEMMA CrashCounts ==
  ASSUME Inv, Inv', CountInv, NEW r \in Requests, Crash(r)
  PROVE  CountInv'
<1>1. KeepsHosts
  BY DEF Crash, KeepsHosts, table
<1> QED
  BY <1>1, EndsCounts DEF Crash

LEMMA CountNext == Inv /\ Inv' /\ CountInv /\ [Next]_vars => CountInv'
<1> SUFFICES ASSUME Inv, Inv', CountInv, [Next]_vars PROVE CountInv'
  OBVIOUS
<1>1. ASSUME NEW r \in Requests, Step(r) PROVE CountInv'
  BY <1>1, CreateSaveCounts, CreateCountCounts, CreateNoteCounts, PublishCounts,
     UpdateLoadCounts, UpdateSaveCounts, UpdateCountCounts, GoesOnElsewhere DEF Step
<1>2. CASE UNCHANGED vars
  <2>1. UNCHANGED <<listings, listing, listingCount, late, req, hurried, cut, given>>
    BY <1>2 DEF vars, table, history
  <2>2. Sizes' = Sizes
    BY <2>1 DEF Sizes, ListingsOf
  <2>3. AllInOrder' /\ CountsMet' /\ DueAlone' /\ DueEnough' /\ Covers' /\ Limited'
    BY <2>1, <2>2 DEF CountInv, AllInOrder, CountsMet, DueAlone, DueEnough, Covers, Limited
  <2>4. AllKnow'
    BY <2>1, <2>2 DEF CountInv, AllKnow, Knows, KnowsCounts, FoundEnough, HasRoom
  <2> QED
    BY <2>3, <2>4 DEF CountInv
<1> QED
  BY <1>1, <1>2, BeginCounts, CrashCounts, LateCountCounts DEF Next

LEMMA CountInit == Init => CountInv
<1> SUFFICES ASSUME Init PROVE CountInv
  OBVIOUS
<1>1. \A r \in Requests : req[r] = Idle
  BY DEF Init
<1>2. Counted(Idle) = {} /\ ~Creates(Idle) /\ InOrder(Idle)
  BY IdleType DEF Counted, Creates, InOrder
<1>3. \A u \in Someone : Sizes[u] = 0
  <2>1. \A u \in Someone : ListingsOf(u) = {}
    BY DEF Init, ListingsOf
  <2> QED
    BY <2>1, FS_EmptySet DEF Sizes
<1>4. AllInOrder /\ CountsMet /\ DueAlone /\ DueEnough
  BY <1>1, <1>2 DEF AllInOrder, CountsMet, DueAlone, DueEnough, Init
<1>5. AllKnow
  BY <1>1, <1>2 DEF AllKnow, Knows, KnowsCounts, FoundEnough, HasRoom
<1>6. Covers /\ Limited
  BY <1>3, ListingsAssumption DEF Covers, Limited, Someone, Init
<1> QED
  BY <1>4, <1>5, <1>6 DEF CountInv

LEMMA CountInvariance == Spec => [](CountCovers /\ LimitKept)
<1>1. Inv /\ CountInv /\ [Next]_vars => Inv' /\ CountInv'
  BY NextInv, CountNext
<1>2. CountInv => CountCovers /\ LimitKept
  BY CountInvSays
<1> QED
  BY InitInv, CountInit, <1>1, <1>2, PTL DEF Spec

\* listingCount is never below the number of a host's listings, at whichever
\* await a request stands, unless it was cut off, or two of them counted the
\* host's listings at once.
THEOREM CountsCover == Spec => []CountCovers
  BY CountInvariance, PTL

\* No host gets past the limit of createListing, unless two requests of the
\* host overlap or an administrator gives the host a listing.
THEOREM LimitIsKept == Spec => []LimitKept
  BY CountInvariance, PTL
=============================================================================
