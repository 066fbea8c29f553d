# beenest-server in TLA+

beenest-server is the back end of a home-sharing site: guests book listings of
hosts and pay by card (Stripe), with BEE, ETH or BTC, or with credit. This
directory models the part of it that moves money, and the rows that money,
bookings and people hang on: TLA+ modules translated from the code, TLC
configurations that check them on small instances, and proofs that TLAPS checks for every value of the constants.

    tlc -workers 2 -config BookingSerial.cfg MCBookingFlow.tla     # a run
    tlapm BookingFlowProofs.tla                                    # the proofs

Paths below are relative to the repository. PROJECT.json says which lines each
definition translates, which run checks which property, and which change of
which definition makes each property fail.

## 1. The system

Requests are handled by one or more Node processes over one MySQL database;
scheduled lambdas (`packages/`) call the server over HTTP. Handlers suspend at
every `await`, so any two requests interleave at their awaits. No handler locks
a row, and the only transaction in the code (Reservation.bulkReplace) is not
passed to its first statement.

| Component | State | Operations | Talks to | What makes it correct |
|---|---|---|---|---|
| Booking lifecycle: `services/booking`, `models/sequelize/Booking.js`, `controllers/v2/bookings.js`, the booking mutations | `bookings`: a status column and a JSON column `meta` (currency, total, credit, quotes, card, charge) | create (REST, GraphQL), select payment, confirm, reject payment, approve, pay out, cancel (guest, host), reject, expire | Stripe, credit account, listings, mail, analytics | a booking that counts as paid was charged; what is cancelled is refunded as the rules say; credit moves once; nothing closed comes back as started |
| Stripe: `services/stripe.js` | charges and refunds at Stripe; `stripeChargeId`, `stripeRefundAmount` in meta | chargeBooking, refundBookingCancellation, customers and cards | booking lifecycle | at most one charge; the charge can be found again for a refund |
| Credit account: `services/credit`, CreditBalance, CreditLedger | `credit_balances`, `credit_ledger` | debit, credit, confirm, reject, refundFull, refundGuestCancel | booking lifecycle, user creation, promo codes | never overdrawn; no credit from nowhere; the balance is what the ledger says |
| Contract event feed: `services/events`, `controllers/v2/events.js`, lambda PaymentsEventHandler | `contract_events`; the highest block in it is the cursor | poll the cursor, read the log, insert a row, dispatch it to a booking | payments contract, booking lifecycle | each event changes its booking once, after it was emitted, and none is lost |
| Expiration: Booking.findExpired, lambda BookingExpirations | age and order of started bookings | expire | booking lifecycle | no booking stays started for ever; no confirmed booking expires |
| Crypto verification: lambda CryptoTransactionVerification | none | verify and expire transactions | booking lifecycle | (its two endpoints call methods that do not exist) |
| Prices: `services/pricing.js`, `services/pricing` | none; reads rates, listing, balance | compute, validate, quote | booking lifecycle | total is nights plus deposit less credit, in every currency |
| Availability: Booking.findOverlappingBookings, Reservation, ReservationService | dates of bookings, `reservations` | overlap checks at creation and confirmation | booking lifecycle, calendars | two active bookings of a listing do not overlap |
| Calendars: `services/calendar.js`, `util/ical.js`, lambda ListingCalendarUpdate | `ical`, `reservations` by source link | import, export, replace the calendars of a listing | other sites, availability | the reservations of a link are those of its last good import |
| Cards: PaymentSource, `services/stripe.js`, `controllers/v2/paymentSources.js`, the payment source mutations | `payment_sources`, sources and customers at Stripe, `stripeCustomerId` in `users.meta` | add, update, remove | Stripe, users | all cards of a user are of the customer the user's row notes; none is stored twice; every row has its card at Stripe |
| Promo and referral codes: `services/promoCode.js` | counts of balances | apply a code to a new user | credit account | a code is given at most as often as its limit (it is not: the check is always true) |
| Users: `services/user`, `services/firebase*`, `models/users.js`, the context of `server.js` | `users`, Firebase accounts | sign up, log in, make a missing row, create a host, update, delete | Firebase, credit account, listings, bookings | the two stores agree; nobody who owns something disappears |
| Listings of hosts: `services/listing`, `models/sequelize/Listing.js`, the listing mutations | `listings`, `listing_count` of the host | create, duplicate, edit, move to another host, activate, deactivate, delete, book | users, bookings, calendars | only complete listings are published; no booking without its listing; a guest books what is on offer; the count is true |
| Listings of other sites (Rentivo, Agoda), conferences, feedback, reports | single rows | reads and inserts of single rows | Rentivo and Agoda over HTTP | - |
| Currency rates, lambda UpdateListingPrices | `currency_rates`, prices in BEE of listings | refresh nightly | other sites | - |
| Mail, analytics, logging, images, deployment hooks | none | output only | - | - |

What is hard to test here, in short (PROJECT.json lists each hazard at its line):

* **Stale instances.** A request works on the row as it loaded it. A save
  writes the whole JSON column, so an old instance erases a `stripeChargeId` or
  restores credit that another request has cleared.
* **Work started together.** The cancellations start the refund of the credit,
  the clearing of it on the booking and the save of the status in one
  `Promise.all`; one may reject while the others run on behind the answer.
* **Partial failure.** Stripe declines, or the process stops, between a charge
  and the writes that record it, or between a ledger row and the balance.
* **Sequences of calls.** Approve, payout, reject and cancel look at few
  statuses or at none: cancel after reject, approve twice, cancel unconfirmed.
* **Two stores.** A user is a row and a login at Firebase, a card is a row and
  a source at Stripe. They are written one after the other, and what one
  refuses or a crash leaves out is not taken back from the other.
* **Check, then act.** The listing of a new booking, the bookings of a listing
  or user about to be deleted, the number of listings and the completeness of a
  listing are looked up some awaits before the write that relies on them.
* **Delivery.** The event cursor counts blocks, rows are inserted before they
  are dispatched, and nothing is retried.

## 2. The modules

| Module | What it is |
|---|---|
| `BookingRules` | statuses, cancellation costs, event targets: the pure rules of Booking.js |
| `BookingFlow` | every handler that changes a booking, await by await, with Stripe, the credit account, the payments contract and the passing of time |
| `CreditAccount` | one debit or credit, await by await, with lost updates and duplicate rows |
| `EventDelivery` | abstract: an event changes its booking after it was emitted, and once |
| `EventFeed` | the lambda, the cursor, the rows and the dispatch; implements EventDelivery |
| `CalendarSync` | the import of other sites' calendars into `reservations`: edits of the links, updates in blocks, the two statements of bulkReplace |
| `Availability` | who holds the nights of a listing: the overlap queries, the writes they allow and the ones nobody asked for; composes CalendarSync |
| `Accounts` | users: logins at Firebase and rows of `users`, and what refers to them |
| `Cards` | extends Accounts: customers and cards at Stripe, `payment_sources`, the writers of `users.meta` |
| `Prices` | what a stay costs in each currency: pure |
| `Listings` | extends Prices: the listings of hosts, their counts, and the bookings made of them |
| `MCBookingFlow`, `MCCreditAccount`, `MCEventFeed`, `MCCalendarSync`, `MCAvailability`, `MCCards`, `MCListings` | the instances TLC checks |
| `BookingFlowProofs`, `BookingSerialProofs`, `CreditAccountProofs`, `EventFeedProofs`, `CalendarSyncProofs`, `AvailabilityProofs`, `ListingsProofs`, `CardsProofs` | the theorems |

`BookingFlow` composes the booking lifecycle with Stripe (`charges`), the credit
account (`balance`), the payments contract (`onchain`) and the expiration. It
abstracts the account to an amount that moves in one step; `CreditAccount` opens
that step up, and `EventFeed` opens up how an event comes to be reported. The
operators named "Mutant" in a module are changed forms of the definition that
follows them; no specification uses them.

### BookingFlow

`row[b]` is the database row. `req[r]` is a request: `inst` the Sequelize
instance it loaded, `pc` the await it is suspended at, `todo` the parts of a
`Promise.all` that have not finished. An action is the code from one await that
reaches the database or Stripe to the next:

| Handler | Actions |
|---|---|
| POST /bookings, createBooking mutation | `CreateBooking`, `CreateBookingWithQuotes` |
| guestSelectPayment | `GuestSelectPayment`, `SelectAddress` (BTC), `SelectSave` |
| guestConfirmBooking | `GuestConfirm`, `MetaPart` and `MoneyPart` (the debit), `ConfirmStatus`, `ConfirmDetails` |
| guestRejectPayment, payoutBooking | `GuestRejectPayment`, `PayoutBooking`, each with `StatusWrite` |
| approveBooking | `ApproveBooking`, `ApproveBy`, then `StatusWrite`, or for USD `ApproveUsd`, `ChargeBooking`, `ChargeStatus`, `ChargeId` |
| cancelBooking by host or admin | `HostCancel`, parts, then `StatusWrite` (crypto) or `HostRefund`, `RefundId`, `HostCancelSave` |
| guestCancelBooking | `GuestCancel`, parts, then `StatusWrite` (crypto) or `GuestRefund`, `RefundId`, `GuestCancelSave` |
| rejectBooking | `RejectBooking`, `RejectSave` (and the lookup of the guest beside it), `RejectCredit` after the mail, parts |
| POST /expire | `ExpireBooking`, `StatusWrite` |
| a dispatched contract event | `ReportEvent`, `AdvanceStatus` |
| environment | `Emit`, `DeadlinePasses`, `BookingAges`, `RemoveCard`, `NoticeFails`, `Crash` |

How the code is read:

* Sequelize writes a column only when the instance changed it: a status that
  is already the one set is not written, and meta is written whole
  (`WriteStatus`, `Saved`). A save of meta validates it against
  META_JSON_SCHEMA; after `NaN` was stored as `null` every such save rejects.
* A part of a `Promise.all` that rejects ends the request with an error; the
  other parts finish behind it. The save of setCancelBy is sent before the one
  of the credit amounts, which waits for the currency rates (`MetaPart`).
* Stripe may decline any charge and any refund, and refuses to give back more
  than is left of a charge. Guards on users and listings can only refuse a
  request, and refused requests change nothing, so they are left out where
  they do not read the booking.
* `late` (less than seven days to the check-in) is read where the code reads
  the clock. Currency conversion is left out: amounts are in one unit, chosen so
  that 0.1 and 0.9 of every amount that occurs are whole. The transaction fee
  is 0 (pricing.compute), the rates exist, and the contract address of an event
  is the configured one.
* Mail and analytics are output, but a mail that cannot be sent rejects and ends
  its handler. In three handlers a mail, or the lookup of its recipient, stands
  between two writes: hostReject sends it between the save of `host_rejected` and
  the refund of the credit, and the crypto cancellations have it in the
  `Promise.all` that the last status waits for. There its failure is
  `NoticeFails`, in the serial run too; `unsent` records, for the properties
  only, that the last rejection of a booking ended that way. Elsewhere mail and
  analytics come before the first write or after the last one, and their failure
  changes nothing.
* A database call that fails in the middle of a handler is not told apart from a
  server that stops there (`Crash`, in BookingRace); guests of bookings have a row.

### CreditAccount

`rows[u]` are the balance rows of a user in the order of their ids (nothing
keeps them unique; `findOne` returns the first; amount_usd is a `double(11, 2)`,
so what is read is a number), `ledger[u]` what the ledger
debits and credits in all. A request is `Begin`, `InsertLedger`, `FindBalance`
(read and compare), `WriteBalance` or `InsertBalance`, and may `Crash` anywhere.
`disturbed` and `refused` record, for the properties only, whether requests
overlapped and what refused debits left in the ledger.

### EventFeed

An event is its position in the log. `Poll` asks for the cursor, `GetEvents`
reads the log behind it, `Post` inserts the row of the first event left,
`Dispatch` sets the status, `Finish` ends the execution. The insert or an earlier
step may fail (`PostFails`), the dispatch (`DispatchFails`), the lambda or the
server (`Abort`); or the lambda runs out of time while the server goes on
(`TimeOut`, `DispatchOrphan`). A POST that is under way when the lambda ends is
assumed to have reached the server before the next execution starts, ten minutes
later. The refinement mapping takes `emitted` to the events up to the newest
block and `times` to itself.

### CalendarSync

The links of one listing. `update[u]` is an execution of createOrUpdate or
updateReservations: `Edit` (validated links; the rows of `ical` are deleted),
`CreateCalendars`, `FindCalendars` (where the lambda's POST starts), `NextBlock`
(up to MAX_CONCURRENT_REQUESTS calendars side by side) and `Finish`; each
calendar of a block goes through `Fetch`, `Destroy` and `Create`, and its failure
(`ImportFails`) is caught for it alone. What a site publishes is a version
number and the rows of one import are one entry of `reservations[l]`. `Destroy`
is a step of its own because bulkReplace passes the transaction to
`Reservation.destroy` as a second argument, which that method does not have.

### Availability

One listing; `Stay[b]` are the nights of a booking. A booking holds its nights
unless its status is one findOverlappingBookings leaves out (`Freed`). The
creation and the confirmation are split at the query: `CreateBooking` /
`Insert`, `Count` / `Insert`, `CheckOverlap` / `LoadToConfirm` / `Confirm`. All other
handlers write a status without a query and are one step (`WriteStatus`), from
any status: BookingFlow says which they really meet, and allowing more here
only makes the properties harder to meet. CalendarSync runs beside the bookings
(`Calendar == INSTANCE CalendarSync`), and `InRange` reads its tables.
`via` and `raced` are history: how a booking came to hold its nights, and
whose confirmations overlapped.

### Accounts and Cards

A uid is a number Firebase issues once. `accounts` and `login` are Firebase's
side, `users` and `row` the table's; `had[u]` are the emails that tokens of a
login may show. `listings[p]` is the host of a listing, a booking in `bookings`
has the listing, guest and host it was stored with, and `credited` are the ids
that balances refer to. A request keeps in `req[r]` what it has
read; a read and the first write (or the next call) that waits for it are one
action each:

| Handler | Actions |
|---|---|
| a sign-up of the web client at Firebase itself | `ClientSignUp` |
| createUser | `SignUp`, `SignUpLookup`, `SignUpAccount`, `SignUpSave`, `SignUpCredit` (the promo code) |
| any GraphQL request with a token but no row (server.js) | `Context`, `ContextCreate` |
| any REST request (ensureAuthenticated, fetchAndSyncUserById) | `Fetch`, `FetchFind`, `FetchCreate` |
| createOrLoginWithProviders | `Login`, `LoginFind`, `LoginVerify`, `LoginCreate` |
| adminCreateHost | `AdminCreateHost`, `AdminLookup`, `AdminAccount`, then `AdminRename` (the row gets the uid as its id) or `AdminCreate` |
| deleteUser | `Delete`, `DeleteLookup`, `DeleteCheck` (listings by host), `DeleteCheckBookings` (bookings by guest), `DeleteRow`, `DeleteAccount` |
| updateUser, updateHost | `Change`, `ChangeLookup`, `ChangeAccount`, `ChangeSave` |
| createListing | `Own`, `OwnStore` |
| creating a booking | `Book`, `BookStore` |
| updateListing by an administrator, with another host | `Move`, `MoveStore` (bookings keep their host) |
| deleteListing | `Unlist`, `UnlistStore` |
| addPaymentSource | `AddCard`, `CheckCard`, `FindOrCreateCustomer`, `NoteCustomer`, `CreateSource`, `CreateRow` |
| removePaymentSource | `RemoveCard`, `DeleteCard`, `DestroyRow` |
| updatePaymentSource | `UpdateCard`, `UpdateSource`, `UpdateRow` |
| POST /stripe_express_accounts, updateWalletAddress | `Connect`, `ConnectSave`; `Wallet`, `WalletSave` |

A row and its source at Stripe are one number, `listed` where the row is there
and `held` where the source is. `marks` is history: it says which users
concurrent requests were about, whose change stopped between two stores, whose
row was made from a token that no longer told the truth, whose id was
overwritten, who was deleted, and who had a listing that was given to another
host. Each property names the marks that excuse a
user, so it says which of these can lead to a disagreement, and that nothing
else can. Listings and BookingFlow have the handlers of listings and
bookings in full; here only the ids they store and ask for matter.

### Prices

A dollar is worth `r.to` of what `r.from` units of a currency are worth, so
`toUsd` is `r.to / r.from`. BEE are whole numbers (parseInt), one night at a
time. Amounts in ETH and BTC are floating-point numbers in the code; their
rounding is left out, and they are counted in units of 1 / `r.to`, in which they
are whole. `Agrees` is the
reference: what a total must be, up to rounding, given the stay in dollars.

### Listings

Of a listing the model keeps its host, `active`, its price (which stands for the
columns PUBLISH_PROPERTIES asks for) and its photos (for the fields of meta). An
instance that is saved writes the columns that differ from what it loaded, and
meta whole (`Save`). `late` are the saves of `listing_count` that updateListing
starts and does not wait for; they land in any order or fail.

| Handler | Actions |
|---|---|
| createListing, duplicateListing | `CreateListing` or `DuplicateListing`, `CreateSave`, `CreateCount`, `CreateNote`, `CreatePublish` |
| updateListing | `UpdateListing`, `UpdateLoad`, `UpdateSave`, `UpdateCount` (if it has moved), `UpdatePublish`; `LateCount`, `LateCountFails` |
| activateListing, deactivateListing | `ActivateListing`, `DeactivateListing`, `SwitchFind`, `SwitchWrite` |
| deleteListing | `DeleteListing`, `DeleteCheck`, `DeleteRow` |
| POST /v2/bookings | `PostBooking`, `PostActive`, `BookingSave` |
| createBooking mutation | `QuoteBooking`, `BookingSave` |

Details of the code that the model keeps, because they decide what happens:

* An edit sets `isActive` to false in the same write as everything else, and the
  listing is put back on the market afterwards if the editor may publish it.
  updatedBy is noted in meta but not written when it is put back.
* Photos that an edit does not send are lost: Object.assign sets the virtual
  property before the old value is looked for.
* createListing counts the listings of who asks, also when an administrator
  makes one for a host; a copy belongs to who asks for it.
* updateListingCount writes the column only if the instance was loaded with
  another value (`noted`).
* activate and deactivate ask whether the user may *publish* the listing, so one
  that has become incomplete cannot be deactivated.
* pricing.validate compares every currency but USD and ETH with the prices in
  BEE, BTC too (`ComparedWith`). POST /v2/listings goes on after it has
  answered that a field is missing (a `return` inside a forEach), so `CreateSave`
  stores whatever was sent.

`overlapped`, `hurried`, `cut` and `given` are history, used as `marks` is.

## 3. What is checked

| Run | Instance | Shows |
|---|---|---|
| `BookingSerial` | one booking, all handlers, USD, BEE and BTC, all events, one request at a time | types; the charge id is kept; free cancellations are free; closed bookings hold no credit, but after a rejection whose mail failed; credit moves once; a host's cancellation refunds the card; a charged booking can be saved |
| `BookingRace` | one USD booking, two requests at once, stopping at any await | no credit overdrawn; paid means charged; a charged booking is approved, or was confirmed over it; nothing is started again |
| `BookingShared` | two bookings of one guest, who has credit or none | no booking stays started, also when the newest one is spared (under FairSpec) |
| `CreditAccount` | two requests, two users, one without a row | never overdrawn; nothing minted; undisturbed accounts reconcile |
| `CalendarSync` | two links in blocks of one, two updates, two edits, one failure | one import's rows or none; the table keeps up with the sites (under FairSpec) |
| `Availability` | two bookings, one within the other, two requests, one link and its import | how two bookings come to hold a night; imported nights are sold only during an import |
| `EventFeed` | five events in three blocks, two failures | implements EventDelivery; delivers all without failures; a failure costs at most one block |
| `Cards` | two logins, two emails, a listing and its bookings, two cards; mixes of calls, two requests at once, or one that may stop at any await | a row has a login; emails agree; owners exist; cards are of one customer, stored once, and real: each but for the causes the property names |
| `Listings` | a host and an administrator, two listings, one booking; mixes as above | published listings are complete; counts cover; the limit is kept; booked listings exist; bookings are as offered; quotes agree |
| `DoubleCharge`, `CryptoCancel`, `CreditMinted` | one booking | the findings of section 5 |

Bounds, and why they are enough:

* `Requests`: one slot makes handlers serial; two give every race of a stale
  instance with one writer. A third can only repeat what a second does to the
  first, for handlers talk to one another through rows alone.
* `Calls`: the handlers and environment steps a run lets happen. BookingSerial
  has them all. BookingRace takes away the events, the expiration, the
  deadline and the removal of cards: its four properties are theorems for every
  set of calls, so the run is where they were found and where they can be broken.
* `Openings`: the guest starts with no credit or with enough for half of a
  price. A guest with none confirms without a debit, one write earlier
  than the others, and only then can a confirmation land on an approval.
* `MaxCharges` (1 or 2 charges per booking): two are needed for a second
  approval. Every handler looks at the last charge only.
* `MaxCredited`: no further cancellation begins once a booking gave back more
  than this. In BookingSerial it is the whole credit, so the
  second, wrong refund that CreditMovesOnce rules out can still happen.
* `MaxLedger`: requests begin until the ledger passes 1, so each user sees
  several debits and credits, among them two first credits at once.
* `MaxFailures`: two, so that a second failure can strike what a first one
  left behind. Five events have two blocks with more than one event and one event
  that dispatch does not know.
* `BlockSize` 1 with two links is the smallest case of several blocks. `MaxVersion`
  1 makes every import old or new; `MaxEdits` 2 lets the host remove the links and
  enter them again. Two updates are the lambda's and one of an edit.
* Availability: `Calls` leaves out approvals and events, which write statuses that hold
  nights as guest_confirmed does; guestCancel is there for it both frees nights and
  (guest_cancel_initiated) takes them. One update and no failure: CalendarSync
  has the rest, and its only trace here is an empty table, which the gap
  between the two statements shows as well.
* `Mixes` (Cards and Listings): each behaviour makes the calls of one mix, chosen in the initial
  state. In the racing mixes every pair of calls about accounts, and every pair about
  listings, meets in two slots, every call about what belongs to a user meets a
  booking, a move or a deletion, and every call about cards an addition or a removal;
  in the serial mixes, one slot makes long sequences of four or more kinds of
  calls and may stop at any await. What a mix leaves out is only longer
  sequences of racing calls.
* `MaxPlaces` 1: one listing, which is made, booked, given away and deleted; an id
  is not used again while a booking or a request refers to it. A second listing
  only protects its host from being deleted for longer.
* `MaxAccounts`, `MaxCustomers`, `MaxSources` 2: a second login can take the email
  a first one had, a second customer shows which of them is noted. `MaxListings`
  2 and `Limit` 1 let the limit be reached (the code's is 100) and one listing
  be a copy of another. `MaxLate` 1 keeps a further count from being taken
  while two saves are under way; the order of one against later requests is what matters.
* Listings: 8 dollars or 2 a night, three nights, a deposit of 7, a credit of 9, at
  two dollars and a half for a BEE: every amount in BEE is rounded, and the credit
  covers part of the stay or all of it. The theorem on totals has every amount.
* Prices of 200 and 100 and a credit of 100 or none: a discount that covers half
  of a price, all of it, or nothing.

Fairness. BookingFlow: every later step of a handler is weakly fair, because the
database and Stripe answer or fail; bookings age; and the start of an expiration
is strongly fair, because the bound on request slots is the model's and not the
server's: the lambda runs every ten minutes and always finds the server able to
take a request. The guest and the host are not fair. CalendarSync: every execution goes on, and the
lambda starts new ones (`Run`), for it is scheduled; edits, failures and other
sites are not fair. Cards and Listings state safety only: their handlers end
by themselves and nothing starts them but people. EventFeed: the lambda runs
again and again and its steps are answered. Blocks and failures are not fair.

`CHECK_DEADLOCK FALSE` is said in BookingShared, CreditAccount, Cards and Listings, where bounds
or closed bookings leave nothing to do.

## 4. What is proved

All proofs hold for any numbers of bookings, guests, requests, events, users,
cards, listings and calendars, and for every set of calls, crashes included. They assume
only the ASSUMEs of the modules (`BookingAssumption`, `CreditAssumption`,
`EventAssumption`, `CalendarAssumption`, `AvailabilityAssumption`, `ListingsAssumption`,
`AccountsAssumption`, `CardsAssumption`; the one of Availability includes that there
are finitely many bookings and links and that a calendar has finitely many stays) and, for the theorems on the feed, that there is one lambda
(`OneLambda`, in EventFeedProofs).

* **BookingFlowProofs**: `FlowTypeCorrect`, `FlowNeverOverdrawn` and
  `PaidIsCharged`, each `Spec => []...`. The inductive invariant is
  `Inv == RestOK /\ NeverOverdrawn /\ RowInv /\ ReqInv`. Types alone are not
  inductive: that a total is never negative rests on the credit deducted being
  at most the price. PaidMeansCharged is not inductive either: a handler writes
  host_paid when *its instance* has a total of 0, while the row may have been
  written since. What saves the code is that two saves never disagree about the
  `Deal` of a booking, the credit in its quotes and, without quotes, its total;
  so `GoodReq` says that every running request holds an instance of the same
  deal as the row, and `GoodRow` that a row that is
  host_paid was charged, paid by hand, or has nothing due under its deal. There is
  one lemma per action; `RequestStep`, `RowStep`, `StatusStep`, `SaveInv` and
  `GoToInv` are what they share. `ChargedStaysApproved` and `StartedOnce` (the
  action property NeverRestarted) rest on `MovedInv`: a request that holds a status
  later than guest_confirmed found it in the row or wrote it there, so from
  the charge on the row is `Past` the early statuses, and stays so, because every step
  moves a status as `StatusesMove` says. A save that the schema refuses leaves
  the instance ahead of its row (`dirty`), and has to be told apart.
* **BookingSerialProofs**: `ChargeIdKept`, `FreeIsFree`, `ClosedHoldsNoCredit`,
  `CreditMovedOnce`, `HostCancelRefunds` and `ChargedIsSaveable`, for requests one after the
  other (`Serial`: at most one slot, no crash) and still any number of bookings and
  guests, contract events, refusals of Stripe, removed cards and mails that fail. The
  hypothesis is needed: two requests, or one cut off, break them. ClosedBookingHoldsNoCredit
  names the one serial exception, a booking whose last rejection stopped at the mail (`unsent`). They are about whole handlers, so the invariant
  `SerialInv` says what a booking no request is at work on looks like (`Rest`)
  and, for the one request at work, how far its booking is from that
  (`Flight`): what has been credited, what the parts of its Promise.all still
  have to credit and what stays on the booking add up to no more than was applied
  (`CreditOK`, `Given`); the instance is the row but for the write that comes
  next (`Agrees`); and where it stands between charge and charge id, or between
  refund and status (`PlaceOK`). The properties alone are far from inductive: that
  a cancellation gives back what was applied and not more depends on every path
  that leaves credit on a row with a status that can still be cancelled.
* **CreditAccountProofs**: `TypeCorrect`, `AccountNeverOverdrawn`, `NoneMinted` and
  `UndisturbedReconciles`. For the second the invariant adds that what a request
  is about to write is not negative; that the amount may be out of date does not
  matter. The last two compare a balance with a ledger that is ahead of it
  by whatever is under way, a sum over any number of requests. TLAPS has no
  induction to define such a sum with, so it is the size of a set: each request
  has its amount in `Units`, and `UnitsMove`, from the library's theorems on cardinality,
  says what one request's step does to it. `Roomy` leaves room
  in every row and every amount about to be written for the credits not read yet;
  `Undisturbed` says that at most one request is writing, and that balance, credits and
  debits under way make what the ledger says (`Tally`).
* **EventFeedProofs**: `FeedTypeCorrect`, `FailuresCostBlocks`, and `FeedDelivers`:
  `Spec => DeliversAtMostOnce`, the refinement. The invariant orders what has a
  row, what is being dispatched and what is still to post: an event that changed
  its booking has a row, and what is to post lies behind the cursor, so it has
  none. For `FailuresCostBlocks` the events that are lost are the wrong ones to count:
  one that was not posted is lost only when a later row moves the cursor past it, at
  a step that does not fail. `Doomed` counts those as well that the events still to post will
  move the cursor past; only failures add to it, and what one adds is of one block,
  the last that has a row, or the block of the event that was given up (`OneBlockInHand`).
* **CalendarSyncProofs**: `TypeCorrect` and `FollowsOneImport`. OneImport is not inductive: an import that inserts
  its rows must find the table empty and hold the newest version. `SyncInv` says so:
  while imports of a link have not overlapped, at most one is past its fetch
  (`Clean`), what it fetched is no older than what was ever inserted, and between
  its two statements the link has no rows; and nothing is newer than what the
  site publishes (`Known`), which is what the next fetch gets.
* **AvailabilityProofs**: `AvailabilityTypes`, `NightsCollide` and `ImportedNights`,
  with the invariant of the calendars taken from CalendarSyncProofs. NightsCollideOnlyUnasked needs
  to know of a confirmation that is past its query whom it can have missed
  (`Missed`): nobody but bookings that came to their nights unasked, or that were confirmed
  while it was under way. `UnaskedKeeps` is the argument for every step but the
  confirmation. ImportedNightsAreKept counts: the stays of the last import are
  among the rows found (`AtLeastTheImport`, an injection), so that the second answer
  finds the listing full whichever query it is of.
* **ListingsProofs**: `TotalsAgree`, for every rate, price, number of nights, deposit
  and credit. ETH and BTC agree exactly; for BEE the rounding of a night, of the
  deposit and of the credit is bounded one by one (`BeeAgrees`). And `TypeCorrect`, `PublishedComplete`, `BookedExist`,
  `QuotesOfBookingsAgree`, and the action property `BookedIsOffered`. None of
  these is inductive: a handler acts on what it read some awaits ago. The
  invariant says that what a request has read still holds (`Sees`) unless its
  listing is marked `overlapped`, that two requests about one listing are marked
  (`Met`), and that ids are not used again (`Numbered`). Each action either
  leaves the listing alone, or its request is the only one about it; there is
  one lemma per action, and `Goes`, `Begins`, `Moves`, `Ends` and `OthersSee` are
  what they share. `CountsCover` and `LimitIsKept` have an invariant of their own,
  `CountInv`: the number a request has found, the one it loaded, and the one a write that
  nobody waits for will write were each right when they were taken, and only
  another request that counts the same host's listings could make them too low (`Knows`, `DueEnough`);
  two such requests are marked `hurried` (`CountsMet`, `DueAlone`). A listing is
  gained in two actions only (`Gains`); deletions need no count, for they leave
  every number too high.
* **CardsProofs**: `TypeCorrect`, `RowsHaveLogins`, `EmailsStayTheSame`,
  `OwnersStay`, `CustomerKept`, `NoCardTwice` and `CardsStayReal`: every property
  of the run Cards. `AccountInv` (the module begins with the lemma of each
  action of Accounts) says of a request what the one of Listings does: what it
  has read of its users still holds (`Sees`) unless they are marked `overlapped`, and
  two requests about one user are marked (`Met`). `CardInv` adds what a request
  knows of the customer and the cards (`SeesCards`, `Works`), that nobody else
  knows a card that has no row yet (`Apart`), and `Lineage`: a customer is in
  rows, in cards and in requests, and wherever it is for two users, both have
  been renamed. For `OwnersStay` there is `BookingsKnow`: the host of a
  booking, stored or about to be, is the host of its listing still, or is marked
  `moved` or `overlapped`; without it nothing would tie the hosts of bookings to
  what deleteUser asks for. Without `Lineage` a row that changes its id could bring a customer
  back to a user whose cards are of another.

TLC alone checks: liveness (StartedIsResolved, DeliveredUnlessFailed, KeepsUp), which
TLAPS does not do under fairness. Every invariant and every action property that a
passing run checks has a theorem.

## 5. Findings

* `DoubleCharge`: approving a USD booking a second time charges it a second
  time. chargeBooking refuses a booking that is past the approval, but
  approveUsdBooking writes the status `host_approved` first, so the check never
  fails. The id of the first charge is lost.
* `CryptoCancel`: a guest who cancels a BEE or ETH booking before the approval
  loses a tenth or all of the credit, because setCancelBy changes the status
  that the refund is computed from.
* `CreditMinted`: credit is debited at the confirmation but given back at any
  cancellation, so cancelling a booking that is still `started` creates credit.

Three more have no run of their own; the first two are the exceptions that a property names:

* A rejection saves the status, then sends a mail, then returns the credit. When
  the mail fails the booking is closed and keeps the credit
  (ClosedBookingHoldsNoCredit: `unsent`); a BEE or ETH booking cannot be rejected a
  second time. bookings.test.js:1034 says 'POST /v2/bookings/reject as host will
  refund credit applied if credit was used'.
* deleteUser (`services/user/user.js:203`: 'This user is associated with at least one
  booking, cannot delete user.') asks for bookings by guest only. A host whose
  booked listing an administrator has given away can be deleted, and the bookings
  name somebody who is not there (OwnersExist: `moved`).
* Two bookings of one guest have the same credit deducted. The first confirmation
  debits it; the second finds no balance, debits nothing (`credit.js:59`), and the
  booking keeps its discount.

Besides these, the models show what two requests at once can do and no property
promises otherwise: two confirmations debit twice, two cancellations credit
twice, a save of an old instance erases the charge id, and a confirmation that overlaps
an approval leaves a charged booking guest_confirmed, from which the guest cancels
"for free" without getting the charge back (ChargedIsApproved names it). That is why the
properties on credit and on the charge id are stated for serial requests, and why
the properties of BookingRace are the ones that survive races. In Availability, two
bookings of the same nights can both be confirmed, by the guestConfirmBooking mutation
one after the other, and by POST /confirm when the two requests overlap; the
property says that there is no third way but a handler that asks nothing.

In Accounts, Cards and Listings it is the excuses of the properties that say
what goes wrong: a token that outlives its account makes its row again, and its
email cannot be used by anybody else; adminCreateHost overwrites ids that
listings, bookings and balances still refer to; deleting a user leaves the
credit balance behind; two cards added at once make two customers, and the
cards of the first can no longer be updated; a removal that stops after Stripe
has answered leaves a row that can never be removed; a listing can be deleted
under a booking that is being made, or be published incomplete, when two
requests about it overlap; listing_count may stay wrong after a move, for the
saves are not waited for; and a booking in BTC is compared with prices in BEE.

## 6. Not modelled

* The export of a listing's own calendar changes nothing. It leaves out bookings
  that are host_approved or completed, so other sites see their nights as free.
* Listings of Rentivo and Agoda, search, conferences, feedback, reports: reads and
  inserts of single rows. Mail, analytics, images, deployment hooks: output.
* The comparison of an event with its booking (`events/verify.js`) only sends mail.
* The lambda CryptoTransactionVerification posts to two endpoints that call
  BookingService methods which do not exist; the rejection is not caught and no
  booking changes. BTC bookings can be confirmed and approved but neither
  cancelled nor rejected (both switches throw), so BookingFlow has no such step.
* The lambda UpdateListingPrices writes one row at a time from other sites'
  answers. Prices takes the rates as an input; a rate that is missing makes
  pricing.compute throw for every currency, which refuses the request.
* refreshVerificationStatus sets completedVerification, which in Listings is a
  constant of the user; contactUser, searches and queries change nothing.
* What removing a link leaves in `reservations` is in CalendarSync, where no
  property speaks of it: no comment or test says what should become of it.
* Liveness of Cards and Listings: nothing there is scheduled.

## 7. What could follow

A race of crypto requests with contract events in BookingFlow (two bookings of
two currencies), and the composition of Listings with Availability, so that a
booking has both its listing and its nights.
