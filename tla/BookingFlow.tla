----------------------------- MODULE BookingFlow -----------------------------
(***************************************************************************)
(* The life of a booking as the handlers of BookingService run it.         *)
(*                                                                         *)
(* A booking is one database row: a status column and one JSON column,     *)
(* meta.  A request loads the row into an instance, works on the instance  *)
(* and writes back only the columns it changed; every write of meta writes *)
(* all of it, as the request last saw it.  A request is a process here:    *)
(* req[r].pc is the await it is suspended at, req[r].inst its instance.    *)
(* One action is the code between two awaits that reach the database or    *)
(* Stripe, so requests interleave exactly at those awaits; with one        *)
(* element in Requests the handlers run one after the other.               *)
(*                                                                         *)
(* What Promise.all starts at once is req[r].todo, a set of parts finished *)
(* in any order; the request goes on at pc when it is empty.  When a part  *)
(* rejects, the request has answered its error (pc becomes "idle") and the *)
(* parts still in todo run to their end behind it.                         *)
(*                                                                         *)
(* The credit account is an amount per guest that a credit or a debit      *)
(* changes in one step; module CreditAccount has its own steps.  Listings, *)
(* dates and authorisation are not modelled here: a request they refuse    *)
(* changes nothing.                                                        *)
(***************************************************************************)
EXTENDS BookingRules, Sequences

CONSTANTS
  Bookings,        \* booking ids
  Guests,
  GuestOf,         \* the guest of each booking
  Price,           \* what each booking costs before credit
  Openings,        \* the credit the guests may start with
  Requests,        \* request slots: at most so many requests run at once
  Chosen,          \* the currencies guests choose
  Emitted,         \* the contract events that are emitted
  Calls,           \* bound: what is called, and what happens, in a run
  MaxCharges,      \* bound: Stripe charges per booking
  MaxCredited      \* bound: once a booking was credited more, no request that may
                   \* credit it again begins

ASSUME BookingAssumption ==
  /\ Bookings # {}
  /\ GuestOf \in [Bookings -> Guests]
  /\ Price \in [Bookings -> Nat]
  /\ Openings \subseteq [Guests -> Nat]
  /\ Chosen \subseteq Currencies
  /\ Emitted \subseteq ContractEvents
  /\ MaxCharges \in Nat
  /\ MaxCredited \in Nat

\* Everything but a crash.
AllCalls ==
  { "createBooking", "createBookingWithQuotes", "guestSelectPayment",
    "guestConfirmBooking", "guestRejectPayment", "approveBooking", "payoutBooking",
    "hostCancel", "guestCancel", "rejectBooking", "expire", "event",
    "deadline", "age", "removeCard", "noticeFails" }

VARIABLES
  row,       \* bookings table: status and meta of each booking
  balance,   \* credit balance of each guest, in USD
  charges,   \* at Stripe: the charges of each booking, in order
  onchain,   \* events the payments contract has emitted for each booking
  late,      \* is the check-in less than seven days away
  aged,      \* is the booking a week old, or its check-in date past
  order,     \* the bookings in the order of their createdAt
  cardGone,  \* has the guest removed the payment source of the booking
  req,       \* the requests
  \* History, which no handler reads:
  applied,      \* credit deducted from the price when the booking was created
  debited,      \* credit taken from the guest for the booking, in all
  credited,     \* credit given to the guest for the booking, in all
  paidOut,      \* has an administrator recorded a payout by hand
  reconfirmed, \* has a confirmation overwritten the status of another request
  unsent       \* has the last rejection stopped because its mail failed

world == <<onchain, late, aged, order, cardGone>>
history == <<applied, debited, credited, paidOut, reconfirmed, unsent>>
vars == <<row, balance, charges, world, req, history>>

-----------------------------------------------------------------------------
(* The row.  Undefined stands for a JSON property that is absent.           *)

Undefined == -1

Meta ==
  [ currency : Currencies \cup {"none"},
    total    : Nat,                   \* guestTotalAmount
    credit   : Nat \cup {Undefined},  \* creditAmountUsdApplied
    quote    : Nat \cup {Undefined},  \* credit deducted in the priceQuotes
    card     : BOOLEAN,               \* is there a paymentSourceId
    charge   : Nat,                   \* stripeChargeId, 0 when there is none
    refund   : Nat,                   \* stripeRefundAmount
    bad      : BOOLEAN ]              \* does it fail META_JSON_SCHEMA when saved

Row == [status : Statuses \cup {"none"}, meta : Meta]

NoRow ==
  [ status |-> "none",
    meta |-> [ currency |-> "none", total |-> 0, credit |-> Undefined,
               quote |-> Undefined, card |-> FALSE, charge |-> 0,
               refund |-> 0, bad |-> FALSE ] ]

Exists(b) == row[b].status # "none"

Smaller(m, n) == IF m < n THEN m ELSE n

-----------------------------------------------------------------------------
(* The requests.                                                            *)

Parts == {"save", "meta", "money"}

\* Suspended before a write of the status column after which nothing follows.
LastWrite ==
  [ approve_status         |-> "host_approved",
    refund_initiated       |-> "refund_initiated",
    guest_cancel_initiated |-> "guest_cancel_initiated",
    reject_payment         |-> "guest_rejected_payment",
    payout                 |-> "host_paid",
    expire                 |-> "expired_before_guest_confirmed" ] 

Labels ==
  { "idle", "confirm_status", "confirm_details", "select_address", "select_save",
    "approve_by", "approve_usd", "charge", "charge_status", "charge_id",
    "host_refund", "host_refund_id", "host_cancel",
    "guest_refund", "guest_refund_id", "guest_cancel", "reject_save", "reject_credit" }
  \cup DOMAIN LastWrite \cup ContractEvents

Request ==
  [ pc   : Labels,
    b    : Bookings,
    inst : Row,
    todo : SUBSET Parts,
    put  : Nat \cup {Undefined},  \* the credit the "meta" part writes
    amt  : Int,                   \* what the "money" part adds to the balance
    dirty : BOOLEAN,              \* is the status still to be written by "meta"
    free : BOOLEAN,               \* guest cancels: was it without penalty
    pick : [currency : Currencies \cup {"none"}, card : BOOLEAN] ]

Idle ==
  [ pc |-> "idle", b |-> CHOOSE b \in Bookings : TRUE, inst |-> NoRow, todo |-> {},
    put |-> 0, amt |-> 0, dirty |-> FALSE, free |-> FALSE,
    pick |-> [currency |-> "none", card |-> FALSE] ]

At(r, label) == req[r].pc = label /\ req[r].todo = {}

\* A handler's first await: the row is loaded into the request, which the code
\* up to the next await leaves suspended at `label'.
Load(r, b, label) ==
  [Idle EXCEPT !.pc = label, !.b = b, !.inst = row[b]]

\* A request that has nothing left to do becomes an idle slot again.
Settle(q) == IF q.pc = "idle" /\ q.todo = {} THEN Idle ELSE q

Become(r, q) == req' = [req EXCEPT ![r] = Settle(q)]
GoTo(r, label) == Become(r, [req[r] EXCEPT !.pc = label])

\* booking.update({status}) and a save after setting the status alone: a
\* status the instance has already is not written.
WriteStatus(r, status) ==
  row' = IF req[r].inst.status = status THEN row
         ELSE [row EXCEPT ![req[r].b].status = status]

\* The rows after `inst' was saved: all of meta, and the status if it differs
\* from the one the instance was loaded or last saved with.
Saved(r, inst) ==
  [row EXCEPT ![req[r].b] =
     [ status |-> IF inst.status # req[r].inst.status THEN inst.status ELSE @.status,
       meta   |-> inst.meta ]]

\* Mutant: every column is written, as a save of a fresh instance would.
SaveAllColumns(r, inst, next) ==
  /\ row' = [row EXCEPT ![req[r].b] = inst]
  /\ Become(r, [req[r] EXCEPT !.pc = next, !.inst = inst])

\* A save of meta (and of the status, when it was set): validateMetaFields
\* refuses a meta that was stored with a null, the row keeps its values and
\* the handler ends with an error.
Save(r, inst, next) ==
  IF inst.meta.bad
  THEN row' = row /\ GoTo(r, "idle")
  ELSE /\ row' = Saved(r, inst)
       /\ Become(r, [req[r] EXCEPT !.pc = next, !.inst = inst])

-----------------------------------------------------------------------------
(* The parts of a Promise.all.                                              *)

\* booking.setCancelBy in the crypto cancellations.
SavePart(r) ==
  /\ "save" \in req[r].todo
  /\ LET q == req[r]
         rest == q.todo \ {"save"}
         inst == [q.inst EXCEPT !.status =
                    IF q.pc = "refund_initiated" THEN "host_cancelled" ELSE "guest_cancelled"]
     IN IF q.inst.meta.bad
        THEN /\ Become(r, [q EXCEPT !.todo = rest, !.pc = "idle", !.inst = inst,
                                    !.dirty = inst.status # q.inst.status])
             /\ UNCHANGED row
        ELSE /\ row' = Saved(r, inst)
             /\ Become(r, [q EXCEPT !.todo = rest, !.inst = inst])
  /\ UNCHANGED <<balance, charges, world, history>>

\* booking.updateCreditAmountAppliedFromUsd(put): the three credit amounts
\* are set after the currency rates were read.  From an undefined amount
\* they become NaN, which JSON stores as null.
MetaPart(r) ==
  /\ "meta" \in req[r].todo
  /\ "save" \notin req[r].todo
  /\ LET q == req[r]
         meta == [q.inst.meta EXCEPT !.credit = q.put, !.bad = (q.put = Undefined)]
     IN /\ row' = [row EXCEPT ![q.b] =
             [status |-> IF q.dirty THEN q.inst.status ELSE @.status, meta |-> meta]]
        /\ Become(r, [q EXCEPT !.todo = @ \ {"meta"}, !.inst.meta = meta])
  /\ UNCHANGED <<balance, charges, world, history>>

\* Mutant: the debit does not look at the balance.
MoneyPartUnchecked(r) ==
  /\ "money" \in req[r].todo
  /\ LET q == req[r]
     IN /\ balance' = [balance EXCEPT ![GuestOf[q.b]] = @ + q.amt]
        /\ debited' = [debited EXCEPT ![q.b] = @ + IF q.amt < 0 THEN -q.amt ELSE 0]
        /\ credited' = [credited EXCEPT ![q.b] = @ + IF q.amt > 0 THEN q.amt ELSE 0]
        /\ Become(r, [q EXCEPT !.todo = @ \ {"money"}])
  /\ UNCHANGED <<row, charges, world, applied, paidOut, reconfirmed, unsent>>

\* CreditService.debitFromBalance or creditToBalance: a debit that exceeds
\* the balance rejects.
MoneyPart(r) ==
  /\ "money" \in req[r].todo
  /\ LET q == req[r]
         g == GuestOf[q.b]
         rest == q.todo \ {"money"}
     IN IF balance[g] + q.amt < 0
        THEN /\ Become(r, [q EXCEPT !.todo = rest, !.pc = "idle"])
             /\ UNCHANGED <<balance, debited, credited>>
        ELSE /\ balance' = [balance EXCEPT ![g] = @ + q.amt]
             /\ debited' = [debited EXCEPT ![q.b] = @ + IF q.amt < 0 THEN -q.amt ELSE 0]
             /\ credited' = [credited EXCEPT ![q.b] = @ + IF q.amt > 0 THEN q.amt ELSE 0]
             /\ Become(r, [q EXCEPT !.todo = rest])
  /\ UNCHANGED <<row, charges, world, applied, paidOut, reconfirmed, unsent>>

\* The last write of a handler that ends by setting the status.
StatusWrite(r) ==
  /\ \E label \in DOMAIN LastWrite :
       At(r, label) /\ WriteStatus(r, LastWrite[label])
  /\ paidOut' = [paidOut EXCEPT ![req[r].b] = @ \/ req[r].pc = "payout"]
  /\ GoTo(r, "idle")
  /\ UNCHANGED <<balance, charges, world, applied, debited, credited, reconfirmed, unsent>>

-----------------------------------------------------------------------------
(* Creating a booking and choosing how to pay for it.                       *)

Discount(b) == Smaller(Price[b], balance[GuestOf[b]])

Insert(b, meta) ==
  /\ ~Exists(b)
  /\ row' = [row EXCEPT ![b] = [status |-> "started", meta |-> meta]]
  /\ order' = Append(order, b)
  /\ UNCHANGED <<balance, charges, onchain, late, aged, cardGone, req,
                 debited, credited, paidOut, reconfirmed, unsent>>

\* POST /v2/bookings: the credit the guest has now is deducted from the
\* price and noted on the booking; it is debited when the guest confirms.
CreateBooking(b, currency) ==
  /\ Insert(b, [NoRow.meta EXCEPT !.currency = currency, !.credit = Discount(b),
                                  !.total = Price[b] - Discount(b)])
  /\ applied' = [applied EXCEPT ![b] = Discount(b)]

\* The createBooking mutation: the credit is deducted in the quotes only.
CreateBookingWithQuotes(b) ==
  /\ Insert(b, [NoRow.meta EXCEPT !.quote = Discount(b)])
  /\ UNCHANGED applied

GuestSelectPayment(r, b, currency, card) ==
  /\ row[b].status = "started"
  /\ row[b].meta.quote # Undefined
  /\ Become(r, [Load(r, b, IF currency = "BTC" THEN "select_address" ELSE "select_save")
                  EXCEPT !.pick = [currency |-> currency, card |-> card]])
  /\ UNCHANGED <<row, balance, charges, world, history>>

\* booking.update({ btcWalletAddress })
SelectAddress(r) ==
  /\ At(r, "select_address")
  /\ Save(r, req[r].inst, "select_save")
  /\ UNCHANGED <<balance, charges, world, history>>

SelectSave(r) ==
  /\ At(r, "select_save")
  /\ LET q == req[r]
         inst == [q.inst EXCEPT
                    !.meta.currency = q.pick.currency,
                    !.meta.total = Price[q.b] - q.inst.meta.quote,
                    !.meta.card = q.pick.card /\ q.pick.currency = "USD"]
     IN Save(r, inst, "idle")
  /\ UNCHANGED <<balance, charges, world, history>>

-----------------------------------------------------------------------------
(* The guest confirms.                                                      *)

\* guestConfirmBooking up to CreditService.confirm: with no balance left the
\* booking goes through as it is, with less than was applied it is refused,
\* and with no credit applied the debit of no amount rejects.
GuestConfirm(r, b) ==
  /\ row[b].status = "started"
  /\ LET have == balance[GuestOf[b]]
         credit == row[b].meta.credit
         q == Load(r, b, "confirm_status")
     IN \/ have = 0 /\ Become(r, q)
        \/ /\ have > 0 /\ credit > 0 /\ have >= credit
           /\ Become(r, [q EXCEPT !.todo = {"meta", "money"}, !.put = credit, !.amt = -credit])
        \/ /\ have > 0 /\ credit <= 0
           /\ Become(r, [q EXCEPT !.pc = "idle", !.todo = {"meta"}, !.put = credit])
  /\ UNCHANGED <<row, balance, charges, world, history>>

ConfirmStatus(r) ==
  /\ At(r, "confirm_status")
  /\ WriteStatus(r, "guest_confirmed")
  /\ LET goesOn == req[r].inst.meta.currency \in Crypto \cup {"USD"}
     IN Become(r, [req[r] EXCEPT !.inst.status = "guest_confirmed",
                                 !.pc = IF goesOn THEN "confirm_details" ELSE "idle"])
  /\ reconfirmed' = [reconfirmed EXCEPT ![req[r].b] = @ \/ row[req[r].b].status # "started"]
  /\ UNCHANGED <<balance, charges, world, applied, debited, credited, paidOut, unsent>>

\* updateCryptoSource, for which the host must have a wallet, or
\* updatePaymentSource.
ConfirmDetails(r) ==
  /\ At(r, "confirm_details")
  /\ \/ Save(r, req[r].inst, "idle")
     \/ req[r].inst.meta.currency \in Crypto /\ GoTo(r, "idle") /\ UNCHANGED row
  /\ UNCHANGED <<balance, charges, world, history>>

GuestRejectPayment(r, b) ==
  /\ Exists(b)
  /\ Become(r, Load(r, b, "reject_payment"))
  /\ UNCHANGED <<row, balance, charges, world, history>>

-----------------------------------------------------------------------------
(* The host approves, and a USD booking is charged.                         *)

ApproveBooking(r, b) ==
  /\ Exists(b)
  /\ Become(r, Load(r, b, "approve_by"))
  /\ UNCHANGED <<row, balance, charges, world, history>>

\* Mutant: the approval does not note who approved.
ApproveByUnsaved(r) ==
  /\ At(r, "approve_by")
  /\ LET currency == req[r].inst.meta.currency
     IN GoTo(r, CASE currency \in Crypto \cup {"BTC"} -> "approve_status"
                  [] currency = "USD" -> "approve_usd"
                  [] OTHER -> "idle")
  /\ UNCHANGED <<row, balance, charges, world, history>>

\* booking.update({ approvedBy })
ApproveBy(r) ==
  /\ At(r, "approve_by")
  /\ LET currency == req[r].inst.meta.currency
     IN Save(r, req[r].inst,
             CASE currency \in Crypto \cup {"BTC"} -> "approve_status"
               [] currency = "USD" -> "approve_usd"
               [] OTHER -> "idle")
  /\ UNCHANGED <<balance, charges, world, history>>

\* Mutant: the approval is saved only with the charge.
ApproveUsdUnsaved(r) ==
  /\ At(r, "approve_usd")
  /\ req[r].inst.meta.card /\ ~cardGone[req[r].b]
  /\ Become(r, [req[r] EXCEPT !.inst.status = "host_approved", !.pc = "charge"])
  /\ UNCHANGED <<row, balance, charges, world, history>>

\* The payment source must still exist; the guest, the host and the provider
\* of the source are checked too, and any of these checks may fail.
ApproveUsd(r) ==
  /\ At(r, "approve_usd")
  /\ \/ GoTo(r, "idle") /\ UNCHANGED row
     \/ /\ req[r].inst.meta.card /\ ~cardGone[req[r].b]
        /\ WriteStatus(r, "host_approved")
        /\ Become(r, [req[r] EXCEPT !.inst.status = "host_approved", !.pc = "charge"])
  /\ UNCHANGED <<balance, charges, world, history>>

\* Mutant: the status is written before Stripe, which may decline, is asked.
ChargeBookingPaidFirst(r) ==
  /\ At(r, "charge")
  /\ WriteStatus(r, "host_paid")
  /\ GoTo(r, "idle")
  /\ UNCHANGED <<charges, balance, world, history>>

\* stripe.chargeBooking up to the answer of stripe.charges.create, which
\* Stripe may decline.
ChargeBooking(r) ==
  /\ At(r, "charge")
  /\ LET q == req[r]
         allowed == q.inst.status \in AllowedChargeStates
         total == q.inst.meta.total
     IN \/ /\ ~allowed \/ total > 0
           /\ GoTo(r, "idle")
           /\ UNCHANGED <<row, charges>>
        \/ /\ allowed /\ total = 0
           /\ WriteStatus(r, "host_paid")
           /\ GoTo(r, "idle")
           /\ UNCHANGED charges
        \/ /\ allowed /\ total > 0
           /\ Len(charges[q.b]) < MaxCharges
           /\ charges' = [charges EXCEPT ![q.b] = Append(@, [amount |-> total, refunded |-> 0])]
           /\ Become(r, [q EXCEPT !.pc = "charge_status",
                                  !.inst.meta.charge = Len(charges[q.b]) + 1])
           /\ UNCHANGED row
  /\ UNCHANGED <<balance, world, history>>

ChargeStatus(r) ==
  /\ At(r, "charge_status")
  /\ WriteStatus(r, "host_paid")
  /\ Become(r, [req[r] EXCEPT !.inst.status = "host_paid", !.pc = "charge_id"])
  /\ UNCHANGED <<balance, charges, world, history>>

\* Mutant: chargeBooking returns without updateStripeCharge.
ChargeIdDropped(r) ==
  /\ At(r, "charge_id")
  /\ GoTo(r, "idle")
  /\ UNCHANGED <<row, balance, charges, world, history>>

\* booking.updateStripeCharge(charge)
ChargeId(r) ==
  /\ At(r, "charge_id")
  /\ Save(r, req[r].inst, "idle")
  /\ UNCHANGED <<balance, charges, world, history>>

PayoutBooking(r, b) ==
  /\ Exists(b)
  /\ Become(r, Load(r, b, "payout"))
  /\ UNCHANGED <<row, balance, charges, world, history>>

-----------------------------------------------------------------------------
(* Cancelling.  CreditService.refundFull and refundGuestCancel clear the    *)
(* credit on the booking and credit the guest at the same time.             *)

HasCard(b) == row[b].meta.card /\ ~cardGone[b]

\* Mutant: refundFull leaves the credit on the booking.
HostCancelKeepsCredit(r, b) ==
  /\ row[b].meta.currency = "USD"
  /\ Become(r, [Load(r, b, "host_cancel") EXCEPT
       !.todo = IF row[b].meta.credit > 0 THEN {"money"} ELSE {},
       !.amt = IF row[b].meta.credit > 0 THEN row[b].meta.credit ELSE 0])
  /\ UNCHANGED <<row, balance, charges, world, history>>

\* cancelBooking by the host or an administrator.
HostCancel(r, b) ==
  /\ LET q == [Load(r, b, "idle") EXCEPT
                 !.todo = IF row[b].meta.credit > 0 THEN {"meta", "money"} ELSE {},
                 !.amt = IF row[b].meta.credit > 0 THEN row[b].meta.credit ELSE 0]
     IN \/ /\ row[b].meta.currency \in Crypto
           /\ Become(r, [q EXCEPT !.pc = "refund_initiated", !.todo = @ \cup {"save"}])
        \/ /\ row[b].meta.currency = "USD"
           /\ Become(r, [q EXCEPT !.pc = IF HasCard(b) THEN "host_refund" ELSE "host_cancel"])
  /\ UNCHANGED <<row, balance, charges, world, history>>

\* guestCancelBooking.  In guestCancelCryptoBooking setCancelBy has set the
\* status of the instance before refundGuestCancel looks at it.
GuestCancel(r, b) ==
  /\ LET crypto == row[b].meta.currency \in Crypto
         status == IF crypto THEN "guest_cancelled" ELSE row[b].status
         amount == CreditRefundForGuest(status, late[b],
                     IF row[b].meta.credit > 0 THEN row[b].meta.credit ELSE 0)
         q == [Load(r, b, "idle") EXCEPT
                 !.todo = IF amount > 0 THEN {"meta", "money"} ELSE {"meta"},
                 !.amt = amount,
                 !.free = CancelStatus(row[b].status, late[b]) = "without_penalty"]
     IN \/ /\ crypto
           /\ Become(r, [q EXCEPT !.pc = "guest_cancel_initiated",
                                  !.todo = @ \cup {"save"}])
        \/ /\ row[b].meta.currency = "USD"
           /\ Become(r, [q EXCEPT !.pc = IF HasCard(b) /\ row[b].meta.charge # 0
                                         THEN "guest_refund" ELSE "guest_cancel"])
  /\ UNCHANGED <<row, balance, charges, world, history>>

\* stripe.refundBookingCancellation: Stripe refuses to give back more than
\* what is left of the charge, and may fail for reasons of its own.
StripeRefund(r, amount, noted, next) ==
  LET q == req[r]
      id == q.inst.meta.charge
  IN \/ amount = 0 /\ GoTo(r, next) /\ UNCHANGED charges
     \/ amount > 0 /\ GoTo(r, "idle") /\ UNCHANGED charges
     \/ /\ amount > 0
        /\ id \in DOMAIN charges[q.b]
        /\ charges[q.b][id].refunded + amount <= charges[q.b][id].amount
        /\ charges' = [charges EXCEPT ![q.b][id].refunded = @ + amount]
        /\ Become(r, [q EXCEPT !.pc = noted, !.inst.meta.refund = amount])

HostRefund(r) ==
  /\ At(r, "host_refund")
  /\ LET inst == req[r].inst
     IN StripeRefund(r, CancelRefundForHost(inst.status, inst.meta.total),
                     "host_refund_id", "host_cancel")
  /\ UNCHANGED <<row, balance, world, history>>

GuestRefund(r) ==
  /\ At(r, "guest_refund")
  /\ LET inst == req[r].inst
     IN StripeRefund(r, CancelRefundForGuest(inst.status, late[req[r].b], inst.meta.total),
                     "guest_refund_id", "guest_cancel")
  /\ UNCHANGED <<row, balance, world, history>>

\* booking.updateStripeRefund(refund)
RefundId(r) ==
  /\ \/ At(r, "host_refund_id") /\ Save(r, req[r].inst, "host_cancel")
     \/ At(r, "guest_refund_id") /\ Save(r, req[r].inst, "guest_cancel")
  /\ UNCHANGED <<balance, charges, world, history>>

HostCancelSave(r) ==
  /\ At(r, "host_cancel")
  /\ Save(r, [req[r].inst EXCEPT !.status = "host_cancelled"], "idle")
  /\ UNCHANGED <<balance, charges, world, history>>

GuestCancelSave(r) ==
  /\ At(r, "guest_cancel")
  /\ LET status == IF req[r].free THEN "guest_rejected" ELSE "guest_cancelled"
     IN Save(r, [req[r].inst EXCEPT !.status = status], "idle")
  /\ UNCHANGED <<balance, charges, world, history>>

\* BookingAggregator.rejectBooking: only a crypto booking must be waiting
\* for the host's answer.
RejectBooking(r, b) ==
  /\ \/ row[b].meta.currency \in Crypto
        /\ row[b].status \in {"guest_confirmed", "init_pay_submitted"}
     \/ row[b].meta.currency = "USD"
  /\ Become(r, Load(r, b, "reject_save"))
  /\ UNCHANGED <<row, balance, charges, world, history>>

\* hostReject: the guest is looked up beside this save, and the mail about the
\* rejection is sent before the credit is returned.
RejectSave(r) ==
  /\ At(r, "reject_save")
  /\ Save(r, [req[r].inst EXCEPT !.status = "host_rejected"], "reject_credit")
  /\ UNCHANGED <<balance, charges, world, history>>

\* Mutant: the credit is given back and stays on the booking.
RejectCreditKept(r) ==
  /\ At(r, "reject_credit")
  /\ LET credit == req[r].inst.meta.credit
     IN Become(r, [req[r] EXCEPT !.pc = "idle", !.todo = {"money"},
                                 !.amt = IF credit > 0 THEN credit ELSE 0])
  /\ unsent' = [unsent EXCEPT ![req[r].b] = FALSE]
  /\ UNCHANGED <<row, balance, charges, world, applied, debited, credited, paidOut, reconfirmed>>

\* The mail was sent: CreditService.reject, when credit was applied.
RejectCredit(r) ==
  /\ At(r, "reject_credit")
  /\ LET credit == req[r].inst.meta.credit
     IN Become(r, [req[r] EXCEPT !.pc = "idle",
                                 !.todo = IF credit > 0 THEN {"meta", "money"} ELSE {},
                                 !.amt = IF credit > 0 THEN credit ELSE 0])
  /\ unsent' = [unsent EXCEPT ![req[r].b] = FALSE]
  /\ UNCHANGED <<row, balance, charges, world, applied, debited, credited, paidOut, reconfirmed>>

\* A mail that a handler sends between two writes, or the lookup of a user for
\* it, fails, and the handler ends: in hostReject before the credit, in the
\* crypto cancellations (where it is a part of the Promise.all) before the last
\* status.
NoticeFails(r) ==
  /\ "noticeFails" \in Calls
  /\ \E label \in {"reject_credit", "refund_initiated", "guest_cancel_initiated"} : At(r, label)
  /\ GoTo(r, "idle")
  /\ unsent' = [unsent EXCEPT ![req[r].b] = @ \/ req[r].pc = "reject_credit"]
  /\ UNCHANGED <<row, balance, charges, world, applied, debited, credited, paidOut, reconfirmed>>

-----------------------------------------------------------------------------
(* What the lambdas call.                                                   *)

\* Mutant: the newest started booking of a guest is never old enough.
ExpiredWhenSuperseded(b) ==
  \E i, j \in DOMAIN order :
    i < j /\ order[i] = b /\ GuestOf[order[j]] = GuestOf[b]
          /\ row[order[j]].status = "started" /\ ~aged[order[j]]

\* Booking.findExpired: of the started bookings of a guest that are neither a
\* week old nor past their check-in date, the newest one is kept.
Expired(b) ==
  \/ aged[b]
  \/ \E i, j \in DOMAIN order :
       i < j /\ order[i] = b /\ GuestOf[order[j]] = GuestOf[b]
             /\ row[order[j]].status = "started" /\ ~aged[order[j]]

ExpireBooking(r, b) ==
  /\ row[b].status = "started"
  /\ Expired(b)
  /\ Become(r, Load(r, b, "expire"))
  /\ UNCHANGED <<row, balance, charges, world, history>>

\* advance() of an event that was emitted: the status of the booking is
\* loaded, compared with the expected one for a report, and overwritten.
ReportEvent(r, b, event) ==
  /\ event \in onchain[b]
  /\ Become(r, Load(r, b, event))
  /\ UNCHANGED <<row, balance, charges, world, history>>

AdvanceStatus(r) ==
  /\ \E event \in ContractEvents :
       At(r, event) /\ WriteStatus(r, EventTarget[event])
  /\ GoTo(r, "idle")
  /\ UNCHANGED <<balance, charges, world, history>>

-----------------------------------------------------------------------------
(* The environment.                                                         *)

\* The contract is invoiced for an approved crypto booking; every other
\* event concerns an invoice.
Emit(b, event) ==
  /\ row[b].meta.currency \in Crypto
  /\ IF event = "Invoice" THEN row[b].status = "host_approved"
                          ELSE "Invoice" \in onchain[b]
  /\ event \notin onchain[b]
  /\ onchain' = [onchain EXCEPT ![b] = @ \cup {event}]
  /\ UNCHANGED <<row, balance, charges, late, aged, order, cardGone, req, history>>

DeadlinePasses(b) ==
  /\ ~late[b]
  /\ late' = [late EXCEPT ![b] = TRUE]
  /\ UNCHANGED <<row, balance, charges, onchain, aged, order, cardGone, req, history>>

BookingAges(b) ==
  /\ Exists(b) /\ ~aged[b]
  /\ aged' = [aged EXCEPT ![b] = TRUE]
  /\ UNCHANGED <<row, balance, charges, onchain, late, order, cardGone, req, history>>

RemoveCard(b) ==
  /\ row[b].meta.card /\ ~cardGone[b]
  /\ cardGone' = [cardGone EXCEPT ![b] = TRUE]
  /\ UNCHANGED <<row, balance, charges, onchain, late, aged, order, req, history>>

\* The server process stops and the request is lost where it stands.
Crash(r) ==
  /\ "crash" \in Calls
  /\ req[r] # Idle
  /\ req' = [req EXCEPT ![r] = Idle]
  /\ UNCHANGED <<row, balance, charges, world, history>>

-----------------------------------------------------------------------------
Init ==
  /\ row = [b \in Bookings |-> NoRow]
  /\ balance \in Openings
  /\ charges = [b \in Bookings |-> << >>]
  /\ onchain = [b \in Bookings |-> {}]
  /\ late = [b \in Bookings |-> FALSE]
  /\ aged = [b \in Bookings |-> FALSE]
  /\ order = << >>
  /\ cardGone = [b \in Bookings |-> FALSE]
  /\ req = [r \in Requests |-> Idle]
  /\ applied = [b \in Bookings |-> 0]
  /\ debited = [b \in Bookings |-> 0]
  /\ credited = [b \in Bookings |-> 0]
  /\ paidOut = [b \in Bookings |-> FALSE]
  /\ reconfirmed = [b \in Bookings |-> FALSE]
  /\ unsent = [b \in Bookings |-> FALSE]

MayCredit(b) == credited[b] <= MaxCredited

\* The first step of a handler, taken by an idle slot.
Begin(r, b) ==
  /\ req[r] = Idle
  /\ \/ /\ "guestSelectPayment" \in Calls
        /\ \E currency \in Chosen, card \in BOOLEAN : GuestSelectPayment(r, b, currency, card)
     \/ "guestConfirmBooking" \in Calls /\ GuestConfirm(r, b)
     \/ "guestRejectPayment" \in Calls /\ GuestRejectPayment(r, b)
     \/ "approveBooking" \in Calls /\ ApproveBooking(r, b)
     \/ "payoutBooking" \in Calls /\ PayoutBooking(r, b)
     \/ "hostCancel" \in Calls /\ MayCredit(b) /\ HostCancel(r, b)
     \/ "guestCancel" \in Calls /\ MayCredit(b) /\ GuestCancel(r, b)
     \/ "rejectBooking" \in Calls /\ MayCredit(b) /\ RejectBooking(r, b)
     \/ "expire" \in Calls /\ ExpireBooking(r, b)
     \/ "event" \in Calls /\ \E event \in Emitted : ReportEvent(r, b, event)

\* Every later step of a handler.
Step(r) ==
  \/ SavePart(r) \/ MetaPart(r) \/ MoneyPart(r) \/ StatusWrite(r)
  \/ SelectAddress(r) \/ SelectSave(r)
  \/ ConfirmStatus(r) \/ ConfirmDetails(r)
  \/ ApproveBy(r) \/ ApproveUsd(r) \/ ChargeBooking(r) \/ ChargeStatus(r) \/ ChargeId(r)
  \/ HostRefund(r) \/ GuestRefund(r) \/ RefundId(r)
  \/ HostCancelSave(r) \/ GuestCancelSave(r)
  \/ RejectSave(r) \/ RejectCredit(r) \/ NoticeFails(r)
  \/ AdvanceStatus(r)

Environment(b) ==
  \/ "createBooking" \in Calls /\ \E currency \in Chosen : CreateBooking(b, currency)
  \/ "createBookingWithQuotes" \in Calls /\ CreateBookingWithQuotes(b)
  \/ "event" \in Calls /\ \E event \in Emitted : Emit(b, event)
  \/ "deadline" \in Calls /\ DeadlinePasses(b)
  \/ "age" \in Calls /\ BookingAges(b)
  \/ "removeCard" \in Calls /\ RemoveCard(b)

Next ==
  \/ \E r \in Requests, b \in Bookings : Begin(r, b)
  \/ \E r \in Requests : Step(r) \/ Crash(r)
  \/ \E b \in Bookings : Environment(b)

Spec == Init /\ [][Next]_vars

\* A handler that is waiting for the database or Stripe is answered; a
\* booking grows old; the BookingExpirations lambda runs every ten minutes,
\* whatever else the server is busy with.
Fairness ==
  /\ \A r \in Requests : WF_vars(Step(r))
  /\ \A b \in Bookings : WF_vars(BookingAges(b))
  /\ \A b \in Bookings : SF_vars(\E r \in Requests : req[r] = Idle /\ ExpireBooking(r, b))

FairSpec == Spec /\ Fairness

-----------------------------------------------------------------------------
(* Properties.                                                              *)

AtRest == \A r \in Requests : req[r] = Idle

\* Every variable has its type.
TypeOK ==
  /\ row \in [Bookings -> Row]
  /\ balance \in [Guests -> Int]
  /\ charges \in [Bookings -> Seq([amount : Nat, refunded : Nat])]
  /\ onchain \in [Bookings -> SUBSET ContractEvents]
  /\ late \in [Bookings -> BOOLEAN]
  /\ aged \in [Bookings -> BOOLEAN]
  /\ order \in Seq(Bookings)
  /\ cardGone \in [Bookings -> BOOLEAN]
  /\ req \in [Requests -> Request]
  /\ applied \in [Bookings -> Nat]
  /\ debited \in [Bookings -> Nat]
  /\ credited \in [Bookings -> Nat]
  /\ paidOut \in [Bookings -> BOOLEAN]
  /\ reconfirmed \in [Bookings -> BOOLEAN]
  /\ unsent \in [Bookings -> BOOLEAN]

\* The guest's credit is never overdrawn.  What confirm checked is the
\* balance as it was before the listing was loaded; another confirmation of
\* the same guest may have taken it since.
NeverOverdrawn == \A g \in Guests : balance[g] >= 0

\* A USD booking counts as paid to the host only when the guest's card was
\* charged, nothing was left to charge, or an administrator said so, however
\* the requests about it interleave.
PaidMeansCharged ==
  \A b \in Bookings :
    row[b].status = "host_paid" /\ row[b].meta.currency = "USD" =>
      charges[b] # << >> \/ row[b].meta.total = 0 \/ paidOut[b]

\* A booking that has left the status started never returns to it, although
\* requests that loaded it earlier save their instance later.
NeverRestarted ==
  [][\A b \in Bookings : Exists(b) /\ row[b].status # "started" => row'[b].status # "started"]_vars

\* With no request running, the booking carries the id of the last charge
\* made for it: refundBookingCancellation has nothing else to find it by.
ChargeKept ==
  AtRest => \A b \in Bookings : row[b].meta.charge = Len(charges[b])

\* A charged booking is past the statuses from which the guest cancels as if
\* nothing had been charged, wherever a handler about it was cut off; unless a
\* confirmation that loaded the booking while it was started has overwritten
\* what another request made of it.
ChargedIsApproved ==
  \A b \in Bookings :
    charges[b] # << >> =>
      row[b].status \notin {"started", "guest_confirmed"} \/ reconfirmed[b]

\* A guest whose cancellation ended as guest_rejected was never charged and
\* has all the credit back.
FreeCancellationIsFree ==
  AtRest => \A b \in Bookings :
    row[b].status = "guest_rejected" => charges[b] = << >> /\ credited[b] = applied[b]

\* A booking the API has closed holds none of the guest's credit any more:
\* what was applied was given back or kept as the penalty.  Only a rejection
\* whose mail failed leaves the credit where it was.
ClosedBookingHoldsNoCredit ==
  AtRest => \A b \in Bookings :
    row[b].status \in {"guest_rejected", "host_rejected", "host_cancelled",
                       "refund_initiated", "guest_cancel_initiated"}
      => row[b].meta.credit <= 0 \/ (row[b].status = "host_rejected" /\ unsent[b])

\* However a booking is confirmed, cancelled, rejected and cancelled again,
\* its credit is taken at most once and given back at most once.
CreditMovesOnce ==
  \A b \in Bookings : debited[b] <= applied[b] /\ credited[b] <= applied[b]

\* A booking whose card was charged passes META_JSON_SCHEMA: with a meta that
\* is stored with a null, no later save could note a refund or a cancellation.
ChargedCanBeSaved ==
  AtRest => \A b \in Bookings : charges[b] # << >> => ~row[b].meta.bad

\* When the host cancels, the card gets back all of the last charge, as long
\* as the guest has kept the card.
HostCancellationRefunds ==
  AtRest => \A b \in Bookings :
    /\ row[b].status = "host_cancelled" /\ row[b].meta.currency = "USD"
    /\ charges[b] # << >> /\ ~cardGone[b]
    => LET last == charges[b][Len(charges[b])] IN last.refunded = last.amount

\* A booking does not stay started for ever: the guest takes it further or
\* the expiration does.
StartedIsResolved ==
  \A b \in Bookings : row[b].status = "started" ~> row[b].status # "started"

\* stripe.chargeBooking refuses a booking that is past the approval, so a
\* guest is not charged twice for a booking.
ChargedAtMostOnce == \A b \in Bookings : Len(charges[b]) <= 1

\* A guest who cancels before the host has approved gets all of the credit
\* back, whatever the booking was to be paid with.
FreeCancellationReturnsCredit ==
  \A r \in Requests :
    req[r].free /\ At(r, "guest_cancel_initiated") => credited[req[r].b] = applied[req[r].b]

\* What a booking gives back to the guest was taken from the guest for it
\* before: confirm is where the credit is debited.
RefundedCreditWasTaken == \A b \in Bookings : credited[b] <= debited[b]
=============================================================================
