---------------------------- MODULE BookingRules ----------------------------
(***************************************************************************)
(* The rules of a booking that are pure functions of its row: the status   *)
(* vocabulary, which statuses free the dates, what a cancellation costs    *)
(* and which status a payments-contract event writes.                      *)
(*                                                                         *)
(* Amounts are natural numbers in a unit in which the percentages of the   *)
(* code (0.1 and 0.9) are exact, e.g. hundredths of what is charged.       *)
(***************************************************************************)
EXTENDS Integers

\* The statuses the model accepts in the column (Booking.js, isIn).
Statuses ==
  { "started", "expired_before_guest_confirmed", "guest_confirmed",
    "guest_cancel_initiated", "guest_cancelled", "guest_rejected",
    "guest_rejected_payment", "host_rejected", "host_approved",
    "host_cancelled", "expired_before_host_approved", "init_pay_submitted",
    "payment_failed", "guest_paid", "host_paid", "dispute_initiated",
    "disputed", "refund_initiated", "refunded", "completed" }

Crypto == {"BEE", "ETH"}
Currencies == Crypto \cup {"USD", "BTC"}

(***************************************************************************)
(* What a cancellation costs.  `late' is TRUE from seven days before the   *)
(* check-in date on.                                                       *)
(***************************************************************************)
\* Mutant: free of charge until the host was paid out.
CancelStatusUntilPaid(status, late) ==
  IF status \in {"started", "guest_confirmed", "host_approved", "host_paid"}
  THEN "without_penalty" ELSE IF late THEN "after_deadline" ELSE "before_deadline"

CancelStatus(status, late) ==
  CASE status \in {"started", "guest_confirmed"} -> "without_penalty"
    [] status \notin {"started", "guest_confirmed"} /\ ~late -> "before_deadline"
    [] OTHER -> "after_deadline"

NineTenths(amount) == (9 * amount) \div 10

\* What Stripe gives back when the guest cancels: nothing was charged before
\* the approval, nothing is given back after the deadline.  (pricing.compute
\* sets the transaction fee, which the code leaves out, to 0.)
CancelRefundForGuest(status, late, total) ==
  IF CancelStatus(status, late) = "before_deadline" THEN NineTenths(total) ELSE 0

\* Mutant: the guest's penalty is kept when the host cancels.
CancelRefundForHostAsGuest(status, total) == NineTenths(total)

\* What Stripe gives back when the host cancels.
CancelRefundForHost(status, total) ==
  IF status = "guest_confirmed" THEN 0 ELSE total

\* The credit the guest gets back when the guest cancels.
CreditRefundForGuest(status, late, credit) ==
  CASE CancelStatus(status, late) = "without_penalty" -> credit
    [] CancelStatus(status, late) = "before_deadline" -> NineTenths(credit)
    [] OTHER -> 0

\* The statuses from which stripe.chargeBooking agrees to charge.
AllowedChargeStates == {"started", "guest_confirmed", "host_approved", "payment_failed"}

\* The status each payments-contract event leaves the booking in.
ContractEvents == {"Invoice", "Payout", "Cancel", "Refund", "Dispute"}

\* Mutant: a status the model does not know.
EventTargetUnknown ==
  [ Invoice |-> "guest_paid", Payout |-> "payout_completed", Cancel |-> "guest_cancelled",
    Refund |-> "refunded", Dispute |-> "disputed" ]

EventTarget ==
  [ Invoice |-> "guest_paid", Payout |-> "completed", Cancel |-> "guest_cancelled",
    Refund |-> "refunded", Dispute |-> "disputed" ]
=============================================================================
