\* One booking, requests one after the other.
SPECIFICATION Spec
CONSTANTS
  b1 = b1
  b2 = b2
  guest = guest
  Bookings <- OneBooking
  Guests <- Guest
  GuestOf <- AllOfGuest
  Price <- Prices
  Openings <- NoneOrSome
  Requests = {r1}
  Chosen = {"USD", "BEE", "BTC"}
  Emitted = {"Invoice", "Payout", "Cancel", "Refund", "Dispute"}
  MaxCharges = 2
  MaxCredited = 100
  Calls <- AllCalls
INVARIANTS
  TypeOK
  ChargeKept
  FreeCancellationIsFree
  ClosedBookingHoldsNoCredit
  CreditMovesOnce
  HostCancellationRefunds
  ChargedCanBeSaved
