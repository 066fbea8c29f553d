\* One booking, two requests about it at once, and the server may stop between
\* any two steps of a request.
SPECIFICATION Spec
CONSTANTS
  b1 = b1
  b2 = b2
  guest = guest
  Bookings <- OneBooking
  Guests <- Guest
  GuestOf <- AllOfGuest
  Price <- Prices
  Openings <- NoneOrSome
  Requests = {r1, r2}
  Chosen = {"USD"}
  Emitted = {}
  MaxCharges = 1
  MaxCredited = 0
  Calls = {"createBooking", "createBookingWithQuotes", "guestSelectPayment",
    "guestConfirmBooking", "guestRejectPayment", "approveBooking", "payoutBooking",
    "hostCancel", "guestCancel", "rejectBooking", "crash"}
SYMMETRY Slots
INVARIANTS
  NeverOverdrawn
  PaidMeansCharged
  ChargedIsApproved
PROPERTIES
  NeverRestarted
