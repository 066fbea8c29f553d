\* Two bookings that share the guest's credit, requests one after the other.
SPECIFICATION FairSpec
CONSTANTS
  b1 = b1
  b2 = b2
  guest = guest
  Bookings <- TwoBookings
  Guests <- Guest
  GuestOf <- AllOfGuest
  Price <- Prices
  Openings <- NoneOrSome
  Requests = {r1}
  Chosen = {"USD"}
  Emitted = {}
  MaxCharges = 1
  MaxCredited = 100
  Calls = {"createBooking", "createBookingWithQuotes", "guestConfirmBooking",
    "hostCancel", "guestCancel", "rejectBooking", "expire", "age"}
CHECK_DEADLOCK FALSE
PROPERTIES
  StartedIsResolved
