\* The guest cancels a BEE booking that is not approved yet.
SPECIFICATION Spec
CONSTANTS
  b1 = b1
  b2 = b2
  guest = guest
  Bookings <- OneBooking
  Guests <- Guest
  GuestOf <- AllOfGuest
  Price <- Prices
  Openings <- NoneOrSome
  Requests = {r1}
  Chosen = {"BEE"}
  Emitted = {}
  MaxCharges = 2
  MaxCredited = 100
  Calls = {"createBooking", "guestConfirmBooking", "guestCancel"}
INVARIANTS
  FreeCancellationReturnsCredit
