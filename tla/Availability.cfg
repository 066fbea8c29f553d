\* Two bookings that overlap, two requests, and the import of one calendar.
SPECIFICATION Spec
CONSTANTS
  b1 = b1
  b2 = b2
  link = link
  Bookings <- TwoBookings
  Stay <- TwoStays
  Quantity = 1
  Requests = {r1, r2}
  Calls = {"createBooking", "createBookingWithQuotes", "postConfirm", "guestConfirmBooking",
    "expire", "guestCancel"}
  StaysOf <- Versions
  Links <- OneLink
  Choices <- NoneOrLink
  Updates = {u1}
  BlockSize = 1
  MaxVersion = 1
  MaxEdits = 1
  MaxFailures = 0
SYMMETRY Slots
INVARIANTS
  TypeOK
  NightsCollideOnlyUnasked
PROPERTIES
  ImportedNightsAreKept
