\* A host and an administrator, two requests at once, or one that may stop.
SPECIFICATION Spec
CONSTANTS
  host = host
  admin = admin
  Users = {host, admin}
  NoUser = NoUser
  Admins = {admin}
  Verified = {host, admin}
  r1 = r1
  r2 = r2
  Requests = {r1, r2}
  Limit = 1
  Contents <- AllContents
  Deposit = 7
  Nights = {3}
  Credits = {9}
  RateTables <- AllRates
  MaxListings = 2
  MaxBookings = 1
  MaxLate = 1
  Mixes <- AllMixes
INVARIANTS
  TypeOK
  PublishedIsComplete
  CountCovers
  LimitKept
  BookedListingsExist
  QuotesAgree
PROPERTIES
  BookedAsOffered
CHECK_DEADLOCK FALSE
