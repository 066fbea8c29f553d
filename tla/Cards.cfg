\* Two logins, two requests at once, or one that the server may drop.
SPECIFICATION Spec
CONSTANTS
  e1 = e1
  e2 = e2
  Emails = {e1, e2}
  NoEmail = NoEmail
  r1 = r1
  r2 = r2
  Requests = {r1, r2}
  MaxAccounts = 2
  MaxPlaces = 1
  MaxFingerprints = 2
  MaxCustomers = 2
  MaxSources = 2
  Mixes <- AllMixes
INVARIANTS
  TypeOK
  RowHasLogin
  EmailsAgree
  OwnersExist
  CardsOfOneCustomer
  OneCardOnce
  CardsAreReal
CHECK_DEADLOCK FALSE
