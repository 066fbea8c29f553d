\* Two requests at once about two users.
SPECIFICATION Spec
CONSTANTS
  rich = rich
  new = new
  NoBalance = NoBalance
  Users <- BothUsers
  Opening <- Opened
  Requests = {r1, r2}
  Amounts = {1, 2}
  MaxLedger = 1
SYMMETRY Slots
\* No request begins once the bound on the ledger is reached.
CHECK_DEADLOCK FALSE
INVARIANTS
  TypeOK
  NeverOverdrawn
  NothingMinted
  ReconcilesUndisturbed
