\* One execution of the lambda at a time, and two failures.
SPECIFICATION FairSpec
CONSTANTS
  Events <- FiveEvents
  BlockOf <- Blocks
  Handled <- AllButOne
  Lambdas = {p1}
  MaxFailures = 2
INVARIANTS
  TypeOK
  EachFailureCostsAtMostOneBlock
PROPERTIES
  DeliversAtMostOnce
  DeliveredUnlessFailed
