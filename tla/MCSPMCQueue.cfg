\* Two consumers, five items, segments of two slots: the queue extends twice.
CONSTANTS
  c1 = c1
  c2 = c2
  Consumers = {c1, c2}
  SegCap = 2
  MaxItems = 5
  SizeModulus = 16
SPECIFICATION FairSpec
INVARIANTS TypeOK CopiesArePublished SizeExactWhenQuiet
PROPERTIES InOrder ImplementsDelivery PopReturns
