\* The queue extends while a consumer is between its two loads.
CONSTANTS
  c1 = c1
  Consumers = {c1}
  SegCap = 2
  MaxItems = 3
  SizeModulus = 16
SPECIFICATION Spec
INVARIANTS NoLostItems
