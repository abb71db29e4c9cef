\* One thread, one key, one crash.
CONSTANTS
  t1 = t1
  Threads = {t1}
  a = a
  b = b
  atmp = atmp
  btmp = btmp
  Keys = {a}
  Paths = {a, atmp}
  Stripe <- MCStripe
  TmpOf <- MCTmpOf
  v1 = v1
  Values = {v1}
  Half = Half
  NoFile = NoFile
  NoBuf = NoBuf
  Lost = Lost
  MaxCrashes = 1
  MaxMisses = 0
SPECIFICATION Spec
INVARIANTS NeverReadsHalf
