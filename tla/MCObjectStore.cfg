\* Two threads, two keys with a mutex each, two values, one crash or one
\* failed lookup.
CONSTANTS
  t1 = t1
  t2 = t2
  Threads = {t1, t2}
  a = a
  b = b
  atmp = atmp
  btmp = btmp
  Keys = {a, b}
  Paths = {a, b, atmp, btmp}
  Stripe <- MCStripe
  TmpOf <- MCTmpOf
  v1 = v1
  v2 = v2
  Values = {v1, v2}
  Half = Half
  NoFile = NoFile
  NoBuf = NoBuf
  Lost = Lost
  MaxCrashes = 1
  MaxMisses = 1
SPECIFICATION Spec
SYMMETRY Symmetry
CONSTRAINT OneFault
INVARIANTS MetaHasFile WholeUnlessTorn
PROPERTIES ImplementsAtomic
