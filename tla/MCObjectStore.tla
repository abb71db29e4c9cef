--------------------------- MODULE MCObjectStore ---------------------------
(* Model checking of ObjectStore: two keys with a mutex each.              *)
EXTENDS ObjectStore, TLC

CONSTANTS a, b, atmp, btmp

MCStripe == [k \in Keys |-> IF k = a THEN 0 ELSE 1]
MCTmpOf  == [k \in Keys |-> IF k = a THEN atmp ELSE btmp]

(* The keys can be exchanged together with their temporary files: mutexes  *)
(* are only compared.                                                      *)
Exchange == (a :> b) @@ (b :> a) @@ (atmp :> btmp) @@ (btmp :> atmp)
Symmetry == Permutations(Threads) \cup Permutations(Values) \cup {Exchange}

(* The run looks at one fault at a time: a crash or a lookup that fails.   *)
(* A restart after a failed lookup is still in it: handleGet's own death.  *)
OneFault == crashes + misses <= 1
=============================================================================
