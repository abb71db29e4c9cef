---------------------------- MODULE MCTaskPromise ----------------------------
(* Model checking of TaskPromise.                                          *)
EXTENDS TaskPromise, TLC
=============================================================================
