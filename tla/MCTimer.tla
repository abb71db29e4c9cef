------------------------------- MODULE MCTimer -------------------------------
(* Model checking of Timer.                                                *)
EXTENDS Timer, TLC
=============================================================================
