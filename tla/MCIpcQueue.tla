----------------------------- MODULE MCIpcQueue -----------------------------
(* Model checking of IpcQueue.                                             *)
EXTENDS IpcQueue
=============================================================================
