---------------------------- MODULE MCRpcServer ----------------------------
(* Model checking of RpcServer: requests as model values.                  *)
EXTENDS RpcServer

CONSTANTS r1, r2
=============================================================================
