-------------------------- MODULE MCMcpHttpCalls --------------------------
(* The instance of McpHttpCalls for TLC: two tasks on one backend and one on a  *)
(* second backend for the same server.                                          *)
EXTENDS McpHttpCalls, TLC

CONSTANTS c1, c2, c3, b1, b2

MCUses == (c1 :> b1) @@ (c2 :> b1) @@ (c3 :> b2)
=============================================================================
