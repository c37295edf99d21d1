---------------------------- MODULE MCMcpStdio ----------------------------
(* The instance of McpStdio for TLC: two backends, and two tasks on the first.  *)
EXTENDS McpStdio, TLC

CONSTANTS c1, c2, b1, b2

MCOrder == <<b1, b2>>
MCUses == (c1 :> b1) @@ (c2 :> b1)
=============================================================================
