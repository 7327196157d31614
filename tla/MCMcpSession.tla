---------------------------- MODULE MCMcpSession ----------------------------
(***************************************************************************)
(* Small instances of McpSession.                                          *)
(***************************************************************************)
EXTENDS McpSession

CONSTANTS h1, h2, u1, u2, s1, s2
=============================================================================
