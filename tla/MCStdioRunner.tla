--------------------------- MODULE MCStdioRunner ---------------------------
(***************************************************************************)
(* Small instances of StdioRunner: Start's handshake and two client Calls, *)
(* with the Stops and the child's behaviours chosen by each configuration. *)
(***************************************************************************)
EXTENDS StdioRunner

CONSTANTS c1, c2
=============================================================================
