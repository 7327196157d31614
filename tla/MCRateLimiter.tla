--------------------------- MODULE MCRateLimiter ---------------------------
(***************************************************************************)
(* Small instances of RateLimiter: a request costs two fractions and each  *)
(* tick refills one.                                                       *)
(***************************************************************************)
EXTENDS RateLimiter

CONSTANTS r1, r2, r3
=============================================================================
