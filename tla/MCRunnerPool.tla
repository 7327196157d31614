---------------------------- MODULE MCRunnerPool ----------------------------
(***************************************************************************)
(* Small instances of RunnerPool: up to two requests in flight at a time,  *)
(* each for either of two subjects, two runners beside the one of the      *)
(* warm-up, an idle timeout of one tick.                                   *)
(***************************************************************************)
EXTENDS RunnerPool

CONSTANTS h1, h2, s1, s2
=============================================================================
