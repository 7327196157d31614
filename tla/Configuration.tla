--------------------------- MODULE Configuration ---------------------------
(***************************************************************************)
(* From the command line and configuration file to the Config that Run     *)
(* works with: src/cmd/server/main.go, src/internal/server/config.go, the  *)
(* defaults of server.go and the constructor of the key validator.         *)
(* Durations are int64 counts of nanoseconds, so the conversion from       *)
(* seconds wraps around; Word and Second are small in an instance.         *)
(***************************************************************************)
EXTENDS Integers, Sequences

CONSTANTS
  Word,                \* a duration lies in -Word..Word-1
  Second,              \* time.Second
  DefaultListenAddr, NoAddr,
  DefaultIdleTimeout, DefaultSweepInterval, DefaultPoolIdleTimeout,
  NoBackend            \* fc.Backend = nil, or no backing MCP at all

ASSUME ConfigurationAssumption ==
  /\ Word \in Nat \ {0} /\ Second \in 1..Word-1
  /\ {DefaultIdleTimeout, DefaultSweepInterval, DefaultPoolIdleTimeout} \subseteq 1..Word-1
  /\ DefaultListenAddr # NoAddr

Wrap(n) == ((n + Word) % (2 * Word)) - Word

(* time.Duration(n) * time.Second                                           *)
Seconds(n) == Wrap(n * Second)

(* LoadFileConfig: an unreadable file, malformed JSON and an unknown field  *)
(* are errors; without -config the zero FileConfig is used.                 *)
Loads(fc) == fc.file \in {"absent", "good"}

(* NewAPIKeyValidator refuses the whole list for one hash that is not the   *)
(* hex form of a SHA-256 value.                                             *)
KeysDecode(fc) == fc.hashes = "good"

Listen(fc, flag) ==
  IF flag # NoAddr THEN flag
  ELSE IF fc.listen # NoAddr THEN fc.listen ELSE DefaultListenAddr

(* The Config main builds; an empty Env stays empty and is not inherited.   *)
Runtime(fc, flag) ==
  [listen    |-> Listen(fc, flag),
   backend   |-> IF fc.backend = NoBackend THEN "none" ELSE "pool",
   shareSafe |-> fc.backend # NoBackend /\ ~fc.backend.isolate,
   sandbox   |-> IF fc.backend = NoBackend THEN NoBackend ELSE fc.backend.sandbox,
   command   |-> IF fc.backend = NoBackend THEN NoBackend
                 ELSE [program |-> fc.backend.program, env |-> fc.backend.env],
   idle      |-> Seconds(fc.idleSeconds),
   sweep     |-> Seconds(fc.sweepSeconds),
   poolIdle  |-> Seconds(fc.poolIdleSeconds),
   limited   |-> fc.rateLimit > 0]   \* NewRateLimiter is nil without a rate

(* idleAndSweep: <<0, 0>> switches the GC off.                              *)
IdleAndSweep(cfg) ==
  IF cfg.idle < 0 THEN <<0, 0>>
  ELSE <<IF cfg.idle = 0 THEN DefaultIdleTimeout ELSE cfg.idle,
         IF cfg.sweep <= 0 THEN DefaultSweepInterval ELSE cfg.sweep>>

PoolIdleTimeout(cfg) ==
  CASE cfg.poolIdle < 0 -> 0
    [] cfg.poolIdle = 0 -> DefaultPoolIdleTimeout
    [] cfg.poolIdle > 0 -> cfg.poolIdle

GCEnabled(cfg) == IdleAndSweep(cfg)[1] > 0
=============================================================================
