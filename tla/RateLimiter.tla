---------------------------- MODULE RateLimiter ----------------------------
(***************************************************************************)
(* src/internal/server/ratelimit.go, the middleware that consults it and   *)
(* the GC sweep that prunes it: a token bucket per authenticated subject.  *)
(*                                                                         *)
(* Allow is three steps of a request goroutine: it reads the clock, finds  *)
(* or creates the bucket under the limiter's lock, and consumes a token    *)
(* under the bucket's own lock after releasing the first.  A bucket that   *)
(* Cleanup forgets in between lives on in the hands of that request.       *)
(*                                                                         *)
(* Time is in ticks, tokens in fractions of which one request costs Unit;  *)
(* Rate is per tick.  Moments are kept as ages (ticks ago), capped at      *)
(* MaxAge.  Floating-point rounding is abstracted.  A name X_Why is a      *)
(* mutant of X, used by no specification.                                  *)
(***************************************************************************)
EXTENDS Integers, FiniteSets

CONSTANTS
  Subjects, Requests, Buckets, None,
  Unit, Rate, Burst,
  EvictAfter,     \* Config.RateLimit.EvictAfter as the operator set it
  MaxDelay,       \* ticks a request may take from reading the clock to done
  MaxAge

ASSUME RateLimiterAssumption ==
  /\ None \notin Buckets /\ None \notin Subjects
  /\ IsFiniteSet(Subjects) /\ IsFiniteSet(Requests) /\ IsFiniteSet(Buckets)
  /\ Cardinality(Buckets) >= Cardinality(Subjects) + Cardinality(Requests)
  /\ {Unit, Rate, Burst} \subseteq Nat \ {0}
  /\ {EvictAfter, MaxDelay, MaxAge} \subseteq Nat
  /\ (MaxAge - MaxDelay) * Rate >= Burst
  /\ MaxAge > MaxDelay + EvictAfter

VARIABLES
  buckets,                      \* RateLimiter.buckets: Subjects -> Buckets or None
  tokens, lastFill, lastUsed,   \* the fields of each bucket
  pc, who, found, stamp,        \* each request: where it is, its subject, the
                                \* bucket it found, the age of its clock reading
  level      \* history: what an ideal bucket that never forgets would hold

bucketVars  == <<tokens, lastFill, lastUsed>>
requestVars == <<pc, who, found, stamp>>
vars        == <<buckets, bucketVars, requestVars, level>>

Lesser(a, b) == IF a < b THEN a ELSE b

Init ==
  /\ buckets = [s \in Subjects |-> None]
  /\ tokens = [b \in Buckets |-> 0]
  /\ lastFill = [b \in Buckets |-> 0]
  /\ lastUsed = [b \in Buckets |-> 0]
  /\ pc = [r \in Requests |-> "idle"]
  /\ who = [r \in Requests |-> None]
  /\ found = [r \in Requests |-> None]
  /\ stamp = [r \in Requests |-> 0]
  /\ level = [s \in Subjects |-> Burst]

Arrive(r, s) ==
  /\ pc[r] = "idle"
  /\ pc' = [pc EXCEPT ![r] = "lookup"]
  /\ who' = [who EXCEPT ![r] = s]
  /\ UNCHANGED <<buckets, bucketVars, found, stamp, level>>

(* Buckets nobody refers to any more, as Go's collector sees it.            *)
Unused == {b \in Buckets : /\ \A s \in Subjects : buckets[s] # b
                           /\ \A r \in Requests : found[r] # b}

FindBucket(r) ==
  /\ pc[r] = "lookup"
  /\ buckets[who[r]] # None
  /\ found' = [found EXCEPT ![r] = buckets[who[r]]]
  /\ pc' = [pc EXCEPT ![r] = "consume"]
  /\ UNCHANGED <<buckets, bucketVars, who, stamp, level>>

CreateBucket(r) ==
  LET b == CHOOSE x \in Unused : TRUE IN
  /\ pc[r] = "lookup"
  /\ buckets[who[r]] = None
  /\ buckets' = [buckets EXCEPT ![who[r]] = b]
  /\ tokens' = [tokens EXCEPT ![b] = Burst]
  /\ lastFill' = [lastFill EXCEPT ![b] = stamp[r]]
  /\ lastUsed' = [lastUsed EXCEPT ![b] = stamp[r]]
  /\ found' = [found EXCEPT ![r] = b]
  /\ pc' = [pc EXCEPT ![r] = "consume"]
  /\ UNCHANGED <<who, stamp, level>>

(* The tokens of b at a clock reading of that age: refilled for the time    *)
(* since its last fill, never drained by a reading older than that.         *)
Refilled_NoCap(b, age) ==
  IF lastFill[b] > age THEN tokens[b] + (lastFill[b] - age) * Rate ELSE tokens[b]
Refilled(b, age) ==
  IF lastFill[b] > age
    THEN Lesser(Burst, tokens[b] + (lastFill[b] - age) * Rate)
    ELSE tokens[b]

Grants_TooStrict(t) == t > Unit
Grants(t) == t >= Unit

Consume(r) ==
  LET b == found[r]
      t == Refilled(b, stamp[r])
  IN
  /\ pc[r] = "consume"
  /\ lastFill' = [lastFill EXCEPT ![b] = Lesser(@, stamp[r])]
  /\ lastUsed' = [lastUsed EXCEPT ![b] = stamp[r]]
  /\ tokens' = [tokens EXCEPT ![b] = IF Grants(t) THEN t - Unit ELSE t]
  /\ level' = [level EXCEPT ![who[r]] = IF Grants(t) THEN @ - Unit ELSE @]
  /\ pc' = [pc EXCEPT ![r] = "idle"]
  /\ who' = [who EXCEPT ![r] = None]
  /\ found' = [found EXCEPT ![r] = None]
  /\ stamp' = [stamp EXCEPT ![r] = 0]
  /\ UNCHANGED buckets

(* runSessionGC passes the configured EvictAfter; the default that          *)
(* NewRateLimiter fills in stays in the limiter's copy, which nobody reads. *)
SweepAge_Zero  == 0
SweepAge_Never == MaxAge
SweepAge == EvictAfter

Cleanup ==
  LET cold == {s \in Subjects : buckets[s] # None /\ lastUsed[buckets[s]] > SweepAge} IN
  /\ cold # {}
  /\ buckets' = [s \in Subjects |-> IF s \in cold THEN None ELSE buckets[s]]
  /\ UNCHANGED <<bucketVars, requestVars, level>>

Older(a) == Lesser(a + 1, MaxAge)

Tick ==
  /\ \A r \in Requests : pc[r] # "idle" => stamp[r] < MaxDelay
  /\ lastFill' = [b \in Buckets |-> IF b \in Unused THEN lastFill[b] ELSE Older(lastFill[b])]
  /\ lastUsed' = [b \in Buckets |-> IF b \in Unused THEN lastUsed[b] ELSE Older(lastUsed[b])]
  /\ stamp' = [r \in Requests |-> IF pc[r] = "idle" THEN 0 ELSE stamp[r] + 1]
  /\ level' = [s \in Subjects |-> Lesser(Burst, level[s] + Rate)]
  /\ UNCHANGED <<buckets, tokens, pc, who, found>>

RequestStep(r) == FindBucket(r) \/ CreateBucket(r) \/ Consume(r)

Next ==
  \/ \E r \in Requests : RequestStep(r) \/ \E s \in Subjects : Arrive(r, s)
  \/ Cleanup
  \/ Tick

(* The clock and the GC ticker go on, a request that has arrived is served. *)
Fairness == WF_vars(Tick) /\ WF_vars(Cleanup) /\ \A r \in Requests : WF_vars(RequestStep(r))

Spec     == Init /\ [][Next]_vars
FairSpec == Spec /\ Fairness
-----------------------------------------------------------------------------
(* The variables hold values of their types: no bucket overflows Burst or   *)
(* goes below zero.                                                         *)
TypeOK ==
  /\ buckets \in [Subjects -> Buckets \cup {None}]
  /\ tokens \in [Buckets -> 0..Burst]
  /\ lastFill \in [Buckets -> 0..MaxAge]
  /\ lastUsed \in [Buckets -> 0..MaxAge]
  /\ pc \in [Requests -> {"idle", "lookup", "consume"}]
  /\ who \in [Requests -> Subjects \cup {None}]
  /\ found \in [Requests -> Buckets \cup {None}]
  /\ stamp \in [Requests -> 0..MaxDelay]
  /\ level \in [Subjects -> Int]

(* Over any window no subject is granted more than Burst and the refill of  *)
(* that window allow, plus a slack that does not grow with the traffic: one *)
(* request for each that may be in flight, holding a bucket that Cleanup    *)
(* has forgotten since its lookup, and the refill of MaxDelay, since a      *)
(* bucket may be created full for a moment already past.  That holds when   *)
(* EvictAfter is long enough to pay the slack back, whatever the readings   *)
(* of the clock; the comment on Burst (ratelimit.go:28-29) would have it    *)
(* with a slack of zero.                                                    *)
Slack == Cardinality(Requests) * Unit + MaxDelay * Rate
OverdraftBounded ==
  (EvictAfter - 2 * MaxDelay) * Rate >= Burst + Slack =>
    \A s \in Subjects : level[s] >= 0 - Slack

(* Forgetting a bucket resets nobody's effective rate: by then it would     *)
(* have been full again.                                                    *)
EvictionForgetsNothing ==
  [][\A s \in Subjects : buckets[s] # None /\ buckets'[s] = None
       => Refilled(buckets[s], 0) = Burst]_vars

(* Nobody is throttled early: when a request is refused, the bucket that is *)
(* never forgotten holds less than a request's cost, too, but for what it   *)
(* was refilled while the request was under way (MaxDelay).                 *)
RefusedOnlyWhenSpent ==
  [][\A r \in Requests : pc[r] = "consume" /\ pc'[r] = "idle" /\ level' = level
       => level[who[r]] < Unit + MaxDelay * Rate]_vars

(* The map does not grow with every subject ever seen: the bucket of one    *)
(* that makes no more requests is removed for good.                         *)
QuietSubjectForgotten ==
  \A s \in Subjects :
    <>[](\A r \in Requests : who[r] # s) => <>[](buckets[s] = None)
=============================================================================
