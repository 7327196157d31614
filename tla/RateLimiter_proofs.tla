------------------------- MODULE RateLimiter_proofs -------------------------
(***************************************************************************)
(* What RateLimiter guarantees for any numbers of subjects and requests    *)
(* and any rate, burst and delays.  Each theorem that relies on the        *)
(* configured EvictAfter says how long it has to be.                       *)
(***************************************************************************)
EXTENDS RateLimiter, FiniteSetTheorems, TLAPS

(* What a request knows between its steps.                                  *)
RequestOK(r) ==
  /\ pc[r] = "idle" => who[r] = None /\ stamp[r] = 0
  /\ pc[r] # "idle" => who[r] \in Subjects
  /\ IF pc[r] = "consume" THEN found[r] \in Buckets ELSE found[r] = None
RequestsOK == \A r \in Requests : RequestOK(r)

(* A bucket belongs to one subject, on the map and in the hands of requests.*)
OneSubject ==
  /\ \A s, t \in Subjects : buckets[s] = buckets[t] /\ buckets[s] # None => s = t
  /\ \A q, r \in Requests : found[q] = found[r] /\ found[q] # None => who[q] = who[r]
  /\ \A r \in Requests, s \in Subjects :
       found[r] = buckets[s] /\ found[r] # None => who[r] = s

(* The last fill of a bucket is never older than its last use, and newer by *)
(* the delay of a request at most: lastUsed takes readings out of order.    *)
AgesOK ==
  \A b \in Buckets : lastFill[b] <= lastUsed[b] /\ lastUsed[b] <= lastFill[b] + MaxDelay

(* A bucket that serves s, on the map or in the hands of a request.         *)
Serves(b, s) ==
  buckets[s] = b \/ \E r \in Requests : pc[r] = "consume" /\ who[r] = s /\ found[r] = b

(* The refill due for a time, and what a bucket holds with the refill it is *)
(* due and before the cap.                                                  *)
Due(a)   == a * Rate
Worth(b) == tokens[b] + Due(lastFill[b])

(* No bucket of a subject holds less than the ideal one ...                 *)
NeverShort ==
  \A s \in Subjects :
    /\ level[s] <= Burst
    /\ \A b \in Buckets : Serves(b, s) => level[s] <= Worth(b)

LimiterInv == TypeOK /\ RequestsOK /\ OneSubject /\ AgesOK /\ NeverShort

(* ... and it holds more by what requests took from forgotten buckets, and  *)
(* by what it was given for the time between the reading of a clock and its *)
(* creation.  Free are the requests that hold no forgotten bucket of s.     *)
Free(s) ==
  {r \in Requests : pc[r] = "consume" /\ who[r] = s => found[r] = buckets[s]}
Price(F) == Cardinality(F) * Unit

Paid(s) ==
  IF buckets[s] = None THEN level[s] >= Burst - Price(Free(s))
  ELSE /\ level[s] >= Lesser(Worth(buckets[s]) - Due(MaxDelay), Burst) - Price(Free(s))
       /\ Free(s) = Requests =>
            level[s] >= Lesser(Burst, Worth(buckets[s]) - 2 * Due(MaxDelay) - Price(Requests))
PaidOK == \A s \in Subjects : Paid(s)

(* A bucket created while an older one of its subject is in use is young.   *)
YoungOK ==
  \A s \in Subjects : \A r \in Requests \ Free(s) :
    buckets[s] # None => lastUsed[buckets[s]] <= stamp[r] + MaxDelay
-----------------------------------------------------------------------------
(* The assumptions, in the form the arithmetic below needs.                 *)
LEMMA Constants ==
  /\ Unit \in Nat /\ Rate \in Nat /\ Burst \in Nat /\ Unit > 0 /\ Rate > 0 /\ Burst > 0
  /\ EvictAfter \in Nat /\ MaxDelay \in Nat /\ MaxAge \in Nat
  /\ MaxAge > MaxDelay + EvictAfter
  BY RateLimiterAssumption

(* Refill is linear in time.                                                *)
LEMMA DueNat == \A a \in Nat : Due(a) \in Nat
  BY Constants DEF Due

LEMMA DueNext == \A a \in Nat : Due(a + 1) = Due(a) + Rate
  BY Constants DEF Due

LEMMA DueLess ==
  ASSUME NEW a \in Nat, NEW b \in Nat, a <= b
  PROVE  Due(a) <= Due(b) /\ (b - a) * Rate = Due(b) - Due(a)
<1>1. PICK c \in Nat : b = a + c
  <2>1. b - a \in Nat /\ b = a + (b - a)
    OBVIOUS
  <2> QED BY <2>1
<1>2. Due(b) = Due(a) + Due(c)
  BY <1>1, Constants DEF Due
<1>3. (b - a) * Rate = Due(c)
  BY <1>1 DEF Due
<1> QED BY <1>2, <1>3, DueNat

(* A set of requests is paid one by one.                                    *)
LEMMA PriceFacts ==
  ASSUME NEW F \in SUBSET Requests, NEW G \in SUBSET Requests
  PROVE  /\ Price(F) \in Nat
         /\ F \subseteq G => Price(F) <= Price(G)
         /\ \A r \in Requests : r \notin F => Price(F \cup {r}) = Price(F) + Unit
<1>1. IsFiniteSet(F) /\ IsFiniteSet(G)
  BY RateLimiterAssumption, FS_Subset
<1>2. Cardinality(F) \in Nat /\ Cardinality(G) \in Nat
  BY <1>1, FS_CardinalityType
<1>3. Unit \in Nat
  BY Constants
<1>4. Price(F) \in Nat
  BY <1>2, <1>3 DEF Price
<1>5. ASSUME F \subseteq G PROVE Price(F) <= Price(G)
  <2>1. Cardinality(F) <= Cardinality(G)
    BY <1>1, <1>5, FS_Subset
  <2> DEFINE m == Cardinality(F)
             n == Cardinality(G)
  <2>2. m \in Nat /\ n \in Nat /\ m <= n
    BY <1>2, <2>1
  <2> HIDE DEF m, n
  <2>3. m * Unit + (n - m) * Unit = n * Unit /\ (n - m) * Unit >= 0
    BY <1>3, <2>2
  <2>4. m * Unit <= n * Unit
    BY <1>3, <2>2, <2>3
  <2> QED BY <2>4 DEF Price, m, n
<1>6. ASSUME NEW r \in Requests, r \notin F PROVE Price(F \cup {r}) = Price(F) + Unit
  <2>1. Cardinality(F \cup {r}) = Cardinality(F) + 1
    BY <1>1, <1>6, FS_AddElement
  <2>2. (Cardinality(F) + 1) * Unit = Cardinality(F) * Unit + Unit
    BY <1>2, <1>3
  <2> QED BY <2>1, <2>2 DEF Price
<1> QED BY <1>4, <1>5, <1>6

(* The refill of allow, in terms of what the bucket holds.                  *)
LEMMA RefilledIs ==
  ASSUME TypeOK, NEW b \in Buckets, NEW a \in Nat
  PROVE  /\ lastFill[b] > a =>
              Refilled(b, a) = Lesser(Burst, Worth(b) - Due(a))
         /\ ~(lastFill[b] > a) => Refilled(b, a) = tokens[b]
         /\ Refilled(b, a) \in 0..Burst
         /\ tokens[b] <= Refilled(b, a)
<1>1. lastFill[b] \in Nat /\ tokens[b] \in 0..Burst
  BY Constants DEF TypeOK
<1>2. CASE lastFill[b] > a
  <2>1. (lastFill[b] - a) * Rate = Due(lastFill[b]) - Due(a) /\ Due(lastFill[b]) - Due(a) >= 0
        /\ Due(lastFill[b]) \in Nat /\ Due(a) \in Nat
    <3>1. Due(lastFill[b]) \in Nat /\ Due(a) \in Nat
      BY <1>1, DueNat
    <3>2. a <= lastFill[b]
      BY <1>1, <1>2
    <3> QED BY <1>1, <3>1, <3>2, DueLess
  <2>2. Refilled(b, a) = Lesser(Burst, tokens[b] + (Due(lastFill[b]) - Due(a)))
    BY <1>2, <2>1 DEF Refilled
  <2> QED BY <1>1, <1>2, <2>1, <2>2, Constants DEF Lesser, Worth
<1>3. CASE ~(lastFill[b] > a)
  BY <1>1, <1>3, Constants DEF Refilled
<1> QED BY <1>2, <1>3

(* There are enough buckets: CreateBucket finds one nobody refers to.       *)
LEMMA BucketLeft ==
  ASSUME TypeOK, RequestsOK, NEW r \in Requests, pc[r] = "lookup", buckets[who[r]] = None
  PROVE  Unused # {}
<1> DEFINE S == Subjects \ {who[r]}
           Q == Requests \ {r}
           B == {buckets[s] : s \in S}
           F == {found[q] : q \in Q}
<1>1. who[r] \in Subjects /\ found[r] = None
  BY DEF RequestsOK, RequestOK
<1>2. IsFiniteSet(S) /\ Cardinality(S) = Cardinality(Subjects) - 1
  BY <1>1, RateLimiterAssumption, FS_RemoveElement
<1>3. IsFiniteSet(Q) /\ Cardinality(Q) = Cardinality(Requests) - 1
  BY RateLimiterAssumption, FS_RemoveElement
<1>4. IsFiniteSet(B) /\ Cardinality(B) <= Cardinality(S)
  <2>1. [s \in S |-> buckets[s]] \in Surjection(S, B)
    BY DEF Surjection
  <2> QED BY <1>2, <2>1, FS_Surjection
<1>5. IsFiniteSet(F) /\ Cardinality(F) <= Cardinality(Q)
  <2>1. [q \in Q |-> found[q]] \in Surjection(Q, F)
    BY DEF Surjection
  <2> QED BY <1>3, <2>1, FS_Surjection
<1> HIDE DEF S, Q, B, F
<1>6. IsFiniteSet(B \cup F) /\ Cardinality(B \cup F) <= Cardinality(B) + Cardinality(F)
  <2>1. Cardinality(B \cap F) \in Nat
    BY <1>4, FS_Intersection, FS_CardinalityType
  <2>2. Cardinality(B) \in Nat /\ Cardinality(F) \in Nat
    BY <1>4, <1>5, FS_CardinalityType
  <2>3. /\ IsFiniteSet(B \cup F)
        /\ Cardinality(B \cup F) = Cardinality(B) + Cardinality(F) - Cardinality(B \cap F)
    BY <1>4, <1>5, FS_Union
  <2> QED BY <2>1, <2>2, <2>3
<1>7. ASSUME Buckets \subseteq B \cup F PROVE FALSE
  <2>1. Cardinality(Buckets) <= Cardinality(B \cup F)
    BY <1>6, <1>7, FS_Subset
  <2>2. /\ Cardinality(Buckets) \in Nat /\ Cardinality(B \cup F) \in Nat
        /\ Cardinality(B) \in Nat /\ Cardinality(F) \in Nat
        /\ Cardinality(Subjects) \in Nat /\ Cardinality(Requests) \in Nat
    BY <1>4, <1>5, <1>6, RateLimiterAssumption, FS_CardinalityType
  <2> QED BY <1>2, <1>3, <1>4, <1>5, <1>6, <2>1, <2>2, RateLimiterAssumption
<1>8. PICK b \in Buckets : b \notin B \cup F
  BY <1>7
<1>9. b \in Unused
  BY <1>1, <1>8, RateLimiterAssumption DEF Unused, S, Q, B, F
<1> QED BY <1>9
-----------------------------------------------------------------------------
(* What allow does to the bucket and to the ideal level: it takes c from    *)
(* both, and leaves the bucket with no more than it was worth.              *)
LEMMA Consumed ==
  ASSUME TypeOK, RequestsOK, NEW r \in Requests, Consume(r)
  PROVE  \E b \in Buckets, s \in Subjects, c \in {0, Unit} :
           /\ b = found[r] /\ s = who[r]
           /\ tokens' \in [Buckets -> 0..Burst]
           /\ \A d \in Buckets : d # b => Worth(d)' = Worth(d)
           /\ level' = [level EXCEPT ![s] = level[s] - c]
           /\ Worth(b)' = (IF lastFill[b] > stamp[r]
                             THEN Lesser(Worth(b), Burst + Due(stamp[r]))
                             ELSE Worth(b)) - c
           /\ c = 0 => Refilled(b, stamp[r]) < Unit
<1>0. PICK b \in Buckets, s \in Subjects, a \in Nat : b = found[r] /\ s = who[r] /\ a = stamp[r]
  BY Constants DEF RequestsOK, RequestOK, Consume, TypeOK
<1>1. b \in Buckets /\ s \in Subjects /\ a \in Nat
  OBVIOUS
<1>2. PICK t \in 0..Burst :
        /\ t = Refilled(b, a)
        /\ lastFill[b] > a => t = Lesser(Burst, Worth(b) - Due(a))
        /\ ~(lastFill[b] > a) => t = tokens[b]
  BY RefilledIs
<1> DEFINE c == IF Grants(t) THEN Unit ELSE 0
<1>3. /\ lastFill' = [lastFill EXCEPT ![b] = Lesser(lastFill[b], a)]
      /\ tokens' = [tokens EXCEPT ![b] = t - c]
      /\ level' = [level EXCEPT ![s] = level[s] - c]
  <2>1. Grants(t) => c = Unit
    OBVIOUS
  <2>2. ~Grants(t) => c = 0 /\ t - c = t /\ level[s] - c = level[s]
    BY <1>1, <1>2, Constants DEF TypeOK
  <2> QED BY <1>0, <1>2, <2>1, <2>2 DEF Consume
<1>4. c \in {0, Unit} /\ (c = 0 => t < Unit) /\ t - c \in 0..Burst
  BY <1>2, Constants DEF Grants
<1> HIDE DEF c
<1>5. tokens' \in [Buckets -> 0..Burst]
  BY <1>1, <1>3, <1>4 DEF TypeOK
<1>6. \A d \in Buckets : d # b => Worth(d)' = Worth(d)
  BY <1>1, <1>3 DEF Worth, TypeOK
<1>7. tokens'[b] = t - c /\ lastFill'[b] = Lesser(lastFill[b], a)
  BY <1>1, <1>3 DEF TypeOK
<1>8. lastFill[b] \in Nat /\ tokens[b] \in Nat /\ Due(lastFill[b]) \in Nat /\ Due(a) \in Nat
  BY <1>1, Constants, DueNat DEF TypeOK
<1>9. Worth(b)' = (IF lastFill[b] > a THEN Lesser(Worth(b), Burst + Due(a)) ELSE Worth(b)) - c
  <2>1. Worth(b)' = (t - c) + Due(lastFill'[b])
    BY <1>7 DEF Worth, Due
  <2>2. CASE lastFill[b] > a
    <3>1. lastFill'[b] = a
      BY <1>1, <1>7, <1>8, <2>2 DEF Lesser
    <3> QED BY <1>2, <1>4, <1>8, <2>1, <2>2, <3>1, Constants DEF Worth, Lesser
  <2>3. CASE ~(lastFill[b] > a)
    <3>1. lastFill'[b] = lastFill[b]
      BY <1>1, <1>7, <1>8, <2>3 DEF Lesser
    <3> QED BY <1>2, <1>4, <1>8, <2>1, <2>3, <3>1, Constants DEF Worth
  <2> QED BY <2>2, <2>3
<1> QED BY <1>0, <1>2, <1>3, <1>4, <1>5, <1>6, <1>9

(* A bucket is created full, for the moment of the clock reading.           *)
LEMMA Created ==
  ASSUME TypeOK, RequestsOK, NEW r \in Requests, CreateBucket(r)
  PROVE  \E b \in Buckets :
           /\ who[r] \in Subjects /\ b \in Unused /\ buckets[who[r]] = None
           /\ buckets' = [buckets EXCEPT ![who[r]] = b]
           /\ found' = [found EXCEPT ![r] = b]
           /\ tokens' = [tokens EXCEPT ![b] = Burst]
           /\ lastFill' = [lastFill EXCEPT ![b] = stamp[r]]
           /\ lastUsed' = [lastUsed EXCEPT ![b] = stamp[r]]
           /\ Worth(b)' = Burst + Due(stamp[r])
           /\ \A d \in Buckets : d # b => Worth(d)' = Worth(d)
<1>1. PICK b \in Unused : b = CHOOSE x \in Unused : TRUE
  BY BucketLeft DEF CreateBucket
<1>2. b \in Buckets /\ who[r] \in Subjects
  BY <1>1 DEF Unused, RequestsOK, RequestOK, CreateBucket
<1>3. /\ buckets[who[r]] = None
      /\ buckets' = [buckets EXCEPT ![who[r]] = b]
      /\ found' = [found EXCEPT ![r] = b]
      /\ tokens' = [tokens EXCEPT ![b] = Burst]
      /\ lastFill' = [lastFill EXCEPT ![b] = stamp[r]]
      /\ lastUsed' = [lastUsed EXCEPT ![b] = stamp[r]]
  BY <1>1 DEF CreateBucket
<1>4. Worth(b)' = Burst + Due(stamp[r])
  BY <1>2, <1>3 DEF Worth, TypeOK, Due
<1>5. \A d \in Buckets : d # b => Worth(d)' = Worth(d)
  BY <1>2, <1>3 DEF Worth, TypeOK
<1> QED BY <1>1, <1>2, <1>3, <1>4, <1>5

(* A tick is worth Rate to a bucket, or it is full anyway.                  *)
LEMMA Ticked ==
  ASSUME TypeOK, Tick, NEW b \in Buckets
  PROVE  /\ Worth(b)' <= Worth(b) + Rate
         /\ b \notin Unused => Worth(b)' >= Lesser(Worth(b) + Rate, Due(MaxAge))
         /\ lastFill'[b] = (IF b \in Unused THEN lastFill[b] ELSE Older(lastFill[b]))
         /\ lastUsed'[b] = (IF b \in Unused THEN lastUsed[b] ELSE Older(lastUsed[b]))
<1>1. /\ lastFill'[b] = (IF b \in Unused THEN lastFill[b] ELSE Older(lastFill[b]))
      /\ lastUsed'[b] = (IF b \in Unused THEN lastUsed[b] ELSE Older(lastUsed[b]))
      /\ tokens' = tokens
  BY DEF Tick
<1>2. /\ lastFill[b] \in 0..MaxAge /\ tokens[b] \in Nat
      /\ Due(lastFill[b]) \in Nat /\ Due(MaxAge) \in Nat
  BY Constants, DueNat DEF TypeOK
<1>3. Due(lastFill[b] + 1) = Due(lastFill[b]) + Rate
  BY <1>2, DueNext
<1>4. Worth(b)' = tokens[b] + Due(lastFill'[b])
  BY <1>1 DEF Worth, Due
<1>5. CASE b \in Unused
  BY <1>1, <1>2, <1>4, <1>5, Constants DEF Worth
<1>6. CASE b \notin Unused
  <2>1. CASE lastFill[b] < MaxAge
    <3>1. lastFill'[b] = lastFill[b] + 1
      BY <1>1, <1>2, <1>6, <2>1, Constants DEF Older, Lesser
    <3> QED BY <1>1, <1>2, <1>3, <1>4, <3>1, Constants DEF Worth, Lesser
  <2>2. CASE lastFill[b] = MaxAge
    <3>1. lastFill'[b] = MaxAge
      BY <1>1, <1>2, <1>6, <2>2, Constants DEF Older, Lesser
    <3> QED BY <1>1, <1>2, <1>4, <2>2, <3>1, Constants DEF Worth, Lesser
  <2> QED BY <1>2, <2>1, <2>2, Constants
<1> QED BY <1>5, <1>6
-----------------------------------------------------------------------------
(* No bucket exists at the start.                                           *)
LEMMA LimiterInit == Init => LimiterInv
<1> SUFFICES ASSUME Init PROVE LimiterInv
  OBVIOUS
<1>1. TypeOK
  BY Constants DEF Init, TypeOK
<1>2. RequestsOK /\ OneSubject
  BY DEF Init, RequestsOK, RequestOK, OneSubject
<1>3. AgesOK
  BY Constants DEF Init, AgesOK
<1>4. NeverShort
  BY RateLimiterAssumption, Constants DEF Init, NeverShort, Serves
<1> QED BY <1>1, <1>2, <1>3, <1>4 DEF LimiterInv

(* A request that arrives holds no bucket yet.                              *)
LEMMA ArriveStep ==
  ASSUME LimiterInv, NEW r \in Requests, NEW s \in Subjects, Arrive(r, s)
  PROVE  LimiterInv'
<1> USE DEF LimiterInv, bucketVars
<1>1. TypeOK'
  BY DEF Arrive, TypeOK
<1>2. RequestsOK'
  BY DEF Arrive, TypeOK, RequestsOK, RequestOK
<1>3. OneSubject'
  BY DEF Arrive, TypeOK, RequestsOK, RequestOK, OneSubject
<1>4. AgesOK'
  BY DEF Arrive, AgesOK
<1>5. NeverShort'
  <2>1. \A b \in Buckets, t \in Subjects : Serves(b, t)' => Serves(b, t)
    BY DEF Arrive, TypeOK, Serves
  <2>2. \A b \in Buckets : Worth(b)' = Worth(b)
    BY DEF Arrive, Worth
  <2> QED BY <2>1, <2>2 DEF Arrive, NeverShort
<1> QED BY <1>1, <1>2, <1>3, <1>4, <1>5

(* A request that finds a bucket on the map gets that of its subject.       *)
LEMMA FindStep ==
  ASSUME LimiterInv, NEW r \in Requests, FindBucket(r)
  PROVE  LimiterInv'
<1> USE DEF LimiterInv, bucketVars
<1>0. PICK s \in Subjects : s = who[r] /\ buckets[s] \in Buckets
  BY DEF FindBucket, RequestsOK, RequestOK, TypeOK
<1>1. TypeOK'
  BY <1>0 DEF FindBucket, TypeOK
<1>2. RequestsOK'
  BY <1>0 DEF FindBucket, TypeOK, RequestsOK, RequestOK
<1>3. OneSubject'
  BY <1>0 DEF FindBucket, TypeOK, OneSubject
<1>4. AgesOK'
  BY DEF FindBucket, AgesOK
<1>5. NeverShort'
  <2>1. \A b \in Buckets, t \in Subjects : Serves(b, t)' => Serves(b, t)
    BY <1>0 DEF FindBucket, TypeOK, Serves
  <2>2. \A b \in Buckets : Worth(b)' = Worth(b)
    BY DEF FindBucket, Worth
  <2> QED BY <2>1, <2>2 DEF FindBucket, NeverShort
<1> QED BY <1>1, <1>2, <1>3, <1>4, <1>5

(* A bucket that is created was nobody's before, and holds as much as any   *)
(* could.                                                                   *)
LEMMA CreateStep ==
  ASSUME LimiterInv, NEW r \in Requests, CreateBucket(r)
  PROVE  LimiterInv'
<1> USE DEF LimiterInv
<1>0. PICK b \in Buckets :
        /\ who[r] \in Subjects /\ b \in Unused /\ buckets[who[r]] = None
        /\ buckets' = [buckets EXCEPT ![who[r]] = b]
        /\ found' = [found EXCEPT ![r] = b]
        /\ tokens' = [tokens EXCEPT ![b] = Burst]
        /\ lastFill' = [lastFill EXCEPT ![b] = stamp[r]]
        /\ lastUsed' = [lastUsed EXCEPT ![b] = stamp[r]]
        /\ Worth(b)' = Burst + Due(stamp[r])
        /\ \A d \in Buckets : d # b => Worth(d)' = Worth(d)
  BY Created
<1>1. /\ pc' = [pc EXCEPT ![r] = "consume"] /\ pc[r] = "lookup"
      /\ UNCHANGED <<who, stamp, level>>
  BY DEF CreateBucket
<1>2. stamp[r] \in 0..MaxAge /\ stamp[r] \in 0..MaxDelay
  BY Constants DEF TypeOK
<1>3. TypeOK'
  BY <1>0, <1>1, <1>2, Constants DEF TypeOK
<1>4. RequestsOK'
  BY <1>0, <1>1 DEF TypeOK, RequestsOK, RequestOK
<1>5. OneSubject'
  BY <1>0, <1>1 DEF TypeOK, OneSubject, Unused
<1>6. AgesOK'
  BY <1>0, <1>2, Constants DEF AgesOK, TypeOK
<1>7. NeverShort'
  <2>1. \A d \in Buckets, t \in Subjects : d # b /\ Serves(d, t)' => Serves(d, t)
    BY <1>0, <1>1 DEF TypeOK, Serves
  <2>2. Due(stamp[r]) \in Nat
    BY <1>2, DueNat
  <2>3. \A t \in Subjects : level[t] <= Worth(b)'
    BY <1>0, <2>2, Constants DEF NeverShort, TypeOK
  <2> QED BY <1>0, <1>1, <2>1, <2>3 DEF NeverShort
<1> QED BY <1>3, <1>4, <1>5, <1>6, <1>7

(* allow takes as much from the ideal level as from the bucket, and from    *)
(* the buckets of nobody else.                                              *)
LEMMA ConsumeStep ==
  ASSUME LimiterInv, NEW r \in Requests, Consume(r)
  PROVE  LimiterInv'
<1> USE DEF LimiterInv
<1>0. PICK b \in Buckets, s \in Subjects, c \in {0, Unit} :
        /\ b = found[r] /\ s = who[r]
        /\ tokens' \in [Buckets -> 0..Burst]
        /\ \A d \in Buckets : d # b => Worth(d)' = Worth(d)
        /\ level' = [level EXCEPT ![s] = level[s] - c]
        /\ Worth(b)' = (IF lastFill[b] > stamp[r]
                          THEN Lesser(Worth(b), Burst + Due(stamp[r]))
                          ELSE Worth(b)) - c
  BY Consumed
<1>1. /\ pc[r] = "consume" /\ UNCHANGED buckets
      /\ lastFill' = [lastFill EXCEPT ![b] = Lesser(lastFill[b], stamp[r])]
      /\ lastUsed' = [lastUsed EXCEPT ![b] = stamp[r]]
      /\ pc' = [pc EXCEPT ![r] = "idle"] /\ who' = [who EXCEPT ![r] = None]
      /\ found' = [found EXCEPT ![r] = None] /\ stamp' = [stamp EXCEPT ![r] = 0]
  BY <1>0 DEF Consume
<1>2. stamp[r] \in 0..MaxAge /\ stamp[r] \in 0..MaxDelay /\ c \in Nat
  BY Constants DEF TypeOK
<1>3. TypeOK'
  <2>1. lastFill' \in [Buckets -> 0..MaxAge] /\ lastUsed' \in [Buckets -> 0..MaxAge]
    BY <1>1, <1>2, Constants DEF TypeOK, Lesser
  <2>2. level' \in [Subjects -> Int]
    BY <1>0, <1>2 DEF TypeOK
  <2>3. stamp' \in [Requests -> 0..MaxDelay]
    BY <1>1, Constants DEF TypeOK
  <2> QED BY <1>0, <1>1, <2>1, <2>2, <2>3 DEF TypeOK
<1>4. RequestsOK'
  BY <1>1 DEF TypeOK, RequestsOK, RequestOK
<1>5. OneSubject'
  BY <1>1 DEF TypeOK, OneSubject
<1>6. AgesOK'
  <2> SUFFICES ASSUME NEW d \in Buckets
               PROVE  lastFill'[d] <= lastUsed'[d] /\ lastUsed'[d] <= lastFill'[d] + MaxDelay
    BY DEF AgesOK
  <2>1. lastFill[d] \in Nat /\ lastUsed[d] \in Nat
    BY Constants DEF TypeOK
  <2>2. CASE d = b
    BY <1>1, <1>2, <2>1, <2>2, Constants DEF TypeOK, Lesser
  <2>3. CASE d # b
    BY <1>1, <2>3 DEF AgesOK
  <2> QED BY <2>2, <2>3
<1>7. NeverShort'
  <2>1. \A d \in Buckets, t \in Subjects : Serves(d, t)' => Serves(d, t)
    BY <1>1 DEF TypeOK, Serves
  <2>2. Serves(b, s) /\ \A t \in Subjects : Serves(b, t) => t = s
    BY <1>0, <1>1, RateLimiterAssumption DEF Serves, OneSubject, TypeOK
  <2>3. level[s] \in Int /\ level[s] <= Burst /\ level[s] <= Worth(b)
    BY <2>2 DEF NeverShort, TypeOK
  <2>4. Worth(b) \in Int /\ Due(stamp[r]) \in Nat
    BY <1>2, DueNat, Constants DEF TypeOK, Worth
  <2>5. level'[s] = level[s] - c /\ \A t \in Subjects : t # s => level'[t] = level[t]
    BY <1>0 DEF TypeOK
  <2>6. level'[s] <= Worth(b)'
    BY <1>0, <1>2, <2>3, <2>4, <2>5, Constants DEF Lesser
  <2>7. level'[s] <= Burst
    BY <1>2, <2>3, <2>5, Constants
  <2>8. \A d \in Buckets : d # b /\ Serves(d, s) => level'[s] <= Worth(d)'
    <3> SUFFICES ASSUME NEW d \in Buckets, d # b, Serves(d, s) PROVE level'[s] <= Worth(d)'
      OBVIOUS
    <3>1. level[s] <= Worth(d) /\ Worth(d)' = Worth(d)
      BY <1>0 DEF NeverShort
    <3>2. Worth(d) \in Int
      BY DueNat, Constants DEF TypeOK, Worth
    <3> QED BY <1>2, <2>3, <2>5, <3>1, <3>2
  <2> QED BY <1>0, <2>1, <2>2, <2>5, <2>6, <2>7, <2>8 DEF NeverShort
<1> QED BY <1>3, <1>4, <1>5, <1>6, <1>7

(* Forgetting a bucket changes nothing for the requests that hold it.       *)
LEMMA CleanupStep ==
  ASSUME LimiterInv, Cleanup
  PROVE  LimiterInv'
<1> USE DEF LimiterInv, bucketVars, requestVars
<1>0. /\ UNCHANGED <<bucketVars, requestVars, level>>
      /\ \A s \in Subjects : buckets'[s] = None \/ buckets'[s] = buckets[s]
      /\ buckets' \in [Subjects -> Buckets \cup {None}]
  BY DEF Cleanup, TypeOK
<1>1. TypeOK'
  BY <1>0 DEF TypeOK
<1>2. RequestsOK'
  BY <1>0 DEF RequestsOK, RequestOK
<1>3. OneSubject'
  BY <1>0 DEF OneSubject
<1>4. AgesOK'
  BY <1>0 DEF AgesOK
<1>5. NeverShort'
  <2>1. \A d \in Buckets, t \in Subjects : Serves(d, t)' => Serves(d, t)
    BY <1>0, RateLimiterAssumption DEF Serves
  <2>2. \A b \in Buckets : Worth(b)' = Worth(b)
    BY <1>0 DEF Worth
  <2> QED BY <1>0, <2>1, <2>2 DEF NeverShort
<1> QED BY <1>1, <1>2, <1>3, <1>4, <1>5

(* Time refills a bucket no more slowly than the ideal one.                 *)
LEMMA TickStep ==
  ASSUME LimiterInv, Tick
  PROVE  LimiterInv'
<1> USE DEF LimiterInv
<1>0. /\ UNCHANGED <<buckets, tokens, pc, who, found>>
      /\ stamp' = [r \in Requests |-> IF pc[r] = "idle" THEN 0 ELSE stamp[r] + 1]
      /\ level' = [s \in Subjects |-> Lesser(Burst, level[s] + Rate)]
      /\ \A r \in Requests : pc[r] # "idle" => stamp[r] < MaxDelay
      /\ lastFill' = [b \in Buckets |-> IF b \in Unused THEN lastFill[b] ELSE Older(lastFill[b])]
      /\ lastUsed' = [b \in Buckets |-> IF b \in Unused THEN lastUsed[b] ELSE Older(lastUsed[b])]
  BY DEF Tick
<1>1. TypeOK'
  <2>1. stamp' \in [Requests -> 0..MaxDelay]
    BY <1>0, Constants DEF TypeOK
  <2>2. level' \in [Subjects -> Int]
    BY <1>0, Constants DEF TypeOK, Lesser
  <2>3. \A a \in 0..MaxAge : Older(a) \in 0..MaxAge
    BY Constants DEF Older, Lesser
  <2>4. lastFill' \in [Buckets -> 0..MaxAge] /\ lastUsed' \in [Buckets -> 0..MaxAge]
    BY <1>0, <2>3 DEF TypeOK
  <2> QED BY <1>0, <2>1, <2>2, <2>4 DEF TypeOK
<1>2. RequestsOK'
  BY <1>0 DEF RequestsOK, RequestOK
<1>3. OneSubject'
  BY <1>0 DEF OneSubject
<1>4. AgesOK'
  <2> SUFFICES ASSUME NEW b \in Buckets
               PROVE  lastFill'[b] <= lastUsed'[b] /\ lastUsed'[b] <= lastFill'[b] + MaxDelay
    BY DEF AgesOK
  <2>1. lastFill[b] \in 0..MaxAge /\ lastUsed[b] \in 0..MaxAge
    BY DEF TypeOK
  <2>2. lastFill[b] <= lastUsed[b] /\ lastUsed[b] <= lastFill[b] + MaxDelay
    BY DEF AgesOK
  <2> QED BY <1>0, <2>1, <2>2, Constants DEF Older, Lesser
<1>5. NeverShort'
  <2> SUFFICES ASSUME NEW s \in Subjects
               PROVE  /\ level'[s] <= Burst
                      /\ \A b \in Buckets : Serves(b, s)' => level'[s] <= Worth(b)'
    BY DEF NeverShort
  <2>1. level[s] \in Int /\ level'[s] = Lesser(Burst, level[s] + Rate)
    BY <1>0 DEF TypeOK
  <2>2. level'[s] <= Burst
    BY <2>1, Constants DEF Lesser
  <2>3. ASSUME NEW b \in Buckets, Serves(b, s)' PROVE level'[s] <= Worth(b)'
    <3>1. Serves(b, s) /\ b \notin Unused
      BY <1>0, <2>3 DEF Serves, Unused
    <3>2. Worth(b)' >= Lesser(Worth(b) + Rate, Due(MaxAge)) /\ level[s] <= Worth(b)
      BY <3>1, Ticked DEF NeverShort
    <3>3. Due(MaxAge) >= Burst
      <4>1. PICK m \in Nat : m = MaxAge - MaxDelay /\ m * Rate >= Burst
        BY RateLimiterAssumption, Constants
      <4>2. Due(m) <= Due(MaxAge)
        BY <4>1, Constants, DueLess
      <4> QED BY <4>1, <4>2, DueNat, Constants DEF Due
    <3>4. Worth(b) \in Int /\ Worth(b)' \in Int /\ Due(MaxAge) \in Int
      <4>1. lastFill[b] \in Nat /\ lastFill'[b] \in Nat /\ tokens[b] \in Nat /\ tokens'[b] \in Nat
        BY <1>1, Constants DEF TypeOK
      <4> QED BY <4>1, DueNat, Constants DEF Worth, Due
    <3> QED BY <2>1, <3>2, <3>3, <3>4, Constants DEF Lesser
  <2> QED BY <2>2, <2>3
<1> QED BY <1>1, <1>2, <1>3, <1>4, <1>5

(* Every step keeps the invariant.                                          *)
LEMMA LimiterStep == LimiterInv /\ [Next]_vars => LimiterInv'
<1>1. LimiterInv /\ UNCHANGED vars => LimiterInv'
  BY DEF vars, bucketVars, requestVars, LimiterInv, TypeOK, RequestsOK, RequestOK, OneSubject,
     AgesOK, NeverShort, Serves, Worth
<1> QED BY <1>1, ArriveStep, FindStep, CreateStep, ConsumeStep, CleanupStep, TickStep
        DEF Next, RequestStep

(* The part of the invariant that no length of EvictAfter is needed for.    *)
LEMMA LimiterInvariant == Spec => []LimiterInv
<1> QED BY LimiterInit, LimiterStep, PTL DEF Spec
-----------------------------------------------------------------------------
(* allow never leaves a bucket below zero or above its capacity, and no     *)
(* request is ever without the bucket it is going to take from.             *)
THEOREM LimiterTypes == Spec => []TypeOK
<1>1. LimiterInv => TypeOK
  BY DEF LimiterInv
<1> QED BY <1>1, LimiterInvariant, PTL

(* allow refuses nobody who has kept to the rate.                           *)
THEOREM RefusedFairly == Spec => RefusedOnlyWhenSpent
<1>1. ASSUME LimiterInv, Next, NEW r \in Requests,
             pc[r] = "consume", pc'[r] = "idle", level' = level
      PROVE  level[who[r]] < Unit + MaxDelay * Rate
  <2> USE <1>1 DEF LimiterInv
  <2>1. Consume(r)
    <3>1. pc \in [Requests -> {"idle", "lookup", "consume"}]
      BY DEF TypeOK
    <3> QED BY <1>1, <3>1 DEF Next, RequestStep, Arrive, FindBucket, CreateBucket, Consume,
               Cleanup, Tick, requestVars
  <2>2. PICK b \in Buckets, s \in Subjects, c \in {0, Unit} :
          /\ b = found[r] /\ s = who[r]
          /\ level' = [level EXCEPT ![s] = level[s] - c]
          /\ c = 0 => Refilled(b, stamp[r]) < Unit
    BY <2>1, Consumed
  <2>3. level[s] \in Int /\ level[s] <= Burst /\ level[s] <= Worth(b)
    BY <1>1, <2>2 DEF NeverShort, Serves, TypeOK
  <2>4. c = 0
    <3>1. level'[s] = level[s] - c
      BY <2>2 DEF TypeOK
    <3> QED BY <1>1, <2>3, <3>1, Constants
  <2>5. /\ stamp[r] \in Nat /\ stamp[r] <= MaxDelay
        /\ lastFill[b] \in Nat /\ tokens[b] \in Nat
    BY Constants DEF TypeOK
  <2>6. /\ Due(stamp[r]) <= Due(MaxDelay) /\ Due(stamp[r]) \in Nat
        /\ Due(MaxDelay) \in Nat /\ Due(lastFill[b]) \in Nat
    BY <2>5, DueNat, DueLess, Constants
  <2>7. CASE lastFill[b] > stamp[r]
    <3>1. Lesser(Burst, Worth(b) - Due(stamp[r])) < Unit
      BY <2>2, <2>4, <2>5, <2>7, RefilledIs
    <3>2. level[s] < Unit + Due(MaxDelay)
      BY <2>3, <2>5, <2>6, <3>1, Constants DEF Lesser, Worth
    <3> QED BY <2>2, <3>2 DEF Due
  <2>8. CASE ~(lastFill[b] > stamp[r])
    <3>1. tokens[b] < Unit
      BY <2>2, <2>4, <2>5, <2>8, RefilledIs
    <3>2. Due(lastFill[b]) <= Due(MaxDelay)
      BY <2>5, <2>8, DueLess, Constants
    <3>3. level[s] < Unit + Due(MaxDelay)
      BY <2>3, <2>5, <2>6, <3>1, <3>2, Constants DEF Worth
    <3> QED BY <2>2, <3>3 DEF Due
  <2> QED BY <2>7, <2>8
<1>2. LimiterInv /\ [Next]_vars =>
        [\A r \in Requests : pc[r] = "consume" /\ pc'[r] = "idle" /\ level' = level
           => level[who[r]] < Unit + MaxDelay * Rate]_vars
  BY <1>1
<1> QED BY <1>2, LimiterInvariant, PTL DEF Spec, RefusedOnlyWhenSpent

(* Cleanup resets nobody's effective rate: with an eviction as long as a    *)
(* full refill takes, and the delay of a request, only full buckets go.     *)
THEOREM EvictionHarmless ==
  ASSUME (EvictAfter + 1 - MaxDelay) * Rate >= Burst
  PROVE  Spec => EvictionForgetsNothing
<1>1. ASSUME LimiterInv, Next, NEW s \in Subjects, buckets[s] # None, buckets'[s] = None
      PROVE  Refilled(buckets[s], 0) = Burst
  <2> USE <1>1 DEF LimiterInv
  <2>1. PICK b \in Buckets : b = buckets[s]
    BY <1>1 DEF TypeOK
  <2>2. lastUsed[b] > EvictAfter
    <3>1. CASE Cleanup
      BY <1>1, <2>1, <3>1 DEF Cleanup, TypeOK, SweepAge
    <3>2. ASSUME NEW r \in Requests, CreateBucket(r) PROVE FALSE
      BY <1>1, <3>2, Created, RateLimiterAssumption DEF TypeOK
    <3> QED BY <1>1, <3>1, <3>2 DEF Next, RequestStep, Arrive, FindBucket, Consume, Tick
  <2>3. /\ lastFill[b] \in Nat /\ tokens[b] \in Nat /\ lastUsed[b] \in Nat
        /\ lastFill[b] >= EvictAfter + 1 - MaxDelay
    BY <2>2, Constants DEF TypeOK, AgesOK
  <2>4. EvictAfter + 1 - MaxDelay > 0
    BY Constants
  <2>5. PICK m \in Nat : m = EvictAfter + 1 - MaxDelay /\ m * Rate >= Burst /\ m > 0
    BY <2>4, Constants
  <2>6. Due(m) >= Burst /\ Due(m) <= Due(lastFill[b]) /\ Due(m) \in Nat /\ Due(lastFill[b]) \in Nat
    BY <2>3, <2>5, DueLess, DueNat DEF Due
  <2>7. Refilled(b, 0) = Lesser(Burst, Worth(b) - Due(0)) /\ Due(0) = 0
    BY <2>3, <2>5, RefilledIs, Constants DEF Due
  <2>8. Refilled(b, 0) = Burst
    BY <2>3, <2>6, <2>7, Constants DEF Lesser, Worth
  <2> QED BY <2>1, <2>8
<1>2. LimiterInv /\ [Next]_vars =>
        [\A s \in Subjects : buckets[s] # None /\ buckets'[s] = None
           => Refilled(buckets[s], 0) = Burst]_vars
  BY <1>1
<1> QED BY <1>2, LimiterInvariant, PTL DEF Spec, EvictionForgetsNothing
-----------------------------------------------------------------------------
(* What it means for EvictAfter to be long enough: a bucket that is evicted *)
(* was worth the slack more than Burst, and was not in use by anybody whose *)
(* clock reading is not older than MaxDelay.                                *)
LongEnough == (EvictAfter - 2 * MaxDelay) * Rate >= Burst + Slack

LEMMA EvictedLongAgo ==
  ASSUME LongEnough, NEW u \in Nat, u > EvictAfter, NEW f \in Nat, u <= f + MaxDelay
  PROVE  /\ Due(f) >= Burst + Price(Requests) + 2 * Due(MaxDelay)
         /\ u > 2 * MaxDelay
<1>1. Price(Requests) \in Nat /\ Due(MaxDelay) \in Nat /\ Due(f) \in Nat
  BY PriceFacts, DueNat, Constants
<1>2. Slack = Price(Requests) + Due(MaxDelay)
  BY DEF Slack, Price, Due
<1>3. EvictAfter - 2 * MaxDelay > 0
  <2>1. PICK m \in Int : m = EvictAfter - 2 * MaxDelay /\ m * Rate > 0
    BY <1>1, <1>2, Constants DEF LongEnough
  <2>2. m > 0
    BY <2>1, Constants
  <2> QED BY <2>1, <2>2
<1>4. PICK m \in Nat : m = EvictAfter - 2 * MaxDelay
  BY <1>3, Constants
<1>5. Due(m) \in Nat /\ Due(m) >= Burst + Price(Requests) + Due(MaxDelay)
  BY <1>1, <1>2, <1>4, DueNat, Constants DEF LongEnough, Due
<1>6. m > MaxDelay
  BY <1>1, <1>4, <1>5, DueLess, Constants
<1>7. PICK n \in Nat : f = m + n /\ n >= MaxDelay
  <2>1. f - m \in Nat /\ f - m >= MaxDelay /\ f = m + (f - m)
    BY <1>4, <1>6, Constants
  <2> QED BY <2>1
<1>8. Due(f) = Due(m) + Due(n)
  BY <1>7, Constants DEF Due
<1>9. Due(n) \in Nat /\ Due(n) >= Due(MaxDelay)
  BY <1>7, DueLess, DueNat, Constants
<1> QED BY <1>1, <1>4, <1>5, <1>6, <1>8, <1>9, Constants

(* The numbers PaidOK is about.                                             *)
LEMMA Numbers ==
  ASSUME TypeOK
  PROVE  /\ \A b \in Buckets : Worth(b) \in Nat /\ lastFill[b] \in Nat /\ lastUsed[b] \in Nat
                               /\ tokens[b] \in 0..Burst
         /\ \A s \in Subjects : level[s] \in Int
         /\ \A r \in Requests : stamp[r] \in Nat /\ stamp[r] <= MaxDelay
         /\ Due(MaxDelay) \in Nat /\ Price(Requests) \in Nat
         /\ \A s \in Subjects : Price(Free(s)) \in Nat /\ Price(Free(s)) <= Price(Requests)
<1>1. \A b \in Buckets : lastFill[b] \in Nat /\ lastUsed[b] \in Nat /\ tokens[b] \in 0..Burst
  BY Constants DEF TypeOK
<1>2. \A b \in Buckets : Worth(b) \in Nat
  BY <1>1, DueNat, Constants DEF Worth
<1>3. \A s \in Subjects : Free(s) \in SUBSET Requests
  BY DEF Free
<1>4. Due(MaxDelay) \in Nat /\ Price(Requests) \in Nat
  BY DueNat, Constants, PriceFacts
<1>5. \A s \in Subjects : Price(Free(s)) \in Nat /\ Price(Free(s)) <= Price(Requests)
  BY <1>3, PriceFacts
<1>6. \A r \in Requests : stamp[r] \in Nat /\ stamp[r] <= MaxDelay
  BY Constants DEF TypeOK
<1> QED BY <1>1, <1>2, <1>4, <1>5, <1>6 DEF TypeOK

(* Only Cleanup makes a bucket forgotten while a request holds it, and its  *)
(* successor is created by a request with a recent clock reading.           *)
LEMMA YoungStep ==
  ASSUME LimiterInv, LimiterInv', [Next]_vars, YoungOK
  PROVE  YoungOK'
<1> USE DEF LimiterInv
<1> SUFFICES ASSUME NEW s \in Subjects, NEW q \in Requests, q \notin Free(s)', buckets'[s] # None
             PROVE  lastUsed'[buckets'[s]] <= stamp'[q] + MaxDelay
  BY DEF YoungOK
<1>0. /\ pc'[q] = "consume" /\ who'[q] = s /\ found'[q] # buckets'[s]
      /\ stamp'[q] \in Nat
  BY Numbers, Constants DEF Free, TypeOK
<1>1. ASSUME UNCHANGED <<buckets, lastUsed, stamp>>, q \notin Free(s)
      PROVE  lastUsed'[buckets'[s]] <= stamp'[q] + MaxDelay
  BY <1>1 DEF YoungOK
<1>2. ASSUME NEW r \in Requests, (\E t \in Subjects : Arrive(r, t)) \/ FindBucket(r)
      PROVE  lastUsed'[buckets'[s]] <= stamp'[q] + MaxDelay
  <2>1. q # r
    BY <1>0, <1>2 DEF Arrive, FindBucket, TypeOK
  <2>2. q \notin Free(s)
    BY <1>0, <1>2, <2>1 DEF Arrive, FindBucket, Free, TypeOK
  <2> QED BY <1>1, <1>2, <2>2 DEF Arrive, FindBucket, bucketVars
<1>3. ASSUME NEW r \in Requests, CreateBucket(r)
      PROVE  lastUsed'[buckets'[s]] <= stamp'[q] + MaxDelay
  <2>1. PICK b \in Buckets :
          /\ who[r] \in Subjects /\ b \in Unused /\ buckets[who[r]] = None
          /\ buckets' = [buckets EXCEPT ![who[r]] = b]
          /\ found' = [found EXCEPT ![r] = b]
          /\ lastUsed' = [lastUsed EXCEPT ![b] = stamp[r]]
    BY <1>3, Created
  <2>2. UNCHANGED <<who, stamp>> /\ pc' = [pc EXCEPT ![r] = "consume"]
    BY <1>3 DEF CreateBucket
  <2>3. CASE s = who[r]
    <3>1. lastUsed'[buckets'[s]] = stamp[r]
      BY <2>1, <2>3 DEF TypeOK
    <3> QED BY <1>0, <3>1, Numbers, Constants
  <2>4. CASE s # who[r]
    <3>1. buckets'[s] = buckets[s] /\ buckets[s] # b
      BY <2>1, <2>4 DEF TypeOK, Unused
    <3>2. q # r
      BY <1>0, <2>2, <2>4
    <3>3. q \notin Free(s)
      BY <1>0, <2>1, <2>2, <3>1, <3>2 DEF Free, TypeOK
    <3>4. lastUsed'[buckets[s]] = lastUsed[buckets[s]]
      BY <2>1, <3>1 DEF TypeOK
    <3> QED BY <2>2, <3>1, <3>3, <3>4 DEF YoungOK
  <2> QED BY <2>3, <2>4
<1>4. ASSUME NEW r \in Requests, Consume(r)
      PROVE  lastUsed'[buckets'[s]] <= stamp'[q] + MaxDelay
  <2>1. /\ buckets' = buckets /\ lastUsed' = [lastUsed EXCEPT ![found[r]] = stamp[r]]
        /\ pc' = [pc EXCEPT ![r] = "idle"] /\ found' = [found EXCEPT ![r] = None]
        /\ who' = [who EXCEPT ![r] = None] /\ stamp' = [stamp EXCEPT ![r] = 0]
    BY <1>4 DEF Consume
  <2>2. q # r
    BY <1>0, <2>1 DEF TypeOK
  <2>3. q \notin Free(s) /\ stamp'[q] = stamp[q]
    BY <1>0, <2>1, <2>2 DEF Free, TypeOK
  <2>4. CASE buckets[s] = found[r]
    <3>1. lastUsed'[buckets'[s]] = stamp[r]
      BY <1>0, <2>1, <2>4 DEF TypeOK
    <3> QED BY <1>0, <3>1, Numbers, Constants
  <2>5. CASE buckets[s] # found[r]
    <3>1. lastUsed'[buckets'[s]] = lastUsed[buckets[s]]
      BY <2>1, <2>5 DEF TypeOK
    <3> QED BY <2>1, <2>3, <3>1 DEF YoungOK
  <2> QED BY <2>4, <2>5
<1>5. CASE Cleanup
  <2>1. buckets'[s] = buckets[s] /\ UNCHANGED <<bucketVars, requestVars>>
    BY <1>0, <1>5 DEF Cleanup
  <2>2. q \notin Free(s)
    BY <1>0, <2>1 DEF Free, requestVars
  <2> QED BY <2>1, <2>2 DEF YoungOK, bucketVars, requestVars
<1>6. CASE Tick
  <2>1. UNCHANGED <<buckets, pc, who, found>> /\ stamp'[q] = stamp[q] + 1
    BY <1>0, <1>6 DEF Tick
  <2>2. q \notin Free(s)
    BY <1>0, <2>1 DEF Free
  <2>3. PICK b \in Buckets : b = buckets[s]
    BY <2>1 DEF TypeOK
  <2>4. lastUsed'[b] <= lastUsed[b] + 1
    BY <1>6, <2>3, Ticked, Numbers, Constants DEF Older, Lesser
  <2>5. lastUsed[b] <= stamp[q] + MaxDelay
    BY <2>1, <2>2, <2>3 DEF YoungOK
  <2>6. lastUsed[b] \in Nat /\ lastUsed'[b] \in Nat /\ stamp[q] \in Nat
    BY Numbers, Constants DEF TypeOK
  <2> QED BY <2>1, <2>3, <2>4, <2>5, <2>6, Constants
<1>7. CASE UNCHANGED vars
  <2>1. q \notin Free(s)
    BY <1>0, <1>7 DEF vars, requestVars, Free
  <2> QED BY <1>1, <1>7, <2>1 DEF vars, bucketVars, requestVars
<1> QED BY <1>2, <1>3, <1>4, <1>5, <1>6, <1>7 DEF Next, RequestStep

(* Where nothing of a subject changes, its account does not.                *)
LEMMA SamePaid ==
  ASSUME TypeOK, NEW s \in Subjects, Paid(s),
         buckets'[s] = buckets[s], level'[s] = level[s], Free(s)' = Free(s),
         \A b \in Buckets : b = buckets[s] => Worth(b)' = Worth(b)
  PROVE  Paid(s)'
<1>1. CASE buckets[s] = None
  BY <1>1 DEF Paid, Price
<1>2. CASE buckets[s] # None
  <2>1. PICK b \in Buckets : b = buckets[s]
    BY <1>2 DEF TypeOK
  <2>2. Worth(buckets[s])' = Worth(buckets[s])
    BY <2>1 DEF Worth
  <2> QED BY <1>2, <2>2 DEF Paid, Price, Due
<1> QED BY <1>1, <1>2

(* Every step keeps the account: only a request that leaves a forgotten     *)
(* bucket adds to the debt, and Cleanup finds every debt paid back.         *)
LEMMA PaidStep ==
  ASSUME LimiterInv, LimiterInv', [Next]_vars, YoungOK, PaidOK, LongEnough
  PROVE  PaidOK'
<1> USE DEF LimiterInv
<1> SUFFICES ASSUME NEW s \in Subjects PROVE Paid(s)'
  BY DEF PaidOK
<1>0. Paid(s)
  BY DEF PaidOK
<1>1. ASSUME NEW r \in Requests, (\E t \in Subjects : Arrive(r, t)) \/ FindBucket(r)
      PROVE  Paid(s)'
  <2>1. Free(s)' = Free(s)
    BY <1>1 DEF Arrive, FindBucket, Free, TypeOK
  <2>2. UNCHANGED <<buckets, bucketVars, level>>
    BY <1>1 DEF Arrive, FindBucket
  <2> QED BY <1>0, <2>1, <2>2, SamePaid DEF bucketVars, Worth
<1>2. ASSUME NEW r \in Requests, CreateBucket(r) PROVE Paid(s)'
  <2>1. PICK b \in Buckets :
          /\ who[r] \in Subjects /\ b \in Unused /\ buckets[who[r]] = None
          /\ buckets' = [buckets EXCEPT ![who[r]] = b]
          /\ found' = [found EXCEPT ![r] = b]
          /\ Worth(b)' = Burst + Due(stamp[r])
          /\ \A d \in Buckets : d # b => Worth(d)' = Worth(d)
    BY <1>2, Created
  <2>2. /\ pc[r] = "lookup" /\ pc' = [pc EXCEPT ![r] = "consume"]
        /\ UNCHANGED <<who, stamp, level>>
    BY <1>2 DEF CreateBucket
  <2>3. Free(s)' = Free(s)
    <3>1. \A q \in Requests : q # r => pc'[q] = pc[q] /\ found'[q] = found[q]
      BY <2>1, <2>2 DEF TypeOK
    <3>2. pc'[r] = "consume" /\ found'[r] = b
      BY <2>1, <2>2 DEF TypeOK
    <3>3. r \in Free(s) /\ r \in Free(s)'
      BY <2>1, <2>2, <3>2 DEF Free, TypeOK
    <3>4. ASSUME NEW q \in Requests, q # r PROVE q \in Free(s) <=> q \in Free(s)'
      <4>1. found[q] # b /\ (pc[q] = "consume" => found[q] # None)
        BY <2>1, RateLimiterAssumption DEF Unused, RequestsOK, RequestOK
      <4>2. buckets'[s] = IF s = who[r] THEN b ELSE buckets[s]
        BY <2>1 DEF TypeOK
      <4> QED BY <2>1, <2>2, <3>1, <3>4, <4>1, <4>2 DEF Free
    <3>5. Free(s) \subseteq Requests /\ Free(s)' \subseteq Requests
      BY DEF Free
    <3> QED BY <3>3, <3>4, <3>5
  <2>4. CASE s # who[r]
    <3>1. buckets'[s] = buckets[s] /\ buckets[s] # b
      BY <2>1, <2>4 DEF TypeOK, Unused
    <3> QED BY <1>0, <2>1, <2>2, <2>3, <3>1, SamePaid
  <2>5. CASE s = who[r]
    <3>1. buckets[s] = None /\ buckets'[s] = b /\ b # None
      BY <2>1, <2>5, RateLimiterAssumption DEF TypeOK
    <3>2. Due(stamp[r]) \in Nat /\ Due(stamp[r]) <= Due(MaxDelay)
      BY Numbers, DueNat, DueLess, Constants
    <3>3. PICK w \in Nat : w = Burst + Due(stamp[r])
      BY <3>2, Constants
    <3>4. Worth(buckets[s])' = w
      BY <2>1, <3>1, <3>3 DEF Worth
    <3>5. level[s] >= Burst - Price(Free(s)) /\ w <= Burst + Due(MaxDelay)
      <4>1. level[s] >= Burst - Price(Free(s))
        BY <1>0, <3>1 DEF Paid
      <4> QED BY <3>2, <3>3, <4>1, Numbers, Constants
    <3>6. Due(MaxDelay)' = Due(MaxDelay) /\ Price(Free(s))' = Price(Free(s))
          /\ Price(Requests)' = Price(Requests)
      BY <2>3 DEF Due, Price
    <3>7. level[s] >= Lesser(w - Due(MaxDelay), Burst) - Price(Free(s))
      BY <3>5, Numbers, Constants DEF Lesser
    <3>8. Free(s) = Requests =>
            level[s] >= Lesser(Burst, w - 2 * Due(MaxDelay) - Price(Requests))
      BY <3>5, Numbers, Constants DEF Lesser
    <3> QED BY <2>2, <2>3, <3>1, <3>4, <3>6, <3>7, <3>8 DEF Paid
  <2> QED BY <2>4, <2>5
<1>3. ASSUME NEW r \in Requests, Consume(r) PROVE Paid(s)'
  <2>1. PICK b \in Buckets, t \in Subjects, c \in {0, Unit} :
          /\ b = found[r] /\ t = who[r]
          /\ \A d \in Buckets : d # b => Worth(d)' = Worth(d)
          /\ level' = [level EXCEPT ![t] = level[t] - c]
          /\ Worth(b)' = (IF lastFill[b] > stamp[r]
                            THEN Lesser(Worth(b), Burst + Due(stamp[r]))
                            ELSE Worth(b)) - c
    BY <1>3, Consumed
  <2>2. /\ buckets' = buckets /\ pc[r] = "consume"
        /\ pc' = [pc EXCEPT ![r] = "idle"] /\ who' = [who EXCEPT ![r] = None]
        /\ found' = [found EXCEPT ![r] = None]
    BY <1>3 DEF Consume
  <2>3. Free(s)' = Free(s) \cup {r}
    BY <2>2 DEF Free, TypeOK
  <2>4. c \in Nat /\ c <= Unit
    BY Constants
  <2>5. CASE s # t
    <3>1. r \in Free(s) /\ buckets[s] # b
      BY <2>1, <2>2, <2>5, RateLimiterAssumption DEF Free, OneSubject
    <3>2. Free(s)' = Free(s) /\ level'[s] = level[s]
      BY <2>1, <2>3, <2>5, <3>1 DEF TypeOK
    <3> QED BY <1>0, <2>1, <2>2, <3>1, <3>2, SamePaid
  <2>6. CASE s = t /\ buckets[s] = b
    <3>1. r \in Free(s)
      BY <2>1, <2>2, <2>6 DEF Free
    <3>2. Free(s)' = Free(s) /\ level'[s] = level[s] - c /\ b # None
      BY <2>1, <2>3, <2>6, <3>1, RateLimiterAssumption DEF TypeOK
    <3>3. Worth(b)' <= Worth(b) - c /\ Worth(b)' <= Burst + Due(MaxDelay) - c
      <4>1. Due(stamp[r]) \in Nat /\ Due(stamp[r]) <= Due(MaxDelay)
        BY Numbers, DueNat, DueLess, Constants
      <4>2. CASE lastFill[b] > stamp[r]
        BY <2>1, <2>4, <4>1, <4>2, Numbers, Constants DEF Lesser
      <4>3. CASE ~(lastFill[b] > stamp[r])
        <5>1. Due(lastFill[b]) \in Nat /\ Due(lastFill[b]) <= Due(stamp[r])
          BY <4>3, Numbers, DueNat, DueLess
        <5>2. tokens[b] \in 0..Burst
          BY Numbers
        <5>3. Worth(b) <= Burst + Due(stamp[r])
          BY <4>1, <5>1, <5>2, Constants DEF Worth
        <5> QED BY <2>1, <2>4, <4>1, <4>3, <5>3, Numbers, Constants
      <4> QED BY <4>2, <4>3
    <3>4. Worth(buckets[s])' = Worth(b)' /\ Worth(buckets[s]) = Worth(b)
      BY <2>2, <2>6 DEF Worth
    <3>5. Due(MaxDelay)' = Due(MaxDelay) /\ Price(Free(s))' = Price(Free(s))
          /\ Price(Requests)' = Price(Requests)
      BY <3>2 DEF Due, Price
    <3>6. Worth(b) \in Int /\ Worth(b)' \in Int
      BY <2>1, <2>4, Numbers, DueNat, Constants DEF Lesser
    <3>7. level'[s] >= Lesser(Worth(b)' - Due(MaxDelay), Burst) - Price(Free(s))
      <4>1. level[s] >= Lesser(Worth(b) - Due(MaxDelay), Burst) - Price(Free(s))
        BY <1>0, <2>6, <3>2, <3>4 DEF Paid
      <4> QED BY <2>4, <3>2, <3>3, <3>6, <4>1, Numbers, Constants DEF Lesser
    <3>8. Free(s) = Requests =>
            level'[s] >= Lesser(Burst, Worth(b)' - 2 * Due(MaxDelay) - Price(Requests))
      <4>1. Free(s) = Requests =>
              level[s] >= Lesser(Burst, Worth(b) - 2 * Due(MaxDelay) - Price(Requests))
        BY <1>0, <2>6, <3>2, <3>4 DEF Paid
      <4> QED BY <2>4, <3>2, <3>3, <3>6, <4>1, Numbers, Constants DEF Lesser
    <3> QED BY <2>2, <2>6, <3>2, <3>4, <3>5, <3>7, <3>8 DEF Paid
  <2>7. CASE s = t /\ buckets[s] # b
    <3>1. r \notin Free(s) /\ Free(s) \in SUBSET Requests
      BY <2>1, <2>2, <2>7 DEF Free
    <3>2. Price(Free(s)') = Price(Free(s)) + Unit
      BY <2>3, <3>1, PriceFacts
    <3>3. level'[s] = level[s] - c
      BY <2>1, <2>7 DEF TypeOK
    <3>4. Due(MaxDelay)' = Due(MaxDelay) /\ Price(Free(s))' = Price(Free(s)')
          /\ Price(Requests)' = Price(Requests)
      BY DEF Due, Price
    <3>5. CASE buckets[s] = None
      BY <1>0, <2>2, <2>4, <3>2, <3>3, <3>4, <3>5, Numbers, Constants DEF Paid
    <3>6. CASE buckets[s] # None
      <4>1. PICK d \in Buckets : d = buckets[s] /\ d # b
        BY <2>7, <3>6 DEF TypeOK
      <4>2. Worth(buckets[s])' = Worth(d) /\ Worth(buckets[s]) = Worth(d)
        BY <2>1, <2>2, <4>1 DEF Worth
      <4>3. level[s] >= Lesser(Worth(d) - Due(MaxDelay), Burst) - Price(Free(s))
        BY <1>0, <3>6, <4>2 DEF Paid
      <4>4. level'[s] >= Lesser(Worth(d) - Due(MaxDelay), Burst) - Price(Free(s)')
        BY <2>4, <3>2, <3>3, <4>3, Numbers, Constants DEF Lesser
      <4>5. Worth(d) <= Burst + 2 * Due(MaxDelay)
        <5>1. lastUsed[d] <= stamp[r] + MaxDelay
          BY <3>1, <3>6, <4>1 DEF YoungOK
        <5>2. lastFill[d] <= MaxDelay + MaxDelay /\ lastFill[d] \in Nat
          BY <5>1, Numbers, Constants DEF AgesOK
        <5>3. Due(lastFill[d]) <= Due(MaxDelay + MaxDelay) /\ Due(lastFill[d]) \in Nat
          BY <5>2, DueLess, DueNat, Constants
        <5>4. Due(MaxDelay + MaxDelay) = 2 * Due(MaxDelay)
          BY Constants DEF Due
        <5>5. tokens[d] \in 0..Burst
          BY Numbers
        <5> QED BY <5>3, <5>4, <5>5, Numbers, Constants DEF Worth
      <4>6. Free(s)' = Requests =>
              level'[s] >= Lesser(Burst, Worth(d) - 2 * Due(MaxDelay) - Price(Requests))
        BY <4>4, <4>5, <3>2, <3>3, <2>4, Numbers, Constants DEF Lesser
      <4> QED BY <2>2, <3>4, <3>6, <4>2, <4>4, <4>6 DEF Paid
    <3> QED BY <3>5, <3>6
  <2> QED BY <2>5, <2>6, <2>7
<1>4. CASE Cleanup
  <2>1. UNCHANGED <<bucketVars, requestVars, level>>
        /\ buckets'[s] = IF buckets[s] # None /\ lastUsed[buckets[s]] > EvictAfter
                           THEN None ELSE buckets[s]
    BY <1>4 DEF Cleanup, SweepAge
  <2>2. CASE buckets'[s] = buckets[s]
    <3>1. Free(s)' = Free(s)
      BY <2>1, <2>2 DEF Free, requestVars
    <3> QED BY <1>0, <2>1, <2>2, <3>1, SamePaid DEF bucketVars, Worth
  <2>3. CASE buckets'[s] # buckets[s]
    <3>1. PICK b \in Buckets : b = buckets[s] /\ lastUsed[b] > EvictAfter /\ b # None
      BY <2>1, <2>3 DEF TypeOK
    <3>2. Due(lastFill[b]) >= Burst + Price(Requests) + 2 * Due(MaxDelay)
          /\ lastUsed[b] > 2 * MaxDelay
      BY <3>1, EvictedLongAgo, Numbers DEF AgesOK
    <3>3. Free(s) = Requests
      <4>1. ASSUME NEW q \in Requests \ Free(s) PROVE FALSE
        <5>1. lastUsed[b] <= stamp[q] + MaxDelay
          BY <3>1 DEF YoungOK
        <5> QED BY <3>2, <5>1, Numbers, Constants
      <4> QED BY <4>1 DEF Free
    <3>4. level[s] >= Lesser(Burst, Worth(b) - 2 * Due(MaxDelay) - Price(Requests))
      BY <1>0, <3>1, <3>3 DEF Paid
    <3>5. level[s] >= Burst
      <4>1. Due(lastFill[b]) \in Nat /\ tokens[b] \in 0..Burst
        BY Numbers, DueNat
      <4> QED BY <3>2, <3>4, <4>1, Numbers, Constants DEF Lesser, Worth
    <3>6. Price(Free(s)') \in Nat /\ Price(Free(s))' = Price(Free(s)')
      <4>1. Free(s)' \in SUBSET Requests
        BY DEF Free
      <4> QED BY <4>1, PriceFacts DEF Price
    <3>7. buckets'[s] = None /\ level' = level
      BY <2>1, <2>3
    <3> QED BY <3>5, <3>6, <3>7, Numbers, Constants DEF Paid
  <2> QED BY <2>2, <2>3
<1>5. CASE Tick
  <2>1. /\ UNCHANGED <<buckets, pc, who, found>>
        /\ level'[s] = Lesser(Burst, level[s] + Rate)
    BY <1>5 DEF Tick
  <2>2. Free(s)' = Free(s)
    BY <2>1 DEF Free
  <2>3. Due(MaxDelay)' = Due(MaxDelay) /\ Price(Free(s))' = Price(Free(s))
        /\ Price(Requests)' = Price(Requests)
    BY <2>2 DEF Due, Price
  <2>4. CASE buckets[s] = None
    BY <1>0, <2>1, <2>3, <2>4, Numbers, Constants DEF Paid, Lesser
  <2>5. CASE buckets[s] # None
    <3>1. PICK b \in Buckets : b = buckets[s]
      BY <2>5 DEF TypeOK
    <3>2. Worth(buckets[s])' = Worth(b)' /\ Worth(buckets[s]) = Worth(b)
      BY <2>1, <3>1 DEF Worth
    <3>3. Worth(b)' <= Worth(b) + Rate /\ Worth(b)' \in Int
      <4>1. lastFill'[b] \in Nat /\ tokens'[b] \in Nat
        BY Constants DEF TypeOK
      <4> QED BY <1>5, <4>1, Ticked, DueNat DEF Worth, Due
    <3>4. level'[s] >= Lesser(Worth(b)' - Due(MaxDelay), Burst) - Price(Free(s))
      <4>1. level[s] >= Lesser(Worth(b) - Due(MaxDelay), Burst) - Price(Free(s))
        BY <1>0, <2>5, <3>2 DEF Paid
      <4> QED BY <2>1, <3>3, <4>1, Numbers, Constants DEF Lesser
    <3>5. Free(s) = Requests =>
            level'[s] >= Lesser(Burst, Worth(b)' - 2 * Due(MaxDelay) - Price(Requests))
      <4>1. Free(s) = Requests =>
              level[s] >= Lesser(Burst, Worth(b) - 2 * Due(MaxDelay) - Price(Requests))
        BY <1>0, <2>5, <3>2 DEF Paid
      <4> QED BY <2>1, <3>3, <4>1, Numbers, Constants DEF Lesser
    <3> QED BY <2>1, <2>2, <2>3, <2>5, <3>2, <3>4, <3>5 DEF Paid
  <2> QED BY <2>4, <2>5
<1>6. CASE UNCHANGED vars
  <2>1. Free(s)' = Free(s)
    BY <1>6 DEF vars, requestVars, Free
  <2> QED BY <1>0, <1>6, <2>1, SamePaid DEF vars, bucketVars, Worth
<1> QED BY <1>1, <1>2, <1>3, <1>4, <1>5, <1>6 DEF Next, RequestStep

(* No more is granted than Burst, the refill and the slack, over any window *)
(* and for any traffic, whatever Cleanup forgets under requests in flight.  *)
THEOREM BucketsBounded == Spec => []OverdraftBounded
<1>1. CASE LongEnough
  <2> DEFINE IInv == LimiterInv /\ YoungOK /\ PaidOK
  <2>1. Init => IInv
    <3> SUFFICES ASSUME Init PROVE IInv
      OBVIOUS
    <3>1. LimiterInv
      BY LimiterInit
    <3>2. YoungOK
      BY DEF Init, YoungOK
    <3>3. PaidOK
      BY <3>1, Numbers, Constants DEF Init, PaidOK, Paid, LimiterInv
    <3> QED BY <3>1, <3>2, <3>3
  <2>2. IInv /\ [Next]_vars => IInv'
    BY <1>1, LimiterStep, YoungStep, PaidStep
  <2>3. IInv => OverdraftBounded
    <3> SUFFICES ASSUME IInv, NEW s \in Subjects PROVE level[s] >= 0 - Slack
      BY DEF OverdraftBounded
    <3>1. Slack = Price(Requests) + Due(MaxDelay)
      BY DEF Slack, Price, Due
    <3>2. CASE buckets[s] = None
      BY <3>1, <3>2, Numbers, Constants DEF PaidOK, Paid, LimiterInv
    <3>3. CASE buckets[s] # None
      <4>1. PICK b \in Buckets : b = buckets[s]
        BY <3>3 DEF LimiterInv, TypeOK
      <4>2. level[s] >= Lesser(Worth(b) - Due(MaxDelay), Burst) - Price(Free(s))
        BY <3>3, <4>1 DEF PaidOK, Paid
      <4> QED BY <3>1, <4>2, Numbers, Constants DEF LimiterInv, Lesser
    <3> QED BY <3>2, <3>3
  <2> QED BY <2>1, <2>2, <2>3, PTL DEF Spec
<1>2. CASE ~LongEnough
  <2>1. OverdraftBounded
    BY <1>2 DEF OverdraftBounded, LongEnough
  <2> QED BY <2>1, PTL
<1> QED BY <1>1, <1>2
=============================================================================
