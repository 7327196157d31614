-------------------------- MODULE RunnerPool_proofs --------------------------
(***************************************************************************)
(* What RunnerPool guarantees for any number of handlers, subjects and     *)
(* instances, however long Start and the use of a runner take and whenever *)
(* Close comes.  What a request may rely on ends with the idle timeout     *)
(* after its lookup, which is part of the properties themselves.           *)
(***************************************************************************)
EXTENDS RunnerPool, TLAPS

Busy(h) == pc[h] # "idle"
Key(h)  == PartitionKey(who[h])

(* What a handler knows between its critical sections.  Its instance is at  *)
(* least as recently used as the handler looked it up.                      *)
HandlerOK(h) ==
  /\ Busy(h) => /\ warm = "ready"
                /\ inst[h] \in Insts /\ who[h] \in Subjects
                /\ lastUsed[inst[h]] <= held[h]
                /\ proc[inst[h]] # "unbuilt"
  /\ pc[h] = "starting" => once[inst[h]] = "running"
  /\ pc[h] = "use" => started[inst[h]]
HandlersOK == \A h \in Handlers : HandlerOK(h)

(* One goroutine at a time runs Start, the one that entered startOnce.      *)
OneStarter ==
  /\ \A g, h \in Handlers :
       pc[g] = "starting" /\ pc[h] = "starting" /\ inst[g] = inst[h] => g = h
  /\ \A i \in Insts :
       once[i] = "running" => \E h \in Handlers : pc[h] = "starting" /\ inst[h] = i

(* How startOnce, its outcome and the process of an instance go together.   *)
InstOK(i) ==
  /\ once[i] = "new" /\ i # WarmInst => proc[i] \in {"unbuilt", "built"}
  /\ once[i] = "running" => proc[i] = "starting"
  /\ once[i] = "done" => proc[i] \in {"live", "stopping", "gone"}
  /\ started[i] => once[i] = "done"
  /\ startErr[i] <=> once[i] = "done" /\ ~started[i]
  /\ startErr[i] => proc[i] = "gone"
InstsOK == \A i \in Insts : InstOK(i)

(* The instance of the warm-up is nobody's before it is published, which    *)
(* happens in the shared mode only.                                         *)
WarmOK ==
  /\ proc[WarmInst] # "unbuilt"
  /\ warm = "new" => proc[WarmInst] = "built"
  /\ warm = "starting" => proc[WarmInst] = "starting"
  /\ warm = "stopping" => proc[WarmInst] = "stopping" /\ ~shareSafe
  /\ warm # "ready" => instances = [k \in Keys |-> None] /\ ~closed
  /\ IF warm = "ready" /\ shareSafe THEN once[WarmInst] = "done"
     ELSE /\ once[WarmInst] = "new"
          /\ \A k \in Keys : instances[k] # WarmInst
          /\ \A h \in Handlers : inst[h] # WarmInst
  /\ warm \in {"ready", "failed", "stuck"} /\ ~shareSafe => proc[WarmInst] = "gone"
  /\ warm \in {"failed", "stuck"} => proc[WarmInst] = "gone"

(* An instance serves one partition: the map and the handlers agree on it.  *)
OnePartition ==
  /\ \A k, l \in Keys : instances[k] = instances[l] /\ instances[k] # None => k = l
  /\ \A k \in Keys : instances[k] # None => proc[instances[k]] # "unbuilt"
  /\ \A k \in Keys : instances[k] # None => (k = SharedKey <=> shareSafe)
  /\ \A h \in Handlers, k \in Keys : Busy(h) /\ instances[k] = inst[h] => k = Key(h)
  /\ \A g, h \in Handlers : Busy(g) /\ Busy(h) /\ inst[g] = inst[h] => Key(g) = Key(h)

(* A sweeper has what it took off the map, and only stops what was started. *)
SweeperOK(w) ==
  /\ \A i \in todo[w] : ~Pooled(i) /\ proc[i] # "unbuilt"
  /\ at[w] # None => ~Pooled(at[w]) /\ started[at[w]]
  /\ warm # "ready" \/ (w = "close" /\ ~closed) => todo[w] = {} /\ at[w] = None
SweepersOK == \A w \in Sweepers : SweeperOK(w)

PoolInv ==
  /\ TypeOK /\ HandlersOK /\ OneStarter /\ InstsOK /\ WarmOK /\ OnePartition /\ SweepersOK

(* For the idle timeout after its lookup the instance a handler holds is    *)
(* the one on the map, until Close ...                                      *)
InTime(h) == Busy(h) /\ held[h] <= PoolIdle
Kept ==
  \A h \in Handlers : InTime(h) /\ ~closed => instances[Key(h)] = inst[h]

(* ... and requests of one partition get one instance.                      *)
SameInstance ==
  \A g, h \in Handlers : InTime(g) /\ InTime(h) /\ Key(g) = Key(h) => inst[g] = inst[h]
-----------------------------------------------------------------------------
(* Partitions are keys, whatever the mode.                                  *)
LEMMA PartitionIsKey ==
  ASSUME TypeOK, NEW s \in Subjects
  PROVE  /\ PartitionKey(s) \in Keys
         /\ PartitionKey(s) = SharedKey <=> shareSafe
  BY RunnerPoolAssumption DEF TypeOK, PartitionKey, Keys

(* The instance a lookup ends with: the one on the map, or one never built. *)
LEMMA LookedUp ==
  ASSUME TypeOK, NEW h \in Handlers, NEW s \in Subjects, Lookup(h, s)
  PROVE  \E i \in Insts :
           /\ IF instances[PartitionKey(s)] = None THEN proc[i] = "unbuilt"
              ELSE instances[PartitionKey(s)] = i
           /\ instances' = [instances EXCEPT ![PartitionKey(s)] = i]
           /\ proc' = [proc EXCEPT ![i] = IF @ = "unbuilt" THEN "built" ELSE @]
           /\ lastUsed' = [lastUsed EXCEPT ![i] = 0]
           /\ inst' = [inst EXCEPT ![h] = i]
  <1> DEFINE k == PartitionKey(s)
             i == IF instances[k] # None THEN instances[k] ELSE CHOOSE j \in Unbuilt : TRUE
  <1>1. i \in Insts /\ (instances[k] = None => proc[i] = "unbuilt")
    <2>1. CASE instances[k] # None
      BY <2>1, PartitionIsKey DEF TypeOK
    <2>2. CASE instances[k] = None
      <3>1. Unbuilt # {}
        BY <2>2 DEF Lookup
      <3>2. i \in Unbuilt
        BY <2>2, <3>1
      <3> QED BY <3>2, <2>2 DEF Unbuilt
    <2> QED BY <2>1, <2>2
  <1> QED BY <1>1 DEF Lookup

(* No time is longer than Long, and PoolIdle is shorter.                    *)
LEMMA Times ==
  /\ Long \in Nat /\ 0 \in 0..Long /\ Long \in 0..Long
  /\ PoolIdle \in Nat /\ PoolIdle < Long
  BY RunnerPoolAssumption DEF Long

LEMMA Ages ==
  \A age \in 0..Long : /\ Older(age) \in 0..Long /\ age <= Older(age)
                      /\ \A a \in 0..Long : a <= age => Older(a) <= Older(age)
  BY Times DEF Older

(* TypeOK is inductive as it stands.                                        *)
LEMMA TypeStep == TypeOK /\ [Next]_vars => TypeOK'
<1> SUFFICES ASSUME TypeOK, [Next]_vars PROVE TypeOK'
  OBVIOUS
<1> USE RunnerPoolAssumption DEF TypeOK, Sweepers, poolVars, instVars, handlerVars, sweepVars
<1>1. CASE WarmNext
  <2>1. CASE WarmShares
    BY <2>1, Times DEF WarmShares, Keys
  <2>2. CASE WarmSpawns \/ WarmFails \/ WarmCannotSpawn \/ WarmStops \/ WarmStopped
    BY <2>2 DEF WarmSpawns, WarmFails, WarmCannotSpawn, WarmStops, WarmStopped
  <2> QED BY <1>1, <2>1, <2>2 DEF WarmNext
<1>2. ASSUME NEW h \in Handlers, NEW s \in Subjects, Lookup(h, s) PROVE TypeOK'
  <2>1. PICK i \in Insts :
           /\ instances' = [instances EXCEPT ![PartitionKey(s)] = i]
           /\ proc' = [proc EXCEPT ![i] = IF @ = "unbuilt" THEN "built" ELSE @]
           /\ lastUsed' = [lastUsed EXCEPT ![i] = 0]
           /\ inst' = [inst EXCEPT ![h] = i]
    BY <1>2, LookedUp
  <2>2. instances' \in [Keys -> Insts \cup {None}] /\ inst' \in [Handlers -> Insts \cup {None}]
    BY <2>1
  <2>3. proc' \in [Insts -> {"unbuilt", "built", "starting", "live", "stopping", "gone"}]
    BY <2>1
  <2>4. lastUsed' \in [Insts -> 0..Long]
    BY <2>1, Times
  <2>5. held' \in [Handlers -> 0..Long]
    BY <1>2, Times DEF Lookup
  <2>6. pc' \in [Handlers -> {"idle", "once", "starting", "use"}]
        /\ who' \in [Handlers -> Subjects \cup {None}]
    BY <1>2 DEF Lookup
  <2> QED BY <1>2, <2>2, <2>3, <2>4, <2>5, <2>6 DEF Lookup
<1>3. ASSUME NEW h \in Handlers, EnterOnce(h) PROVE TypeOK'
  BY <1>3 DEF EnterOnce
<1>4. ASSUME NEW h \in Handlers, StartSucceeds(h) PROVE TypeOK'
  BY <1>4 DEF StartSucceeds, Use
<1>5. ASSUME NEW h \in Handlers, StartFails(h) PROVE TypeOK'
  <2>1. /\ once' \in [Insts -> {"new", "running", "done"}]
        /\ startErr' \in [Insts -> BOOLEAN]
        /\ proc' \in [Insts -> {"unbuilt", "built", "starting", "live", "stopping", "gone"}]
    BY <1>5 DEF StartFails
  <2>2. /\ pc' \in [Handlers -> {"idle", "once", "starting", "use"}]
        /\ who' \in [Handlers -> Subjects \cup {None}]
        /\ inst' \in [Handlers -> Insts \cup {None}]
        /\ held' \in [Handlers -> 0..Long]
    BY <1>5, Times DEF StartFails, Done
  <2> QED BY <1>5, <2>1, <2>2 DEF StartFails
<1>6. ASSUME NEW h \in Handlers, PassOnce(h) \/ Finish(h) PROVE TypeOK'
  BY <1>6, Times DEF PassOnce, Finish, Done, Use
<1>7. CASE EvictIdle
  BY <1>7 DEF EvictIdle, Evictable
<1>8. CASE Close
  BY <1>8 DEF Close, CloseTargets
<1>9. ASSUME NEW w \in Sweepers, SweepTakes(w) \/ SweepStopped(w) PROVE TypeOK'
  BY <1>9 DEF SweepTakes, SweepStopped
<1>10. CASE Tick
  <2>1. lastUsed' \in [Insts -> 0..Long]
    BY <1>10, Times, Ages DEF Tick
  <2>2. held' \in [Handlers -> 0..Long]
    BY <1>10, Times, Ages DEF Tick
  <2> QED BY <1>10, <2>1, <2>2 DEF Tick
<1>11. CASE UNCHANGED vars
  BY <1>11 DEF vars
<1> QED
  BY <1>1, <1>2, <1>3, <1>4, <1>5, <1>6, <1>7, <1>8, <1>9, <1>10, <1>11 DEF Next, HandlerStep
-----------------------------------------------------------------------------
(* pool.Start keeps the invariant: only WarmShares gives its instance a     *)
(* key.                                                                     *)
LEMMA WarmStep ==
  ASSUME PoolInv, TypeOK', WarmNext
  PROVE  PoolInv'
<1> USE RunnerPoolAssumption, Times DEF PoolInv, TypeOK, poolVars, instVars, handlerVars, sweepVars
<1>1. HandlersOK'
  BY DEF WarmNext, WarmSpawns, WarmFails, WarmCannotSpawn, WarmShares, WarmStops, WarmStopped, HandlersOK, HandlerOK, Busy
<1>2. OneStarter'
  BY DEF WarmNext, WarmSpawns, WarmFails, WarmCannotSpawn, WarmShares, WarmStops, WarmStopped, OneStarter
<1>3. InstsOK'
  <2> SUFFICES ASSUME NEW i \in Insts PROVE InstOK(i)'
    BY DEF InstsOK
  <2>1. InstOK(i)
    BY DEF InstsOK
  <2>2. CASE i = WarmInst
    <3>1. CASE WarmShares
      BY <2>1, <2>2, <3>1 DEF WarmShares, InstOK, WarmOK
    <3>2. CASE WarmSpawns \/ WarmFails \/ WarmCannotSpawn \/ WarmStops \/ WarmStopped
      BY <2>1, <2>2, <3>2 DEF WarmSpawns, WarmFails, WarmCannotSpawn, WarmStops, WarmStopped, InstOK, WarmOK
    <3> QED BY <3>1, <3>2 DEF WarmNext
  <2>3. CASE i # WarmInst
    BY <2>1, <2>3 DEF WarmNext, WarmSpawns, WarmFails, WarmCannotSpawn, WarmShares, WarmStops, WarmStopped, InstOK
  <2> QED BY <2>2, <2>3
<1>4. WarmOK'
  BY DEF WarmNext, WarmSpawns, WarmFails, WarmCannotSpawn, WarmShares, WarmStops, WarmStopped, WarmOK, Keys
<1>5. OnePartition'
  BY DEF WarmNext, WarmSpawns, WarmFails, WarmCannotSpawn, WarmShares, WarmStops, WarmStopped, OnePartition, Busy, Key, PartitionKey, Keys
<1>6. SweepersOK'
  BY DEF WarmNext, WarmSpawns, WarmFails, WarmCannotSpawn, WarmShares, WarmStops, WarmStopped, SweepersOK, SweeperOK, Pooled, Sweepers
<1> QED BY <1>1, <1>2, <1>3, <1>4, <1>5, <1>6

(* EnterOnce keeps the invariant: whoever finds startOnce unused becomes    *)
(* the one starter of the instance.                                         *)
LEMMA EnterOnceStep ==
  ASSUME PoolInv, TypeOK', NEW h \in Handlers, EnterOnce(h)
  PROVE  PoolInv'
<1> USE RunnerPoolAssumption, Times DEF PoolInv, TypeOK, poolVars, instVars, handlerVars, sweepVars
<1>1. HandlersOK'
  BY DEF EnterOnce, HandlersOK, HandlerOK, Busy
<1>2. OneStarter'
  <2>1. ASSUME NEW f \in Handlers, NEW g \in Handlers,
               pc'[f] = "starting", pc'[g] = "starting", inst'[f] = inst'[g]
        PROVE  f = g
    BY <2>1 DEF EnterOnce, OneStarter, HandlersOK, HandlerOK, Busy
  <2>2. ASSUME NEW i \in Insts, once'[i] = "running"
        PROVE  \E g \in Handlers : pc'[g] = "starting" /\ inst'[g] = i
    <3>1. CASE i = inst[h]
      BY <3>1 DEF EnterOnce
    <3>2. CASE i # inst[h]
      <4>1. PICK g \in Handlers : pc[g] = "starting" /\ inst[g] = i
        BY <2>2, <3>2 DEF EnterOnce, OneStarter
      <4> QED BY <4>1 DEF EnterOnce
    <3> QED BY <3>1, <3>2
  <2> QED BY <2>1, <2>2 DEF OneStarter
<1>3. InstsOK'
  BY DEF EnterOnce, InstsOK, InstOK
<1>4. WarmOK'
  BY DEF EnterOnce, WarmOK, Keys
<1>5. OnePartition'
  BY DEF EnterOnce, OnePartition, Busy, Key, PartitionKey, Keys
<1>6. SweepersOK'
  BY DEF EnterOnce, SweepersOK, SweeperOK, Pooled, Sweepers
<1> QED BY <1>1, <1>2, <1>3, <1>4, <1>5, <1>6

(* StartSucceeds keeps the invariant: nobody else was starting the          *)
(* instance.                                                                *)
LEMMA StartSucceedsStep ==
  ASSUME PoolInv, TypeOK', NEW h \in Handlers, StartSucceeds(h)
  PROVE  PoolInv'
<1> USE RunnerPoolAssumption, Times DEF PoolInv, TypeOK, poolVars, instVars, handlerVars, sweepVars
<1>1. HandlersOK'
  <2> SUFFICES ASSUME NEW g \in Handlers PROVE HandlerOK(g)'
    BY DEF HandlersOK
  <2>1. HandlerOK(g) /\ HandlerOK(h)
    BY DEF HandlersOK
  <2>2. CASE g = h
    BY <2>1, <2>2 DEF StartSucceeds, Use, HandlerOK, Busy
  <2>3. CASE g # h
    <3>1. pc[g] = "starting" => inst[g] # inst[h]
      BY <2>3 DEF StartSucceeds, Use, OneStarter
    <3> QED BY <2>1, <2>3, <3>1 DEF StartSucceeds, Use, HandlerOK, Busy
  <2> QED BY <2>2, <2>3
<1>2. OneStarter'
  BY DEF StartSucceeds, Use, OneStarter
<1>3. InstsOK'
  <2> SUFFICES ASSUME NEW i \in Insts PROVE InstOK(i)'
    BY DEF InstsOK
  <2>1. InstOK(i)
    BY DEF InstsOK
  <2>2. inst[h] \in Insts /\ once[inst[h]] = "running" /\ InstOK(inst[h])
    BY DEF StartSucceeds, Use, HandlersOK, HandlerOK, Busy, InstsOK
  <2>3. CASE i = inst[h]
    BY <2>2, <2>3 DEF StartSucceeds, Use, InstOK
  <2>4. CASE i # inst[h]
    BY <2>1, <2>2, <2>4 DEF StartSucceeds, Use, InstOK
  <2> QED BY <2>3, <2>4
<1>4. WarmOK'
  BY DEF StartSucceeds, Use, WarmOK, Keys
<1>5. OnePartition'
  BY DEF StartSucceeds, Use, OnePartition, Busy, Key, PartitionKey, Keys
<1>6. SweepersOK'
  BY DEF StartSucceeds, Use, SweepersOK, SweeperOK, Pooled, Sweepers
<1> QED BY <1>1, <1>2, <1>3, <1>4, <1>5, <1>6

(* StartFails keeps the invariant: the error is left for everybody who      *)
(* waits in startOnce, and no process.                                      *)
LEMMA StartFailsStep ==
  ASSUME PoolInv, TypeOK', NEW h \in Handlers, StartFails(h)
  PROVE  PoolInv'
<1> USE RunnerPoolAssumption, Times DEF PoolInv, TypeOK, poolVars, instVars, handlerVars, sweepVars
<1>1. HandlersOK'
  <2> SUFFICES ASSUME NEW g \in Handlers PROVE HandlerOK(g)'
    BY DEF HandlersOK
  <2>1. HandlerOK(g) /\ HandlerOK(h)
    BY DEF HandlersOK
  <2>2. CASE g = h
    BY <2>1, <2>2 DEF StartFails, Done, HandlerOK, Busy
  <2>3. CASE g # h
    <3>1. pc[g] = "starting" => inst[g] # inst[h]
      BY <2>3 DEF StartFails, Done, OneStarter
    <3> QED BY <2>1, <2>3, <3>1 DEF StartFails, Done, HandlerOK, Busy
  <2> QED BY <2>2, <2>3
<1>2. OneStarter'
  BY DEF StartFails, Done, OneStarter
<1>3. InstsOK'
  <2> SUFFICES ASSUME NEW i \in Insts PROVE InstOK(i)'
    BY DEF InstsOK
  <2>1. InstOK(i)
    BY DEF InstsOK
  <2>2. inst[h] \in Insts /\ once[inst[h]] = "running" /\ InstOK(inst[h])
    BY DEF StartFails, Done, HandlersOK, HandlerOK, Busy, InstsOK
  <2>3. CASE i = inst[h]
    BY <2>2, <2>3 DEF StartFails, Done, InstOK
  <2>4. CASE i # inst[h]
    BY <2>1, <2>2, <2>4 DEF StartFails, Done, InstOK
  <2> QED BY <2>3, <2>4
<1>4. WarmOK'
  BY DEF StartFails, Done, WarmOK, Keys
<1>5. OnePartition'
  BY DEF StartFails, Done, OnePartition, Busy, Key, PartitionKey, Keys
<1>6. SweepersOK'
  BY DEF StartFails, Done, SweepersOK, SweeperOK, Pooled, Sweepers
<1> QED BY <1>1, <1>2, <1>3, <1>4, <1>5, <1>6

(* PassOnce and Finish keep the invariant: they change no instance, and who *)
(* leaves startOnce without an error has a started one.                     *)
LEMMA PassStep ==
  ASSUME PoolInv, TypeOK', NEW h \in Handlers, PassOnce(h) \/ Finish(h)
  PROVE  PoolInv'
<1> USE RunnerPoolAssumption, Times DEF PoolInv, TypeOK, poolVars, instVars, handlerVars, sweepVars
<1>1. HandlersOK'
  <2> SUFFICES ASSUME NEW g \in Handlers PROVE HandlerOK(g)'
    BY DEF HandlersOK
  <2>1. HandlerOK(g) /\ HandlerOK(h)
    BY DEF HandlersOK
  <2>2. CASE PassOnce(h)
    <3>1. Busy(h) /\ InstOK(inst[h])
      BY <2>1, <2>2 DEF PassOnce, HandlerOK, Busy, InstsOK
    <3> QED BY <2>1, <2>2, <3>1 DEF PassOnce, Done, Use, HandlerOK, Busy, InstOK
  <2>3. CASE Finish(h)
    BY <2>1, <2>3 DEF Finish, Done, HandlerOK, Busy
  <2> QED BY <2>2, <2>3
<1>2. OneStarter'
  BY DEF PassOnce, Finish, Done, Use, OneStarter
<1>3. InstsOK'
  BY DEF PassOnce, Finish, Done, Use, InstsOK, InstOK
<1>4. WarmOK'
  BY DEF PassOnce, Finish, Done, Use, WarmOK, Keys
<1>5. OnePartition'
  BY DEF PassOnce, Finish, Done, Use, OnePartition, Busy, Key, PartitionKey, Keys
<1>6. SweepersOK'
  BY DEF PassOnce, Finish, Done, Use, SweepersOK, SweeperOK, Pooled, Sweepers
<1> QED BY <1>1, <1>2, <1>3, <1>4, <1>5, <1>6

(* EvictIdle keeps the invariant: what it takes off the map was there under *)
(* one key only, so nothing in its hands is on the map any more.            *)
LEMMA EvictStep ==
  ASSUME PoolInv, TypeOK', EvictIdle
  PROVE  PoolInv'
<1> USE RunnerPoolAssumption, Times DEF PoolInv, TypeOK, poolVars, instVars, handlerVars, sweepVars
<1>1. HandlersOK'
  BY DEF EvictIdle, Evictable, HandlersOK, HandlerOK, Busy
<1>2. OneStarter'
  BY DEF EvictIdle, Evictable, OneStarter
<1>3. InstsOK'
  BY DEF EvictIdle, Evictable, InstsOK, InstOK
<1>4. WarmOK'
  BY DEF EvictIdle, Evictable, WarmOK, Keys
<1>5. OnePartition'
  <2>1. \A k \in Keys : instances'[k] # None => instances'[k] = instances[k]
    BY DEF EvictIdle
  <2>2. shareSafe' = shareSafe /\ proc' = proc /\ inst' = inst
    BY DEF EvictIdle
  <2>3. \A h \in Handlers : (Busy(h)' <=> Busy(h)) /\ Key(h)' = Key(h)
    BY DEF EvictIdle, Busy, Key, PartitionKey
  <2>4. \A k, l \in Keys : instances'[k] = instances'[l] /\ instances'[k] # None => k = l
    BY <2>1 DEF OnePartition
  <2>5. \A k \in Keys : instances'[k] # None =>
          proc'[instances'[k]] # "unbuilt" /\ (k = SharedKey <=> shareSafe')
    BY <2>1, <2>2 DEF OnePartition
  <2>6. \A h \in Handlers, k \in Keys : Busy(h)' /\ instances'[k] = inst'[h] => k = Key(h)'
    <3>1. \A h \in Handlers : Busy(h) => inst[h] # None
      BY DEF HandlersOK, HandlerOK
    <3> QED BY <2>1, <2>2, <2>3, <3>1 DEF OnePartition
  <2>7. \A g, h \in Handlers : Busy(g)' /\ Busy(h)' /\ inst'[g] = inst'[h] => Key(g)' = Key(h)'
    BY <2>2, <2>3 DEF OnePartition
  <2> QED BY <2>4, <2>5, <2>6, <2>7 DEF OnePartition
<1>6. SweepersOK'
  <2> SUFFICES ASSUME NEW w \in Sweepers PROVE SweeperOK(w)'
    BY DEF SweepersOK
  <2>1. SweeperOK(w)
    BY DEF SweepersOK
  <2>2. ASSUME NEW i \in Insts, Pooled(i)' PROVE Pooled(i)
    BY <2>2 DEF Pooled, EvictIdle
  <2>3. CASE w = "evict"
    <3>1. ASSUME NEW i \in todo'[w] PROVE ~Pooled(i)' /\ proc'[i] # "unbuilt"
      <4>1. PICK k \in Keys : Evictable(k) /\ i = instances[k]
        BY <2>3, <3>1 DEF EvictIdle, Sweepers
      <4>2. \A l \in Keys : instances[l] = i => l = k
        BY <4>1 DEF Evictable, OnePartition
      <4> QED BY <4>1, <4>2 DEF EvictIdle, Evictable, Pooled, OnePartition
    <3>2. at'[w] = None
      BY <2>3 DEF EvictIdle, Resting
    <3> QED BY <2>3, <3>1, <3>2 DEF EvictIdle, SweeperOK
  <2>4. CASE w # "evict"
    BY <2>1, <2>2, <2>4 DEF EvictIdle, SweeperOK, Sweepers
  <2> QED BY <2>3, <2>4
<1> QED BY <1>1, <1>2, <1>3, <1>4, <1>5, <1>6

(* Close keeps the invariant: it empties the map, once.                     *)
LEMMA CloseStep ==
  ASSUME PoolInv, TypeOK', Close
  PROVE  PoolInv'
<1> USE RunnerPoolAssumption, Times DEF PoolInv, TypeOK, poolVars, instVars, handlerVars, sweepVars
<1>1. HandlersOK'
  BY DEF Close, CloseTargets, HandlersOK, HandlerOK, Busy
<1>2. OneStarter'
  BY DEF Close, CloseTargets, OneStarter
<1>3. InstsOK'
  BY DEF Close, CloseTargets, InstsOK, InstOK
<1>4. WarmOK'
  BY DEF Close, CloseTargets, WarmOK, Keys
<1>5. OnePartition'
  <2>1. \A k \in Keys : instances'[k] # None => instances'[k] = instances[k]
    BY DEF Close
  <2>2. shareSafe' = shareSafe /\ proc' = proc /\ inst' = inst
    BY DEF Close
  <2>3. \A h \in Handlers : (Busy(h)' <=> Busy(h)) /\ Key(h)' = Key(h)
    BY DEF Close, Busy, Key, PartitionKey
  <2>4. \A k, l \in Keys : instances'[k] = instances'[l] /\ instances'[k] # None => k = l
    BY <2>1 DEF OnePartition
  <2>5. \A k \in Keys : instances'[k] # None =>
          proc'[instances'[k]] # "unbuilt" /\ (k = SharedKey <=> shareSafe')
    BY <2>1, <2>2 DEF OnePartition
  <2>6. \A h \in Handlers, k \in Keys : Busy(h)' /\ instances'[k] = inst'[h] => k = Key(h)'
    <3>1. \A h \in Handlers : Busy(h) => inst[h] # None
      BY DEF HandlersOK, HandlerOK
    <3> QED BY <2>1, <2>2, <2>3, <3>1 DEF OnePartition
  <2>7. \A g, h \in Handlers : Busy(g)' /\ Busy(h)' /\ inst'[g] = inst'[h] => Key(g)' = Key(h)'
    BY <2>2, <2>3 DEF OnePartition
  <2> QED BY <2>4, <2>5, <2>6, <2>7 DEF OnePartition
<1>6. SweepersOK'
  <2> SUFFICES ASSUME NEW w \in Sweepers PROVE SweeperOK(w)'
    BY DEF SweepersOK
  <2>1. SweeperOK(w)
    BY DEF SweepersOK
  <2>2. ASSUME NEW i \in Insts PROVE ~Pooled(i)'
    BY DEF Pooled, Close
  <2>3. CASE w = "close"
    BY <2>1, <2>2, <2>3 DEF Close, CloseTargets, SweeperOK, OnePartition, Sweepers
  <2>4. CASE w # "close"
    BY <2>1, <2>2, <2>4 DEF Close, SweeperOK, Sweepers
  <2> QED BY <2>3, <2>4
<1> QED BY <1>1, <1>2, <1>3, <1>4, <1>5, <1>6

(* Outside the lock, a sweeper keeps the invariant: it stops only what has  *)
(* been started, hence neither the instance of the warm-up in the per-      *)
(* identity mode nor one that is being started.                             *)
LEMMA SweepStep ==
  ASSUME PoolInv, TypeOK', NEW w \in Sweepers, SweepTakes(w) \/ SweepStopped(w)
  PROVE  PoolInv'
<1> USE RunnerPoolAssumption, Times DEF PoolInv, TypeOK, poolVars, instVars, handlerVars, sweepVars
<1>1. HandlersOK'
  BY DEF SweepTakes, SweepStopped, HandlersOK, HandlerOK, Busy
<1>2. OneStarter'
  BY DEF SweepTakes, SweepStopped, OneStarter
<1>3. InstsOK'
  <2> SUFFICES ASSUME NEW i \in Insts PROVE InstOK(i)'
    BY DEF InstsOK
  <2>1. InstOK(i)
    BY DEF InstsOK
  <2>2. ASSUME NEW j \in Insts, started[j] PROVE once[j] = "done" /\ ~startErr[j]
    BY <2>2 DEF InstsOK, InstOK
  <2>3. CASE SweepTakes(w)
    BY <2>1, <2>2, <2>3 DEF SweepTakes, InstOK
  <2>4. CASE SweepStopped(w)
    BY <2>1, <2>2, <2>4 DEF SweepStopped, SweepersOK, SweeperOK, InstOK
  <2> QED BY <2>3, <2>4
<1>4. WarmOK'
  <2>1. ASSUME NEW j \in Insts, started[j] PROVE once[j] = "done"
    BY <2>1 DEF InstsOK, InstOK
  <2>2. CASE warm = "ready" /\ shareSafe
    <3>1. proc'[WarmInst] # "unbuilt"
      BY DEF WarmOK, SweepTakes, SweepStopped
    <3> QED BY <2>2, <3>1 DEF WarmOK, SweepTakes, SweepStopped
  <2>3. CASE ~(warm = "ready" /\ shareSafe)
    <3>1. proc'[WarmInst] = proc[WarmInst]
      BY <2>1, <2>3 DEF WarmOK, SweepTakes, SweepStopped, SweepersOK, SweeperOK
    <3> QED BY <2>3, <3>1 DEF WarmOK, SweepTakes, SweepStopped
  <2> QED BY <2>2, <2>3
<1>5. OnePartition'
  BY DEF SweepTakes, SweepStopped, OnePartition, Busy, Key, PartitionKey, Keys
<1>6. SweepersOK'
  BY DEF SweepTakes, SweepStopped, SweepersOK, SweeperOK, Pooled, Sweepers
<1> QED BY <1>1, <1>2, <1>3, <1>4, <1>5, <1>6

(* Tick keeps the invariant: what handlers have in use ages no faster than  *)
(* they do.                                                                 *)
LEMMA TickStep ==
  ASSUME PoolInv, TypeOK', Tick
  PROVE  PoolInv'
<1> USE RunnerPoolAssumption, Times DEF PoolInv, TypeOK, poolVars, instVars, handlerVars, sweepVars
<1>1. HandlersOK'
  BY Ages DEF Tick, HandlersOK, HandlerOK, Busy
<1>2. OneStarter'
  BY DEF Tick, OneStarter
<1>3. InstsOK'
  BY DEF Tick, InstsOK, InstOK
<1>4. WarmOK'
  BY DEF Tick, WarmOK, Keys
<1>5. OnePartition'
  BY DEF Tick, OnePartition, Busy, Key, PartitionKey, Keys
<1>6. SweepersOK'
  BY DEF Tick, SweepersOK, SweeperOK, Pooled, Sweepers
<1> QED BY <1>1, <1>2, <1>3, <1>4, <1>5, <1>6

(* An instance that was never built is nobody's yet.                        *)
LEMMA UnbuiltIsFresh ==
  ASSUME PoolInv, NEW i \in Insts, proc[i] = "unbuilt"
  PROVE  /\ i # WarmInst /\ once[i] = "new" /\ ~started[i]
         /\ \A h \in Handlers : Busy(h) => inst[h] # i
         /\ ~Pooled(i)
         /\ \A w \in Sweepers : i \notin todo[w] /\ at[w] # i
<1>1. InstOK(i) /\ i # WarmInst
  BY DEF PoolInv, InstsOK, WarmOK
<1>2. once[i] = "new" /\ ~started[i]
  BY <1>1 DEF PoolInv, TypeOK, InstOK
<1>3. \A h \in Handlers : Busy(h) => inst[h] # i
  BY DEF PoolInv, HandlersOK, HandlerOK
<1>4. ~Pooled(i)
  BY RunnerPoolAssumption DEF PoolInv, OnePartition, Pooled
<1>5. \A w \in Sweepers : i \notin todo[w] /\ at[w] # i
  BY <1>2, RunnerPoolAssumption DEF PoolInv, SweepersOK, SweeperOK
<1> QED BY <1>1, <1>2, <1>3, <1>4, <1>5

(* Lookup keeps the invariant.                                              *)
LEMMA LookupStep ==
  ASSUME PoolInv, TypeOK', NEW h \in Handlers, NEW s \in Subjects, Lookup(h, s)
  PROVE  PoolInv'
<1> DEFINE k == PartitionKey(s)
<1>1. k \in Keys /\ (k = SharedKey <=> shareSafe)
  BY PartitionIsKey DEF PoolInv
<1>2. PICK i \in Insts :
         /\ IF instances[k] = None THEN proc[i] = "unbuilt" ELSE instances[k] = i
         /\ instances' = [instances EXCEPT ![k] = i]
         /\ proc' = [proc EXCEPT ![i] = IF @ = "unbuilt" THEN "built" ELSE @]
         /\ lastUsed' = [lastUsed EXCEPT ![i] = 0]
         /\ inst' = [inst EXCEPT ![h] = i]
  BY LookedUp DEF PoolInv
<1>3. /\ pc[h] = "idle" /\ warm = "ready" /\ ~closed
      /\ pc' = [pc EXCEPT ![h] = "once"]
      /\ who' = [who EXCEPT ![h] = s]
      /\ held' = [held EXCEPT ![h] = 0]
      /\ UNCHANGED <<shareSafe, warm, closed, once, startErr, started, sweepVars>>
  BY DEF Lookup
<1>4. proc[i] = "unbuilt" =>
        /\ i # WarmInst /\ once[i] = "new" /\ ~started[i]
        /\ \A g \in Handlers : Busy(g) => inst[g] # i
        /\ ~Pooled(i)
        /\ \A w \in Sweepers : i \notin todo[w] /\ at[w] # i
  BY UnbuiltIsFresh
<1>5. \A j \in Insts : /\ proc'[j] # "unbuilt" \/ (proc[j] = "unbuilt" /\ j # i)
                       /\ proc[j] # "unbuilt" => proc'[j] = proc[j]
                       /\ proc[j] = "unbuilt" => proc'[j] \in {"unbuilt", "built"}
  BY <1>2 DEF PoolInv, TypeOK
<1>6. \A l \in Keys : instances'[l] = IF l = k THEN i ELSE instances[l]
  BY <1>2 DEF PoolInv, TypeOK
<1>7. k # SharedKey => i # WarmInst
  BY <1>1, <1>2, <1>4 DEF PoolInv, WarmOK
<1> HIDE DEF k
<1>8. HandlersOK'
  <2> SUFFICES ASSUME NEW g \in Handlers PROVE HandlerOK(g)'
    BY DEF HandlersOK
  <2>1. HandlerOK(g) /\ held[g] \in 0..Long
    BY DEF PoolInv, HandlersOK, TypeOK
  <2>2. CASE g = h
    BY <1>2, <1>3, <1>5, <2>2, Times DEF PoolInv, TypeOK, HandlerOK, Busy
  <2>3. CASE g # h
    BY <1>2, <1>3, <1>5, <2>1, <2>3, Times DEF PoolInv, TypeOK, HandlerOK, Busy
  <2> QED BY <2>2, <2>3
<1>9. OneStarter'
  BY <1>2, <1>3 DEF PoolInv, TypeOK, OneStarter
<1>10. InstsOK'
  <2> SUFFICES ASSUME NEW j \in Insts PROVE InstOK(j)'
    BY DEF InstsOK
  <2> QED BY <1>3, <1>5 DEF PoolInv, TypeOK, InstsOK, InstOK
<1>11. WarmOK'
  <2>1. proc'[WarmInst] = proc[WarmInst]
    BY <1>5, RunnerPoolAssumption DEF PoolInv, WarmOK
  <2> QED BY <1>1, <1>2, <1>3, <1>6, <1>7, <2>1 DEF PoolInv, WarmOK, TypeOK
<1>12. OnePartition'
  <2>1. \A l \in Keys : instances[l] = i => l = k
    BY <1>1, <1>2, <1>4 DEF PoolInv, OnePartition, Pooled
  <2>2. \A g \in Handlers : Busy(g) /\ inst[g] = i => Key(g) = k
    BY <1>1, <1>2, <1>4 DEF PoolInv, OnePartition, Pooled
  <2>3. \A g \in Handlers : g # h =>
          (Busy(g)' <=> Busy(g)) /\ Key(g)' = Key(g) /\ inst'[g] = inst[g]
    BY <1>2, <1>3 DEF PoolInv, TypeOK, Busy, Key, PartitionKey
  <2>4. Busy(h)' /\ Key(h)' = k /\ inst'[h] = i
    BY <1>2, <1>3 DEF PoolInv, TypeOK, Busy, Key, PartitionKey, k
  <2>5. \A l, m \in Keys : instances'[l] = instances'[m] /\ instances'[l] # None => l = m
    BY <1>6, <2>1 DEF PoolInv, OnePartition
  <2>6. \A l \in Keys : instances'[l] # None =>
          proc'[instances'[l]] # "unbuilt" /\ (l = SharedKey <=> shareSafe')
    <3>1. \A l \in Keys : instances[l] # None => instances[l] \in Insts
      BY DEF PoolInv, TypeOK
    <3> QED BY <1>1, <1>3, <1>5, <1>6, <3>1 DEF PoolInv, OnePartition
  <2>7. \A g \in Handlers, l \in Keys : Busy(g)' /\ instances'[l] = inst'[g] => l = Key(g)'
    BY <1>6, <2>1, <2>2, <2>3, <2>4 DEF PoolInv, OnePartition
  <2>8. \A f, g \in Handlers : Busy(f)' /\ Busy(g)' /\ inst'[f] = inst'[g] => Key(f)' = Key(g)'
    BY <2>2, <2>3, <2>4 DEF PoolInv, OnePartition
  <2> QED BY <2>5, <2>6, <2>7, <2>8 DEF OnePartition
<1>13. SweepersOK'
  <2> SUFFICES ASSUME NEW w \in Sweepers PROVE SweeperOK(w)'
    BY DEF SweepersOK
  <2>1. SweeperOK(w) /\ todo[w] \subseteq Insts /\ at[w] \in Insts \cup {None}
    BY DEF PoolInv, SweepersOK, TypeOK
  <2>2. \A j \in Insts : Pooled(j)' => Pooled(j) \/ j = i
    BY <1>6 DEF Pooled
  <2>3. i \notin todo[w] /\ at[w] # i
    BY <1>1, <1>2, <1>4, <2>1, RunnerPoolAssumption DEF SweeperOK, Pooled
  <2> QED BY <1>3, <1>5, <2>1, <2>2, <2>3 DEF SweeperOK, sweepVars
<1> QED BY <1>8, <1>9, <1>10, <1>11, <1>12, <1>13 DEF PoolInv

(* The invariant holds at the start.                                        *)
LEMMA PoolInit == Init => PoolInv
<1> SUFFICES ASSUME Init PROVE PoolInv
  OBVIOUS
<1>1. TypeOK
  BY RunnerPoolAssumption, Times DEF Init, TypeOK, Sweepers
<1>2. HandlersOK /\ OneStarter
  BY DEF Init, HandlersOK, HandlerOK, OneStarter, Busy
<1>3. InstsOK
  BY DEF Init, InstsOK, InstOK
<1>4. WarmOK
  BY RunnerPoolAssumption DEF Init, WarmOK
<1>5. OnePartition
  BY DEF Init, OnePartition, Busy
<1>6. SweepersOK
  BY DEF Init, SweepersOK, SweeperOK
<1> QED BY <1>1, <1>2, <1>3, <1>4, <1>5, <1>6 DEF PoolInv

(* Every step keeps the invariant.                                          *)
LEMMA PoolStep == PoolInv /\ [Next]_vars => PoolInv'
<1> SUFFICES ASSUME PoolInv, [Next]_vars PROVE PoolInv'
  OBVIOUS
<1>1. TypeOK'
  BY TypeStep DEF PoolInv
<1>2. CASE UNCHANGED vars
  BY <1>2 DEF vars, poolVars, instVars, handlerVars, sweepVars, PoolInv, TypeOK, HandlersOK,
     HandlerOK, OneStarter, InstsOK, InstOK, WarmOK, OnePartition, SweepersOK, SweeperOK,
     Busy, Key, PartitionKey, Pooled
<1>3. CASE Next
  BY <1>1, <1>3, WarmStep, LookupStep, EnterOnceStep, StartSucceedsStep, StartFailsStep,
     PassStep, EvictStep, CloseStep, SweepStep, TickStep DEF Next, HandlerStep
<1> QED BY <1>2, <1>3

(* The runner of an instance on the map has been started and not stopped,   *)
(* or not started yet.                                                      *)
PooledLive ==
  \A k \in Keys : instances[k] # None /\ started[instances[k]] => proc[instances[k]] = "live"

LEMMA PooledLiveStep ==
  ASSUME PoolInv, PooledLive, [Next]_vars
  PROVE  PooledLive'
<1> USE DEF poolVars, instVars, handlerVars, sweepVars
<1>0. /\ instances \in [Keys -> Insts \cup {None}] /\ None \notin Insts /\ WarmInst \in Insts
      /\ proc \in [Insts -> {"unbuilt", "built", "starting", "live", "stopping", "gone"}]
      /\ started \in [Insts -> BOOLEAN]
  BY RunnerPoolAssumption DEF PoolInv, TypeOK
<1>1. CASE WarmNext
  <2>1. CASE WarmShares
    BY <1>0, <2>1 DEF WarmShares, PooledLive
  <2>2. CASE WarmSpawns \/ WarmFails \/ WarmCannotSpawn \/ WarmStops \/ WarmStopped
    <3>1. warm # "ready"
      BY <2>2 DEF WarmSpawns, WarmFails, WarmCannotSpawn, WarmStops, WarmStopped
    <3> QED BY <1>0, <2>2, <3>1
        DEF WarmSpawns, WarmFails, WarmCannotSpawn, WarmStops, WarmStopped, PooledLive, PoolInv, WarmOK
  <2> QED BY <1>1, <2>1, <2>2 DEF WarmNext
<1>2. ASSUME NEW h \in Handlers, NEW s \in Subjects, Lookup(h, s) PROVE PooledLive'
  <2>1. PICK i \in Insts :
           /\ IF instances[PartitionKey(s)] = None THEN proc[i] = "unbuilt"
              ELSE instances[PartitionKey(s)] = i
           /\ instances' = [instances EXCEPT ![PartitionKey(s)] = i]
           /\ proc' = [proc EXCEPT ![i] = IF @ = "unbuilt" THEN "built" ELSE @]
    BY <1>2, LookedUp DEF PoolInv
  <2>2. proc[i] = "unbuilt" => ~started[i]
    BY UnbuiltIsFresh
  <2>3. \A k \in Keys : instances'[k] = instances[k] \/ instances'[k] = i
    BY <1>0, <2>1
  <2>4. started' = started
    BY <1>2 DEF Lookup
  <2>5. \A j \in Insts : started[j] => proc'[j] = proc[j]
    BY <1>0, <2>1, <2>2
  <2>6. started[i] => proc[i] = "live"
    BY <1>2, <2>1, <2>2, PartitionIsKey, <1>0 DEF PooledLive, PoolInv
  <2> QED BY <1>0, <2>3, <2>4, <2>5, <2>6 DEF PooledLive
<1>3. ASSUME NEW h \in Handlers, EnterOnce(h) \/ StartFails(h) PROVE PooledLive'
  <2>1. inst[h] \in Insts /\ ~started[inst[h]]
    BY <1>3 DEF EnterOnce, StartFails, PoolInv, HandlersOK, HandlerOK, Busy, InstsOK, InstOK
  <2> QED BY <1>0, <1>3, <2>1 DEF EnterOnce, StartFails, PooledLive
<1>4. ASSUME NEW h \in Handlers, StartSucceeds(h) PROVE PooledLive'
  BY <1>0, <1>4 DEF StartSucceeds, PooledLive
<1>5. ASSUME NEW h \in Handlers, PassOnce(h) \/ Finish(h) PROVE PooledLive'
  BY <1>5 DEF PassOnce, Finish, PooledLive
<1>6. CASE EvictIdle \/ Close
  BY <1>6 DEF EvictIdle, Close, PooledLive
<1>7. ASSUME NEW w \in Sweepers, SweepTakes(w) \/ SweepStopped(w) PROVE PooledLive'
  <2>1. \A i \in todo[w] : ~Pooled(i)
    BY DEF PoolInv, SweepersOK, SweeperOK
  <2>2. at[w] # None => ~Pooled(at[w])
    BY DEF PoolInv, SweepersOK, SweeperOK
  <2>3. \A i \in Insts : Pooled(i) => proc'[i] = proc[i]
    BY <1>0, <1>7, <2>1, <2>2 DEF SweepTakes, SweepStopped
  <2> QED BY <1>0, <1>7, <2>3 DEF SweepTakes, SweepStopped, PooledLive, Pooled
<1>8. CASE Tick
  BY <1>8 DEF Tick, PooledLive
<1>9. CASE UNCHANGED vars
  BY <1>9 DEF vars, PooledLive
<1> QED
  BY <1>1, <1>2, <1>3, <1>4, <1>5, <1>6, <1>7, <1>8, <1>9 DEF Next, HandlerStep

(* Time takes no handler back within the idle timeout.                      *)
LEMMA TickInTime ==
  ASSUME TypeOK, Tick, NEW h \in Handlers, InTime(h)'
  PROVE  InTime(h)
<1>1. Busy(h) /\ held'[h] = Older(held[h]) /\ held[h] \in 0..Long
  BY DEF Tick, InTime, Busy, TypeOK, handlerVars, sweepVars
<1>2. held[h] <= Older(held[h]) /\ Older(held[h]) \in 0..Long /\ held'[h] <= PoolIdle
  BY <1>1, Times, Ages DEF InTime
<1> QED BY <1>1, <1>2, Times, Ages DEF InTime

(* A handler keeps its instance on the map as long as it has not held it    *)
(* for longer than PoolIdle.                                                *)
LEMMA KeptStep ==
  ASSUME PoolInv, [Next]_vars, Kept
  PROVE  Kept'
<1> USE DEF poolVars, instVars, handlerVars, sweepVars
<1> SUFFICES ASSUME NEW h \in Handlers, InTime(h)', ~closed'
             PROVE  instances'[Key(h)'] = inst'[h]
  BY DEF Kept
<1>0. /\ instances \in [Keys -> Insts \cup {None}] /\ None \notin Insts
      /\ pc \in [Handlers -> {"idle", "once", "starting", "use"}]
      /\ inst \in [Handlers -> Insts \cup {None}]
      /\ who \in [Handlers -> Subjects \cup {None}]
      /\ held \in [Handlers -> 0..Long]
  BY RunnerPoolAssumption DEF PoolInv, TypeOK
<1>1. ASSUME NEW g \in Handlers, NEW s \in Subjects, Lookup(g, s)
      PROVE  instances'[Key(h)'] = inst'[h]
  <2>1. PICK i \in Insts :
           /\ IF instances[PartitionKey(s)] = None THEN proc[i] = "unbuilt"
              ELSE instances[PartitionKey(s)] = i
           /\ instances' = [instances EXCEPT ![PartitionKey(s)] = i]
           /\ inst' = [inst EXCEPT ![g] = i]
    BY <1>1, LookedUp DEF PoolInv
  <2>2. /\ pc' = [pc EXCEPT ![g] = "once"] /\ who' = [who EXCEPT ![g] = s]
        /\ shareSafe' = shareSafe /\ ~closed /\ held' = [held EXCEPT ![g] = 0]
    BY <1>1 DEF Lookup
  <2>3. PartitionKey(s) \in Keys
    BY PartitionIsKey DEF PoolInv
  <2>4. CASE h = g
    BY <1>0, <2>1, <2>2, <2>3, <2>4 DEF Key, PartitionKey
  <2>5. CASE h # g
    <3>0. InTime(h)
      BY <1>0, <2>2, <2>5 DEF InTime, Busy
    <3>1. Key(h)' = Key(h) /\ inst'[h] = inst[h] /\ instances[Key(h)] = inst[h]
      BY <1>0, <2>1, <2>2, <2>5, <3>0 DEF Key, PartitionKey, Kept
    <3>2. inst[h] # None
      BY <1>0, <3>0 DEF PoolInv, HandlersOK, HandlerOK, InTime
    <3>3. instances'[Key(h)] = instances[Key(h)]
      BY <1>0, <2>1, <2>3, <3>1, <3>2
    <3> QED BY <3>1, <3>3
  <2> QED BY <2>4, <2>5
<1>2. ASSUME NEW g \in Handlers, HandlerStep(g)
      PROVE  instances'[Key(h)'] = inst'[h]
  <2>1. InTime(h) /\ who'[h] = who[h] /\ inst'[h] = inst[h]
    BY <1>0, <1>2
       DEF HandlerStep, EnterOnce, StartSucceeds, StartFails, PassOnce, Finish, Use, Done, InTime, Busy
  <2>2. UNCHANGED <<closed, instances, shareSafe>>
    BY <1>2 DEF HandlerStep, EnterOnce, StartSucceeds, StartFails, PassOnce, Finish
  <2> QED BY <2>1, <2>2 DEF Kept, Key, PartitionKey
<1>3. CASE EvictIdle
  <2>1. InTime(h) /\ Key(h)' = Key(h) /\ inst'[h] = inst[h] /\ ~closed
    BY <1>3 DEF EvictIdle, Key, PartitionKey, InTime, Busy
  <2>2. Busy(h) /\ instances[Key(h)] = inst[h] /\ lastUsed[inst[h]] <= held[h]
    BY <1>0, <2>1 DEF Kept, InTime, PoolInv, HandlersOK, HandlerOK
  <2>3. lastUsed[inst[h]] <= PoolIdle
    BY <2>1, <2>2, Times DEF PoolInv, TypeOK, HandlersOK, HandlerOK, InTime
  <2>4. Key(h) \in Keys /\ ~Evictable(Key(h))
    <3>1. who[h] \in Subjects
      BY <2>2 DEF PoolInv, HandlersOK, HandlerOK
    <3> QED BY <2>2, <2>3, <3>1, PartitionIsKey, RunnerPoolAssumption
        DEF Evictable, Key, PoolInv, TypeOK, HandlersOK, HandlerOK, Long
  <2> QED BY <1>3, <2>1, <2>2, <2>4 DEF EvictIdle
<1>4. CASE WarmNext
  <2>1. warm # "ready"
    BY <1>4 DEF WarmNext, WarmSpawns, WarmFails, WarmCannotSpawn, WarmShares, WarmStops, WarmStopped
  <2>2. pc' = pc
    BY <1>4 DEF WarmNext, WarmSpawns, WarmFails, WarmCannotSpawn, WarmShares, WarmStops, WarmStopped
  <2> QED BY <1>0, <2>1, <2>2 DEF PoolInv, HandlersOK, HandlerOK, InTime, Busy
<1>5. CASE Close
  BY <1>5 DEF Close
<1>6. ASSUME NEW w \in Sweepers, SweepTakes(w) \/ SweepStopped(w)
      PROVE  instances'[Key(h)'] = inst'[h]
  BY <1>6 DEF SweepTakes, SweepStopped, Kept, Key, PartitionKey, InTime, Busy
<1>7. CASE Tick
  <2>1. InTime(h)
    BY <1>7, TickInTime DEF PoolInv
  <2> QED BY <1>7, <2>1 DEF Tick, Kept, Key, PartitionKey
<1>8. CASE UNCHANGED vars
  BY <1>8 DEF vars, Kept, Key, PartitionKey, InTime, Busy
<1> QED
  BY <1>1, <1>2, <1>3, <1>4, <1>5, <1>6, <1>7, <1>8 DEF Next

(* Two handlers that keep their instances on the map share one if their     *)
(* partition is the same, and go on doing so after Close.                   *)
LEMMA SameInstanceStep ==
  ASSUME PoolInv, [Next]_vars, SameInstance, Kept
  PROVE  SameInstance'
<1> USE DEF poolVars, instVars, handlerVars, sweepVars
<1> SUFFICES ASSUME NEW f \in Handlers, NEW g \in Handlers,
                    InTime(f)', InTime(g)', Key(f)' = Key(g)'
             PROVE  inst'[f] = inst'[g]
  BY DEF SameInstance
<1>0. /\ pc \in [Handlers -> {"idle", "once", "starting", "use"}]
      /\ inst \in [Handlers -> Insts \cup {None}]
      /\ who \in [Handlers -> Subjects \cup {None}]
      /\ instances \in [Keys -> Insts \cup {None}] /\ None \notin Insts
  BY RunnerPoolAssumption DEF PoolInv, TypeOK
<1>1. ASSUME NEW h \in Handlers, NEW s \in Subjects, Lookup(h, s)
      PROVE  inst'[f] = inst'[g]
  <2>1. PICK i \in Insts :
           /\ IF instances[PartitionKey(s)] = None THEN proc[i] = "unbuilt"
              ELSE instances[PartitionKey(s)] = i
           /\ inst' = [inst EXCEPT ![h] = i]
    BY <1>1, LookedUp DEF PoolInv
  <2>2. /\ pc' = [pc EXCEPT ![h] = "once"] /\ who' = [who EXCEPT ![h] = s]
        /\ shareSafe' = shareSafe /\ ~closed /\ held' = [held EXCEPT ![h] = 0]
    BY <1>1 DEF Lookup
  <2>3. Key(h)' = PartitionKey(s)
    BY <1>0, <2>2 DEF Key, PartitionKey
  <2>4. ASSUME NEW e \in Handlers, e # h, InTime(e)'
        PROVE  /\ InTime(e) /\ Key(e)' = Key(e) /\ inst'[e] = inst[e] /\ inst[e] # None
               /\ instances[Key(e)] = inst[e]
    <3>1. InTime(e) /\ Key(e)' = Key(e) /\ inst'[e] = inst[e]
      BY <1>0, <2>1, <2>2, <2>4 DEF InTime, Busy, Key, PartitionKey
    <3>2. instances[Key(e)] = inst[e] /\ inst[e] # None
      BY <1>0, <2>2, <3>1 DEF Kept, InTime, PoolInv, HandlersOK, HandlerOK
    <3> QED BY <3>1, <3>2
  <2>5. inst'[h] = i
    BY <1>0, <2>1
  <2>6. ASSUME NEW e \in Handlers, e # h, InTime(e)', Key(e)' = Key(h)'
        PROVE  inst'[e] = i
    BY <2>1, <2>3, <2>4, <2>6
  <2>7. CASE f # h /\ g # h
    BY <2>4, <2>7 DEF SameInstance
  <2> QED BY <2>5, <2>6, <2>7
<1>2. CASE ~(\E h \in Handlers, s \in Subjects : Lookup(h, s))
  <2>1. \A e \in Handlers : InTime(e)' => InTime(e) /\ Key(e)' = Key(e) /\ inst'[e] = inst[e]
    <3>1. ASSUME NEW h \in Handlers, HandlerStep(h), NEW e \in Handlers, InTime(e)'
          PROVE  InTime(e) /\ Key(e)' = Key(e) /\ inst'[e] = inst[e]
      <4>1. CASE EnterOnce(h) \/ StartSucceeds(h)
        BY <1>0, <3>1, <4>1 DEF EnterOnce, StartSucceeds, Use, InTime, Busy, Key, PartitionKey
      <4>2. CASE Done(h) /\ shareSafe' = shareSafe
        <5>1. e # h
          BY <1>0, <3>1, <4>2 DEF Done, InTime, Busy
        <5> QED BY <1>0, <3>1, <4>2, <5>1 DEF Done, InTime, Busy, Key, PartitionKey
      <4>3. CASE Use(h) /\ pc[h] # "idle" /\ shareSafe' = shareSafe
        BY <1>0, <3>1, <4>3 DEF Use, InTime, Busy, Key, PartitionKey
      <4>4. StartFails(h) \/ Finish(h) \/ PassOnce(h) =>
              /\ shareSafe' = shareSafe
              /\ Done(h) \/ (Use(h) /\ pc[h] # "idle")
        BY DEF StartFails, Finish, PassOnce
      <4> QED BY <3>1, <4>1, <4>2, <4>3, <4>4 DEF HandlerStep
    <3>2. CASE UNCHANGED <<shareSafe, pc, who, inst, held>>
      BY <3>2 DEF InTime, Busy, Key, PartitionKey
    <3>3. WarmNext => UNCHANGED <<shareSafe, pc, who, inst, held>>
      BY DEF WarmNext, WarmSpawns, WarmFails, WarmCannotSpawn, WarmShares, WarmStops, WarmStopped
    <3>4. EvictIdle \/ Close \/ UNCHANGED vars => UNCHANGED <<shareSafe, pc, who, inst, held>>
      BY DEF EvictIdle, Close, vars
    <3>5. \A w \in Sweepers :
            SweepTakes(w) \/ SweepStopped(w) => UNCHANGED <<shareSafe, pc, who, inst, held>>
      BY DEF SweepTakes, SweepStopped
    <3>6. CASE Tick
      <4>1. \A e \in Handlers : InTime(e)' => InTime(e)
        BY <3>6, TickInTime DEF PoolInv
      <4>2. UNCHANGED <<shareSafe, who, inst>>
        BY <3>6 DEF Tick
      <4> QED BY <4>1, <4>2 DEF Key, PartitionKey
    <3> QED BY <1>2, <3>1, <3>2, <3>3, <3>4, <3>5, <3>6 DEF Next
  <2> QED BY <2>1 DEF SameInstance
<1> QED BY <1>1, <1>2

(* The shared instance, once published, stays on the map until Close.       *)
SharedPooled ==
  shareSafe /\ warm = "ready" /\ ~closed =>
    instances[SharedKey] = WarmInst /\ started[WarmInst]

LEMMA SharedStep ==
  ASSUME PoolInv, [Next]_vars, SharedPooled
  PROVE  SharedPooled'
<1> USE DEF poolVars, instVars, handlerVars, sweepVars
<1>0. /\ instances \in [Keys -> Insts \cup {None}] /\ None \notin Insts /\ WarmInst \in Insts
      /\ started \in [Insts -> BOOLEAN] /\ SharedKey \in Keys
  BY RunnerPoolAssumption DEF PoolInv, TypeOK, Keys
<1>1. CASE WarmNext
  <2>1. CASE WarmShares
    BY <1>0, <2>1 DEF WarmShares, SharedPooled
  <2>2. CASE WarmSpawns \/ WarmFails \/ WarmCannotSpawn \/ WarmStops
    <3>1. warm' # "ready"
      BY <2>2 DEF WarmSpawns, WarmFails, WarmCannotSpawn, WarmStops
    <3> QED BY <3>1 DEF SharedPooled
  <2>3. CASE WarmStopped
    <3>1. ~shareSafe'
      BY <2>3 DEF WarmStopped, PoolInv, WarmOK
    <3> QED BY <3>1 DEF SharedPooled
  <2> QED BY <1>1, <2>1, <2>2, <2>3 DEF WarmNext
<1>2. ASSUME NEW h \in Handlers, NEW s \in Subjects, Lookup(h, s) PROVE SharedPooled'
  <2>1. PICK i \in Insts :
           /\ IF instances[PartitionKey(s)] = None THEN proc[i] = "unbuilt"
              ELSE instances[PartitionKey(s)] = i
           /\ instances' = [instances EXCEPT ![PartitionKey(s)] = i]
    BY <1>2, LookedUp DEF PoolInv
  <2>2. UNCHANGED <<shareSafe, warm, closed, started>> /\ warm = "ready" /\ ~closed
    BY <1>2 DEF Lookup
  <2>3. shareSafe => PartitionKey(s) = SharedKey
    BY DEF PartitionKey
  <2> QED BY <1>0, <2>1, <2>2, <2>3 DEF SharedPooled
<1>3. ASSUME NEW h \in Handlers, HandlerStep(h) PROVE SharedPooled'
  BY <1>0, <1>3 DEF HandlerStep, EnterOnce, StartSucceeds, StartFails, PassOnce, Finish, SharedPooled
<1>4. CASE EvictIdle
  BY <1>0, <1>4 DEF EvictIdle, Evictable, SharedPooled
<1>5. CASE Close
  BY <1>5 DEF Close, SharedPooled
<1>6. ASSUME NEW w \in Sweepers, SweepTakes(w) \/ SweepStopped(w) PROVE SharedPooled'
  BY <1>6 DEF SweepTakes, SweepStopped, SharedPooled
<1>7. CASE Tick \/ UNCHANGED vars
  <2>1. UNCHANGED <<shareSafe, warm, closed, instances, started>>
    BY <1>7 DEF Tick, vars
  <2> QED BY <2>1 DEF SharedPooled
<1> QED BY <1>1, <1>2, <1>3, <1>4, <1>5, <1>6, <1>7 DEF Next

(* A step that leaks a process overtakes the request that starts it: no     *)
(* process is in the hands of nobody before, and whoever lets go of one     *)
(* found its instance not started.                                          *)
LateStart(i) ==
  \E h \in Handlers : /\ pc[h] \in {"once", "starting"} /\ inst[h] = i
                      /\ closed \/ held[h] > PoolIdle

LEMMA LeakStep ==
  ASSUME PoolInv, Kept, [Next]_vars, NEW i \in Insts, Leaked(i)', ~Leaked(i)
  PROVE  LateStart(i)
<1> USE DEF poolVars, instVars, handlerVars, sweepVars
<1> DEFINE Runs == proc[i] \in {"starting", "live", "stopping"}
<1>0. /\ instances \in [Keys -> Insts \cup {None}] /\ None \notin Insts /\ WarmInst \in Insts
      /\ proc \in [Insts -> {"unbuilt", "built", "starting", "live", "stopping", "gone"}]
      /\ todo \in [Sweepers -> SUBSET Insts] /\ at \in [Sweepers -> Insts \cup {None}]
      /\ pc \in [Handlers -> {"idle", "once", "starting", "use"}]
      /\ held \in [Handlers -> 0..Long]
      /\ SharedKey \in Keys
  BY RunnerPoolAssumption DEF PoolInv, TypeOK, Keys
<1>1. Runs => Owned(i)
  BY DEF Leaked
<1>2. proc'[i] \in {"starting", "live", "stopping"} /\ ~Owned(i)'
  BY DEF Leaked
<1>3. ASSUME NEW h \in Handlers, pc[h] \in {"once", "starting"}, inst[h] = i, ~Pooled(i)
      PROVE  LateStart(i)
  <2>1. Busy(h) /\ Key(h) \in Keys
    BY <1>3, PartitionIsKey DEF PoolInv, HandlersOK, HandlerOK, Busy, Key
  <2>2. InTime(h) => closed
    BY <1>3, <2>1 DEF Kept, InTime, Pooled
  <2>3. held[h] <= PoolIdle \/ held[h] > PoolIdle
    BY <1>0, Times
  <2> QED BY <1>3, <2>1, <2>2, <2>3 DEF InTime, LateStart
<1>4. ASSUME WarmNext PROVE FALSE
  <2>1. CASE i = WarmInst
    BY <1>0, <1>2, <1>4, <2>1
       DEF WarmNext, WarmSpawns, WarmFails, WarmCannotSpawn, WarmShares, WarmStops, WarmStopped,
           Owned, Pooled
  <2>2. CASE i # WarmInst
    <3>1. Owned(i)
      BY <1>0, <1>1, <1>2, <1>4, <2>2
         DEF WarmNext, WarmSpawns, WarmFails, WarmCannotSpawn, WarmShares, WarmStops, WarmStopped
    <3>2. warm # "ready"
      BY <1>4
         DEF WarmNext, WarmSpawns, WarmFails, WarmCannotSpawn, WarmShares, WarmStops, WarmStopped
    <3> QED BY <1>0, <2>2, <3>1, <3>2 DEF Owned, Pooled, PoolInv, WarmOK, SweepersOK, SweeperOK
  <2> QED BY <2>1, <2>2
<1>5. ASSUME NEW h \in Handlers, NEW s \in Subjects, Lookup(h, s) PROVE FALSE
  <2>1. PICK j \in Insts :
           /\ IF instances[PartitionKey(s)] = None THEN proc[j] = "unbuilt"
              ELSE instances[PartitionKey(s)] = j
           /\ instances' = [instances EXCEPT ![PartitionKey(s)] = j]
           /\ proc' = [proc EXCEPT ![j] = IF @ = "unbuilt" THEN "built" ELSE @]
    BY <1>5, LookedUp DEF PoolInv
  <2>2. UNCHANGED <<todo, at, warm>>
    BY <1>5 DEF Lookup
  <2>3. Owned(i)
    BY <1>0, <1>1, <1>2, <2>1
  <2>4. Pooled(i) => Pooled(i)'
    BY <1>0, <2>1 DEF Pooled
  <2> QED BY <1>2, <2>2, <2>3, <2>4 DEF Owned
<1>6. ASSUME NEW h \in Handlers, HandlerStep(h) PROVE LateStart(i)
  <2>1. UNCHANGED <<instances, todo, at, warm>>
    BY <1>6 DEF HandlerStep, EnterOnce, StartSucceeds, StartFails, PassOnce, Finish
  <2>2. ~Owned(i)
    BY <1>2, <2>1 DEF Owned, Pooled
  <2>3. i = inst[h] /\ pc[h] \in {"once", "starting"}
    BY <1>0, <1>1, <1>2, <1>6, <2>2
       DEF HandlerStep, EnterOnce, StartSucceeds, StartFails, PassOnce, Finish
  <2> QED BY <1>3, <2>2, <2>3 DEF Owned
<1>7. ASSUME EvictIdle PROVE FALSE
  <2>1. Owned(i)
    BY <1>1, <1>2, <1>7 DEF EvictIdle
  <2>2. Pooled(i) => Pooled(i)' \/ i \in todo'["evict"]
    BY <1>0, <1>7 DEF EvictIdle, Pooled, Sweepers
  <2> QED BY <1>0, <1>2, <1>7, <2>1, <2>2 DEF EvictIdle, Owned, Resting, Sweepers
<1>8. ASSUME Close PROVE FALSE
  <2>1. Owned(i)
    BY <1>1, <1>2, <1>8 DEF Close
  <2>2. Pooled(i) => i \in todo'["close"]
    BY <1>0, <1>8 DEF Close, CloseTargets, Pooled, Sweepers
  <2>3. todo["close"] = {}
    BY <1>8 DEF Close, PoolInv, SweepersOK, SweeperOK, Sweepers
  <2> QED BY <1>0, <1>2, <1>8, <2>1, <2>2, <2>3 DEF Close, Owned, Sweepers
<1>9. ASSUME NEW w \in Sweepers, SweepTakes(w) PROVE LateStart(i)
  <2>1. PICK j \in todo[w] :
          /\ todo' = [todo EXCEPT ![w] = @ \ {j}]
          /\ IF started[j] THEN at' = [at EXCEPT ![w] = j] /\ proc' = [proc EXCEPT ![j] = "stopping"]
             ELSE UNCHANGED <<at, proc>>
    BY <1>9 DEF SweepTakes
  <2>2. at[w] = None /\ UNCHANGED <<instances, warm>> /\ j \in Insts
    BY <1>0, <1>9 DEF SweepTakes
  <2>3. CASE i = j /\ started[j]
    BY <1>0, <1>2, <2>1, <2>3 DEF Owned
  <2>4. CASE i = j /\ ~started[j]
    <3>1. ~Pooled(i) /\ InstOK(i) /\ warm = "ready" /\ Runs
      BY <1>2, <2>1, <2>4 DEF PoolInv, SweepersOK, SweeperOK, InstsOK
    <3>2. i # WarmInst \/ once[i] = "done" \/ proc[i] = "gone"
      BY <3>1 DEF PoolInv, TypeOK, WarmOK
    <3>3. once[i] = "running"
      BY <2>4, <3>1, <3>2 DEF InstOK, PoolInv, TypeOK
    <3>4. PICK h \in Handlers : pc[h] = "starting" /\ inst[h] = i
      BY <3>3 DEF PoolInv, OneStarter
    <3> QED BY <1>3, <3>1, <3>4
  <2>5. CASE i # j
    <3>1. Owned(i)
      BY <1>0, <1>1, <1>2, <2>1, <2>5
    <3> QED BY <1>0, <1>2, <2>1, <2>2, <2>5, <3>1 DEF Owned, Pooled
  <2> QED BY <2>3, <2>4, <2>5
<1>10. ASSUME NEW w \in Sweepers, SweepStopped(w) PROVE FALSE
  <2>1. i # at[w] /\ Owned(i)
    BY <1>0, <1>1, <1>2, <1>10 DEF SweepStopped
  <2> QED BY <1>0, <1>2, <1>10, <2>1 DEF SweepStopped, Owned, Pooled
<1>11. ASSUME Tick \/ UNCHANGED vars PROVE FALSE
  BY <1>1, <1>2, <1>11 DEF Tick, vars, Owned, Pooled
<1> QED BY <1>4, <1>5, <1>6, <1>7, <1>8, <1>9, <1>10, <1>11 DEF Next
-----------------------------------------------------------------------------
(* The variables hold values of their types, whatever requests, the sweep   *)
(* and Close do in between.                                                 *)
THEOREM PoolTypes == Spec => []TypeOK
<1>1. Init => TypeOK
  BY PoolInit DEF PoolInv
<1> QED BY <1>1, TypeStep, PTL DEF Spec

(* The inductive invariant, with what it leaves open about started runners. *)
LEMMA PoolInvariant == Spec => [](PoolInv /\ PooledLive)
<1>1. Init => PoolInv /\ PooledLive
  BY PoolInit DEF Init, PooledLive
<1>2. PoolInv /\ PooledLive /\ [Next]_vars => (PoolInv /\ PooledLive)'
  BY PoolStep, PooledLiveStep
<1> QED BY <1>1, <1>2, PTL DEF Spec

(* RunnerFor never gives two partitions one process, whatever the timing:   *)
(* an instance serves the one key it was built for.                         *)
PartitionsApart ==
  \A g, h \in Handlers :
    pc[g] = "use" /\ pc[h] = "use" /\ inst[g] = inst[h] => shareSafe \/ who[g] = who[h]

THEOREM IdentitiesApart == Spec => []PartitionsApart
<1>1. PoolInv => PartitionsApart
  BY DEF PoolInv, OnePartition, PartitionsApart, Busy, Key, PartitionKey
<1> QED BY <1>1, PoolInvariant, PTL

(* EvictIdle never takes the shared runner, however cold it looks.          *)
THEOREM SharedRunnerStays == Spec => []SharedStays
<1>1. Init => SharedPooled
  BY DEF Init, SharedPooled
<1>2. PoolInv /\ SharedPooled /\ [Next]_vars => SharedPooled'
  BY SharedStep
<1>3. PoolInv /\ PooledLive /\ SharedPooled => SharedStays
  BY RunnerPoolAssumption DEF PooledLive, SharedPooled, SharedStays, Keys
<1> QED BY <1>1, <1>2, <1>3, PoolInvariant, PTL DEF Spec

(* A lookup protects a request against the sweep for the idle timeout.      *)
LEMMA KeptInTime == Spec => []Kept
<1>1. Init => Kept
  BY DEF Init, Kept, InTime, Busy
<1>2. PoolInv /\ Kept /\ [Next]_vars => Kept'
  BY KeptStep
<1> QED BY <1>1, <1>2, PoolInvariant, PTL DEF Spec

(* "lastUsed ... keeps an actively-used instance from being reaped": within *)
(* the idle timeout of its lookup no request loses its runner, before       *)
(* Close, whatever other requests, sweeps and Starts do meanwhile.          *)
THEOREM NotReapedInUse == Spec => []InUseNotReaped
<1>1. PoolInv /\ PooledLive /\ Kept => InUseNotReaped
  <2> SUFFICES ASSUME PoolInv, PooledLive, Kept,
                      NEW h \in Handlers, pc[h] = "use", held[h] <= PoolIdle, ~closed
               PROVE  proc[inst[h]] = "live"
    BY DEF InUseNotReaped
  <2>1. instances[Key(h)] = inst[h]
    BY DEF Kept, InTime, Busy
  <2>2. inst[h] \in Insts /\ started[inst[h]] /\ who[h] \in Subjects
    BY DEF PoolInv, HandlersOK, HandlerOK, Busy
  <2>3. Key(h) \in Keys
    BY <2>2, PartitionIsKey DEF PoolInv, Key
  <2> QED BY <2>1, <2>2, <2>3, RunnerPoolAssumption DEF PooledLive
<1> QED BY <1>1, PoolInvariant, KeptInTime, PTL

(* One partition per runner always, one runner per partition within the     *)
(* idle timeout.                                                            *)
THEOREM OneRunnerEach == Spec => []OneRunnerPerPartition
<1>1. Init => SameInstance
  BY DEF Init, SameInstance, InTime, Busy
<1>2. PoolInv /\ Kept /\ SameInstance /\ [Next]_vars => SameInstance'
  BY SameInstanceStep
<1>3. PoolInv /\ SameInstance => OneRunnerPerPartition
  BY DEF PoolInv, OnePartition, SameInstance, OneRunnerPerPartition, InTime, Busy, Key, PartitionKey
<1> QED BY <1>1, <1>2, <1>3, PoolInvariant, KeptInTime, PTL DEF Spec

(* What EvictIdle and Close leak is a process whose Start they overtook,    *)
(* and nothing else does: a runner that was started in time is stopped.     *)
THEOREM LeaksAreLateStarts == Spec => OnlyLateStartsLeak
<1>1. PoolInv /\ Kept /\ [Next]_vars =>
        [\A i \in Insts : Leaked(i)' => Leaked(i) \/
           \E h \in Handlers : /\ pc[h] \in {"once", "starting"} /\ inst[h] = i
                               /\ closed \/ held[h] > PoolIdle]_vars
  <2>1. ASSUME PoolInv, Kept, [Next]_vars, NEW i \in Insts, Leaked(i)'
        PROVE  Leaked(i) \/ LateStart(i)
    BY <2>1, LeakStep
  <2> QED BY <2>1 DEF LateStart
<1> QED BY <1>1, PoolInvariant, KeptInTime, PTL DEF Spec, OnlyLateStartsLeak
=============================================================================
