----------------------------- MODULE RunnerPool -----------------------------
(***************************************************************************)
(* src/internal/server/runner_pool.go: the backing MCP processes of a      *)
(* server, one for everybody (shareSafe) or one per authenticated subject. *)
(*                                                                         *)
(*   warm-up    pool.Start: the eager spawn that learns the capabilities   *)
(*   Handlers   request goroutines: RunnerFor (lookup under mu, then       *)
(*              startOnce), then use of the runner it returned             *)
(*   "evict"    the GC goroutine in EvictIdle                              *)
(*   "close"    the goroutine of Run in Close                              *)
(*                                                                         *)
(* A runner is what StdioRunner shows it to be: Start succeeds or leaves   *)
(* no child behind, Stop ends with the child gone, except the Stop of a    *)
(* runner that never spawned one.  Time passes in ticks, in any step of a  *)
(* handler: Start, and the use of a runner, may last as long as they like. *)
(* A name X_Why is a mutant of X, used by no specification.                *)
(***************************************************************************)
EXTENDS Naturals, FiniteSets

CONSTANTS
  Subjects, SharedKey,   \* partition keys: "subj:<Subject>" and "__shared"
  Handlers,
  Insts, WarmInst, None, \* pooledInstances; the one of the warm-up
  ShareModes,            \* the settings of shareSafe a server may run with
  PoolIdle               \* the cutoff EvictIdle is called with, in ticks ago

ASSUME RunnerPoolAssumption ==
  /\ SharedKey \notin Subjects
  /\ WarmInst \in Insts /\ None \notin Insts
  /\ ShareModes \subseteq BOOLEAN
  /\ PoolIdle \in Nat

Keys     == Subjects \cup {SharedKey}
Sweepers == {"evict", "close"}

VARIABLES
  shareSafe,         \* set once by NewRunnerPool
  warm,              \* where pool.Start is
  closed, instances, \* the fields mu guards; instances: Keys -> Insts or None
  once, startErr, started, lastUsed,  \* the fields of each pooledInstance;
                                      \* lastUsed is in ticks ago, capped
  proc,              \* each instance's runner and its process
  pc, who, inst, held,  \* each handler: where it is, its subject, its
                        \* instance, ticks since its lookup, capped
  todo, at           \* each sweeper: instances to look at, the one in Stop

poolVars    == <<closed, instances>>
instVars    == <<once, startErr, started, lastUsed>>
handlerVars == <<pc, who, inst, held>>
sweepVars   == <<todo, at>>
vars        == <<shareSafe, warm, poolVars, instVars, proc, handlerVars, sweepVars>>

Init ==
  /\ shareSafe \in ShareModes
  /\ warm = "new"
  /\ closed = FALSE /\ instances = [k \in Keys |-> None]
  /\ once = [i \in Insts |-> "new"]
  /\ startErr = [i \in Insts |-> FALSE]
  /\ started = [i \in Insts |-> FALSE]
  /\ lastUsed = [i \in Insts |-> 0]
  /\ proc = [i \in Insts |-> IF i = WarmInst THEN "built" ELSE "unbuilt"]
  /\ pc = [h \in Handlers |-> "idle"]
  /\ who = [h \in Handlers |-> None]
  /\ inst = [h \in Handlers |-> None]
  /\ held = [h \in Handlers |-> 0]
  /\ todo = [w \in Sweepers |-> {}]
  /\ at = [w \in Sweepers |-> None]

Long == PoolIdle + 1   \* any age beyond PoolIdle is as good as another
-----------------------------------------------------------------------------
(* pool.Start, before the server listens.                                   *)

WarmSpawns ==
  /\ warm = "new"
  /\ warm' = "starting"
  /\ proc' = [proc EXCEPT ![WarmInst] = "starting"]
  /\ UNCHANGED <<shareSafe, poolVars, instVars, handlerVars, sweepVars>>

(* The handshake fails, Run returns the error and the server never serves.  *)
WarmFails ==
  /\ warm = "starting"
  /\ warm' = "failed"
  /\ proc' = [proc EXCEPT ![WarmInst] = "gone"]
  /\ UNCHANGED <<shareSafe, poolVars, instVars, handlerVars, sweepVars>>

(* The spawn itself fails: nobody reads the output of the child there never *)
(* was, and the Stop that pool.Start calls on the runner waits for its      *)
(* reader for ever.                                                         *)
WarmCannotSpawn ==
  /\ warm = "starting"
  /\ warm' = "stuck"
  /\ proc' = [proc EXCEPT ![WarmInst] = "gone"]
  /\ UNCHANGED <<shareSafe, poolVars, instVars, handlerVars, sweepVars>>

(* The published instance has startOnce fired and the zero time as its last *)
(* use.                                                                     *)
WarmShares ==
  /\ warm = "starting"
  /\ shareSafe
  /\ warm' = "ready"
  /\ proc' = [proc EXCEPT ![WarmInst] = "live"]
  /\ instances' = [instances EXCEPT ![SharedKey] = WarmInst]
  /\ once' = [once EXCEPT ![WarmInst] = "done"]
  /\ started' = [started EXCEPT ![WarmInst] = TRUE]
  /\ lastUsed' = [lastUsed EXCEPT ![WarmInst] = Long]
  /\ UNCHANGED <<shareSafe, closed, startErr, handlerVars, sweepVars>>

WarmStops ==
  /\ warm = "starting"
  /\ ~shareSafe
  /\ warm' = "stopping"
  /\ proc' = [proc EXCEPT ![WarmInst] = "stopping"]
  /\ UNCHANGED <<shareSafe, poolVars, instVars, handlerVars, sweepVars>>

WarmStopped ==
  /\ warm = "stopping"
  /\ warm' = "ready"
  /\ proc' = [proc EXCEPT ![WarmInst] = "gone"]
  /\ UNCHANGED <<shareSafe, poolVars, instVars, handlerVars, sweepVars>>

WarmNext ==
  WarmSpawns \/ WarmFails \/ WarmCannotSpawn \/ WarmShares \/ WarmStops \/ WarmStopped
-----------------------------------------------------------------------------
(* RunnerFor and the use of its result.                                     *)

PartitionKey_Shared(s) == SharedKey
PartitionKey(s) == IF shareSafe THEN SharedKey ELSE s

Unbuilt == {i \in Insts : proc[i] = "unbuilt"}

(* The critical section of RunnerFor.  A closed pool and a Build that fails *)
(* return an error and change nothing.                                      *)
Lookup(h, s) ==
  LET k == PartitionKey(s)
      i == IF instances[k] # None THEN instances[k] ELSE CHOOSE j \in Unbuilt : TRUE IN
  /\ pc[h] = "idle" /\ warm = "ready" /\ ~closed
  /\ instances[k] = None => Unbuilt # {}   \* bound on instances, not in the code
  /\ instances' = [instances EXCEPT ![k] = i]
  /\ proc' = [proc EXCEPT ![i] = IF @ = "unbuilt" THEN "built" ELSE @]
  /\ lastUsed' = [lastUsed EXCEPT ![i] = 0]
  /\ pc' = [pc EXCEPT ![h] = "once"]
  /\ who' = [who EXCEPT ![h] = s]
  /\ inst' = [inst EXCEPT ![h] = i]
  /\ held' = [held EXCEPT ![h] = 0]
  /\ UNCHANGED <<shareSafe, warm, closed, once, startErr, started, sweepVars>>

(* The first goroutine to reach a fresh instance runs Start ...             *)
EnterOnce(h) ==
  /\ pc[h] = "once"
  /\ once[inst[h]] = "new"
  /\ pc' = [pc EXCEPT ![h] = "starting"]
  /\ once' = [once EXCEPT ![inst[h]] = "running"]
  /\ proc' = [proc EXCEPT ![inst[h]] = "starting"]
  /\ UNCHANGED <<shareSafe, warm, poolVars, startErr, started, lastUsed, who, inst, held, sweepVars>>

Done(h) ==
  /\ pc' = [pc EXCEPT ![h] = "idle"]
  /\ who' = [who EXCEPT ![h] = None]
  /\ inst' = [inst EXCEPT ![h] = None]
  /\ held' = [held EXCEPT ![h] = 0]

Use(h) == pc' = [pc EXCEPT ![h] = "use"] /\ UNCHANGED <<who, inst, held>>

StartSucceeds(h) ==
  /\ pc[h] = "starting"
  /\ once' = [once EXCEPT ![inst[h]] = "done"]
  /\ started' = [started EXCEPT ![inst[h]] = TRUE]
  /\ proc' = [proc EXCEPT ![inst[h]] = "live"]
  /\ Use(h)
  /\ UNCHANGED <<shareSafe, warm, poolVars, startErr, lastUsed, sweepVars>>

StartFails_NotDone(h) ==
  /\ pc[h] = "starting"
  /\ startErr' = [startErr EXCEPT ![inst[h]] = TRUE]
  /\ proc' = [proc EXCEPT ![inst[h]] = "gone"]
  /\ Done(h)
  /\ UNCHANGED <<shareSafe, warm, poolVars, once, started, lastUsed, sweepVars>>

(* ... and may fail: the backing MCP does, or the request's ctx ends.       *)
StartFails(h) ==
  /\ pc[h] = "starting"
  /\ once' = [once EXCEPT ![inst[h]] = "done"]
  /\ startErr' = [startErr EXCEPT ![inst[h]] = TRUE]
  /\ proc' = [proc EXCEPT ![inst[h]] = "gone"]
  /\ Done(h)
  /\ UNCHANGED <<shareSafe, warm, poolVars, started, lastUsed, sweepVars>>

(* Everybody else waits for it and shares its outcome.                      *)
PassOnce(h) ==
  /\ pc[h] = "once"
  /\ once[inst[h]] = "done"
  /\ IF startErr[inst[h]] THEN Done(h) ELSE Use(h)
  /\ UNCHANGED <<shareSafe, warm, poolVars, instVars, proc, sweepVars>>

Finish(h) ==
  /\ pc[h] = "use"
  /\ Done(h)
  /\ UNCHANGED <<shareSafe, warm, poolVars, instVars, proc, sweepVars>>

HandlerStep(h) ==
  EnterOnce(h) \/ StartSucceeds(h) \/ StartFails(h) \/ PassOnce(h) \/ Finish(h)
-----------------------------------------------------------------------------
(* EvictIdle and Close: instances leave the map under mu, then each is      *)
(* stopped outside the lock if it is found started by then.                 *)

Resting(w) == todo[w] = {} /\ at[w] = None

Evictable_Shared(k) == instances[k] # None /\ lastUsed[instances[k]] > PoolIdle
Evictable_Never(k)  == FALSE
Evictable_AtCutoff(k) ==
  k # SharedKey /\ instances[k] # None /\ lastUsed[instances[k]] >= PoolIdle
Evictable(k) ==
  k # SharedKey /\ instances[k] # None /\ lastUsed[instances[k]] > PoolIdle

EvictIdle ==
  LET cold == {k \in Keys : Evictable(k)} IN
  /\ warm = "ready" /\ ~closed /\ Resting("evict")
  /\ cold # {}
  /\ todo' = [todo EXCEPT !["evict"] = {instances[k] : k \in cold}]
  /\ instances' = [k \in Keys |-> IF k \in cold THEN None ELSE instances[k]]
  /\ UNCHANGED <<shareSafe, warm, closed, instVars, proc, handlerVars, at>>

CloseTargets_None == {}
CloseTargets_Nil  == {instances[k] : k \in Keys}
CloseTargets == {instances[k] : k \in Keys} \ {None}

(* The deferred Close of Run: requests may still be running, Shutdown may   *)
(* have timed out or the listener failed.                                   *)
Close ==
  /\ warm = "ready" /\ ~closed
  /\ closed' = TRUE
  /\ todo' = [todo EXCEPT !["close"] = CloseTargets]
  /\ instances' = [k \in Keys |-> None]
  /\ UNCHANGED <<shareSafe, warm, instVars, proc, handlerVars, at>>

SweepTakes(w) ==
  /\ at[w] = None
  /\ \E i \in todo[w] :
       /\ todo' = [todo EXCEPT ![w] = @ \ {i}]
       /\ IF started[i]
            THEN at' = [at EXCEPT ![w] = i] /\ proc' = [proc EXCEPT ![i] = "stopping"]
            ELSE UNCHANGED <<at, proc>>
  /\ UNCHANGED <<shareSafe, warm, poolVars, instVars, handlerVars>>

SweepStopped(w) ==
  /\ at[w] # None
  /\ at' = [at EXCEPT ![w] = None]
  /\ proc' = [proc EXCEPT ![at[w]] = "gone"]
  /\ UNCHANGED <<shareSafe, warm, poolVars, instVars, handlerVars, todo>>
-----------------------------------------------------------------------------
Pooled(i) == \E k \in Keys : instances[k] = i

Older(age) == IF age < Long THEN age + 1 ELSE age

Tick ==
  /\ lastUsed' = [i \in Insts |-> IF Pooled(i) THEN Older(lastUsed[i]) ELSE lastUsed[i]]
  /\ held' = [h \in Handlers |-> IF pc[h] = "idle" THEN 0 ELSE Older(held[h])]
  /\ UNCHANGED <<shareSafe, warm, poolVars, once, startErr, started, proc, pc, who, inst, sweepVars>>

Next ==
  \/ WarmNext
  \/ \E h \in Handlers : HandlerStep(h) \/ \E s \in Subjects : Lookup(h, s)
  \/ EvictIdle
  \/ Close
  \/ \E w \in Sweepers : SweepTakes(w) \/ SweepStopped(w)
  \/ Tick

(* Goroutines run, Start and every use of a runner end, the clock and the   *)
(* GC ticker go on; no client has to call and nobody has to close the pool. *)
Fairness ==
  /\ WF_vars(WarmNext)
  /\ \A h \in Handlers : WF_vars(HandlerStep(h))
  /\ WF_vars(EvictIdle)
  /\ \A w \in Sweepers : WF_vars(SweepTakes(w) \/ SweepStopped(w))
  /\ WF_vars(Tick)

Spec     == Init /\ [][Next]_vars
FairSpec == Spec /\ Fairness
-----------------------------------------------------------------------------
(* The variables hold values of their types.                                *)
TypeOK ==
  /\ shareSafe \in ShareModes
  /\ warm \in {"new", "starting", "stopping", "ready", "failed", "stuck"}
  /\ closed \in BOOLEAN
  /\ instances \in [Keys -> Insts \cup {None}]
  /\ once \in [Insts -> {"new", "running", "done"}]
  /\ startErr \in [Insts -> BOOLEAN]
  /\ started \in [Insts -> BOOLEAN]
  /\ lastUsed \in [Insts -> 0..Long]
  /\ proc \in [Insts -> {"unbuilt", "built", "starting", "live", "stopping", "gone"}]
  /\ pc \in [Handlers -> {"idle", "once", "starting", "use"}]
  /\ who \in [Handlers -> Subjects \cup {None}]
  /\ inst \in [Handlers -> Insts \cup {None}]
  /\ held \in [Handlers -> 0..Long]
  /\ todo \in [Sweepers -> SUBSET Insts]
  /\ at \in [Sweepers -> Insts \cup {None}]

(* The runner RunnerFor returned has been started, whoever started it, and  *)
(* for the idle timeout after the request's lookup nobody but Close stops   *)
(* it under the request, whatever the requests of other goroutines do to    *)
(* lastUsed ("that's what keeps an actively-used instance from being reaped *)
(* by EvictIdle").  A request that takes longer may lose its runner.        *)
InUseNotReaped ==
  \A h \in Handlers :
    pc[h] = "use" /\ held[h] <= PoolIdle /\ ~closed => proc[inst[h]] = "live"

(* No subject ever reaches another's process, and two requests of one       *)
(* partition are served by two processes only if one of them has been at it *)
(* for longer than the idle timeout.                                        *)
OneRunnerPerPartition ==
  \A g, h \in Handlers : pc[g] = "use" /\ pc[h] = "use" =>
    /\ inst[g] = inst[h] => shareSafe \/ who[g] = who[h]
    /\ (shareSafe \/ who[g] = who[h]) /\ held[g] <= PoolIdle /\ held[h] <= PoolIdle =>
         inst[g] = inst[h]

(* A process that runs is leaked unless the pool can still stop it: it is   *)
(* on the map or in the hands of a sweeper.                                 *)
Owned(i) ==
  \/ Pooled(i)
  \/ \E w \in Sweepers : i \in todo[w] \/ at[w] = i
  \/ i = WarmInst /\ warm \in {"new", "starting", "stopping"}
Leaked(i) == proc[i] \in {"starting", "live", "stopping"} /\ ~Owned(i)

(* The only way to leak a process is a Start that is late: EvictIdle took   *)
(* the instance because the request that brings it up has been at it for    *)
(* longer than the idle timeout, or Close overtook the request; either      *)
(* finds the instance not started and forgets it.  A started runner is      *)
(* never forgotten.                                                         *)
OnlyLateStartsLeak ==
  [][\A i \in Insts : Leaked(i)' => Leaked(i) \/
       \E h \in Handlers : /\ pc[h] \in {"once", "starting"} /\ inst[h] = i
                           /\ closed \/ held[h] > PoolIdle]_vars

(* "Close stops every live Runner in the pool": once Close is through, no   *)
(* runner is live.  It stops those whose Start had returned.                *)
CloseStopsEveryRunner ==
  closed /\ Resting("close") /\ Resting("evict") => \A i \in Insts : proc[i] # "live"

(* The shared runner serves everybody until Close: EvictIdle never takes it *)
(* although its last use is long ago.                                       *)
SharedStays ==
  shareSafe /\ warm = "ready" /\ ~closed =>
    instances[SharedKey] = WarmInst /\ proc[WarmInst] = "live"

(* Every request gets its runner or an error, waits for the Start of        *)
(* another request included.                                                *)
RequestReturns == \A h \in Handlers : pc[h] # "idle" ~> pc[h] = "idle"

(* When requests stop coming, every per-identity process that is not leaked *)
(* ends and every failed Start is forgotten; Close ends what is left.       *)
QuietPoolEmpties ==
  /\ <>[](\A h \in Handlers : pc[h] = "idle") =>
       <>[](/\ \A s \in Subjects : instances[s] = None
            /\ \A i \in Insts : proc[i] \in {"starting", "live", "stopping"} =>
                                 Leaked(i) \/ instances[SharedKey] = i)
  /\ closed ~> \A i \in Insts : proc[i] \in {"starting", "live", "stopping"} => Leaked(i)
=============================================================================
