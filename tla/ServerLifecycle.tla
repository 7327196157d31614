-------------------------- MODULE ServerLifecycle --------------------------
(***************************************************************************)
(* src/internal/server/server.go and src/cmd/server/main.go: a server from *)
(* its configuration to its exit.                                          *)
(*                                                                         *)
(*   main       main and Run: backend first, then GC and listener, then    *)
(*              a signal or a listener error, Shutdown, the deferred Close *)
(*   gc         runSessionGC: one ticker, sessions, buckets, runners       *)
(*   listener   the goroutine in ListenAndServe                            *)
(*   req        handler goroutines: streams, and calls with their runner   *)
(*                                                                         *)
(* Runners are what RunnerPool needs of them, and lookups are what         *)
(* RunnerPool shows them to be: a runner is cold when its last lookup is   *)
(* long ago, whether or not requests still start or use it.  An embedding  *)
(* program or a test calls Run with a Config of its own, perhaps with a    *)
(* single Runner.                                                          *)
(* A name X_Why is a mutant of X, used by no specification.                *)
(***************************************************************************)
EXTENDS Configuration, FiniteSets

CONSTANTS
  Requests, Runners, WarmRunner, None,
  FileConfigs, ListenFlags,  \* what d8a-server may be started with
  EmbeddedConfigs,           \* Configs of other callers of Run
  BwrapFound,                \* exec.LookPath("bwrap")
  MayHang,                   \* children that may never let their Stop return
  Paths, AbsPaths, Covers, DefaultROBinds, FreshViews, NoKey,
  NilPolicy, Error

ASSUME ServerLifecycleAssumption ==
  /\ WarmRunner \in Runners /\ None \notin Runners
  /\ BwrapFound \in BOOLEAN /\ MayHang \subseteq Runners
  /\ AbsPaths \subseteq Paths /\ Covers \subseteq AbsPaths \X AbsPaths
  /\ {DefaultROBinds, FreshViews} \subseteq Seq(AbsPaths)
  /\ None \notin FileConfigs \cup EmbeddedConfigs
  /\ \A f \in FileConfigs, l \in ListenFlags : Runtime(f, l) # None
  /\ \A c \in EmbeddedConfigs : c.backend \in {"none", "runner", "pool", "both"}
  /\ {"idle", "alone"} \cap Runners = {}

S == INSTANCE Sandbox

Stores   == {"sessions", "buckets"}
Sweepers == {"evict", "close"}

VARIABLES
  fc, flag, cfg,         \* fc: the file, or None for an embedding caller
  main, runErr, ctxDone, \* runErr: Run returns an error
  listener,
  proc, hung,            \* runner processes; those whose Stop never ends
  pooled, poolClosed,
  gc,                    \* the GC goroutine
  todo, at,              \* of EvictIdle and Close: runners to stop, the one in Stop
  stale, cold,           \* what the next sweep of each store would remove
  req, on,               \* each request and its runner
  late                   \* requests whose own lookup is long ago (history)

confVars   == <<fc, flag, cfg>>
mainVars   == <<main, runErr, ctxDone, listener>>
procVars   == <<proc, hung, pooled, poolClosed>>
sweepVars  == <<gc, todo, at>>
clientVars == <<stale, cold, req, on, late>>
vars == <<confVars, mainVars, procVars, sweepVars, clientVars>>

Init ==
  /\ \/ /\ main = "config"
        /\ fc \in FileConfigs /\ flag \in ListenFlags /\ cfg = None
     \/ /\ main = "run"
        /\ fc = None /\ flag = None /\ cfg \in EmbeddedConfigs
  /\ runErr = FALSE /\ ctxDone = FALSE /\ listener = "off"
  /\ proc = [i \in Runners |-> "unbuilt"] /\ hung = {}
  /\ pooled = {} /\ poolClosed = FALSE
  /\ gc = "off"
  /\ todo = [w \in Sweepers |-> {}] /\ at = [w \in Sweepers |-> None]
  /\ stale = {} /\ cold = {}
  /\ req = [r \in Requests |-> "idle"] /\ on = [r \in Requests |-> None]
  /\ late = {}

Alive   == main # "exited"
Serving == main \in {"select", "shutdown"}
HasPool == cfg # None /\ cfg.backend = "pool"
Isolate == HasPool /\ ~cfg.shareSafe
-----------------------------------------------------------------------------
(* main and Run, up to the listener.                                        *)

ExitsWith(err) == main' = "exited" /\ runErr' = err

Configure ==
  /\ main = "config"
  /\ IF Loads(fc) /\ KeysDecode(fc)
       THEN main' = "run" /\ cfg' = Runtime(fc, flag) /\ UNCHANGED runErr
       ELSE ExitsWith(TRUE) /\ UNCHANGED cfg
  /\ UNCHANGED <<fc, flag, ctxDone, listener, procVars, sweepVars, clientVars>>

Builds == S!WrapCommand(cfg.command, cfg.sandbox, BwrapFound) # Error

(* Runner and Backend exclude each other; a backend that cannot be built    *)
(* ends Run; without one there is none to wait for.                         *)
RunBegins ==
  /\ main = "run"
  /\ CASE cfg.backend = "none" -> main' = "listen" /\ UNCHANGED <<runErr, proc>>
       [] cfg.backend = "both" \/ (HasPool /\ ~Builds) -> ExitsWith(TRUE) /\ UNCHANGED proc
       [] cfg.backend = "runner" \/ (HasPool /\ Builds) ->
            /\ main' = "warm" /\ UNCHANGED runErr
            /\ proc' = [proc EXCEPT ![WarmRunner] = "starting"]
  /\ UNCHANGED <<confVars, ctxDone, listener, hung, pooled, poolClosed, sweepVars, clientVars>>

(* A failed handshake leaves no child behind, unless its Stop does not      *)
(* return; the error ends Run.                                              *)
WarmFails ==
  /\ main = "warm" /\ WarmRunner \notin hung
  /\ proc' = [proc EXCEPT ![WarmRunner] = "gone"]
  /\ main' = "giveup"
  /\ UNCHANGED <<confVars, runErr, ctxDone, listener, hung, pooled, poolClosed, sweepVars, clientVars>>

(* The spawn itself fails.  pool.Start then stops a runner that has no      *)
(* reader to wait for and never returns; a single Runner is not stopped.    *)
WarmCannotSpawn ==
  /\ main = "warm"
  /\ proc' = [proc EXCEPT ![WarmRunner] = "gone"]
  /\ main' = IF HasPool THEN "stuck" ELSE "giveup"
  /\ UNCHANGED <<confVars, runErr, ctxDone, listener, hung, pooled, poolClosed, sweepVars, clientVars>>

(* In isolate mode the warm-up runner has then served its purpose.          *)
WarmStarts ==
  /\ main = "warm"
  /\ proc' = [proc EXCEPT ![WarmRunner] = IF Isolate THEN "stopping" ELSE "live"]
  /\ main' = IF Isolate THEN "warmstop" ELSE "listen"
  /\ pooled' = IF HasPool /\ cfg.shareSafe THEN {WarmRunner} ELSE {}
  /\ UNCHANGED <<confVars, runErr, ctxDone, listener, hung, poolClosed, sweepVars, clientVars>>

WarmStopped ==
  /\ main = "warmstop" /\ WarmRunner \notin hung
  /\ proc' = [proc EXCEPT ![WarmRunner] = "gone"]
  /\ main' = "listen"
  /\ UNCHANGED <<confVars, runErr, ctxDone, listener, hung, pooled, poolClosed, sweepVars, clientVars>>

Listens ==
  /\ main = "listen"
  /\ main' = "select"
  /\ gc' = IF GCEnabled(cfg) THEN "select" ELSE "off"
  /\ listener' = "binding"
  /\ UNCHANGED <<confVars, runErr, ctxDone, procVars, todo, at, clientVars>>

Startup == Configure \/ RunBegins \/ WarmStopped \/ Listens
-----------------------------------------------------------------------------
(* The signal, the listener and the end of Run.                             *)

(* Later signals are caught as well, and change nothing.                    *)
Signal ==
  /\ main \notin {"config", "exited"}
  /\ ~ctxDone
  /\ ctxDone' = TRUE
  /\ UNCHANGED <<confVars, main, runErr, listener, procVars, sweepVars, clientVars>>

(* A listener that breaks leaves the connections it has accepted open.      *)
ListenerStep ==
  /\ Alive
  /\ \/ listener = "binding" /\ listener' \in {"open", "failed"}
     \/ listener = "open" /\ listener' = "broken"
  /\ UNCHANGED <<confVars, main, runErr, ctxDone, procVars, sweepVars, clientVars>>

ListenErr == listener \in {"failed", "broken"}

(* Shutdown closes the listener and idle connections at once, then waits.   *)
ShutdownBegins ==
  /\ main = "select"
  /\ ctxDone
  /\ main' = "shutdown"
  /\ listener' = IF ListenErr THEN "failed" ELSE "closed"
  /\ UNCHANGED <<confVars, runErr, ctxDone, procVars, sweepVars, clientVars>>

CloseTargets_NilRunner ==
  IF HasPool THEN pooled ELSE IF cfg.backend = "runner" THEN {WarmRunner} ELSE {None}
CloseTargets == IF cfg.backend = "runner" THEN {WarmRunner} ELSE pooled

(* Run returns: the deferred Close or Stop takes what there is to stop.     *)
Closing(err) ==
  /\ main' = "close" /\ runErr' = err
  /\ todo' = [todo EXCEPT !["close"] = CloseTargets]
  /\ pooled' = {} /\ poolClosed' = HasPool
  /\ UNCHANGED <<confVars, ctxDone, listener, proc, hung, gc, at, clientVars>>

(* The listener's error ends Run with no Shutdown at all.                   *)
Undrained == main = "select" /\ ListenErr /\ Closing(TRUE)

Drained_NoWait == main = "shutdown" /\ Closing(listener = "failed")

(* ListenAndServe has returned ErrServerClosed, or an error of its own.     *)
Drained ==
  /\ main = "shutdown"
  /\ \A r \in Requests : req[r] = "idle"
  /\ Closing(listener = "failed")

(* shutdownTimeout: what is still running then is not waited for.           *)
TimesOut_Never == FALSE
TimesOut == main = "shutdown" /\ Closing(TRUE)

Exits ==
  /\ \/ main = "close" /\ todo["close"] = {} /\ at["close"] = None /\ ExitsWith(runErr)
     \/ main = "giveup" /\ ExitsWith(TRUE)
  /\ UNCHANGED <<confVars, ctxDone, listener, procVars, sweepVars, clientVars>>

Ending == Undrained \/ ShutdownBegins \/ Drained \/ TimesOut \/ Exits
-----------------------------------------------------------------------------
(* runSessionGC, and the stops of EvictIdle and Close.                      *)

GCMoves(from, to) == Alive /\ gc = from /\ gc' = to

GCExits ==
  /\ ctxDone
  /\ GCMoves("select", "off")
  /\ UNCHANGED <<confVars, mainVars, procVars, todo, at, clientVars>>

Limited_AndPooled == cfg.limited /\ HasPool
Limited == cfg.limited

(* A tick: ExpireBefore on the sessions, Cleanup of the buckets if there is *)
(* a limiter, both stores of their own.                                     *)
SweepStores ==
  /\ GCMoves("select", "evict")
  /\ stale' = IF Limited THEN {} ELSE stale \ {"sessions"}
  /\ UNCHANGED <<confVars, mainVars, procVars, todo, at, cold, req, on, late>>

(* The shared runner is never evicted.                                      *)
Victims == IF Isolate /\ PoolIdleTimeout(cfg) > 0 THEN pooled \cap cold ELSE {}

EvictIdle ==
  /\ GCMoves("evict", "stop")
  /\ todo' = [todo EXCEPT !["evict"] = Victims]
  /\ pooled' = pooled \ Victims
  /\ cold' = cold \ Victims
  /\ UNCHANGED <<confVars, mainVars, proc, hung, poolClosed, at, stale, req, on, late>>

EvictEnds ==
  /\ GCMoves("stop", "select")
  /\ todo["evict"] = {} /\ at["evict"] = None
  /\ UNCHANGED <<confVars, mainVars, procVars, todo, at, clientVars>>

Stopping(w) == Alive /\ (w = "close" => main = "close")

(* A runner that has not been started is skipped.                           *)
SweepTakes(w) ==
  /\ Stopping(w) /\ at[w] = None
  /\ \E i \in todo[w] :
       /\ todo' = [todo EXCEPT ![w] = @ \ {i}]
       /\ IF proc[i] = "live"
            THEN at' = [at EXCEPT ![w] = i] /\ proc' = [proc EXCEPT ![i] = "stopping"]
            ELSE UNCHANGED <<at, proc>>
  /\ UNCHANGED <<confVars, mainVars, hung, pooled, poolClosed, gc, clientVars>>

SweepStopped(w) ==
  /\ Stopping(w) /\ at[w] \notin hung \cup {None}
  /\ at' = [at EXCEPT ![w] = None]
  /\ proc' = [proc EXCEPT ![at[w]] = "gone"]
  /\ UNCHANGED <<confVars, mainVars, hung, pooled, poolClosed, gc, todo, clientVars>>

SweepStep(w) == SweepTakes(w) \/ SweepStopped(w)

GCNext ==
  \/ GCExits \/ SweepStores \/ EvictIdle \/ SweepStep("evict") \/ EvictEnds
-----------------------------------------------------------------------------
(* Requests.  The listener accepts, a handler opens a stream, answers by    *)
(* itself or asks for a runner.                                             *)

Handles(r, from, to) ==
  /\ Alive /\ req[r] = from
  /\ req' = [req EXCEPT ![r] = to]

(* New connections while the listener is open, further requests on those    *)
(* there are when it has broken.                                            *)
Accept(r) ==
  /\ listener \in {"open", "broken"}
  /\ Handles(r, "idle", "handler")
  /\ UNCHANGED <<confVars, mainVars, procVars, sweepVars, stale, cold, on, late>>

OpensStream(r) ==
  /\ Handles(r, "handler", "stream")
  /\ UNCHANGED <<confVars, mainVars, procVars, sweepVars, stale, cold, on, late>>

UsesSingle(r) ==
  /\ Handles(r, "handler", "use")
  /\ cfg.backend = "runner"
  /\ on' = [on EXCEPT ![r] = WarmRunner]
  /\ UNCHANGED <<confVars, mainVars, procVars, sweepVars, stale, cold, late>>

Unbuilt == {i \in Runners : proc[i] = "unbuilt"}
Fresh   == IF Unbuilt = {} THEN {} ELSE {CHOOSE i \in Unbuilt : TRUE}

(* RunnerFor on an open pool: a runner that runs, one that is starting, or  *)
(* in isolate mode a new one.  Every other outcome is an error.             *)
LooksUp(r) ==
  /\ HasPool /\ ~poolClosed
  /\ \E i \in {j \in pooled : proc[j] # "gone"} \cup (IF Isolate THEN Fresh ELSE {}) :
       /\ Handles(r, "handler", IF proc[i] = "live" THEN "use" ELSE "starting")
       /\ on' = [on EXCEPT ![r] = i]
       /\ proc' = [proc EXCEPT ![i] = IF @ = "unbuilt" THEN "starting" ELSE @]
       /\ pooled' = pooled \cup {i}
       /\ cold' = cold \ {i}
  /\ UNCHANGED <<confVars, mainVars, hung, poolClosed, sweepVars, stale, late>>

Waiting(i) == {r \in Requests : req[r] = "starting" /\ on[r] = i}

(* startOnce ends for everybody who waits for it; a Start that fails first  *)
(* waits for its own Stop.                                                  *)
StartEnds(i, ok) ==
  /\ Alive /\ Waiting(i) # {}
  /\ ok \/ i \notin hung
  /\ proc' = [proc EXCEPT ![i] = IF ok THEN "live" ELSE "gone"]
  /\ req' = [r \in Requests |-> IF r \notin Waiting(i) THEN req[r]
                                ELSE IF ok THEN "use" ELSE "idle"]
  /\ on' = [r \in Requests |-> IF r \in Waiting(i) /\ ~ok THEN None ELSE on[r]]
  /\ late' = IF ok THEN late ELSE late \ Waiting(i)
  /\ UNCHANGED <<confVars, mainVars, hung, pooled, poolClosed, sweepVars, stale, cold>>

(* A reply, an error, or the client hangs up.                               *)
Returns(r) ==
  /\ req[r] \in {"handler", "stream", "use"}
  /\ Handles(r, req[r], "idle")
  /\ on' = [on EXCEPT ![r] = None]
  /\ late' = late \ {r}
  /\ UNCHANGED <<confVars, mainVars, procVars, sweepVars, stale, cold>>

RequestStep(r) == Accept(r) \/ OpensStream(r) \/ UsesSingle(r) \/ LooksUp(r) \/ Returns(r)
-----------------------------------------------------------------------------
(* Time and the children.                                                   *)

(* Without a limiter there are no buckets.                                  *)
GoesStale(s) ==
  /\ Serving /\ (s = "buckets" => cfg.limited)
  /\ stale' = stale \cup {s}
  /\ UNCHANGED <<confVars, mainVars, procVars, sweepVars, cold, req, on, late>>

(* The last lookup, hence that of every request on i, is long ago.          *)
GoesCold(i) ==
  /\ Serving /\ i \in pooled
  /\ cold' = cold \cup {i}
  /\ late' = late \cup {r \in Requests : on[r] = i}
  /\ UNCHANGED <<confVars, mainVars, procVars, sweepVars, stale, req, on>>

Hang(i) ==
  /\ i \in MayHang /\ Alive /\ proc[i] \in {"starting", "live", "stopping"}
  /\ hung' = hung \cup {i}
  /\ UNCHANGED <<confVars, mainVars, proc, pooled, poolClosed, sweepVars, clientVars>>

Next ==
  \/ Startup \/ WarmFails \/ WarmCannotSpawn \/ WarmStarts
  \/ Signal \/ ListenerStep \/ Ending
  \/ GCNext \/ SweepStep("close")
  \/ \E r \in Requests : RequestStep(r)
  \/ \E i \in Runners : GoesCold(i) \/ Hang(i) \/ \E ok \in BOOLEAN : StartEnds(i, ok)
  \/ \E s \in Stores : GoesStale(s)

(* Goroutines that can run do, the ticker fires, the timeout of Shutdown    *)
(* comes, and a Start whose ctx has ended fails.  No request, stream or     *)
(* child has to come to an end.                                             *)
Fairness ==
  /\ WF_vars(Startup)
  /\ WF_vars(WarmFails /\ ctxDone)
  /\ WF_vars(Ending)
  /\ WF_vars(SweepStep("close"))
  /\ WF_vars(GCNext)

Spec     == Init /\ [][Next]_vars
FairSpec == Spec /\ Fairness
-----------------------------------------------------------------------------
(* The variables hold values of their types; nothing is served, swept or    *)
(* stopped before Run has come that far.                                    *)
TypeOK ==
  /\ main \in {"config", "run", "warm", "warmstop", "giveup", "stuck", "listen", "select",
               "shutdown", "close", "exited"}
  /\ fc \in FileConfigs \cup {None} /\ flag \in ListenFlags \cup {None}
  /\ cfg = None <=> /\ fc # None
                    /\ main = "config" \/ (main = "exited" /\ ~(Loads(fc) /\ KeysDecode(fc)))
  /\ {runErr, ctxDone, poolClosed} \subseteq BOOLEAN
  /\ listener \in {"off", "binding", "open", "broken", "failed", "closed"}
  /\ proc \in [Runners -> {"unbuilt", "starting", "live", "stopping", "gone"}]
  /\ hung \cup pooled \cup cold \subseteq Runners
  /\ gc \in {"off", "select", "evict", "stop"}
  /\ todo \in [Sweepers -> SUBSET Runners] /\ at \in [Sweepers -> Runners \cup {None}]
  /\ stale \subseteq Stores
  /\ req \in [Requests -> {"idle", "handler", "starting", "use", "stream"}]
  /\ on \in [Requests -> Runners \cup {None}]
  /\ late \subseteq Requests
  /\ Serving => listener # "off"

(* What Run and RunnerPool promise, see Service.  In service is what Close  *)
(* or Stop will stop: a process on the map, in the hands of Close, or that  *)
(* of the warm-up.  One that EvictIdle has taken off the map is nobody's    *)
(* from then on: Close does not know it, Run may return while it is still   *)
(* being stopped, and one that was not started yet is never stopped.        *)
Running   == {i \in Runners : proc[i] \in {"starting", "live", "stopping"}}
InService == pooled \cup todo["close"] \cup {at["close"], WarmRunner}
Promise == INSTANCE Service WITH
  Procs   <- Runners,
  Idle    <- "idle",
  Alone   <- "alone",
  status  <- CASE main = "close" /\ runErr -> "failing"
               [] main = "exited" -> IF runErr THEN "failed" ELSE "clean"
               [] OTHER -> "running",
  backing <- Running \cap InService,
  leaving <- Running \ InService,
  uses    <- [r \in Requests |-> CASE req[r] = "idle" -> "idle"
                                   [] req[r] \in {"starting", "use"} -> on[r]
                                   [] OTHER -> "alone"]
ImplementsService == Promise!Spec

(* A signal ends the server, whatever its clients do, streams and requests  *)
(* without an answer included, unless a Stop does not return: that of a     *)
(* child that keeps its stdout open, or the one pool.Start makes when the   *)
(* spawn of the warm-up fails, where not even a signal helps.               *)
NeverHung  == [](hung = {})
NeverStuck == [](main # "stuck")
SignalEndsRun == NeverHung /\ NeverStuck => (ctxDone ~> main = "exited")

(* "One ticker, three jobs ... Each job is bypassed cleanly when its        *)
(* corresponding feature is disabled": whatever else is configured, what an *)
(* enabled sweep should remove is removed while the server runs, as long as *)
(* idleTimeoutSeconds is not negative (nor beyond the range of a duration)  *)
(* and no evicted child hangs.                                              *)
Swept(s) == (Serving /\ s \in stale) ~> (~Serving \/ ctxDone \/ s \notin stale)
Evicted(i) == (Serving /\ i \in cold) ~> (~Serving \/ ctxDone \/ i \notin cold)
StoresSwept ==
  NeverHung /\ [](cfg # None => cfg.idle >= 0) =>
    /\ Swept("sessions")
    /\ [](cfg # None => cfg.limited) => Swept("buckets")
    /\ [](cfg # None => Isolate /\ cfg.poolIdle >= 0) => \A i \in Runners : Evicted(i)
=============================================================================
