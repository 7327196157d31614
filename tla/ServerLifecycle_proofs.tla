----------------------- MODULE ServerLifecycle_proofs -----------------------
(***************************************************************************)
(* That ServerLifecycle does what Service promises, for any numbers of     *)
(* requests and runners and any configurations; and that the mounts of any *)
(* sandbox policy show what the policy says.                               *)
(***************************************************************************)
EXTENDS ServerLifecycle, FiniteSetTheorems, SequenceTheorems, WellFoundedInduction, TLAPS

Closed == main \in {"close", "exited"}

(* What has to have come first: nothing is accepted, swept or pooled before *)
(* Run listens, nothing accepted once it has shut down, and a Run without   *)
(* an error closes only when every request is over.                         *)
PhasesOK ==
  /\ main \notin {"select", "shutdown", "close", "exited"} =>
       listener = "off" /\ gc = "off" /\ \A r \in Requests : req[r] = "idle"
  /\ main \in {"config", "run", "warm", "giveup"} => pooled = {}
  /\ listener \in {"binding", "open"} => main = "select"
  /\ listener = "broken" => main = "select" \/ (Closed /\ runErr)
  /\ runErr => Closed
  /\ ~Closed => todo["close"] = {} /\ at["close"] = None /\ ~poolClosed
  /\ main = "close" => pooled = {} /\ (HasPool => poolClosed)
  /\ gc # "stop" => todo["evict"] = {} /\ at["evict"] = None
  /\ Closed /\ ~runErr => \A r \in Requests : req[r] = "idle"

(* A request and the runner it has; who has a cold one has it for long.     *)
RequestsOK ==
  /\ \A r \in Requests :
       /\ req[r] = "starting" => on[r] \in Runners /\ proc[on[r]] = "starting"
       /\ req[r] = "use" => on[r] \in Runners /\ proc[on[r]] \in {"live", "stopping", "gone"}
       /\ req[r] \in {"idle", "handler", "stream"} => on[r] = None
  /\ \A r \in Requests : on[r] \in cold => r \in late

(* The runners on the map and on the lists of the sweepers: what EvictIdle  *)
(* has taken is no longer in service.                                       *)
PlacesOK ==
  /\ \A i \in pooled : proc[i] \in {"starting", "live", "gone"}
  /\ \A i \in todo["evict"] : i \notin InService /\ proc[i] # "unbuilt"
  /\ at["evict"] # None => at["evict"] \notin InService
  /\ \A w \in Sweepers : at[w] # None => proc[at[w]] = "stopping"
  /\ ~HasPool => pooled = {} /\ cold = {} /\ todo["evict"] = {}

(* The runner of the warm-up, or the only one: Run and the pool always know *)
(* it, so that Close or Stop finds it.                                      *)
Single == cfg # None /\ cfg.backend = "runner" /\ main \in {"listen", "select", "shutdown"}
WarmOK ==
  /\ main \in {"config", "run"} => \A i \in Runners : proc[i] = "unbuilt"
  /\ main = "warm" => proc[WarmRunner] = "starting"
  /\ main = "warmstop" => proc[WarmRunner] = "stopping"
  /\ main \in {"giveup", "stuck"} => proc[WarmRunner] = "gone"
  /\ Single => proc[WarmRunner] = "live"
  /\ main \in {"listen", "select", "shutdown", "close"} =>
       /\ proc[WarmRunner] # "starting"
       /\ proc[WarmRunner] = "live" => WarmRunner \in pooled \cup todo["close"] \/ Single
       /\ proc[WarmRunner] = "stopping" => WarmRunner = at["close"]
       /\ cfg.backend \in {"runner", "pool"} => proc[WarmRunner] # "unbuilt"
       /\ Isolate => WarmRunner \notin pooled /\ proc[WarmRunner] = "gone"

ConfigOK ==
  /\ main = "config" => fc \in FileConfigs /\ flag \in ListenFlags
  /\ cfg # None => cfg.backend \in {"none", "runner", "pool", "both"}
  /\ cfg # None /\ fc # None => Loads(fc) /\ KeysDecode(fc)
  /\ main = "warm" => cfg.backend \in {"runner", "pool"}
  /\ main = "warmstop" => cfg.backend = "pool"

LifeInv == TypeOK /\ ConfigOK /\ PhasesOK /\ RequestsOK /\ PlacesOK /\ WarmOK
-----------------------------------------------------------------------------
LEMMA Constants ==
  /\ WarmRunner \in Runners /\ None \notin Runners
  /\ None \notin FileConfigs /\ None \notin EmbeddedConfigs
  /\ \A f \in FileConfigs, l \in ListenFlags : Runtime(f, l) # None
  /\ \A c \in EmbeddedConfigs : c.backend \in {"none", "runner", "pool", "both"}
  /\ "idle" \notin Runners /\ "alone" \notin Runners
  BY ServerLifecycleAssumption

LEMMA InitInv == Init => LifeInv
<1> SUFFICES ASSUME Init PROVE LifeInv
  OBVIOUS
<1> USE Constants DEF Init
<1>1. TypeOK
  BY DEF TypeOK, Serving
<1>2. PhasesOK /\ ConfigOK
  BY DEF PhasesOK, ConfigOK, Closed, Sweepers
<1>3. RequestsOK
  BY DEF RequestsOK
<1>4. PlacesOK
  BY DEF PlacesOK, Sweepers, HasPool
<1>5. WarmOK
  BY DEF WarmOK, Single
<1> QED
  BY <1>1, <1>2, <1>3, <1>4, <1>5 DEF LifeInv

(* What RunBegins does, with the configurations there are.                  *)
LEMMA RunBeginsDoes ==
  ASSUME ConfigOK, TypeOK, RunBegins
  PROVE  /\ main = "run"
         /\ UNCHANGED <<confVars, ctxDone, listener, hung, pooled, poolClosed>>
         /\ UNCHANGED <<sweepVars, clientVars>>
         /\ \/ main' = "listen" /\ cfg.backend = "none" /\ UNCHANGED <<runErr, proc>>
            \/ ExitsWith(TRUE) /\ UNCHANGED proc
            \/ /\ main' = "warm" /\ UNCHANGED runErr /\ cfg.backend \in {"runner", "pool"}
               /\ proc' = [proc EXCEPT ![WarmRunner] = "starting"]
<1>1. cfg # None
  BY DEF TypeOK, RunBegins
<1>2. CASE cfg.backend = "none"
  BY <1>2 DEF RunBegins, HasPool
<1>3. CASE cfg.backend = "both" \/ (cfg.backend = "pool" /\ ~Builds)
  BY <1>1, <1>3 DEF RunBegins, HasPool
<1>4. CASE cfg.backend = "runner" \/ (cfg.backend = "pool" /\ Builds)
  BY <1>1, <1>4 DEF RunBegins, HasPool
<1> QED
  BY <1>1, <1>2, <1>3, <1>4 DEF ConfigOK

TakesOne(w, i) ==
  /\ todo' = [todo EXCEPT ![w] = todo[w] \ {i}]
  /\ \/ /\ proc[i] = "live" /\ at' = [at EXCEPT ![w] = i]
        /\ proc' = [proc EXCEPT ![i] = "stopping"]
     \/ proc[i] # "live" /\ UNCHANGED <<at, proc>>

LEMMA SweepTakesDoes ==
  ASSUME NEW w \in Sweepers, SweepTakes(w)
  PROVE  /\ at[w] = None /\ Alive /\ (w = "close" => main = "close")
         /\ UNCHANGED <<confVars, mainVars, hung, pooled, poolClosed, gc, clientVars>>
         /\ \E i \in todo[w] : TakesOne(w, i)
<1>1. /\ at[w] = None /\ Alive /\ (w = "close" => main = "close")
      /\ UNCHANGED <<confVars, mainVars, hung, pooled, poolClosed, gc, clientVars>>
  BY DEF SweepTakes, Stopping
<1>2. PICK i \in todo[w] :
        /\ todo' = [todo EXCEPT ![w] = @ \ {i}]
        /\ IF proc[i] = "live"
             THEN at' = [at EXCEPT ![w] = i] /\ proc' = [proc EXCEPT ![i] = "stopping"]
             ELSE UNCHANGED <<at, proc>>
  BY Zenon DEF SweepTakes
<1>3. TakesOne(w, i)
  BY <1>2 DEF TakesOne
<1> QED
  BY <1>1, <1>3

LEMMA LooksUpDoes ==
  ASSUME TypeOK, NEW r \in Requests, LooksUp(r)
  PROVE  /\ HasPool /\ ~poolClosed /\ Alive /\ req[r] = "handler"
         /\ UNCHANGED <<confVars, mainVars, hung, poolClosed, sweepVars, stale, late>>
         /\ \E i \in Runners :
              /\ proc[i] # "gone" /\ (i \in pooled \/ (Isolate /\ proc[i] = "unbuilt"))
              /\ req' = [req EXCEPT ![r] = IF proc[i] = "live" THEN "use" ELSE "starting"]
              /\ on' = [on EXCEPT ![r] = i]
              /\ proc' = [proc EXCEPT ![i] = IF proc[i] = "unbuilt" THEN "starting" ELSE proc[i]]
              /\ pooled' = pooled \cup {i}
              /\ cold' = cold \ {i}
<1>1. /\ HasPool /\ ~poolClosed
      /\ UNCHANGED <<confVars, mainVars, hung, poolClosed, sweepVars, stale, late>>
  BY DEF LooksUp
<1>2. PICK i \in {j \in pooled : proc[j] # "gone"} \cup (IF Isolate THEN Fresh ELSE {}) :
        /\ Handles(r, "handler", IF proc[i] = "live" THEN "use" ELSE "starting")
        /\ on' = [on EXCEPT ![r] = i]
        /\ proc' = [proc EXCEPT ![i] = IF @ = "unbuilt" THEN "starting" ELSE @]
        /\ pooled' = pooled \cup {i}
        /\ cold' = cold \ {i}
  BY Zenon DEF LooksUp
<1>3. /\ Alive /\ req[r] = "handler"
      /\ req' = [req EXCEPT ![r] = IF proc[i] = "live" THEN "use" ELSE "starting"]
  BY <1>2 DEF Handles
<1>4. Fresh \subseteq Unbuilt
  BY DEF Fresh
<1>5. i \in Runners /\ proc[i] # "gone" /\ (i \in pooled \/ (Isolate /\ proc[i] = "unbuilt"))
  BY <1>2, <1>4 DEF Unbuilt, TypeOK
<1> QED
  BY <1>1, <1>2, <1>3, <1>5
-----------------------------------------------------------------------------
(* Types.                                                                   *)

LEMMA StepTypes ==
  ASSUME TypeOK, ConfigOK, Next
  PROVE  TypeOK' /\ ConfigOK'
<1> USE Constants DEF TypeOK, ConfigOK, Serving, confVars, mainVars, procVars, sweepVars, clientVars
<1>1. ASSUME Configure
      PROVE  TypeOK' /\ ConfigOK'
  <2> /\ main = "config" /\ fc # None /\ cfg = None
      /\ UNCHANGED <<fc, flag, ctxDone, listener, procVars, sweepVars, clientVars>>
    BY <1>1 DEF Configure
  <2>1. CASE Loads(fc) /\ KeysDecode(fc)
    <3>1. main' = "run" /\ cfg' = Runtime(fc, flag) /\ UNCHANGED runErr
      BY <1>1, <2>1 DEF Configure
    <3>2. cfg' # None /\ cfg'.backend \in {"none", "pool"}
      BY <3>1 DEF Runtime
    <3> QED
      BY <2>1, <3>1, <3>2
  <2>2. CASE ~(Loads(fc) /\ KeysDecode(fc))
    BY <1>1, <2>2 DEF Configure, ExitsWith
  <2> QED
    BY <2>1, <2>2
<1>2. ASSUME RunBegins
      PROVE  TypeOK' /\ ConfigOK'
  <2>1. CASE main' = "listen" /\ cfg.backend = "none" /\ UNCHANGED <<runErr, proc>>
    BY <1>2, <2>1, RunBeginsDoes
  <2>2. CASE ExitsWith(TRUE) /\ UNCHANGED proc
    BY <1>2, <2>2, RunBeginsDoes DEF ExitsWith
  <2>3. CASE /\ main' = "warm" /\ UNCHANGED runErr /\ cfg.backend \in {"runner", "pool"}
             /\ proc' = [proc EXCEPT ![WarmRunner] = "starting"]
    BY <1>2, <2>3, RunBeginsDoes
  <2> QED
    BY <1>2, <2>1, <2>2, <2>3, RunBeginsDoes
<1>3. ASSUME WarmFails
      PROVE  TypeOK' /\ ConfigOK'
  BY <1>3 DEF WarmFails
<1>4. ASSUME WarmStarts
      PROVE  TypeOK' /\ ConfigOK'
  BY <1>4 DEF WarmStarts, Isolate, HasPool
<1>5. ASSUME WarmStopped
      PROVE  TypeOK' /\ ConfigOK'
  BY <1>5 DEF WarmStopped
<1>6. ASSUME Listens
      PROVE  TypeOK' /\ ConfigOK'
  BY <1>6 DEF Listens
<1>7. ASSUME Signal
      PROVE  TypeOK' /\ ConfigOK'
  BY <1>7 DEF Signal
<1>8. ASSUME ListenerStep
      PROVE  TypeOK' /\ ConfigOK'
  BY <1>8 DEF ListenerStep
<1>9. ASSUME ShutdownBegins
      PROVE  TypeOK' /\ ConfigOK'
  BY <1>9 DEF ShutdownBegins
<1>10. ASSUME Undrained \/ Drained \/ TimesOut
       PROVE  TypeOK' /\ ConfigOK'
  <2>1. PICK err \in BOOLEAN : Closing(err)
    BY <1>10 DEF Undrained, Drained, TimesOut
  <2>2. main \in {"select", "shutdown"}
    BY <1>10 DEF Undrained, Drained, TimesOut
  <2>3. CloseTargets \subseteq Runners
    BY DEF CloseTargets
  <2>4. HasPool \in BOOLEAN
    BY DEF HasPool
  <2> QED
    BY <2>1, <2>2, <2>3, <2>4 DEF Closing
<1>11. ASSUME Exits
       PROVE  TypeOK' /\ ConfigOK'
  <2>1. main \in {"close", "giveup"} /\ main' = "exited" /\ runErr' \in BOOLEAN
    BY <1>11 DEF Exits, ExitsWith
  <2> QED
    BY <1>11, <2>1 DEF Exits
<1>12. ASSUME GCExits
       PROVE  TypeOK' /\ ConfigOK'
  BY <1>12 DEF GCExits, GCMoves
<1>13. ASSUME SweepStores
       PROVE  TypeOK' /\ ConfigOK'
  BY <1>13 DEF SweepStores, GCMoves
<1>14. ASSUME EvictIdle
       PROVE  TypeOK' /\ ConfigOK'
  <2>1. Victims \subseteq Runners
    BY DEF Victims
  <2>2. /\ todo' = [todo EXCEPT !["evict"] = Victims]
        /\ pooled' \subseteq Runners /\ cold' \subseteq Runners /\ gc' = "stop"
        /\ UNCHANGED <<confVars, mainVars, proc, hung, poolClosed, at, stale, req, on, late>>
    BY <1>14 DEF EvictIdle, GCMoves
  <2> QED
    BY <2>1, <2>2
<1>15. ASSUME EvictEnds
       PROVE  TypeOK' /\ ConfigOK'
  BY <1>15 DEF EvictEnds, GCMoves
<1>16. ASSUME NEW w \in Sweepers, SweepTakes(w)
       PROVE  TypeOK' /\ ConfigOK'
  BY <1>16 DEF SweepTakes
<1>17. ASSUME NEW w \in Sweepers, SweepStopped(w)
       PROVE  TypeOK' /\ ConfigOK'
  BY <1>17 DEF SweepStopped
<1>18. ASSUME NEW r \in Requests, Accept(r)
       PROVE  TypeOK' /\ ConfigOK'
  BY <1>18 DEF Accept, Handles
<1>19. ASSUME NEW r \in Requests, OpensStream(r)
       PROVE  TypeOK' /\ ConfigOK'
  BY <1>19 DEF OpensStream, Handles
<1>20. ASSUME NEW r \in Requests, UsesSingle(r)
       PROVE  TypeOK' /\ ConfigOK'
  BY <1>20 DEF UsesSingle, Handles
<1>21. ASSUME NEW r \in Requests, LooksUp(r)
       PROVE  TypeOK' /\ ConfigOK'
  <2>1. PICK i \in Runners :
          /\ req' = [req EXCEPT ![r] = IF proc[i] = "live" THEN "use" ELSE "starting"]
          /\ on' = [on EXCEPT ![r] = i]
          /\ proc' = [proc EXCEPT ![i] = IF proc[i] = "unbuilt" THEN "starting" ELSE proc[i]]
          /\ pooled' = pooled \cup {i}
          /\ cold' = cold \ {i}
    BY <1>21, LooksUpDoes
  <2>2. UNCHANGED <<confVars, mainVars, hung, poolClosed, sweepVars, stale, late>>
    BY <1>21, LooksUpDoes
  <2> QED
    BY <2>1, <2>2
<1>22. ASSUME NEW r \in Requests, Returns(r)
       PROVE  TypeOK' /\ ConfigOK'
  BY <1>22 DEF Returns, Handles
<1>23. ASSUME NEW i \in Runners, NEW ok \in BOOLEAN, StartEnds(i, ok)
       PROVE  TypeOK' /\ ConfigOK'
  BY <1>23 DEF StartEnds
<1>24. ASSUME NEW s \in Stores, GoesStale(s)
       PROVE  TypeOK' /\ ConfigOK'
  BY <1>24 DEF GoesStale
<1>25. ASSUME NEW i \in Runners, GoesCold(i)
       PROVE  TypeOK' /\ ConfigOK'
  BY <1>25 DEF GoesCold
<1>26. ASSUME NEW i \in Runners, Hang(i)
       PROVE  TypeOK' /\ ConfigOK'
  BY <1>26 DEF Hang
<1>27. ASSUME WarmCannotSpawn
       PROVE  TypeOK' /\ ConfigOK'
  BY <1>27 DEF WarmCannotSpawn
<1> QED
  BY <1>1, <1>2, <1>3, <1>4, <1>5, <1>6, <1>7, <1>8, <1>9, <1>10, <1>11, <1>12, <1>13,
     <1>14, <1>15, <1>16, <1>17, <1>18, <1>19, <1>20, <1>21, <1>22, <1>23, <1>24, <1>25, <1>26, <1>27
     DEF Next, Startup, Ending, GCNext, SweepStep, RequestStep, Sweepers
-----------------------------------------------------------------------------
LEMMA StepPhases ==
  ASSUME LifeInv, Next
  PROVE  PhasesOK'
<1> USE Constants DEF LifeInv, TypeOK, PhasesOK, Closed, HasPool, Serving, Sweepers,
           confVars, mainVars, procVars, sweepVars, clientVars
<1>1. ASSUME Configure
      PROVE  PhasesOK'
  BY <1>1 DEF Configure, ExitsWith
<1>2. ASSUME RunBegins
      PROVE  PhasesOK'
  <2> /\ main = "run"
      /\ UNCHANGED <<confVars, ctxDone, listener, hung, pooled, poolClosed, sweepVars, clientVars>>
    BY <1>2, RunBeginsDoes
  <2>1. CASE main' = "listen" /\ cfg.backend = "none" /\ UNCHANGED <<runErr, proc>>
    BY <2>1
  <2>2. CASE ExitsWith(TRUE) /\ UNCHANGED proc
    BY <2>2 DEF ExitsWith
  <2>3. CASE /\ main' = "warm" /\ UNCHANGED runErr /\ cfg.backend \in {"runner", "pool"}
             /\ proc' = [proc EXCEPT ![WarmRunner] = "starting"]
    BY <2>3
  <2> QED
    BY <1>2, <2>1, <2>2, <2>3, RunBeginsDoes
<1>3. ASSUME WarmFails
      PROVE  PhasesOK'
  BY <1>3 DEF WarmFails
<1>4. ASSUME WarmStarts
      PROVE  PhasesOK'
  BY <1>4 DEF WarmStarts
<1>5. ASSUME WarmStopped
      PROVE  PhasesOK'
  BY <1>5 DEF WarmStopped
<1>6. ASSUME Listens
      PROVE  PhasesOK'
  BY <1>6 DEF Listens
<1>7. ASSUME Signal
      PROVE  PhasesOK'
  BY <1>7 DEF Signal
<1>8. ASSUME ListenerStep
      PROVE  PhasesOK'
  BY <1>8 DEF ListenerStep
<1>9. ASSUME ShutdownBegins
      PROVE  PhasesOK'
  BY <1>9 DEF ShutdownBegins
<1>10. ASSUME Undrained \/ Drained \/ TimesOut
       PROVE  PhasesOK'
  BY <1>10 DEF Undrained, Drained, TimesOut, Closing, ListenErr
<1>11. ASSUME Exits
       PROVE  PhasesOK'
  BY <1>11 DEF Exits, ExitsWith
<1>12. ASSUME GCExits
       PROVE  PhasesOK'
  BY <1>12 DEF GCExits, GCMoves
<1>13. ASSUME SweepStores
       PROVE  PhasesOK'
  BY <1>13 DEF SweepStores, GCMoves
<1>14. ASSUME EvictIdle
       PROVE  PhasesOK'
  BY <1>14 DEF EvictIdle, GCMoves
<1>15. ASSUME EvictEnds
       PROVE  PhasesOK'
  BY <1>15 DEF EvictEnds, GCMoves
<1>16. ASSUME NEW w \in Sweepers, SweepTakes(w)
       PROVE  PhasesOK'
  BY <1>16 DEF SweepTakes
<1>17. ASSUME NEW w \in Sweepers, SweepStopped(w)
       PROVE  PhasesOK'
  BY <1>17 DEF SweepStopped
<1>18. ASSUME NEW r \in Requests, Accept(r)
       PROVE  PhasesOK'
  BY <1>18 DEF Accept, Handles
<1>19. ASSUME NEW r \in Requests, OpensStream(r)
       PROVE  PhasesOK'
  BY <1>19 DEF OpensStream, Handles
<1>20. ASSUME NEW r \in Requests, UsesSingle(r)
       PROVE  PhasesOK'
  BY <1>20 DEF UsesSingle, Handles
<1>21. ASSUME NEW r \in Requests, LooksUp(r)
       PROVE  PhasesOK'
  BY <1>21, LooksUpDoes
<1>22. ASSUME NEW r \in Requests, Returns(r)
       PROVE  PhasesOK'
  BY <1>22 DEF Returns, Handles
<1>23. ASSUME NEW i \in Runners, NEW ok \in BOOLEAN, StartEnds(i, ok)
       PROVE  PhasesOK'
  BY <1>23 DEF StartEnds, Waiting
<1>24. ASSUME NEW s \in Stores, GoesStale(s)
       PROVE  PhasesOK'
  BY <1>24 DEF GoesStale
<1>25. ASSUME NEW i \in Runners, GoesCold(i)
       PROVE  PhasesOK'
  BY <1>25 DEF GoesCold
<1>26. ASSUME NEW i \in Runners, Hang(i)
       PROVE  PhasesOK'
  BY <1>26 DEF Hang
<1>27. ASSUME WarmCannotSpawn
       PROVE  PhasesOK'
  BY <1>27 DEF WarmCannotSpawn
<1> QED
  BY <1>1, <1>2, <1>3, <1>4, <1>5, <1>6, <1>7, <1>8, <1>9, <1>10, <1>11, <1>12, <1>13,
     <1>14, <1>15, <1>16, <1>17, <1>18, <1>19, <1>20, <1>21, <1>22, <1>23, <1>24, <1>25, <1>26, <1>27
     DEF Next, Startup, Ending, GCNext, SweepStep, RequestStep, Sweepers


LEMMA StepRequests ==
  ASSUME LifeInv, Next
  PROVE  RequestsOK'
<1> USE Constants DEF LifeInv, TypeOK, PhasesOK, RequestsOK, PlacesOK, Closed, HasPool, Sweepers,
           confVars, mainVars, procVars, sweepVars, clientVars
<1>1. ASSUME Configure
      PROVE  RequestsOK'
  BY <1>1 DEF Configure, ExitsWith
<1>2. ASSUME RunBegins
      PROVE  RequestsOK'
  <2> /\ main = "run"
      /\ UNCHANGED <<confVars, ctxDone, listener, hung, pooled, poolClosed, sweepVars, clientVars>>
    BY <1>2, RunBeginsDoes
  <2>1. CASE main' = "listen" /\ cfg.backend = "none" /\ UNCHANGED <<runErr, proc>>
    BY <2>1
  <2>2. CASE ExitsWith(TRUE) /\ UNCHANGED proc
    BY <2>2 DEF ExitsWith
  <2>3. CASE /\ main' = "warm" /\ UNCHANGED runErr /\ cfg.backend \in {"runner", "pool"}
             /\ proc' = [proc EXCEPT ![WarmRunner] = "starting"]
    BY <2>3
  <2> QED
    BY <1>2, <2>1, <2>2, <2>3, RunBeginsDoes
<1>3. ASSUME WarmFails
      PROVE  RequestsOK'
  BY <1>3 DEF WarmFails
<1>4. ASSUME WarmStarts
      PROVE  RequestsOK'
  BY <1>4 DEF WarmStarts
<1>5. ASSUME WarmStopped
      PROVE  RequestsOK'
  BY <1>5 DEF WarmStopped
<1>6. ASSUME Listens
      PROVE  RequestsOK'
  BY <1>6 DEF Listens
<1>7. ASSUME Signal
      PROVE  RequestsOK'
  BY <1>7 DEF Signal
<1>8. ASSUME ListenerStep
      PROVE  RequestsOK'
  BY <1>8 DEF ListenerStep
<1>9. ASSUME ShutdownBegins
      PROVE  RequestsOK'
  BY <1>9 DEF ShutdownBegins
<1>10. ASSUME Undrained \/ Drained \/ TimesOut
       PROVE  RequestsOK'
  BY <1>10 DEF Undrained, Drained, TimesOut, Closing
<1>11. ASSUME Exits
       PROVE  RequestsOK'
  BY <1>11 DEF Exits, ExitsWith
<1>12. ASSUME GCExits
       PROVE  RequestsOK'
  BY <1>12 DEF GCExits, GCMoves
<1>13. ASSUME SweepStores
       PROVE  RequestsOK'
  BY <1>13 DEF SweepStores, GCMoves
<1>14. ASSUME EvictIdle
       PROVE  RequestsOK'
  BY <1>14 DEF EvictIdle, GCMoves
<1>15. ASSUME EvictEnds
       PROVE  RequestsOK'
  BY <1>15 DEF EvictEnds, GCMoves
<1>16. ASSUME NEW w \in Sweepers, SweepTakes(w)
       PROVE  RequestsOK'
  BY <1>16 DEF SweepTakes
<1>17. ASSUME NEW w \in Sweepers, SweepStopped(w)
       PROVE  RequestsOK'
  BY <1>17 DEF SweepStopped
<1>18. ASSUME NEW r \in Requests, Accept(r)
       PROVE  RequestsOK'
  BY <1>18 DEF Accept, Handles
<1>19. ASSUME NEW r \in Requests, OpensStream(r)
       PROVE  RequestsOK'
  BY <1>19 DEF OpensStream, Handles
<1>20. ASSUME NEW r \in Requests, UsesSingle(r)
       PROVE  RequestsOK'
  BY <1>20 DEF UsesSingle, Handles, Alive, WarmOK, Single
<1>21. ASSUME NEW r \in Requests, LooksUp(r)
       PROVE  RequestsOK'
  <2>1. PICK i \in Runners :
          /\ proc[i] # "gone" /\ (i \in pooled \/ (Isolate /\ proc[i] = "unbuilt"))
          /\ req' = [req EXCEPT ![r] = IF proc[i] = "live" THEN "use" ELSE "starting"]
          /\ on' = [on EXCEPT ![r] = i]
          /\ proc' = [proc EXCEPT ![i] = IF proc[i] = "unbuilt" THEN "starting" ELSE proc[i]]
          /\ pooled' = pooled \cup {i}
          /\ cold' = cold \ {i}
    BY <1>21, LooksUpDoes
  <2>2. UNCHANGED <<confVars, mainVars, hung, poolClosed, sweepVars, stale, late>>
    BY <1>21, LooksUpDoes
  <2> QED
    BY <2>1, <2>2
<1>22. ASSUME NEW r \in Requests, Returns(r)
       PROVE  RequestsOK'
  BY <1>22 DEF Returns, Handles
<1>23. ASSUME NEW i \in Runners, NEW ok \in BOOLEAN, StartEnds(i, ok)
       PROVE  RequestsOK'
  BY <1>23 DEF StartEnds, Waiting
<1>24. ASSUME NEW s \in Stores, GoesStale(s)
       PROVE  RequestsOK'
  BY <1>24 DEF GoesStale
<1>25. ASSUME NEW i \in Runners, GoesCold(i)
       PROVE  RequestsOK'
  BY <1>25 DEF GoesCold
<1>26. ASSUME NEW i \in Runners, Hang(i)
       PROVE  RequestsOK'
  BY <1>26 DEF Hang
<1>27. ASSUME WarmCannotSpawn
       PROVE  RequestsOK'
  BY <1>27 DEF WarmCannotSpawn
<1> QED
  BY <1>1, <1>2, <1>3, <1>4, <1>5, <1>6, <1>7, <1>8, <1>9, <1>10, <1>11, <1>12, <1>13,
     <1>14, <1>15, <1>16, <1>17, <1>18, <1>19, <1>20, <1>21, <1>22, <1>23, <1>24, <1>25, <1>26, <1>27
     DEF Next, Startup, Ending, GCNext, SweepStep, RequestStep, Sweepers


LEMMA StepPlaces ==
  ASSUME LifeInv, Next
  PROVE  PlacesOK'
<1> USE Constants DEF LifeInv, TypeOK, PhasesOK, RequestsOK, PlacesOK, InService, Closed, HasPool, Sweepers,
           confVars, mainVars, procVars, sweepVars, clientVars
<1>1. ASSUME Configure
      PROVE  PlacesOK'
  BY <1>1 DEF Configure, ExitsWith, ConfigOK
<1>2. ASSUME RunBegins
      PROVE  PlacesOK'
  <2> /\ main = "run"
      /\ UNCHANGED <<confVars, ctxDone, listener, hung, pooled, poolClosed, sweepVars, clientVars>>
    BY <1>2, RunBeginsDoes
  <2>1. CASE main' = "listen" /\ cfg.backend = "none" /\ UNCHANGED <<runErr, proc>>
    BY <2>1
  <2>2. CASE ExitsWith(TRUE) /\ UNCHANGED proc
    BY <2>2 DEF ExitsWith
  <2>3. CASE /\ main' = "warm" /\ UNCHANGED runErr /\ cfg.backend \in {"runner", "pool"}
             /\ proc' = [proc EXCEPT ![WarmRunner] = "starting"]
    BY <2>3
  <2> QED
    BY <1>2, <2>1, <2>2, <2>3, RunBeginsDoes
<1>3. ASSUME WarmFails
      PROVE  PlacesOK'
  BY <1>3 DEF WarmFails
<1>4. ASSUME WarmStarts
      PROVE  PlacesOK'
  BY <1>4 DEF WarmStarts, Isolate
<1>5. ASSUME WarmStopped
      PROVE  PlacesOK'
  BY <1>5 DEF WarmStopped
<1>6. ASSUME Listens
      PROVE  PlacesOK'
  BY <1>6 DEF Listens
<1>7. ASSUME Signal
      PROVE  PlacesOK'
  BY <1>7 DEF Signal
<1>8. ASSUME ListenerStep
      PROVE  PlacesOK'
  BY <1>8 DEF ListenerStep
<1>9. ASSUME ShutdownBegins
      PROVE  PlacesOK'
  BY <1>9 DEF ShutdownBegins
<1>10. ASSUME Undrained \/ Drained \/ TimesOut
       PROVE  PlacesOK'
  BY <1>10 DEF Undrained, Drained, TimesOut, Closing, CloseTargets
<1>11. ASSUME Exits
       PROVE  PlacesOK'
  BY <1>11 DEF Exits, ExitsWith
<1>12. ASSUME GCExits
       PROVE  PlacesOK'
  BY <1>12 DEF GCExits, GCMoves
<1>13. ASSUME SweepStores
       PROVE  PlacesOK'
  BY <1>13 DEF SweepStores, GCMoves
<1>14. ASSUME EvictIdle
       PROVE  PlacesOK'
  <2>1. /\ gc = "evict" /\ gc' = "stop" /\ todo["evict"] = {}
        /\ todo' = [todo EXCEPT !["evict"] = Victims]
        /\ pooled' = pooled \ Victims /\ cold' = cold \ Victims
        /\ main # "exited"
        /\ UNCHANGED <<confVars, mainVars, proc, hung, poolClosed, at, stale, req, on, late>>
    BY <1>14 DEF EvictIdle, GCMoves, Alive
  <2>2. main \in {"select", "shutdown", "close"}
    BY <2>1
  <2>3. Victims \subseteq pooled /\ WarmRunner \notin Victims
    BY <2>2 DEF Victims, WarmOK
  <2>4. todo'["evict"] = Victims /\ todo'["close"] = todo["close"]
    BY <2>1
  <2>5. Victims # {} => todo["close"] = {} /\ at["close"] = None
    BY <2>2, <2>3
  <2> QED
    BY <2>1, <2>3, <2>4, <2>5
<1>15. ASSUME EvictEnds
       PROVE  PlacesOK'
  BY <1>15 DEF EvictEnds, GCMoves
<1>16. ASSUME NEW w \in Sweepers, SweepTakes(w)
       PROVE  PlacesOK'
  <2>1. PICK i \in todo[w] : TakesOne(w, i)
    BY <1>16, SweepTakesDoes
  <2>2. /\ at[w] = None /\ Alive /\ (w = "close" => main = "close")
        /\ UNCHANGED <<confVars, mainVars, hung, pooled, poolClosed, gc, clientVars>>
    BY <1>16, SweepTakesDoes
  <2>3. todo' = [todo EXCEPT ![w] = todo[w] \ {i}]
    BY <2>1 DEF TakesOne
  <2>4. CASE proc[i] # "live" /\ UNCHANGED <<at, proc>>
    BY <2>2, <2>3, <2>4
  <2>5. CASE /\ proc[i] = "live" /\ at' = [at EXCEPT ![w] = i]
             /\ proc' = [proc EXCEPT ![i] = "stopping"]
    <3>1. CASE w = "evict"
      BY <2>2, <2>3, <2>5, <3>1
    <3>2. CASE w = "close"
      BY <2>2, <2>3, <2>5, <3>2
    <3> QED
      BY <3>1, <3>2
  <2> QED
    BY <2>1, <2>4, <2>5 DEF TakesOne
<1>17. ASSUME NEW w \in Sweepers, SweepStopped(w)
       PROVE  PlacesOK'
  BY <1>17 DEF SweepStopped
<1>18. ASSUME NEW r \in Requests, Accept(r)
       PROVE  PlacesOK'
  BY <1>18 DEF Accept, Handles
<1>19. ASSUME NEW r \in Requests, OpensStream(r)
       PROVE  PlacesOK'
  BY <1>19 DEF OpensStream, Handles
<1>20. ASSUME NEW r \in Requests, UsesSingle(r)
       PROVE  PlacesOK'
  BY <1>20 DEF UsesSingle, Handles
<1>21. ASSUME NEW r \in Requests, LooksUp(r)
       PROVE  PlacesOK'
  <2>1. PICK i \in Runners :
          /\ proc[i] # "gone" /\ (i \in pooled \/ (Isolate /\ proc[i] = "unbuilt"))
          /\ req' = [req EXCEPT ![r] = IF proc[i] = "live" THEN "use" ELSE "starting"]
          /\ on' = [on EXCEPT ![r] = i]
          /\ proc' = [proc EXCEPT ![i] = IF proc[i] = "unbuilt" THEN "starting" ELSE proc[i]]
          /\ pooled' = pooled \cup {i}
          /\ cold' = cold \ {i}
    BY <1>21, LooksUpDoes
  <2>2. /\ HasPool /\ ~poolClosed /\ Alive /\ req[r] = "handler"
        /\ UNCHANGED <<confVars, mainVars, hung, poolClosed, sweepVars, stale, late>>
    BY <1>21, LooksUpDoes
  <2> QED
    BY <2>1, <2>2
<1>22. ASSUME NEW r \in Requests, Returns(r)
       PROVE  PlacesOK'
  BY <1>22 DEF Returns, Handles
<1>23. ASSUME NEW i \in Runners, NEW ok \in BOOLEAN, StartEnds(i, ok)
       PROVE  PlacesOK'
  BY <1>23 DEF StartEnds, Waiting
<1>24. ASSUME NEW s \in Stores, GoesStale(s)
       PROVE  PlacesOK'
  BY <1>24 DEF GoesStale
<1>25. ASSUME NEW i \in Runners, GoesCold(i)
       PROVE  PlacesOK'
  BY <1>25 DEF GoesCold
<1>26. ASSUME NEW i \in Runners, Hang(i)
       PROVE  PlacesOK'
  BY <1>26 DEF Hang
<1>27. ASSUME WarmCannotSpawn
       PROVE  PlacesOK'
  BY <1>27 DEF WarmCannotSpawn
<1> QED
  BY <1>1, <1>2, <1>3, <1>4, <1>5, <1>6, <1>7, <1>8, <1>9, <1>10, <1>11, <1>12, <1>13,
     <1>14, <1>15, <1>16, <1>17, <1>18, <1>19, <1>20, <1>21, <1>22, <1>23, <1>24, <1>25, <1>26, <1>27
     DEF Next, Startup, Ending, GCNext, SweepStep, RequestStep, Sweepers


LEMMA StepWarm ==
  ASSUME LifeInv, Next
  PROVE  WarmOK'
<1> USE Constants DEF LifeInv, TypeOK, PhasesOK, RequestsOK, PlacesOK, WarmOK, InService,
           Single, Isolate, Closed, HasPool, Sweepers,
           confVars, mainVars, procVars, sweepVars, clientVars
<1>1. ASSUME Configure
      PROVE  WarmOK'
  BY <1>1 DEF Configure, ExitsWith, ConfigOK
<1>2. ASSUME RunBegins
      PROVE  WarmOK'
  <2> /\ main = "run"
      /\ UNCHANGED <<confVars, ctxDone, listener, hung, pooled, poolClosed, sweepVars, clientVars>>
    BY <1>2, RunBeginsDoes
  <2>1. CASE main' = "listen" /\ cfg.backend = "none" /\ UNCHANGED <<runErr, proc>>
    BY <2>1
  <2>2. CASE ExitsWith(TRUE) /\ UNCHANGED proc
    BY <2>2 DEF ExitsWith
  <2>3. CASE /\ main' = "warm" /\ UNCHANGED runErr /\ cfg.backend \in {"runner", "pool"}
             /\ proc' = [proc EXCEPT ![WarmRunner] = "starting"]
    BY <2>3
  <2> QED
    BY <1>2, <2>1, <2>2, <2>3, RunBeginsDoes
<1>3. ASSUME WarmFails
      PROVE  WarmOK'
  BY <1>3 DEF WarmFails
<1>4. ASSUME WarmStarts
      PROVE  WarmOK'
  <2> /\ main = "warm" /\ gc = "off" /\ pooled = {} /\ todo["evict"] = {} /\ todo["close"] = {}
      /\ UNCHANGED <<confVars, runErr, ctxDone, listener, hung, poolClosed, sweepVars, clientVars>>
    BY <1>4 DEF WarmStarts
  <2>1. CASE Isolate
    <3>1. /\ proc' = [proc EXCEPT ![WarmRunner] = "stopping"] /\ main' = "warmstop"
          /\ ~Single'
      BY <1>4, <2>1 DEF WarmStarts
    <3> QED
      BY <3>1
  <2>2. CASE ~Isolate
    <3>1. /\ proc' = [proc EXCEPT ![WarmRunner] = "live"] /\ main' = "listen"
      BY <1>4, <2>2 DEF WarmStarts
    <3>2. WarmRunner \in pooled' \/ Single'
      BY <1>4, <2>2, <3>1 DEF WarmStarts, ConfigOK
    <3>3. ~Isolate'
      BY <2>2
    <3> QED
      BY <3>1, <3>2, <3>3
  <2> QED
    BY <2>1, <2>2
<1>5. ASSUME WarmStopped
      PROVE  WarmOK'
  BY <1>5 DEF WarmStopped, ConfigOK
<1>6. ASSUME Listens
      PROVE  WarmOK'
  BY <1>6 DEF Listens
<1>7. ASSUME Signal
      PROVE  WarmOK'
  BY <1>7 DEF Signal
<1>8. ASSUME ListenerStep
      PROVE  WarmOK'
  BY <1>8 DEF ListenerStep
<1>9. ASSUME ShutdownBegins
      PROVE  WarmOK'
  BY <1>9 DEF ShutdownBegins
<1>10. ASSUME Undrained \/ Drained \/ TimesOut
       PROVE  WarmOK'
  BY <1>10 DEF Undrained, Drained, TimesOut, Closing, CloseTargets
<1>11. ASSUME Exits
       PROVE  WarmOK'
  BY <1>11 DEF Exits, ExitsWith
<1>12. ASSUME GCExits
       PROVE  WarmOK'
  BY <1>12 DEF GCExits, GCMoves
<1>13. ASSUME SweepStores
       PROVE  WarmOK'
  BY <1>13 DEF SweepStores, GCMoves
<1>14. ASSUME EvictIdle
       PROVE  WarmOK'
  <2>1. /\ gc = "evict" /\ gc' = "stop" /\ todo["evict"] = {}
        /\ todo' = [todo EXCEPT !["evict"] = Victims]
        /\ pooled' = pooled \ Victims /\ cold' = cold \ Victims
        /\ main # "exited"
        /\ UNCHANGED <<confVars, mainVars, proc, hung, poolClosed, at, stale, req, on, late>>
    BY <1>14 DEF EvictIdle, GCMoves, Alive
  <2>2. main \in {"select", "shutdown", "close"}
    BY <2>1
  <2>3. WarmRunner \notin Victims /\ todo'["close"] = todo["close"]
    BY <2>1, <2>2 DEF Victims
  <2> QED
    BY <2>1, <2>2, <2>3
<1>15. ASSUME EvictEnds
       PROVE  WarmOK'
  BY <1>15 DEF EvictEnds, GCMoves
<1>16. ASSUME NEW w \in Sweepers, SweepTakes(w)
       PROVE  WarmOK'
  <2>1. PICK i \in todo[w] : TakesOne(w, i)
    BY <1>16, SweepTakesDoes
  <2>2. /\ at[w] = None /\ Alive /\ (w = "close" => main = "close")
        /\ UNCHANGED <<confVars, mainVars, hung, pooled, poolClosed, gc, clientVars>>
    BY <1>16, SweepTakesDoes
  <2>3. todo' = [todo EXCEPT ![w] = todo[w] \ {i}]
    BY <2>1 DEF TakesOne
  <2>4. CASE proc[i] # "live" /\ UNCHANGED <<at, proc>>
    BY <2>2, <2>3, <2>4
  <2>5. CASE /\ proc[i] = "live" /\ at' = [at EXCEPT ![w] = i]
             /\ proc' = [proc EXCEPT ![i] = "stopping"]
    <3>1. CASE w = "evict"
      BY <2>2, <2>3, <2>5, <3>1
    <3>2. CASE w = "close"
      BY <2>2, <2>3, <2>5, <3>2
    <3> QED
      BY <3>1, <3>2
  <2> QED
    BY <2>1, <2>4, <2>5 DEF TakesOne
<1>17. ASSUME NEW w \in Sweepers, SweepStopped(w)
       PROVE  WarmOK'
  BY <1>17 DEF SweepStopped
<1>18. ASSUME NEW r \in Requests, Accept(r)
       PROVE  WarmOK'
  BY <1>18 DEF Accept, Handles
<1>19. ASSUME NEW r \in Requests, OpensStream(r)
       PROVE  WarmOK'
  BY <1>19 DEF OpensStream, Handles
<1>20. ASSUME NEW r \in Requests, UsesSingle(r)
       PROVE  WarmOK'
  BY <1>20 DEF UsesSingle, Handles
<1>21. ASSUME NEW r \in Requests, LooksUp(r)
       PROVE  WarmOK'
  <2>1. PICK i \in Runners :
          /\ proc[i] # "gone" /\ (i \in pooled \/ (Isolate /\ proc[i] = "unbuilt"))
          /\ req' = [req EXCEPT ![r] = IF proc[i] = "live" THEN "use" ELSE "starting"]
          /\ on' = [on EXCEPT ![r] = i]
          /\ proc' = [proc EXCEPT ![i] = IF proc[i] = "unbuilt" THEN "starting" ELSE proc[i]]
          /\ pooled' = pooled \cup {i}
          /\ cold' = cold \ {i}
    BY <1>21, LooksUpDoes
  <2>2. /\ HasPool /\ ~poolClosed /\ Alive /\ req[r] = "handler"
        /\ UNCHANGED <<confVars, mainVars, hung, poolClosed, sweepVars, stale, late>>
    BY <1>21, LooksUpDoes
  <2> QED
    BY <2>1, <2>2
<1>22. ASSUME NEW r \in Requests, Returns(r)
       PROVE  WarmOK'
  BY <1>22 DEF Returns, Handles
<1>23. ASSUME NEW i \in Runners, NEW ok \in BOOLEAN, StartEnds(i, ok)
       PROVE  WarmOK'
  BY <1>23 DEF StartEnds, Waiting
<1>24. ASSUME NEW s \in Stores, GoesStale(s)
       PROVE  WarmOK'
  BY <1>24 DEF GoesStale
<1>25. ASSUME NEW i \in Runners, GoesCold(i)
       PROVE  WarmOK'
  BY <1>25 DEF GoesCold
<1>26. ASSUME NEW i \in Runners, Hang(i)
       PROVE  WarmOK'
  BY <1>26 DEF Hang
<1>27. ASSUME WarmCannotSpawn
       PROVE  WarmOK'
  BY <1>27 DEF WarmCannotSpawn
<1> QED
  BY <1>1, <1>2, <1>3, <1>4, <1>5, <1>6, <1>7, <1>8, <1>9, <1>10, <1>11, <1>12, <1>13,
     <1>14, <1>15, <1>16, <1>17, <1>18, <1>19, <1>20, <1>21, <1>22, <1>23, <1>24, <1>25, <1>26, <1>27
     DEF Next, Startup, Ending, GCNext, SweepStep, RequestStep, Sweepers

-----------------------------------------------------------------------------
LEMMA StepInv ==
  ASSUME LifeInv, [Next]_vars
  PROVE  LifeInv'
<1>1. CASE Next
  BY <1>1, StepTypes, StepPhases, StepRequests, StepPlaces, StepWarm DEF LifeInv
<1>2. CASE UNCHANGED vars
  <2> USE <1>2 DEF LifeInv, vars, confVars, mainVars, procVars, sweepVars, clientVars,
                   HasPool, Closed
  <2>1. TypeOK' /\ ConfigOK'
    BY DEF TypeOK, ConfigOK, Serving
  <2>2. PhasesOK' /\ RequestsOK'
    BY DEF PhasesOK, RequestsOK
  <2>3. PlacesOK'
    BY DEF PlacesOK, InService
  <2>4. WarmOK'
    BY DEF WarmOK, Single, Isolate
  <2> QED
    BY <2>1, <2>2, <2>3, <2>4
<1> QED
  BY <1>1, <1>2

LEMMA Invariance == Spec => []LifeInv
  BY InitInv, StepInv, PTL DEF Spec

(* The variables hold values of their types.                                *)
THEOREM LifecycleTypes == Spec => []TypeOK
<1>1. LifeInv => TypeOK
  BY DEF LifeInv
<1> QED
  BY <1>1, Invariance, PTL
-----------------------------------------------------------------------------
(* The variables of Service, and the steps of it that a step here may be.   *)

Status ==
  CASE main = "close" /\ runErr -> "failing"
    [] main = "exited" -> IF runErr THEN "failed" ELSE "clean"
    [] OTHER -> "running"

Backing == Running \cap InService
Leaving == Running \ InService

Uses == [r \in Requests |-> CASE req[r] = "idle" -> "idle"
                              [] req[r] \in {"starting", "use"} -> on[r]
                              [] OTHER -> "alone"]

SameClients == Uses' = Uses /\ late' = late
SameProcs   == Backing' = Backing /\ Leaving' = Leaving

LEMMA IsStutter ==
  ASSUME Status' = Status, SameProcs, SameClients
  PROVE  UNCHANGED Promise!vars
  BY DEF Promise!vars, Status, Uses, Backing, Leaving, SameProcs, SameClients

LEMMA IsLaunch ==
  ASSUME NEW p \in Runners, Status = "running", p \notin Running,
         \A r \in Requests : Uses[r] = "idle",
         Backing' = Backing \cup {p}, Leaving' = Leaving, Status' = Status, SameClients
  PROVE  Promise!Next
<1>1. Promise!Launch(p)
  BY DEF Promise!Launch, Promise!Live, Status, Uses, Backing, Leaving, SameClients
<1> QED
  BY <1>1 DEF Promise!Next

LEMMA IsBegin ==
  ASSUME NEW r \in Requests, Status \in {"running", "failing"}, Uses[r] = "idle",
         Uses' = [Uses EXCEPT ![r] = "alone"], late' = late, Status' = Status, SameProcs
  PROVE  Promise!Next
<1>1. Promise!Begin(r)
  BY DEF Promise!Begin, Promise!Live, Status, Uses, Backing, Leaving, SameProcs
<1> QED
  BY <1>1 DEF Promise!Next

LEMMA IsConnect ==
  ASSUME NEW r \in Requests, NEW p \in Runners, Status \in {"running", "failing"},
         Uses[r] = "alone", p \notin Leaving,
         Uses' = [Uses EXCEPT ![r] = p], late' = late, Status' = Status,
         Leaving' = Leaving,
         Backing' = Backing \cup {p} \/ (Status = "failing" /\ Backing' = Backing)
  PROVE  Promise!Next
<1>1. Promise!Connect(r, p)
  BY DEF Promise!Connect, Promise!Live, Status, Uses, Backing, Leaving
<1> QED
  BY <1>1 DEF Promise!Next

LEMMA IsGetsLate ==
  ASSUME NEW rs \in SUBSET Requests, \A r \in rs : Uses[r] # "idle",
         late' = late \cup rs, Uses' = Uses, Status' = Status, SameProcs
  PROVE  Promise!Next
<1>1. Promise!GetsLate(rs)
  BY DEF Promise!GetsLate, Status, Uses, Backing, Leaving, SameProcs
<1> QED
  BY <1>1 DEF Promise!Next

LEMMA IsRetire ==
  ASSUME NEW ps \in SUBSET Runners, Status \in {"running", "failing"}, ps \subseteq Backing,
         Status = "running" => \A r \in Requests : Uses[r] \in ps => r \in late,
         Backing' = Backing \ ps, Leaving' = Leaving \cup ps, Status' = Status, SameClients
  PROVE  Promise!Next
<1>1. Promise!Retire(ps)
  BY DEF Promise!Retire, Promise!Live, Status, Uses, Backing, Leaving, SameClients
<1> QED
  BY <1>1 DEF Promise!Next

LEMMA IsWithdraw ==
  ASSUME NEW p \in Runners, NEW rs, rs = {r \in Requests : Uses[r] = p},
         Status \in {"running", "failing"}, p \in Running,
         Backing' = Backing \ {p}, Leaving' = Leaving \ {p},
         Uses' = [r \in Requests |-> IF r \in rs THEN "idle" ELSE Uses[r]],
         late' = late \ rs, Status' = Status
  PROVE  Promise!Next
<1>1. Promise!Withdraw(p)
  BY DEF Promise!Withdraw, Promise!Live, Status, Uses, Backing, Leaving
<1> QED
  BY <1>1 DEF Promise!Next

LEMMA IsStop ==
  ASSUME NEW p \in Runners, Status \in {"running", "failing"}, p \in Running,
         Status = "running" /\ p \in Backing => \A r \in Requests : Uses[r] # p,
         Backing' = Backing \ {p}, Leaving' = Leaving \ {p}, Status' = Status, SameClients
  PROVE  Promise!Next
<1>1. Promise!Stop(p)
  BY DEF Promise!Stop, Promise!Live, Status, Uses, Backing, Leaving, SameClients
<1> QED
  BY <1>1 DEF Promise!Next

LEMMA IsEnd ==
  ASSUME NEW r \in Requests, Status \in {"running", "failing"},
         Uses' = [Uses EXCEPT ![r] = "idle"], late' = late \ {r}, Status' = Status, SameProcs
  PROVE  Promise!Next
<1>1. Promise!End(r)
  BY DEF Promise!End, Promise!Live, Status, Uses, Backing, Leaving, SameProcs
<1> QED
  BY <1>1 DEF Promise!Next

LEMMA IsFail ==
  ASSUME Status = "running", Status' = "failing", SameProcs, SameClients
  PROVE  Promise!Next
<1>1. Promise!Fail
  BY DEF Promise!Fail, Status, Uses, Backing, Leaving, SameProcs, SameClients
<1> QED
  BY <1>1 DEF Promise!Next

LEMMA IsFinish ==
  ASSUME Status \in {"running", "failing"}, Backing = {},
         \/ Status' = "failed"
         \/ Status' = "clean" /\ Status = "running" /\ \A r \in Requests : Uses[r] = "idle",
         SameProcs, SameClients
  PROVE  Promise!Next
<1>1. Promise!Finish
  BY DEF Promise!Finish, Promise!Live, Status, Uses, Backing, Leaving, SameProcs, SameClients
<1> QED
  BY <1>1 DEF Promise!Next
-----------------------------------------------------------------------------
LEMMA StatusIs ==
  /\ main = "close" /\ runErr => Status = "failing"
  /\ main # "exited" /\ ~(main = "close" /\ runErr) => Status = "running"
  /\ main = "exited" => Status = IF runErr THEN "failed" ELSE "clean"
  BY DEF Status

LEMMA StatusNext ==
  /\ main' = "close" /\ runErr' => Status' = "failing"
  /\ main' # "exited" /\ ~(main' = "close" /\ runErr') => Status' = "running"
  /\ main' = "exited" => Status' = IF runErr' THEN "failed" ELSE "clean"
  BY DEF Status

LEMMA Same ==
  /\ UNCHANGED <<main, runErr>> => Status' = Status
  /\ UNCHANGED <<req, on, late>> => SameClients
  /\ UNCHANGED <<proc, pooled, todo, at>> => SameProcs
  BY DEF Status, Uses, Backing, Leaving, Running, InService, SameClients, SameProcs

LEMMA UsesIs ==
  ASSUME LifeInv, NEW r \in Requests
  PROVE  /\ req[r] = "idle" => Uses[r] = "idle"
         /\ req[r] \in {"starting", "use"} => Uses[r] = on[r] /\ on[r] \in Runners
         /\ req[r] \in {"handler", "stream"} => Uses[r] = "alone"
         /\ \A i \in Runners : Uses[r] = i <=> on[r] = i
<1>1. /\ req[r] \in {"idle", "handler", "starting", "use", "stream"}
      /\ req[r] \in {"starting", "use"} => on[r] \in Runners
      /\ req[r] \in {"idle", "handler", "stream"} => on[r] = None
  BY DEF LifeInv, RequestsOK, TypeOK
<1> QED
  BY <1>1, Constants DEF Uses

LEMMA UsesNext ==
  ASSUME NEW r \in Requests
  PROVE  /\ req'[r] = "idle" => Uses'[r] = "idle"
         /\ req'[r] \in {"starting", "use"} => Uses'[r] = on'[r]
         /\ req'[r] \in {"handler", "stream"} => Uses'[r] = "alone"
  BY DEF Uses

(* One request changes.                                                     *)
LEMMA UsesOf ==
  ASSUME LifeInv, NEW r \in Requests, NEW from, NEW to, Handles(r, from, to),
         \A q \in Requests \ {r} : on'[q] = on[q]
  PROVE  /\ Alive /\ Status \in {"running", "failing"}
         /\ req[r] = from /\ req'[r] = to
         /\ Uses' = [Uses EXCEPT ![r] = Uses'[r]]
<1>1. /\ Alive /\ req[r] = from /\ req'[r] = to
      /\ \A q \in Requests \ {r} : req'[q] = req[q]
  BY DEF Handles, LifeInv, TypeOK
<1>2. \A q \in Requests \ {r} : Uses'[q] = Uses[q]
  BY <1>1 DEF Uses
<1>3. /\ DOMAIN Uses = Requests /\ Uses = [q \in Requests |-> Uses[q]]
      /\ Uses' = [q \in Requests |-> Uses'[q]]
  BY DEF Uses
<1>4. Uses' = [Uses EXCEPT ![r] = Uses'[r]]
  BY <1>2, <1>3
<1> QED
  BY <1>1, <1>4, StatusIs DEF Alive

(* Startup.                                                                 *)
LEMMA StartupPromised ==
  ASSUME LifeInv, Startup \/ WarmFails \/ WarmCannotSpawn \/ WarmStarts
  PROVE  Promise!Next \/ UNCHANGED Promise!vars
<1> DEFINE Result == Promise!Next \/ UNCHANGED Promise!vars
<1> SUFFICES Result
  OBVIOUS
<1>0. /\ main \in {"config", "run", "warm", "warmstop", "listen"}
      /\ Status = "running" /\ at["close"] = None
      /\ \A r \in Requests : Uses[r] = "idle"
  <2>1. main \in {"config", "run", "warm", "warmstop", "listen"}
    BY DEF Startup, Configure, RunBegins, WarmFails, WarmCannotSpawn, WarmStarts, WarmStopped,
           Listens
  <2>2. at["close"] = None /\ \A r \in Requests : req[r] = "idle"
    BY <2>1 DEF LifeInv, PhasesOK, Closed
  <2> QED
    BY <2>1, <2>2, StatusIs, UsesIs
<1>a. ASSUME main' \notin {"close", "exited"}, UNCHANGED <<req, on, late, proc, pooled, todo, at>>
      PROVE  Result
  BY <1>0, <1>a, StatusNext, Same, IsStutter
<1>b. ASSUME main \in {"config", "run"}, ExitsWith(TRUE),
             UNCHANGED <<req, on, late, proc, pooled, todo, at>>
      PROVE  Result
  <2>1. Status' = "failed"
    BY <1>b, StatusNext DEF ExitsWith
  <2>2. Backing = {}
    BY <1>b DEF Backing, Running, LifeInv, WarmOK
  <2> QED
    BY <1>0, <1>b, <2>1, <2>2, Same, IsFinish
<1>c. ASSUME main' \notin {"close", "exited"}, main \in {"warm", "warmstop"},
             proc' = [proc EXCEPT ![WarmRunner] = "gone"],
             UNCHANGED <<req, on, late, pooled, todo, at>>
      PROVE  Result
  <2>1. WarmRunner \in Running /\ Running' = Running \ {WarmRunner} /\ InService' = InService
    BY <1>c, Constants DEF Running, InService, LifeInv, WarmOK, TypeOK
  <2>2. Backing' = Backing \ {WarmRunner} /\ Leaving' = Leaving \ {WarmRunner}
    BY <2>1 DEF Backing, Leaving
  <2>3. Status' = Status /\ SameClients
    BY <1>0, <1>c, StatusNext, Same
  <2>4. \A r \in Requests : Uses[r] # WarmRunner
    BY <1>0, Constants
  <2> QED
    BY <1>0, <2>1, <2>2, <2>3, <2>4, Constants, IsStop
<1> HIDE DEF Result
<1> USE DEF clientVars, sweepVars, procVars
<1>1. CASE Configure
  <2>1. CASE main' = "run"
    BY <1>1, <1>a, <2>1 DEF Configure
  <2>2. CASE ExitsWith(TRUE)
    BY <1>1, <1>b, <2>2 DEF Configure
  <2> QED
    BY <1>1, <2>1, <2>2 DEF Configure
<1>2. CASE RunBegins
  <2>0. main = "run" /\ UNCHANGED <<sweepVars, clientVars, pooled>>
    BY <1>2 DEF RunBegins
  <2>1. CASE main' = "listen" /\ UNCHANGED <<runErr, proc>>
    BY <1>a, <2>0, <2>1
  <2>2. CASE ExitsWith(TRUE) /\ UNCHANGED proc
    BY <1>b, <2>0, <2>2
  <2>3. CASE /\ main' = "warm" /\ UNCHANGED runErr
             /\ proc' = [proc EXCEPT ![WarmRunner] = "starting"]
    <3>1. Status' = Status /\ SameClients
      BY <1>0, <2>0, <2>3, StatusNext, Same
    <3>2. Running = {} /\ Running' = {WarmRunner} /\ WarmRunner \in InService'
      BY <2>0, <2>3, Constants DEF Running, InService, LifeInv, TypeOK, WarmOK
    <3>3. Backing' = Backing \cup {WarmRunner} /\ Leaving' = Leaving
      BY <3>2 DEF Backing, Leaving
    <3>4. WarmRunner \notin Running
      BY <3>2
    <3> QED
      BY <1>0, <3>1, <3>3, <3>4, Constants, IsLaunch DEF Result
  <2> QED
    BY <1>2, <2>1, <2>2, <2>3, RunBeginsDoes DEF LifeInv
<1>3. CASE WarmFails
  BY <1>3, <1>c DEF WarmFails
<1>4. CASE WarmCannotSpawn
  BY <1>4, <1>c DEF WarmCannotSpawn
<1>5. CASE WarmStarts
  <2>1. /\ proc[WarmRunner] = "starting" /\ proc'[WarmRunner] \in {"stopping", "live"}
        /\ \A i \in Runners \ {WarmRunner} : proc'[i] = proc[i]
        /\ pooled = {} /\ pooled' \subseteq {WarmRunner} /\ UNCHANGED <<todo, at>>
    BY <1>5, Constants DEF WarmStarts, LifeInv, WarmOK, PhasesOK, TypeOK
  <2>2. Running' = Running /\ InService' = InService
    BY <2>1 DEF Running, InService
  <2>3. SameProcs
    BY <2>2 DEF SameProcs, Backing, Leaving
  <2>4. Status' = Status /\ SameClients
    BY <1>0, <1>5, StatusNext, Same DEF WarmStarts
  <2> QED
    BY <2>3, <2>4, IsStutter DEF Result
<1>6. CASE WarmStopped
  BY <1>6, <1>c DEF WarmStopped
<1>7. CASE Listens
  BY <1>7, <1>a DEF Listens
<1> QED
  BY <1>1, <1>2, <1>3, <1>4, <1>5, <1>6, <1>7 DEF Startup

(* The signal, the listener and the end.  Close takes over what was in      *)
(* service, and the server ends when nothing of that is left; cleanly only  *)
(* when Run has no error, hence no request.                                 *)
LEMMA EndingPromised ==
  ASSUME LifeInv, Signal \/ ListenerStep \/ Ending
  PROVE  Promise!Next \/ UNCHANGED Promise!vars
<1> DEFINE Result == Promise!Next \/ UNCHANGED Promise!vars
<1> SUFFICES Result
  OBVIOUS
<1>a. ASSUME UNCHANGED <<main, runErr, req, on, late, proc, pooled, todo, at>>
      PROVE  Result
  BY <1>a, Same, IsStutter
<1>b. ASSUME NEW err \in BOOLEAN, main \in {"select", "shutdown"}, Closing(err)
      PROVE  Result
  <2>1. Status = "running" /\ main' = "close" /\ runErr' = err
    BY <1>b, StatusIs DEF Closing
  <2>2. SameClients
    BY <1>b, Same DEF Closing, clientVars
  <2>3. /\ UNCHANGED <<proc, at>> /\ pooled' = {} /\ todo'["close"] = CloseTargets
        /\ todo["close"] = {}
    BY <1>b DEF Closing, LifeInv, TypeOK, Sweepers, PhasesOK, Closed
  <2>4. CloseTargets \cup {WarmRunner} = pooled \cup {WarmRunner}
    BY DEF CloseTargets, LifeInv, PlacesOK, HasPool
  <2>5. InService' = InService /\ Running' = Running
    BY <2>3, <2>4 DEF InService, Running
  <2>6. SameProcs
    BY <2>5 DEF SameProcs, Backing, Leaving
  <2>7. CASE err
    <3>1. Status' = "failing"
      BY <2>1, <2>7, StatusNext
    <3> QED
      BY <2>1, <2>2, <2>6, <3>1, IsFail
  <2>8. CASE ~err
    <3>1. Status' = Status
      BY <2>1, <2>8, StatusNext
    <3> QED
      BY <2>2, <2>6, <3>1, IsStutter
  <2> QED
    BY <2>7, <2>8
<1> HIDE DEF Result
<1> USE DEF procVars, sweepVars, clientVars
<1>1. CASE Signal
  BY <1>1, <1>a DEF Signal
<1>2. CASE ListenerStep
  BY <1>2, <1>a DEF ListenerStep
<1>3. CASE ShutdownBegins
  <2>1. Status' = Status
    BY <1>3, StatusIs, StatusNext DEF ShutdownBegins
  <2>2. SameClients /\ SameProcs
    BY <1>3, Same DEF ShutdownBegins
  <2> QED
    BY <2>1, <2>2, IsStutter DEF Result
<1>4. CASE Undrained \/ Drained \/ TimesOut
  BY <1>4, <1>b DEF Undrained, Drained, TimesOut
<1>5. CASE Exits
  <2>1. SameClients /\ SameProcs
    BY <1>5, Same DEF Exits
  <2>2. main \in {"close", "giveup"} /\ main' = "exited" /\ Status \in {"running", "failing"}
    BY <1>5, StatusIs DEF Exits, ExitsWith
  <2>3. Backing = {}
    <3>1. pooled = {} /\ todo["close"] = {} /\ at["close"] = None
      BY <1>5 DEF Exits, LifeInv, PhasesOK, Closed
    <3>2. proc[WarmRunner] \in {"unbuilt", "gone"}
      BY <2>2, <3>1, Constants DEF LifeInv, TypeOK, WarmOK, Single
    <3> QED
      BY <3>1, <3>2, Constants DEF Backing, Running, InService
  <2>4. CASE runErr'
    <3>1. Status' = "failed"
      BY <2>2, <2>4, StatusNext
    <3> QED
      BY <2>1, <2>2, <2>3, <3>1, IsFinish DEF Result
  <2>5. CASE ~runErr'
    <3>1. main = "close" /\ ~runErr
      BY <1>5, <2>5 DEF Exits, ExitsWith
    <3>2. Status = "running" /\ Status' = "clean"
      BY <2>2, <2>5, <3>1, StatusIs, StatusNext
    <3>3. \A r \in Requests : Uses[r] = "idle"
      BY <3>1, UsesIs DEF LifeInv, PhasesOK, Closed
    <3> QED
      BY <2>1, <2>2, <2>3, <3>2, <3>3, IsFinish DEF Result
  <2> QED
    BY <2>4, <2>5
<1> QED
  BY <1>1, <1>2, <1>3, <1>4, <1>5 DEF Ending

(* EvictIdle retires what only late requests use; what it has taken is out  *)
(* of service when it is stopped.  Close stops what is in service when      *)
(* nobody is left, unless the server fails.                                 *)
LEMMA SweepsPromised ==
  ASSUME LifeInv, GCNext \/ SweepStep("close")
  PROVE  Promise!Next \/ UNCHANGED Promise!vars
<1> DEFINE Result == Promise!Next \/ UNCHANGED Promise!vars
<1> SUFFICES Result
  OBVIOUS
<1>0. Alive /\ Status \in {"running", "failing"}
  <2>1. Alive
    BY DEF GCNext, GCExits, SweepStores, EvictIdle, EvictEnds, GCMoves, SweepStep, SweepTakes,
           SweepStopped, Stopping
  <2> QED
    BY <2>1, StatusIs DEF Alive
<1>a. ASSUME UNCHANGED <<main, runErr, req, on, late, proc, pooled, todo, at>>
      PROVE  Result
  BY <1>a, Same, IsStutter
<1>b. ASSUME UNCHANGED <<main, runErr, req, on, late>>, Running' = Running, InService' = InService
      PROVE  Result
  BY <1>b, Same, IsStutter DEF SameProcs, Backing, Leaving
<1>c. UNCHANGED <<main, runErr, req, on, late>> => Status' = Status /\ SameClients
  BY Same
<1>d. main = "close" /\ Status = "running" => \A r \in Requests : Uses[r] = "idle"
  BY StatusIs, UsesIs DEF LifeInv, PhasesOK, Closed
<1> USE DEF procVars, mainVars, clientVars
<1>1. CASE GCExits \/ SweepStores \/ EvictEnds
  BY <1>1, <1>a DEF GCExits, SweepStores, EvictEnds, GCMoves
<1>2. CASE EvictIdle
  <2>1. /\ gc = "evict" /\ todo' = [todo EXCEPT !["evict"] = Victims]
        /\ pooled' = pooled \ Victims
        /\ UNCHANGED <<main, runErr, proc, at, req, on, late>>
    BY <1>2 DEF EvictIdle, GCMoves
  <2>2. main \in {"select", "shutdown", "close"} /\ todo'["close"] = todo["close"]
    BY <1>0, <2>1 DEF Alive, LifeInv, PhasesOK, TypeOK, Sweepers
  <2>3. Victims \subseteq pooled \cap cold /\ Victims \subseteq Runners /\ WarmRunner \notin Victims
    BY <2>2 DEF Victims, LifeInv, TypeOK, WarmOK
  <2>4. Victims # {} => todo["close"] = {} /\ at["close"] = None
    BY <2>2, <2>3 DEF LifeInv, PhasesOK, Closed
  <2>5. InService' = InService \ Victims /\ Victims \subseteq InService /\ Running' = Running
    BY <2>1, <2>2, <2>3, <2>4, Constants DEF InService, Running
  <2> DEFINE ps == Running \cap Victims
  <2>6. /\ ps \in SUBSET Runners /\ ps \subseteq Backing
        /\ Backing' = Backing \ ps /\ Leaving' = Leaving \cup ps
    BY <2>3, <2>5 DEF Backing, Leaving
  <2>7. \A r \in Requests : Uses[r] \in ps => r \in late
    BY <2>3, UsesIs DEF LifeInv, RequestsOK
  <2> QED
    BY <1>0, <1>c, <2>1, <2>6, <2>7, IsRetire
<1>3. ASSUME NEW w \in Sweepers, SweepTakes(w)
      PROVE  Result
  <2>1. PICK i \in todo[w] : TakesOne(w, i)
    BY <1>3, SweepTakesDoes
  <2>2. /\ UNCHANGED <<main, runErr, req, on, late, pooled>> /\ at[w] = None
        /\ (w = "close" => main = "close")
    BY <1>3, SweepTakesDoes
  <2>3. i \in Runners /\ todo' = [todo EXCEPT ![w] = todo[w] \ {i}]
    BY <2>1 DEF TakesOne, LifeInv, TypeOK
  <2>4. Running' = Running
    BY <2>1, <2>3 DEF TakesOne, Running, LifeInv, TypeOK
  <2>5. CASE w = "evict"
    <3>1. todo'["close"] = todo["close"] /\ at'["close"] = at["close"]
      BY <2>1, <2>5 DEF TakesOne, LifeInv, TypeOK, Sweepers
    <3>2. InService' = InService
      BY <2>2, <3>1 DEF InService
    <3> QED
      BY <1>b, <2>2, <2>4, <3>2
  <2>6. CASE w = "close" /\ (proc[i] = "live" \/ i = WarmRunner)
    <3>1. \/ at'["close"] = i
          \/ at'["close"] = at["close"] /\ i = WarmRunner
      BY <2>1, <2>6 DEF TakesOne, LifeInv, TypeOK, Sweepers
    <3>2. InService' \ {None} = InService \ {None}
      BY <2>1, <2>2, <2>3, <2>6, <3>1 DEF InService, LifeInv, TypeOK, Sweepers
    <3>3. Running \cap InService' = Running \cap InService /\ Running \ InService' = Running \ InService
      BY <3>2, Constants DEF Running
    <3>4. SameProcs
      BY <2>4, <3>3 DEF SameProcs, Backing, Leaving
    <3> QED
      BY <1>c, <2>2, <3>4, IsStutter
  <2>7. CASE w = "close" /\ proc[i] # "live" /\ i # WarmRunner
    <3>1. at' = at /\ i \in InService /\ InService' = InService \ {i}
      <4>1. at' = at /\ proc' = proc
        BY <2>1, <2>7 DEF TakesOne
      <4>2. pooled = {}
        BY <2>2, <2>7 DEF LifeInv, PhasesOK
      <4>3. at["close"] = None /\ i # None
        BY <2>2, <2>3, <2>7, Constants
      <4> QED
        BY <2>1, <2>2, <2>3, <2>7, <4>1, <4>2, <4>3 DEF InService, LifeInv, TypeOK, Sweepers
    <3> DEFINE ps == Running \cap {i}
    <3>2. /\ ps \in SUBSET Runners /\ ps \subseteq Backing
          /\ Backing' = Backing \ ps /\ Leaving' = Leaving \cup ps
      BY <2>3, <2>4, <3>1 DEF Backing, Leaving
    <3>3. Status = "running" => \A r \in Requests : Uses[r] \in ps => r \in late
      BY <1>d, <2>2, <2>3, <2>7, Constants
    <3> QED
      BY <1>0, <1>c, <2>2, <3>2, <3>3, IsRetire
  <2> QED
    BY <2>5, <2>6, <2>7 DEF Sweepers
<1>4. ASSUME NEW w \in Sweepers, SweepStopped(w)
      PROVE  Result
  <2>1. /\ UNCHANGED <<main, runErr, req, on, late, todo, pooled>>
        /\ at[w] # None /\ (w = "close" => main = "close")
        /\ at' = [at EXCEPT ![w] = None]
        /\ proc' = [proc EXCEPT ![at[w]] = "gone"]
    BY <1>4 DEF SweepStopped, Stopping
  <2>2. PICK i \in Runners : i = at[w]
    BY <2>1 DEF LifeInv, TypeOK
  <2>3. i \in Running /\ Running' = Running \ {i}
    BY <2>1, <2>2 DEF Running, LifeInv, PlacesOK, TypeOK
  <2>4. InService' \cup {i, None} = InService \cup {i, None}
    BY <2>1, <2>2 DEF InService, LifeInv, TypeOK, Sweepers
  <2>5. Backing' = Backing \ {i} /\ Leaving' = Leaving \ {i}
    BY <2>3, <2>4, Constants DEF Backing, Leaving, Running
  <2>6. i \in Backing => w = "close"
    BY <2>1, <2>2 DEF Backing, LifeInv, PlacesOK, Sweepers
  <2>7. Status = "running" /\ i \in Backing => \A r \in Requests : Uses[r] # i
    BY <1>d, <2>1, <2>6, Constants
  <2> QED
    BY <1>0, <1>c, <2>1, <2>3, <2>5, <2>7, IsStop
<1> QED
  BY <1>1, <1>2, <1>3, <1>4 DEF GCNext, SweepStep, Sweepers

(* The requests: one that gets a process gets one that is in service.       *)
LEMMA RequestsPromised ==
  ASSUME LifeInv,
         \/ \E r \in Requests : RequestStep(r)
         \/ \E i \in Runners : GoesCold(i) \/ Hang(i) \/ \E ok \in BOOLEAN : StartEnds(i, ok)
         \/ \E s \in Stores : GoesStale(s)
  PROVE  Promise!Next \/ UNCHANGED Promise!vars
<1> DEFINE Result == Promise!Next \/ UNCHANGED Promise!vars
<1> SUFFICES Result
  OBVIOUS
<1>0. TypeOK /\ RequestsOK
  BY DEF LifeInv
<1>t. /\ DOMAIN Uses = Requests /\ Uses = [r \in Requests |-> Uses[r]]
      /\ Uses' = [r \in Requests |-> Uses'[r]]
  BY DEF Uses
<1>m. ASSUME UNCHANGED mainVars
      PROVE  Status' = Status
  BY <1>m, Same DEF mainVars
<1>s. ASSUME UNCHANGED <<mainVars, proc, pooled, todo, at, late>>, Uses' = Uses
      PROVE  Result
  BY <1>s, <1>m, Same, IsStutter DEF SameClients
<1> HIDE DEF Result
<1> USE DEF procVars, sweepVars
<1>1. ASSUME NEW r \in Requests, Accept(r)
      PROVE  Result
  <2>1. /\ Status \in {"running", "failing"} /\ Uses[r] = "idle"
        /\ Uses' = [Uses EXCEPT ![r] = "alone"]
    BY <1>1, UsesOf, UsesIs, UsesNext DEF Accept
  <2>2. Status' = Status /\ SameProcs /\ late' = late
    BY <1>1, <1>m, Same DEF Accept
  <2> QED
    BY <2>1, <2>2, IsBegin DEF Result
<1>2. ASSUME NEW r \in Requests, OpensStream(r)
      PROVE  Result
  <2>1. Uses' = [Uses EXCEPT ![r] = Uses[r]]
    BY <1>2, UsesOf, UsesIs, UsesNext DEF OpensStream
  <2>2. Uses' = Uses
    BY <1>t, <2>1
  <2> QED
    BY <1>2, <1>s, <2>2 DEF OpensStream
<1>3. ASSUME NEW r \in Requests, UsesSingle(r)
      PROVE  Result
  <2>0. /\ Handles(r, "handler", "use") /\ cfg.backend = "runner"
        /\ on' = [on EXCEPT ![r] = WarmRunner]
        /\ UNCHANGED <<mainVars, proc, pooled, todo, at, late>>
    BY <1>3 DEF UsesSingle
  <2>1. on'[r] = WarmRunner /\ \A q \in Requests \ {r} : on'[q] = on[q]
    BY <1>0, <2>0, Constants DEF TypeOK
  <2>2. /\ Alive /\ Status \in {"running", "failing"} /\ req[r] = "handler" /\ req'[r] = "use"
        /\ Uses' = [Uses EXCEPT ![r] = Uses'[r]]
    BY <2>0, <2>1, UsesOf
  <2>3. Uses[r] = "alone" /\ Uses'[r] = WarmRunner
    BY <2>1, <2>2, UsesIs, UsesNext
  <2>4. WarmRunner \notin Leaving
    BY DEF Leaving, InService
  <2>5. ASSUME Status = "running"
        PROVE  WarmRunner \in Backing
    <3>1. main \in {"select", "shutdown"} /\ cfg # None
      BY <2>2, <2>5, <1>0, StatusIs DEF LifeInv, PhasesOK, Closed, Alive, TypeOK
    <3>2. proc[WarmRunner] = "live"
      BY <2>0, <3>1 DEF LifeInv, WarmOK, Single
    <3> QED
      BY <3>2, Constants DEF Backing, Running, InService
  <2>6. Status' = Status /\ SameProcs
    BY <2>0, <1>m, Same
  <2> QED
    BY <2>0, <2>2, <2>3, <2>4, <2>5, <2>6, Constants, IsConnect DEF Result, SameProcs
<1>4. ASSUME NEW r \in Requests, LooksUp(r)
      PROVE  Result
  <2>0. /\ HasPool /\ Alive /\ req[r] = "handler"
        /\ UNCHANGED <<mainVars, todo, at, late>>
    BY <1>0, <1>4, LooksUpDoes DEF clientVars
  <2>1. PICK i \in Runners :
          /\ proc[i] # "gone" /\ (i \in pooled \/ (Isolate /\ proc[i] = "unbuilt"))
          /\ req' = [req EXCEPT ![r] = IF proc[i] = "live" THEN "use" ELSE "starting"]
          /\ on' = [on EXCEPT ![r] = i]
          /\ proc' = [proc EXCEPT ![i] = IF proc[i] = "unbuilt" THEN "starting" ELSE proc[i]]
          /\ pooled' = pooled \cup {i}
    BY <1>0, <1>4, LooksUpDoes
  <2>2. /\ Handles(r, "handler", IF proc[i] = "live" THEN "use" ELSE "starting")
        /\ on'[r] = i /\ \A q \in Requests \ {r} : on'[q] = on[q]
    BY <1>0, <2>0, <2>1 DEF Handles, TypeOK
  <2>3. /\ Status \in {"running", "failing"} /\ Uses[r] = "alone"
        /\ Uses' = [Uses EXCEPT ![r] = i]
    BY <2>0, <2>2, UsesOf, UsesIs, UsesNext
  <2>4. Status' = Status
    BY <2>0, <1>m
  <2>5. Running' = Running \cup {i} /\ InService' = InService \cup {i}
    <3>1. CASE proc[i] = "unbuilt"
      BY <1>0, <2>0, <2>1, <3>1 DEF TypeOK, Running, InService
    <3>2. CASE proc[i] # "unbuilt"
      <4>1. proc' = proc /\ proc[i] \in {"starting", "live"}
        BY <1>0, <2>1, <3>2 DEF TypeOK, LifeInv, PlacesOK
      <4> QED
        BY <2>0, <2>1, <4>1 DEF Running, InService
    <3> QED
      BY <3>1, <3>2
  <2>6. i \in Running => i \in InService
    BY <2>1 DEF Running, InService
  <2>7. i \notin Leaving /\ Backing' = Backing \cup {i} /\ Leaving' = Leaving
    BY <2>5, <2>6 DEF Backing, Leaving
  <2> QED
    BY <2>0, <2>3, <2>4, <2>7, IsConnect DEF Result
<1>5. ASSUME NEW r \in Requests, Returns(r)
      PROVE  Result
  <2>1. /\ Handles(r, req[r], "idle") /\ UNCHANGED <<mainVars, proc, pooled, todo, at>>
        /\ \A q \in Requests \ {r} : on'[q] = on[q]
        /\ late' = late \ {r}
    BY <1>5, <1>0 DEF Returns, TypeOK
  <2>2. Status \in {"running", "failing"} /\ Uses' = [Uses EXCEPT ![r] = "idle"]
    BY <2>1, UsesOf, UsesNext
  <2>3. Status' = Status /\ SameProcs
    BY <2>1, <1>m, Same
  <2> QED
    BY <2>1, <2>2, <2>3, IsEnd DEF Result
<1>6. ASSUME NEW i \in Runners, NEW ok \in BOOLEAN, StartEnds(i, ok)
      PROVE  Result
  <2>0. /\ Alive /\ Waiting(i) # {} /\ UNCHANGED <<mainVars, pooled, todo, at>>
        /\ proc' = [proc EXCEPT ![i] = IF ok THEN "live" ELSE "gone"]
    BY <1>6 DEF StartEnds
  <2>1. proc[i] = "starting" /\ Status \in {"running", "failing"}
    BY <1>0, <2>0, StatusIs DEF Waiting, RequestsOK, Alive
  <2>2. Waiting(i) = {r \in Requests : Uses[r] = i}
    BY <1>0, <2>1, Constants, UsesIs DEF Waiting, RequestsOK, TypeOK
  <2>3. \A r \in Requests \ Waiting(i) : Uses'[r] = Uses[r]
    BY <1>6 DEF StartEnds, Uses
  <2>4. Status' = Status /\ InService' = InService
    BY <2>0, <1>m DEF InService
  <2>5. CASE ok
    <3>1. \A r \in Waiting(i) : req'[r] = "use" /\ on'[r] = i
      BY <1>6, <2>5 DEF StartEnds, Waiting
    <3>2. \A r \in Waiting(i) : Uses'[r] = i /\ Uses[r] = i
      BY <2>2, <3>1, UsesNext
    <3>3. Uses' = Uses
      BY <1>t, <2>2, <2>3, <3>2
    <3>4. Running' = Running
      BY <1>0, <2>0, <2>1, <2>5 DEF TypeOK, Running
    <3>5. late' = late
      BY <1>6, <2>5 DEF StartEnds
    <3> QED
      BY <2>4, <3>3, <3>4, <3>5, IsStutter DEF Result, SameProcs, SameClients, Backing, Leaving
  <2>6. CASE ~ok
    <3>1. \A r \in Waiting(i) : Uses'[r] = "idle"
      BY <1>6, <2>2, <2>6, UsesNext DEF StartEnds
    <3>2. Uses' = [r \in Requests |-> IF r \in Waiting(i) THEN "idle" ELSE Uses[r]]
      BY <1>t, <2>3, <3>1
    <3>3. i \in Running /\ Running' = Running \ {i}
      BY <1>0, <2>0, <2>1, <2>6 DEF TypeOK, Running
    <3>4. Backing' = Backing \ {i} /\ Leaving' = Leaving \ {i}
      BY <2>4, <3>3 DEF Backing, Leaving
    <3>5. late' = late \ Waiting(i)
      BY <1>6, <2>6 DEF StartEnds
    <3> QED
      BY <2>1, <2>2, <2>4, <3>2, <3>3, <3>4, <3>5, IsWithdraw DEF Result
  <2> QED
    BY <2>5, <2>6
<1>7. ASSUME NEW i \in Runners, GoesCold(i)
      PROVE  Result
  <2>1. /\ UNCHANGED <<mainVars, proc, pooled, todo, at, req, on>>
        /\ late' = late \cup {r \in Requests : on[r] = i}
    BY <1>7 DEF GoesCold
  <2>2. \A r \in {q \in Requests : on[q] = i} : Uses[r] # "idle"
    BY UsesIs, Constants
  <2>3. Status' = Status /\ SameProcs /\ Uses' = Uses
    BY <2>1, <1>m, Same DEF Uses
  <2> QED
    BY <2>1, <2>2, <2>3, IsGetsLate DEF Result
<1>8. ASSUME NEW i \in Runners, Hang(i)
      PROVE  Result
  BY <1>8, <1>s, Same DEF Hang, clientVars, SameClients
<1>9. ASSUME NEW s \in Stores, GoesStale(s)
      PROVE  Result
  BY <1>9, <1>s, Same DEF GoesStale, SameClients
<1> QED
  BY <1>1, <1>2, <1>3, <1>4, <1>5, <1>6, <1>7, <1>8, <1>9 DEF RequestStep

(* Run and the pool keep the promises of Service, with any configuration    *)
(* and however long a request takes: while the server runs, a process goes  *)
(* out of service only when each request on it has used it for longer than  *)
(* the idle timeout; and Run returns only when no process is in service,    *)
(* without an error only when every request is over.                        *)
THEOREM Implements == Spec => ImplementsService
<1>1. Init => Promise!Init
  BY Constants DEF Init, Promise!Init, Running, InService
<1>2. LifeInv /\ [Next]_vars => [Promise!Next]_(Promise!vars)
  <2>1. ASSUME LifeInv, Next
        PROVE  Promise!Next \/ UNCHANGED Promise!vars
    BY <2>1, StartupPromised, EndingPromised, SweepsPromised, RequestsPromised
       DEF Next
  <2>2. ASSUME UNCHANGED vars
        PROVE  UNCHANGED Promise!vars
    BY <2>2, Same, IsStutter DEF vars, mainVars, procVars, sweepVars, clientVars
  <2> QED
    BY <2>1, <2>2
<1> QED
  BY <1>1, <1>2, Invariance, PTL DEF Spec, ImplementsService, Promise!Spec
-----------------------------------------------------------------------------
(* Sandbox: the last mount at or above a path is the one that counts.       *)

(* A non-empty set of positions has a last one, which is what LastOf takes.  *)
LEMMA LastOfMounts ==
  ASSUME NEW n \in Nat, NEW C \in SUBSET (1..n), C # {}
  PROVE  S!LastOf(C) \in C /\ \A j \in C : j <= S!LastOf(C)
<1> DEFINE T == {i..n : i \in C}
           R == StrictSubsetOrdering(Nat)
<1>1. T \subseteq FiniteSubsetsOf(Nat)
  <2>1. \A i \in C : i..n \subseteq Nat /\ IsFiniteSet(i..n)
    BY FS_Interval
  <2> QED
    BY <2>1 DEF FiniteSubsetsOf
<1>2. T # {}
  OBVIOUS
<1>3. PICK x \in T : \A y \in T : <<y, x>> \notin R
  <2> HIDE DEF T
  <2> QED
    BY <1>1, <1>2, WFMin, FS_StrictSubsetOrderingWellFounded
<1>4. PICK i \in C : x = i..n
  OBVIOUS
<1>5. ASSUME NEW j \in C, i < j
      PROVE  FALSE
  <2>1. j..n \in T /\ j..n \subseteq i..n /\ i \in i..n /\ i \notin j..n
    BY <1>5
  <2>2. <<j..n, x>> \in R
    <3>1. j..n \in SUBSET Nat /\ x \in SUBSET Nat /\ j..n \subseteq x /\ j..n # x
      BY <1>4, <2>1
    <3> QED
      BY <3>1 DEF StrictSubsetOrdering
  <2> QED
    BY <1>3, <2>1, <2>2
<1>6. \A j \in C : j <= i
  BY <1>5
<1> QED
  BY <1>6 DEF S!LastOf

(* Where the elements of three sequences come to lie, one after the other.  *)
LEMMA Concat3 ==
  ASSUME NEW E, NEW A \in Seq(E), NEW B \in Seq(E), NEW D \in Seq(E),
         NEW m, m = A \o B \o D
  PROVE  /\ m \in Seq(E) /\ Len(m) = Len(A) + Len(B) + Len(D)
         /\ \A i \in 1..Len(m) :
              /\ i <= Len(A) => m[i] = A[i]
              /\ Len(A) < i /\ i <= Len(A) + Len(B) => m[i] = B[i - Len(A)]
              /\ Len(A) + Len(B) < i => m[i] = D[i - Len(A) - Len(B)]
<1> DEFINE AB == A \o B
<1>0. Len(A) \in Nat /\ Len(B) \in Nat /\ Len(D) \in Nat
  OBVIOUS
<1>1. AB \in Seq(E) /\ Len(AB) = Len(A) + Len(B)
  OBVIOUS
<1>2. \A i \in 1..Len(AB) : AB[i] = IF i <= Len(A) THEN A[i] ELSE B[i - Len(A)]
  OBVIOUS
<1>3. m = AB \o D
  OBVIOUS
<1> HIDE DEF AB
<1>4. m \in Seq(E) /\ Len(m) = Len(AB) + Len(D)
  BY <1>1, <1>3, ConcatProperties
<1>5. \A i \in 1..Len(m) : m[i] = IF i <= Len(AB) THEN AB[i] ELSE D[i - Len(AB)]
  BY <1>1, <1>3
<1>6. ASSUME NEW i \in 1..Len(m)
      PROVE  /\ i <= Len(A) => m[i] = A[i]
             /\ Len(A) < i /\ i <= Len(A) + Len(B) => m[i] = B[i - Len(A)]
             /\ Len(A) + Len(B) < i => m[i] = D[i - Len(A) - Len(B)]
  <2>1. CASE i <= Len(A)
    BY <1>0, <1>1, <1>2, <1>4, <1>5, <2>1
  <2>2. CASE Len(A) < i /\ i <= Len(A) + Len(B)
    BY <1>0, <1>1, <1>2, <1>4, <1>5, <2>2
  <2>3. CASE Len(A) + Len(B) < i
    <3>1. m[i] = D[i - Len(AB)] /\ i - Len(AB) = i - Len(A) - Len(B)
      BY <1>0, <1>1, <1>4, <1>5, <2>3
    <3> QED
      BY <1>0, <2>3, <3>1
  <2> QED
    BY <1>0, <1>1, <1>4, <2>1, <2>2, <2>3
<1> QED
  BY <1>1, <1>4, <1>6

(* What the mounts of a resolved policy show at a path.                     *)
Shown(p, q) ==
  CASE S!Granted(p.bindReadWrite, q) -> "rw"
    [] ~S!Granted(p.bindReadWrite, q) /\ S!Granted(p.bindReadOnly, q) -> "ro"
    [] ~S!Granted(p.bindReadWrite, q) /\ ~S!Granted(p.bindReadOnly, q) ->
         IF S!Granted(FreshViews, q) THEN "fresh" ELSE "absent"

(* The mounts of a policy, however long its lists are.                      *)
LEMMA MountsView ==
  ASSUME NEW p, p.bindReadOnly \in Seq(Paths), p.bindReadWrite \in Seq(Paths), NEW q
  PROVE  S!View(S!Mounts(p), q) = Shown(p, q)
<1> FreshViews \in Seq(Paths)
  BY ServerLifecycleAssumption
<1> DEFINE ro == p.bindReadOnly
           rw == p.bindReadWrite
           m  == S!Mounts(p)
           f  == Len(FreshViews)
<1>0. f \in Nat /\ Len(ro) \in Nat /\ Len(rw) \in Nat
  OBVIOUS
<1>k. ASSUME NEW kind, NEW s \in Seq(Paths)
      PROVE  /\ S!Mount(kind, s) \in Seq([kind : {kind}, path : Paths])
             /\ Len(S!Mount(kind, s)) = Len(s)
             /\ \A i \in 1..Len(s) : S!Mount(kind, s)[i] = [kind |-> kind, path |-> s[i]]
  BY DEF S!Mount
<1>1. /\ Len(m) = f + Len(ro) + Len(rw)
      /\ \A i \in 1..Len(m) :
           /\ i <= f => m[i] = [kind |-> "fresh", path |-> FreshViews[i]]
           /\ f < i /\ i <= f + Len(ro) => m[i] = [kind |-> "ro", path |-> ro[i - f]]
           /\ f + Len(ro) < i => m[i] = [kind |-> "rw", path |-> rw[i - f - Len(ro)]]
  <2> DEFINE A == S!Mount("fresh", FreshViews)
             B == S!Mount("ro", ro)
             D == S!Mount("rw", rw)
             E == [kind : {"fresh", "ro", "rw"}, path : Paths]
  <2>1. A \in Seq(E) /\ B \in Seq(E) /\ D \in Seq(E)
    BY DEF S!Mount
  <2>2. Len(A) = f /\ Len(B) = Len(ro) /\ Len(D) = Len(rw)
    BY <1>k
  <2>3. m = A \o B \o D
    BY DEF S!Mounts
  <2>4. \A i \in 1..Len(ro) : B[i] = [kind |-> "ro", path |-> ro[i]]
    BY <1>k
  <2>5. \A i \in 1..Len(rw) : D[i] = [kind |-> "rw", path |-> rw[i]]
    BY <1>k
  <2>6. \A i \in 1..f : A[i] = [kind |-> "fresh", path |-> FreshViews[i]]
    BY <1>k
  <2> HIDE DEF A, B, D, E, m, ro, rw, f
  <2>7. /\ m \in Seq(E) /\ Len(m) = Len(A) + Len(B) + Len(D)
        /\ \A i \in 1..Len(m) :
             /\ i <= Len(A) => m[i] = A[i]
             /\ Len(A) < i /\ i <= Len(A) + Len(B) => m[i] = B[i - Len(A)]
             /\ Len(A) + Len(B) < i => m[i] = D[i - Len(A) - Len(B)]
    BY <2>1, <2>3, Concat3, SMTT(60)
  <2>8. Len(m) = f + Len(ro) + Len(rw)
    BY <2>2, <2>7
  <2>9. ASSUME NEW i \in 1..Len(m), i <= f
        PROVE  m[i] = [kind |-> "fresh", path |-> FreshViews[i]]
    <3>1. i \in 1..f /\ m[i] = A[i]
      BY <1>0, <2>2, <2>7, <2>8, <2>9
    <3> QED
      BY <2>6, <3>1
  <2>10. ASSUME NEW i \in 1..Len(m), f < i, i <= f + Len(ro)
         PROVE  m[i] = [kind |-> "ro", path |-> ro[i - f]]
    <3>1. i - f \in 1..Len(ro) /\ m[i] = B[i - f]
      BY <1>0, <2>2, <2>7, <2>8, <2>10
    <3> QED
      BY <2>4, <3>1
  <2>11. ASSUME NEW i \in 1..Len(m), f + Len(ro) < i
         PROVE  m[i] = [kind |-> "rw", path |-> rw[i - f - Len(ro)]]
    <3>1. i - f - Len(ro) \in 1..Len(rw) /\ m[i] = D[i - f - Len(ro)]
      BY <1>0, <2>2, <2>7, <2>8, <2>11
    <3> QED
      BY <2>5, <3>1
  <2> QED
    BY <2>8, <2>9, <2>10, <2>11
<1> HIDE DEF m, ro, rw, f
<1>2. \A i \in 1..Len(m) : \/ i \in 1..f
                           \/ i - f \in 1..Len(ro)
                           \/ i - f - Len(ro) \in 1..Len(rw)
  BY <1>0, <1>1
<1> DEFINE C == S!Covering(m, q)
<1>3. C \subseteq 1..Len(m) /\ Len(m) \in Nat
  BY <1>0, <1>1 DEF S!Covering
<1>r. \A i \in 1..Len(rw) : f + Len(ro) + i \in C <=> <<rw[i], q>> \in Covers
  <2> TAKE i \in 1..Len(rw)
  <2>1. PICK j \in 1..Len(m) : j = f + Len(ro) + i /\ j - f - Len(ro) = i
    BY <1>0, <1>1
  <2>2. f + Len(ro) < j
    BY <1>0, <2>1
  <2>3. m[j].path = rw[i]
    BY <1>1, <2>1, <2>2
  <2> QED
    BY <2>1, <2>3 DEF S!Covering
<1>o. \A i \in 1..Len(ro) : f + i \in C <=> <<ro[i], q>> \in Covers
  <2> TAKE i \in 1..Len(ro)
  <2>1. PICK j \in 1..Len(m) : j = f + i /\ j - f = i
    BY <1>0, <1>1
  <2>2. m[j].path = ro[i]
    BY <1>0, <1>1, <2>1
  <2> QED
    BY <2>1, <2>2 DEF S!Covering
<1>f. \A i \in 1..f : i \in C <=> <<FreshViews[i], q>> \in Covers
  <2> TAKE i \in 1..f
  <2>1. i \in 1..Len(m) /\ m[i].path = FreshViews[i]
    BY <1>0, <1>1
  <2> QED
    BY <2>1 DEF S!Covering
<1>4. CASE S!Granted(rw, q)
  <2>1. PICK i \in 1..Len(rw) : <<rw[i], q>> \in Covers
    BY <1>4 DEF S!Granted
  <2>2. f + Len(ro) + i \in C
    BY <1>r, <2>1
  <2>3. S!LastOf(C) \in C /\ f + Len(ro) + i <= S!LastOf(C)
    BY <1>3, <2>2, LastOfMounts
  <2>4. S!LastOf(C) - f - Len(ro) \in 1..Len(rw)
    BY <1>0, <1>1, <1>3, <2>3
  <2>5. m[S!LastOf(C)].kind = "rw"
    BY <1>0, <1>1, <1>3, <2>3, <2>4
  <2> QED
    BY <1>4, <2>2, <2>5 DEF S!View, Shown, rw, m
<1>5. CASE ~S!Granted(rw, q) /\ S!Granted(ro, q)
  <2>1. PICK i \in 1..Len(ro) : <<ro[i], q>> \in Covers
    BY <1>5 DEF S!Granted
  <2>2. f + i \in C
    BY <1>o, <2>1
  <2>3. S!LastOf(C) \in C /\ f + i <= S!LastOf(C)
    BY <1>3, <2>2, LastOfMounts
  <2>4. S!LastOf(C) - f \in 1..Len(ro)
    <3>1. S!LastOf(C) - f - Len(ro) \notin 1..Len(rw)
      <4> SUFFICES ASSUME S!LastOf(C) - f - Len(ro) \in 1..Len(rw) PROVE FALSE
        OBVIOUS
      <4>1. f + Len(ro) + (S!LastOf(C) - f - Len(ro)) = S!LastOf(C)
        BY <1>0, <1>3, <2>3
      <4> QED
        BY <1>5, <1>r, <2>3, <4>1 DEF S!Granted
    <3>2. S!LastOf(C) \in 1..Len(m) /\ S!LastOf(C) \notin 1..f
      BY <1>0, <1>3, <2>3
    <3> QED
      BY <1>2, <3>1, <3>2
  <2>5. m[S!LastOf(C)].kind = "ro"
    BY <1>0, <1>1, <1>3, <2>3, <2>4
  <2> QED
    BY <1>5, <2>2, <2>5 DEF S!View, Shown, rw, ro, m
<1>6. CASE ~S!Granted(rw, q) /\ ~S!Granted(ro, q)
  <2>1. \A i \in C : i \in 1..f
    <3> TAKE i \in C
    <3>1. i - f \notin 1..Len(ro)
      <4> SUFFICES ASSUME i - f \in 1..Len(ro) PROVE FALSE
        OBVIOUS
      <4>1. f + (i - f) = i
        BY <1>0, <1>3
      <4> QED
        BY <1>6, <1>o, <4>1 DEF S!Granted
    <3>2. i - f - Len(ro) \notin 1..Len(rw)
      <4> SUFFICES ASSUME i - f - Len(ro) \in 1..Len(rw) PROVE FALSE
        OBVIOUS
      <4>1. f + Len(ro) + (i - f - Len(ro)) = i
        BY <1>0, <1>3
      <4> QED
        BY <1>6, <1>r, <4>1 DEF S!Granted
    <3> QED
      BY <1>2, <1>3, <3>1, <3>2
  <2>2. CASE S!Granted(FreshViews, q)
    <3>1. C # {}
      BY <1>f, <2>2 DEF S!Granted, f
    <3>2. S!LastOf(C) \in C
      BY <1>3, <3>1, LastOfMounts
    <3>3. m[S!LastOf(C)].kind = "fresh"
      BY <1>0, <1>1, <1>3, <2>1, <3>2
    <3> QED
      BY <1>6, <2>2, <3>1, <3>3 DEF S!View, Shown, rw, ro, m
  <2>3. CASE ~S!Granted(FreshViews, q)
    <3>1. C = {}
      BY <1>f, <2>1, <2>3 DEF S!Granted, f
    <3> QED
      BY <1>6, <2>3, <3>1 DEF S!View, Shown, rw, ro, m
  <2> QED
    BY <2>2, <2>3
<1> QED
  BY <1>4, <1>5, <1>6

LEMMA GrantedConcat ==
  ASSUME NEW A \in Seq(Paths), NEW B \in Seq(Paths), NEW q
  PROVE  S!Granted(A \o B, q) <=> S!Granted(A, q) \/ S!Granted(B, q)
<1>0. Len(A) \in Nat /\ Len(B) \in Nat /\ Len(A \o B) = Len(A) + Len(B)
  OBVIOUS
<1>1. \A i \in 1..Len(A) : i \in 1..Len(A \o B) /\ (A \o B)[i] = A[i]
  BY <1>0
<1>2. \A i \in 1..Len(B) : Len(A) + i \in 1..Len(A \o B) /\ (A \o B)[Len(A) + i] = B[i]
  BY <1>0
<1>3. \A i \in 1..Len(A \o B) : \/ i \in 1..Len(A) /\ (A \o B)[i] = A[i]
                                \/ i - Len(A) \in 1..Len(B) /\ (A \o B)[i] = B[i - Len(A)]
  BY <1>0
<1> DEFINE AB == A \o B
<1> HIDE DEF AB
<1>4. ASSUME S!Granted(AB, q)
      PROVE  S!Granted(A, q) \/ S!Granted(B, q)
  BY <1>3, <1>4 DEF S!Granted, AB
<1>5. ASSUME S!Granted(A, q) \/ S!Granted(B, q)
      PROVE  S!Granted(AB, q)
  BY <1>1, <1>2, <1>5 DEF S!Granted, AB
<1> QED
  BY <1>4, <1>5 DEF AB

(* A policy, and what a missing one stands for.                             *)
SandboxPolicies ==
  [network : S!Networks \cup STRING, bindReadOnly : Seq(Paths), bindReadWrite : Seq(Paths),
   noDefaults : BOOLEAN, disabled : BOOLEAN]
Written(policy) == IF policy = NilPolicy THEN S!ZeroPolicy ELSE policy

LEMMA WrittenPolicy ==
  ASSUME NEW policy \in SandboxPolicies \cup {NilPolicy}
  PROVE  Written(policy) \in SandboxPolicies
<1>1. <<>> \in Seq(Paths) /\ FALSE \in BOOLEAN
  OBVIOUS
<1>2. "" \in S!Networks \cup STRING
  BY DEF S!Networks
<1>3. S!ZeroPolicy \in SandboxPolicies
  <2> HIDE DEF S!Networks
  <2> QED
    BY <1>1, <1>2 DEF S!ZeroPolicy, SandboxPolicies
<1> QED
  BY <1>3 DEF Written

(* BuildBwrapArgs passes on an order of mounts of which the last one above  *)
(* a path counts.  It shows the path as the comments on SandboxPolicy say,  *)
(* for every policy, unless the policy grants it both ways: the comment on  *)
(* BindReadOnly ("can read these but not write them") is false of such a    *)
(* path, which can be written.                                              *)
THEOREM MountOrder ==
  ASSUME NEW policy \in SandboxPolicies \cup {NilPolicy}, NEW command, NEW q
  PROVE  LET p == Written(policy)
             b == S!BuildBwrapArgs(S!ResolveSandboxPolicy(policy), command)
         IN  ~p.disabled /\ b # Error =>
               S!View(b.mounts, q) = IF S!Conflicting(p, q) THEN "rw" ELSE S!Intended(p, q)
<1> DEFINE p  == Written(policy)
           r  == S!ResolveSandboxPolicy(policy)
           ds == S!Defaults(p)
<1>1. p \in SandboxPolicies
  BY WrittenPolicy
<1> SUFFICES ASSUME ~p.disabled, S!BuildBwrapArgs(r, command) # Error
             PROVE  S!View(S!BuildBwrapArgs(r, command).mounts, q)
                      = IF S!Conflicting(p, q) THEN "rw" ELSE S!Intended(p, q)
  OBVIOUS
<1>2. r = IF p.noDefaults THEN p ELSE [p EXCEPT !.bindReadOnly = DefaultROBinds \o @]
  BY DEF S!ResolveSandboxPolicy, Written
<1> HIDE DEF p, r
<1>3. /\ p.bindReadOnly \in Seq(Paths) /\ p.bindReadWrite \in Seq(Paths)
      /\ DefaultROBinds \in Seq(Paths) /\ ds \in Seq(Paths)
  <2>1. DefaultROBinds \in Seq(Paths) /\ <<>> \in Seq(Paths)
    BY ServerLifecycleAssumption
  <2> QED
    BY <1>1, <2>1 DEF SandboxPolicies, S!Defaults
<1>4. r.bindReadOnly = ds \o p.bindReadOnly /\ r.bindReadWrite = p.bindReadWrite
  <2>1. CASE p.noDefaults
    <3>1. ds = <<>> /\ <<>> \o p.bindReadOnly = p.bindReadOnly
      BY <1>3, <2>1 DEF S!Defaults
    <3> HIDE DEF ds
    <3> QED
      BY <1>2, <2>1, <3>1
  <2>2. CASE ~p.noDefaults
    <3>1. ds = DefaultROBinds
      BY <2>2 DEF S!Defaults
    <3> HIDE DEF ds
    <3> QED
      BY <1>1, <1>2, <2>2, <3>1 DEF SandboxPolicies
  <2> QED
    BY <2>1, <2>2
<1> HIDE DEF ds
<1>5. r.bindReadOnly \in Seq(Paths) /\ r.bindReadWrite \in Seq(Paths)
  BY <1>3, <1>4
<1>6. S!BuildBwrapArgs(r, command).mounts = S!Mounts(r)
  BY DEF S!BuildBwrapArgs
<1>7. S!View(S!BuildBwrapArgs(r, command).mounts, q) = Shown(r, q)
  BY <1>5, <1>6, MountsView
<1>8. S!Granted(r.bindReadOnly, q) <=> S!Granted(ds, q) \/ S!Granted(p.bindReadOnly, q)
  BY <1>3, <1>4, GrantedConcat
<1>9. S!Granted(p.bindReadOnly \o p.bindReadWrite, q) <=>
        S!Granted(p.bindReadOnly, q) \/ S!Granted(p.bindReadWrite, q)
  BY <1>3, GrantedConcat
<1>10. Shown(r, q) = IF S!Conflicting(p, q) THEN "rw" ELSE S!Intended(p, q)
  BY <1>4, <1>8, <1>9, Zenon DEF Shown, S!Conflicting, S!Intended, ds
<1> QED
  BY <1>7, <1>10
=============================================================================
