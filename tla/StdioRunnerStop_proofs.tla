----------------------- MODULE StdioRunnerStop_proofs -----------------------
(***************************************************************************)
(* Proofs about the end of a StdioRunner: what Stop, a Start that fails    *)
(* and the end of readLoop leave behind, for any number of Calls, Notifies *)
(* and Stops; and, with that, that it keeps the contract of Runner.        *)
(***************************************************************************)
EXTENDS StdioRunner_proofs

Active(s) == stopPc[s] \in {"close", "drain", "reap"}

(* The Stop that set stopped first is the only one at work; the others      *)
(* return at once.  What it has behind it stays as it left it: no stdin is  *)
(* opened, no readLoop and no child started after the spawn.                *)
StopOrder ==
  /\ startPc = "idle" => child = "none"
  /\ startPc \in {"idle", "call", "notify"} => ~stopped
  /\ ~stopped => \A s \in AllStops : stopPc[s] = "idle"
  /\ startPc = "stop" => \A s \in Stoppers : stopPc[s] = "idle"
  /\ \A s, t \in AllStops : Active(s) /\ Active(t) => s = t
  /\ \A s \in AllStops : stopPc[s] \in {"drain", "reap"} => stdin = "closed"
  /\ \A s \in AllStops : stopPc[s] = "reap" => readPc = "done"

StopInv == TypeOK /\ StopOrder /\ StopComplete /\ FailedStartIsClean

LEMMA InitStopInv == Init => StopInv
<1> SUFFICES ASSUME Init PROVE StopInv
  OBVIOUS
<1>1. StopOrder
  BY DEF Init, ChildInit, StopOrder, Active
<1>2. StopComplete /\ FailedStartIsClean
  BY DEF Init, ChildInit, StopComplete, FailedStartIsClean
<1> QED BY <1>1, <1>2, InitTypeOK DEF StopInv

(* A step of the child, of a Call, a Notify or readLoop ends things only.   *)
LEMMA OthersStopStep ==
  ASSUME StopOrder, StopComplete, FailedStartIsClean,
         UNCHANGED <<stdin, stopped, startPc, stopPc>>,
         child' = child \/ (child' # "none" /\ child \notin {"none", "dead"}),
         readPc' = readPc \/ readPc # "done"
  PROVE  StopOrder' /\ StopComplete' /\ FailedStartIsClean'
<1>1. \A s \in AllStops : Active(s)' <=> Active(s)
  BY DEF Active
<1>2. Stopping' <=> Stopping
  BY DEF Stopping
<1> QED BY <1>1, <1>2 DEF StopOrder, StopComplete, FailedStartIsClean

(* Start spawns before any Stop, and fails only after its own.              *)
LEMMA StartStopStep ==
  ASSUME TypeOK, StopOrder, StopComplete, FailedStartIsClean, StartNext
  PROVE  StopOrder' /\ StopComplete' /\ FailedStartIsClean'
<1>1. UNCHANGED <<stopped, stopPc>>
  BY DEF StartNext, StartSpawns, StartSpawnFails, StartInitialized, StartNotified, StartFails,
         muVars
<1>2. (\A s \in AllStops : Active(s)' <=> Active(s)) /\ (Stopping' <=> Stopping)
  BY <1>1 DEF Active, Stopping
<1>3. CASE StartSpawns
  <2>1. ~stopped /\ \A s \in AllStops : stopPc[s] = "idle"
    BY <1>3 DEF StartSpawns, StopOrder
  <2> QED BY <1>1, <1>2, <1>3, <2>1
          DEF StartSpawns, StopOrder, StopComplete, FailedStartIsClean, Active, AllStops
<1>4. CASE StartSpawnFails \/ StartInitialized \/ StartNotified
  <2>1. UNCHANGED <<child, stdin, readPc>>
    BY <1>4 DEF StartSpawnFails, StartInitialized, StartNotified, childVars, readVars
  <2>2. ~stopped /\ \A s \in AllStops : stopPc[s] = "idle"
    BY <1>4 DEF StartSpawnFails, StartInitialized, StartNotified, StopOrder
  <2>3. startPc' = "failed" => child = "none"
    BY <1>4 DEF StartSpawnFails, StartInitialized, StartNotified, StopOrder
  <2>4. startPc' # "idle"
    BY <1>4 DEF StartSpawnFails, StartInitialized, StartNotified
  <2> QED BY <1>1, <1>2, <2>1, <2>2, <2>3, <2>4
          DEF StopOrder, StopComplete, FailedStartIsClean, AllStops
<1>5. CASE StartFails
  <2>1. UNCHANGED <<child, stdin, readPc>> /\ startPc' = "failed"
    BY <1>5 DEF StartFails, childVars, readVars
  <2>2. stopped /\ ~Stopping
    BY <1>5 DEF StartFails, StopOrder, Stopping, AllStops
  <2> QED BY <1>1, <1>2, <2>1, <2>2 DEF StopOrder, StopComplete, FailedStartIsClean
<1> QED BY <1>3, <1>4, <1>5 DEF StartNext

(* Stop goes through its stages in order and returns from the last.         *)
LEMMA StopStopStep ==
  ASSUME TypeOK, StopOrder, StopComplete, FailedStartIsClean,
         NEW s \in AllStops, StopBegins(s) \/ StopStep(s)
  PROVE  StopOrder' /\ StopComplete' /\ FailedStartIsClean'
<1> DEFINE Moved(to) == stopPc' = [stopPc EXCEPT ![s] = to]
<1>1. stopPc \in [AllStops -> {"idle", "close", "drain", "reap", "returned"}]
  BY DEF TypeOK, CtlTypeOK
<1>2. UNCHANGED startPc
  BY DEF StopBegins, StopStep, StopClosesStdin, StopDrained, StopReaps, StopKills, ctlVars
<1>3. CASE StopBegins(s) /\ stopped
  <2>1. UNCHANGED <<child, stdin, readPc, stopped>> /\ Moved("returned")
        /\ stopPc[s] = "idle" /\ MayStop(s)
    BY <1>3 DEF StopBegins, childVars, readVars
  <2>2. \A t \in AllStops : t # s => stopPc'[t] = stopPc[t]
    BY <1>1, <2>1
  <2>3. (\A t \in AllStops : Active(t)' <=> Active(t)) /\ (Stopping' <=> Stopping)
    BY <1>1, <2>1, <2>2 DEF Active, Stopping
  <2>4. startPc = "stop" => \A t \in Stoppers : stopPc'[t] = "idle"
    BY <2>1, <2>2, StdioRunnerAssumption DEF StopOrder, MayStop, AllStops
  <2>5. stopPc'[s] = "returned"
    BY <1>1, <2>1
  <2>6. StopOrder'
    BY <1>2, <1>3, <2>1, <2>2, <2>3, <2>4, <2>5 DEF StopOrder
  <2> QED BY <1>2, <2>1, <2>3, <2>6 DEF StopComplete, FailedStartIsClean
<1>4. CASE StopBegins(s) /\ ~stopped
  <2>1. UNCHANGED <<child, stdin, readPc>> /\ stopped' /\ Moved("close") /\ MayStop(s)
    BY <1>4 DEF StopBegins, childVars, readVars
  <2>2. stopPc'[s] = "close" /\ \A t \in AllStops : t # s => stopPc'[t] = "idle"
    BY <1>1, <1>4, <2>1 DEF StopOrder
  <2>3. Stopping'
    BY <2>2 DEF Stopping
  <2>4. startPc = "stop" => \A t \in Stoppers : stopPc'[t] = "idle"
    BY <2>1, <2>2, StdioRunnerAssumption DEF MayStop, AllStops
  <2>5. startPc \notin {"idle", "call", "notify"}
    BY <2>1 DEF MayStop
  <2>6. StopOrder'
    BY <1>2, <2>1, <2>2, <2>4, <2>5 DEF StopOrder, Active
  <2> QED BY <1>2, <2>1, <2>3, <2>6 DEF StopComplete, FailedStartIsClean
<1>5. CASE StopClosesStdin(s)
  <2>1. UNCHANGED <<child, readPc, stopped>> /\ stdin' = "closed" /\ Moved("drain")
        /\ stopPc[s] = "close"
    BY <1>5 DEF StopClosesStdin, muVars, readVars
  <2>2. stopPc'[s] = "drain" /\ \A t \in AllStops : t # s => stopPc'[t] = stopPc[t]
    BY <1>1, <2>1
  <2>3. stopped /\ Stopping' /\ \A t \in AllStops : Active(t)' <=> Active(t)
    BY <2>1, <2>2 DEF StopOrder, Stopping, Active
  <2> QED BY <1>2, <2>1, <2>2, <2>3 DEF StopOrder, StopComplete, FailedStartIsClean, AllStops
<1>6. CASE StopDrained(s)
  <2>1. UNCHANGED <<child, stdin, readPc, stopped>> /\ readPc = "done" /\ Moved("reap")
        /\ stopPc[s] = "drain"
    BY <1>6 DEF StopDrained, childVars, muVars, readVars
  <2>2. stopPc'[s] = "reap" /\ \A t \in AllStops : t # s => stopPc'[t] = stopPc[t]
    BY <1>1, <2>1
  <2>3. stopped /\ Stopping' /\ \A t \in AllStops : Active(t)' <=> Active(t)
    BY <2>1, <2>2 DEF StopOrder, Stopping, Active
  <2> QED BY <1>2, <2>1, <2>2, <2>3 DEF StopOrder, StopComplete, FailedStartIsClean, AllStops
<1>7. CASE StopReaps(s)
  <2>1. UNCHANGED <<child, stdin, readPc, stopped>> /\ child = "dead" /\ Moved("returned")
        /\ stopPc[s] = "reap"
    BY <1>7 DEF StopReaps, childVars, muVars, readVars
  <2>2. stopPc'[s] = "returned" /\ \A t \in AllStops : t # s => stopPc'[t] = stopPc[t]
    BY <1>1, <2>1
  <2>3. stopped /\ stdin = "closed" /\ readPc = "done"
    BY <2>1 DEF StopOrder
  <2>4. \A t \in AllStops : ~Active(t)'
    BY <2>1, <2>2 DEF StopOrder, Active
  <2> QED BY <1>2, <2>1, <2>2, <2>3, <2>4
          DEF StopOrder, StopComplete, FailedStartIsClean, AllStops
<1>8. CASE StopKills(s)
  <2>1. child' = "dead" /\ UNCHANGED <<stdin, readPc, stopped, stopPc>>
    BY <1>8 DEF StopKills, ChildEnds, muVars, readVars, ctlVars
  <2>2. (\A t \in AllStops : Active(t)' <=> Active(t)) /\ (Stopping' <=> Stopping)
    BY <2>1 DEF Active, Stopping
  <2>3. startPc # "idle"
    BY <1>8 DEF StopKills, StopOrder
  <2> QED BY <1>2, <2>1, <2>2, <2>3 DEF StopOrder, StopComplete, FailedStartIsClean
<1> QED BY <1>3, <1>4, <1>5, <1>6, <1>7, <1>8 DEF StopStep

LEMMA StopInvStep == StopInv /\ [Next]_vars => StopInv'
<1> SUFFICES ASSUME StopInv, [Next]_vars PROVE StopInv'
  OBVIOUS
<1>1. TypeOK'
  BY TypeStep DEF StopInv
<1>2. StopOrder' /\ StopComplete' /\ FailedStartIsClean'
  <2>1. CASE ChildNext /\ UNCHANGED <<muVars, callVars, readVars, ctlVars>>
    <3>1. UNCHANGED <<stdin, stopped, startPc, stopPc, readPc>>
      BY <2>1 DEF ChildNext, ChildRead, ChildAnswer, ChildSpeak, ChildExit, ChildCrash, ChildEnds,
                  ChildMute, ChildHang, muVars, readVars, ctlVars
    <3>2. child' = child \/ (child' # "none" /\ child \notin {"none", "dead"})
      BY <2>1 DEF ChildNext, ChildRead, ChildAnswer, ChildSpeak, ChildExit, ChildCrash, ChildEnds,
                  ChildMute, ChildHang
    <3> QED BY <3>1, <3>2, OthersStopStep DEF StopInv
  <2>2. CASE CallNext \/ NotifyNext \/ UNCHANGED vars
    <3>1. UNCHANGED <<child, stdin, stopped, startPc, stopPc, readPc>>
      BY <2>2 DEF CallNext, CallStep, Refuse, CallBegin, WriteFails, CallWrites, CallReceives,
                  CallGivesUp, CallLeaves, CtxExpires, NotifyNext, NotifyStep, NotifyBegin,
                  NotifyWrites, vars, childVars, muVars, readVars, ctlVars
    <3> QED BY <3>1, OthersStopStep DEF StopInv
  <2>3. CASE ReadNext
    <3>1. UNCHANGED <<child, stdin, stopped, startPc, stopPc>> /\ readPc # "done"
      BY <2>3 DEF ReadNext, ReadLine, ReadDeliver, ReadEnds, childVars, muVars, ctlVars
    <3> QED BY <3>1, OthersStopStep DEF StopInv
  <2>4. CASE StartNext
    BY <2>4, StartStopStep DEF StopInv
  <2>5. CASE StopNext
    BY <2>5, StopStopStep DEF StopInv, StopNext
  <2> QED BY <2>1, <2>2, <2>3, <2>4, <2>5 DEF Next
<1> QED BY <1>1, <1>2 DEF StopInv

LEMMA StopInvHolds == Spec => []StopInv
  BY InitStopInv, StopInvStep, PTL DEF Spec

(* When a Stop has returned and none is under way, nothing is left: the     *)
(* child has exited, its stdin is closed and readLoop is over, whichever    *)
(* Stop came first and whatever the child and the callers did meanwhile.    *)
THEOREM StopLeavesNothing == Spec => []StopComplete
<1>1. StopInv => StopComplete
  BY DEF StopInv
<1> QED BY <1>1, StopInvHolds, PTL

(* A Start that has returned an error leaves no child behind, though the    *)
(* handshake may fail at any step and the child may do as it likes.         *)
THEOREM FailedStartLeavesNothing == Spec => []FailedStartIsClean
<1>1. StopInv => FailedStartIsClean
  BY DEF StopInv
<1> QED BY <1>1, StopInvHolds, PTL
-----------------------------------------------------------------------------
(* A Call is on the pending map from its registration until it leaves, so   *)
(* the drain finds it.                                                      *)
Registered ==
  \A c \in Calls :
    /\ pc[c] = "idle" => id[c] = 0
    /\ pc[c] \in {"write", "wait", "leave"} =>
         id[c] \in DOMAIN pending /\ pending[id[c]] = c

(* The child never makes readLoop end while it could still take requests.   *)
ChildEndsLast ==
  /\ child # "mute"
  /\ \A k \in DOMAIN fromChild : fromChild[k].kind # "longline"
  /\ readPc = "done" => child = "dead"

DrainInv == TypeOK /\ Registered /\ ChildEndsLast /\ NoCallStranded

LEMMA InitDrainInv == Init => DrainInv
<1> SUFFICES ASSUME Init PROVE DrainInv
  OBVIOUS
<1>1. Registered /\ NoCallStranded
  BY DEF Init, Registered, NoCallStranded, Procs
<1>2. ChildEndsLast
  <2>1. child = "none" /\ fromChild = <<>> /\ readPc = "none"
    BY DEF Init, ChildInit
  <2> QED BY <2>1 DEF ChildEndsLast
<1> QED BY <1>1, <1>2, InitTypeOK DEF DrainInv

LEMMA ChildDrainStep ==
  ASSUME "mute" \notin Behaviours, "longline" \notin Behaviours,
         DrainInv, ChildNext, UNCHANGED <<muVars, callVars, readVars, ctlVars>>
  PROVE  Registered' /\ ChildEndsLast' /\ NoCallStranded'
<1>1. Registered' /\ NoCallStranded'
  BY DEF DrainInv, Registered, NoCallStranded, muVars, callVars, readVars
<1>2. child' # "mute" /\ (child = "dead" => child' = "dead") /\ readPc' = readPc
  BY DEF DrainInv, ChildEndsLast, ChildNext, ChildRead, ChildAnswer, ChildSpeak, ChildExit,
         ChildCrash, ChildEnds, ChildMute, ChildHang, readVars
<1>3. \A k \in DOMAIN fromChild' : fromChild'[k].kind # "longline"
  <2>1. CASE UNCHANGED fromChild
    BY <2>1 DEF DrainInv, ChildEndsLast
  <2>2. CASE ChildAnswer
    <3>1. PICK r \in owed, k \in AnswerKinds : fromChild' = Append(fromChild, LineOf(k, r.id, r.of))
      BY <2>2 DEF ChildAnswer
    <3>2. k \in {"result", "error"} /\ LineOf(k, r.id, r.of) \in Line
      BY <3>1, LineTypes DEF AnswerKinds, WireKinds, DrainInv, TypeOK, ChildTypeOK
    <3>3. LineOf(k, r.id, r.of).kind # "longline"
      BY <3>2 DEF LineOf
    <3> QED BY <3>1, <3>2, <3>3, AppendElements DEF DrainInv, TypeOK, ChildTypeOK, ChildEndsLast
  <2>3. CASE ChildSpeak
    <3>1. PICK l \in Unsolicited : fromChild' = Append(fromChild, l)
      BY <2>3 DEF ChildSpeak
    <3>2. l \in Line /\ l.kind # "longline"
      BY <3>1, LineTypes DEF Unsolicited, LineOf
    <3> QED BY <3>1, <3>2, AppendElements DEF DrainInv, TypeOK, ChildTypeOK, ChildEndsLast
  <2> QED BY <2>1, <2>2, <2>3 DEF ChildNext, ChildRead, ChildExit, ChildCrash, ChildEnds,
                                  ChildMute, ChildHang
<1> QED BY <1>1, <1>2, <1>3 DEF DrainInv, ChildEndsLast

(* A Call or Notify that returns has its place on the map until it leaves.  *)
LEMMA ReturnDrain ==
  ASSUME DrainInv, NEW p \in Procs, NEW line, Return(p, line),
         pc[p] \in {"idle", "write", "wait"},
         UNCHANGED <<pending, id, readPc>>,
         \A c \in Calls \ {p} : chan'[c] = chan[c]
  PROVE  Registered' /\ NoCallStranded'
<1>1. \A c \in Calls : c # p => pc'[c] = pc[c]
  BY DEF Return, DrainInv, TypeOK, CallTypeOK, Procs
<1>2. pc'[p] \in {"leave", "returned"} /\ (pc'[p] = "leave" => p \in Calls /\ id[p] # 0)
  BY DEF Return, DrainInv, TypeOK, CallTypeOK
<1> QED BY <1>1, <1>2 DEF DrainInv, Registered, NoCallStranded

LEMMA CallDrainStep ==
  ASSUME DrainInv, NEW c \in Calls, Refuse(c) \/ CallBegin(c) \/ CallStep(c) \/ CtxExpires(c)
  PROVE  Registered' /\ ChildEndsLast' /\ NoCallStranded'
<1> c \in Procs
  BY DEF Procs
<1>1. ChildEndsLast'
  <2>1. UNCHANGED <<child, fromChild, readPc>>
    BY DEF Refuse, CallBegin, CallStep, WriteFails, CallWrites, CallReceives, CallGivesUp,
           CallLeaves, CtxExpires, childVars, readVars
  <2> QED BY <2>1 DEF DrainInv, ChildEndsLast
<1>2. CASE Refuse(c) \/ WriteFails(c) \/ CallReceives(c) \/ CallGivesUp(c)
  <2>1. PICK line : Return(c, line)
    BY <1>2 DEF Refuse, WriteFails, CallReceives, CallGivesUp
  <2>2. UNCHANGED <<pending, id, readPc>> /\ pc[c] \in {"idle", "write", "wait"}
    BY <1>2 DEF Refuse, WriteFails, CallReceives, CallGivesUp, muVars, readVars
  <2>3. \A d \in Calls \ {c} : chan'[d] = chan[d]
    BY <1>2 DEF Refuse, WriteFails, CallReceives, CallGivesUp, DrainInv, TypeOK, CallTypeOK
  <2> QED BY <1>1, <2>1, <2>2, <2>3, ReturnDrain
<1>3. CASE CallBegin(c)
  <2>1. /\ nextID' = nextID + 1 /\ nextID \in Nat
        /\ id' = [id EXCEPT ![c] = nextID'] /\ pc' = [pc EXCEPT ![c] = "write"]
        /\ UNCHANGED <<chan, readPc>>
    BY <1>3 DEF CallBegin, Fresh, DrainInv, TypeOK, MuTypeOK, readVars
  <2>2. /\ DOMAIN pending' = DOMAIN pending \cup {nextID'}
        /\ \A i \in DOMAIN pending' : pending'[i] = IF i = nextID' THEN c ELSE pending[i]
    BY <1>3 DEF CallBegin, Insert
  <2>3. nextID' \notin DOMAIN pending
    BY <2>1 DEF DrainInv, TypeOK, MuTypeOK
  <2>4. /\ id'[c] = nextID' /\ pc'[c] = "write"
        /\ \A d \in Calls : d # c => id'[d] = id[d] /\ pc'[d] = pc[d]
    BY <2>1 DEF DrainInv, TypeOK, CallTypeOK, Procs
  <2> QED BY <1>1, <2>1, <2>2, <2>3, <2>4 DEF DrainInv, Registered, NoCallStranded
<1>4. CASE CallWrites(c)
  <2>1. UNCHANGED <<pending, chan, id, readPc>> /\ pc[c] = "write" /\ child # "dead"
        /\ pc' = [pc EXCEPT ![c] = "wait"]
    BY <1>4 DEF CallWrites, Broken, muVars, readVars
  <2>2. pc'[c] = "wait" /\ \A d \in Calls : d # c => pc'[d] = pc[d]
    BY <2>1 DEF DrainInv, TypeOK, CallTypeOK, Procs
  <2>3. readPc # "done"
    BY <2>1 DEF DrainInv, ChildEndsLast
  <2> QED BY <1>1, <2>1, <2>2, <2>3 DEF DrainInv, Registered, NoCallStranded
<1>5. CASE CallLeaves(c)
  <2>1. /\ DOMAIN pending' = DOMAIN pending \ {id[c]}
        /\ \A i \in DOMAIN pending' : pending'[i] = pending[i]
        /\ UNCHANGED <<chan, id, readPc>> /\ pc[c] = "leave"
        /\ pc' = [pc EXCEPT ![c] = "returned"]
    BY <1>5 DEF CallLeaves, Delete, readVars
  <2>2. pc'[c] = "returned" /\ \A d \in Calls : d # c => pc'[d] = pc[d]
    BY <2>1 DEF DrainInv, TypeOK, CallTypeOK, Procs
  <2>3. \A d \in Calls : d # c /\ pc[d] \in {"write", "wait", "leave"} => id[d] # id[c]
    BY <2>1 DEF DrainInv, Registered
  <2> QED BY <1>1, <2>1, <2>2, <2>3 DEF DrainInv, Registered, NoCallStranded
<1>6. CASE CtxExpires(c)
  <2>1. UNCHANGED <<pending, chan, id, pc, readPc>>
    BY <1>6 DEF CtxExpires, muVars, readVars
  <2> QED BY <1>1, <2>1 DEF DrainInv, Registered, NoCallStranded
<1> QED BY <1>2, <1>3, <1>4, <1>5, <1>6 DEF CallStep

LEMMA ReadDrainStep ==
  ASSUME DrainInv, ReadNext
  PROVE  Registered' /\ ChildEndsLast' /\ NoCallStranded'
<1>1. Registered' /\ UNCHANGED <<child, pending, id, pc>>
  BY DEF ReadNext, ReadLine, ReadDeliver, ReadEnds, DrainInv, Registered,
         childVars, muVars, callVars
<1>2. CASE ReadLine
  <2>1. \A k \in DOMAIN fromChild' : k + 1 \in DOMAIN fromChild /\ fromChild'[k] = fromChild[k + 1]
    BY <1>2, TailElements DEF ReadLine, DrainInv, TypeOK, ChildTypeOK
  <2>2. readPc' # "done"
    BY <1>2 DEF ReadLine, readVars
  <2> QED BY <1>1, <2>1, <2>2 DEF DrainInv, ChildEndsLast, NoCallStranded
<1>3. CASE ReadDeliver
  BY <1>1, <1>3 DEF ReadDeliver, DrainInv, ChildEndsLast, NoCallStranded, childVars
<1>4. CASE ReadEnds
  <2>1. fromChild # <<>> => 1 \in DOMAIN fromChild /\ Head(fromChild) = fromChild[1]
    BY TailElements DEF DrainInv, TypeOK, ChildTypeOK
  <2>2. child = "dead" /\ UNCHANGED fromChild
    BY <1>4, <2>1 DEF ReadEnds, EndOfInput, DrainInv, ChildEndsLast, childVars
  <2>3. Local("closed") # NoLine
    BY DEF Local, NoLine, LineOf
  <2>4. \A c \in Calls : pc[c] = "wait" => c \in Drained
    BY DEF DrainInv, Registered, Drained
  <2>5. \A c \in Drained : c \in Calls => chan'[c] # NoLine
    BY <1>4, <2>3 DEF ReadEnds
  <2> QED BY <1>1, <2>2, <2>4, <2>5 DEF DrainInv, ChildEndsLast, NoCallStranded
<1> QED BY <1>2, <1>3, <1>4 DEF ReadNext

LEMMA ControlDrainStep ==
  ASSUME DrainInv, NotifyNext \/ StartNext \/ StopNext \/ UNCHANGED vars
  PROVE  Registered' /\ ChildEndsLast' /\ NoCallStranded'
<1>1. CASE NotifyNext
  <2>1. UNCHANGED <<child, fromChild, pending, chan, id, readPc>>
    BY <1>1 DEF NotifyNext, NotifyStep, NotifyBegin, Refuse, WriteFails, NotifyWrites,
                childVars, muVars, readVars
  <2>2. \A c \in Calls : pc'[c] = pc[c]
    BY <1>1, StdioRunnerAssumption
       DEF NotifyNext, NotifyStep, NotifyBegin, Refuse, WriteFails, NotifyWrites, Return,
                DrainInv, TypeOK, CallTypeOK, Procs
  <2> QED BY <2>1, <2>2 DEF DrainInv, Registered, ChildEndsLast, NoCallStranded
<1>2. CASE StartNext \/ StopNext \/ UNCHANGED vars
  <2>1. UNCHANGED <<fromChild, pending, chan, id, pc>>
    BY <1>2 DEF StartNext, StartSpawns, StartSpawnFails, StartInitialized, StartNotified, StartFails,
         StopNext, StopBegins, StopStep, StopClosesStdin, StopDrained, StopReaps, StopKills, ChildEnds,
         vars, childVars, muVars, callVars
  <2>2. \/ child' = "running" /\ readPc' = "scan"
        \/ child' \in {child, "dead"} /\ readPc' = readPc
    BY <1>2 DEF StartNext, StartSpawns, StartSpawnFails, StartInitialized, StartNotified, StartFails,
         StopNext, StopBegins, StopStep, StopClosesStdin, StopDrained, StopReaps, StopKills, ChildEnds,
         vars, childVars, readVars
  <2> QED BY <2>1, <2>2 DEF DrainInv, Registered, ChildEndsLast, NoCallStranded
<1> QED BY <1>1, <1>2

(* The drain of readLoop leaves no Call "waiting on a response that will    *)
(* never come", for any number of Calls at any point of their registration, *)
(* provided readLoop ends only with the child.  The two things that make it *)
(* end earlier, a closed stdout and a line beyond stdioMaxLine, do strand   *)
(* Calls.                                                                   *)
THEOREM DrainReachesAll ==
  ASSUME "mute" \notin Behaviours, "longline" \notin Behaviours
  PROVE  Spec => []NoCallStranded
<1>1. DrainInv /\ [Next]_vars => DrainInv'
  <2> SUFFICES ASSUME DrainInv, [Next]_vars PROVE DrainInv'
    OBVIOUS
  <2>1. TypeOK'
    BY TypeStep DEF DrainInv
  <2>2. Registered' /\ ChildEndsLast' /\ NoCallStranded'
    <3>1. CASE ChildNext /\ UNCHANGED <<muVars, callVars, readVars, ctlVars>>
      BY <3>1, ChildDrainStep
    <3>2. CASE CallNext
      BY <3>2, CallDrainStep DEF CallNext
    <3>3. CASE ReadNext
      BY <3>3, ReadDrainStep
    <3>4. CASE NotifyNext \/ StartNext \/ StopNext \/ UNCHANGED vars
      BY <3>4, ControlDrainStep
    <3> QED BY <3>1, <3>2, <3>3, <3>4 DEF Next
  <2> QED BY <2>1, <2>2 DEF DrainInv
<1>2. DrainInv => NoCallStranded
  BY DEF DrainInv
<1> QED BY <1>1, <1>2, InitDrainInv, PTL DEF Spec
-----------------------------------------------------------------------------
(* The runner implements the interface of runner.go: what a Call returns    *)
(* the child has answered, and only a Start that spawned a child has one.   *)
AnswersKnown ==
  /\ \A k \in DOMAIN fromChild : fromChild[k].of # NoCall => fromChild[k].of \in answered
  /\ readPc = "deliver" => heldFor \in answered
  /\ \A c \in Calls : /\ chan[c].kind \in WireKinds => c \in answered
                      /\ reply[c].kind \in WireKinds => c \in answered

Spawned ==
  /\ child = "none" => readPc = "none"
  /\ startPc \in {"call", "notify", "started", "stop"} => child # "none"

ContractInv == OwnInv /\ StopInv /\ AnswersKnown /\ Spawned

LEMMA InitContractInv == Init => ContractInv
<1> SUFFICES ASSUME Init PROVE ContractInv
  OBVIOUS
<1>1. fromChild = <<>> /\ DOMAIN fromChild = {}
  BY DEF Init, ChildInit
<1>2. AnswersKnown
  BY <1>1 DEF Init, AnswersKnown, NoLine, Local, LineOf, WireKinds, Procs
<1>3. Spawned
  BY DEF Init, ChildInit, Spawned
<1> QED BY <1>2, <1>3, InitOwnInv, InitStopInv DEF ContractInv

LEMMA SpawnedStep ==
  ASSUME TypeOK, StopOrder, Spawned, [Next]_vars
  PROVE  Spawned'
<1>1. CASE ChildNext /\ UNCHANGED <<muVars, callVars, readVars, ctlVars>>
  BY <1>1 DEF ChildNext, ChildRead, ChildAnswer, ChildSpeak, ChildExit, ChildCrash, ChildEnds,
              ChildMute, ChildHang, readVars, ctlVars, Spawned
<1>2. CASE CallNext \/ NotifyNext \/ UNCHANGED vars
  BY <1>2 DEF CallNext, CallStep, Refuse, CallBegin, WriteFails, CallWrites, CallReceives,
              CallGivesUp, CallLeaves, CtxExpires, NotifyNext, NotifyStep, NotifyBegin,
              NotifyWrites, vars, childVars, readVars, ctlVars, Spawned
<1>3. CASE ReadNext
  BY <1>3 DEF ReadNext, ReadLine, ReadDeliver, ReadEnds, childVars, readVars, ctlVars, Spawned
<1>4. CASE StartNext
  BY <1>4 DEF StartNext, StartSpawns, StartSpawnFails, StartInitialized, StartNotified, StartFails,
              childVars, readVars, Spawned
<1>5. CASE StopNext
  BY <1>5 DEF StopNext, StopBegins, StopStep, StopClosesStdin, StopDrained, StopReaps, StopKills,
              ChildEnds, childVars, readVars, ctlVars, Spawned
<1> QED BY <1>1, <1>2, <1>3, <1>4, <1>5 DEF Next

LEMMA AnswersKnownStep ==
  ASSUME OwnInv, OwnInv', AnswersKnown, [Next]_vars
  PROVE  AnswersKnown'
<1> TypeOK /\ HandsOK'
  BY DEF OwnInv
<1>1. CASE ChildNext /\ UNCHANGED <<muVars, callVars, readVars, ctlVars>>
  <2>1. UNCHANGED <<readPc, heldFor, chan, reply>>
    BY <1>1 DEF callVars, readVars
  <2>2. CASE ChildAnswer
    <3>1. PICK r \in owed, k \in AnswerKinds :
            /\ fromChild' = Append(fromChild, LineOf(k, r.id, r.of))
            /\ answered' = answered \cup {r.of}
      BY <2>2 DEF ChildAnswer
    <3>2. LineOf(k, r.id, r.of) \in Line /\ LineOf(k, r.id, r.of).of = r.of
      BY LineTypes DEF TypeOK, ChildTypeOK, AnswerKinds, WireKinds, LineOf
    <3>3. \A j \in DOMAIN fromChild' : \/ fromChild'[j] = LineOf(k, r.id, r.of)
                                       \/ j \in DOMAIN fromChild /\ fromChild'[j] = fromChild[j]
      BY <3>1, <3>2, AppendElements DEF TypeOK, ChildTypeOK
    <3> QED BY <2>1, <3>1, <3>2, <3>3 DEF AnswersKnown
  <2>3. CASE ChildSpeak
    <3>1. PICK l \in Unsolicited : fromChild' = Append(fromChild, l)
      BY <2>3 DEF ChildSpeak
    <3>2. l \in Line /\ l.of = NoCall
      BY LineTypes DEF Unsolicited, LineOf
    <3>3. \A j \in DOMAIN fromChild' : \/ fromChild'[j] = l
                                       \/ j \in DOMAIN fromChild /\ fromChild'[j] = fromChild[j]
      BY <3>1, <3>2, AppendElements DEF TypeOK, ChildTypeOK
    <3> QED BY <2>1, <2>3, <3>2, <3>3 DEF ChildSpeak, AnswersKnown
  <2>4. CASE ChildRead \/ ChildExit \/ ChildCrash \/ ChildMute \/ ChildHang
    BY <2>1, <2>4 DEF ChildRead, ChildExit, ChildCrash, ChildEnds, ChildMute, ChildHang, AnswersKnown
  <2> QED BY <1>1, <2>2, <2>3, <2>4 DEF ChildNext
<1>2. ASSUME NEW c \in Calls, Refuse(c) \/ CallBegin(c) \/ CallStep(c) \/ CtxExpires(c)
      PROVE  AnswersKnown'
  <2>0. UNCHANGED <<fromChild, answered, readPc, heldFor>> /\ c \in Procs
    BY <1>2 DEF Refuse, CallBegin, CallStep, WriteFails, CallWrites, CallReceives, CallGivesUp,
                CallLeaves, CtxExpires, childVars, readVars, Procs
  <2>1. CASE CallReceives(c)
    <3>1. /\ reply' = [reply EXCEPT ![c] = chan[c]]
          /\ chan' = [chan EXCEPT ![c] = NoLine]
      BY <2>1 DEF CallReceives, Return
    <3>2. NoLine.kind \notin WireKinds
      BY DEF NoLine, Local, LineOf, WireKinds
    <3> QED BY <2>0, <3>1, <3>2 DEF AnswersKnown, TypeOK, CallTypeOK
  <2>2. CASE Refuse(c) \/ WriteFails(c) \/ CallGivesUp(c)
    <3>1. PICK k \in LocalKinds : Return(c, Local(k)) /\ UNCHANGED chan
      BY <2>2 DEF Refuse, WriteFails, CallGivesUp, LocalKinds
    <3>2. reply' = [reply EXCEPT ![c] = Local(k)] /\ Local(k).kind \notin WireKinds
      BY <3>1 DEF Return, Local, LineOf, LocalKinds, WireKinds
    <3> QED BY <2>0, <3>1, <3>2 DEF AnswersKnown, TypeOK, CallTypeOK
  <2>3. CASE CallBegin(c) \/ CallWrites(c) \/ CallLeaves(c) \/ CtxExpires(c)
    BY <2>0, <2>3 DEF CallBegin, CallWrites, CallLeaves, CtxExpires, AnswersKnown
  <2> QED BY <1>2, <2>1, <2>2, <2>3 DEF CallStep
<1>3. ASSUME NEW n \in Notes, Refuse(n) \/ NotifyBegin(n) \/ NotifyStep(n)
      PROVE  AnswersKnown'
  <2>1. UNCHANGED <<fromChild, answered, readPc, heldFor, chan>>
    BY <1>3 DEF Refuse, NotifyBegin, NotifyStep, WriteFails, NotifyWrites, childVars, readVars
  <2>2. n \in Procs /\ \A c \in Calls : c \in Procs /\ c # n
    BY StdioRunnerAssumption DEF Procs
  <2>3. UNCHANGED reply \/ \E line : reply' = [reply EXCEPT ![n] = line]
    BY <1>3 DEF Refuse, NotifyBegin, NotifyStep, WriteFails, NotifyWrites, Return
  <2>4. \A c \in Calls : reply'[c] = reply[c]
    BY <2>2, <2>3 DEF TypeOK, CallTypeOK
  <2> QED BY <2>1, <2>4 DEF AnswersKnown
<1>4. CASE ReadLine
  <2>1. /\ fromChild # <<>> /\ fromChild' = Tail(fromChild) /\ UNCHANGED <<answered, chan, reply>>
        /\ \/ UNCHANGED readVars
           \/ readPc' = "deliver" /\ held' = Head(fromChild) /\ heldFor' # NoCall
    BY <1>4 DEF ReadLine, callVars
  <2>2. fromChild \in Seq(Line)
    BY DEF TypeOK, ChildTypeOK
  <2>3. /\ Head(fromChild) = fromChild[1] /\ 1 \in DOMAIN fromChild
        /\ \A k \in DOMAIN fromChild' : k + 1 \in DOMAIN fromChild /\ fromChild'[k] = fromChild[k + 1]
    BY <2>1, <2>2, TailElements
  <2>4. readPc' = "deliver" => heldFor' \in answered
    BY <2>1, <2>3 DEF AnswersKnown, HandsOK, readVars
  <2> QED BY <2>1, <2>3, <2>4 DEF AnswersKnown
<1>5. CASE ReadDeliver
  <2>1. /\ readPc = "deliver" /\ chan' = [chan EXCEPT ![heldFor] = held] /\ readPc' = "scan"
        /\ UNCHANGED <<fromChild, answered, reply>>
    BY <1>5 DEF ReadDeliver, childVars
  <2> QED BY <2>1 DEF AnswersKnown, TypeOK, CallTypeOK
<1>6. CASE ReadEnds
  <2>1. /\ chan' = [c \in Calls |-> IF c \in Drained /\ chan[c] = NoLine
                                      THEN Local("closed") ELSE chan[c]]
        /\ readPc' = "done" /\ UNCHANGED <<fromChild, answered, reply>>
    BY <1>6 DEF ReadEnds, childVars
  <2>2. Local("closed").kind \notin WireKinds
    BY DEF Local, LineOf, WireKinds
  <2> QED BY <2>1, <2>2 DEF AnswersKnown
<1>7. CASE StartNext \/ StopNext \/ UNCHANGED vars
  <2>1. UNCHANGED <<fromChild, answered, heldFor, chan, reply>> /\ readPc' \in {readPc, "scan"}
    BY <1>7 DEF StartNext, StartSpawns, StartSpawnFails, StartInitialized, StartNotified,
                StartFails, StopNext, StopBegins, StopStep, StopClosesStdin, StopDrained,
                StopReaps, StopKills, ChildEnds, vars, childVars, readVars, callVars
  <2> QED BY <2>1 DEF AnswersKnown
<1> QED BY <1>1, <1>2, <1>3, <1>4, <1>5, <1>6, <1>7 DEF Next, CallNext, NotifyNext, ReadNext

(* The variables of RunnerContract, and its steps.                          *)
Life == CASE stopped /\ Stopping  -> "closing"
          [] stopped /\ ~Stopping -> "down"
          [] ~stopped -> IF startPc = "started" THEN "up" ELSE "new"
Backend == CASE child = "none" -> "off"
             [] child = "dead" -> "gone"
             [] OTHER -> "on"
Outcome == [c \in ClientCalls |->
             CASE pc[c] = "idle" -> "idle"
               [] pc[c] = "returned" -> IF reply[c].kind \in WireKinds THEN "ok" ELSE "failed"
               [] OTHER -> "active"]
Replied == answered \ {InitCall}

Becomes(l, b, o, a) == Life' = l /\ Backend' = b /\ Outcome' = o /\ Replied' = a

LEMMA ContractStutters ==
  ASSUME Becomes(Life, Backend, Outcome, Replied)
  PROVE  UNCHANGED Contract!vars
  BY DEF Becomes, Contract!vars, Life, Backend, Outcome, Replied

LEMMA ContractSteps ==
  ASSUME \/ Life = "new" /\ Backend = "off" /\ Becomes(Life, "on", Outcome, Replied)
         \/ Life = "new" /\ Backend # "off" /\ Becomes("up", Backend, Outcome, Replied)
         \/ Backend = "on" /\ Becomes(Life, "gone", Outcome, Replied)
         \/ Life \in {"new", "up"} /\ Becomes("closing", Backend, Outcome, Replied)
         \/ Life = "closing" /\ Backend # "on" /\ Becomes("down", Backend, Outcome, Replied)
  PROVE  Contract!Next
<1>1. CASE Life = "new" /\ Backend = "off" /\ Becomes(Life, "on", Outcome, Replied)
  <2>1. Contract!Launch
    BY <1>1 DEF Becomes, Contract!Launch, Life, Backend, Outcome, Replied
  <2> QED BY <2>1 DEF Contract!Next
<1>2. CASE Life = "new" /\ Backend # "off" /\ Becomes("up", Backend, Outcome, Replied)
  <2>1. Contract!Ready
    BY <1>2 DEF Becomes, Contract!Ready, Life, Backend, Outcome, Replied
  <2> QED BY <2>1 DEF Contract!Next
<1>3. CASE Backend = "on" /\ Becomes(Life, "gone", Outcome, Replied)
  <2>1. Contract!Vanish
    BY <1>3 DEF Becomes, Contract!Vanish, Life, Backend, Outcome, Replied
  <2> QED BY <2>1 DEF Contract!Next
<1>4. CASE Life \in {"new", "up"} /\ Becomes("closing", Backend, Outcome, Replied)
  <2>1. Contract!Close
    BY <1>4 DEF Becomes, Contract!Close, Life, Backend, Outcome, Replied
  <2> QED BY <2>1 DEF Contract!Next
<1>5. CASE Life = "closing" /\ Backend # "on" /\ Becomes("down", Backend, Outcome, Replied)
  <2>1. Contract!Down
    BY <1>5 DEF Becomes, Contract!Down, Life, Backend, Outcome, Replied
  <2> QED BY <2>1 DEF Contract!Next
<1> QED BY <1>1, <1>2, <1>3, <1>4, <1>5

LEMMA ContractCallSteps ==
  ASSUME NEW c \in ClientCalls,
         \/ /\ Life = "up" /\ Outcome[c] = "idle"
            /\ Becomes(Life, Backend, [Outcome EXCEPT ![c] = "active"], Replied)
         \/ /\ Backend = "on" /\ Outcome[c] # "idle"
            /\ Becomes(Life, Backend, Outcome, Replied \cup {c})
         \/ /\ Outcome[c] = "active" /\ c \in Replied
            /\ Becomes(Life, Backend, [Outcome EXCEPT ![c] = "ok"], Replied)
         \/ /\ Outcome[c] = "active" \/ (Outcome[c] = "idle" /\ Life \in {"closing", "down"})
            /\ Becomes(Life, Backend, [Outcome EXCEPT ![c] = "failed"], Replied)
  PROVE  Contract!Next
<1>1. CASE /\ Life = "up" /\ Outcome[c] = "idle"
           /\ Becomes(Life, Backend, [Outcome EXCEPT ![c] = "active"], Replied)
  <2>1. Contract!Begin(c)
    BY <1>1 DEF Becomes, Contract!Begin, Life, Backend, Outcome, Replied
  <2> QED BY <2>1 DEF Contract!Next
<1>2. CASE /\ Backend = "on" /\ Outcome[c] # "idle"
           /\ Becomes(Life, Backend, Outcome, Replied \cup {c})
  <2>1. Contract!Reply(c)
    BY <1>2 DEF Becomes, Contract!Reply, Life, Backend, Outcome, Replied
  <2> QED BY <2>1 DEF Contract!Next
<1>3. CASE /\ Outcome[c] = "active" /\ c \in Replied
           /\ Becomes(Life, Backend, [Outcome EXCEPT ![c] = "ok"], Replied)
  <2>1. Contract!Succeed(c)
    BY <1>3 DEF Becomes, Contract!Succeed, Life, Backend, Outcome, Replied
  <2> QED BY <2>1 DEF Contract!Next
<1>4. CASE /\ Outcome[c] = "active" \/ (Outcome[c] = "idle" /\ Life \in {"closing", "down"})
           /\ Becomes(Life, Backend, [Outcome EXCEPT ![c] = "failed"], Replied)
  <2>1. Contract!Fail(c)
    BY <1>4 DEF Becomes, Contract!Fail, Life, Backend, Outcome, Replied
  <2> QED BY <2>1 DEF Contract!Next
<1> QED BY <1>1, <1>2, <1>3, <1>4

LEMMA OutcomeKept ==
  ASSUME \A c \in Calls : /\ pc'[c] = "idle" <=> pc[c] = "idle"
                          /\ pc'[c] = "returned" <=> pc[c] = "returned"
                          /\ pc[c] = "returned" => reply'[c] = reply[c]
  PROVE  Outcome' = Outcome
  BY DEF Outcome, ClientCalls

LEMMA OutcomeOf ==
  ASSUME NEW c \in Calls, \A d \in Calls \ {c} : pc'[d] = pc[d] /\ reply'[d] = reply[d]
  PROVE  /\ c \notin ClientCalls => Outcome' = Outcome
         /\ c \in ClientCalls => Outcome' = [Outcome EXCEPT ![c] = Outcome'[c]]
<1>1. \A d \in ClientCalls \ {c} : Outcome'[d] = Outcome[d]
  BY DEF Outcome, ClientCalls
<1>2. Outcome = [d \in ClientCalls |-> Outcome[d]] /\ Outcome' = [d \in ClientCalls |-> Outcome'[d]]
  BY DEF Outcome
<1> QED BY <1>1, <1>2

LEMMA OutcomeIs ==
  ASSUME NEW c \in ClientCalls
  PROVE  /\ pc[c] = "idle" => Outcome[c] = "idle"
         /\ pc[c] \in {"write", "wait", "leave"} => Outcome[c] = "active"
         /\ pc'[c] \in {"write", "wait", "leave"} => Outcome'[c] = "active"
         /\ pc'[c] = "returned" /\ reply'[c].kind \in WireKinds => Outcome'[c] = "ok"
         /\ pc'[c] = "returned" /\ reply'[c].kind \notin WireKinds => Outcome'[c] = "failed"
  BY DEF Outcome

LEMMA LifeKept ==
  /\ UNCHANGED <<stopped, startPc, stopPc>> => Life' = Life
  /\ UNCHANGED child => Backend' = Backend
  /\ UNCHANGED <<pc, reply>> => Outcome' = Outcome
  BY DEF Life, Stopping, Backend, Outcome

LEMMA ChildContract ==
  ASSUME ContractInv, ChildNext, UNCHANGED <<muVars, callVars, readVars, ctlVars>>
  PROVE  Contract!Next \/ UNCHANGED Contract!vars
<1>1. Life' = Life /\ Outcome' = Outcome
  BY LifeKept DEF muVars, callVars, ctlVars
<1>2. CASE ChildRead \/ ChildSpeak \/ ChildMute \/ ChildHang
  <2>1. Backend' = Backend /\ Replied' = Replied
    BY <1>2 DEF ChildRead, ChildSpeak, ChildMute, ChildHang, Backend, Replied
  <2> QED BY <1>1, <2>1, ContractStutters DEF Becomes
<1>3. CASE ChildExit \/ ChildCrash
  <2>1. Backend = "on" /\ Backend' = "gone" /\ Replied' = Replied
    BY <1>3 DEF ChildExit, ChildCrash, ChildEnds, Backend, Replied
  <2> QED BY <1>1, <2>1, ContractSteps DEF Becomes
<1>4. CASE ChildAnswer
  <2>1. PICK r \in owed : answered' = answered \cup {r.of}
    BY <1>4 DEF ChildAnswer
  <2>2. Backend = "on" /\ Backend' = Backend
    BY <1>4 DEF ChildAnswer, Backend
  <2>3. r.of \in Calls /\ pc[r.of] # "idle"
    <3>1. r.of \in Calls /\ Carries(r)
      BY DEF ContractInv, OwnInv, TypeOK, ChildTypeOK, WireOK
    <3> QED BY <3>1, BackingMCPAssumption DEF Carries, ContractInv, OwnInv, IdsOK
  <2>4. CASE r.of = InitCall
    <3>1. Replied' = Replied
      BY <2>1, <2>4 DEF Replied
    <3> QED BY <1>1, <2>2, <3>1, ContractStutters DEF Becomes
  <2>5. CASE r.of # InitCall
    <3>1. r.of \in ClientCalls /\ Replied' = Replied \cup {r.of}
      BY <2>1, <2>3, <2>5 DEF Replied, ClientCalls
    <3>2. Outcome[r.of] # "idle"
      BY <2>3, <3>1 DEF Outcome
    <3> QED BY <1>1, <2>2, <3>1, <3>2, ContractCallSteps DEF Becomes
  <2> QED BY <2>4, <2>5
<1> QED BY <1>2, <1>3, <1>4 DEF ChildNext

LEMMA CallContract ==
  ASSUME ContractInv, NEW c \in Calls, Refuse(c) \/ CallBegin(c) \/ CallStep(c) \/ CtxExpires(c)
  PROVE  Contract!Next \/ UNCHANGED Contract!vars
<1> c \in Procs /\ TypeOK
  BY DEF Procs, ContractInv, OwnInv
<1>1. UNCHANGED <<child, answered, stopped, startPc, stopPc>>
  BY DEF Refuse, CallBegin, CallStep, WriteFails, CallWrites, CallReceives, CallGivesUp,
         CallLeaves, CtxExpires, childVars, muVars, ctlVars
<1>2. Life' = Life /\ Backend' = Backend /\ Replied' = Replied
  BY <1>1, LifeKept DEF Replied
<1>3. ASSUME Outcome' = Outcome
      PROVE  Contract!Next \/ UNCHANGED Contract!vars
  BY <1>2, <1>3, ContractStutters DEF Becomes
<1>4. \A d \in Calls \ {c} : pc'[d] = pc[d] /\ reply'[d] = reply[d]
  BY DEF Refuse, CallBegin, CallStep, WriteFails, CallWrites, CallReceives, CallGivesUp,
         CallLeaves, CtxExpires, Return, TypeOK, CallTypeOK, Procs
<1>5. CASE Refuse(c)
  <2>1. /\ stopped /\ pc[c] = "idle" /\ id[c] = 0
        /\ pc' = [pc EXCEPT ![c] = IF c \in Calls /\ id[c] # 0 THEN "leave" ELSE "returned"]
        /\ reply' = [reply EXCEPT ![c] = Local("stopped")]
    BY <1>5 DEF Refuse, Return, ContractInv, OwnInv, IdsOK
  <2>2. pc'[c] = "returned" /\ reply'[c].kind \notin WireKinds
    BY <2>1 DEF TypeOK, CallTypeOK, Local, LineOf, WireKinds
  <2>3. Life \in {"closing", "down"}
    BY <2>1 DEF Life
  <2>4. CASE c \in ClientCalls
    <3>1. Outcome' = [Outcome EXCEPT ![c] = "failed"] /\ Outcome[c] = "idle"
      BY <1>4, <2>1, <2>2, <2>4, OutcomeOf, OutcomeIs
    <3> QED BY <1>2, <2>3, <2>4, <3>1, ContractCallSteps DEF Becomes
  <2> QED BY <1>3, <1>4, <2>4, OutcomeOf
<1>6. CASE CallBegin(c)
  <2>1. pc[c] = "idle" /\ pc' = [pc EXCEPT ![c] = "write"] /\ ~stopped /\ MayBegin(c)
    BY <1>6 DEF CallBegin
  <2>2. CASE c \in ClientCalls
    <3>1. Life = "up"
      BY <2>1, <2>2, StdioRunnerAssumption DEF MayBegin, ClientCalls, Life
    <3>2. pc'[c] = "write"
      BY <2>1 DEF TypeOK, CallTypeOK
    <3>3. Outcome' = [Outcome EXCEPT ![c] = "active"] /\ Outcome[c] = "idle"
      BY <1>4, <2>1, <2>2, <3>2, OutcomeOf, OutcomeIs
    <3> QED BY <1>2, <2>2, <3>1, <3>3, ContractCallSteps DEF Becomes
  <2> QED BY <1>3, <1>4, <2>2, OutcomeOf
<1>7. CASE WriteFails(c) \/ CallWrites(c) \/ CallReceives(c) \/ CallGivesUp(c)
  <2>1. pc[c] \in {"write", "wait"} /\ id[c] # 0
    BY <1>7 DEF WriteFails, CallWrites, CallReceives, CallGivesUp, ContractInv, OwnInv, IdsOK
  <2>2. pc'[c] \in {"wait", "leave"}
    BY <1>7, <2>1 DEF WriteFails, CallWrites, CallReceives, CallGivesUp, Return, TypeOK, CallTypeOK
  <2>3. Outcome' = Outcome
    BY <1>4, <2>1, <2>2, OutcomeKept
  <2> QED BY <1>3, <2>3
<1>8. CASE CallLeaves(c)
  <2>1. pc[c] = "leave" /\ pc' = [pc EXCEPT ![c] = "returned"] /\ UNCHANGED reply
    BY <1>8 DEF CallLeaves
  <2>2. pc'[c] = "returned"
    BY <2>1 DEF TypeOK, CallTypeOK
  <2>3. CASE c \in ClientCalls /\ reply[c].kind \in WireKinds
    <3>1. c \in Replied
      BY <2>3 DEF ContractInv, AnswersKnown, Replied, ClientCalls
    <3>2. Outcome' = [Outcome EXCEPT ![c] = "ok"] /\ Outcome[c] = "active"
      BY <1>4, <2>1, <2>2, <2>3, OutcomeOf, OutcomeIs
    <3> QED BY <1>2, <2>3, <3>1, <3>2, ContractCallSteps DEF Becomes
  <2>4. CASE c \in ClientCalls /\ reply[c].kind \notin WireKinds
    <3>1. Outcome' = [Outcome EXCEPT ![c] = "failed"] /\ Outcome[c] = "active"
      BY <1>4, <2>1, <2>2, <2>4, OutcomeOf, OutcomeIs
    <3> QED BY <1>2, <2>4, <3>1, ContractCallSteps DEF Becomes
  <2> QED BY <1>3, <1>4, <2>3, <2>4, OutcomeOf
<1>9. CASE CtxExpires(c)
  <2>1. Outcome' = Outcome
    BY <1>9, LifeKept DEF CtxExpires
  <2> QED BY <1>3, <2>1
<1> QED BY <1>5, <1>6, <1>7, <1>8, <1>9 DEF CallStep

LEMMA OthersContract ==
  ASSUME ContractInv, NotifyNext \/ ReadNext \/ UNCHANGED vars
  PROVE  UNCHANGED Contract!vars
<1> TypeOK
  BY DEF ContractInv, OwnInv
<1>1. UNCHANGED <<child, answered, stopped, startPc, stopPc>>
  BY DEF NotifyNext, Refuse, NotifyBegin, NotifyStep, WriteFails, NotifyWrites, ReadNext, ReadLine,
         ReadDeliver, ReadEnds, vars, childVars, muVars, ctlVars
<1>2. \A c \in Calls : pc'[c] = pc[c] /\ reply'[c] = reply[c]
  <2>1. CASE ReadNext \/ UNCHANGED vars
    BY <2>1 DEF ReadNext, ReadLine, ReadDeliver, ReadEnds, callVars, vars
  <2>2. CASE NotifyNext
    <3>1. PICK n \in Notes : Refuse(n) \/ NotifyBegin(n) \/ NotifyStep(n)
      BY <2>2 DEF NotifyNext
    <3>2. n \in Procs /\ \A c \in Calls : c \in Procs /\ c # n
      BY StdioRunnerAssumption DEF Procs
    <3>3. /\ UNCHANGED reply \/ \E line : reply' = [reply EXCEPT ![n] = line]
          /\ \E to : pc' = [pc EXCEPT ![n] = to]
      BY <3>1 DEF Refuse, NotifyBegin, NotifyStep, WriteFails, NotifyWrites, Return
    <3> QED BY <3>2, <3>3 DEF TypeOK, CallTypeOK
  <2> QED BY <2>1, <2>2
<1>3. Outcome' = Outcome
  BY <1>2, OutcomeKept
<1> QED BY <1>1, <1>3, LifeKept, ContractStutters DEF Becomes, Replied

LEMMA StartContract ==
  ASSUME ContractInv, StartNext
  PROVE  Contract!Next \/ UNCHANGED Contract!vars
<1>1. UNCHANGED <<answered, stopped, stopPc, pc, reply>>
  BY DEF StartNext, StartSpawns, StartSpawnFails, StartInitialized, StartNotified, StartFails,
         childVars, muVars, callVars
<1>2. Outcome' = Outcome /\ Replied' = Replied /\ Stopping' = Stopping
  BY <1>1, LifeKept DEF Replied, Stopping
<1>3. CASE StartSpawns
  <2>1. child = "none" /\ ~stopped /\ startPc = "idle" /\ startPc' = "call" /\ child' = "running"
    BY <1>3 DEF StartSpawns, ContractInv, StopInv, StopOrder
  <2>2. Life = "new" /\ Life' = "new" /\ Backend = "off" /\ Backend' = "on"
    BY <1>1, <2>1 DEF Life, Backend
  <2> QED BY <1>2, <2>2, ContractSteps DEF Becomes
<1>4. CASE UNCHANGED child /\ startPc # "started" /\ startPc' # "started"
  <2>1. Life' = Life /\ Backend' = Backend
    BY <1>1, <1>2, <1>4, LifeKept DEF Life
  <2> QED BY <1>2, <2>1, ContractStutters DEF Becomes
<1>5. CASE StartNotified /\ startPc' = "started"
  <2>1. startPc = "notify" /\ ~stopped /\ child # "none" /\ UNCHANGED child
    BY <1>5 DEF StartNotified, ContractInv, StopInv, StopOrder, Spawned, childVars
  <2>2. Life = "new" /\ Life' = "up" /\ Backend # "off" /\ Backend' = Backend
    BY <1>1, <1>5, <2>1, LifeKept DEF Life, Backend
  <2> QED BY <1>2, <2>2, ContractSteps DEF Becomes
<1> QED BY <1>3, <1>4, <1>5 DEF StartNext, StartSpawnFails, StartInitialized, StartNotified,
                                StartFails, childVars

LEMMA StopContract ==
  ASSUME ContractInv, NEW s \in AllStops, StopBegins(s) \/ StopStep(s)
  PROVE  Contract!Next \/ UNCHANGED Contract!vars
<1> /\ StopOrder /\ stopPc \in [AllStops -> {"idle", "close", "drain", "reap", "returned"}]
    /\ stopped \in BOOLEAN
  BY DEF ContractInv, StopInv, TypeOK, CtlTypeOK, MuTypeOK
<1>1. Outcome' = Outcome /\ Replied' = Replied
  <2>1. UNCHANGED <<answered, pc, reply>>
    BY DEF StopBegins, StopStep, StopClosesStdin, StopDrained, StopReaps, StopKills, ChildEnds,
           childVars, callVars
  <2> QED BY <2>1, LifeKept DEF Replied
<1>2. CASE StopBegins(s) /\ ~stopped
  <2>1. stopPc'[s] = "close" /\ stopped' /\ UNCHANGED child
    BY <1>2 DEF StopBegins, childVars
  <2>2. Life \in {"new", "up"} /\ Life' = "closing"
    BY <1>2, <2>1 DEF Life, Stopping
  <2> QED BY <1>1, <2>1, <2>2, LifeKept, ContractSteps DEF Becomes
<1>3. CASE StopBegins(s) /\ stopped
  <2>1. /\ stopPc[s] = "idle" /\ stopPc' = [stopPc EXCEPT ![s] = "returned"] /\ stopped'
        /\ UNCHANGED <<child, startPc>>
    BY <1>3 DEF StopBegins, childVars
  <2>2. Stopping' <=> Stopping
    BY <2>1 DEF Stopping
  <2>3. Life' = Life
    BY <1>3, <2>1, <2>2 DEF Life
  <2> QED BY <1>1, <2>1, <2>3, LifeKept, ContractStutters DEF Becomes
<1>4. CASE StopClosesStdin(s) \/ StopDrained(s)
  <2>1. /\ Active(s) /\ stopPc'[s] \in {"drain", "reap"} /\ UNCHANGED <<child, startPc, stopped>>
    BY <1>4 DEF StopClosesStdin, StopDrained, Active, childVars, muVars
  <2>2. Stopping /\ Stopping'
    BY <2>1 DEF Stopping, Active
  <2>3. Life' = Life
    BY <2>1, <2>2 DEF Life
  <2> QED BY <1>1, <2>1, <2>3, LifeKept, ContractStutters DEF Becomes
<1>5. CASE StopReaps(s)
  <2>1. /\ stopPc[s] = "reap" /\ stopPc' = [stopPc EXCEPT ![s] = "returned"]
        /\ child = "dead" /\ UNCHANGED <<child, startPc, stopped>>
    BY <1>5 DEF StopReaps, childVars, muVars
  <2>2. stopped /\ Stopping /\ ~Stopping'
    <3>1. \A t \in AllStops : Active(t) => t = s
      BY <2>1 DEF StopOrder, Active
    <3> QED BY <2>1, <3>1 DEF StopOrder, Stopping, Active
  <2>3. Life = "closing" /\ Life' = "down" /\ Backend = "gone"
    BY <2>1, <2>2 DEF Life, Backend
  <2> QED BY <1>1, <2>1, <2>3, LifeKept, ContractSteps DEF Becomes
<1>6. CASE StopKills(s)
  <2>1. /\ stopPc[s] = "reap" /\ child # "dead" /\ child' = "dead"
        /\ UNCHANGED <<stopped, startPc, stopPc>>
    BY <1>6 DEF StopKills, ChildEnds, muVars, ctlVars
  <2>2. child # "none"
    BY <2>1 DEF StopOrder, ContractInv, Spawned
  <2>3. Backend = "on" /\ Backend' = "gone"
    BY <2>1, <2>2 DEF Backend
  <2> QED BY <1>1, <2>1, <2>3, LifeKept, ContractSteps DEF Becomes
<1> QED BY <1>2, <1>3, <1>4, <1>5, <1>6 DEF StopStep

(* The Runner interface of runner.go, as RunnerContract states it, holds of *)
(* StdioRunner whatever its child does except number requests of its own: a *)
(* successful Call has an answer the backing MCP gave to that Call, no Call *)
(* begins once Stop has, and after Stop the backing MCP is gone.            *)
THEOREM ImplementsRunner ==
  ASSUME "request" \notin Behaviours
  PROVE  Spec => ImplementsContract
<1>1. Init => Contract!Init
  <2> SUFFICES ASSUME Init PROVE Contract!Init
    OBVIOUS
  <2>1. Life = "new" /\ Backend = "off" /\ Replied = {}
    BY DEF Init, ChildInit, Life, Backend, Replied
  <2>2. Outcome = [c \in ClientCalls |-> "idle"]
    BY DEF Init, Outcome, ClientCalls, Procs
  <2> QED BY <2>1, <2>2 DEF Contract!Init, Life, Backend, Outcome, Replied
<1>2. ContractInv /\ [Next]_vars => ContractInv'
  <2> SUFFICES ASSUME ContractInv, [Next]_vars PROVE ContractInv'
    OBVIOUS
  <2>1. OwnInv' /\ StopInv'
    BY OwnInvStep, StopInvStep DEF ContractInv
  <2>2. AnswersKnown' /\ Spawned'
    BY <2>1, AnswersKnownStep, SpawnedStep DEF ContractInv, StopInv
  <2> QED BY <2>1, <2>2 DEF ContractInv
<1>3. ContractInv /\ [Next]_vars => [Contract!Next]_(Contract!vars)
  <2> SUFFICES ASSUME ContractInv, [Next]_vars
               PROVE  Contract!Next \/ UNCHANGED Contract!vars
    OBVIOUS
  <2>1. CASE ChildNext /\ UNCHANGED <<muVars, callVars, readVars, ctlVars>>
    BY <2>1, ChildContract
  <2>2. CASE CallNext
    BY <2>2, CallContract DEF CallNext
  <2>3. CASE NotifyNext \/ ReadNext \/ UNCHANGED vars
    BY <2>3, OthersContract
  <2>4. CASE StartNext
    BY <2>4, StartContract
  <2>5. CASE StopNext
    BY <2>5, StopContract DEF StopNext
  <2> QED BY <2>1, <2>2, <2>3, <2>4, <2>5 DEF Next
<1> QED BY <1>1, <1>2, <1>3, InitContractInv, PTL DEF Spec, ImplementsContract, Contract!Spec
=============================================================================
