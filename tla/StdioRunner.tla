---------------------------- MODULE StdioRunner ----------------------------
(***************************************************************************)
(* src/internal/server/stdio_runner.go: one backing MCP process and the    *)
(* goroutines that share it.                                               *)
(*                                                                         *)
(*   Start    one goroutine: spawn, the initialize Call (InitCall), the    *)
(*            initialized Notify (InitNote), Stop when one of them fails   *)
(*   Call     one goroutine per member of Calls: register the id under mu, *)
(*            write the request, wait for an answer or ctx, deregister     *)
(*   Notify   one goroutine per member of Notes: check stopped, write      *)
(*   readLoop one goroutine: take a line, look its id up under mu, send it *)
(*            to the waiting Call; drain all pending Calls at end of file  *)
(*   Stop     Start's own (Starter) and one goroutine per member of        *)
(*            Stoppers: set stopped, close stdin, await readLoop, reap     *)
(*                                                                         *)
(* A step is what one goroutine does between two points where it can block *)
(* or hand over a lock.  writeLine is one step: writeMu only decides which *)
(* of several blocked writers goes first, and any of them may here.        *)
(*                                                                         *)
(* A definition named X_Why is a mutant of X: the code with one plausible  *)
(* mistake.  No specification uses it; replacing X by it shows which       *)
(* property notices.                                                       *)
(***************************************************************************)
EXTENDS BackingMCP, FiniteSets

CONSTANTS
  InitCall,    \* the initialize Call made by Start
  Notes,       \* invocations of Notify, Start's own included
  InitNote,    \* the notifications/initialized made by Start
  Stoppers,    \* invocations of Stop by the owner of the runner
  Starter      \* the Stop that Start itself makes when it fails

ASSUME StdioRunnerAssumption ==
  /\ InitCall \in Calls
  /\ InitNote \in Notes
  /\ Calls \cap Notes = {}
  /\ Starter \notin Stoppers

VARIABLES
  stopped, nextID, pending,  \* the fields mu guards; pending: id -> Call
  chan,      \* each Call's channel of capacity one (NoLine when empty)
  id,        \* the id each Call registered under (0 before)
  pc,        \* where each Call and Notify is
  reply,     \* what each Call and Notify returns, and why
  ctxDone,   \* Calls whose context is cancelled
  readPc,    \* where readLoop is; "done" is the closed readDone channel
  held,      \* the line readLoop looked up and has yet to send ...
  heldFor,   \* ... and the Call whose channel it found
  startPc,   \* where Start is
  stopPc     \* where each Stop is

Procs    == Calls \cup Notes
AllStops == Stoppers \cup {Starter}

muVars   == <<stopped, nextID, pending>>
callVars == <<chan, id, pc, reply, ctxDone>>
readVars == <<readPc, held, heldFor>>
ctlVars  == <<startPc, stopPc>>
vars     == <<childVars, muVars, callVars, readVars, ctlVars>>

Init ==
  /\ ChildInit
  /\ stopped = FALSE /\ nextID = 0 /\ pending = <<>>
  /\ chan = [c \in Calls |-> NoLine]
  /\ id = [c \in Calls |-> 0]
  /\ pc = [p \in Procs |-> "idle"]
  /\ reply = [p \in Procs |-> NoLine]
  /\ ctxDone = {}
  /\ readPc = "none" /\ held = NoLine /\ heldFor = NoCall
  /\ startPc = "idle"
  /\ stopPc = [s \in AllStops |-> "idle"]
-----------------------------------------------------------------------------
(* Call and Notify.                                                         *)

(* Runner's lifecycle: Start, "then Call/Notify freely until Stop".         *)
MayBegin(p) ==
  startPc = CASE p = InitCall -> "call"
              [] p = InitNote -> "notify"
              [] OTHER        -> "started"

Return(p, line) ==
  /\ reply' = [reply EXCEPT ![p] = line]
  /\ pc' = [pc EXCEPT ![p] = IF p \in Calls /\ id[p] # 0 THEN "leave" ELSE "returned"]

Refuse(p) ==
  /\ pc[p] = "idle"
  /\ MayBegin(p)
  /\ stopped
  /\ Return(p, Local("stopped"))
  /\ UNCHANGED <<childVars, muVars, chan, id, ctxDone, readVars, ctlVars>>

Insert(m, i, c) == [j \in DOMAIN m \cup {i} |-> IF j = i THEN c ELSE m[j]]
Delete(m, i)    == [j \in DOMAIN m \ {i} |-> m[j]]

Fresh_Reused(n) == Cardinality(DOMAIN pending) + 1
Fresh_Stuck(n)  == n
Fresh(n) == n + 1

CallBegin_Unchecked(c) ==
  /\ pc[c] = "idle"
  /\ MayBegin(c)
  /\ nextID' = Fresh(nextID)
  /\ pending' = Insert(pending, nextID', c)
  /\ id' = [id EXCEPT ![c] = nextID']
  /\ pc' = [pc EXCEPT ![c] = "write"]
  /\ UNCHANGED <<childVars, stopped, chan, reply, ctxDone, readVars, ctlVars>>

CallBegin(c) ==
  /\ pc[c] = "idle"
  /\ MayBegin(c)
  /\ ~stopped
  /\ nextID' = Fresh(nextID)
  /\ pending' = Insert(pending, nextID', c)
  /\ id' = [id EXCEPT ![c] = nextID']
  /\ pc' = [pc EXCEPT ![c] = "write"]
  /\ UNCHANGED <<childVars, stopped, chan, reply, ctxDone, readVars, ctlVars>>

NotifyBegin(n) ==
  /\ pc[n] = "idle"
  /\ MayBegin(n)
  /\ ~stopped
  /\ pc' = [pc EXCEPT ![n] = "write"]
  /\ UNCHANGED <<childVars, muVars, chan, id, reply, ctxDone, readVars, ctlVars>>

(* Writing fails once our end is closed or the child's end is gone, and     *)
(* otherwise blocks while the pipe is full.                                 *)
Broken == stdin = "closed" \/ child = "dead"

WriteFails(p) ==
  /\ pc[p] = "write"
  /\ Broken
  /\ Return(p, Local("write"))
  /\ UNCHANGED <<childVars, muVars, chan, id, ctxDone, readVars, ctlVars>>

CallWrites(c) ==
  /\ pc[c] = "write"
  /\ ~Broken
  /\ Len(toChild) < PipeCap
  /\ toChild' = Append(toChild, [id |-> id[c], of |-> c])
  /\ pc' = [pc EXCEPT ![c] = "wait"]
  /\ UNCHANGED <<child, stdin, fromChild, owed, answered, muVars,
                 chan, id, reply, ctxDone, readVars, ctlVars>>

NotifyWrites(n) ==
  /\ pc[n] = "write"
  /\ ~Broken
  /\ Len(toChild) < PipeCap
  /\ toChild' = Append(toChild, [id |-> 0, of |-> NoCall])
  /\ Return(n, Local("sent"))
  /\ UNCHANGED <<child, stdin, fromChild, owed, answered, muVars,
                 chan, id, ctxDone, readVars, ctlVars>>

CallReceives(c) ==
  /\ pc[c] = "wait"
  /\ chan[c] # NoLine
  /\ chan' = [chan EXCEPT ![c] = NoLine]
  /\ Return(c, chan[c])
  /\ UNCHANGED <<childVars, muVars, id, ctxDone, readVars, ctlVars>>

CallGivesUp_Never(c) == FALSE

CallGivesUp(c) ==
  /\ pc[c] = "wait"
  /\ c \in ctxDone
  /\ Return(c, Local("ctx"))
  /\ UNCHANGED <<childVars, muVars, chan, id, ctxDone, readVars, ctlVars>>

(* The deferred delete(r.pending, id).                                      *)
CallLeaves(c) ==
  /\ pc[c] = "leave"
  /\ pending' = Delete(pending, id[c])
  /\ pc' = [pc EXCEPT ![c] = "returned"]
  /\ UNCHANGED <<childVars, stopped, nextID, chan, id, reply, ctxDone, readVars, ctlVars>>

(* The client of a Call goes away (its request context is cancelled).       *)
CtxExpires(c) ==
  /\ pc[c] \in {"write", "wait"}
  /\ c \notin ctxDone
  /\ ctxDone' = ctxDone \cup {c}
  /\ UNCHANGED <<childVars, muVars, chan, id, pc, reply, readVars, ctlVars>>
-----------------------------------------------------------------------------
(* readLoop.                                                                *)

Demux_Oldest(line) ==
  IF DOMAIN pending = {} THEN NoCall
  ELSE pending[CHOOSE i \in DOMAIN pending : \A j \in DOMAIN pending : i <= j]
(* Only the id of a line decides where it goes.                             *)
Demux(line) == IF line.id \in DOMAIN pending THEN pending[line.id] ELSE NoCall

ReadLine ==
  /\ readPc = "scan"
  /\ fromChild # <<>>
  /\ Head(fromChild).kind # "longline"
  /\ fromChild' = Tail(fromChild)
  /\ LET to == Demux(Head(fromChild)) IN
       IF to = NoCall
         THEN UNCHANGED readVars
         ELSE readPc' = "deliver" /\ held' = Head(fromChild) /\ heldFor' = to
  /\ UNCHANGED <<child, stdin, toChild, owed, answered, muVars, callVars, ctlVars>>

ReadDeliver ==
  /\ readPc = "deliver"
  /\ chan[heldFor] = NoLine
  /\ chan' = [chan EXCEPT ![heldFor] = held]
  /\ readPc' = "scan" /\ held' = NoLine /\ heldFor' = NoCall
  /\ UNCHANGED <<childVars, muVars, id, pc, reply, ctxDone, ctlVars>>

EndOfInput ==
  IF fromChild = <<>> THEN child \in {"mute", "dead"}
                      ELSE Head(fromChild).kind = "longline"

Drained_None == {}
Drained == {pending[i] : i \in DOMAIN pending}

(* The scanner stops; every pending Call without an answer gets a synthetic *)
(* error, then the deferred close(readDone).                                *)
ReadEnds ==
  /\ readPc = "scan"
  /\ EndOfInput
  /\ chan' = [c \in Calls |-> IF c \in Drained /\ chan[c] = NoLine
                                THEN Local("closed") ELSE chan[c]]
  /\ readPc' = "done"
  /\ UNCHANGED <<childVars, muVars, id, pc, reply, ctxDone, held, heldFor, ctlVars>>
-----------------------------------------------------------------------------
(* Start.                                                                   *)

StartSpawns ==
  /\ startPc = "idle"
  /\ startPc' = "call"
  /\ child' = "running" /\ stdin' = "open"
  /\ readPc' = "scan"
  /\ UNCHANGED <<toChild, fromChild, owed, answered, muVars, callVars, held, heldFor, stopPc>>

(* cmd.Start fails: Start returns without a child and without readLoop.     *)
StartSpawnFails ==
  /\ startPc = "idle"
  /\ "nospawn" \in Behaviours
  /\ startPc' = "failed"
  /\ UNCHANGED <<childVars, muVars, callVars, readVars, stopPc>>

StartInitialized_NoStop ==
  /\ startPc = "call"
  /\ pc[InitCall] = "returned"
  /\ startPc' = IF reply[InitCall].kind = "result" THEN "notify" ELSE "failed"
  /\ UNCHANGED <<childVars, muVars, callVars, readVars, stopPc>>

StartInitialized ==
  /\ startPc = "call"
  /\ pc[InitCall] = "returned"
  /\ startPc' = IF reply[InitCall].kind = "result" THEN "notify" ELSE "stop"
  /\ UNCHANGED <<childVars, muVars, callVars, readVars, stopPc>>

StartNotified ==
  /\ startPc = "notify"
  /\ pc[InitNote] = "returned"
  /\ startPc' = IF reply[InitNote].kind = "sent" THEN "started" ELSE "stop"
  /\ UNCHANGED <<childVars, muVars, callVars, readVars, stopPc>>

StartFails ==
  /\ startPc = "stop"
  /\ stopPc[Starter] = "returned"
  /\ startPc' = "failed"
  /\ UNCHANGED <<childVars, muVars, callVars, readVars, stopPc>>

StartNext == StartSpawns \/ StartSpawnFails \/ StartInitialized \/ StartNotified \/ StartFails
-----------------------------------------------------------------------------
(* Stop.                                                                    *)

(* The pool stops a runner only when its Start has returned.                *)
MayStop(s) == IF s = Starter THEN startPc = "stop" ELSE startPc \in {"started", "failed"}

StopBegins(s) ==
  /\ stopPc[s] = "idle"
  /\ MayStop(s)
  /\ stopPc' = [stopPc EXCEPT ![s] = IF stopped THEN "returned" ELSE "close"]
  /\ stopped' = TRUE
  /\ UNCHANGED <<childVars, nextID, pending, callVars, readVars, startPc>>

StopClosesStdin(s) ==
  /\ stopPc[s] = "close"
  /\ stdin' = "closed"
  /\ stopPc' = [stopPc EXCEPT ![s] = "drain"]
  /\ UNCHANGED <<child, toChild, fromChild, owed, answered, muVars, callVars, readVars, startPc>>

StopDrained_NoWait(s) ==
  /\ stopPc[s] = "drain"
  /\ stopPc' = [stopPc EXCEPT ![s] = "reap"]
  /\ UNCHANGED <<childVars, muVars, callVars, readVars, startPc>>

StopDrained(s) ==
  /\ stopPc[s] = "drain"
  /\ readPc = "done"
  /\ stopPc' = [stopPc EXCEPT ![s] = "reap"]
  /\ UNCHANGED <<childVars, muVars, callVars, readVars, startPc>>

StopReaps_Early(s) ==
  /\ stopPc[s] = "reap"
  /\ stopPc' = [stopPc EXCEPT ![s] = "returned"]
  /\ UNCHANGED <<childVars, muVars, callVars, readVars, startPc>>

StopReaps(s) ==
  /\ stopPc[s] = "reap"
  /\ child = "dead"
  /\ stopPc' = [stopPc EXCEPT ![s] = "returned"]
  /\ UNCHANGED <<childVars, muVars, callVars, readVars, startPc>>

StopKills_Never(s) == FALSE

(* stdioStopGrace is over: SIGKILL.                                         *)
StopKills(s) ==
  /\ stopPc[s] = "reap"
  /\ child # "dead"
  /\ ChildEnds
  /\ UNCHANGED <<muVars, callVars, readVars, ctlVars>>
-----------------------------------------------------------------------------
CallStep(c)   == \/ WriteFails(c) \/ CallWrites(c) \/ CallReceives(c)
                 \/ CallGivesUp(c) \/ CallLeaves(c)
NotifyStep(n) == WriteFails(n) \/ NotifyWrites(n)
StopStep(s)   == StopClosesStdin(s) \/ StopDrained(s) \/ StopReaps(s) \/ StopKills(s)
ReadNext      == ReadLine \/ ReadDeliver \/ ReadEnds

CallNext   == \E c \in Calls : Refuse(c) \/ CallBegin(c) \/ CallStep(c) \/ CtxExpires(c)
NotifyNext == \E n \in Notes : Refuse(n) \/ NotifyBegin(n) \/ NotifyStep(n)
StopNext   == \E s \in AllStops : StopBegins(s) \/ StopStep(s)

(* Everything has returned and the child is gone or beyond our reach.       *)
Quiescent ==
  /\ startPc \in {"started", "failed"}
  /\ \A p \in Procs : MayBegin(p) => pc[p] = "returned"
  /\ \A s \in Stoppers : stopPc[s] = "returned"

Next ==
  \/ ChildNext /\ UNCHANGED <<muVars, callVars, readVars, ctlVars>>
  \/ CallNext
  \/ NotifyNext
  \/ ReadNext
  \/ StartNext
  \/ StopNext
  \/ Quiescent /\ UNCHANGED vars

(* Goroutines that can run do run; a client never has to call, to cancel or *)
(* to stop.  The child keeps reading and answering and, unless it has       *)
(* closed its stdout, exits on end of file; nothing makes it misbehave.     *)
Fairness ==
  /\ WF_vars(ChildRead /\ UNCHANGED <<muVars, callVars, readVars, ctlVars>>)
  /\ WF_vars(ChildAnswer /\ UNCHANGED <<muVars, callVars, readVars, ctlVars>>)
  /\ WF_vars(child = "running" /\ ChildExit /\ UNCHANGED <<muVars, callVars, readVars, ctlVars>>)
  /\ WF_vars(ReadNext)
  /\ WF_vars(StartNext \/ CallBegin(InitCall) \/ NotifyBegin(InitNote) \/ StopBegins(Starter))
  /\ \A c \in Calls : WF_vars(CallStep(c))
  /\ \A n \in Notes : WF_vars(NotifyStep(n))
  /\ \A s \in AllStops : WF_vars(StopStep(s))

Spec     == Init /\ [][Next]_vars
FairSpec == Spec /\ Fairness
-----------------------------------------------------------------------------
MuTypeOK ==
  /\ stopped \in BOOLEAN
  /\ nextID \in Nat
  /\ DOMAIN pending \subseteq 1..nextID
  /\ pending \in [DOMAIN pending -> Calls]

CallTypeOK ==
  /\ chan \in [Calls -> Line]
  /\ id \in [Calls -> Nat]
  /\ pc \in [Procs -> {"idle", "write", "wait", "leave", "returned"}]
  /\ reply \in [Procs -> Line]
  /\ ctxDone \subseteq Calls

ReadTypeOK ==
  /\ readPc \in {"none", "scan", "deliver", "done"}
  /\ held \in Line
  /\ heldFor \in Calls \cup {NoCall}
  /\ readPc = "deliver" => heldFor \in Calls

CtlTypeOK ==
  /\ startPc \in {"idle", "call", "notify", "started", "stop", "failed"}
  /\ stopPc \in [AllStops -> {"idle", "close", "drain", "reap", "returned"}]

(* The variables hold values of their types; every id on the pending map    *)
(* was handed out by nextID, and readLoop sends only on a Call's channel.   *)
TypeOK == ChildTypeOK /\ MuTypeOK /\ CallTypeOK /\ ReadTypeOK /\ CtlTypeOK

(* "a caller never sees another caller's response" (runner.go): a line of   *)
(* the child that a Call returns is the answer to that Call's own request,  *)
(* whatever the order of the answers and whichever Calls were abandoned.    *)
OwnResponse == \A c \in Calls : reply[c].kind \in WireKinds => reply[c].of = c

(* readLoop never finds the channel it is about to send on full, so one     *)
(* Call that gave up cannot stop the demultiplexing for all the others.     *)
ReaderNotWedged == readPc = "deliver" => chan[heldFor] = NoLine

(* A Call that waits after readLoop has ended has its message: the drain    *)
(* leaves no pending caller blocked on "a response that will never come".   *)
NoCallStranded ==
  \A c \in Calls : pc[c] = "wait" /\ readPc = "done" => chan[c] # NoLine

(* Once a Stop has returned and none is under way, the child has exited,    *)
(* its stdin is closed and readLoop has finished.                           *)
Stopping    == \E s \in AllStops : stopPc[s] \in {"close", "drain", "reap"}
StopComplete ==
  stopped /\ ~Stopping => child = "dead" /\ readPc = "done" /\ stdin = "closed"

(* A Start that fails leaves no child process behind, at whichever step of  *)
(* the handshake it fails.                                                  *)
FailedStartIsClean == startPc = "failed" => child \in {"none", "dead"}

(* Stop always returns (stdio_runner.go: "After the grace period we         *)
(* SIGKILL").                                                               *)
StopTerminates ==
  \A s \in AllStops : stopPc[s] # "idle" ~> stopPc[s] = "returned"

(* What the grace period does not bound is Stop's wait for readLoop: that   *)
(* there was one (the spawn did not fail), that the child does not keep its *)
(* stdout open for ever, and that readLoop is not blocked for ever on the   *)
(* full channel of a Call that was answered twice and left.                 *)
NeverHung  == [](child # "hung")
ReaderEnds ==
  /\ NeverHung
  /\ [](startPc = "failed" => child # "none")
  /\ []<>ReaderNotWedged

(* Then every Stop returns, two at a time included, whatever stage the      *)
(* calls and readLoop are at, and it kills a child that will not exit.      *)
StopReturns == ReaderEnds => StopTerminates

(* The child neither closes its stdout while it lives on nor keeps it open  *)
(* unread, writes no line too long for readLoop, and answers once: what a   *)
(* Call needs to be answered without its context.                           *)
ChildBehaves ==
  /\ [](child \notin {"mute", "hung"})
  /\ [](\A i \in DOMAIN fromChild : fromChild[i].kind # "longline")
  /\ [](\A r \in owed : r.of \notin answered)

(* Every Call and Notify that was begun, and Start with its handshake,      *)
(* returns, though the child may die and Stop may come at any point of it.  *)
CallReturns ==
  ChildBehaves =>
    /\ \A p \in Procs : pc[p] # "idle" ~> pc[p] = "returned"
    /\ startPc # "idle" ~> startPc \in {"started", "failed"}

(* Call returns when its context is cancelled while it waits for the        *)
(* answer, whatever the child does.  While it still writes the request it   *)
(* does not look at its context (the pipe write has no deadline), and       *)
(* returns unless the child has stopped reading for good.                   *)
CancelledCallReturns ==
  /\ \A c \in Calls : c \in ctxDone /\ pc[c] = "wait" ~> pc[c] = "returned"
  /\ NeverHung => \A c \in Calls : c \in ctxDone ~> pc[c] = "returned"

(* The runner implements the interface of runner.go.  The initialize Call   *)
(* is Start's own business and not a Call of the contract.                  *)
ClientCalls == Calls \ {InitCall}
Contract == INSTANCE RunnerContract WITH
  Calls   <- ClientCalls,
  life    <- CASE stopped /\ Stopping  -> "closing"
               [] stopped /\ ~Stopping -> "down"
               [] ~stopped -> IF startPc = "started" THEN "up" ELSE "new",
  backend <- CASE child = "none" -> "off"
               [] child = "dead" -> "gone"
               [] OTHER -> "on",
  call    <- [c \in ClientCalls |->
               CASE pc[c] = "idle" -> "idle"
                 [] pc[c] = "returned" -> IF reply[c].kind \in WireKinds THEN "ok" ELSE "failed"
                 [] OTHER -> "active"],
  replied <- answered \ {InitCall}
ImplementsContract == Contract!Spec
=============================================================================
