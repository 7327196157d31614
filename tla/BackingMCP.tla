----------------------------- MODULE BackingMCP -----------------------------
(***************************************************************************)
(* The backing MCP server: the child process at the far end of the stdio   *)
(* pipes of a StdioRunner.  It is not code of the repository (the operator *)
(* configures it), so it is modelled by what src/internal/server/          *)
(* stdio_runner.go may meet: a process that reads requests from its stdin, *)
(* answers them in any order on its stdout and exits when its stdin is     *)
(* closed.  The constant Behaviours names the other things it may do, so   *)
(* that each configuration says which child its result is about:           *)
(*   "refuse"    answers with a JSON-RPC error                             *)
(*   "crash"     exits at any moment                                       *)
(*   "chatter"   sends notifications, invalid JSON or non-integer ids      *)
(*   "request"   sends requests of its own, numbered from ServerIDs        *)
(*   "duplicate" answers one request more than once                        *)
(*   "longline"  sends a line longer than stdioMaxLine                     *)
(*   "mute"      closes its stdout and lives on                            *)
(*   "hang"      stops reading, writing and noticing that stdin is closed  *)
(*   "nospawn"   cannot be started at all (the command does not exist)     *)
(***************************************************************************)
EXTENDS Naturals, Sequences

CONSTANTS
  Calls,       \* invocations of StdioRunner.Call, Start's own included
  NoCall,      \* the author of a line that answers no call
  PipeCap,     \* lines an operating-system pipe holds before writers block
  ServerIDs,   \* ids the child numbers its own requests with
  Behaviours

ASSUME BackingMCPAssumption ==
  /\ NoCall \notin Calls
  /\ PipeCap \in Nat \ {0}
  /\ ServerIDs \subseteq Nat
  /\ Behaviours \subseteq {"refuse", "crash", "chatter", "request", "duplicate",
                           "longline", "mute", "hang", "nospawn"}

VARIABLES
  child,       \* the process
  stdin,       \* our end of its stdin: "open" or "closed"
  toChild,     \* its stdin pipe
  fromChild,   \* its stdout pipe
  owed,        \* requests it has read and may still answer
  answered     \* calls it has answered (history)

childVars == <<child, stdin, toChild, fromChild, owed, answered>>

(* One line on the wire.  "of" is its payload: the call whose request it    *)
(* carries or answers.  The local kinds are made by the runner itself.      *)
WireKinds  == {"result", "error", "request", "chatter", "longline"}
LocalKinds == {"none", "closed", "write", "ctx", "stopped", "sent"}
Request    == [id : Nat, of : Calls \cup {NoCall}]
Line       == [kind : WireKinds \cup LocalKinds, id : Nat, of : Calls \cup {NoCall}]

LineOf(k, i, c) == [kind |-> k, id |-> i, of |-> c]
Local(k)        == LineOf(k, 0, NoCall)
NoLine          == Local("none")

(* What the child may write next when it is not answering.                  *)
Unsolicited ==
  {LineOf(k, 0, NoCall) : k \in Behaviours \cap {"chatter", "longline"}}
    \cup IF "request" \in Behaviours
           THEN {LineOf("request", i, NoCall) : i \in ServerIDs} ELSE {}

AnswerKinds == {"result"} \cup IF "refuse" \in Behaviours THEN {"error"} ELSE {}

ChildInit ==
  /\ child = "none"
  /\ stdin = "closed"
  /\ toChild = <<>>
  /\ fromChild = <<>>
  /\ owed = {}
  /\ answered = {}

(* A notification carries no id and is owed no answer.                      *)
ChildRead ==
  /\ child \in {"running", "mute"}
  /\ toChild # <<>>
  /\ toChild' = Tail(toChild)
  /\ owed' = IF Head(toChild).of = NoCall THEN owed ELSE owed \cup {Head(toChild)}
  /\ UNCHANGED <<child, stdin, fromChild, answered>>

ChildAnswer ==
  /\ child = "running"
  /\ Len(fromChild) < PipeCap
  /\ \E r \in owed, k \in AnswerKinds :
       /\ fromChild' = Append(fromChild, LineOf(k, r.id, r.of))
       /\ answered' = answered \cup {r.of}
       /\ \/ owed' = owed \ {r}
          \/ "duplicate" \in Behaviours /\ owed' = owed
  /\ UNCHANGED <<child, stdin, toChild>>

ChildSpeak ==
  /\ child = "running"
  /\ Len(fromChild) < PipeCap
  /\ \E l \in Unsolicited : fromChild' = Append(fromChild, l)
  /\ UNCHANGED <<child, stdin, toChild, owed, answered>>

(* The process ends: its stdin has no reader any more, what it wrote to     *)
(* stdout before can still be read.                                         *)
ChildEnds ==
  /\ child' = "dead"
  /\ toChild' = <<>>
  /\ owed' = {}
  /\ UNCHANGED <<stdin, fromChild, answered>>

ChildExit ==
  /\ child \in {"running", "mute"}
  /\ stdin = "closed"
  /\ toChild = <<>>
  /\ ChildEnds

ChildCrash ==
  /\ "crash" \in Behaviours
  /\ child \in {"running", "mute"}
  /\ ChildEnds

ChildMute ==
  /\ "mute" \in Behaviours
  /\ child = "running"
  /\ child' = "mute"
  /\ UNCHANGED <<stdin, toChild, fromChild, owed, answered>>

ChildHang ==
  /\ "hang" \in Behaviours
  /\ child = "running"
  /\ child' = "hung"
  /\ UNCHANGED <<stdin, toChild, fromChild, owed, answered>>

ChildNext ==
  \/ ChildRead
  \/ ChildAnswer
  \/ ChildSpeak
  \/ ChildExit
  \/ ChildCrash
  \/ ChildMute
  \/ ChildHang

ChildTypeOK ==
  /\ child \in {"none", "running", "mute", "hung", "dead"}
  /\ stdin \in {"open", "closed"}
  /\ toChild \in Seq(Request)
  /\ fromChild \in Seq(Line)
  /\ owed \subseteq [id : Nat, of : Calls]
  /\ answered \subseteq Calls
=============================================================================
