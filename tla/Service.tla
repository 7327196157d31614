------------------------------ MODULE Service ------------------------------
(***************************************************************************)
(* What the comments on Run and RunnerPool (src/internal/server/server.go, *)
(* runner_pool.go) promise of a server, without saying how: it serves only *)
(* with a backend that is up ("we never accept traffic against a backend   *)
(* that's not ready"); while it runs it puts a process out of service only *)
(* when every request that uses it has done so for longer than the idle    *)
(* timeout, and stops none that is in service under a request; and it ends *)
(* with no process in service, cleanly only when every request is over     *)
(* ("stops it after HTTP has drained so in-flight requests are not         *)
(* abruptly cut off").                                                     *)
(* Two things it does not promise: a server that fails cuts requests off,  *)
(* and a process put out of service may outlive the server.                *)
(***************************************************************************)
CONSTANTS
  Requests, Procs,
  Idle, Alone      \* two values that are not in Procs

VARIABLES
  status,    \* "running", then "clean"; or "failing", then "failed"
  backing,   \* processes in service
  leaving,   \* processes out of service that still run
  uses,      \* each request: Idle, or the process it uses, or Alone if none
  late       \* requests that have used theirs for longer than the idle timeout

vars == <<status, backing, leaving, uses, late>>

Init ==
  /\ status = "running"
  /\ backing = {} /\ leaving = {}
  /\ uses = [r \in Requests |-> Idle]
  /\ late = {}

Live == status \in {"running", "failing"}

(* The process that is there before the first request.                      *)
Launch(p) ==
  /\ Live /\ p \notin backing \cup leaving
  /\ \A r \in Requests : uses[r] = Idle
  /\ backing' = backing \cup {p}
  /\ UNCHANGED <<status, leaving, uses, late>>

Begin(r) ==
  /\ Live /\ uses[r] = Idle
  /\ uses' = [uses EXCEPT ![r] = Alone]
  /\ UNCHANGED <<status, backing, leaving, late>>

(* A request gets a process that is in service, or one that enters it.      *)
Connect(r, p) ==
  /\ Live /\ uses[r] = Alone
  /\ p \notin leaving
  /\ uses' = [uses EXCEPT ![r] = p]
  /\ \/ backing' = backing \cup {p}
     \/ status = "failing" /\ UNCHANGED backing
  /\ UNCHANGED <<status, leaving, late>>

GetsLate(rs) ==
  /\ \A r \in rs : uses[r] # Idle
  /\ late' = late \cup rs
  /\ UNCHANGED <<status, backing, leaving, uses>>

(* Processes are put out of service, several at once.                       *)
Retire(ps) ==
  /\ Live /\ ps \subseteq backing
  /\ status = "running" => \A r \in Requests : uses[r] \in ps => r \in late
  /\ backing' = backing \ ps
  /\ leaving' = leaving \cup ps
  /\ UNCHANGED <<status, uses, late>>

(* A process that could not be started goes, and with it the requests that  *)
(* waited for it.                                                           *)
Withdraw(p) ==
  LET rs == {r \in Requests : uses[r] = p} IN
  /\ Live /\ p \in backing \cup leaving
  /\ backing' = backing \ {p} /\ leaving' = leaving \ {p}
  /\ uses' = [r \in Requests |-> IF r \in rs THEN Idle ELSE uses[r]]
  /\ late' = late \ rs
  /\ UNCHANGED status

(* A process has been stopped.                                              *)
Stop(p) ==
  /\ Live /\ p \in backing \cup leaving
  /\ status = "running" /\ p \in backing => \A r \in Requests : uses[r] # p
  /\ backing' = backing \ {p} /\ leaving' = leaving \ {p}
  /\ UNCHANGED <<status, uses, late>>

End(r) ==
  /\ Live
  /\ uses' = [uses EXCEPT ![r] = Idle]
  /\ late' = late \ {r}
  /\ UNCHANGED <<status, backing, leaving>>

Fail ==
  /\ status = "running"
  /\ status' = "failing"
  /\ UNCHANGED <<backing, leaving, uses, late>>

(* The server has ended, with an error or with a clean stop.                *)
Finish ==
  /\ Live /\ backing = {}
  /\ \/ status' = "failed"
     \/ status' = "clean" /\ status = "running" /\ \A r \in Requests : uses[r] = Idle
  /\ UNCHANGED <<backing, leaving, uses, late>>

Next ==
  \/ \E p \in Procs : Launch(p) \/ Withdraw(p) \/ Stop(p)
  \/ \E r \in Requests : Begin(r) \/ End(r) \/ \E p \in Procs : Connect(r, p)
  \/ \E rs \in SUBSET Requests : GetsLate(rs)
  \/ \E ps \in SUBSET Procs : Retire(ps)
  \/ Fail
  \/ Finish

Spec == Init /\ [][Next]_vars
=============================================================================
