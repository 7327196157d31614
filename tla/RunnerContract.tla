--------------------------- MODULE RunnerContract ---------------------------
(***************************************************************************)
(* What src/internal/server/runner.go promises of any Runner, without      *)
(* saying how: Start once, then Call freely until Stop; a successful Call  *)
(* returns an answer the backing MCP gave to that very Call; a Runner that *)
(* is being stopped begins no Call; when Stop is over the backing MCP is   *)
(* gone and never answers again.                                           *)
(***************************************************************************)
CONSTANT Calls

VARIABLES
  life,      \* "new", "up", "closing", "down"
  backend,   \* the backing MCP: "off", "on", "gone"
  call,      \* each Call: "idle", "active", "ok", "failed"
  replied    \* Calls the backing MCP has answered

vars == <<life, backend, call, replied>>

Init ==
  /\ life = "new"
  /\ backend = "off"
  /\ call = [c \in Calls |-> "idle"]
  /\ replied = {}

Launch ==
  /\ life = "new" /\ backend = "off"
  /\ backend' = "on"
  /\ UNCHANGED <<life, call, replied>>

Ready ==
  /\ life = "new" /\ backend # "off"
  /\ life' = "up"
  /\ UNCHANGED <<backend, call, replied>>

Begin(c) ==
  /\ life = "up"
  /\ call[c] = "idle"
  /\ call' = [call EXCEPT ![c] = "active"]
  /\ UNCHANGED <<life, backend, replied>>

Reply(c) ==
  /\ backend = "on"
  /\ call[c] # "idle"
  /\ replied' = replied \cup {c}
  /\ UNCHANGED <<life, backend, call>>

Succeed(c) ==
  /\ call[c] = "active"
  /\ c \in replied
  /\ call' = [call EXCEPT ![c] = "ok"]
  /\ UNCHANGED <<life, backend, replied>>

Fail(c) ==
  /\ \/ call[c] = "active"
     \/ call[c] = "idle" /\ life \in {"closing", "down"}
  /\ call' = [call EXCEPT ![c] = "failed"]
  /\ UNCHANGED <<life, backend, replied>>

Vanish ==
  /\ backend = "on"
  /\ backend' = "gone"
  /\ UNCHANGED <<life, call, replied>>

Close ==
  /\ life \in {"new", "up"}
  /\ life' = "closing"
  /\ UNCHANGED <<backend, call, replied>>

Down ==
  /\ life = "closing"
  /\ backend # "on"
  /\ life' = "down"
  /\ UNCHANGED <<backend, call, replied>>

Next ==
  \/ Launch \/ Ready \/ Vanish \/ Close \/ Down
  \/ \E c \in Calls : Begin(c) \/ Reply(c) \/ Succeed(c) \/ Fail(c)

Spec == Init /\ [][Next]_vars
=============================================================================
