----------------------------- MODULE McpSession -----------------------------
(***************************************************************************)
(* src/internal/server/session_store.go, the handlers of /mcp that use it  *)
(* (mcp_handler.go) and the sweep that expires idle sessions (server.go).  *)
(*                                                                         *)
(* A handler is one HTTP request being served; its steps are the calls it  *)
(* makes on the store, each atomic under the store's lock, except that Get *)
(* releases the lock before it copies the session.  Nothing holds the lock *)
(* from one call to the next.  What the backing MCP does with a forwarded  *)
(* message is another module's matter: here forwarding just takes time.    *)
(* The clock stops at MaxTime.  A name X_Why is a mutant of X, used by no  *)
(* specification.                                                          *)
(***************************************************************************)
EXTENDS Integers

CONSTANTS
  Handlers, Subjects, Sessions, None,
  Kinds,       \* the requests clients make
  Idle,        \* Config.IdleTimeout, after defaulting
  MaxDelay,    \* ticks from a handler's reading of the clock to its last write
  MaxTime

AllKinds ==
  {"initialize", "initialized", "ping", "forward", "stream", "delete"}

ASSUME McpSessionAssumption ==
  /\ None \notin Handlers \cup Subjects \cup Sessions
  /\ Kinds \subseteq AllKinds
  /\ {Idle, MaxDelay, MaxTime} \subseteq Nat
  /\ Idle > 0

VARIABLES
  sessions,      \* the stored records; state "free": not minted yet,
                 \* "live": in the map, "gone": deleted or expired
  pc, request,   \* each handler: where it is, the request it serves
  stamp,         \* each handler: its reading of the clock
  now,
  tick,          \* the tick waiting in the sweeper's channel, or None
  used           \* history: when the session last served a request

handlerVars == <<pc, request, stamp>>
clockVars   == <<now, tick>>
vars        == <<sessions, handlerVars, clockVars, used>>

NoRequest == [who |-> None, kind |-> "ping", session |-> None]

Init ==
  /\ sessions = [s \in Sessions |->
       [state |-> "free", subject |-> None, initialized |-> FALSE, lastSeen |-> 0]]
  /\ pc = [h \in Handlers |-> "free"]
  /\ request = [h \in Handlers |-> NoRequest]
  /\ stamp = [h \in Handlers |-> 0]
  /\ now = 0
  /\ tick = None
  /\ used = [s \in Sessions |-> 0]

Target(h) == request[h].session
Kind(h)   == request[h].kind
Live(s)   == sessions[s].state = "live"

Goto(h, place) == pc' = [pc EXCEPT ![h] = place]

(* The handler has answered; its connection may carry another request.      *)
Answer(h) ==
  /\ Goto(h, "free")
  /\ request' = [request EXCEPT ![h] = NoRequest]
  /\ stamp' = [stamp EXCEPT ![h] = 0]

-----------------------------------------------------------------------------
(* A client sends a request.  It may name any session ever minted, its own  *)
(* or not; initialize names none.                                           *)
Arrive(h, u, k) ==
  /\ pc[h] = "free"
  /\ k \in Kinds \ {"initialize"}
  /\ \E s \in Sessions :
       /\ sessions[s].state # "free"
       /\ request' = [request EXCEPT ![h] = [who |-> u, kind |-> k, session |-> s]]
  /\ Goto(h, "lookup")
  /\ UNCHANGED <<sessions, stamp, clockVars, used>>

(* 128 random bits: an id nobody ever had.                                  *)
NewSessionID(s) == sessions[s].state = "free" /\ \A g \in Handlers : Target(g) # s

(* handleInitialize up to its reading of the clock.                         *)
Mint(h, u) ==
  /\ pc[h] = "free"
  /\ "initialize" \in Kinds
  /\ \E s \in Sessions :
       /\ NewSessionID(s)
       /\ request' = [request EXCEPT
                        ![h] = [who |-> u, kind |-> "initialize", session |-> s]]
  /\ stamp' = [stamp EXCEPT ![h] = now]
  /\ Goto(h, "creating")
  /\ UNCHANGED <<sessions, clockVars, used>>

Create(h) ==
  /\ pc[h] = "creating"
  /\ sessions' = [sessions EXCEPT ![Target(h)] =
       [state |-> "live", subject |-> request[h].who,
        initialized |-> FALSE, lastSeen |-> stamp[h]]]
  /\ used' = [used EXCEPT ![Target(h)] = now]
  /\ Answer(h)
  /\ UNCHANGED clockVars

-----------------------------------------------------------------------------
(* Get takes the record from the map and lets go of the lock ...            *)
Found(h) ==
  /\ pc[h] = "lookup"
  /\ Live(Target(h))
  /\ Goto(h, "copying")
  /\ UNCHANGED <<sessions, request, stamp, clockVars, used>>

NotFound(h) ==
  /\ pc[h] = "lookup"
  /\ ~Live(Target(h))
  /\ Answer(h)
  /\ UNCHANGED <<sessions, clockVars, used>>

(* ... then copies it.  The subject never changes, so it is copied intact   *)
(* whatever happens to the other fields meanwhile.                          *)
Owner_Anyone(h) == TRUE

Owner(h) == sessions[Target(h)].subject = request[h].who

Foreign(h) ==
  /\ pc[h] = "copying"
  /\ ~Owner(h)
  /\ Answer(h)
  /\ UNCHANGED <<sessions, clockVars, used>>

Accept(h) ==
  /\ pc[h] = "copying"
  /\ Owner(h)
  /\ Goto(h, CASE Kind(h) = "delete" -> "deleting"
               [] Kind(h) = "stream" -> "streaming"
               [] OTHER              -> "accepted")
  /\ UNCHANGED <<sessions, request, stamp, clockVars, used>>

-----------------------------------------------------------------------------
(* handleNotification and handleRequest read the clock, then Touch.         *)
ReadClock(h) ==
  /\ pc[h] = "accepted"
  /\ stamp' = [stamp EXCEPT ![h] = now]
  /\ Goto(h, "touching")
  /\ UNCHANGED <<sessions, request, clockVars, used>>

Seen_Revives(s, t, initialized) ==
  /\ sessions' = [sessions EXCEPT ![s].state = "live", ![s].lastSeen = t,
                                  ![s].initialized = initialized]
  /\ used' = [used EXCEPT ![s] = now]

Seen_Deadline(s, t, initialized) ==
  /\ sessions' = [sessions EXCEPT ![s].lastSeen = t + Idle,
                                  ![s].initialized = initialized]
  /\ used' = [used EXCEPT ![s] = now]

(* What Touch and MarkInitialized do to a session still in the map.         *)
Seen(s, t, initialized) ==
  IF Live(s)
  THEN /\ sessions' = [sessions EXCEPT ![s].lastSeen = t,
                                       ![s].initialized = initialized]
       /\ used' = [used EXCEPT ![s] = now]
  ELSE UNCHANGED <<sessions, used>>

Touch(h) ==
  /\ pc[h] = "touching"
  /\ Seen(Target(h), stamp[h], sessions[Target(h)].initialized)
  /\ CASE Kind(h) = "initialized" -> Goto(h, "marking") /\ UNCHANGED <<request, stamp>>
       [] Kind(h) = "forward"     -> /\ Goto(h, "forwarding")
                                     /\ stamp' = [stamp EXCEPT ![h] = 0]
                                     /\ UNCHANGED request
       [] OTHER                   -> Answer(h)
  /\ UNCHANGED clockVars

MarkInitialized(h) ==
  /\ pc[h] = "marking"
  /\ Seen(Target(h), stamp[h], TRUE)
  /\ Answer(h)
  /\ UNCHANGED clockVars

(* The runner answered, or the client of a stream went away.                *)
Forwarded(h) ==
  /\ pc[h] = "forwarding"
  /\ Answer(h)
  /\ UNCHANGED <<sessions, clockVars, used>>

StreamEnds(h) ==
  /\ pc[h] = "streaming"
  /\ Answer(h)
  /\ UNCHANGED <<sessions, clockVars, used>>

Delete(h) ==
  /\ pc[h] = "deleting"
  /\ sessions' = [sessions EXCEPT ![Target(h)].state = "gone"]
  /\ Answer(h)
  /\ UNCHANGED <<clockVars, used>>

-----------------------------------------------------------------------------
(* Writing is a handler between its reading of the clock and its last write *)
(* to the store; MaxDelay bounds how long that may take.                    *)
Writing(h) == pc[h] \in {"creating", "touching", "marking"}

Advance ==
  /\ now < MaxTime
  /\ \A h \in Handlers : Writing(h) => now < stamp[h] + MaxDelay
  /\ now' = now + 1
  /\ UNCHANGED <<sessions, handlerVars, tick, used>>

(* The ticker's channel holds one tick: the sweeper may see it late.        *)
TickerFires ==
  /\ tick = None
  /\ tick' = now
  /\ UNCHANGED <<sessions, handlerVars, now, used>>

Before_OrAt(s, t) == sessions[s].lastSeen <= t

Before_NotInitialized(s, t) ==
  sessions[s].initialized /\ sessions[s].lastSeen < t

Before(s, t) == sessions[s].lastSeen < t

ExpireBefore ==
  /\ tick # None
  /\ sessions' = [s \in Sessions |->
       IF Live(s) /\ Before(s, tick - Idle)
       THEN [sessions[s] EXCEPT !.state = "gone"]
       ELSE sessions[s]]
  /\ tick' = None
  /\ UNCHANGED <<handlerVars, now, used>>

HandlerStep(h) ==
  \/ Create(h) \/ Found(h) \/ NotFound(h) \/ Foreign(h) \/ Accept(h)
  \/ ReadClock(h) \/ Touch(h) \/ MarkInitialized(h) \/ Delete(h)

Next ==
  \/ \E h \in Handlers :
       \/ \E u \in Subjects : Mint(h, u) \/ \E k \in Kinds : Arrive(h, u, k)
       \/ HandlerStep(h) \/ Forwarded(h) \/ StreamEnds(h)
  \/ Advance \/ TickerFires \/ ExpireBefore

Spec == Init /\ [][Next]_vars

(* Goroutines run, the clock moves and the ticker fires.  Nothing is        *)
(* assumed of clients, nor of when the backing MCP answers.                 *)
FairSpec ==
  /\ Spec
  /\ \A h \in Handlers : WF_vars(HandlerStep(h))
  /\ WF_vars(Advance) /\ WF_vars(TickerFires) /\ WF_vars(ExpireBefore)

-----------------------------------------------------------------------------
(* Every variable holds the values its code counterpart can hold.           *)
TypeOK ==
  /\ sessions \in [Sessions -> [state : {"free", "live", "gone"},
                                subject : Subjects \cup {None},
                                initialized : BOOLEAN, lastSeen : 0..MaxTime]]
  /\ pc \in [Handlers -> {"free", "creating", "lookup", "copying", "accepted",
                          "touching", "marking", "forwarding", "streaming", "deleting"}]
  /\ request \in [Handlers -> [who : Subjects \cup {None}, kind : AllKinds,
                               session : Sessions \cup {None}]]
  /\ stamp \in [Handlers -> 0..MaxTime]
  /\ now \in 0..MaxTime
  /\ tick \in (0..MaxTime) \cup {None}
  /\ used \in [Sessions -> 0..MaxTime]

(* handleMCPPost, handleMCPGet and handleMCPDelete: once minted, a session  *)
(* is only ever changed by a request of the identity it was minted for, or  *)
(* by the sweep; no interleaving lets a stolen id reach another's session.  *)
ChangedByOwner ==
  [][\A s \in Sessions :
       sessions[s].state # "free" /\ sessions'[s] # sessions[s] =>
         \/ tick # None /\ tick' = None
         \/ \E h \in Handlers : /\ pc'[h] # pc[h]
                                /\ Target(h) = s
                                /\ request[h].who = sessions[s].subject]_vars

(* A Touch or MarkInitialized that a DELETE or the sweep overtook after its *)
(* Get does not bring the session back: 404 is final for a session id.      *)
GoneIsFinal ==
  [][\A s \in Sessions : sessions[s].state = "gone" => sessions'[s] = sessions[s]]_vars

(* runSessionGC and ExpireBefore: however late the sweeper sees its tick    *)
(* and however Touches overtake each other with clock readings out of       *)
(* order, no session is expired that served a request within Idle less the  *)
(* delay of one handler.                                                    *)
ExpiryNeedsIdleness ==
  [][\A s \in Sessions :
       tick # None /\ tick' = None /\ Live(s) /\ ~Live(s)' =>
         now - used[s] > Idle - MaxDelay]_vars

(* runSessionGC: a session nobody uses any more, even one whose client      *)
(* never finished initializing, is eventually removed.                      *)
QuietSessionExpires ==
  \A s \in Sessions :
    Live(s) /\ used[s] + Idle < MaxTime
      ~> ~Live(s) \/ used[s] + Idle >= MaxTime
=============================================================================
