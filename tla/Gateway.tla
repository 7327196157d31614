------------------------------ MODULE Gateway ------------------------------
(***************************************************************************)
(* A request on its way through the whole server: the middleware chain     *)
(* (src/internal/server/server.go routes, middleware.go, auth.go), the     *)
(* POST handler and its forwarders (mcp_handler.go), the runner of the     *)
(* identity's partition (runner_pool.go) and the ids under which Call and  *)
(* readLoop (stdio_runner.go) talk to its child, and back to the client.   *)
(*                                                                         *)
(* What the modules of the single components show is one step here: a look *)
(* at a bucket or a session, a lookup with its start, a Call up to its     *)
(* write.  A child is what is left of it when it keeps its stdout open as  *)
(* long as it lives: it answers what it was asked, in any order or never,  *)
(* obeys cancellations, and may die.  Time is left out: a partition may be *)
(* evicted whenever it is in the pool, whoever uses its runner.  Buckets   *)
(* start full, after a pause in which sessions may have been minted; no    *)
(* refill comes later.  The expiry of a session, which does here what a    *)
(* DELETE does, is left out.                                               *)
(* A name X_Why is a mutant of X, used by no specification.                *)
(***************************************************************************)
EXTENDS Integers, Sequences, FiniteSets

CONSTANTS
  Handlers,                \* goroutines of net/http, each with one request
  Requests,                \* what clients may send, see Request
  Sessions, None,
  Minted,                  \* the sessions there may be at the start, see owner
  AllowedOrigins, SupportedProtocolVersions, FallbackVersion,
  Absent,                  \* a header, or a name, that is not there
  APIKeys,                 \* a sequence of [hash, audience, subject, scopes]
  Audience, NoAudience,
  NoSubject,               \* the empty Subject
  Grants,                  \* per scope, the names its bundle allows
  Burst,                   \* tokens in a full bucket
  Modes,                   \* the backends a server may run with
  SharedKey,
  Insts,                   \* runners that may be built
  MaxWire                  \* bound on the ids of one runner

Subjects == {APIKeys[i].subject : i \in 1..Len(APIKeys)}
Keys     == Subjects \cup {SharedKey}

(* "call": the methods forwardWithNameGate is for.  "other": every other    *)
(* request that is forwarded, by forwardGeneric or, before its result is    *)
(* filtered, by forwardAndFilterList.  "notify": every notification that is *)
(* forwarded and cancels nothing, whatever its method and params.           *)
Calls         == {"call", "other"}
Notifications == {"cancel", "notify"}
Methods       == {"initialize", "delete", "ping"} \cup Calls \cup Notifications

ASSUME GatewayAssumption ==
  /\ {None, NoSubject} \cap (Handlers \cup Sessions) = {}
  /\ None \notin Insts /\ Insts # {}
  /\ SharedKey \notin Subjects /\ None \notin Keys
  /\ Minted \subseteq [Sessions -> Subjects \cup {None}]
  /\ \A q \in Requests : q.method \in Methods
  /\ Modes \subseteq {"none", "runner", "shared", "isolate"}
  /\ Burst \in Nat /\ MaxWire \in Nat \ {0}
  /\ FallbackVersion \in SupportedProtocolVersions
  /\ IsFiniteSet(Handlers)
  /\ APIKeys \in Seq({APIKeys[i] : i \in DOMAIN APIKeys})
  /\ \A q \in Requests : q.method # "initialize" => q.session \in Sessions
  /\ None \notin 1..MaxWire
  /\ None \notin [id : {q.id : q \in Requests}, by : Keys, of : Handlers \X Requests]

VARIABLES
  mode,               \* the Config: no backend, one Runner, or a pool
  pc, request, reply, \* each handler; reply: the answer of a child
                      \* that it writes to its client
  tokens,             \* each subject's bucket
  owner, ended,       \* Session.Subject, None before it is minted; not in the map
  pool,               \* the runner on the map, or Config.Runner, of each partition
  serves, child,      \* the partition each runner was built for; its child
  nextID,             \* each runner's counter
  lines,              \* what each child has read and not dealt with
  on, wire            \* each handler's runner, and the id of its Call there

handlerVars == <<pc, request, reply, on, wire>>
runnerVars  == <<pool, serves, child, nextID, lines>>
vars == <<mode, handlerVars, tokens, owner, ended, runnerVars>>

Init ==
  /\ mode \in Modes
  /\ pc = [h \in Handlers |-> "idle"]
  /\ request = [h \in Handlers |-> None] /\ reply = [h \in Handlers |-> None]
  /\ tokens = [s \in Subjects |-> Burst]
  /\ owner \in Minted /\ ended = {}
  /\ LET warm == mode \in {"runner", "shared"}   \* the warm-up of Run
         Warm == CHOOSE i \in Insts : TRUE IN
       /\ pool   = [k \in Keys |-> IF warm /\ k = SharedKey THEN Warm ELSE None]
       /\ serves = [i \in Insts |-> IF warm /\ i = Warm THEN SharedKey ELSE None]
       /\ child  = [i \in Insts |-> IF warm /\ i = Warm THEN "live" ELSE "none"]
  /\ nextID = [i \in Insts |-> 0] /\ lines = [i \in Insts |-> {}]
  /\ on = [h \in Handlers |-> None] /\ wire = [h \in Handlers |-> None]

Goto(h, place) == pc' = [pc EXCEPT ![h] = place]

(* A reply that is not a child's answer, be it an error, a status or one of *)
(* the server's own results, ends the request and is not followed.          *)
Ends(h) ==
  /\ Goto(h, "idle")
  /\ request' = [request EXCEPT ![h] = None]
  /\ on' = [on EXCEPT ![h] = None]
-----------------------------------------------------------------------------
(* RequireOrigin, ParseProtocolVersion, RequireAuth: they keep no state.    *)

OriginPasses(q) == q.origin = Absent \/ q.origin \in AllowedOrigins

VersionPasses(q) ==
  (IF q.version = Absent THEN FallbackVersion ELSE q.version) \in SupportedProtocolVersions

MatchingKeys_AnyAudience(token) == {i \in 1..Len(APIKeys) : APIKeys[i].hash = token}
MatchingKeys(token) ==
  {i \in 1..Len(APIKeys) : APIKeys[i].hash = token /\ APIKeys[i].audience = Audience}

(* The first key counts.  A token stands for its hash.                      *)
Validate(token) ==
  LET found == MatchingKeys(token) IN
  IF token = Absent \/ Audience = NoAudience \/ found = {} THEN None
  ELSE APIKeys[CHOOSE i \in found : \A j \in found : i <= j]

IdentityOf  == [t \in {q.token : q \in Requests} |-> Validate(t)]
Identity(h) == IdentityOf[request[h].token]
Subject(h)  == Identity(h).subject

Busy    == {g \in Handlers : pc[g] # "idle"}
Seeking == {g \in Handlers : pc[g] \in {"limit", "session", "route"}}
Unbuilt == {i \in Insts : serves[i] = None}

(* Bounds on the ids of a runner, on runners and on sessions, not in the    *)
(* code.                                                                    *)
MayArrive(q) ==
  /\ \A i \in Insts : nextID[i] + Cardinality(Busy) < MaxWire
  /\ mode = "isolate" => Cardinality(Seeking) < Cardinality(Unbuilt)
  /\ q.method = "initialize" =>
       Cardinality({g \in Busy : request[g].method = "initialize"})
         < Cardinality({x \in Sessions : owner[x] = None})

(* The chain, from the outermost check on: a request that is refused here   *)
(* leaves no trace.                                                         *)
Arrives(h, q) ==
  /\ pc[h] = "idle" /\ MayArrive(q)
  /\ OriginPasses(q) /\ VersionPasses(q) /\ IdentityOf[q.token] # None
  /\ request' = [request EXCEPT ![h] = q]
  /\ Goto(h, "limit")
  /\ UNCHANGED <<mode, reply, on, wire, tokens, owner, ended, runnerVars>>

HasToken_Always(s) == TRUE
HasToken(s) == tokens[s] > 0

(* RequireRateLimit: an empty Subject is not throttled.                     *)
RateLimit(h) ==
  /\ pc[h] = "limit"
  /\ LET s == Subject(h) IN
       CASE s = NoSubject                 -> Goto(h, "session") /\ UNCHANGED <<tokens, request, on>>
         [] s # NoSubject /\ HasToken(s)  -> /\ Goto(h, "session") /\ UNCHANGED <<request, on>>
                                             /\ tokens' = [tokens EXCEPT ![s] = @ - 1]
         [] s # NoSubject /\ ~HasToken(s) -> Ends(h) /\ UNCHANGED tokens
  /\ UNCHANGED <<mode, reply, wire, owner, ended, runnerVars>>
-----------------------------------------------------------------------------
(* handleMCPPost and handleMCPDelete.                                       *)

(* handleInitialize mints a session for the identity.                       *)
Initialize(h) ==
  /\ pc[h] = "session" /\ request[h].method = "initialize"
  /\ \E x \in Sessions : owner[x] = None /\ owner' = [owner EXCEPT ![x] = Subject(h)]
  /\ Ends(h)
  /\ UNCHANGED <<mode, reply, wire, tokens, ended, runnerVars>>

OwnSession(h) ==
  LET x == request[h].session IN
  owner[x] # None /\ x \notin ended /\ owner[x] = Subject(h)

(* 404 for a session that is not in the store, 403 for another's.           *)
CheckSession(h) ==
  /\ pc[h] = "session" /\ request[h].method # "initialize"
  /\ CASE ~OwnSession(h) \/ request[h].method = "ping" -> Ends(h) /\ UNCHANGED ended
       [] OwnSession(h) /\ request[h].method = "delete" ->
            Ends(h) /\ ended' = ended \cup {request[h].session}
       [] OwnSession(h) /\ request[h].method \in Calls \cup Notifications ->
            Goto(h, "route") /\ UNCHANGED <<request, on, ended>>
  /\ UNCHANGED <<mode, reply, wire, tokens, owner, runnerVars>>

PartitionKey(s) == IF mode = "isolate" THEN s ELSE SharedKey
Key(h) == PartitionKey(Subject(h))

(* RunnerFor, as runnerForRequest calls it: a new runner for a partition    *)
(* that is not on the map.  What a failed start has left behind fails       *)
(* everyone until the partition is evicted; a runner whose child has died   *)
(* is handed out like any other.                                            *)
NewRunner(k, state) ==
  LET i == CHOOSE j \in Unbuilt : TRUE IN
  /\ Unbuilt # {}
  /\ pool' = [pool EXCEPT ![k] = i]
  /\ serves' = [serves EXCEPT ![i] = k]
  /\ child' = [child EXCEPT ![i] = state]

Gets(h, i) ==
  /\ Goto(h, "held")
  /\ on' = [on EXCEPT ![h] = i]
  /\ UNCHANGED request

LooksUp(h) ==
  LET k == Key(h) IN
  /\ pc[h] = "route"
  /\ \/ /\ mode # "none" /\ pool[k] = None
        /\ \/ NewRunner(k, "live") /\ Gets(h, pool'[k])
           \/ NewRunner(k, "failed") /\ Ends(h)
     \/ /\ pool[k] # None /\ UNCHANGED <<pool, serves, child>>
        /\ IF child[pool[k]] = "failed" THEN Ends(h) ELSE Gets(h, pool[k])
     \/ mode = "none" /\ Ends(h) /\ UNCHANGED <<pool, serves, child>>
  /\ UNCHANGED <<mode, reply, wire, tokens, owner, ended, nextID, lines>>

Allows(scopes, n) == \E s \in scopes : n \in Grants[s]

(* forwardWithNameGate, now that it has a runner: other requests and all    *)
(* notifications are forwarded without a look at the catalog.               *)
GateRefuses(h) ==
  LET n == request[h].name IN
  request[h].method = "call" /\ n # Absent /\ ~Allows(Identity(h).scopes, n)

WireID_Client(h) == request[h].id
WireID(h) == nextID[on[h]] + 1

(* A child that has died has closed its end of the pipe; a runner that is   *)
(* being stopped refuses.                                                   *)
Broken_Never(i) == FALSE
Broken(i) == child[i] # "live"

Line(h, id) == [id |-> id, of |-> <<h, request[h]>>]
Sends(h, id) == lines' = [lines EXCEPT ![on[h]] = @ \cup {Line(h, id)}]

(* Call assigns an id of its own, Notify writes the params as they came.    *)
Forwards(h) ==
  /\ pc[h] = "held"
  /\ CASE GateRefuses(h) \/ Broken(on[h]) ->
            Ends(h) /\ UNCHANGED <<wire, nextID, lines>>
       [] ~Broken(on[h]) /\ request[h].method \in Notifications ->
            Sends(h, request[h].id) /\ Ends(h) /\ UNCHANGED <<wire, nextID>>
       [] ~GateRefuses(h) /\ ~Broken(on[h]) /\ request[h].method \in Calls ->
            /\ nextID' = [nextID EXCEPT ![on[h]] = @ + 1]
            /\ wire' = [wire EXCEPT ![h] = WireID(h)]
            /\ Sends(h, WireID(h))
            /\ Goto(h, "waiting") /\ UNCHANGED <<request, on>>
  /\ UNCHANGED <<mode, reply, tokens, owner, ended, pool, serves, child>>

(* The client hangs up; what it asked for stays with the child.             *)
GivesUp(h) ==
  /\ pc[h] = "waiting"
  /\ wire' = [wire EXCEPT ![h] = None]
  /\ Ends(h)
  /\ UNCHANGED <<mode, reply, tokens, owner, ended, runnerVars>>

Writes(h) ==
  /\ pc[h] = "reply"
  /\ reply' = [reply EXCEPT ![h] = None]
  /\ Ends(h)
  /\ UNCHANGED <<mode, wire, tokens, owner, ended, runnerVars>>

HandlerStep(h) ==
  RateLimit(h) \/ Initialize(h) \/ CheckSession(h) \/ LooksUp(h) \/ Forwards(h) \/ Writes(h)
-----------------------------------------------------------------------------
(* The children, readLoop, and what else happens to runners.                *)

Waiting(i, ids) == {h \in Handlers : pc[h] = "waiting" /\ on[h] = i /\ wire[h] \in ids}
IsCall(x) == x.of[2].method \in Calls
Lives(i)  == child[i] \in {"live", "stopping"}

(* An answer to a Call that has left is dropped.                            *)
ChildAnswers(i) ==
  /\ Lives(i)
  /\ \E x \in lines[i] :
       /\ IsCall(x)
       /\ lines' = [lines EXCEPT ![i] = @ \ {x}]
       /\ IF Waiting(i, {x.id}) = {} THEN UNCHANGED <<pc, wire, reply>>
          ELSE \E h \in Waiting(i, {x.id}) :
                 /\ Goto(h, "reply")
                 /\ wire' = [wire EXCEPT ![h] = None]
                 /\ reply' = [reply EXCEPT ![h] =
                      [id |-> request[h].id, by |-> serves[i], of |-> x.of]]
  /\ UNCHANGED <<mode, request, on, tokens, owner, ended, pool, serves, child, nextID>>

(* A cancellation ends the work on the request it names to the child, which *)
(* sends no response; other notifications do nothing here.                  *)
ChildNotified(i) ==
  /\ Lives(i)
  /\ \E x \in lines[i] :
       /\ ~IsCall(x)
       /\ lines' = [lines EXCEPT ![i] =
            IF x.of[2].method = "cancel" THEN {y \in @ : y.id # x.id} ELSE @ \ {x}]
  /\ UNCHANGED <<mode, handlerVars, tokens, owner, ended, pool, serves, child, nextID>>

ChildDies(i) ==
  /\ Lives(i)
  /\ child' = [child EXCEPT ![i] = "dead"]
  /\ lines' = [lines EXCEPT ![i] = {}]
  /\ UNCHANGED <<mode, handlerVars, tokens, owner, ended, pool, serves, nextID>>

(* readLoop ends and gives every pending Call a synthetic error.            *)
Drains(i) ==
  /\ child[i] = "dead"
  /\ child' = [child EXCEPT ![i] = "drained"]
  /\ LET woken == Waiting(i, 1..MaxWire)
         New(f, v) == [h \in Handlers |-> IF h \in woken THEN v ELSE f[h]] IN
       /\ pc' = New(pc, "idle") /\ request' = New(request, None)
       /\ on' = New(on, None) /\ wire' = New(wire, None)
  /\ UNCHANGED <<mode, reply, tokens, owner, ended, pool, serves, nextID, lines>>

(* EvictIdle forgets a partition whose last lookup is long ago and stops    *)
(* its runner, be there handlers that hold it or not: first it is off the   *)
(* map, then it refuses, and its child has its stdin closed.                *)
Evicts(k) ==
  /\ mode = "isolate" /\ pool[k] # None
  /\ pool' = [pool EXCEPT ![k] = None]
  /\ UNCHANGED <<mode, handlerVars, tokens, owner, ended, serves, child, nextID, lines>>

Stops(i) ==
  /\ child[i] = "live" /\ \A k \in Keys : pool[k] # i
  /\ child' = [child EXCEPT ![i] = "stopping"]
  /\ UNCHANGED <<mode, handlerVars, tokens, owner, ended, pool, serves, nextID, lines>>

Next ==
  \/ \E h \in Handlers : HandlerStep(h) \/ GivesUp(h) \/ \E q \in Requests : Arrives(h, q)
  \/ \E i \in Insts : \/ ChildAnswers(i) \/ ChildNotified(i) \/ ChildDies(i)
                      \/ Drains(i) \/ Stops(i)
  \/ \E k \in Keys : Evicts(k)

Spec == Init /\ [][Next]_vars

(* Goroutines run.  No child has to answer, and no client to give up.       *)
FairSpec ==
  /\ Spec
  /\ \A h \in Handlers : WF_vars(HandlerStep(h))
  /\ \A i \in Insts : WF_vars(Drains(i))
-----------------------------------------------------------------------------
(* The variables hold values of their types; a bucket is never overdrawn,   *)
(* and only a handler that waits has an id on the wire.                     *)
TypeOK ==
  /\ mode \in Modes
  /\ pc \in [Handlers -> {"idle", "limit", "session", "route", "held", "waiting", "reply"}]
  /\ request \in [Handlers -> Requests \cup {None}]
  /\ \A h \in Handlers : reply[h] # None <=> pc[h] = "reply"
  /\ tokens \in [Subjects -> 0..Burst]
  /\ owner \in [Sessions -> Subjects \cup {None}]
  /\ ended \subseteq {x \in Sessions : owner[x] # None}
  /\ pool \in [Keys -> Insts \cup {None}] /\ serves \in [Insts -> Keys \cup {None}]
  /\ child \in [Insts -> {"none", "live", "stopping", "failed", "dead", "drained"}]
  /\ nextID \in [Insts -> 0..MaxWire]
  /\ \A h \in Handlers : IF pc[h] \in {"held", "waiting", "reply"} THEN on[h] \in Insts
                         ELSE on[h] = None
  /\ \A h \in Handlers : IF pc[h] = "waiting" THEN wire[h] \in 1..MaxWire ELSE wire[h] = None
  /\ \A i \in Insts : \A x \in lines[i] : DOMAIN x = {"id", "of"} /\ x.of[2] \in Requests

(* From handler to wire and back: whatever ids clients choose, though every *)
(* runner counts from one and a partition may have a new one while others   *)
(* still wait for the old, an answer a client gets bears the id of its      *)
(* request and is what a child of its own partition gave to that very       *)
(* request.                                                                 *)
OwnAnswer ==
  \A h \in Handlers : pc[h] = "reply" =>
    reply[h] = [id |-> request[h].id, by |-> Key(h), of |-> <<h, request[h]>>]

(* The whole chain, for a line in the hands of a child: its request came    *)
(* from an allowed origin in a supported version, and one and the same key, *)
(* configured for this audience, is that of the partition, of the session   *)
(* and, if forwardWithNameGate sent it, of a scope that grants the name.    *)
(* Each such line was paid for, those of notifications included.            *)
Admitted(q, k) ==
  /\ q.origin \in AllowedOrigins \cup {Absent}
  /\ q.version \in SupportedProtocolVersions \cup {Absent}
  /\ \E i \in 1..Len(APIKeys) :
       /\ APIKeys[i].hash = q.token /\ APIKeys[i].audience = Audience
       /\ APIKeys[i].subject = owner[q.session]
       /\ mode = "isolate" => k = APIKeys[i].subject
       /\ q.method = "call" /\ q.name # Absent =>
            \E s \in APIKeys[i].scopes : q.name \in Grants[s]
LinesOf(s) == {x \in UNION {lines[i] : i \in Insts} : owner[x.of[2].session] = s}
OnlyAdmittedForwarded ==
  /\ \A i \in Insts : \A x \in lines[i] : Admitted(x.of[2], serves[i])
  /\ \A s \in Subjects \ {NoSubject} : Cardinality(LinesOf(s)) <= Burst - tokens[s]

(* Every request is answered, or waits for a child that lives: the death of *)
(* a child wakes all who wait for it, also when its runner was evicted      *)
(* under them, and though a dead one stays in the pool and is handed out,   *)
(* whoever gets it afterwards has an error at once.                         *)
EveryoneAnswered ==
  \A h \in Handlers :
    pc[h] # "idle" ~> \/ pc[h] = "idle"
                      \/ pc[h] = "waiting" /\ Lives(on[h])

(* handleNotification forwards everything but notifications/initialized "so *)
(* it can react to cancellations": what a child takes a cancellation to     *)
(* name is the request its sender meant.                                    *)
CancelHitsOwn ==
  \A i \in Insts : \A x, y \in lines[i] :
    x.of[2].method = "cancel" /\ IsCall(y) /\ x.id = y.id =>
      x.of[2].session = y.of[2].session /\ x.of[2].id = y.of[2].id
=============================================================================
