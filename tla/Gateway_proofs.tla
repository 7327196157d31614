--------------------------- MODULE Gateway_proofs ---------------------------
(***************************************************************************)
(* What Gateway guarantees for any handlers, clients, sessions and keys,   *)
(* whatever ids the clients choose.                                        *)
(***************************************************************************)
EXTENDS Gateway, FiniteSetTheorems, TLAPS

Places  == {"idle", "limit", "session", "route", "held", "waiting", "reply"}
Ids     == {q.id : q \in Requests} \cup 1..MaxWire
Answers == [id : {q.id : q \in Requests}, by : Keys, of : Handlers \X Requests]

(* The variables TypeOK says little of are functions, too.                  *)
FunctionsOK ==
  /\ reply \in [Handlers -> Answers \cup {None}]
  /\ wire \in [Handlers -> 1..MaxWire \cup {None}]
  /\ on \in [Handlers -> Insts \cup {None}]
  /\ lines \in [Insts -> SUBSET [id : Ids, of : Handlers \X Requests]]

(* Who has come through the chain has a request that may, and an identity.  *)
MayPass(q) ==
  /\ q \in Requests
  /\ OriginPasses(q) /\ VersionPasses(q) /\ IdentityOf[q.token] # None
Passed == \A h \in Handlers : pc[h] # "idle" => MayPass(request[h])

Forwarded == Calls \cup Notifications

(* Who has come to the runner is the owner of its session.                  *)
Checked ==
  \A h \in Handlers : pc[h] \in {"route", "held", "waiting", "reply"} =>
    request[h].method \in Forwarded /\ owner[request[h].session] = Subject(h)

(* A runner serves the partition it was built for and those who came to it. *)
Serving ==
  /\ \A k \in Keys : pool[k] # None => serves[pool[k]] = k
  /\ \A h \in Handlers : pc[h] \in {"held", "waiting"} => serves[on[h]] = Key(h)

(* The handlers that may still take an id, for which MayArrive keeps room.  *)
Coming == {h \in Handlers : pc[h] \in {"limit", "session", "route", "held"}}
RoomOK == \A i \in Insts : nextID[i] + Cardinality(Coming) <= MaxWire

(* An id on the wire is one its runner has given out, to one handler, and   *)
(* the line that has it is that handler's.                                  *)
WireOK ==
  /\ \A h \in Handlers : pc[h] = "waiting" => wire[h] \in 1..nextID[on[h]]
  /\ \A g, h \in Handlers :
       pc[g] = "waiting" /\ pc[h] = "waiting" /\ on[g] = on[h] /\ wire[g] = wire[h] => g = h
  /\ \A i \in Insts : \A x \in lines[i] : IsCall(x) => x.id \in 1..nextID[i]
  /\ \A h \in Handlers : pc[h] = "waiting" =>
       \A x \in lines[on[h]] : IsCall(x) /\ x.id = wire[h] => x.of = <<h, request[h]>>

(* What a child gets is for its partition, was to be forwarded, and is      *)
(* admitted.                                                                *)
AllAdmitted ==
  \A i \in Insts : \A x \in lines[i] :
    /\ serves[i] # None
    /\ x.of[2].method \in Forwarded /\ Admitted(x.of[2], serves[i])

(* What a subject has paid for is with a child, or about to be sent.        *)
Paying(s) == {h \in Handlers : pc[h] \in {"session", "route", "held"} /\ Subject(h) = s}
PaidFor ==
  \A s \in Subjects \ {NoSubject} :
    /\ IsFiniteSet(LinesOf(s))
    /\ Cardinality(LinesOf(s)) + Cardinality(Paying(s)) <= Burst - tokens[s]

GatewayInv ==
  /\ TypeOK /\ FunctionsOK
  /\ Passed /\ Checked /\ Serving /\ RoomOK
  /\ WireOK /\ OwnAnswer /\ AllAdmitted /\ PaidFor
-----------------------------------------------------------------------------
LEMMA Constants ==
  /\ None \notin Keys /\ SharedKey \in Keys /\ Subjects \subseteq Keys
  /\ Burst \in Nat /\ MaxWire \in Nat
  /\ IsFiniteSet(Handlers)
  /\ Len(APIKeys) \in Nat
  /\ \A q \in Requests : q.method # "initialize" => q.session \in Sessions
  /\ None \notin 1..MaxWire /\ None \notin Answers /\ None \notin Insts
  BY GatewayAssumption DEF Keys, Answers

(* A set of numbers has a least one: inclusion of the intervals that end in *)
(* its members is well founded.                                             *)
LEMMA LeastNumber ==
  ASSUME NEW S, S \subseteq Nat, S # {}
  PROVE  \E i \in S : \A j \in S : i <= j
<1> DEFINE T == {0..i : i \in S}
           R == StrictSubsetOrdering(Nat)
<1>1. T \subseteq FiniteSubsetsOf(Nat)
  <2>1. \A i \in S : 0..i \subseteq Nat /\ IsFiniteSet(0..i)
    BY FS_Interval
  <2> QED
    BY <2>1 DEF FiniteSubsetsOf
<1>2. T # {}
  OBVIOUS
<1>3. PICK x \in T : \A y \in T : <<y, x>> \notin R
  <2> HIDE DEF T
  <2> QED
    BY <1>1, <1>2, WFMin, FS_StrictSubsetOrderingWellFounded
<1>4. PICK i \in S : x = 0..i
  OBVIOUS
<1>5. ASSUME NEW j \in S, j < i
      PROVE  FALSE
  <2>1. 0..j \in T /\ 0..j \subseteq 0..i /\ i \in 0..i /\ i \notin 0..j
    BY <1>5
  <2>2. <<0..j, x>> \in R
    <3>1. 0..j \in SUBSET Nat /\ x \in SUBSET Nat /\ 0..j \subseteq x /\ 0..j # x
      BY <1>4, <2>1
    <3> QED
      BY <3>1 DEF StrictSubsetOrdering
  <2> QED
    BY <1>3, <2>1, <2>2
<1> QED
  BY <1>5

(* Validate finds the first of the keys that match.                         *)
LEMMA IdentityMatches ==
  ASSUME NEW q \in Requests, IdentityOf[q.token] # None
  PROVE  \E i \in 1..Len(APIKeys) :
           /\ IdentityOf[q.token] = APIKeys[i]
           /\ APIKeys[i].hash = q.token /\ APIKeys[i].audience = Audience
<1> DEFINE found == MatchingKeys(q.token)
<1>1. IdentityOf[q.token] = Validate(q.token)
  BY DEF IdentityOf
<1>2. found # {} /\ Validate(q.token) = APIKeys[CHOOSE i \in found : \A j \in found : i <= j]
  BY <1>1 DEF Validate
<1>3. found \subseteq Nat
  BY Constants DEF MatchingKeys
<1> HIDE DEF found
<1>4. (CHOOSE i \in found : \A j \in found : i <= j) \in found
  BY <1>2, <1>3, LeastNumber
<1> QED
  BY <1>1, <1>2, <1>4 DEF found, MatchingKeys

LEMMA BusySubject ==
  ASSUME Passed, NEW h \in Handlers, pc[h] # "idle"
  PROVE  /\ request[h] \in Requests /\ Subject(h) \in Subjects
         /\ Key(h) \in Keys
<1>1. MayPass(request[h])
  BY DEF Passed
<1>2. PICK i \in 1..Len(APIKeys) : IdentityOf[request[h].token] = APIKeys[i]
  BY <1>1, IdentityMatches DEF MayPass
<1>3. Subject(h) \in Subjects
  BY <1>2 DEF Subject, Identity, Subjects
<1> QED
  BY <1>1, <1>3, Constants DEF MayPass, Key, PartitionKey
-----------------------------------------------------------------------------
(* What each step of a handler that has a choice does to the variables.     *)
LEMMA RateLimitDoes ==
  ASSUME NEW h \in Handlers, RateLimit(h)
  PROVE  /\ pc[h] = "limit"
         /\ UNCHANGED <<mode, reply, wire, owner, ended, runnerVars>>
         /\ \/ Ends(h) /\ UNCHANGED tokens
            \/ /\ Subject(h) = NoSubject
               /\ Goto(h, "session") /\ UNCHANGED <<tokens, request, on>>
            \/ /\ Subject(h) # NoSubject /\ tokens[Subject(h)] > 0
               /\ Goto(h, "session") /\ UNCHANGED <<request, on>>
               /\ tokens' = [tokens EXCEPT ![Subject(h)] = @ - 1]
<1>1. CASE Subject(h) = NoSubject
  BY <1>1 DEF RateLimit
<1>2. CASE Subject(h) # NoSubject /\ HasToken(Subject(h))
  BY <1>2 DEF RateLimit, HasToken
<1>3. CASE Subject(h) # NoSubject /\ ~HasToken(Subject(h))
  BY <1>3 DEF RateLimit
<1> QED
  BY <1>1, <1>2, <1>3

LEMMA CheckSessionDoes ==
  ASSUME NEW h \in Handlers, Passed, CheckSession(h)
  PROVE  /\ pc[h] = "session" /\ request[h].method # "initialize"
         /\ UNCHANGED <<mode, reply, wire, tokens, owner, runnerVars>>
         /\ \/ Ends(h) /\ UNCHANGED ended
            \/ OwnSession(h) /\ Ends(h) /\ ended' = ended \cup {request[h].session}
            \/ /\ OwnSession(h) /\ request[h].method \in Forwarded
               /\ Goto(h, "route") /\ UNCHANGED <<request, on, ended>>
<1>1. request[h].method \in Methods \ {"initialize"}
  BY GatewayAssumption DEF Passed, MayPass, CheckSession
<1>2. CASE ~OwnSession(h) \/ request[h].method = "ping"
  BY <1>2 DEF CheckSession, Calls, Notifications
<1>3. CASE OwnSession(h) /\ request[h].method = "delete"
  BY <1>3 DEF CheckSession, Calls, Notifications
<1>4. CASE OwnSession(h) /\ request[h].method \in Forwarded
  BY <1>4 DEF CheckSession, Forwarded
<1> QED
  BY <1>1, <1>2, <1>3, <1>4 DEF Methods, Forwarded

LEMMA LooksUpDoes ==
  ASSUME TypeOK, Passed, NEW h \in Handlers, LooksUp(h)
  PROVE  /\ pc[h] = "route" /\ Key(h) \in Keys
         /\ UNCHANGED <<mode, reply, wire, tokens, owner, ended, nextID, lines>>
         /\ Ends(h) \/ \E i \in Insts : Gets(h, i) /\ pool'[Key(h)] = i
         /\ \/ UNCHANGED <<pool, serves, child>>
            \/ \E i \in Unbuilt, state \in {"live", "failed"} :
                 /\ pool' = [pool EXCEPT ![Key(h)] = i]
                 /\ serves' = [serves EXCEPT ![i] = Key(h)]
                 /\ child' = [child EXCEPT ![i] = state]
<1>1. pc[h] = "route" /\ UNCHANGED <<mode, reply, wire, tokens, owner, ended, nextID, lines>>
  BY DEF LooksUp
<1>2. PICK k \in Keys : k = Key(h)
  BY <1>1, BusySubject
<1>3. ASSUME NEW state \in {"live", "failed"}, NewRunner(k, state)
      PROVE  \E i \in Unbuilt :
               /\ pool' = [pool EXCEPT ![k] = i] /\ pool'[k] = i
               /\ serves' = [serves EXCEPT ![i] = k]
               /\ child' = [child EXCEPT ![i] = state]
  <2>1. (CHOOSE j \in Unbuilt : TRUE) \in Unbuilt
    BY <1>3 DEF NewRunner
  <2>2. PICK i \in Unbuilt : i = CHOOSE j \in Unbuilt : TRUE
    BY <2>1
  <2>3. /\ pool' = [pool EXCEPT ![k] = i]
        /\ serves' = [serves EXCEPT ![i] = k] /\ child' = [child EXCEPT ![i] = state]
    BY <1>3, <2>2 DEF NewRunner
  <2> QED
    BY <2>3 DEF TypeOK
<1>4. CASE NewRunner(k, "live") /\ Gets(h, pool'[k])
  BY <1>1, <1>2, <1>3, <1>4 DEF Unbuilt
<1>5. CASE NewRunner(k, "failed") /\ Ends(h)
  BY <1>1, <1>2, <1>3, <1>5
<1>6. CASE /\ pool[k] # None /\ UNCHANGED <<pool, serves, child>>
           /\ Ends(h) \/ Gets(h, pool[k])
  BY <1>1, <1>2, <1>6 DEF TypeOK
<1>7. CASE Ends(h) /\ UNCHANGED <<pool, serves, child>>
  BY <1>1, <1>2, <1>7
<1> QED
  BY <1>2, <1>4, <1>5, <1>6, <1>7 DEF LooksUp

LEMMA ForwardsDoes ==
  ASSUME NEW h \in Handlers, Checked, Forwards(h)
  PROVE  /\ pc[h] = "held"
         /\ UNCHANGED <<mode, reply, tokens, owner, ended, pool, serves, child>>
         /\ \/ Ends(h) /\ UNCHANGED <<wire, nextID, lines>>
            \/ /\ request[h].method \in Notifications
               /\ Ends(h) /\ UNCHANGED <<wire, nextID>>
               /\ lines' = [lines EXCEPT ![on[h]] = @ \cup {Line(h, request[h].id)}]
            \/ /\ request[h].method \in Calls /\ ~GateRefuses(h)
               /\ Goto(h, "waiting") /\ UNCHANGED <<request, on>>
               /\ nextID' = [nextID EXCEPT ![on[h]] = @ + 1]
               /\ wire' = [wire EXCEPT ![h] = nextID[on[h]] + 1]
               /\ lines' = [lines EXCEPT ![on[h]] = @ \cup {Line(h, nextID[on[h]] + 1)}]
<1>1. request[h].method \in Calls \/ request[h].method \in Notifications
  BY DEF Checked, Forwarded, Forwards
<1>2. CASE GateRefuses(h) \/ Broken(on[h])
  BY <1>2 DEF Forwards, GateRefuses, Calls, Notifications
<1>3. CASE ~Broken(on[h]) /\ request[h].method \in Notifications
  BY <1>3 DEF Forwards, Sends, GateRefuses, Calls, Notifications
<1>4. CASE ~GateRefuses(h) /\ ~Broken(on[h]) /\ request[h].method \in Calls
  BY <1>4 DEF Forwards, Sends, WireID
<1> QED
  BY <1>1, <1>2, <1>3, <1>4
-----------------------------------------------------------------------------
(* Types.                                                                   *)

LEMMA RoomForOne ==
  ASSUME RoomOK, TypeOK, NEW i \in Insts, NEW h \in Coming
  PROVE  nextID[i] + 1 \in 1..MaxWire
<1>1. IsFiniteSet(Coming)
  BY Constants, FS_Subset DEF Coming
<1>2. Cardinality(Coming) \in Nat /\ Cardinality(Coming) # 0
  BY <1>1, FS_CardinalityType, FS_EmptySet
<1> QED
  BY <1>2, Constants DEF RoomOK, TypeOK

LEMMA InitTypes == Init => TypeOK /\ FunctionsOK
  BY GatewayAssumption, Constants DEF Init, TypeOK, FunctionsOK

LEMMA StepTypes ==
  ASSUME TypeOK, FunctionsOK, Passed, Checked, Serving, RoomOK, Next
  PROVE  TypeOK' /\ FunctionsOK'
<1> USE Constants DEF TypeOK, FunctionsOK
<1>1. ASSUME NEW h \in Handlers, RateLimit(h)
      PROVE  TypeOK' /\ FunctionsOK'
  <2>1. Subject(h) \in Subjects
    BY <1>1, BusySubject DEF RateLimit
  <2>2. CASE Ends(h) /\ UNCHANGED tokens
    BY <1>1, <2>2, RateLimitDoes DEF Ends, Goto, runnerVars
  <2>3. CASE Goto(h, "session") /\ UNCHANGED <<tokens, request, on>>
    BY <1>1, <2>3, RateLimitDoes DEF Goto, runnerVars
  <2>4. CASE /\ tokens[Subject(h)] > 0 /\ Goto(h, "session") /\ UNCHANGED <<request, on>>
             /\ tokens' = [tokens EXCEPT ![Subject(h)] = @ - 1]
    <3>1. PICK s \in Subjects : s = Subject(h)
      BY <2>1
    <3>2. tokens[s] \in 1..Burst /\ tokens' = [tokens EXCEPT ![s] = tokens[s] - 1]
      BY <2>4, <3>1
    <3>3. tokens' \in [Subjects -> 0..Burst]
      BY <3>2
    <3> QED
      BY <1>1, <2>4, <3>3, RateLimitDoes DEF Goto, runnerVars
  <2> QED
    BY <1>1, <2>2, <2>3, <2>4, RateLimitDoes
<1>2. ASSUME NEW h \in Handlers, Initialize(h)
      PROVE  TypeOK' /\ FunctionsOK'
  <2>1. Subject(h) \in Subjects
    BY <1>2, BusySubject DEF Initialize
  <2> QED
    BY <1>2, <2>1 DEF Initialize, Ends, Goto, runnerVars
<1>3. ASSUME NEW h \in Handlers, CheckSession(h)
      PROVE  TypeOK' /\ FunctionsOK'
  <2>1. request[h] \in Requests
    BY <1>3, BusySubject DEF CheckSession
  <2>2. CASE Ends(h) /\ UNCHANGED ended
    BY <1>3, <2>2, CheckSessionDoes DEF Ends, Goto, runnerVars
  <2>3. CASE OwnSession(h) /\ Ends(h) /\ ended' = ended \cup {request[h].session}
    <3>1. /\ request[h].session \in Sessions /\ owner[request[h].session] # None
          /\ UNCHANGED <<mode, reply, wire, tokens, owner, runnerVars>>
      BY <1>3, <2>1, <2>3, CheckSessionDoes DEF OwnSession
    <3>2. ended' \subseteq {x \in Sessions : owner'[x] # None}
      BY <2>3, <3>1
    <3> QED
      <4>1. /\ pc' \in [Handlers -> Places] /\ request' \in [Handlers -> Requests \cup {None}]
            /\ on' \in [Handlers -> Insts \cup {None}]
            /\ \A g \in Handlers : /\ pc'[g] = IF g = h THEN "idle" ELSE pc[g]
                                  /\ on'[g] = IF g = h THEN None ELSE on[g]
        BY <2>3 DEF Ends, Goto, Places
      <4>2. pc[h] = "session"
        BY <1>3, CheckSessionDoes
      <4>3. TypeOK'
        BY <3>1, <3>2, <4>1, <4>2 DEF Places, runnerVars
      <4>4. FunctionsOK'
        BY <3>1, <4>1 DEF runnerVars
      <4> QED
        BY <4>3, <4>4
  <2>4. CASE Goto(h, "route") /\ UNCHANGED <<request, on, ended>>
    BY <1>3, <2>4, CheckSessionDoes DEF Goto, runnerVars
  <2> QED
    BY <1>3, <2>2, <2>3, <2>4, CheckSessionDoes
<1>4. ASSUME NEW h \in Handlers, LooksUp(h)
      PROVE  TypeOK' /\ FunctionsOK'
  <2>1. PICK k \in Keys : k = Key(h)
    BY <1>4, LooksUpDoes
  <2>2. /\ pool' \in [Keys -> Insts \cup {None}] /\ serves' \in [Insts -> Keys \cup {None}]
        /\ child' \in [Insts -> {"none", "live", "stopping", "failed", "dead", "drained"}]
    <3>1. CASE UNCHANGED <<pool, serves, child>>
      BY <3>1
    <3>2. ASSUME NEW i \in Unbuilt, NEW state \in {"live", "failed"},
                 pool' = [pool EXCEPT ![k] = i], serves' = [serves EXCEPT ![i] = k],
                 child' = [child EXCEPT ![i] = state]
          PROVE  /\ pool' \in [Keys -> Insts \cup {None}] /\ serves' \in [Insts -> Keys \cup {None}]
                 /\ child' \in [Insts -> {"none", "live", "stopping", "failed", "dead", "drained"}]
      BY <3>2 DEF Unbuilt
    <3> QED
      BY <1>4, <2>1, <3>1, <3>2, LooksUpDoes
  <2> pc[h] = "route" /\ UNCHANGED <<mode, reply, wire, tokens, owner, ended, nextID, lines>>
    BY <1>4, LooksUpDoes
  <2>3. CASE Ends(h)
    BY <2>2, <2>3 DEF Ends, Goto
  <2>4. ASSUME NEW i \in Insts, Gets(h, i)
        PROVE  TypeOK' /\ FunctionsOK'
    BY <2>2, <2>4 DEF Gets, Goto
  <2> QED
    BY <1>4, <2>3, <2>4, LooksUpDoes
<1>5. ASSUME NEW h \in Handlers, Forwards(h)
      PROVE  TypeOK' /\ FunctionsOK'
  <2>1. request[h] \in Requests /\ on[h] \in Insts /\ h \in Coming
    BY <1>5, BusySubject DEF Forwards, Coming
  <2>2. PICK i \in Insts : i = on[h]
    BY <2>1
  <2>3. nextID[i] + 1 \in 1..MaxWire
    BY <2>1, RoomForOne
  <2>4. ASSUME NEW id \in Ids, lines' = [lines EXCEPT ![i] = lines[i] \cup {Line(h, id)}]
        PROVE  lines' \in [Insts -> SUBSET [id : Ids, of : Handlers \X Requests]]
    <3>1. Line(h, id) \in [id : Ids, of : Handlers \X Requests]
      BY <2>1 DEF Line
    <3> QED
      BY <2>4, <3>1
  <2>5. request[h].id \in Ids /\ nextID[i] + 1 \in Ids
    BY <2>1, <2>3 DEF Ids
  <2> /\ pc[h] = "held"
      /\ UNCHANGED <<mode, reply, tokens, owner, ended, pool, serves, child>>
    BY <1>5, ForwardsDoes
  <2>6. CASE Ends(h) /\ UNCHANGED <<wire, nextID, lines>>
    BY <2>6 DEF Ends, Goto
  <2>7. CASE /\ Ends(h) /\ UNCHANGED <<wire, nextID>>
             /\ lines' = [lines EXCEPT ![i] = @ \cup {Line(h, request[h].id)}]
    <3>1. lines' \in [Insts -> SUBSET [id : Ids, of : Handlers \X Requests]]
      BY <2>4, <2>5, <2>7
    <3> QED
      BY <2>7, <3>1 DEF Ends, Goto
  <2>8. CASE /\ Goto(h, "waiting") /\ UNCHANGED <<request, on>>
             /\ nextID' = [nextID EXCEPT ![i] = @ + 1]
             /\ wire' = [wire EXCEPT ![h] = nextID[i] + 1]
             /\ lines' = [lines EXCEPT ![i] = @ \cup {Line(h, nextID[i] + 1)}]
    <3>1. lines' \in [Insts -> SUBSET [id : Ids, of : Handlers \X Requests]]
      BY <2>4, <2>5, <2>8
    <3> QED
      BY <2>3, <2>8, <3>1 DEF Goto
  <2> QED
    BY <1>5, <2>2, <2>6, <2>7, <2>8, ForwardsDoes
<1>6. ASSUME NEW h \in Handlers, Writes(h)
      PROVE  TypeOK' /\ FunctionsOK'
  BY <1>6 DEF Writes, Ends, Goto, runnerVars
<1>7. ASSUME NEW h \in Handlers, GivesUp(h)
      PROVE  TypeOK' /\ FunctionsOK'
  BY <1>7 DEF GivesUp, Ends, Goto, runnerVars
<1>8. ASSUME NEW h \in Handlers, NEW q \in Requests, Arrives(h, q)
      PROVE  TypeOK' /\ FunctionsOK'
  BY <1>8 DEF Arrives, Goto, runnerVars
<1>9. ASSUME NEW i \in Insts, ChildAnswers(i)
      PROVE  TypeOK' /\ FunctionsOK'
  <2>1. PICK x \in lines[i] :
          /\ lines' = [lines EXCEPT ![i] = @ \ {x}]
          /\ \/ UNCHANGED <<pc, wire, reply>>
             \/ \E h \in Waiting(i, {x.id}) :
                  /\ Goto(h, "reply")
                  /\ wire' = [wire EXCEPT ![h] = None]
                  /\ reply' = [reply EXCEPT ![h] =
                       [id |-> request[h].id, by |-> serves[i], of |-> x.of]]
    BY <1>9 DEF ChildAnswers
  <2>2. CASE UNCHANGED <<pc, wire, reply>>
    BY <1>9, <2>1, <2>2 DEF ChildAnswers
  <2>3. ASSUME NEW h \in Waiting(i, {x.id}),
               Goto(h, "reply"), wire' = [wire EXCEPT ![h] = None],
               reply' = [reply EXCEPT ![h] = [id |-> request[h].id, by |-> serves[i], of |-> x.of]]
        PROVE  TypeOK' /\ FunctionsOK'
    <3>1. h \in Handlers /\ pc[h] = "waiting" /\ request[h] \in Requests
      BY BusySubject DEF Waiting
    <3>2. serves[i] \in Keys
      BY <3>1, BusySubject DEF Waiting, Serving
    <3>3. [id |-> request[h].id, by |-> serves[i], of |-> x.of] \in Answers
      BY <3>1, <3>2 DEF Answers
    <3> QED
      BY <1>9, <2>1, <2>3, <3>1, <3>3 DEF ChildAnswers, Goto
  <2> QED
    BY <2>1, <2>2, <2>3
<1>10. ASSUME NEW i \in Insts, ChildNotified(i)
       PROVE  TypeOK' /\ FunctionsOK'
  BY <1>10 DEF ChildNotified, handlerVars
<1>11. ASSUME NEW i \in Insts, ChildDies(i)
       PROVE  TypeOK' /\ FunctionsOK'
  BY <1>11 DEF ChildDies, handlerVars
<1>12. ASSUME NEW i \in Insts, Drains(i)
       PROVE  TypeOK' /\ FunctionsOK'
  BY <1>12 DEF Drains, Waiting
<1>13. ASSUME NEW k \in Keys, Evicts(k)
       PROVE  TypeOK' /\ FunctionsOK'
  BY <1>13 DEF Evicts, handlerVars
<1>14. ASSUME NEW i \in Insts, Stops(i)
       PROVE  TypeOK' /\ FunctionsOK'
  BY <1>14 DEF Stops, handlerVars
<1> QED
  BY <1>1, <1>2, <1>3, <1>4, <1>5, <1>6, <1>7, <1>8, <1>9, <1>10, <1>11, <1>12, <1>13, <1>14
     DEF Next, HandlerStep
-----------------------------------------------------------------------------
(* The way of a request: a handler ends it, keeps its place, takes a new    *)
(* one, or goes one place on with the one it has.                           *)
Onward ==
  {<<"limit", "session">>, <<"route", "held">>, <<"held", "waiting">>, <<"waiting", "reply">>}

Moves(g) ==
  \/ pc'[g] = "idle"
  \/ pc'[g] = pc[g] /\ request'[g] = request[g] /\ on'[g] = on[g]
  \/ pc'[g] = "limit" /\ MayPass(request'[g])
  \/ /\ request'[g] = request[g] /\ (pc[g] = "route" \/ on'[g] = on[g])
     /\ \/ <<pc[g], pc'[g]>> \in Onward
        \/ /\ pc[g] = "session" /\ pc'[g] = "route"
           /\ OwnSession(g) /\ request[g].method \in Forwarded

LEMMA EndsMoves ==
  ASSUME TypeOK, FunctionsOK, NEW h \in Handlers, Ends(h)
  PROVE  \A g \in Handlers : Moves(g)
  BY DEF TypeOK, FunctionsOK, Ends, Goto, Moves

LEMMA GotoMoves ==
  ASSUME TypeOK, NEW h \in Handlers, NEW place, <<pc[h], place>> \in Onward,
         Goto(h, place), UNCHANGED <<request, on>>
  PROVE  \A g \in Handlers : Moves(g)
  BY DEF TypeOK, Goto, Moves

(* What a session and a runner are given to they stay with.                 *)
LEMMA StepMoves ==
  ASSUME TypeOK, FunctionsOK, Passed, Checked, Next
  PROVE  /\ \A g \in Handlers : Moves(g)
         /\ mode' = mode
         /\ \A x \in Sessions : owner[x] # None => owner'[x] = owner[x]
         /\ \A i \in Insts : serves[i] # None => serves'[i] = serves[i]
<1> DEFINE Result == /\ \A g \in Handlers : Moves(g)
                     /\ mode' = mode
                     /\ \A x \in Sessions : owner[x] # None => owner'[x] = owner[x]
                     /\ \A i \in Insts : serves[i] # None => serves'[i] = serves[i]
<1>0. ASSUME UNCHANGED <<pc, request, on, mode, owner, serves>>
      PROVE  Result
  BY <1>0 DEF Moves
<1> USE DEF Onward, runnerVars
<1>1. ASSUME NEW h \in Handlers, RateLimit(h)
      PROVE  Result
  BY <1>1, RateLimitDoes, EndsMoves, GotoMoves
<1>2. ASSUME NEW h \in Handlers, Initialize(h)
      PROVE  Result
  <2>1. mode' = mode /\ serves' = serves /\ Ends(h)
    BY <1>2 DEF Initialize
  <2>2. \A x \in Sessions : owner[x] # None => owner'[x] = owner[x]
    BY <1>2 DEF Initialize, TypeOK
  <2> QED
    BY <2>1, <2>2, EndsMoves
<1>3. ASSUME NEW h \in Handlers, CheckSession(h)
      PROVE  Result
  <2>1. pc[h] = "session" /\ UNCHANGED <<mode, owner, serves>>
    BY <1>3, CheckSessionDoes
  <2>2. CASE Ends(h)
    BY <2>1, <2>2, EndsMoves
  <2>3. CASE /\ OwnSession(h) /\ request[h].method \in Forwarded
             /\ Goto(h, "route") /\ UNCHANGED <<request, on>>
    BY <2>1, <2>3 DEF Goto, Moves, TypeOK
  <2> QED
    BY <1>3, <2>2, <2>3, CheckSessionDoes
<1>4. ASSUME NEW h \in Handlers, LooksUp(h)
      PROVE  Result
  <2>1. pc[h] = "route" /\ UNCHANGED <<mode, owner>>
    BY <1>4, LooksUpDoes
  <2>2. \A g \in Handlers : Moves(g)
    <3>1. CASE Ends(h)
      BY <3>1, EndsMoves
    <3>2. ASSUME NEW i \in Insts, Gets(h, i)
          PROVE  \A g \in Handlers : Moves(g)
      BY <2>1, <3>2 DEF Gets, Goto, Moves, TypeOK, FunctionsOK
    <3> QED
      BY <1>4, <3>1, <3>2, LooksUpDoes
  <2>3. \A i \in Insts : serves[i] # None => serves'[i] = serves[i]
    <3>1. ASSUME NEW j \in Unbuilt, NEW k, serves' = [serves EXCEPT ![j] = k]
          PROVE  \A i \in Insts : serves[i] # None => serves'[i] = serves[i]
      BY <3>1 DEF Unbuilt, TypeOK
    <3> QED
      BY <1>4, <3>1, LooksUpDoes
  <2> QED
    BY <2>1, <2>2, <2>3
<1>5. ASSUME NEW h \in Handlers, Forwards(h)
      PROVE  Result
  BY <1>5, ForwardsDoes, EndsMoves, GotoMoves
<1>6. ASSUME NEW h \in Handlers, Writes(h)
      PROVE  Result
  BY <1>6, EndsMoves DEF Writes
<1>7. ASSUME NEW h \in Handlers, GivesUp(h)
      PROVE  Result
  BY <1>7, EndsMoves DEF GivesUp
<1>8. ASSUME NEW h \in Handlers, NEW q \in Requests, Arrives(h, q)
      PROVE  Result
  BY <1>8 DEF Arrives, Goto, Moves, TypeOK, MayPass
<1>9. ASSUME NEW i \in Insts, ChildAnswers(i)
      PROVE  Result
  <2>1. UNCHANGED <<mode, request, on, owner, serves>>
    BY <1>9 DEF ChildAnswers
  <2>2. ASSUME NEW h \in Handlers, pc[h] = "waiting", Goto(h, "reply")
        PROVE  Result
    BY <2>1, <2>2, GotoMoves
  <2> QED
    BY <1>0, <1>9, <2>1, <2>2 DEF ChildAnswers, Waiting
<1>10. ASSUME NEW i \in Insts, ChildNotified(i)
       PROVE  Result
  BY <1>0, <1>10 DEF ChildNotified, handlerVars
<1>11. ASSUME NEW i \in Insts, ChildDies(i)
       PROVE  Result
  BY <1>0, <1>11 DEF ChildDies, handlerVars
<1>12. ASSUME NEW i \in Insts, Drains(i)
       PROVE  Result
  BY <1>12 DEF Drains, Moves
<1>13. ASSUME NEW k \in Keys, Evicts(k)
       PROVE  Result
  BY <1>0, <1>13 DEF Evicts, handlerVars
<1>14. ASSUME NEW i \in Insts, Stops(i)
       PROVE  Result
  BY <1>0, <1>14 DEF Stops, handlerVars
<1> QED
  BY <1>1, <1>2, <1>3, <1>4, <1>5, <1>6, <1>7, <1>8, <1>9, <1>10, <1>11, <1>12, <1>13, <1>14
     DEF Next, HandlerStep

LEMMA StepPassed ==
  ASSUME TypeOK, FunctionsOK, Passed, Checked, Next
  PROVE  Passed'
  BY StepMoves DEF Passed, Moves, Onward

(* The owner of a session stays its owner.                                  *)
LEMMA StepChecked ==
  ASSUME TypeOK, FunctionsOK, Passed, Checked, Next
  PROVE  Checked'
<1> SUFFICES ASSUME NEW g \in Handlers, pc'[g] \in {"route", "held", "waiting", "reply"}
             PROVE  /\ request'[g].method \in Forwarded
                    /\ owner'[request'[g].session] = Subject(g)'
  BY DEF Checked
<1>1. request'[g] = request[g] /\ pc[g] # "idle"
  BY StepMoves DEF Moves, Onward, TypeOK
<1>2. request[g].method \in Forwarded /\ owner[request[g].session] = Subject(g)
  BY StepMoves DEF Moves, Onward, OwnSession, Checked
<1>3. request[g].session \in Sessions /\ Subject(g) # None
  BY <1>1, <1>2, BusySubject, Constants DEF Forwarded, Calls, Notifications
<1>4. Subject(g)' = Subject(g)
  BY <1>1 DEF Subject, Identity
<1> QED
  BY <1>1, <1>2, <1>3, <1>4, StepMoves
-----------------------------------------------------------------------------
(* Partitions and their runners.                                            *)

LEMMA SameKey ==
  ASSUME NEW g \in Handlers, request'[g] = request[g], mode' = mode
  PROVE  Key(g)' = Key(g)
  BY DEF Key, PartitionKey, Subject, Identity

LEMMA InitServing == Init => Serving
  BY Constants DEF Init, Serving

LEMMA StepServing ==
  ASSUME TypeOK, FunctionsOK, Passed, Checked, Serving, Next
  PROVE  Serving'
<1> USE Constants DEF TypeOK
<1>a. ASSUME NEW g \in Handlers, pc'[g] \in {"held", "waiting"}, pc[g] # "route"
      PROVE  serves'[on'[g]] = Key(g)'
  <2>1. pc[g] \in {"held", "waiting"} /\ request'[g] = request[g] /\ on'[g] = on[g]
    BY <1>a, StepMoves DEF Moves, Onward
  <2>2. serves[on[g]] = Key(g) /\ on[g] \in Insts /\ Key(g) \in Keys
    BY <2>1, BusySubject DEF Serving
  <2>3. Key(g)' = Key(g)
    BY <2>1, SameKey, StepMoves
  <2> QED
    BY <2>1, <2>2, <2>3, StepMoves
<1>b. ASSUME NEW k \in Keys, pool'[k] # None, pool'[k] = pool[k]
      PROVE  serves'[pool'[k]] = k
  BY <1>b, StepMoves DEF Serving
<1>0. ASSUME \A k \in Keys : pool'[k] \in {pool[k], None},
             \A g \in Handlers : pc[g] = "route" => pc'[g] \notin {"held", "waiting"}
      PROVE  Serving'
  BY <1>0, <1>a, <1>b DEF Serving
<1>c. ASSUME NEW h \in Handlers, NEW place, Ends(h) \/ Goto(h, place),
             place \notin {"held", "waiting"} \/ pc[h] # "route", UNCHANGED pool
      PROVE  Serving'
  BY <1>0, <1>c DEF Ends, Goto
<1>d. ASSUME UNCHANGED <<pc, pool>>
      PROVE  Serving'
  BY <1>0, <1>d
<1> USE DEF runnerVars, handlerVars
<1>1. ASSUME NEW h \in Handlers, RateLimit(h)
      PROVE  Serving'
  BY <1>1, <1>c, RateLimitDoes
<1>2. ASSUME NEW h \in Handlers, Initialize(h)
      PROVE  Serving'
  BY <1>2, <1>c DEF Initialize
<1>3. ASSUME NEW h \in Handlers, CheckSession(h)
      PROVE  Serving'
  BY <1>3, <1>c, CheckSessionDoes
<1>4. ASSUME NEW h \in Handlers, LooksUp(h)
      PROVE  Serving'
  <2>1. PICK k \in Keys : k = Key(h)
    BY <1>4, LooksUpDoes
  <2>2. \A j \in Keys : pool'[j] # None => serves'[pool'[j]] = j
    <3>1. CASE UNCHANGED <<pool, serves>>
      BY <3>1 DEF Serving
    <3>2. ASSUME NEW i \in Unbuilt, pool' = [pool EXCEPT ![k] = i], serves' = [serves EXCEPT ![i] = k]
          PROVE  \A j \in Keys : pool'[j] # None => serves'[pool'[j]] = j
      <4>1. i \in Insts /\ serves'[i] = k /\ pool'[k] = i
        BY <3>2 DEF Unbuilt
      <4>2. ASSUME NEW j \in Keys, j # k
            PROVE  pool'[j] = pool[j]
        BY <3>2, <4>2
      <4> QED
        BY <1>b, <4>1, <4>2
    <3> QED
      BY <1>4, <2>1, <3>1, <3>2, LooksUpDoes
  <2>3. CASE Ends(h)
    <3>1. \A g \in Handlers : pc'[g] \in {"held", "waiting"} => pc'[g] = pc[g]
      BY <2>3 DEF Ends, Goto
    <3> QED
      BY <1>a, <2>2, <3>1 DEF Serving
  <2>4. ASSUME NEW i \in Insts, Gets(h, i), pool'[k] = i
        PROVE  Serving'
    <3>1. serves'[on'[h]] = k
      BY <2>2, <2>4 DEF Gets, FunctionsOK
    <3>2. Key(h)' = k
      BY <2>1, <2>4, SameKey, StepMoves DEF Gets
    <3>3. \A g \in Handlers : g # h /\ pc'[g] \in {"held", "waiting"} => pc'[g] = pc[g]
      BY <2>4 DEF Gets, Goto
    <3> QED
      BY <1>a, <2>2, <3>1, <3>2, <3>3 DEF Serving
  <2> QED
    BY <1>4, <2>1, <2>3, <2>4, LooksUpDoes
<1>5. ASSUME NEW h \in Handlers, Forwards(h)
      PROVE  Serving'
  BY <1>5, <1>c, ForwardsDoes
<1>6. ASSUME NEW h \in Handlers, Writes(h)
      PROVE  Serving'
  BY <1>6, <1>c DEF Writes
<1>7. ASSUME NEW h \in Handlers, GivesUp(h)
      PROVE  Serving'
  BY <1>7, <1>c DEF GivesUp
<1>8. ASSUME NEW h \in Handlers, NEW q \in Requests, Arrives(h, q)
      PROVE  Serving'
  BY <1>8, <1>c DEF Arrives
<1>9. ASSUME NEW i \in Insts, ChildAnswers(i)
      PROVE  Serving'
  BY <1>9, <1>c, <1>d DEF ChildAnswers, Waiting
<1>10. ASSUME NEW i \in Insts, ChildNotified(i)
       PROVE  Serving'
  BY <1>10, <1>d DEF ChildNotified
<1>11. ASSUME NEW i \in Insts, ChildDies(i)
       PROVE  Serving'
  BY <1>11, <1>d DEF ChildDies
<1>12. ASSUME NEW i \in Insts, Drains(i)
       PROVE  Serving'
  BY <1>12, <1>0 DEF Drains
<1>13. ASSUME NEW k \in Keys, Evicts(k)
       PROVE  Serving'
  BY <1>13, <1>0 DEF Evicts
<1>14. ASSUME NEW i \in Insts, Stops(i)
       PROVE  Serving'
  BY <1>14, <1>d DEF Stops
<1> QED
  BY <1>1, <1>2, <1>3, <1>4, <1>5, <1>6, <1>7, <1>8, <1>9, <1>10, <1>11, <1>12, <1>13, <1>14
     DEF Next, HandlerStep
-----------------------------------------------------------------------------
(* Every handler that may still take an id has one left for it.             *)
LEMMA ComingFinite ==
  /\ IsFiniteSet(Coming) /\ Cardinality(Coming) \in Nat
  /\ IsFiniteSet(Busy) /\ Cardinality(Busy) \in Nat
<1>1. IsFiniteSet(Coming) /\ IsFiniteSet(Busy)
  BY Constants, FS_Subset DEF Coming, Busy
<1> QED
  BY <1>1, FS_CardinalityType

LEMMA InitRoom == Init => RoomOK
<1> SUFFICES ASSUME Init PROVE RoomOK
  OBVIOUS
<1>1. Coming = {}
  BY DEF Init, Coming
<1> QED
  BY <1>1, FS_EmptySet, Constants DEF Init, RoomOK

LEMMA StepRoom ==
  ASSUME TypeOK, FunctionsOK, Passed, Checked, RoomOK, Next
  PROVE  RoomOK'
<1>0. ASSUME Coming' \subseteq Coming, \A i \in Insts : nextID'[i] <= nextID[i],
             nextID' \in [Insts -> Nat]
      PROVE  RoomOK'
  <2>1. Cardinality(Coming') \in Nat /\ Cardinality(Coming') <= Cardinality(Coming)
    BY <1>0, ComingFinite, FS_Subset, FS_CardinalityType
  <2> QED
    BY <1>0, <2>1, ComingFinite, Constants DEF RoomOK, TypeOK
<1>a. ASSUME NEW h \in Handlers, Ends(h), UNCHANGED nextID
      PROVE  RoomOK'
  <2>1. Coming' \subseteq Coming
    BY <1>a DEF Ends, Goto, Coming, TypeOK
  <2> QED
    BY <1>0, <1>a, <2>1 DEF TypeOK
<1>b. ASSUME NEW h \in Handlers, h \in Coming, NEW place, Goto(h, place), UNCHANGED nextID
      PROVE  RoomOK'
  <2>1. Coming' \subseteq Coming
    BY <1>b DEF Goto, Coming, TypeOK
  <2> QED
    BY <1>0, <1>b, <2>1 DEF TypeOK
<1>c. ASSUME Coming' \subseteq Coming, UNCHANGED nextID
      PROVE  RoomOK'
  BY <1>0, <1>c DEF TypeOK
<1>d. ASSUME UNCHANGED <<pc, nextID>>
      PROVE  RoomOK'
  BY <1>c, <1>d DEF Coming
<1> USE DEF runnerVars, handlerVars
<1>1. ASSUME NEW h \in Handlers, RateLimit(h)
      PROVE  RoomOK'
  <2>1. h \in Coming
    BY <1>1, RateLimitDoes DEF Coming
  <2> QED
    BY <1>1, <1>a, <1>b, <2>1, RateLimitDoes
<1>2. ASSUME NEW h \in Handlers, Initialize(h)
      PROVE  RoomOK'
  BY <1>2, <1>a DEF Initialize
<1>3. ASSUME NEW h \in Handlers, CheckSession(h)
      PROVE  RoomOK'
  <2>1. h \in Coming
    BY <1>3, CheckSessionDoes DEF Coming
  <2> QED
    BY <1>3, <1>a, <1>b, <2>1, CheckSessionDoes
<1>4. ASSUME NEW h \in Handlers, LooksUp(h)
      PROVE  RoomOK'
  <2>1. h \in Coming
    BY <1>4, LooksUpDoes DEF Coming
  <2> QED
    BY <1>4, <1>a, <1>b, <2>1, LooksUpDoes DEF Gets
<1>5. ASSUME NEW h \in Handlers, Forwards(h)
      PROVE  RoomOK'
  <2>1. h \in Coming
    BY <1>5 DEF Forwards, Coming
  <2>2. CASE Ends(h) /\ UNCHANGED nextID
    BY <1>a, <2>2
  <2>3. PICK i \in Insts : i = on[h]
    BY <1>5 DEF Forwards, TypeOK
  <2>4. CASE Goto(h, "waiting") /\ nextID' = [nextID EXCEPT ![i] = @ + 1]
    <3>1. Coming' \subseteq Coming \ {h}
      BY <2>4 DEF Goto, Coming, TypeOK
    <3>2. /\ Cardinality(Coming') \in Nat /\ Cardinality(Coming \ {h}) \in Nat
          /\ Cardinality(Coming') <= Cardinality(Coming \ {h})
          /\ Cardinality(Coming \ {h}) = Cardinality(Coming) - 1
      BY <2>1, <3>1, ComingFinite, FS_RemoveElement, FS_Subset, FS_CardinalityType
    <3> HIDE DEF Coming
    <3> QED
      BY <2>4, <3>2, ComingFinite, Constants DEF RoomOK, TypeOK
  <2> QED
    BY <1>5, <2>2, <2>3, <2>4, ForwardsDoes
<1>6. ASSUME NEW h \in Handlers, Writes(h)
      PROVE  RoomOK'
  BY <1>6, <1>a DEF Writes
<1>7. ASSUME NEW h \in Handlers, GivesUp(h)
      PROVE  RoomOK'
  BY <1>7, <1>a DEF GivesUp
<1>8. ASSUME NEW h \in Handlers, NEW q \in Requests, Arrives(h, q)
      PROVE  RoomOK'
  <2>1. nextID' = nextID /\ h \notin Busy
        /\ \A i \in Insts : nextID[i] + Cardinality(Busy) < MaxWire
    BY <1>8 DEF Arrives, MayArrive, Busy
  <2>2. Coming' \subseteq Busy \cup {h}
    BY <1>8 DEF Arrives, Goto, Coming, Busy, TypeOK
  <2>3. /\ Cardinality(Coming') \in Nat
        /\ Cardinality(Coming') <= Cardinality(Busy) + 1
    <3>1. /\ IsFiniteSet(Busy \cup {h})
          /\ Cardinality(Busy \cup {h}) = Cardinality(Busy) + 1
      BY <2>1, ComingFinite, FS_AddElement
    <3> QED
      BY <2>2, <3>1, FS_Subset, FS_CardinalityType
  <2> QED
    BY <2>1, <2>3, ComingFinite, Constants DEF RoomOK, TypeOK
<1>9. ASSUME NEW i \in Insts, ChildAnswers(i)
      PROVE  RoomOK'
  <2>1. nextID' = nextID
    BY <1>9 DEF ChildAnswers
  <2>2. ASSUME NEW h \in Handlers, Goto(h, "reply")
        PROVE  Coming' \subseteq Coming
    BY <2>2 DEF Goto, Coming, TypeOK
  <2> QED
    BY <1>9, <1>c, <1>d, <2>1, <2>2 DEF ChildAnswers, Waiting
<1>10. ASSUME NEW i \in Insts, ChildNotified(i)
       PROVE  RoomOK'
  BY <1>10, <1>d DEF ChildNotified
<1>11. ASSUME NEW i \in Insts, ChildDies(i)
       PROVE  RoomOK'
  BY <1>11, <1>d DEF ChildDies
<1>12. ASSUME NEW i \in Insts, Drains(i)
       PROVE  RoomOK'
  <2>1. Coming' \subseteq Coming
    BY <1>12 DEF Drains, Coming
  <2> QED
    BY <1>12, <1>c, <2>1 DEF Drains
<1>13. ASSUME NEW k \in Keys, Evicts(k)
       PROVE  RoomOK'
  BY <1>13, <1>d DEF Evicts
<1>14. ASSUME NEW i \in Insts, Stops(i)
       PROVE  RoomOK'
  BY <1>14, <1>d DEF Stops
<1> QED
  BY <1>1, <1>2, <1>3, <1>4, <1>5, <1>6, <1>7, <1>8, <1>9, <1>10, <1>11, <1>12, <1>13, <1>14
     DEF Next, HandlerStep
-----------------------------------------------------------------------------
(* Ids and answers.                                                         *)

(* Nobody begins to wait or gets an answer; nothing new is asked.           *)
Undisturbed ==
  \A g \in Handlers : pc'[g] \in {"waiting", "reply"} =>
    /\ pc'[g] = pc[g] /\ request'[g] = request[g] /\ on'[g] = on[g]
    /\ wire'[g] = wire[g] /\ reply'[g] = reply[g]
NothingAsked == \A i \in Insts : \A x \in lines'[i] : IsCall(x) => x \in lines[i]

LEMMA UndisturbedAnswers ==
  ASSUME TypeOK, WireOK, OwnAnswer, Undisturbed, NothingAsked, mode' = mode, nextID' = nextID
  PROVE  WireOK' /\ OwnAnswer'
<1>1. ASSUME NEW g \in Handlers, pc'[g] \in {"waiting", "reply"}
      PROVE  /\ pc'[g] = pc[g] /\ request'[g] = request[g] /\ on'[g] = on[g]
             /\ wire'[g] = wire[g] /\ reply'[g] = reply[g]
             /\ Key(g)' = Key(g) /\ on[g] \in Insts
  BY <1>1, SameKey DEF Undisturbed, TypeOK
<1>2. ASSUME NEW h \in Handlers, pc'[h] = "waiting"
      PROVE  wire'[h] \in 1..nextID'[on'[h]]
  BY <1>1, <1>2 DEF WireOK
<1>3. ASSUME NEW g \in Handlers, NEW h \in Handlers, pc'[g] = "waiting", pc'[h] = "waiting",
             on'[g] = on'[h], wire'[g] = wire'[h]
      PROVE  g = h
  BY <1>1, <1>3 DEF WireOK
<1>4. ASSUME NEW i \in Insts, NEW x \in lines'[i], IsCall(x)
      PROVE  x.id \in 1..nextID'[i]
  BY <1>4 DEF WireOK, NothingAsked
<1>5. ASSUME NEW h \in Handlers, pc'[h] = "waiting",
             NEW x \in lines'[on'[h]], IsCall(x), x.id = wire'[h]
      PROVE  x.of = <<h, request'[h]>>
  BY <1>1, <1>5 DEF WireOK, NothingAsked
<1>6. OwnAnswer'
  BY <1>1 DEF OwnAnswer
<1> QED
  BY <1>2, <1>3, <1>4, <1>5, <1>6 DEF WireOK

LEMMA CallAnswers ==
  ASSUME TypeOK, FunctionsOK, WireOK, OwnAnswer, mode' = mode,
         NEW h \in Handlers, pc[h] = "held",
         Goto(h, "waiting"), UNCHANGED <<request, on, reply>>,
         nextID' = [nextID EXCEPT ![on[h]] = @ + 1],
         wire' = [wire EXCEPT ![h] = nextID[on[h]] + 1],
         lines' = [lines EXCEPT ![on[h]] = @ \cup {Line(h, nextID[on[h]] + 1)}]
  PROVE  WireOK' /\ OwnAnswer'
<1>0. PICK i \in Insts : i = on[h]
  BY DEF TypeOK
<1>1. /\ \A j \in Insts : nextID[j] \in Nat /\ nextID'[j] = IF j = i THEN nextID[i] + 1 ELSE nextID[j]
      /\ \A g \in Handlers : wire'[g] = IF g = h THEN nextID[i] + 1 ELSE wire[g]
      /\ \A j \in Insts : lines'[j] = IF j = i THEN lines[i] \cup {Line(h, nextID[i] + 1)}
                                      ELSE lines[j]
  BY <1>0 DEF TypeOK, FunctionsOK
<1>2. \A g \in Handlers : pc'[g] = IF g = h THEN "waiting" ELSE pc[g]
  BY DEF Goto, TypeOK
<1>3. \A g \in Handlers : Key(g)' = Key(g)
  BY SameKey
<1>4. \A g \in Handlers : pc[g] = "waiting" => on[g] \in Insts
  BY DEF TypeOK
<1>5. Line(h, nextID[i] + 1).id = nextID[i] + 1
      /\ Line(h, nextID[i] + 1).of = <<h, request[h]>>
  BY DEF Line
<1>6. ASSUME NEW g \in Handlers, pc'[g] = "waiting"
      PROVE  wire'[g] \in 1..nextID'[on'[g]]
  BY <1>0, <1>1, <1>2, <1>4, <1>6 DEF WireOK
<1>7. ASSUME NEW f \in Handlers, NEW g \in Handlers, pc'[f] = "waiting", pc'[g] = "waiting",
             on'[f] = on'[g], wire'[f] = wire'[g]
      PROVE  f = g
  BY <1>0, <1>1, <1>2, <1>4, <1>7 DEF WireOK
<1>8. ASSUME NEW j \in Insts, NEW x \in lines'[j], IsCall(x)
      PROVE  x.id \in 1..nextID'[j]
  BY <1>1, <1>5, <1>8 DEF WireOK
<1>9. ASSUME NEW g \in Handlers, pc'[g] = "waiting",
             NEW x \in lines'[on'[g]], IsCall(x), x.id = wire'[g]
      PROVE  x.of = <<g, request'[g]>>
  BY <1>0, <1>1, <1>2, <1>4, <1>5, <1>9 DEF WireOK
<1>10. OwnAnswer'
  BY <1>2, <1>3 DEF OwnAnswer
<1> QED
  BY <1>6, <1>7, <1>8, <1>9, <1>10 DEF WireOK

(* The answer goes to the one who waits for its id, who asked for it, of    *)
(* the partition its runner was built for.                                  *)
LEMMA ChildAnswersAnswers ==
  ASSUME TypeOK, FunctionsOK, Serving, WireOK, OwnAnswer, NEW i \in Insts, ChildAnswers(i)
  PROVE  WireOK' /\ OwnAnswer'
<1>1. PICK x \in lines[i] :
        /\ IsCall(x)
        /\ lines' = [lines EXCEPT ![i] = @ \ {x}]
        /\ \/ UNCHANGED <<pc, wire, reply>>
           \/ \E h \in Waiting(i, {x.id}) :
                /\ Goto(h, "reply")
                /\ wire' = [wire EXCEPT ![h] = None]
                /\ reply' = [reply EXCEPT ![h] =
                     [id |-> request[h].id, by |-> serves[i], of |-> x.of]]
  BY DEF ChildAnswers
<1>2. UNCHANGED <<mode, request, on, nextID>>
  BY DEF ChildAnswers
<1>3. \A j \in Insts : lines'[j] \subseteq lines[j]
  BY <1>1 DEF FunctionsOK
<1>4. CASE UNCHANGED <<pc, wire, reply>>
  <2>1. Undisturbed /\ NothingAsked
    BY <1>2, <1>3, <1>4 DEF Undisturbed, NothingAsked
  <2> QED
    BY <1>2, <2>1, UndisturbedAnswers
<1>5. ASSUME NEW h \in Waiting(i, {x.id}),
             Goto(h, "reply"), wire' = [wire EXCEPT ![h] = None],
             reply' = [reply EXCEPT ![h] = [id |-> request[h].id, by |-> serves[i], of |-> x.of]]
      PROVE  WireOK' /\ OwnAnswer'
  <2>1. h \in Handlers /\ pc[h] = "waiting" /\ on[h] = i /\ wire[h] = x.id
    BY DEF Waiting
  <2>2. x.of = <<h, request[h]>> /\ serves[i] = Key(h)
    BY <1>1, <2>1 DEF WireOK, Serving
  <2>3. /\ \A g \in Handlers : pc'[g] = IF g = h THEN "reply" ELSE pc[g]
        /\ \A g \in Handlers : wire'[g] = IF g = h THEN None ELSE wire[g]
        /\ \A g \in Handlers : reply'[g] =
             IF g = h THEN [id |-> request[h].id, by |-> serves[i], of |-> x.of] ELSE reply[g]
    BY <1>5, <2>1 DEF Goto, TypeOK, FunctionsOK
  <2>4. \A g \in Handlers : Key(g)' = Key(g)
    BY <1>2, SameKey
  <2>5. \A g \in Handlers : pc[g] = "waiting" => on[g] \in Insts
    BY DEF TypeOK
  <2>6. WireOK'
    BY <1>2, <1>3, <2>3, <2>5 DEF WireOK
  <2>7. OwnAnswer'
    BY <1>2, <2>1, <2>2, <2>3, <2>4 DEF OwnAnswer
  <2> QED
    BY <2>6, <2>7
<1> QED
  BY <1>1, <1>4, <1>5

LEMMA InitAnswers == Init => WireOK /\ OwnAnswer
  BY DEF Init, WireOK, OwnAnswer

LEMMA StepAnswers ==
  ASSUME TypeOK, FunctionsOK, Passed, Checked, Serving, RoomOK, WireOK, OwnAnswer, Next
  PROVE  WireOK' /\ OwnAnswer'
<1>0. mode' = mode
  BY StepMoves
<1>a. ASSUME Undisturbed, NothingAsked, UNCHANGED nextID
      PROVE  WireOK' /\ OwnAnswer'
  BY <1>0, <1>a, UndisturbedAnswers
<1>b. ASSUME NEW h \in Handlers, Ends(h), NothingAsked, UNCHANGED nextID,
             wire' = wire \/ wire' = [wire EXCEPT ![h] = None],
             reply' = reply \/ reply' = [reply EXCEPT ![h] = None]
      PROVE  WireOK' /\ OwnAnswer'
  <2>1. Undisturbed
    BY <1>b DEF Undisturbed, Ends, Goto, TypeOK, FunctionsOK
  <2> QED
    BY <1>a, <1>b, <2>1
<1>c. ASSUME NEW h \in Handlers, NEW place, place \in {"limit", "session", "route", "held"},
             Goto(h, place), NothingAsked, UNCHANGED <<nextID, wire, reply>>,
             \A g \in Handlers : g # h => request'[g] = request[g] /\ on'[g] = on[g]
      PROVE  WireOK' /\ OwnAnswer'
  <2>1. Undisturbed
    BY <1>c DEF Undisturbed, Goto, TypeOK
  <2> QED
    BY <1>a, <1>c, <2>1
<1>d. ASSUME UNCHANGED lines
      PROVE  NothingAsked
  BY <1>d DEF NothingAsked
<1>e. ASSUME UNCHANGED handlerVars
      PROVE  Undisturbed
  BY <1>e DEF Undisturbed, handlerVars
<1> USE DEF runnerVars
<1>1. ASSUME NEW h \in Handlers, RateLimit(h)
      PROVE  WireOK' /\ OwnAnswer'
  BY <1>1, <1>b, <1>c, <1>d, RateLimitDoes
<1>2. ASSUME NEW h \in Handlers, Initialize(h)
      PROVE  WireOK' /\ OwnAnswer'
  BY <1>2, <1>b, <1>d DEF Initialize
<1>3. ASSUME NEW h \in Handlers, CheckSession(h)
      PROVE  WireOK' /\ OwnAnswer'
  BY <1>3, <1>b, <1>c, <1>d, CheckSessionDoes
<1>4. ASSUME NEW h \in Handlers, LooksUp(h)
      PROVE  WireOK' /\ OwnAnswer'
    <2>1. CASE Ends(h)
    BY <1>4, <1>b, <1>d, <2>1, LooksUpDoes
  <2>2. ASSUME NEW i \in Insts, Gets(h, i)
        PROVE  WireOK' /\ OwnAnswer'
    <3>1. \A g \in Handlers : g # h => request'[g] = request[g] /\ on'[g] = on[g]
      BY <2>2 DEF Gets, FunctionsOK
    <3> QED
      BY <1>4, <1>c, <1>d, <2>2, <3>1, LooksUpDoes DEF Gets
  <2> QED
    BY <1>4, <2>1, <2>2, LooksUpDoes
<1>5. ASSUME NEW h \in Handlers, Forwards(h)
      PROVE  WireOK' /\ OwnAnswer'
  <2>0. pc[h] = "held" /\ UNCHANGED reply
    BY <1>5, ForwardsDoes
  <2>1. CASE Ends(h) /\ UNCHANGED <<wire, nextID, lines>>
    BY <1>b, <1>d, <2>0, <2>1
  <2>2. CASE /\ request[h].method \in Notifications
             /\ Ends(h) /\ UNCHANGED <<wire, nextID>>
             /\ lines' = [lines EXCEPT ![on[h]] = @ \cup {Line(h, request[h].id)}]
    <3>1. ~IsCall(Line(h, request[h].id))
      BY <2>2 DEF Line, IsCall, Calls, Notifications
    <3>2. PICK i \in Insts : i = on[h]
      BY <2>0 DEF TypeOK
    <3>3. NothingAsked
      BY <2>2, <3>1, <3>2 DEF NothingAsked, FunctionsOK
    <3> QED
      BY <1>b, <2>0, <2>2, <3>3
  <2>3. CASE /\ Goto(h, "waiting") /\ UNCHANGED <<request, on>>
             /\ nextID' = [nextID EXCEPT ![on[h]] = @ + 1]
             /\ wire' = [wire EXCEPT ![h] = nextID[on[h]] + 1]
             /\ lines' = [lines EXCEPT ![on[h]] = @ \cup {Line(h, nextID[on[h]] + 1)}]
    BY <1>0, <2>0, <2>3, CallAnswers
  <2> QED
    BY <1>5, <2>1, <2>2, <2>3, ForwardsDoes
<1>6. ASSUME NEW h \in Handlers, Writes(h)
      PROVE  WireOK' /\ OwnAnswer'
  BY <1>6, <1>b, <1>d DEF Writes
<1>7. ASSUME NEW h \in Handlers, GivesUp(h)
      PROVE  WireOK' /\ OwnAnswer'
  BY <1>7, <1>b, <1>d DEF GivesUp
<1>8. ASSUME NEW h \in Handlers, NEW q \in Requests, Arrives(h, q)
      PROVE  WireOK' /\ OwnAnswer'
  <2>1. \A g \in Handlers : g # h => request'[g] = request[g] /\ on'[g] = on[g]
    BY <1>8 DEF Arrives, TypeOK
  <2> QED
    BY <1>8, <1>c, <1>d, <2>1 DEF Arrives
<1>9. ASSUME NEW i \in Insts, ChildAnswers(i)
      PROVE  WireOK' /\ OwnAnswer'
  BY <1>9, ChildAnswersAnswers
<1>10. ASSUME NEW i \in Insts, ChildNotified(i)
       PROVE  WireOK' /\ OwnAnswer'
  <2>1. NothingAsked
    BY <1>10 DEF ChildNotified, NothingAsked, FunctionsOK
  <2> QED
    BY <1>10, <1>a, <1>e, <2>1 DEF ChildNotified
<1>11. ASSUME NEW i \in Insts, ChildDies(i)
       PROVE  WireOK' /\ OwnAnswer'
  <2>1. NothingAsked
    BY <1>11 DEF ChildDies, NothingAsked, FunctionsOK
  <2> QED
    BY <1>11, <1>a, <1>e, <2>1 DEF ChildDies
<1>12. ASSUME NEW i \in Insts, Drains(i)
       PROVE  WireOK' /\ OwnAnswer'
  <2>1. Undisturbed
    BY <1>12 DEF Drains, Undisturbed
  <2> QED
    BY <1>12, <1>a, <1>d, <2>1 DEF Drains
<1>13. ASSUME NEW k \in Keys, Evicts(k)
       PROVE  WireOK' /\ OwnAnswer'
  BY <1>13, <1>a, <1>d, <1>e DEF Evicts
<1>14. ASSUME NEW i \in Insts, Stops(i)
       PROVE  WireOK' /\ OwnAnswer'
  BY <1>14, <1>a, <1>d, <1>e DEF Stops
<1> QED
  BY <1>1, <1>2, <1>3, <1>4, <1>5, <1>6, <1>7, <1>8, <1>9, <1>10, <1>11, <1>12, <1>13, <1>14
     DEF Next, HandlerStep
-----------------------------------------------------------------------------
(* What reaches a child.                                                    *)

(* The session of a line belongs to somebody, so its owner stays.           *)
LEMMA LineOwner ==
  ASSUME FunctionsOK, AllAdmitted, NEW i \in Insts, NEW x \in lines[i]
  PROVE  /\ x.of[2] \in Requests /\ x.of[2].session \in Sessions
         /\ owner[x.of[2].session] # None
<1>1. x.of[2] \in Requests /\ x.of[2].session \in Sessions
  BY Constants DEF FunctionsOK, AllAdmitted, Forwarded, Calls, Notifications
<1>2. owner[x.of[2].session] \in Subjects
  BY DEF AllAdmitted, Admitted, Subjects
<1> QED
  BY <1>1, <1>2, Constants

LEMMA LineKept ==
  ASSUME TypeOK, FunctionsOK, Passed, Checked, AllAdmitted, Next,
         NEW i \in Insts, NEW x \in lines[i]
  PROVE  /\ owner'[x.of[2].session] = owner[x.of[2].session]
         /\ serves'[i] # None
         /\ x.of[2].method \in Forwarded /\ Admitted(x.of[2], serves[i])'
<1>1. /\ owner'[x.of[2].session] = owner[x.of[2].session] /\ mode' = mode
      /\ serves[i] # None /\ serves'[i] = serves[i]
  BY LineOwner, StepMoves DEF AllAdmitted
<1>2. x.of[2].method \in Forwarded /\ Admitted(x.of[2], serves[i])
  BY DEF AllAdmitted
<1> QED
  BY <1>1, <1>2 DEF Admitted

LEMMA SentAdmitted ==
  ASSUME Passed, Checked, NEW h \in Handlers, pc[h] = "held",
         request[h].method \in Notifications \/ ~GateRefuses(h)
  PROVE  Admitted(request[h], Key(h))
<1>1. /\ MayPass(request[h]) /\ owner[request[h].session] = Subject(h)
      /\ request[h].method \in Forwarded
  BY DEF Passed, Checked
<1>2. PICK i \in 1..Len(APIKeys) :
        /\ IdentityOf[request[h].token] = APIKeys[i]
        /\ APIKeys[i].hash = request[h].token /\ APIKeys[i].audience = Audience
  BY <1>1, IdentityMatches DEF MayPass
<1>3. Subject(h) = APIKeys[i].subject
  BY <1>2 DEF Subject, Identity
<1>4. request[h].origin \in AllowedOrigins \cup {Absent}
  BY <1>1 DEF MayPass, OriginPasses
<1>5. request[h].version \in SupportedProtocolVersions \cup {Absent}
  BY <1>1 DEF MayPass, VersionPasses
<1>6. mode = "isolate" => Key(h) = APIKeys[i].subject
  BY <1>3 DEF Key, PartitionKey
<1>7. request[h].method = "call" /\ request[h].name # Absent =>
        \E s \in APIKeys[i].scopes : request[h].name \in Grants[s]
  BY <1>2 DEF GateRefuses, Allows, Identity, Notifications
<1> QED
  BY <1>1, <1>2, <1>3, <1>4, <1>5, <1>6, <1>7 DEF Admitted

LEMMA StepAdmitted ==
  ASSUME TypeOK, FunctionsOK, Passed, Checked, Serving, AllAdmitted, Next
  PROVE  AllAdmitted'
<1>a. ASSUME \A i \in Insts : lines'[i] \subseteq lines[i]
      PROVE  AllAdmitted'
  BY <1>a, LineKept DEF AllAdmitted
<1>b. UNCHANGED lines => AllAdmitted'
  BY <1>a
<1> USE DEF runnerVars
<1>1. ASSUME NEW h \in Handlers, Forwards(h)
      PROVE  AllAdmitted'
  <2>1. pc[h] = "held" /\ owner' = owner /\ mode' = mode /\ serves' = serves
    BY <1>1, ForwardsDoes
  <2>2. PICK i \in Insts : i = on[h]
    BY <2>1 DEF TypeOK
  <2>3. ASSUME NEW id, lines' = [lines EXCEPT ![i] = @ \cup {Line(h, id)}],
               request[h].method \in Notifications \/ ~GateRefuses(h)
        PROVE  AllAdmitted'
    <3>1. PICK q \in Requests : q = request[h]
      BY <2>1, BusySubject
    <3>2. q.method \in Forwarded /\ Admitted(q, serves[i]) /\ serves[i] # None
      BY <2>1, <2>2, <2>3, <3>1, SentAdmitted, BusySubject, Constants DEF Checked, Serving
    <3>3. Admitted(q, serves[i])'
      BY <2>1, <3>2 DEF Admitted
    <3>4. ASSUME NEW j \in Insts, NEW x \in lines'[j]
          PROVE  x \in lines[j] \/ (j = i /\ x.of[2] = q)
      BY <2>3, <3>1, <3>4 DEF FunctionsOK, Line
    <3> QED
      BY <2>1, <3>2, <3>3, <3>4, LineKept DEF AllAdmitted
  <2>4. CASE UNCHANGED lines
    BY <1>b, <2>4
  <2> QED
    BY <1>1, <1>b, <2>2, <2>3, ForwardsDoes
<1>2. ASSUME NEW h \in Handlers, RateLimit(h)
      PROVE  AllAdmitted'
  BY <1>2, <1>b, RateLimitDoes
<1>3. ASSUME NEW h \in Handlers, CheckSession(h)
      PROVE  AllAdmitted'
  BY <1>3, <1>b, CheckSessionDoes
<1>4. ASSUME NEW h \in Handlers, Initialize(h) \/ LooksUp(h) \/ Writes(h) \/ GivesUp(h)
      PROVE  AllAdmitted'
  BY <1>4, <1>b DEF Initialize, LooksUp, Writes, GivesUp
<1>5. ASSUME NEW h \in Handlers, NEW q \in Requests, Arrives(h, q)
      PROVE  AllAdmitted'
  BY <1>5, <1>b DEF Arrives
<1>6. ASSUME NEW i \in Insts, Drains(i) \/ Stops(i)
      PROVE  AllAdmitted'
  BY <1>6, <1>b DEF Drains, Stops
<1>7. ASSUME NEW k \in Keys, Evicts(k)
      PROVE  AllAdmitted'
  BY <1>7, <1>b DEF Evicts
<1>8. ASSUME NEW i \in Insts, ChildAnswers(i) \/ ChildNotified(i) \/ ChildDies(i)
      PROVE  \A j \in Insts : lines'[j] \subseteq lines[j]
  BY <1>8 DEF FunctionsOK, ChildAnswers, ChildNotified, ChildDies
<1> QED
  BY <1>a, <1>1, <1>2, <1>3, <1>4, <1>5, <1>6, <1>7, <1>8 DEF Next, HandlerStep

LEMMA InitAdmitted == Init => AllAdmitted
  BY DEF Init, AllAdmitted
-----------------------------------------------------------------------------
(* What a subject has paid for.                                             *)

LEMMA PayingFinite ==
  \A s \in Subjects : IsFiniteSet(Paying(s)) /\ Cardinality(Paying(s)) \in Nat
<1> TAKE s \in Subjects
<1>1. IsFiniteSet(Paying(s))
  BY Constants, FS_Subset DEF Paying
<1> QED
  BY <1>1, FS_CardinalityType

LEMMA InitPaid == Init => PaidFor
<1> SUFFICES ASSUME Init, NEW s \in Subjects \ {NoSubject}
             PROVE  /\ IsFiniteSet(LinesOf(s))
                    /\ Cardinality(LinesOf(s)) + Cardinality(Paying(s)) <= Burst - tokens[s]
  BY DEF PaidFor
<1>1. LinesOf(s) = {} /\ Paying(s) = {}
  BY DEF Init, LinesOf, Paying
<1>2. tokens[s] = Burst
  BY DEF Init
<1> QED
  BY <1>1, <1>2, FS_EmptySet, Constants

(* Lines of a subject do not come from anywhere.                            *)
LEMMA LinesOfKept ==
  ASSUME TypeOK, FunctionsOK, Passed, Checked, AllAdmitted, Next, NEW s \in Subjects,
         NEW New, \A i \in Insts : lines'[i] \subseteq lines[i] \cup New
  PROVE  LinesOf(s)' \subseteq LinesOf(s) \cup New
<1> SUFFICES ASSUME NEW x, x \in LinesOf(s)', x \notin New
             PROVE  x \in LinesOf(s)
  OBVIOUS
<1>1. PICK i \in Insts : x \in lines'[i]
  BY DEF LinesOf
<1>2. x \in lines[i] /\ owner'[x.of[2].session] = s
  BY <1>1 DEF LinesOf
<1>3. owner[x.of[2].session] = s
  BY <1>2, LineKept
<1> QED
  BY <1>2, <1>3 DEF LinesOf

LEMMA PaidKept ==
  ASSUME TypeOK, FunctionsOK, Passed, Checked, AllAdmitted, PaidFor, Next,
         NEW s \in Subjects \ {NoSubject},
         \A i \in Insts : lines'[i] \subseteq lines[i],
         Paying(s)' \subseteq Paying(s), tokens'[s] = tokens[s]
  PROVE  /\ IsFiniteSet(LinesOf(s)')
         /\ Cardinality(LinesOf(s)') + Cardinality(Paying(s)') <= Burst - tokens'[s]
<1>1. LinesOf(s)' \subseteq LinesOf(s)
  <2>1. \A i \in Insts : lines'[i] \subseteq lines[i] \cup {}
    OBVIOUS
  <2> QED
    BY <2>1, LinesOfKept
<1>2. /\ IsFiniteSet(LinesOf(s)) /\ tokens[s] \in 0..Burst
      /\ Cardinality(LinesOf(s)) + Cardinality(Paying(s)) <= Burst - tokens[s]
  BY DEF PaidFor, TypeOK
<1>3. /\ IsFiniteSet(LinesOf(s)')
      /\ Cardinality(LinesOf(s)) \in Nat /\ Cardinality(LinesOf(s)') \in Nat
      /\ Cardinality(LinesOf(s)') <= Cardinality(LinesOf(s))
  BY <1>1, <1>2, FS_Subset, FS_CardinalityType
<1>4. /\ Cardinality(Paying(s)) \in Nat /\ Cardinality(Paying(s)') \in Nat
      /\ Cardinality(Paying(s)') <= Cardinality(Paying(s))
  BY PayingFinite, FS_Subset, FS_CardinalityType
<1> QED
  BY <1>2, <1>3, <1>4, Constants

(* Only at the rate limiter a handler becomes one that has paid.            *)
LEMMA PayingKept ==
  ASSUME TypeOK, FunctionsOK, Passed, Checked, Next, NEW s \in Subjects, NEW New,
         \A g \in Handlers : pc[g] = "limit" /\ pc'[g] = "session" /\ Subject(g) = s => g \in New
  PROVE  Paying(s)' \subseteq Paying(s) \cup New
<1> SUFFICES ASSUME NEW g \in Handlers, pc'[g] \in {"session", "route", "held"}, Subject(g)' = s,
                    g \notin New
             PROVE  g \in Paying(s)
  BY DEF Paying
<1>1. Moves(g)
  BY StepMoves
<1>2. request'[g] = request[g]
  BY <1>1 DEF Moves
<1>3. Subject(g) = s
  BY <1>2 DEF Subject, Identity
<1>4. pc[g] \in {"session", "route", "held"}
  BY <1>1, <1>3 DEF Moves, Onward
<1> QED
  BY <1>3, <1>4 DEF Paying

LEMMA StepPaid ==
  ASSUME TypeOK, FunctionsOK, Passed, Checked, RoomOK, AllAdmitted, PaidFor, Next
  PROVE  PaidFor'
<1> DEFINE Fine(s) ==
      /\ IsFiniteSet(LinesOf(s)')
      /\ Cardinality(LinesOf(s)') + Cardinality(Paying(s)') <= Burst - tokens'[s]
<1> SUFFICES ASSUME NEW s \in Subjects \ {NoSubject}
             PROVE  Fine(s)
  BY DEF PaidFor
<1> HIDE DEF Fine
<1>0. /\ IsFiniteSet(LinesOf(s)) /\ Cardinality(LinesOf(s)) \in Nat
      /\ IsFiniteSet(Paying(s)) /\ Cardinality(Paying(s)) \in Nat
      /\ Cardinality(LinesOf(s)) + Cardinality(Paying(s)) <= Burst - tokens[s]
      /\ tokens[s] \in 0..Burst /\ Burst \in Nat
  BY PayingFinite, FS_CardinalityType, Constants DEF PaidFor, TypeOK
<1>a. ASSUME \A i \in Insts : lines'[i] \subseteq lines[i], tokens'[s] = tokens[s],
             \A g \in Handlers : ~(pc[g] = "limit" /\ pc'[g] = "session" /\ Subject(g) = s)
      PROVE  Fine(s)
  <2>1. Paying(s)' \subseteq Paying(s) \cup {}
    BY <1>a, PayingKept
  <2> QED
    BY <1>a, <2>1, PaidKept DEF Fine
<1>b. ASSUME UNCHANGED <<lines, tokens>>,
             NEW h \in Handlers, NEW place, Ends(h) \/ Goto(h, place),
             place # "session"
      PROVE  Fine(s)
  <2>1. \A g \in Handlers : ~(pc[g] = "limit" /\ pc'[g] = "session")
    BY <1>b DEF Ends, Goto, TypeOK
  <2> QED
    BY <1>a, <1>b, <2>1
<1> USE DEF runnerVars, handlerVars
<1>1. ASSUME NEW h \in Handlers, RateLimit(h)
      PROVE  Fine(s)
  <2>0. pc[h] = "limit" /\ UNCHANGED lines
    BY <1>1, RateLimitDoes
  <2>1. CASE Ends(h) /\ UNCHANGED tokens
    BY <1>b, <2>0, <2>1
  <2>2. CASE Goto(h, "session") /\ UNCHANGED <<tokens, request, on>> /\ Subject(h) = NoSubject
    <3>1. \A g \in Handlers : pc[g] = "limit" /\ pc'[g] = "session" => g = h
      BY <2>2 DEF Goto, TypeOK
    <3> QED
      BY <1>a, <2>0, <2>2, <3>1
  <2>3. CASE /\ tokens[Subject(h)] > 0
             /\ Goto(h, "session") /\ UNCHANGED <<request, on>>
             /\ tokens' = [tokens EXCEPT ![Subject(h)] = @ - 1]
    <3>1. \A g \in Handlers : pc[g] = "limit" /\ pc'[g] = "session" => g = h
      BY <2>3 DEF Goto, TypeOK
    <3>2. CASE Subject(h) # s
      <4>1. tokens'[s] = tokens[s]
        BY <2>3, <3>2 DEF TypeOK
      <4> QED
        BY <1>a, <2>0, <3>1, <3>2, <4>1
    <3>3. CASE Subject(h) = s
      <4>1. tokens'[s] = tokens[s] - 1
        BY <2>3, <3>3 DEF TypeOK
      <4>2. Paying(s)' \subseteq Paying(s) \cup {h}
        BY <3>1, PayingKept
      <4>3. LinesOf(s)' \subseteq LinesOf(s) \cup {}
        <5>1. \A i \in Insts : lines'[i] \subseteq lines[i] \cup {}
          BY <2>0
        <5> QED
          BY <5>1, LinesOfKept
      <4>4. h \notin Paying(s)
        BY <2>0 DEF Paying
      <4>5. /\ IsFiniteSet(Paying(s) \cup {h})
            /\ Cardinality(Paying(s) \cup {h}) = Cardinality(Paying(s)) + 1
        BY <1>0, <4>4, FS_AddElement
      <4>6. /\ Cardinality(Paying(s)') \in Nat
            /\ Cardinality(Paying(s)') <= Cardinality(Paying(s)) + 1
        BY <4>2, <4>5, FS_Subset, FS_CardinalityType
      <4>7. /\ IsFiniteSet(LinesOf(s)') /\ Cardinality(LinesOf(s)') \in Nat
            /\ Cardinality(LinesOf(s)') <= Cardinality(LinesOf(s))
        BY <1>0, <4>3, FS_Subset, FS_CardinalityType
      <4> QED
        BY <1>0, <4>1, <4>6, <4>7 DEF Fine
    <3> QED
      BY <3>2, <3>3
  <2> QED
    BY <1>1, <2>1, <2>2, <2>3, RateLimitDoes
<1>2. ASSUME NEW h \in Handlers, Initialize(h)
      PROVE  Fine(s)
  BY <1>2, <1>b DEF Initialize
<1>3. ASSUME NEW h \in Handlers, CheckSession(h)
      PROVE  Fine(s)
  BY <1>3, <1>b, CheckSessionDoes
<1>4. ASSUME NEW h \in Handlers, LooksUp(h)
      PROVE  Fine(s)
  <2>1. pc[h] = "route" /\ UNCHANGED <<lines, tokens>> /\ (Ends(h) \/ Goto(h, "held"))
    BY <1>4, LooksUpDoes DEF Gets
  <2> QED
    BY <1>b, <2>1
<1>5. ASSUME NEW h \in Handlers, Forwards(h)
      PROVE  Fine(s)
  <2>0. pc[h] = "held" /\ UNCHANGED <<tokens, owner>>
    BY <1>5, ForwardsDoes
  <2>1. CASE Ends(h) /\ UNCHANGED lines
    BY <1>b, <2>0, <2>1
  <2>2. PICK i \in Insts : i = on[h]
    BY <2>0 DEF TypeOK
  <2>3. ASSUME NEW id, lines' = [lines EXCEPT ![i] = @ \cup {Line(h, id)}],
               Ends(h) \/ (Goto(h, "waiting") /\ UNCHANGED request)
        PROVE  Fine(s)
    <3>1. PICK q \in Requests : q = request[h]
      BY <2>0, BusySubject
    <3>2. PICK x : x = [id |-> id, of |-> <<h, q>>]
      OBVIOUS
    <3>3. \A j \in Insts : lines'[j] \subseteq lines[j] \cup {x}
      BY <2>3, <3>1, <3>2 DEF Line, FunctionsOK
    <3>4. LinesOf(s)' \subseteq LinesOf(s) \cup {x}
      BY <3>3, LinesOfKept
    <3>5. h \notin Paying(s)'
      BY <2>3 DEF Ends, Goto, TypeOK, Paying
    <3>6. Paying(s)' \subseteq Paying(s) \cup {}
      <4>1. \A g \in Handlers : ~(pc[g] = "limit" /\ pc'[g] = "session")
        BY <2>3 DEF Ends, Goto, TypeOK
      <4> QED
        BY <4>1, PayingKept
    <3>7. tokens'[s] = tokens[s]
      BY <2>0
    <3>8. CASE Subject(h) = s
      <4>1. h \in Paying(s)
        BY <2>0, <3>8 DEF Paying
      <4>2. Paying(s)' \subseteq Paying(s) \ {h}
        BY <3>5, <3>6
      <4>3. /\ IsFiniteSet(Paying(s) \ {h})
            /\ Cardinality(Paying(s) \ {h}) = Cardinality(Paying(s)) - 1
        BY <1>0, <4>1, FS_RemoveElement
      <4>4. /\ Cardinality(Paying(s)') \in Nat
            /\ Cardinality(Paying(s)') <= Cardinality(Paying(s)) - 1
        BY <4>2, <4>3, FS_Subset, FS_CardinalityType
      <4>5. /\ IsFiniteSet(LinesOf(s) \cup {x})
            /\ Cardinality(LinesOf(s) \cup {x}) =
                 IF x \in LinesOf(s) THEN Cardinality(LinesOf(s)) ELSE Cardinality(LinesOf(s)) + 1
        BY <1>0, FS_AddElement
      <4>6. /\ IsFiniteSet(LinesOf(s)') /\ Cardinality(LinesOf(s)') \in Nat
            /\ Cardinality(LinesOf(s)') <= Cardinality(LinesOf(s) \cup {x})
        BY <3>4, <4>5, FS_Subset, FS_CardinalityType
      <4>7. Cardinality(LinesOf(s)') <= Cardinality(LinesOf(s)) + 1
        BY <1>0, <4>5, <4>6
      <4> QED
        BY <1>0, <3>7, <4>4, <4>6, <4>7 DEF Fine
    <3>9. CASE Subject(h) # s
      <4>1. owner'[q.session] # s
        BY <2>0, <3>1, <3>9 DEF Checked
      <4>2. x \notin LinesOf(s)'
        BY <3>2, <4>1 DEF LinesOf
      <4>3. LinesOf(s)' \subseteq LinesOf(s)
        BY <3>4, <4>2
      <4>4. /\ IsFiniteSet(LinesOf(s)') /\ Cardinality(LinesOf(s)') \in Nat
            /\ Cardinality(LinesOf(s)') <= Cardinality(LinesOf(s))
        BY <1>0, <4>3, FS_Subset, FS_CardinalityType
      <4>5. /\ Cardinality(Paying(s)') \in Nat
            /\ Cardinality(Paying(s)') <= Cardinality(Paying(s))
        BY <1>0, <3>6, FS_Subset, FS_CardinalityType
      <4> QED
        BY <1>0, <3>7, <4>4, <4>5 DEF Fine
    <3> QED
      BY <3>8, <3>9
  <2> QED
    BY <1>5, <2>1, <2>2, <2>3, ForwardsDoes
<1>6. ASSUME NEW h \in Handlers, Writes(h) \/ GivesUp(h)
      PROVE  Fine(s)
  BY <1>6, <1>b DEF Writes, GivesUp
<1>7. ASSUME NEW h \in Handlers, NEW q \in Requests, Arrives(h, q)
      PROVE  Fine(s)
  BY <1>7, <1>b DEF Arrives
<1>8. ASSUME NEW i \in Insts, ChildAnswers(i)
      PROVE  Fine(s)
  <2>1. tokens' = tokens /\ (\A j \in Insts : lines'[j] \subseteq lines[j])
    BY <1>8 DEF ChildAnswers, FunctionsOK
  <2>2. \A g \in Handlers : ~(pc[g] = "limit" /\ pc'[g] = "session")
    BY <1>8 DEF ChildAnswers, Goto, TypeOK
  <2> QED
    BY <1>a, <2>1, <2>2
<1>9. ASSUME NEW i \in Insts, Drains(i)
      PROVE  Fine(s)
  <2>1. \A g \in Handlers : ~(pc[g] = "limit" /\ pc'[g] = "session")
    BY <1>9 DEF Drains
  <2> QED
    BY <1>9, <1>a, <2>1 DEF Drains
<1>10. ASSUME NEW i \in Insts, ChildNotified(i) \/ ChildDies(i) \/ Stops(i)
       PROVE  Fine(s)
  <2>1. UNCHANGED <<pc, tokens>> /\ (\A j \in Insts : lines'[j] \subseteq lines[j])
    BY <1>10 DEF ChildNotified, ChildDies, Stops, FunctionsOK
  <2> QED
    BY <1>a, <2>1
<1>11. ASSUME NEW k \in Keys, Evicts(k)
       PROVE  Fine(s)
  BY <1>11, <1>a DEF Evicts
<1> QED
  BY <1>1, <1>2, <1>3, <1>4, <1>5, <1>6, <1>7, <1>8, <1>9, <1>10, <1>11 DEF Next, HandlerStep
-----------------------------------------------------------------------------
LEMMA InitInv == Init => GatewayInv
<1> SUFFICES ASSUME Init PROVE GatewayInv
  OBVIOUS
<1>1. Passed /\ Checked
  BY DEF Init, Passed, Checked
<1> QED
  BY <1>1, InitTypes, InitServing, InitRoom, InitAnswers, InitAdmitted, InitPaid DEF GatewayInv

LEMMA StepInv ==
  ASSUME GatewayInv, [Next]_vars
  PROVE  GatewayInv'
<1>1. CASE Next
  BY <1>1, StepTypes, StepPassed, StepChecked, StepServing, StepRoom, StepAnswers, StepAdmitted, StepPaid
     DEF GatewayInv
<1>2. CASE UNCHANGED vars
  <2> USE <1>2 DEF vars, handlerVars, runnerVars
  <2>1. TypeOK' /\ FunctionsOK' /\ OwnAnswer'
    BY DEF GatewayInv, TypeOK, FunctionsOK, OwnAnswer, Key, PartitionKey, Subject, Identity
  <2>2. Passed' /\ Checked'
    BY DEF GatewayInv, Passed, Checked, Subject, Identity
  <2>7. Serving'
    BY DEF GatewayInv, Serving, Key, PartitionKey, Subject, Identity
  <2>3. RoomOK'
    BY DEF GatewayInv, RoomOK, Coming
  <2>4. WireOK'
    BY DEF GatewayInv, WireOK, Key, PartitionKey, Subject, Identity
  <2>5. AllAdmitted'
    BY DEF GatewayInv, AllAdmitted, Admitted
  <2>6. PaidFor'
    BY DEF GatewayInv, PaidFor, LinesOf, Paying, Subject, Identity
  <2> QED
    BY <2>1, <2>2, <2>3, <2>4, <2>5, <2>6, <2>7 DEF GatewayInv
<1> QED
  BY <1>1, <1>2

LEMMA Invariance == Spec => []GatewayInv
  BY InitInv, StepInv, PTL DEF Spec

(* The variables hold values of their types.                                *)
THEOREM GatewayTypes == Spec => []TypeOK
<1>1. GatewayInv => TypeOK
  BY DEF GatewayInv
<1> QED
  BY <1>1, Invariance, PTL

(* From handler to wire and back: whatever ids clients choose, and however  *)
(* many runners count from one, the answer readLoop hands to a Call is its  *)
(* child's answer to that very request, with the id its client gave it.     *)
THEOREM AnswersArrive == Spec => []OwnAnswer
<1>1. GatewayInv => OwnAnswer
  BY DEF GatewayInv
<1> QED
  BY <1>1, Invariance, PTL

(* The whole chain, for what handleNotification and the forwarders of       *)
(* mcp_handler.go send: no line reaches a child unless its origin, its      *)
(* version, its key and its session allow it to, in the partition of that   *)
(* key, and the subject's bucket has paid for it.  The allowlist of the     *)
(* scopes stands only before what forwardWithNameGate sends; all other      *)
(* requests, and notifications of any method and name, pass without it.     *)
THEOREM NothingUnadmitted == Spec => []OnlyAdmittedForwarded
<1>1. GatewayInv => OnlyAdmittedForwarded
  <2> SUFFICES ASSUME GatewayInv PROVE OnlyAdmittedForwarded
    OBVIOUS
  <2>1. \A i \in Insts : \A x \in lines[i] : Admitted(x.of[2], serves[i])
    BY DEF GatewayInv, AllAdmitted
  <2>2. ASSUME NEW s \in Subjects \ {NoSubject}
        PROVE  Cardinality(LinesOf(s)) <= Burst - tokens[s]
    <3>1. /\ IsFiniteSet(LinesOf(s)) /\ tokens[s] \in 0..Burst
          /\ Cardinality(LinesOf(s)) + Cardinality(Paying(s)) <= Burst - tokens[s]
      BY DEF GatewayInv, PaidFor, TypeOK
    <3>2. Cardinality(LinesOf(s)) \in Nat /\ Cardinality(Paying(s)) \in Nat
      BY <3>1, PayingFinite, FS_CardinalityType
    <3> QED
      BY <3>1, <3>2, Constants
  <2> QED
    BY <2>1, <2>2 DEF OnlyAdmittedForwarded
<1> QED
  BY <1>1, Invariance, PTL
=============================================================================
