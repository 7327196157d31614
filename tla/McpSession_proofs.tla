------------------------- MODULE McpSession_proofs -------------------------
(***************************************************************************)
(* What McpSession guarantees for any number of handlers, identities and   *)
(* sessions, any idle timeout and any delay of handlers.                   *)
(***************************************************************************)
EXTENDS McpSession, TLAPS

Places == {"free", "creating", "lookup", "copying", "accepted", "touching",
           "marking", "forwarding", "streaming", "deleting"}
Records == [state : {"free", "live", "gone"}, subject : Subjects \cup {None},
            initialized : BOOLEAN, lastSeen : 0..MaxTime]
Requests == [who : Subjects \cup {None}, kind : AllKinds, session : Sessions \cup {None}]

(* The initial state has the types.                                         *)
LEMMA InitTypes == Init => TypeOK
  BY McpSessionAssumption DEF Init, TypeOK, NoRequest, AllKinds

(* A handler that answers keeps the types.                                  *)
LEMMA AnswerTypes ==
  ASSUME TypeOK, NEW h \in Handlers, Answer(h)
  PROVE  /\ pc' \in [Handlers -> Places]
         /\ request' \in [Handlers -> Requests]
         /\ stamp' \in [Handlers -> 0..MaxTime]
  <1>1. NoRequest \in Requests /\ 0 \in 0..MaxTime
    BY McpSessionAssumption DEF NoRequest, Requests, AllKinds
  <1> QED BY <1>1 DEF TypeOK, Answer, Goto, Places, Requests

(* So does what Touch and MarkInitialized do to the record of a session.    *)
LEMMA SeenTypes ==
  ASSUME TypeOK, NEW s, NEW t \in 0..MaxTime, NEW b,
         s \in Sessions => b \in BOOLEAN,
         Seen(s, t, b)
  PROVE  /\ sessions' \in [Sessions -> Records]
         /\ used' \in [Sessions -> 0..MaxTime]
  <1>1. CASE Live(s)
    <2>1. sessions \in [Sessions -> Records] /\ used \in [Sessions -> 0..MaxTime]
      BY DEF TypeOK, Records
    <2>2. /\ sessions' = [sessions EXCEPT ![s].lastSeen = t, ![s].initialized = b]
          /\ used' = [used EXCEPT ![s] = now]
      BY <1>1 DEF Seen
    <2>3. sessions' = [r \in Sessions |-> sessions'[r]]
      BY <2>1, <2>2
    <2>4. \A r \in Sessions : r # s => sessions'[r] = sessions[r]
      BY <2>1, <2>2
    <2>5. ASSUME s \in Sessions PROVE sessions'[s] \in Records
      <3>1. sessions'[s] = [[sessions[s] EXCEPT !.lastSeen = t] EXCEPT !.initialized = b]
        BY <2>1, <2>2, <2>5
      <3>2. sessions[s] \in Records /\ b \in BOOLEAN
        BY <2>1, <2>5
      <3> QED BY <3>1, <3>2 DEF Records
    <2>6. \A r \in Sessions : sessions'[r] \in Records
      BY <2>1, <2>4, <2>5
    <2>7. used' \in [Sessions -> 0..MaxTime]
      BY <2>1, <2>2 DEF TypeOK
    <2> QED BY <2>3, <2>6, <2>7
  <1>2. CASE ~Live(s)
    BY <1>2 DEF TypeOK, Seen, Records
  <1> QED BY <1>1, <1>2

(* Every step keeps the types: TypeOK is inductive as it stands.            *)
LEMMA NextTypes == TypeOK /\ [Next]_vars => TypeOK'
<1> SUFFICES ASSUME TypeOK, [Next]_vars PROVE TypeOK'
  OBVIOUS
<1> USE McpSessionAssumption DEF Places, Records, Requests, AllKinds
<1>1. ASSUME NEW h \in Handlers, NEW u \in Subjects, Mint(h, u) PROVE TypeOK'
  BY <1>1 DEF TypeOK, Mint, Goto, clockVars
<1>2. ASSUME NEW h \in Handlers, NEW u \in Subjects, NEW k \in Kinds, Arrive(h, u, k)
      PROVE TypeOK'
  BY <1>2 DEF TypeOK, Arrive, Goto, clockVars
<1>3. ASSUME NEW h \in Handlers, Create(h) PROVE TypeOK'
  <2>1. sessions' \in [Sessions -> Records] /\ used' \in [Sessions -> 0..MaxTime]
    BY <1>3 DEF TypeOK, Create
  <2> QED BY <1>3, <2>1, AnswerTypes DEF TypeOK, Create, clockVars
<1>4. ASSUME NEW h \in Handlers, Found(h) \/ Accept(h) PROVE TypeOK'
  BY <1>4 DEF TypeOK, Found, Accept, Goto, clockVars
<1>5. ASSUME NEW h \in Handlers,
             NotFound(h) \/ Foreign(h) \/ Forwarded(h) \/ StreamEnds(h)
      PROVE TypeOK'
  BY <1>5, AnswerTypes DEF TypeOK, NotFound, Foreign, Forwarded, StreamEnds, clockVars
<1>6. ASSUME NEW h \in Handlers, ReadClock(h) PROVE TypeOK'
  BY <1>6 DEF TypeOK, ReadClock, Goto, clockVars
<1>7. ASSUME NEW h \in Handlers, Touch(h) PROVE TypeOK'
  <2>1. Target(h) \in Sessions => sessions[Target(h)].initialized \in BOOLEAN
    BY DEF TypeOK
  <2>2. sessions' \in [Sessions -> Records] /\ used' \in [Sessions -> 0..MaxTime]
    BY <1>7, <2>1, SeenTypes DEF TypeOK, Touch
  <2>3. /\ pc' \in [Handlers -> Places]
        /\ request' \in [Handlers -> Requests]
        /\ stamp' \in [Handlers -> 0..MaxTime]
    BY <1>7, AnswerTypes DEF TypeOK, Touch, Goto
  <2> QED BY <1>7, <2>2, <2>3 DEF TypeOK, Touch, clockVars
<1>8. ASSUME NEW h \in Handlers, MarkInitialized(h) PROVE TypeOK'
  <2>1. sessions' \in [Sessions -> Records] /\ used' \in [Sessions -> 0..MaxTime]
    BY <1>8, SeenTypes DEF TypeOK, MarkInitialized
  <2> QED BY <1>8, <2>1, AnswerTypes DEF TypeOK, MarkInitialized, clockVars
<1>9. ASSUME NEW h \in Handlers, Delete(h) PROVE TypeOK'
  <2>1. sessions' \in [Sessions -> Records]
    <3>1. sessions \in [Sessions -> Records]
      BY DEF TypeOK
    <3>2. sessions' = [sessions EXCEPT ![Target(h)].state = "gone"]
      BY <1>9 DEF Delete
    <3>3. Target(h) \in Sessions => [sessions[Target(h)] EXCEPT !.state = "gone"] \in Records
      BY <3>1
    <3> HIDE DEF Records
    <3> QED BY <3>1, <3>2, <3>3
  <2> QED BY <1>9, <2>1, AnswerTypes DEF TypeOK, Delete, clockVars
<1>10. CASE Advance
  BY <1>10 DEF TypeOK, Advance, handlerVars
<1>11. CASE TickerFires
  BY <1>11 DEF TypeOK, TickerFires, handlerVars
<1>12. CASE ExpireBefore
  <2>1. \A s \in Sessions : [sessions[s] EXCEPT !.state = "gone"] \in Records
    BY DEF TypeOK
  <2>2. sessions' \in [Sessions -> Records]
    <3> HIDE DEF Records
    <3>1. sessions \in [Sessions -> Records]
      BY DEF TypeOK, Records
    <3> QED BY <1>12, <2>1, <3>1 DEF ExpireBefore
  <2> QED BY <1>12, <2>2 DEF TypeOK, ExpireBefore, handlerVars
<1>13. CASE UNCHANGED vars
  BY <1>13 DEF TypeOK, vars, handlerVars, clockVars
<1> QED BY <1>1, <1>2, <1>3, <1>4, <1>5, <1>6, <1>7, <1>8, <1>9, <1>10, <1>11, <1>12, <1>13
        DEF Next, HandlerStep

(* The store, the handlers and the clock hold values of their types.        *)
THEOREM SessionTypes == Spec => []TypeOK
  BY InitTypes, NextTypes, PTL DEF Spec
-----------------------------------------------------------------------------
(* What is known of the session a handler holds between two store calls:    *)
(* the one it is about to create is no one else's yet, any other has been   *)
(* minted, and past the check of the identity it is the requester's own.    *)
HeldOK(h) ==
  /\ pc[h] = "creating" =>
       /\ Target(h) \in Sessions
       /\ sessions[Target(h)].state = "free"
       /\ \A g \in Handlers \ {h} : Target(g) # Target(h)
  /\ pc[h] \notin {"free", "creating"} =>
       /\ Target(h) \in Sessions
       /\ sessions[Target(h)].state # "free"
  /\ pc[h] \in {"accepted", "touching", "marking", "forwarding",
                "streaming", "deleting"} => Owner(h)

HandsOK == \A h \in Handlers : HeldOK(h)

(* A step that leaves every record minted, or as it was, and every subject  *)
(* as it was: all a handler needs of the steps of others and of the sweep.  *)
Harmless ==
  \A s \in Sessions :
    /\ sessions[s].state # "free" =>
         /\ sessions'[s].state # "free"
         /\ sessions'[s].subject = sessions[s].subject
    /\ sessions[s].state = "free" => sessions'[s] = sessions[s]

LEMMA SeenHarmless ==
  ASSUME TypeOK, NEW s, NEW t, NEW b, Seen(s, t, b)
  PROVE  Harmless
<1>1. CASE Live(s)
  <2>1. \A r \in Sessions : r # s => sessions'[r] = sessions[r]
    BY <1>1 DEF TypeOK, Seen
  <2>2. s \in Sessions => /\ sessions'[s].state = sessions[s].state
                          /\ sessions'[s].subject = sessions[s].subject
    BY <1>1 DEF TypeOK, Seen
  <2> QED BY <1>1, <2>1, <2>2 DEF Live, Harmless
<1>2. CASE ~Live(s)
  BY <1>2 DEF Seen, Harmless
<1> QED BY <1>1, <1>2

LEMMA DeleteHarmless ==
  ASSUME TypeOK, NEW h \in Handlers, Delete(h), sessions[Target(h)].state # "free"
  PROVE  Harmless
  BY DEF TypeOK, Delete, Harmless

LEMMA ExpireHarmless == TypeOK /\ ExpireBefore => Harmless
  BY DEF TypeOK, ExpireBefore, Live, Harmless

(* A handler that does not move keeps what it knows under a harmless step.  *)
LEMMA HarmlessKeeps ==
  ASSUME HandsOK, Harmless, NEW h \in Handlers,
         pc'[h] = pc[h], request'[h] = request[h],
         \A g \in Handlers : request'[g] = request[g] \/ request'[g] = NoRequest
                              \/ (Target(g)' \in Sessions /\ Target(g)' # Target(h))
  PROVE  HeldOK(h)'
  BY McpSessionAssumption DEF HandsOK, HeldOK, Harmless, Target, Owner, NoRequest

(* A handler that answers lets go of its session.                           *)
LEMMA AnswerHands ==
  ASSUME TypeOK, HandsOK, Harmless, NEW g \in Handlers, Answer(g)
  PROVE  HandsOK'
<1> SUFFICES ASSUME NEW h \in Handlers PROVE HeldOK(h)'
  BY DEF HandsOK
<1>1. \A i \in Handlers : request'[i] = request[i] \/ request'[i] = NoRequest
  BY DEF TypeOK, Answer
<1>2. CASE h = g
  BY <1>2 DEF TypeOK, Answer, Goto, HeldOK
<1>3. CASE h # g
  <2>1. pc'[h] = pc[h] /\ request'[h] = request[h]
    BY <1>3 DEF TypeOK, Answer, Goto
  <2> QED BY <1>1, <2>1, HarmlessKeeps
<1> QED BY <1>2, <1>3

(* A handler that goes on with its session after the check of the identity. *)
LEMMA GoesOnHands ==
  ASSUME TypeOK, HandsOK, Harmless, NEW g \in Handlers,
         NEW place \in Places \ {"free", "creating"}, Goto(g, place),
         UNCHANGED request,
         pc[g] \notin {"free", "creating"},
         pc[g] \in {"lookup", "copying"} => place = "copying" \/ Owner(g)
  PROVE  HandsOK'
<1> SUFFICES ASSUME NEW h \in Handlers PROVE HeldOK(h)'
  BY DEF HandsOK
<1>1. CASE h = g
  <2>1. pc'[h] = place /\ Target(h)' = Target(h)
    BY <1>1 DEF TypeOK, Goto, Target
  <2>2. Target(h) \in Sessions /\ sessions[Target(h)].state # "free"
    BY <1>1 DEF HandsOK, HeldOK
  <2>3. place # "copying" /\ place # "lookup" => Owner(h)
    BY <1>1 DEF HandsOK, HeldOK, TypeOK, Places
  <2>4. Owner(h) => Owner(h)'
    BY <2>1, <2>2 DEF Owner, Harmless, Target
  <2> QED BY <2>1, <2>2, <2>3, <2>4 DEF HeldOK, Harmless
<1>2. CASE h # g
  <2>1. pc'[h] = pc[h]
    BY <1>2 DEF TypeOK, Goto
  <2> QED BY <2>1, HarmlessKeeps
<1> QED BY <1>1, <1>2

(* Every step keeps what handlers know of the sessions they hold.           *)
LEMMA NextHands == TypeOK /\ HandsOK /\ [Next]_vars => HandsOK'
<1> SUFFICES ASSUME TypeOK, HandsOK, [Next]_vars PROVE HandsOK'
  OBVIOUS
<1>1. ASSUME NEW g \in Handlers, NEW u \in Subjects, Mint(g, u) PROVE HandsOK'
  <2>1. PICK s \in Sessions :
          /\ NewSessionID(s)
          /\ request' = [request EXCEPT
                           ![g] = [who |-> u, kind |-> "initialize", session |-> s]]
    BY <1>1 DEF Mint
  <2>2. Target(g)' = s /\ pc'[g] = "creating" /\ sessions' = sessions
    BY <1>1, <2>1 DEF TypeOK, Mint, Goto, Target
  <2>3. ASSUME NEW h \in Handlers, h # g
        PROVE  pc'[h] = pc[h] /\ request'[h] = request[h] /\ Target(h) # s
    BY <1>1, <2>1, <2>3 DEF TypeOK, Mint, Goto, NewSessionID
  <2>4. HeldOK(g)'
    BY <2>1, <2>2, <2>3 DEF HeldOK, NewSessionID, Target
  <2>5. ASSUME NEW h \in Handlers, h # g PROVE HeldOK(h)'
    BY <2>2, <2>3, <2>5 DEF HandsOK, HeldOK, Target, Owner
  <2> QED BY <2>4, <2>5 DEF HandsOK
<1>2. ASSUME NEW g \in Handlers, NEW u \in Subjects, NEW k \in Kinds, Arrive(g, u, k)
      PROVE HandsOK'
  <2>1. PICK s \in Sessions :
          /\ sessions[s].state # "free"
          /\ request' = [request EXCEPT ![g] = [who |-> u, kind |-> k, session |-> s]]
    BY <1>2 DEF Arrive
  <2>2. Target(g)' = s /\ pc'[g] = "lookup" /\ sessions' = sessions
    BY <1>2, <2>1 DEF TypeOK, Arrive, Goto, Target
  <2>3. ASSUME NEW h \in Handlers, h # g
        PROVE  pc'[h] = pc[h] /\ request'[h] = request[h]
    BY <1>2, <2>1, <2>3 DEF TypeOK, Arrive, Goto
  <2>4. HeldOK(g)'
    BY <2>1, <2>2 DEF HeldOK
  <2>5. ASSUME NEW h \in Handlers, h # g PROVE HeldOK(h)'
    BY <2>1, <2>2, <2>3, <2>5 DEF HandsOK, HeldOK, Target, Owner
  <2> QED BY <2>4, <2>5 DEF HandsOK
<1>3. ASSUME NEW g \in Handlers, Create(g) PROVE HandsOK'
  <2>1. /\ Target(g) \in Sessions
        /\ sessions[Target(g)].state = "free"
        /\ \A h \in Handlers \ {g} : Target(h) # Target(g)
    BY <1>3 DEF Create, HandsOK, HeldOK
  <2>2. \A s \in Sessions \ {Target(g)} : sessions'[s] = sessions[s]
    BY <1>3 DEF TypeOK, Create
  <2>3. ASSUME NEW h \in Handlers, h # g
        PROVE  pc'[h] = pc[h] /\ request'[h] = request[h]
    BY <1>3, <2>3 DEF TypeOK, Create, Answer, Goto
  <2>4. pc'[g] = "free" /\ request'[g] = NoRequest
    BY <1>3 DEF TypeOK, Create, Answer, Goto
  <2>5. ASSUME NEW h \in Handlers, h # g PROVE HeldOK(h)'
    BY <2>1, <2>2, <2>3, <2>4, <2>5, McpSessionAssumption
       DEF HandsOK, HeldOK, Target, Owner, NoRequest
  <2>6. HeldOK(g)'
    BY <2>4 DEF HeldOK
  <2> QED BY <2>5, <2>6 DEF HandsOK
<1>4. ASSUME NEW g \in Handlers, Found(g) PROVE HandsOK'
  BY <1>4, GoesOnHands DEF Found, Places, Harmless
<1>5. ASSUME NEW g \in Handlers, Accept(g) PROVE HandsOK'
  <2>1. CASE Goto(g, "deleting")
    BY <1>5, <2>1, GoesOnHands DEF Accept, Places, Harmless
  <2>2. CASE Goto(g, "streaming")
    BY <1>5, <2>2, GoesOnHands DEF Accept, Places, Harmless
  <2>3. CASE Goto(g, "accepted")
    BY <1>5, <2>3, GoesOnHands DEF Accept, Places, Harmless
  <2> QED BY <1>5, <2>1, <2>2, <2>3 DEF Accept
<1>6. ASSUME NEW g \in Handlers,
             NotFound(g) \/ Foreign(g) \/ Forwarded(g) \/ StreamEnds(g)
      PROVE HandsOK'
  BY <1>6, AnswerHands DEF NotFound, Foreign, Forwarded, StreamEnds, Harmless
<1>7. ASSUME NEW g \in Handlers, ReadClock(g) PROVE HandsOK'
  BY <1>7, GoesOnHands DEF ReadClock, Places, Harmless
<1>8. ASSUME NEW g \in Handlers, Touch(g) PROVE HandsOK'
  <2>1. Harmless
    BY <1>8, SeenHarmless DEF Touch
  <2>2. CASE Goto(g, "marking") /\ UNCHANGED request
    BY <1>8, <2>1, <2>2, GoesOnHands DEF Touch, Places
  <2>3. CASE Goto(g, "forwarding") /\ UNCHANGED request
    BY <1>8, <2>1, <2>3, GoesOnHands DEF Touch, Places
  <2>4. CASE Answer(g)
    BY <2>1, <2>4, AnswerHands
  <2> QED BY <1>8, <2>2, <2>3, <2>4 DEF Touch
<1>9. ASSUME NEW g \in Handlers, MarkInitialized(g) PROVE HandsOK'
  BY <1>9, SeenHarmless, AnswerHands DEF MarkInitialized
<1>10. ASSUME NEW g \in Handlers, Delete(g) PROVE HandsOK'
  <2>1. sessions[Target(g)].state # "free"
    BY <1>10 DEF Delete, HandsOK, HeldOK
  <2> QED BY <1>10, <2>1, DeleteHarmless, AnswerHands DEF Delete
<1>11. CASE Advance \/ TickerFires \/ ExpireBefore \/ UNCHANGED vars
  <2>1. UNCHANGED <<pc, request>>
    BY <1>11 DEF Advance, TickerFires, ExpireBefore, vars, handlerVars
  <2>2. Harmless
    BY <1>11, ExpireHarmless DEF Advance, TickerFires, vars, Harmless
  <2> QED BY <2>1, <2>2, HarmlessKeeps DEF HandsOK
<1> QED BY <1>1, <1>2, <1>3, <1>4, <1>5, <1>6, <1>7, <1>8, <1>9, <1>10, <1>11
        DEF Next, HandlerStep

(* Both parts of the invariant hold of every behaviour.                     *)
LEMMA SessionInv == Spec => [](TypeOK /\ HandsOK)
<1>1. Init => HandsOK
  BY DEF Init, HandsOK, HeldOK
<1> QED BY <1>1, InitTypes, NextTypes, NextHands, PTL DEF Spec
-----------------------------------------------------------------------------
(* Only these steps change records, each in its own way.                    *)
LEMMA Writers ==
  ASSUME TypeOK, HandsOK, Next, NEW s \in Sessions, sessions'[s] # sessions[s]
  PROVE  \/ \E h \in Handlers : Target(h) = s /\ Create(h)
         \/ \E h \in Handlers : Target(h) = s /\ Touch(h)
         \/ \E h \in Handlers : Target(h) = s /\ MarkInitialized(h)
         \/ \E h \in Handlers : Target(h) = s /\ Delete(h)
         \/ ExpireBefore
<1>1. ASSUME NEW h \in Handlers, Create(h) PROVE Target(h) = s
  BY <1>1 DEF TypeOK, Create
<1>2. ASSUME NEW h \in Handlers, NEW t, NEW b, Seen(Target(h), t, b) PROVE Target(h) = s
  BY <1>2 DEF TypeOK, Seen
<1>3. ASSUME NEW h \in Handlers, Touch(h) \/ MarkInitialized(h) PROVE Target(h) = s
  BY <1>2, <1>3 DEF Touch, MarkInitialized
<1>4. ASSUME NEW h \in Handlers, Delete(h) PROVE Target(h) = s
  BY <1>4 DEF TypeOK, Delete
<1>5. ASSUME NEW h \in Handlers,
             \/ \E u \in Subjects : Mint(h, u) \/ \E k \in Kinds : Arrive(h, u, k)
             \/ Found(h) \/ NotFound(h) \/ Foreign(h) \/ Accept(h) \/ ReadClock(h)
             \/ Forwarded(h) \/ StreamEnds(h)
      PROVE  FALSE
  BY <1>5 DEF Mint, Arrive, Found, NotFound, Foreign, Accept, ReadClock, Forwarded, StreamEnds
<1>6. CASE Advance \/ TickerFires
  BY <1>6 DEF Advance, TickerFires
<1> QED BY <1>1, <1>3, <1>4, <1>5, <1>6 DEF Next, HandlerStep

(* 404 is final for a session id: neither a Touch nor a MarkInitialized     *)
(* that was overtaken, nor a later initialize, brings a session back.       *)
THEOREM GoneForGood == Spec => GoneIsFinal
<1>1. ASSUME TypeOK, HandsOK, [Next]_vars, NEW s \in Sessions, sessions[s].state = "gone"
      PROVE  sessions'[s] = sessions[s]
  <2>1. SUFFICES ASSUME Next, sessions'[s] # sessions[s] PROVE FALSE
    BY <1>1 DEF vars
  <2>2. ASSUME NEW h \in Handlers, Target(h) = s, Create(h) PROVE FALSE
    BY <1>1, <2>2 DEF Create, HandsOK, HeldOK
  <2>3. ASSUME NEW t, NEW b, Seen(s, t, b) PROVE FALSE
    BY <1>1, <2>1, <2>3 DEF Seen, Live
  <2>4. ASSUME NEW h \in Handlers, Target(h) = s, Delete(h) PROVE FALSE
    BY <1>1, <2>1, <2>4 DEF Delete, TypeOK
  <2>5. CASE ExpireBefore
    BY <1>1, <2>1, <2>5 DEF ExpireBefore, Live
  <2> QED BY <1>1, <2>1, <2>2, <2>3, <2>4, <2>5, Writers DEF Touch, MarkInitialized
<1>2. TypeOK /\ HandsOK /\ [Next]_vars =>
        [\A s \in Sessions : sessions[s].state = "gone" => sessions'[s] = sessions[s]]_vars
  BY <1>1
<1> QED BY <1>2, SessionInv, PTL DEF Spec, GoneIsFinal

(* A minted session changes only on behalf of the identity it was minted    *)
(* for, or by the sweep.                                                    *)
THEOREM OwnerOnly == Spec => ChangedByOwner
<1> DEFINE ByOwner(s) ==
      \/ tick # None /\ tick' = None
      \/ \E h \in Handlers : /\ pc'[h] # pc[h]
                             /\ Target(h) = s
                             /\ request[h].who = sessions[s].subject
<1>1. ASSUME TypeOK, HandsOK, [Next]_vars, NEW s \in Sessions,
             sessions[s].state # "free", sessions'[s] # sessions[s]
      PROVE  ByOwner(s)
  <2>1. Next
    BY <1>1 DEF vars
  <2>2. ASSUME NEW h \in Handlers, Target(h) = s, Create(h) PROVE FALSE
    BY <1>1, <2>2 DEF Create, HandsOK, HeldOK
  <2>3. ASSUME NEW h \in Handlers, Target(h) = s, Touch(h) \/ MarkInitialized(h) \/ Delete(h)
        PROVE  ByOwner(s)
    <3>1. Owner(h) /\ pc[h] \in {"touching", "marking", "deleting"}
      BY <1>1, <2>3 DEF Touch, MarkInitialized, Delete, HandsOK, HeldOK
    <3>2. pc'[h] # pc[h]
      BY <1>1, <2>3 DEF Touch, MarkInitialized, Delete, Answer, Goto, TypeOK
    <3> QED BY <2>3, <3>1, <3>2 DEF Owner
  <2>4. CASE ExpireBefore
    BY <2>4 DEF ExpireBefore
  <2> QED BY <1>1, <2>1, <2>2, <2>3, <2>4, Writers
<1>2. TypeOK /\ HandsOK /\ [Next]_vars =>
        [\A s \in Sessions :
           sessions[s].state # "free" /\ sessions'[s] # sessions[s] => ByOwner(s)]_vars
  BY <1>1
<1> QED BY <1>2, SessionInv, PTL DEF Spec, ChangedByOwner
-----------------------------------------------------------------------------
(* How far the clock and the records may have run apart: a handler about to *)
(* write read the clock at most MaxDelay ago, the waiting tick is not from  *)
(* the future, and the last use of a session in the map is at most MaxDelay *)
(* later than its LastSeen says.                                            *)
DelaysOK ==
  /\ \A h \in Handlers : Writing(h) => now <= stamp[h] + MaxDelay
  /\ tick # None => tick <= now
  /\ \A s \in Sessions : Live(s) => used[s] <= sessions[s].lastSeen + MaxDelay

LEMMA InitDelays == Init => DelaysOK
  BY McpSessionAssumption DEF Init, DelaysOK, Writing, Live

(* A store call that writes, writes a moment within MaxDelay of now.        *)
LEMMA SeenDelays ==
  ASSUME TypeOK, DelaysOK, NEW s, NEW t \in 0..MaxTime, NEW b, Seen(s, t, b),
         now <= t + MaxDelay, NEW r \in Sessions, Live(r)'
  PROVE  used'[r] <= sessions'[r].lastSeen + MaxDelay
<1>1. CASE Live(s) /\ r = s
  <2>1. sessions'[r].lastSeen = t /\ used'[r] = now
    BY <1>1 DEF TypeOK, Seen
  <2> QED BY <2>1
<1>2. CASE ~(Live(s) /\ r = s)
  <2>1. sessions'[r] = sessions[r] /\ used'[r] = used[r]
    BY <1>2 DEF TypeOK, Seen
  <2> QED BY <2>1 DEF DelaysOK, Live
<1> QED BY <1>1, <1>2

(* The step that advances the clock waits for writers, and a write is never *)
(* older than the clock reading it is made with: DelaysOK is kept.          *)
LEMMA NextDelays == TypeOK /\ HandsOK /\ DelaysOK /\ [Next]_vars => DelaysOK'
<1> SUFFICES ASSUME TypeOK, HandsOK, DelaysOK, [Next]_vars PROVE DelaysOK'
  OBVIOUS
<1> USE McpSessionAssumption
<1> DEFINE ClockPart   == \A h \in Handlers : Writing(h) => now <= stamp[h] + MaxDelay
           RecordsPart == \A s \in Sessions :
                            Live(s) => used[s] <= sessions[s].lastSeen + MaxDelay
<1>1. ASSUME NEW g \in Handlers, HandlerStep(g) \/ Forwarded(g) \/ StreamEnds(g)
             \/ \E u \in Subjects : Mint(g, u) \/ \E k \in Kinds : Arrive(g, u, k)
      PROVE  ClockPart' /\ UNCHANGED clockVars
  <2>1. UNCHANGED clockVars
    BY <1>1 DEF HandlerStep, Create, Found, NotFound, Foreign, Accept, ReadClock, Touch,
                MarkInitialized, Delete, Forwarded, StreamEnds, Mint, Arrive, clockVars
  <2>2. ASSUME NEW h \in Handlers, h # g PROVE pc'[h] = pc[h] /\ stamp'[h] = stamp[h]
    <3>1. CASE Touch(g)
      BY <2>2, <3>1 DEF Touch, Answer, Goto, TypeOK
    <3>2. CASE Accept(g)
      BY <2>2, <3>2 DEF Accept, Goto, TypeOK
    <3> QED BY <1>1, <2>2, <3>1, <3>2
            DEF HandlerStep, Create, Found, NotFound, Foreign, ReadClock,
                MarkInitialized, Delete, Forwarded, StreamEnds, Mint, Arrive,
                Answer, Goto, TypeOK
  <2>3. (pc'[g] \in {"creating", "touching"} /\ stamp'[g] = now)
          \/ (pc[g] = "touching" /\ stamp'[g] = stamp[g])
          \/ ~Writing(g)'
    <3>1. CASE Touch(g)
      BY <3>1 DEF Touch, Answer, Goto, TypeOK, Writing
    <3>2. CASE Accept(g)
      BY <3>2 DEF Accept, Goto, TypeOK, Writing
    <3> QED BY <1>1, <3>1, <3>2
            DEF HandlerStep, Create, Found, NotFound, Foreign, ReadClock,
                MarkInitialized, Delete, Forwarded, StreamEnds, Mint, Arrive,
                Answer, Goto, TypeOK, Writing
  <2>4. Writing(g)' => now' <= stamp'[g] + MaxDelay
    BY <2>1, <2>3 DEF TypeOK, DelaysOK, Writing, clockVars
  <2>5. ASSUME NEW h \in Handlers, h # g, Writing(h)' PROVE now' <= stamp'[h] + MaxDelay
    BY <2>1, <2>2, <2>5 DEF DelaysOK, Writing, clockVars
  <2> QED BY <2>1, <2>4, <2>5
<1>2. ASSUME NEW g \in Handlers, Create(g) PROVE RecordsPart'
  <2>1. \A s \in Sessions \ {Target(g)} : sessions'[s] = sessions[s] /\ used'[s] = used[s]
    BY <1>2 DEF TypeOK, Create
  <2>2. Target(g) \in Sessions /\ now <= stamp[g] + MaxDelay
    BY <1>2 DEF Create, HandsOK, HeldOK, DelaysOK, Writing
  <2>3. sessions'[Target(g)].lastSeen = stamp[g] /\ used'[Target(g)] = now
    BY <1>2, <2>2 DEF TypeOK, Create
  <2> QED BY <2>1, <2>2, <2>3 DEF DelaysOK, Live
<1>3. ASSUME NEW g \in Handlers, Touch(g) \/ MarkInitialized(g) PROVE RecordsPart'
  <2>1. now <= stamp[g] + MaxDelay /\ stamp[g] \in 0..MaxTime
    BY <1>3 DEF Touch, MarkInitialized, TypeOK, DelaysOK, Writing
  <2> QED BY <1>3, <2>1, SeenDelays DEF Touch, MarkInitialized
<1>4. ASSUME NEW g \in Handlers, Delete(g) PROVE RecordsPart'
  <2>1. \A s \in Sessions : Live(s)' => sessions'[s] = sessions[s] /\ Live(s)
    BY <1>4 DEF Delete, Live, TypeOK
  <2> QED BY <1>4, <2>1 DEF Delete, DelaysOK
<1>5. ASSUME NEW g \in Handlers,
             \/ \E u \in Subjects : Mint(g, u) \/ \E k \in Kinds : Arrive(g, u, k)
             \/ Found(g) \/ NotFound(g) \/ Foreign(g) \/ Accept(g) \/ ReadClock(g)
             \/ Forwarded(g) \/ StreamEnds(g)
      PROVE  RecordsPart'
  <2>1. UNCHANGED <<sessions, used>>
    BY <1>5 DEF Mint, Arrive, Found, NotFound, Foreign, Accept, ReadClock, Forwarded, StreamEnds
  <2> QED BY <2>1 DEF DelaysOK, Live
<1>6. CASE Advance
  <2>1. ClockPart'
    BY <1>6 DEF Advance, Writing, handlerVars, TypeOK
  <2>2. RecordsPart' /\ (tick # None => tick <= now)'
    BY <1>6 DEF Advance, DelaysOK, Live, TypeOK
  <2> QED BY <2>1, <2>2 DEF DelaysOK
<1>7. CASE TickerFires
  BY <1>7 DEF TickerFires, DelaysOK, Live, Writing, handlerVars, TypeOK
<1>8. CASE ExpireBefore
  <2>1. \A s \in Sessions : Live(s)' => sessions'[s] = sessions[s] /\ Live(s)
    BY <1>8 DEF ExpireBefore, Live, TypeOK
  <2> QED BY <1>8, <2>1 DEF ExpireBefore, DelaysOK, Writing, handlerVars
<1>9. CASE UNCHANGED vars
  BY <1>9 DEF DelaysOK, Live, Writing, vars, handlerVars, clockVars
<1>10. ASSUME ClockPart' /\ UNCHANGED clockVars, RecordsPart' PROVE DelaysOK'
  BY <1>10 DEF DelaysOK, clockVars
<1> QED BY <1>1, <1>2, <1>3, <1>4, <1>5, <1>6, <1>7, <1>8, <1>9, <1>10 DEF Next, HandlerStep

(* However late the sweep sees its tick, and however readings of the clock  *)
(* overtake each other, what it expires had idled for the idle timeout less *)
(* the delay of one handler.                                                *)
THEOREM ExpiryAfterIdleness == Spec => ExpiryNeedsIdleness
<1>1. ASSUME TypeOK, HandsOK, DelaysOK, [Next]_vars, NEW s \in Sessions,
             tick # None, tick' = None, Live(s), ~Live(s)'
      PROVE  now - used[s] > Idle - MaxDelay
  <2>1. ExpireBefore
    <3>1. ASSUME NEW h \in Handlers, HandlerStep(h) \/ Forwarded(h) \/ StreamEnds(h)
                 \/ \E u \in Subjects : Mint(h, u) \/ \E k \in Kinds : Arrive(h, u, k)
          PROVE  FALSE
      BY <1>1, <3>1 DEF HandlerStep, Create, Found, NotFound, Foreign, Accept, ReadClock,
                        Touch, MarkInitialized, Delete, Forwarded, StreamEnds, Mint, Arrive,
                        clockVars
    <3> QED BY <1>1, <3>1 DEF Next, Advance, TickerFires, vars, clockVars
  <2>2. sessions[s].lastSeen < tick - Idle
    BY <1>1, <2>1 DEF ExpireBefore, Before, Live, TypeOK
  <2>3. tick <= now /\ used[s] <= sessions[s].lastSeen + MaxDelay
    BY <1>1 DEF DelaysOK
  <2> QED BY <1>1, <2>2, <2>3, McpSessionAssumption DEF TypeOK
<1>2. TypeOK /\ HandsOK /\ DelaysOK /\ [Next]_vars =>
        [\A s \in Sessions :
           tick # None /\ tick' = None /\ Live(s) /\ ~Live(s)' =>
             now - used[s] > Idle - MaxDelay]_vars
  BY <1>1
<1> QED BY <1>2, InitDelays, NextDelays, SessionInv, PTL DEF Spec, ExpiryNeedsIdleness
=============================================================================
