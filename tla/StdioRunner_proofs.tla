------------------------- MODULE StdioRunner_proofs -------------------------
(***************************************************************************)
(* Proofs about StdioRunner, for any number of Calls, Notifies and Stops   *)
(* and any child.                                                          *)
(***************************************************************************)
EXTENDS StdioRunner, TLAPS

USE BackingMCPAssumption, StdioRunnerAssumption

LEMMA LineTypes ==
  /\ \A k \in WireKinds \cup LocalKinds, i \in Nat, c \in Calls \cup {NoCall} :
       LineOf(k, i, c) \in Line
  /\ \A k \in LocalKinds : Local(k) \in Line
  /\ NoLine \in Line
  /\ Unsolicited \subseteq Line
BY DEF LineOf, Local, NoLine, Line, LocalKinds, WireKinds, Unsolicited

LEMMA InitTypeOK == Init => TypeOK
<1> SUFFICES ASSUME Init PROVE TypeOK
  OBVIOUS
<1>1. ChildTypeOK
  BY DEF Init, ChildInit, ChildTypeOK
<1>2. MuTypeOK
  <2>1. pending = <<>> /\ nextID = 0 /\ stopped = FALSE
    BY DEF Init
  <2>2. DOMAIN pending = {} /\ pending \in [DOMAIN pending -> Calls]
    BY <2>1
  <2> QED BY <2>1, <2>2 DEF MuTypeOK
<1>3. CallTypeOK
  BY LineTypes DEF Init, CallTypeOK
<1>4. ReadTypeOK /\ CtlTypeOK
  BY LineTypes DEF Init, ReadTypeOK, CtlTypeOK
<1> QED BY <1>1, <1>2, <1>3, <1>4 DEF TypeOK

LEMMA AppendElements ==
  ASSUME NEW S, NEW s \in Seq(S), NEW e \in S
  PROVE  \A k \in DOMAIN Append(s, e) :
           Append(s, e)[k] = e \/ (k \in DOMAIN s /\ Append(s, e)[k] = s[k])
<1>1. Append(s, e) \in Seq(S) /\ Len(Append(s, e)) = Len(s) + 1
  OBVIOUS
<1>2. DOMAIN Append(s, e) = 1..(Len(s) + 1) /\ DOMAIN s = 1..Len(s)
  BY <1>1
<1> QED BY <1>2

LEMMA TailElements ==
  ASSUME NEW S, NEW s \in Seq(S), s # <<>>
  PROVE  /\ Head(s) = s[1] /\ 1 \in DOMAIN s
         /\ \A k \in DOMAIN Tail(s) : k + 1 \in DOMAIN s /\ Tail(s)[k] = s[k + 1]
<1>1. Tail(s) \in Seq(S) /\ Len(Tail(s)) = Len(s) - 1
  OBVIOUS
<1>2. DOMAIN Tail(s) = 1..(Len(s) - 1) /\ DOMAIN s = 1..Len(s) /\ Len(s) > 0
  BY <1>1
<1> QED BY <1>2

LEMMA ChildTypeStep ==
  ASSUME ChildTypeOK, ChildNext
  PROVE  ChildTypeOK'
<1>1. CASE ChildRead
  <2>1. Head(toChild) \in Request /\ Tail(toChild) \in Seq(Request)
    BY <1>1 DEF ChildRead, ChildTypeOK
  <2>2. owed' \subseteq [id : Nat, of : Calls]
    BY <1>1, <2>1 DEF ChildRead, ChildTypeOK, Request
  <2> QED BY <1>1, <2>1, <2>2 DEF ChildRead, ChildTypeOK
<1>2. CASE ChildAnswer
  <2>1. PICK r \in owed, k \in AnswerKinds :
          /\ fromChild' = Append(fromChild, LineOf(k, r.id, r.of))
          /\ answered' = answered \cup {r.of}
    BY <1>2 DEF ChildAnswer
  <2> QED BY <1>2, <2>1, LineTypes DEF ChildAnswer, ChildTypeOK, Request, AnswerKinds, WireKinds
<1>3. CASE ChildSpeak
  BY <1>3, LineTypes DEF ChildSpeak, ChildTypeOK
<1>4. CASE ChildExit \/ ChildCrash
  <2>1. ChildEnds
    BY <1>4 DEF ChildExit, ChildCrash
  <2> QED BY <2>1 DEF ChildEnds, ChildTypeOK
<1>5. CASE ChildMute \/ ChildHang
  BY <1>5 DEF ChildMute, ChildHang, ChildTypeOK
<1> QED BY <1>1, <1>2, <1>3, <1>4, <1>5 DEF ChildNext

LEMMA ReturnType ==
  ASSUME CallTypeOK, NEW p \in Procs, NEW line \in Line, Return(p, line)
  PROVE  /\ reply' \in [Procs -> Line]
         /\ pc' \in [Procs -> {"idle", "write", "wait", "leave", "returned"}]
BY DEF Return, CallTypeOK

LEMMA CallTypeStep ==
  ASSUME TypeOK, NEW c \in Calls, Refuse(c) \/ CallBegin(c) \/ CallStep(c) \/ CtxExpires(c)
  PROVE  TypeOK'
<1> c \in Procs
  BY DEF Procs
<1> USE DEF TypeOK, ctlVars, readVars
<1>1. CASE Refuse(c)
  BY <1>1, ReturnType, LineTypes
     DEF Refuse, childVars, muVars, ChildTypeOK, MuTypeOK, CallTypeOK, ReadTypeOK, CtlTypeOK, LocalKinds
<1>2. CASE CallBegin(c)
  <2>1. nextID' = nextID + 1 /\ nextID' \in Nat
    BY <1>2 DEF CallBegin, Fresh, MuTypeOK
  <2>2. DOMAIN pending' = DOMAIN pending \cup {nextID'} /\ pending' \in [DOMAIN pending' -> Calls]
    BY <1>2 DEF CallBegin, Insert, MuTypeOK
  <2>3. MuTypeOK'
    BY <1>2, <2>1, <2>2 DEF CallBegin, MuTypeOK
  <2> QED BY <1>2, <2>1, <2>3 DEF CallBegin, childVars, ChildTypeOK, CallTypeOK, ReadTypeOK, CtlTypeOK
<1>3. CASE WriteFails(c)
  BY <1>3, ReturnType, LineTypes
     DEF WriteFails, childVars, muVars, ChildTypeOK, MuTypeOK, CallTypeOK, ReadTypeOK, CtlTypeOK, LocalKinds
<1>4. CASE CallWrites(c)
  <2>1. toChild' \in Seq(Request)
    BY <1>4 DEF CallWrites, ChildTypeOK, CallTypeOK, Request
  <2> QED BY <1>4, <2>1
     DEF CallWrites, muVars, ChildTypeOK, MuTypeOK, CallTypeOK, ReadTypeOK, CtlTypeOK
<1>5. CASE CallReceives(c)
  <2>1. chan[c] \in Line /\ chan' \in [Calls -> Line]
    BY <1>5, LineTypes DEF CallReceives, CallTypeOK
  <2> QED BY <1>5, <2>1, ReturnType
     DEF CallReceives, childVars, muVars, ChildTypeOK, MuTypeOK, CallTypeOK, ReadTypeOK, CtlTypeOK
<1>6. CASE CallGivesUp(c)
  BY <1>6, ReturnType, LineTypes
     DEF CallGivesUp, childVars, muVars, ChildTypeOK, MuTypeOK, CallTypeOK, ReadTypeOK, CtlTypeOK, LocalKinds
<1>7. CASE CallLeaves(c)
  <2>1. DOMAIN pending' \subseteq DOMAIN pending /\ pending' \in [DOMAIN pending' -> Calls]
    BY <1>7 DEF CallLeaves, Delete, MuTypeOK
  <2> QED BY <1>7, <2>1
     DEF CallLeaves, childVars, ChildTypeOK, MuTypeOK, CallTypeOK, ReadTypeOK, CtlTypeOK
<1>8. CASE CtxExpires(c)
  BY <1>8 DEF CtxExpires, childVars, muVars, ChildTypeOK, MuTypeOK, CallTypeOK, ReadTypeOK, CtlTypeOK
<1> QED BY <1>1, <1>2, <1>3, <1>4, <1>5, <1>6, <1>7, <1>8 DEF CallStep

LEMMA NotifyTypeStep ==
  ASSUME TypeOK, NEW n \in Notes, Refuse(n) \/ NotifyBegin(n) \/ NotifyStep(n)
  PROVE  TypeOK'
<1> n \in Procs
  BY DEF Procs
<1> USE DEF TypeOK, ctlVars, readVars, muVars
<1>1. CASE Refuse(n)
  BY <1>1, ReturnType, LineTypes
     DEF Refuse, childVars, ChildTypeOK, MuTypeOK, CallTypeOK, ReadTypeOK, CtlTypeOK, LocalKinds
<1>2. CASE NotifyBegin(n)
  BY <1>2 DEF NotifyBegin, childVars, ChildTypeOK, MuTypeOK, CallTypeOK, ReadTypeOK, CtlTypeOK
<1>3. CASE WriteFails(n)
  BY <1>3, ReturnType, LineTypes
     DEF WriteFails, childVars, ChildTypeOK, MuTypeOK, CallTypeOK, ReadTypeOK, CtlTypeOK, LocalKinds
<1>4. CASE NotifyWrites(n)
  <2>1. toChild' \in Seq(Request)
    BY <1>4 DEF NotifyWrites, ChildTypeOK, Request
  <2>2. ChildTypeOK'
    BY <1>4, <2>1 DEF NotifyWrites, ChildTypeOK
  <2> QED BY <1>4, <2>2, ReturnType, LineTypes
     DEF NotifyWrites, MuTypeOK, CallTypeOK, ReadTypeOK, CtlTypeOK, LocalKinds
<1> QED BY <1>1, <1>2, <1>3, <1>4 DEF NotifyStep

LEMMA ReadTypeStep ==
  ASSUME TypeOK, ReadNext
  PROVE  TypeOK'
<1> USE DEF TypeOK, ctlVars, muVars, callVars
<1>1. CASE ReadLine
  <2>1. Head(fromChild) \in Line /\ Tail(fromChild) \in Seq(Line)
    BY <1>1 DEF ReadLine, ChildTypeOK
  <2>2. Demux(Head(fromChild)) \in Calls \cup {NoCall}
    BY DEF Demux, MuTypeOK
  <2>3. ReadTypeOK'
    BY <1>1, <2>1, <2>2 DEF ReadLine, ReadTypeOK, readVars
  <2> QED BY <1>1, <2>1, <2>3 DEF ReadLine, ChildTypeOK, MuTypeOK, CallTypeOK, CtlTypeOK
<1>2. CASE ReadDeliver
  BY <1>2, LineTypes
     DEF ReadDeliver, childVars, ChildTypeOK, MuTypeOK, CallTypeOK, ReadTypeOK, CtlTypeOK
<1>3. CASE ReadEnds
  <2>1. chan' \in [Calls -> Line]
    BY <1>3, LineTypes DEF ReadEnds, CallTypeOK, LocalKinds
  <2> QED BY <1>3, <2>1
     DEF ReadEnds, childVars, ChildTypeOK, MuTypeOK, CallTypeOK, ReadTypeOK, CtlTypeOK
<1> QED BY <1>1, <1>2, <1>3 DEF ReadNext

LEMMA StartTypeStep ==
  ASSUME TypeOK, StartNext
  PROVE  TypeOK'
<1> USE DEF TypeOK, muVars, callVars
<1>1. CASE StartSpawns
  BY <1>1 DEF StartSpawns, ChildTypeOK, MuTypeOK, CallTypeOK, ReadTypeOK, CtlTypeOK
<1>2. CASE StartSpawnFails \/ StartInitialized \/ StartNotified \/ StartFails
  <2>1. UNCHANGED <<childVars, muVars, callVars, readVars, stopPc>>
    BY <1>2 DEF StartSpawnFails, StartInitialized, StartNotified, StartFails
  <2>2. startPc' \in {"notify", "stop", "started", "failed"}
    BY <1>2 DEF StartSpawnFails, StartInitialized, StartNotified, StartFails
  <2> QED BY <2>1, <2>2
     DEF childVars, readVars, ChildTypeOK, MuTypeOK, CallTypeOK, ReadTypeOK, CtlTypeOK
<1> QED BY <1>1, <1>2 DEF StartNext

LEMMA StopTypeStep ==
  ASSUME TypeOK, NEW s \in AllStops, StopBegins(s) \/ StopStep(s)
  PROVE  TypeOK'
<1> USE DEF TypeOK, callVars, readVars
<1>1. CASE StopBegins(s)
  BY <1>1 DEF StopBegins, childVars, ChildTypeOK, MuTypeOK, CallTypeOK, ReadTypeOK, CtlTypeOK
<1>2. CASE StopClosesStdin(s)
  BY <1>2 DEF StopClosesStdin, muVars, ChildTypeOK, MuTypeOK, CallTypeOK, ReadTypeOK, CtlTypeOK
<1>3. CASE StopDrained(s) \/ StopReaps(s)
  <2>1. UNCHANGED <<childVars, muVars, callVars, readVars, startPc>>
    BY <1>3 DEF StopDrained, StopReaps
  <2>2. CtlTypeOK'
    BY <1>3 DEF StopDrained, StopReaps, CtlTypeOK
  <2> QED BY <2>1, <2>2
          DEF childVars, muVars, ChildTypeOK, MuTypeOK, CallTypeOK, ReadTypeOK
<1>4. CASE StopKills(s)
  <2>1. ChildTypeOK'
    BY <1>4 DEF StopKills, ChildEnds, ChildTypeOK
  <2> QED BY <1>4, <2>1 DEF StopKills, muVars, ctlVars, MuTypeOK, CallTypeOK, ReadTypeOK, CtlTypeOK
<1> QED BY <1>1, <1>2, <1>3, <1>4 DEF StopStep

LEMMA TypeStep == TypeOK /\ [Next]_vars => TypeOK'
<1> SUFFICES ASSUME TypeOK, [Next]_vars PROVE TypeOK'
  OBVIOUS
<1>1. CASE ChildNext /\ UNCHANGED <<muVars, callVars, readVars, ctlVars>>
  BY <1>1, ChildTypeStep
     DEF TypeOK, muVars, callVars, readVars, ctlVars, MuTypeOK, CallTypeOK, ReadTypeOK, CtlTypeOK
<1>2. CASE CallNext
  BY <1>2, CallTypeStep DEF CallNext
<1>3. CASE NotifyNext
  BY <1>3, NotifyTypeStep DEF NotifyNext
<1>4. CASE ReadNext \/ StartNext
  BY <1>4, ReadTypeStep, StartTypeStep
<1>5. CASE StopNext
  BY <1>5, StopTypeStep DEF StopNext
<1>6. CASE UNCHANGED vars
  BY <1>6 DEF vars, childVars, muVars, callVars, readVars, ctlVars,
              TypeOK, ChildTypeOK, MuTypeOK, CallTypeOK, ReadTypeOK, CtlTypeOK
<1> QED BY <1>1, <1>2, <1>3, <1>4, <1>5, <1>6 DEF Next

(* Type correctness: in every behaviour of StdioRunner, whatever the number *)
(* of Calls, Notifies and Stops, the capacity of the pipes and the child.   *)
THEOREM TypeCorrect == Spec => []TypeOK
BY InitTypeOK, TypeStep, PTL DEF Spec
-----------------------------------------------------------------------------
(* Why no Call sees another's answer: the map never leads an id to a Call   *)
(* that did not register it, no two Calls ever register one id, and every   *)
(* line that answers a Call carries the id of that Call, in whichever pipe, *)
(* channel or hand it is.  Server-side requests are excluded: their ids     *)
(* come from the child's own counter.                                       *)
IdsOK ==
  /\ \A c \in Calls : /\ id[c] <= nextID
                      /\ pc[c] = "idle" => id[c] = 0
                      /\ pc[c] \in {"write", "wait"} => id[c] # 0
  /\ \A c, d \in Calls : id[c] = id[d] /\ id[c] # 0 => c = d
  /\ \A i \in DOMAIN pending : id[pending[i]] = i

Carries(m)  == m.of # NoCall => m.id = id[m.of] /\ m.id # 0
Answers(l)  == l.of \in Calls /\ l.id = id[l.of] /\ l.id # 0

WireOK ==
  /\ \A k \in DOMAIN toChild : Carries(toChild[k])
  /\ \A r \in owed : Carries(r)
  /\ \A k \in DOMAIN fromChild : fromChild[k].id # 0 => Answers(fromChild[k])

HandsOK ==
  /\ readPc = "deliver" => held.of = heldFor
  /\ \A c \in Calls : chan[c].kind \in WireKinds => chan[c].of = c

OwnInv == TypeOK /\ IdsOK /\ WireOK /\ HandsOK /\ OwnResponse

LEMMA InitOwnInv == Init => OwnInv
<1> SUFFICES ASSUME Init PROVE OwnInv
  OBVIOUS
<1>1. IdsOK
  <2>1. pending = <<>> /\ DOMAIN pending = {}
    BY DEF Init
  <2> QED BY <2>1 DEF Init, IdsOK, Procs
<1>2. WireOK
  BY DEF Init, ChildInit, WireOK
<1>3. HandsOK /\ OwnResponse
  BY DEF Init, HandsOK, OwnResponse, NoLine, Local, LineOf, WireKinds, Procs
<1> QED BY <1>1, <1>2, <1>3, InitTypeOK DEF OwnInv

LEMMA OwnReturn ==
  ASSUME OwnInv, NEW p \in Procs, NEW line \in Line, Return(p, line),
         p \in Calls /\ line.kind \in WireKinds => line.of = p
  PROVE  /\ OwnResponse'
         /\ \A c \in Calls : pc'[c] \in {"idle", "write", "wait"} => pc'[c] = pc[c]
BY DEF OwnInv, TypeOK, CallTypeOK, Return, OwnResponse, Procs

LEMMA CallOwnStep ==
  ASSUME OwnInv, NEW c \in Calls, Refuse(c) \/ CallBegin(c) \/ CallStep(c) \/ CtxExpires(c)
  PROVE  IdsOK' /\ WireOK' /\ HandsOK' /\ OwnResponse'
<1> c \in Procs
  BY DEF Procs
<1> USE DEF OwnInv
<1>1. CASE Refuse(c) \/ WriteFails(c) \/ CallGivesUp(c)
  <2>1. PICK k \in LocalKinds : Return(c, Local(k))
    BY <1>1 DEF Refuse, WriteFails, CallGivesUp, LocalKinds
  <2>2. UNCHANGED <<childVars, muVars, chan, id, readVars>>
    BY <1>1 DEF Refuse, WriteFails, CallGivesUp
  <2>3. Local(k) \in Line /\ Local(k).kind = k /\ k \notin WireKinds
    BY LineTypes DEF Local, LineOf, LocalKinds, WireKinds
  <2>4. OwnResponse' /\ \A d \in Calls : pc'[d] \in {"idle", "write", "wait"} => pc'[d] = pc[d]
    BY <2>1, <2>3, OwnReturn
  <2> QED BY <2>2, <2>4 DEF IdsOK, WireOK, HandsOK, Carries, Answers, childVars, muVars, readVars
<1>2. CASE CallBegin(c)
  <2>1. /\ nextID' = nextID + 1 /\ nextID \in Nat
        /\ id \in [Calls -> Nat] /\ id' = [id EXCEPT ![c] = nextID']
        /\ pc \in [Procs -> {"idle", "write", "wait", "leave", "returned"}]
        /\ pc' = [pc EXCEPT ![c] = "write"] /\ id[c] = 0
        /\ UNCHANGED <<childVars, chan, reply, readVars>>
    BY <1>2 DEF CallBegin, Fresh, TypeOK, MuTypeOK, CallTypeOK, IdsOK
  <2>2. DOMAIN pending' = DOMAIN pending \cup {nextID'}
        /\ \A i \in DOMAIN pending' : pending'[i] = IF i = nextID' THEN c ELSE pending[i]
    BY <1>2 DEF CallBegin, Insert
  <2>3. \A i \in DOMAIN pending : i # nextID' /\ i # 0 /\ pending[i] \in Calls
    BY <2>1 DEF TypeOK, MuTypeOK
  <2>4. \A i \in DOMAIN pending' : id'[pending'[i]] = i
    BY <2>1, <2>2, <2>3 DEF IdsOK
  <2>5. \A d \in Calls : id'[d] <= nextID' /\ (pc'[d] = "idle" => id'[d] = 0)
                       /\ (pc'[d] \in {"write", "wait"} => id'[d] # 0)
    BY <2>1 DEF IdsOK, Procs
  <2>6. \A d, e \in Calls : id'[d] = id'[e] /\ id'[d] # 0 => d = e
    BY <2>1 DEF IdsOK
  <2>7. \A d \in Calls : id[d] # 0 => id'[d] = id[d]
    BY <2>1
  <2>8. WireOK'
    <3>1. \A k \in DOMAIN toChild : toChild[k] \in Request
      BY DEF TypeOK, ChildTypeOK
    <3>2. UNCHANGED <<toChild, fromChild, owed>>
      BY <2>1 DEF childVars
    <3>3. \A k \in DOMAIN toChild' : Carries(toChild[k])'
      BY <2>7, <3>1, <3>2 DEF WireOK, Carries, Request
    <3>4. \A r \in owed' : Carries(r)'
      BY <2>7, <3>2 DEF WireOK, Carries, TypeOK, ChildTypeOK
    <3>5. \A k \in DOMAIN fromChild' : fromChild'[k].id # 0 => Answers(fromChild[k])'
      BY <2>7, <3>2 DEF WireOK, Answers
    <3> QED BY <3>3, <3>4, <3>5 DEF WireOK
  <2> QED BY <2>1, <2>4, <2>5, <2>6, <2>8 DEF IdsOK, HandsOK, OwnResponse, readVars
<1>3. CASE CallWrites(c)
  <2>1. /\ UNCHANGED <<fromChild, owed, muVars, chan, id, reply, readVars>>
        /\ toChild' = Append(toChild, [id |-> id[c], of |-> c])
        /\ pc' = [pc EXCEPT ![c] = "wait"]
    BY <1>3 DEF CallWrites
  <2>2. id[c] # 0
    BY <1>3 DEF CallWrites, IdsOK
  <2>3. pc'[c] = "wait" /\ \A d \in Calls : d # c => pc'[d] = pc[d]
    BY <2>1 DEF TypeOK, CallTypeOK, Procs
  <2>4. IdsOK' /\ HandsOK' /\ OwnResponse'
    BY <2>1, <2>2, <2>3 DEF IdsOK, HandsOK, OwnResponse, muVars, readVars
  <2>5. \A k \in DOMAIN toChild' :
          toChild'[k] = [id |-> id[c], of |-> c] \/ (k \in DOMAIN toChild /\ toChild'[k] = toChild[k])
    BY <2>1, AppendElements DEF TypeOK, ChildTypeOK, CallTypeOK, Request
  <2>6. WireOK'
    BY <2>1, <2>2, <2>5 DEF WireOK, Carries, Answers
  <2> QED BY <2>4, <2>6
<1>4. CASE CallReceives(c)
  <2>1. UNCHANGED <<childVars, muVars, id, readVars>> /\ Return(c, chan[c])
        /\ chan' = [chan EXCEPT ![c] = NoLine] /\ pc[c] = "wait"
    BY <1>4 DEF CallReceives
  <2>2. chan[c] \in Line /\ (chan[c].kind \in WireKinds => chan[c].of = c)
    BY DEF TypeOK, CallTypeOK, HandsOK
  <2>3. OwnResponse' /\ \A d \in Calls : pc'[d] \in {"idle", "write", "wait"} => pc'[d] = pc[d]
    BY <2>1, <2>2, OwnReturn
  <2>4. \A d \in Calls : chan'[d].kind \in WireKinds => chan'[d].of = d
    BY <2>1 DEF TypeOK, CallTypeOK, HandsOK, NoLine, Local, LineOf, WireKinds
  <2> QED BY <2>1, <2>3, <2>4 DEF IdsOK, WireOK, HandsOK, Carries, Answers, childVars, muVars, readVars
<1>5. CASE CallLeaves(c)
  <2>1. UNCHANGED <<childVars, nextID, chan, id, reply, readVars>>
        /\ pc' = [pc EXCEPT ![c] = "returned"]
    BY <1>5 DEF CallLeaves
  <2>2. DOMAIN pending' \subseteq DOMAIN pending /\ \A i \in DOMAIN pending' : pending'[i] = pending[i]
    BY <1>5 DEF CallLeaves, Delete
  <2> QED BY <2>1, <2>2 DEF IdsOK, WireOK, HandsOK, OwnResponse, Carries, Answers, childVars, readVars,
                            TypeOK, CallTypeOK, Procs
<1>6. CASE CtxExpires(c)
  BY <1>6 DEF CtxExpires, IdsOK, WireOK, HandsOK, OwnResponse, Carries, Answers, childVars, muVars, readVars
<1> QED BY <1>1, <1>2, <1>3, <1>4, <1>5, <1>6 DEF CallStep

LEMMA NotifyOwnStep ==
  ASSUME OwnInv, NEW n \in Notes, Refuse(n) \/ NotifyBegin(n) \/ NotifyStep(n)
  PROVE  IdsOK' /\ WireOK' /\ HandsOK' /\ OwnResponse'
<1> n \in Procs /\ n \notin Calls
  BY DEF Procs
<1> USE DEF OwnInv
<1>1. CASE NotifyBegin(n)
  <2>1. UNCHANGED <<childVars, muVars, chan, id, reply, readVars>> /\ pc' = [pc EXCEPT ![n] = "write"]
    BY <1>1 DEF NotifyBegin
  <2>2. \A c \in Calls : pc'[c] = pc[c]
    BY <2>1 DEF TypeOK, CallTypeOK, Procs
  <2> QED BY <2>1, <2>2 DEF IdsOK, WireOK, HandsOK, OwnResponse, Carries, Answers, childVars, muVars, readVars
<1>2. CASE Refuse(n) \/ WriteFails(n) \/ NotifyWrites(n)
  <2>1. PICK k \in LocalKinds : Return(n, Local(k))
    BY <1>2 DEF Refuse, WriteFails, NotifyWrites, LocalKinds
  <2>2. UNCHANGED <<fromChild, owed, muVars, chan, id, readVars>>
    BY <1>2 DEF Refuse, WriteFails, NotifyWrites, childVars
  <2>3. OwnResponse' /\ \A d \in Calls : pc'[d] \in {"idle", "write", "wait"} => pc'[d] = pc[d]
    BY <2>1, OwnReturn, LineTypes
  <2>4. IdsOK' /\ HandsOK'
    BY <2>2, <2>3 DEF IdsOK, HandsOK, muVars, readVars
  <2>5. \A k2 \in DOMAIN toChild' : toChild'[k2].of = NoCall \/ (k2 \in DOMAIN toChild /\ toChild'[k2] = toChild[k2])
    <3>1. CASE NotifyWrites(n)
      <4>1. [id |-> 0, of |-> NoCall] \in Request
        BY DEF Request
      <4> QED BY <3>1, <4>1, AppendElements DEF NotifyWrites, TypeOK, ChildTypeOK
    <3>2. CASE Refuse(n) \/ WriteFails(n)
      BY <3>2 DEF Refuse, WriteFails, childVars
    <3> QED BY <1>2, <3>1, <3>2
  <2>6. WireOK'
    BY <2>2, <2>5 DEF WireOK, Carries, Answers
  <2> QED BY <2>3, <2>4, <2>6
<1> QED BY <1>1, <1>2 DEF NotifyStep

LEMMA ChildOwnStep ==
  ASSUME OwnInv, "request" \notin Behaviours,
         ChildNext, UNCHANGED <<muVars, callVars, readVars, ctlVars>>
  PROVE  IdsOK' /\ WireOK' /\ HandsOK' /\ OwnResponse'
<1> USE DEF OwnInv
<1>1. IdsOK' /\ HandsOK' /\ OwnResponse' /\ UNCHANGED id
  BY DEF muVars, callVars, readVars, IdsOK, HandsOK, OwnResponse
<1>2. CASE ChildRead
  <2>1. /\ Head(toChild) = toChild[1] /\ 1 \in DOMAIN toChild
        /\ \A k \in DOMAIN toChild' : k + 1 \in DOMAIN toChild /\ toChild'[k] = toChild[k + 1]
    BY <1>2, TailElements DEF ChildRead, TypeOK, ChildTypeOK
  <2>2. \A r \in owed' : r \in owed \/ r = toChild[1]
    BY <1>2, <2>1 DEF ChildRead
  <2> QED BY <1>1, <1>2, <2>1, <2>2 DEF ChildRead, WireOK, Carries, Answers
<1>3. CASE ChildAnswer
  <2>1. PICK r \in owed, k \in AnswerKinds :
          /\ fromChild' = Append(fromChild, LineOf(k, r.id, r.of))
          /\ owed' \subseteq owed /\ toChild' = toChild
    BY <1>3 DEF ChildAnswer
  <2>2. LineOf(k, r.id, r.of) \in Line /\ r.of \in Calls
    BY LineTypes DEF TypeOK, ChildTypeOK, AnswerKinds, WireKinds
  <2>3. Answers(LineOf(k, r.id, r.of))
    BY <2>2 DEF WireOK, Carries, Answers, LineOf
  <2>4. \A j \in DOMAIN fromChild' :
          fromChild'[j] = LineOf(k, r.id, r.of) \/ (j \in DOMAIN fromChild /\ fromChild'[j] = fromChild[j])
    BY <2>1, <2>2, AppendElements DEF TypeOK, ChildTypeOK
  <2> QED BY <1>1, <2>1, <2>3, <2>4 DEF WireOK, Carries, Answers
<1>4. CASE ChildSpeak
  <2>1. PICK l \in Unsolicited : fromChild' = Append(fromChild, l)
    BY <1>4 DEF ChildSpeak
  <2>2. l \in Line /\ l.id = 0
    BY LineTypes DEF Unsolicited, LineOf
  <2>3. \A j \in DOMAIN fromChild' : fromChild'[j] = l \/ (j \in DOMAIN fromChild /\ fromChild'[j] = fromChild[j])
    BY <2>1, <2>2, AppendElements DEF TypeOK, ChildTypeOK
  <2> QED BY <1>1, <1>4, <2>2, <2>3 DEF ChildSpeak, WireOK, Carries, Answers
<1>5. CASE ChildExit \/ ChildCrash \/ ChildMute \/ ChildHang
  <2>1. ((toChild' = <<>> /\ owed' = {}) \/ UNCHANGED <<toChild, owed>>) /\ UNCHANGED fromChild
    BY <1>5 DEF ChildExit, ChildCrash, ChildEnds, ChildMute, ChildHang
  <2> QED BY <1>1, <2>1 DEF WireOK, Carries, Answers
<1> QED BY <1>1, <1>2, <1>3, <1>4, <1>5 DEF ChildNext

LEMMA ReadOwnStep ==
  ASSUME OwnInv, ReadNext
  PROVE  IdsOK' /\ WireOK' /\ HandsOK' /\ OwnResponse'
<1> USE DEF OwnInv
<1>1. IdsOK' /\ OwnResponse' /\ UNCHANGED <<toChild, owed, id>>
  BY DEF ReadNext, ReadLine, ReadDeliver, ReadEnds, childVars, muVars, callVars, IdsOK, OwnResponse
<1>2. CASE ReadLine
  <2> DEFINE l == Head(fromChild)
  <2>1. /\ l = fromChild[1] /\ 1 \in DOMAIN fromChild
        /\ \A k \in DOMAIN fromChild' : k + 1 \in DOMAIN fromChild /\ fromChild'[k] = fromChild[k + 1]
    BY <1>2, TailElements DEF ReadLine, TypeOK, ChildTypeOK
  <2>2. WireOK'
    BY <1>1, <2>1 DEF WireOK, Carries, Answers
  <2>3. Demux(l) # NoCall => l.of = Demux(l)
    <3>1. SUFFICES ASSUME l.id \in DOMAIN pending PROVE l.of = pending[l.id]
      BY DEF Demux
    <3>2. l.id # 0 /\ pending[l.id] \in Calls
      BY <3>1 DEF TypeOK, MuTypeOK
    <3>3. l.of \in Calls /\ l.id = id[l.of]
      BY <2>1, <3>2 DEF WireOK, Answers
    <3>4. id[pending[l.id]] = l.id
      BY <3>1 DEF IdsOK
    <3> QED BY <3>2, <3>3, <3>4 DEF IdsOK
  <2>4. HandsOK'
    BY <1>2, <2>3 DEF ReadLine, HandsOK, readVars, callVars
  <2> QED BY <1>1, <2>2, <2>4
<1>3. CASE ReadDeliver
  <2>1. HandsOK'
    BY <1>3 DEF ReadDeliver, HandsOK, TypeOK, CallTypeOK, ReadTypeOK
  <2> QED BY <1>1, <1>3, <2>1 DEF ReadDeliver, childVars, WireOK, Carries, Answers
<1>4. CASE ReadEnds
  <2>1. HandsOK'
    BY <1>4 DEF ReadEnds, HandsOK, TypeOK, CallTypeOK, Local, LineOf, WireKinds
  <2> QED BY <1>1, <1>4, <2>1 DEF ReadEnds, childVars, WireOK, Carries, Answers
<1> QED BY <1>2, <1>3, <1>4 DEF ReadNext

LEMMA ControlOwnStep ==
  ASSUME OwnInv, StartNext \/ StopNext \/ UNCHANGED vars
  PROVE  IdsOK' /\ WireOK' /\ HandsOK' /\ OwnResponse'
<1> USE DEF OwnInv
<1>1. UNCHANGED <<nextID, pending, callVars, held, heldFor, fromChild>>
  BY DEF StartNext, StartSpawns, StartSpawnFails, StartInitialized, StartNotified, StartFails,
         StopNext, StopBegins, StopStep, StopClosesStdin, StopDrained, StopReaps, StopKills, ChildEnds,
         vars, childVars, muVars, readVars
<1>2. readPc' = readPc \/ readPc' = "scan"
  BY DEF StartNext, StartSpawns, StartSpawnFails, StartInitialized, StartNotified, StartFails,
         StopNext, StopBegins, StopStep, StopClosesStdin, StopDrained, StopReaps, StopKills,
         vars, readVars
<1>3. (toChild' = <<>> /\ owed' = {}) \/ UNCHANGED <<toChild, owed>>
  BY DEF StartNext, StartSpawns, StartSpawnFails, StartInitialized, StartNotified, StartFails,
         StopNext, StopBegins, StopStep, StopClosesStdin, StopDrained, StopReaps, StopKills, ChildEnds,
         vars, childVars
<1> QED BY <1>1, <1>2, <1>3 DEF IdsOK, WireOK, HandsOK, OwnResponse, Carries, Answers, callVars

LEMMA OwnInvStep ==
  ASSUME "request" \notin Behaviours, OwnInv, [Next]_vars
  PROVE  OwnInv'
<1>1. TypeOK'
  BY TypeStep DEF OwnInv
<1>2. IdsOK' /\ WireOK' /\ HandsOK' /\ OwnResponse'
  <2>1. CASE ChildNext /\ UNCHANGED <<muVars, callVars, readVars, ctlVars>>
    BY <2>1, ChildOwnStep
  <2>2. CASE CallNext
    BY <2>2, CallOwnStep DEF CallNext
  <2>3. CASE NotifyNext
    BY <2>3, NotifyOwnStep DEF NotifyNext
  <2>4. CASE ReadNext
    BY <2>4, ReadOwnStep
  <2>5. CASE StartNext \/ StopNext \/ UNCHANGED vars
    BY <2>5, ControlOwnStep
  <2> QED BY <2>1, <2>2, <2>3, <2>4, <2>5 DEF Next
<1> QED BY <1>1, <1>2 DEF OwnInv

(* "a caller never sees another caller's response" (runner.go), for any     *)
(* number of Calls, pipes of any capacity and any child that does not send  *)
(* requests of its own, though it may answer twice, out of order or late,   *)
(* crash, hang or close its stdout.                                         *)
THEOREM NoForeignResponse ==
  ASSUME "request" \notin Behaviours
  PROVE  Spec => []OwnResponse
<1>1. OwnInv /\ [Next]_vars => OwnInv'
  BY OwnInvStep
<1>2. OwnInv => OwnResponse
  BY DEF OwnInv
<1> QED BY <1>1, <1>2, InitOwnInv, PTL DEF Spec
-----------------------------------------------------------------------------
(* Why readLoop never blocks on a Call: a request is in one place only, on  *)
(* its way to the child, owed by the child, on its way back, in the hand of *)
(* readLoop or in the channel of its Call; and a Call sends it once.  The   *)
(* messages of the drain come when readLoop is over.                        *)
Asked(c) == \E k \in DOMAIN toChild : toChild[k].of = c
Owing(c) == \E r \in owed : r.of = c
Told(c)  == \E k \in DOMAIN fromChild : fromChild[k].of = c
Held(c)  == readPc = "deliver" /\ heldFor = c
Kept(c)  == readPc # "done" /\ chan[c] # NoLine

OneEach(s) == \A j, k \in DOMAIN s : s[j].of = s[k].of /\ s[j].of # NoCall => j = k

InOnePlace ==
  \A c \in Calls :
    /\ pc[c] \in {"idle", "write"} => ~Asked(c) /\ ~Owing(c) /\ ~Told(c) /\ ~Held(c) /\ ~Kept(c)
    /\ Asked(c) => ~Owing(c) /\ ~Told(c) /\ ~Held(c) /\ ~Kept(c)
    /\ Owing(c) => ~Told(c) /\ ~Held(c) /\ ~Kept(c)
    /\ Told(c) => ~Held(c) /\ ~Kept(c)
    /\ Held(c) => ~Kept(c)

OnlyOnce ==
  /\ OneEach(toChild) /\ OneEach(fromChild)
  /\ \A r, q \in owed : r.of = q.of => r = q
  /\ startPc = "idle" => readPc = "none"

OnceInv == OwnInv /\ InOnePlace /\ OnlyOnce

LEMMA InitOnceInv == Init => OnceInv
<1> SUFFICES ASSUME Init PROVE OnceInv
  OBVIOUS
<1>1. InOnePlace
  <2>1. DOMAIN toChild = {} /\ DOMAIN fromChild = {} /\ owed = {} /\ readPc = "none"
        /\ \A c \in Calls : chan[c] = NoLine
    BY DEF Init, ChildInit
  <2> QED BY <2>1 DEF InOnePlace, Asked, Owing, Told, Held, Kept
<1>2. OnlyOnce
  BY DEF Init, ChildInit, OnlyOnce, OneEach
<1> QED BY <1>1, <1>2, InitOwnInv DEF OnceInv

(* A step that brings no Call to a new place keeps the order.               *)
LEMMA NoNewPlace ==
  ASSUME InOnePlace,
         \A c \in Calls : /\ Asked(c)' => Asked(c)
                          /\ Owing(c)' => Owing(c)
                          /\ Told(c)' => Told(c)
                          /\ Held(c)' => Held(c)
                          /\ Kept(c)' => Kept(c)
                          /\ pc'[c] \in {"idle", "write"} => pc[c] \in {"idle", "write"}
  PROVE  InOnePlace'
  BY Zenon DEF InOnePlace

(* Adding to the end of a pipe what is not in it, or taking from its front. *)
LEMMA AppendOnce ==
  ASSUME NEW S, NEW s \in Seq(S), NEW e \in S, OneEach(s),
         e.of # NoCall => \A k \in DOMAIN s : s[k].of # e.of
  PROVE  /\ OneEach(Append(s, e))
         /\ \A c \in Calls : (\E k \in DOMAIN Append(s, e) : Append(s, e)[k].of = c)
                                => e.of = c \/ \E k \in DOMAIN s : s[k].of = c
<1>1. /\ DOMAIN Append(s, e) = 1..(Len(s) + 1) /\ DOMAIN s = 1..Len(s) /\ Len(s) \in Nat
      /\ Append(s, e)[Len(s) + 1] = e
      /\ \A k \in 1..Len(s) : Append(s, e)[k] = s[k]
  OBVIOUS
<1>2. \A k \in DOMAIN Append(s, e) : k = Len(s) + 1 \/ k \in DOMAIN s
  BY <1>1
<1>3. OneEach(Append(s, e))
  <2> SUFFICES ASSUME NEW j \in DOMAIN Append(s, e), NEW k \in DOMAIN Append(s, e),
                      Append(s, e)[j].of = Append(s, e)[k].of, Append(s, e)[j].of # NoCall
               PROVE  j = k
    BY DEF OneEach
  <2> QED
    BY <1>1, <1>2 DEF OneEach
<1> QED BY <1>1, <1>2, <1>3

LEMMA TailOnce ==
  ASSUME NEW S, NEW s \in Seq(S), s # <<>>, OneEach(s)
  PROVE  /\ OneEach(Tail(s))
         /\ 1 \in DOMAIN s /\ Head(s) = s[1]
         /\ \A k \in DOMAIN Tail(s) : \E j \in DOMAIN s : s[j] = Tail(s)[k]
         /\ Head(s).of # NoCall => \A k \in DOMAIN Tail(s) : Tail(s)[k].of # Head(s).of
<1>1. /\ Head(s) = s[1] /\ 1 \in DOMAIN s
      /\ \A k \in DOMAIN Tail(s) : k + 1 \in DOMAIN s /\ Tail(s)[k] = s[k + 1]
  BY TailElements
<1>2. \A k \in DOMAIN Tail(s) : k \in Nat /\ k # 0
  OBVIOUS
<1>3. OneEach(Tail(s))
  BY <1>1, <1>2 DEF OneEach
<1>4. Head(s).of # NoCall => \A k \in DOMAIN Tail(s) : Tail(s)[k].of # Head(s).of
  BY <1>1, <1>2 DEF OneEach
<1> QED BY <1>1, <1>3, <1>4

LEMMA CallOnceStep ==
  ASSUME OnceInv, NEW c \in Calls, Refuse(c) \/ CallBegin(c) \/ CallStep(c) \/ CtxExpires(c)
  PROVE  InOnePlace' /\ OnlyOnce'
<1> USE DEF OnceInv
<1> c \in Procs /\ TypeOK
  BY DEF Procs, OwnInv
<1>1. CASE CallWrites(c)
  <2>1. /\ UNCHANGED <<fromChild, owed, chan, readVars, ctlVars>>
        /\ toChild' = Append(toChild, [id |-> id[c], of |-> c])
        /\ pc[c] = "write" /\ pc' = [pc EXCEPT ![c] = "wait"]
    BY <1>1 DEF CallWrites
  <2>2. ~Asked(c) /\ ~Owing(c) /\ ~Told(c) /\ ~Held(c) /\ ~Kept(c)
    BY <2>1 DEF InOnePlace
  <2>3. toChild \in Seq(Request) /\ [id |-> id[c], of |-> c] \in Request
    BY DEF TypeOK, ChildTypeOK, CallTypeOK, Request
  <2>4. OneEach(toChild') /\ \A d \in Calls : Asked(d)' => d = c \/ Asked(d)
    BY <2>1, <2>2, <2>3, AppendOnce DEF OnlyOnce, Asked
  <2>5. \A d \in Calls : /\ Owing(d)' <=> Owing(d)
                         /\ Told(d)' <=> Told(d)
                         /\ Held(d)' <=> Held(d)
                         /\ Kept(d)' <=> Kept(d)
    BY <2>1 DEF Owing, Told, Held, Kept, readVars
  <2>6. pc'[c] = "wait" /\ \A d \in Calls : d # c => pc'[d] = pc[d]
    BY <2>1 DEF TypeOK, CallTypeOK, Procs
  <2>7. InOnePlace'
    BY <2>2, <2>4, <2>5, <2>6, Zenon DEF InOnePlace
  <2> QED BY <2>1, <2>4, <2>7 DEF OnlyOnce, readVars, ctlVars
<1>2. CASE ~CallWrites(c)
  <2>1. UNCHANGED <<childVars, readVars, ctlVars>>
    BY <1>2 DEF Refuse, CallBegin, CallStep, WriteFails, CallReceives, CallGivesUp, CallLeaves, CtxExpires
  <2>2. \A d \in Calls : chan'[d] # NoLine => chan[d] # NoLine
    BY <1>2 DEF Refuse, CallBegin, CallStep, WriteFails, CallReceives, CallGivesUp, CallLeaves,
                CtxExpires, TypeOK, CallTypeOK
  <2>3. \A d \in Calls : pc'[d] \in {"idle", "write"} => pc[d] \in {"idle", "write"}
    BY <1>2 DEF Refuse, CallBegin, CallStep, WriteFails, CallReceives, CallGivesUp, CallLeaves,
                CtxExpires, Return, TypeOK, CallTypeOK, Procs
  <2>4. InOnePlace'
    BY <2>1, <2>2, <2>3, NoNewPlace DEF Asked, Owing, Told, Held, Kept, childVars, readVars
  <2> QED BY <2>1, <2>4 DEF OnlyOnce, OneEach, childVars, readVars, ctlVars
<1> QED BY <1>1, <1>2

LEMMA NotifyOnceStep ==
  ASSUME OnceInv, NEW n \in Notes, Refuse(n) \/ NotifyBegin(n) \/ NotifyStep(n)
  PROVE  InOnePlace' /\ OnlyOnce'
<1> USE DEF OnceInv
<1> n \in Procs /\ n \notin Calls /\ TypeOK
  BY DEF Procs, OwnInv
<1>1. UNCHANGED <<fromChild, owed, chan, readVars, ctlVars>>
  BY DEF Refuse, NotifyBegin, NotifyStep, WriteFails, NotifyWrites, childVars
<1>2. \A c \in Calls : pc'[c] = pc[c]
  BY DEF Refuse, NotifyBegin, NotifyStep, WriteFails, NotifyWrites, Return, TypeOK, CallTypeOK, Procs
<1>3. OneEach(toChild') /\ \A c \in Calls : Asked(c)' => Asked(c)
  <2>1. CASE NotifyWrites(n)
    <3>1. toChild' = Append(toChild, [id |-> 0, of |-> NoCall])
      BY <2>1 DEF NotifyWrites
    <3>2. toChild \in Seq(Request) /\ [id |-> 0, of |-> NoCall] \in Request
      BY DEF TypeOK, ChildTypeOK, Request
    <3> QED BY <3>1, <3>2, AppendOnce DEF OnlyOnce, Asked
  <2>2. CASE UNCHANGED toChild
    BY <2>2 DEF OnlyOnce, OneEach, Asked
  <2> QED BY <2>1, <2>2 DEF Refuse, NotifyBegin, NotifyStep, WriteFails, childVars
<1>4. InOnePlace'
  BY <1>1, <1>2, <1>3, NoNewPlace DEF Owing, Told, Held, Kept, readVars
<1> QED BY <1>1, <1>3, <1>4 DEF OnlyOnce, OneEach, readVars, ctlVars

LEMMA ChildOnceStep ==
  ASSUME OnceInv, "duplicate" \notin Behaviours,
         ChildNext, UNCHANGED <<muVars, callVars, readVars, ctlVars>>
  PROVE  InOnePlace' /\ OnlyOnce'
<1> USE DEF OnceInv
<1> TypeOK
  BY DEF OwnInv
<1>1. /\ \A c \in Calls : pc'[c] = pc[c] /\ (Held(c)' <=> Held(c)) /\ (Kept(c)' <=> Kept(c))
      /\ startPc' = "idle" => readPc' = "none"
  BY DEF callVars, readVars, ctlVars, Held, Kept, OnlyOnce
<1>2. CASE ChildRead
  <2>1. /\ toChild # <<>> /\ toChild' = Tail(toChild)
        /\ owed' = IF Head(toChild).of = NoCall THEN owed ELSE owed \cup {Head(toChild)}
        /\ UNCHANGED fromChild
    BY <1>2 DEF ChildRead
  <2>2. toChild \in Seq(Request) /\ OneEach(toChild)
    BY DEF TypeOK, ChildTypeOK, OnlyOnce
  <2>0. /\ OneEach(toChild') /\ 1 \in DOMAIN toChild /\ Head(toChild) = toChild[1]
        /\ \A k \in DOMAIN toChild' : \E j \in DOMAIN toChild : toChild[j] = toChild'[k]
        /\ Head(toChild).of # NoCall =>
             \A k \in DOMAIN toChild' : toChild'[k].of # Head(toChild).of
    BY <2>1, <2>2, TailOnce
  <2> DEFINE c == Head(toChild).of
  <2>3. /\ OneEach(toChild') /\ \A d \in Calls : Asked(d)' => Asked(d)
        /\ \A d \in Calls : d = c => ~Asked(d)' /\ Asked(d)
    BY <2>0 DEF Asked
  <2>4. OneEach(fromChild') /\ \A d \in Calls : Told(d)' <=> Told(d)
    BY <2>1 DEF OnlyOnce, OneEach, Told
  <2>5. \A d \in Calls : Owing(d)' => Owing(d) \/ d = c
    BY <2>1 DEF Owing
  <2>6. c \in Calls \cup {NoCall}
    <3>1. toChild[1] \in Request
      BY <2>0, <2>2
    <3> QED BY <2>0, <3>1 DEF Request
  <2>7. \A r, q \in owed' : r.of = q.of => r = q
    <3>1. CASE c = NoCall
      BY <2>1, <3>1 DEF OnlyOnce
    <3>2. CASE c \in Calls
      <4>1. \A r \in owed : r.of # c
        BY <2>3, <3>2 DEF InOnePlace, Owing
      <4> QED BY <2>1, <3>2, <4>1 DEF OnlyOnce
    <3> QED BY <2>6, <3>1, <3>2
  <2>8. ASSUME NEW d \in Calls, Asked(d)', Owing(d)'
        PROVE  FALSE
    <3> HIDE DEF c
    <3> QED BY <2>3, <2>5, <2>8 DEF InOnePlace
  <2>9. ASSUME NEW d \in Calls, Owing(d)'
        PROVE  ~Told(d) /\ ~Held(d) /\ ~Kept(d) /\ pc[d] \notin {"idle", "write"}
    BY <2>3, <2>5, <2>9 DEF InOnePlace
  <2>10. InOnePlace'
    BY <1>1, <2>3, <2>4, <2>8, <2>9, Zenon DEF InOnePlace
  <2> QED BY <1>1, <2>3, <2>4, <2>7, <2>10 DEF OnlyOnce
<1>3. CASE ChildAnswer
  <2>1. PICK r \in owed, k \in AnswerKinds :
          /\ fromChild' = Append(fromChild, LineOf(k, r.id, r.of))
          /\ owed' = owed \ {r} /\ UNCHANGED toChild
    BY <1>3 DEF ChildAnswer
  <2>2. /\ LineOf(k, r.id, r.of) \in Line /\ r.of \in Calls /\ LineOf(k, r.id, r.of).of = r.of
        /\ fromChild \in Seq(Line) /\ OneEach(fromChild)
    BY LineTypes DEF TypeOK, ChildTypeOK, AnswerKinds, WireKinds, LineOf, OnlyOnce
  <2> DEFINE c == r.of
  <2>3. /\ Owing(c) /\ ~Owing(c)' /\ \A d \in Calls : Owing(d)' => Owing(d)
    BY <2>1 DEF Owing, OnlyOnce
  <2>4. ~Asked(c) /\ ~Told(c) /\ ~Held(c) /\ ~Kept(c) /\ pc[c] \notin {"idle", "write"}
    BY <2>2, <2>3 DEF InOnePlace
  <2>5. OneEach(fromChild') /\ \A d \in Calls : Told(d)' => Told(d) \/ d = c
    BY <2>1, <2>2, <2>4, AppendOnce DEF Told
  <2>6. \A d \in Calls : Asked(d)' <=> Asked(d)
    BY <2>1 DEF Asked
  <2>7. InOnePlace'
    BY <1>1, <2>3, <2>4, <2>5, <2>6, Zenon DEF InOnePlace
  <2> QED BY <1>1, <2>1, <2>5, <2>7 DEF OnlyOnce, OneEach
<1>4. CASE ChildSpeak
  <2>1. PICK l \in Unsolicited : fromChild' = Append(fromChild, l)
    BY <1>4 DEF ChildSpeak
  <2>2. l \in Line /\ l.of = NoCall
    BY LineTypes DEF Unsolicited, LineOf
  <2>3. UNCHANGED <<toChild, owed>> /\ fromChild \in Seq(Line) /\ OneEach(fromChild)
    BY <1>4 DEF ChildSpeak, TypeOK, ChildTypeOK, OnlyOnce
  <2>4. OneEach(fromChild') /\ \A d \in Calls : Told(d)' => Told(d)
    BY <2>1, <2>2, <2>3, AppendOnce DEF Told
  <2>5. InOnePlace'
    BY <1>1, <2>3, <2>4, NoNewPlace DEF Asked, Owing
  <2> QED BY <1>1, <2>3, <2>4, <2>5 DEF OnlyOnce, OneEach
<1>5. CASE ChildExit \/ ChildCrash \/ ChildMute \/ ChildHang
  <2>1. ((toChild' = <<>> /\ owed' = {}) \/ UNCHANGED <<toChild, owed>>) /\ UNCHANGED fromChild
    BY <1>5 DEF ChildExit, ChildCrash, ChildEnds, ChildMute, ChildHang
  <2>2. InOnePlace'
    BY <1>1, <2>1, NoNewPlace DEF Asked, Owing, Told
  <2> QED BY <1>1, <2>1, <2>2 DEF OnlyOnce, OneEach
<1> QED BY <1>2, <1>3, <1>4, <1>5 DEF ChildNext

LEMMA ReadOnceStep ==
  ASSUME OnceInv, ReadNext
  PROVE  InOnePlace' /\ OnlyOnce'
<1> USE DEF OnceInv
<1> TypeOK
  BY DEF OwnInv
<1>1. /\ UNCHANGED <<toChild, owed, pc, startPc>>
      /\ readPc \in {"scan", "deliver"} /\ readPc' # "none" /\ startPc # "idle"
  BY DEF ReadNext, ReadLine, ReadDeliver, ReadEnds, childVars, callVars, ctlVars, readVars, OnlyOnce
<1>2. \A d \in Calls : (Asked(d)' <=> Asked(d)) /\ (Owing(d)' <=> Owing(d))
  BY <1>1 DEF Asked, Owing
<1>3. CASE ReadLine
  <2> DEFINE l == Head(fromChild)
  <2>1. /\ fromChild # <<>> /\ fromChild' = Tail(fromChild) /\ UNCHANGED chan /\ readPc = "scan"
        /\ \/ UNCHANGED readVars
           \/ /\ Demux(l) # NoCall /\ readPc' = "deliver" /\ held' = l /\ heldFor' = Demux(l)
    BY <1>3 DEF ReadLine, callVars
  <2>2. fromChild \in Seq(Line) /\ OneEach(fromChild)
    BY DEF TypeOK, ChildTypeOK, OnlyOnce
  <2>0. /\ OneEach(fromChild') /\ 1 \in DOMAIN fromChild /\ l = fromChild[1]
        /\ \A k \in DOMAIN fromChild' : \E j \in DOMAIN fromChild : fromChild[j] = fromChild'[k]
        /\ l.of # NoCall => \A k \in DOMAIN fromChild' : fromChild'[k].of # l.of
    BY <2>1, <2>2, TailOnce
  <2>3. /\ OneEach(fromChild') /\ \A d \in Calls : Told(d)' => Told(d)
        /\ \A d \in Calls : d = l.of => ~Told(d)' /\ Told(d)
    BY <2>0 DEF Told
  <2>4. \A d \in Calls : Kept(d)' <=> Kept(d)
    BY <2>1 DEF Kept, readVars
  <2>5. CASE UNCHANGED readVars
    <3>1. \A d \in Calls : Held(d)' <=> Held(d)
      BY <2>5 DEF Held, readVars
    <3> QED BY <1>1, <1>2, <2>3, <2>4, <3>1, NoNewPlace DEF OnlyOnce, OneEach
  <2>6. CASE Demux(l) # NoCall /\ readPc' = "deliver" /\ held' = l /\ heldFor' = Demux(l)
    <3>1. l.of = Demux(l) /\ l.of \in Calls
      <4>1. HandsOK' /\ TypeOK'
        BY ReadOwnStep, ReadTypeStep DEF OwnInv
      <4> QED BY <2>6, <4>1 DEF HandsOK, TypeOK, ReadTypeOK
    <3>2. PICK c \in Calls : c = l.of
      BY <3>1
    <3>3. \A d \in Calls : Held(d)' => d = c
      BY <2>6, <3>1, <3>2 DEF Held
    <3>4. InOnePlace'
      <4> HIDE DEF l
      <4>1. Told(c) /\ ~Told(c)'
        BY <2>3, <3>2
      <4>2. ~Asked(c) /\ ~Owing(c) /\ ~Kept(c) /\ pc[c] \notin {"idle", "write"}
        BY <4>1 DEF InOnePlace
      <4>3. \A d \in Calls : Told(d)' => Told(d)
        BY <2>3
      <4> QED BY <1>1, <1>2, <2>4, <3>3, <4>1, <4>2, <4>3, Zenon DEF InOnePlace
    <3> QED BY <1>1, <2>3, <3>4 DEF OnlyOnce, OneEach
  <2> QED BY <2>1, <2>5, <2>6
<1>4. CASE ReadDeliver
  <2>1. /\ readPc = "deliver" /\ chan' = [chan EXCEPT ![heldFor] = held] /\ readPc' = "scan"
        /\ UNCHANGED fromChild
    BY <1>4 DEF ReadDeliver, childVars
  <2>2. PICK c \in Calls : c = heldFor
    BY <2>1 DEF TypeOK, ReadTypeOK
  <2>3. /\ Held(c) /\ \A d \in Calls : ~Held(d)' /\ (Told(d)' <=> Told(d))
        /\ \A d \in Calls : Kept(d)' => Kept(d) \/ d = c
    BY <2>1, <2>2 DEF Held, Told, Kept, TypeOK, CallTypeOK
  <2>4. InOnePlace'
    BY <1>1, <1>2, <2>3 DEF InOnePlace
  <2> QED BY <1>1, <2>1, <2>4 DEF OnlyOnce, OneEach
<1>5. CASE ReadEnds
  <2>1. readPc' = "done" /\ UNCHANGED fromChild
    BY <1>5 DEF ReadEnds, childVars
  <2>2. \A d \in Calls : ~Held(d)' /\ ~Kept(d)' /\ (Told(d)' <=> Told(d))
    BY <2>1 DEF Held, Kept, Told
  <2>3. InOnePlace'
    BY <1>1, <1>2, <2>2, NoNewPlace
  <2> QED BY <1>1, <2>1, <2>3 DEF OnlyOnce, OneEach
<1> QED BY <1>3, <1>4, <1>5 DEF ReadNext

LEMMA ControlOnceStep ==
  ASSUME OnceInv, StartNext \/ StopNext \/ UNCHANGED vars
  PROVE  InOnePlace' /\ OnlyOnce'
<1> USE DEF OnceInv
<1> USE DEF StartNext, StartSpawns, StartSpawnFails, StartInitialized, StartNotified, StartFails,
            StopNext, StopBegins, StopStep, StopClosesStdin, StopDrained, StopReaps, StopKills, ChildEnds,
            vars, childVars, readVars, callVars, ctlVars
<1>1. UNCHANGED <<callVars, heldFor, fromChild>>
  OBVIOUS
<1>2. (toChild' = <<>> /\ owed' = {}) \/ UNCHANGED <<toChild, owed>>
  OBVIOUS
<1>3. \/ readPc' = readPc /\ (startPc' = "idle" => startPc = "idle")
      \/ startPc = "idle" /\ readPc' = "scan" /\ startPc' = "call"
  OBVIOUS
<1>4. \A d \in Calls : (Held(d)' => Held(d)) /\ (Kept(d)' => Kept(d))
  BY <1>1, <1>3 DEF Held, Kept, OnlyOnce
<1>5. InOnePlace'
  BY <1>1, <1>2, <1>4, NoNewPlace DEF Asked, Owing, Told
<1> QED BY <1>1, <1>2, <1>3, <1>5 DEF OnlyOnce, OneEach

(* readLoop always finds room in the channel it is about to send on, for    *)
(* any number of Calls that return, give up or wait at any point, as long   *)
(* as the child numbers no requests of its own and answers no request twice.*)
THEOREM ReaderNeverBlocks ==
  ASSUME "request" \notin Behaviours, "duplicate" \notin Behaviours
  PROVE  Spec => []ReaderNotWedged
<1>1. OnceInv /\ [Next]_vars => OnceInv'
  <2> SUFFICES ASSUME OnceInv, [Next]_vars PROVE OnceInv'
    OBVIOUS
  <2>1. OwnInv'
    BY OwnInvStep DEF OnceInv
  <2>2. InOnePlace' /\ OnlyOnce'
    <3>1. CASE ChildNext /\ UNCHANGED <<muVars, callVars, readVars, ctlVars>>
      BY <3>1, ChildOnceStep
    <3>2. CASE CallNext
      BY <3>2, CallOnceStep DEF CallNext
    <3>3. CASE NotifyNext
      BY <3>3, NotifyOnceStep DEF NotifyNext
    <3>4. CASE ReadNext
      BY <3>4, ReadOnceStep
    <3>5. CASE StartNext \/ StopNext \/ UNCHANGED vars
      BY <3>5, ControlOnceStep
    <3> QED BY <3>1, <3>2, <3>3, <3>4, <3>5 DEF Next
  <2> QED BY <2>1, <2>2 DEF OnceInv
<1>2. OnceInv => ReaderNotWedged
  <2> SUFFICES ASSUME OnceInv, readPc = "deliver" PROVE chan[heldFor] = NoLine
    BY DEF ReaderNotWedged
  <2>1. heldFor \in Calls
    BY DEF OnceInv, OwnInv, TypeOK, ReadTypeOK
  <2> QED BY <2>1 DEF OnceInv, InOnePlace, Held, Kept
<1> QED BY <1>1, <1>2, InitOnceInv, PTL DEF Spec
=============================================================================
